------------------------- MODULE ServerStoreProofs -------------------------
(***************************************************************************)
(* Proofs about ServerStore: what is written to the cells is read there,   *)
(* for every width of fingerprints, values and cells, the hints belong to  *)
(* the cells served, and the server on its store implements IkpirServer.   *)
(***************************************************************************)
EXTENDS ServerStore, CuckooKVStoreProofs, DigitsProofs

-----------------------------------------------------------------------------
(* Widths. *)

\* The bits of the widest field and of a cell.
Width == fingerprint_bits + plaintext_bits

LEMMA WidthLaw ==
  /\ fingerprint_bits \in Nat \ {0} /\ plaintext_bits \in Nat \ {0}
  /\ value_bits \in Nat \ {0} /\ Width \in Nat
  /\ plaintext_bits \in 0 .. Width /\ fingerprint_bits \in 0 .. Width
  /\ Lawful(2, Width) /\ Lawful(2, plaintext_bits)
<1>1. /\ fingerprint_bits \in Nat \ {0} /\ plaintext_bits \in Nat \ {0}
      /\ value_bits \in Nat \ {0} /\ PowersUpTo(2, Width)
  BY BitsAssumption DEF Width
<1>2. Width \in Nat /\ plaintext_bits \in 0 .. Width /\ fingerprint_bits \in 0 .. Width
  BY <1>1 DEF Width
<1>3. PowersUpTo(2, plaintext_bits)
  BY <1>1, <1>2 DEF PowersUpTo
<1> QED
  BY <1>1, <1>2, <1>3 DEF Lawful

\* Rounding up: the first multiple that is not below.
LEMMA CeilDivLaw ==
  ASSUME NEW a \in Nat, NEW b \in Nat \ {0}
  PROVE  /\ CeilDiv(a, b) \in Nat
         /\ a <= CeilDiv(a, b) * b
         /\ \A i \in Nat : i < CeilDiv(a, b) <=> i * b < a
<1> DEFINE x == a + b - 1
           q == x \div b
           r == x % b
<1>1. x \in Nat /\ q \in Nat /\ r \in 0 .. b - 1 /\ x = b * q + r
  <2>1. x \in Nat
    OBVIOUS
  <2> HIDE DEF x
  <2> QED
    BY <2>1, DivMod
<1>2. CeilDiv(a, b) = q
  BY DEF CeilDiv
<1>3. a + (b - 1) = b * q + r
  BY <1>1
<1> HIDE DEF x, q, r
<1>4. a <= q * b
  <2> DEFINE c == b * q
  <2>1. c \in Nat /\ q * b = c
    BY <1>1
  <2>2. a + (b - 1) = c + r
    BY <1>3
  <2> HIDE DEF c
  <2>3. a <= c
    BY <1>1, <2>1, <2>2
  <2> QED
    BY <2>1, <2>3
<1>5. ASSUME NEW i \in Nat PROVE i < q <=> i * b < a
  <2> DEFINE c == b * q
             d == i * b
  <2>1. c \in Nat /\ d \in Nat
    BY <1>1
  <2>2. a + (b - 1) = c + r
    BY <1>3
  <2>3. ASSUME i < q PROVE d + b <= c
    <3>1. i + 1 <= q
      BY <1>1, <2>3
    <3>2. b * (i + 1) <= b * q
      BY <1>1, <3>1
    <3>3. b * (i + 1) = d + b
      OBVIOUS
    <3> QED
      BY <3>2, <3>3
  <2>4. ASSUME ~(i < q) PROVE c <= d
    <3>1. q <= i
      BY <1>1, <2>4
    <3>2. b * q <= b * i
      BY <1>1, <3>1
    <3> QED
      BY <3>2
  <2> HIDE DEF c, d
  <2>5. i < q => d < a
    BY <1>1, <2>1, <2>2, <2>3
  <2>6. ~(i < q) => ~(d < a)
    BY <1>1, <2>1, <2>2, <2>4
  <2> QED
    BY <2>5, <2>6 DEF d
<1> QED
  BY <1>1, <1>2, <1>4, <1>5

\* The cell a bit is in.
LEMMA DivLaw ==
  ASSUME NEW a \in Nat, NEW b \in Nat \ {0}
  PROVE  /\ a \div b \in Nat
         /\ \A i \in Nat : a \div b <= i <=> a < i * b + b
<1> DEFINE q == a \div b
           r == a % b
<1>1. q \in Nat /\ r \in 0 .. b - 1 /\ a = b * q + r
  BY DivMod
<1> HIDE DEF q, r
<1>2. ASSUME NEW i \in Nat PROVE q <= i <=> a < i * b + b
  <2> DEFINE c == b * q
             d == i * b
  <2>1. c \in Nat /\ d \in Nat /\ a = c + r
    BY <1>1
  <2>2. ASSUME q <= i PROVE c <= d
    <3>1. b * q <= b * i
      BY <1>1, <2>2
    <3> QED
      BY <3>1
  <2>3. ASSUME ~(q <= i) PROVE d + b <= c
    <3>1. i + 1 <= q
      BY <1>1, <2>3
    <3>2. b * (i + 1) <= b * q
      BY <1>1, <3>1
    <3>3. b * (i + 1) = d + b
      OBVIOUS
    <3> QED
      BY <3>2, <3>3
  <2> HIDE DEF c, d
  <2>4. q <= i => a < d + b
    BY <1>1, <2>1, <2>2
  <2>5. ~(q <= i) => ~(a < d + b)
    BY <1>1, <2>1, <2>3
  <2> QED
    BY <2>4, <2>5 DEF d
<1> QED
  BY <1>1, <1>2 DEF q

-----------------------------------------------------------------------------
(* Bits. *)

Pow(k)    == 2 ^ k
Bit(x, t) == Digit(2, x, t)

\* The laws of DigitsProofs that are needed, for base 2.
LEMMA BitLaws ==
  ASSUME NEW n, Lawful(2, n)
  PROVE  /\ n \in Nat
         /\ \A k \in 0 .. n : Pow(k) \in Nat \ {0}
         /\ \A i \in 0 .. n : \A j \in 0 .. n - i : Pow(i + j) = Pow(i) * Pow(j)
         /\ \A x \in Nat : \A s \in 0 .. n : \A d \in 0 .. n - s : Bit(x \div Pow(s), d) = Bit(x, s + d)
         /\ \A x \in Nat : \A k \in 0 .. n : \A d \in 0 .. k - 1 : Bit(x % Pow(k), d) = Bit(x, d)
         /\ \A x \in 0 .. Pow(n) - 1 : \A y \in 0 .. Pow(n) - 1 :
              (\A d \in 0 .. n - 1 : Bit(x, d) = Bit(y, d)) => x = y
<1> DEFINE two == 2
<1>0. two = 2
  OBVIOUS
<1> HIDE DEF two
<1>1. Lawful(two, n)
  BY <1>0, Zenon
<1>2. n \in Nat
  BY <1>1 DEF Lawful
<1>3. \A k \in 0 .. n : two ^ k \in Nat \ {0}
  BY <1>1, PowerType
<1>4. ASSUME NEW i \in 0 .. n, NEW j \in 0 .. n - i PROVE two ^ (i + j) = two ^ i * two ^ j
  BY <1>1, PowerAdds
<1>5. ASSUME NEW x \in Nat, NEW s \in 0 .. n, NEW d \in 0 .. n - s
      PROVE  Digit(two, x \div two ^ s, d) = Digit(two, x, s + d)
  BY <1>1, DigitShift
<1>6. ASSUME NEW x \in Nat, NEW k \in 0 .. n, NEW d \in 0 .. k - 1
      PROVE  Digit(two, x % two ^ k, d) = Digit(two, x, d)
  BY <1>1, DigitOfMod
<1>7. ASSUME NEW x \in 0 .. two ^ n - 1, NEW y \in 0 .. two ^ n - 1,
             \A d \in 0 .. n - 1 : Digit(two, x, d) = Digit(two, y, d)
      PROVE  x = y
  BY <1>1, <1>7, SameDigits
<1>8. \A k : Pow(k) = two ^ k
  BY <1>0, Zenon DEF Pow
<1>9. \A x, t : Bit(x, t) = Digit(two, x, t)
  BY <1>0, Zenon DEF Bit
<1>10. \A k \in 0 .. n : Pow(k) \in Nat \ {0}
  BY <1>3, <1>8
<1>11. \A i \in 0 .. n : \A j \in 0 .. n - i : Pow(i + j) = Pow(i) * Pow(j)
  BY <1>4, <1>8
<1>12. \A x \in Nat : \A s \in 0 .. n : \A d \in 0 .. n - s : Bit(x \div Pow(s), d) = Bit(x, s + d)
  BY <1>5, <1>8, <1>9
<1>13. \A x \in Nat : \A k \in 0 .. n : \A d \in 0 .. k - 1 : Bit(x % Pow(k), d) = Bit(x, d)
  BY <1>6, <1>8, <1>9
<1>14. \A x \in 0 .. Pow(n) - 1 : \A y \in 0 .. Pow(n) - 1 :
         (\A d \in 0 .. n - 1 : Bit(x, d) = Bit(y, d)) => x = y
  BY <1>7, <1>8, <1>9
<1> QED
  BY <1>2, <1>10, <1>11, <1>12, <1>13, <1>14

\* A number that is spliced.
LEMMA BitSplice ==
  ASSUME NEW n, Lawful(2, n), NEW x \in Nat, NEW s \in 0 .. n, NEW w \in 0 .. n - s,
         NEW v \in 0 .. Pow(w) - 1
  PROVE  \A u \in 0 .. n : Bit(Spliced(2, x, s, w, v), u) =
                             IF u \in s .. s + w - 1 THEN Bit(v, u - s) ELSE Bit(x, u)
<1> DEFINE two == 2
<1>0. two = 2
  OBVIOUS
<1> HIDE DEF two
<1>1. Lawful(two, n) /\ \A k : Pow(k) = two ^ k
  BY <1>0, Zenon DEF Pow
<1>2. v \in 0 .. two ^ w - 1
  BY <1>1
<1>3. \A u \in 0 .. n : Digit(two, Spliced(two, x, s, w, v), u) =
                          IF u \in s .. s + w - 1 THEN Digit(two, v, u - s) ELSE Digit(two, x, u)
  BY <1>1, <1>2, Splice
<1>4. \A y, t : Bit(y, t) = Digit(two, y, t)
  BY <1>0, Zenon DEF Bit
<1>5. Spliced(2, x, s, w, v) = Spliced(two, x, s, w, v)
  BY <1>0, Zenon
<1> QED
  BY <1>3, <1>4, <1>5

\* Cells.
LEMMA CellLaw ==
  /\ PlainBound = Pow(plaintext_bits) /\ PlainBound \in Nat \ {0}
  /\ Cell = 0 .. PlainBound - 1 /\ 0 \in Cell
  /\ \A x \in Cell : x \in Nat /\ x <= PlainBound - 1
  /\ \A x \in Cell, y \in Cell : (\A t \in 0 .. plaintext_bits - 1 : Bit(x, t) = Bit(y, t)) => x = y
<1>1. PlainBound = Pow(plaintext_bits)
  BY Zenon DEF PlainBound, Pow
<1>2. Pow(plaintext_bits) \in Nat \ {0}
  BY WidthLaw, BitLaws
<1>3. Cell = 0 .. Pow(plaintext_bits) - 1
  BY <1>1, Zenon DEF Cell
<1>4. \A x \in Cell, y \in Cell : (\A t \in 0 .. plaintext_bits - 1 : Bit(x, t) = Bit(y, t)) => x = y
  BY <1>3, WidthLaw, BitLaws
<1> QED
  BY <1>1, <1>2, <1>3, <1>4

\* write_bits on one cell: the bits from lo to hi are replaced.
LEMMA WriteCellLaw ==
  ASSUME NEW cell \in Cell, NEW lo \in 0 .. plaintext_bits - 1, NEW hi \in lo + 1 .. plaintext_bits,
         NEW bits \in 0 .. Pow(hi - lo) - 1
  PROVE  /\ WriteCell(cell, lo, hi, bits) \in Cell
         /\ \A t \in 0 .. plaintext_bits - 1 :
              Bit(WriteCell(cell, lo, hi, bits), t) =
                IF t \in lo .. hi - 1 THEN Bit(bits, t - lo) ELSE Bit(cell, t)
<1> DEFINE n == plaintext_bits
           w == hi - lo
           L == Pow(lo)
           H == Pow(hi)
           W == Pow(w)
           T == Pow(n - hi)
           y == WriteCell(cell, lo, hi, bits)
           a == cell % L
           q == cell \div H
           r == cell % H
<1>1. n \in Nat /\ lo \in 0 .. n /\ w \in 0 .. n - lo /\ hi \in 0 .. n /\ lo + w = hi
      /\ n - hi \in 0 .. n - hi /\ hi + (n - hi) = n /\ w \in 0 .. n /\ n - hi \in 0 .. n
  BY WidthLaw
<1>2. L \in Nat \ {0} /\ H \in Nat \ {0} /\ W \in Nat \ {0} /\ T \in Nat \ {0}
  BY <1>1, WidthLaw, BitLaws
<1>3. H = L * W /\ PlainBound = H * T
  <2>1. Pow(lo + w) = Pow(lo) * Pow(w)
    BY <1>1, WidthLaw, BitLaws
  <2>2. Pow(hi + (n - hi)) = Pow(hi) * Pow(n - hi)
    BY <1>1, WidthLaw, BitLaws
  <2> QED
    BY <1>1, <2>1, <2>2, CellLaw
<1>4. cell \in Nat /\ cell <= PlainBound - 1 /\ bits \in Nat /\ bits <= W - 1
  BY <1>2, CellLaw
<1>5. a \in 0 .. L - 1 /\ q \in Nat /\ r \in 0 .. H - 1 /\ cell = H * q + r
  <2> HIDE DEF L, H
  <2> QED
    BY <1>2, <1>4, DivMod
<1>6. y = a + bits * L + q * H
  BY Zenon DEF WriteCell, Pow
<1>7. y = Spliced(2, cell, lo, w, bits)
  <2>1. Spliced(2, cell, lo, w, bits) = a + q * H + bits * L
    <3>1. Pow(lo + w) = H
      BY <1>1
    <3> HIDE DEF w, H
    <3>2. Spliced(2, cell, lo, w, bits)
            = (cell % Pow(lo)) + (cell \div Pow(lo + w)) * Pow(lo + w) + bits * Pow(lo)
      BY Zenon DEF Spliced, Pow
    <3> QED
      BY <3>1, <3>2, Zenon
  <2> DEFINE b == bits * L
             c == q * H
  <2>2. b \in Nat /\ c \in Nat /\ a \in Nat
    BY <1>2, <1>4, <1>5
  <2>3. y = a + b + c /\ Spliced(2, cell, lo, w, bits) = a + c + b
    BY <1>6, <2>1, Zenon
  <2> HIDE DEF b, c, y, a, w
  <2>4. a + b + c = a + c + b
    BY <2>2
  <2> QED
    BY <2>3, <2>4
<1>8. y \in Cell
  <2> HIDE DEF L, H, W, T, a, q, r, y, w
  <2> DEFINE b == bits * L
             c == q * H
  <2>1. b + L <= H /\ b \in Nat
    <3>1. (bits + 1) * L <= W * L
      BY <1>2, <1>4
    <3>2. (bits + 1) * L = bits * L + L /\ W * L = L * W /\ bits * L \in Nat
      BY <1>2, <1>4
    <3> QED
      BY <1>2, <1>3, <3>1, <3>2
  <2>2. c + H <= PlainBound /\ c \in Nat
    <3>1. q < T
      <4> SUFFICES ASSUME T <= q PROVE FALSE
        BY <1>2, <1>5
      <4>1. H * T <= H * q
        BY <1>2, <1>5
      <4> DEFINE d == H * q
                 e == H * T
      <4>2. d \in Nat /\ e \in Nat /\ e <= d /\ cell = d + r /\ PlainBound = e
        BY <1>2, <1>3, <1>5, <4>1
      <4> HIDE DEF d, e
      <4> QED
        BY <1>2, <1>4, <1>5, <4>2
    <3>2. (q + 1) * H <= T * H
      BY <1>2, <1>5, <3>1
    <3>3. (q + 1) * H = q * H + H /\ T * H = H * T /\ q * H \in Nat
      BY <1>2, <1>5
    <3> QED
      BY <1>3, <3>2, <3>3
  <2>3. y = a + b + c
    BY <1>6, Zenon
  <2> HIDE DEF b, c
  <2>4. y \in Nat /\ y <= PlainBound - 1
    BY <1>2, <1>5, <2>1, <2>2, <2>3, CellLaw
  <2> QED
    BY <2>4, CellLaw
<1>9. ASSUME NEW t \in 0 .. n - 1
      PROVE  Bit(y, t) = IF t \in lo .. hi - 1 THEN Bit(bits, t - lo) ELSE Bit(cell, t)
  <2> HIDE DEF y
  <2>1. t \in 0 .. n
    BY <1>1
  <2>2. \A u \in 0 .. n : Bit(Spliced(2, cell, lo, w, bits), u) =
                            IF u \in lo .. lo + w - 1 THEN Bit(bits, u - lo) ELSE Bit(cell, u)
    BY <1>1, <1>4, BitSplice, WidthLaw
  <2> QED
    BY <1>1, <1>7, <2>1, <2>2
<1> QED
  BY <1>8, <1>9

-----------------------------------------------------------------------------
(* Arrays of cells, and what is written to them.                           *)

LEMMA MaxOfPair ==
  ASSUME NEW a \in Int, NEW b \in Int
  PROVE  Max({a, b}) = IF a >= b THEN a ELSE b
BY DEF Max

LEMMA MinOfPair ==
  ASSUME NEW a \in Int, NEW b \in Int
  PROVE  Min({a, b}) = IF a <= b THEN a ELSE b
BY DEF Min

\* m cells.
Strips(m) == [0 .. m - 1 -> Cell]

\* The bits of an array of m cells, as cells of the bits that b gives.
HoldsBits(cs, m, b) ==
  /\ cs \in Strips(m)
  /\ \A i \in 0 .. m - 1 : \A t \in 0 .. plaintext_bits - 1 : Bit(cs[i], t) = b[i][t]

\* Arrays with the same bits are the same.
LEMMA SameBits ==
  ASSUME NEW m, NEW cs \in Strips(m), NEW ds \in Strips(m),
         \A i \in 0 .. m - 1 : \A t \in 0 .. plaintext_bits - 1 : Bit(cs[i], t) = Bit(ds[i], t)
  PROVE  cs = ds
<1>1. ASSUME NEW i \in 0 .. m - 1 PROVE cs[i] = ds[i]
  <2>1. cs[i] \in Cell /\ ds[i] \in Cell
    BY DEF Strips
  <2> QED
    BY <2>1, CellLaw
<1>2. cs = [i \in 0 .. m - 1 |-> cs[i]] /\ ds = [i \in 0 .. m - 1 |-> ds[i]]
  BY DEF Strips
<1> QED
  BY <1>1, <1>2, Zenon

\* An array can have any bits.
LEMMA AnyBits ==
  ASSUME NEW m, NEW b \in [0 .. m - 1 -> [0 .. plaintext_bits - 1 -> 0 .. 1]]
  PROVE  HoldsBits([i \in 0 .. m - 1 |-> FromDigits(2, b[i])], m, b)
<1> DEFINE two == 2
           cs == [i \in 0 .. m - 1 |-> FromDigits(2, b[i])]
<1>0. two = 2 /\ two - 1 = 1
  OBVIOUS
<1> HIDE DEF two
<1>1. Lawful(two, plaintext_bits)
  BY <1>0, WidthLaw, Zenon
<1>2. ASSUME NEW i \in 0 .. m - 1
      PROVE  /\ FromDigits(two, b[i]) \in 0 .. two ^ plaintext_bits - 1
             /\ \A t \in 0 .. plaintext_bits - 1 : Digit(two, FromDigits(two, b[i]), t) = b[i][t]
  <2>1. b[i] \in [0 .. plaintext_bits - 1 -> 0 .. two - 1]
    BY <1>0
  <2> QED
    BY <1>1, <2>1, FromDigitsLaw
<1>3. two ^ plaintext_bits = PlainBound
  BY <1>0, Zenon DEF PlainBound
<1>4. \A x, t : Bit(x, t) = Digit(two, x, t)
  BY <1>0, Zenon DEF Bit
<1>5. \A i \in 0 .. m - 1 : cs[i] = FromDigits(two, b[i])
  BY <1>0, Zenon
<1> HIDE DEF cs
<1>6. \A i \in 0 .. m - 1 : cs[i] \in Cell
  BY <1>2, <1>3, <1>5, CellLaw
<1>7. \A i \in 0 .. m - 1 : \A t \in 0 .. plaintext_bits - 1 : Bit(cs[i], t) = b[i][t]
  BY <1>2, <1>4, <1>5
<1>8. cs = [i \in 0 .. m - 1 |-> cs[i]]
  BY DEF cs
<1> QED
  BY <1>6, <1>7, <1>8 DEF HoldsBits, Strips, cs

\* write_bits: the bits from the offset on are those of the value, the others
\* stay.
LEMMA WriteBitsLaw ==
  ASSUME NEW m \in Nat, NEW cs \in Strips(m), NEW off \in Nat, NEW n \in 1 .. Width,
         off + n <= m * plaintext_bits, NEW value \in Nat
  PROVE  /\ WriteBits(cs, off, n, value) \in Strips(m)
         /\ \A i \in 0 .. m - 1 : \A t \in 0 .. plaintext_bits - 1 :
              Bit(WriteBits(cs, off, n, value)[i], t) =
                IF i * plaintext_bits + t \in off .. off + n - 1
                THEN Bit(value, i * plaintext_bits + t - off) ELSE Bit(cs[i], t)
<1> DEFINE P == plaintext_bits
           end == off + n
           new == WriteBits(cs, off, n, value)
           lo(i) == Max({off - i * P, 0})
           hi(i) == Min({end - i * P, P})
           s(i)  == i * P + lo(i) - off
           v(i)  == (value \div 2^s(i)) % 2^(hi(i) - lo(i))
           inside(i) == i \in (off \div P) .. (CeilDiv(end, P) - 1)
<1>1. P \in Nat \ {0} /\ Width \in Nat /\ end \in Nat /\ n \in Nat \ {0} /\ n \in 0 .. Width
  BY WidthLaw
<1>2. DOMAIN cs = 0 .. m - 1 /\ \A i \in 0 .. m - 1 : cs[i] \in Cell
  BY DEF Strips
<1>3. new = [i \in 0 .. m - 1 |-> IF inside(i) THEN WriteCell(cs[i], lo(i), hi(i), v(i)) ELSE cs[i]]
  BY <1>2, Zenon DEF WriteBits
<1>4. ASSUME NEW i \in 0 .. m - 1
      PROVE  inside(i) <=> off < i * P + P /\ i * P < end
  <2>1. i \in Nat
    OBVIOUS
  <2>2. off \div P \in Nat /\ (off \div P <= i <=> off < i * P + P)
    BY <1>1, <2>1, DivLaw
  <2>3. CeilDiv(end, P) \in Nat /\ (i < CeilDiv(end, P) <=> i * P < end)
    BY <1>1, <2>1, CeilDivLaw
  <2> DEFINE a == off \div P
             c == CeilDiv(end, P)
  <2> HIDE DEF a, c
  <2>4. i \in a .. (c - 1) <=> a <= i /\ i < c
    BY <2>1, <2>2, <2>3 DEF a, c
  <2> QED
    BY <2>2, <2>3, <2>4 DEF a, c
<1> HIDE DEF inside
<1>5. ASSUME NEW i \in 0 .. m - 1, inside(i)
      PROVE  /\ lo(i) \in 0 .. P - 1 /\ hi(i) \in lo(i) + 1 .. P /\ s(i) \in 0 .. n - (hi(i) - lo(i))
             /\ \A t \in 0 .. P - 1 : t \in lo(i) .. hi(i) - 1 <=> i * P + t \in off .. end - 1
  <2> DEFINE base == i * P
  <2>1. base \in Nat /\ off < base + P /\ base < end
    BY <1>1, <1>4, <1>5
  <2>2. lo(i) = IF off - base >= 0 THEN off - base ELSE 0
    BY <2>1, MaxOfPair
  <2>3. hi(i) = IF end - base <= P THEN end - base ELSE P
    BY <1>1, <2>1, MinOfPair
  <2>4. s(i) = base + lo(i) - off
    BY Zenon
  <2> HIDE DEF lo, hi, s
  <2> DEFINE l == lo(i)
             h == hi(i)
             z == s(i)
  <2>5. l = lo(i) /\ h = hi(i) /\ z = s(i)
    OBVIOUS
  <2> HIDE DEF base, l, h, z
  <2>6. l \in Int /\ h \in Int /\ z \in Int
    BY <1>1, <2>1, <2>2, <2>3, <2>4, <2>5
  <2>7. l \in 0 .. P - 1 /\ h \in l + 1 .. P
    BY <1>1, <2>1, <2>2, <2>3, <2>5
  <2>8. z \in 0 .. n - (h - l)
    BY <1>1, <2>1, <2>2, <2>3, <2>4, <2>5
  <2>9. \A t \in 0 .. P - 1 : t \in l .. h - 1 <=> base + t \in off .. end - 1
    BY <1>1, <2>1, <2>2, <2>3, <2>5
  <2> QED
    BY <2>5, <2>7, <2>8, <2>9 DEF base
<1> HIDE DEF lo, hi, s, new
<1>6. ASSUME NEW i \in 0 .. m - 1, inside(i)
      PROVE  /\ v(i) \in 0 .. Pow(hi(i) - lo(i)) - 1
             /\ \A t \in 0 .. P - 1 : t \in lo(i) .. hi(i) - 1 =>
                  Bit(v(i), t - lo(i)) = Bit(value, s(i) + (t - lo(i)))
  <2> DEFINE w == hi(i) - lo(i)
             y == value \div Pow(s(i))
  <2>1. v(i) = y % Pow(w)
    BY Zenon DEF Pow
  <2>2. w \in 0 .. n /\ s(i) \in 0 .. n /\ s(i) + w <= n
    BY <1>1, <1>5, <1>6
  <2>3. w \in 0 .. Width /\ s(i) \in 0 .. Width /\ s(i) + w <= Width
    BY <1>1, <2>2
  <2>4. Pow(w) \in Nat \ {0} /\ Pow(s(i)) \in Nat \ {0}
    BY <2>3, BitLaws, WidthLaw
  <2>5. y \in Nat
    BY <2>4, DivMod
  <2> HIDE DEF v, y
  <2>6. y % Pow(w) \in 0 .. Pow(w) - 1
    <3> HIDE DEF w
    <3> QED
      BY <2>4, <2>5, DivMod
  <2>7. ASSUME NEW t \in 0 .. P - 1, t \in lo(i) .. hi(i) - 1
        PROVE  Bit(v(i), t - lo(i)) = Bit(value, s(i) + (t - lo(i)))
    <3> DEFINE d == t - lo(i)
    <3>1. lo(i) \in Nat /\ hi(i) \in Nat
      BY <1>5, <1>6, <1>1
    <3>2. d \in 0 .. w - 1
      BY <2>7, <3>1
    <3>3. d \in 0 .. Width - s(i)
      BY <1>1, <2>3, <3>2
    <3> HIDE DEF d, w
    <3>4. Bit(y % Pow(w), d) = Bit(y, d)
      <4>1. \A x \in Nat : \A k \in 0 .. Width : \A e \in 0 .. k - 1 : Bit(x % Pow(k), e) = Bit(x, e)
        BY BitLaws, WidthLaw
      <4> QED
        BY <2>3, <2>5, <3>2, <4>1
    <3>5. Bit(value \div Pow(s(i)), d) = Bit(value, s(i) + d)
      BY <2>3, <3>3, BitLaws, WidthLaw
    <3> QED
      BY <2>1, <3>4, <3>5 DEF y, d
  <2> QED
    BY <2>1, <2>6, <2>7
<1> HIDE DEF v
<1>7. ASSUME NEW i \in 0 .. m - 1
      PROVE  /\ new[i] \in Cell
             /\ \A t \in 0 .. P - 1 :
                  Bit(new[i], t) = IF i * P + t \in off .. end - 1
                                   THEN Bit(value, i * P + t - off) ELSE Bit(cs[i], t)
  <2>1. CASE inside(i)
    <3>1. new[i] = WriteCell(cs[i], lo(i), hi(i), v(i))
      BY <1>3, <2>1
    <3>2. /\ new[i] \in Cell
          /\ \A t \in 0 .. P - 1 : Bit(new[i], t) = IF t \in lo(i) .. hi(i) - 1
                                                    THEN Bit(v(i), t - lo(i)) ELSE Bit(cs[i], t)
      BY <1>2, <1>5, <1>6, <2>1, <3>1, WriteCellLaw
    <3>3. ASSUME NEW t \in 0 .. P - 1, t \in lo(i) .. hi(i) - 1
          PROVE  Bit(v(i), t - lo(i)) = Bit(value, i * P + t - off)
      <4> DEFINE base == i * P
      <4>1. base \in Nat
        BY <1>1
      <4>2. s(i) = base + lo(i) - off
        BY Zenon DEF s
      <4>3. lo(i) \in Nat
        BY <1>1, <1>5, <2>1
      <4> HIDE DEF base
      <4>4. s(i) + (t - lo(i)) = base + t - off
        BY <4>1, <4>2, <4>3
      <4>5. Bit(v(i), t - lo(i)) = Bit(value, s(i) + (t - lo(i)))
        BY <1>6, <2>1, <3>3
      <4> QED
        BY <4>4, <4>5 DEF base
    <3> QED
      BY <1>5, <2>1, <3>2, <3>3
  <2>2. CASE ~inside(i)
    <3>1. new[i] = cs[i] /\ new[i] \in Cell
      BY <1>2, <1>3, <2>2
    <3>2. ASSUME NEW t \in 0 .. P - 1 PROVE i * P + t \notin off .. end - 1
      <4> DEFINE base == i * P
      <4>1. base \in Nat
        BY <1>1
      <4>2. ~(off < base + P /\ base < end)
        BY <1>4, <2>2
      <4> HIDE DEF base
      <4>3. base + t \notin off .. end - 1
        BY <1>1, <4>1, <4>2
      <4> QED
        BY <4>3 DEF base
    <3> QED
      BY <3>1, <3>2
  <2> QED
    BY <2>1, <2>2
<1>8. new \in Strips(m)
  <2>1. new = [i \in 0 .. m - 1 |-> new[i]]
    BY <1>3
  <2> QED
    BY <1>7, <2>1 DEF Strips
<1> QED
  BY <1>7, <1>8 DEF new

-----------------------------------------------------------------------------
(* Values.                                                                 *)

\* The bit u of a value.
ValueBit(vc, u) == Bit(vc[u \div plaintext_bits], u % plaintext_bits)

\* Cells of a value, of any width.
ValueArrays == [ValueIndex -> Nat]

\* The field of a value in which a bit is.
LEMMA FieldLaw ==
  ASSUME NEW f \in ValueIndex
  PROVE  /\ f \in Nat /\ f * plaintext_bits \in Nat
         /\ FieldBits(f) \in 1 .. plaintext_bits
         /\ f * plaintext_bits + FieldBits(f) <= value_bits
         /\ \A u \in Nat : u \in f * plaintext_bits .. f * plaintext_bits + FieldBits(f) - 1
                             <=> u < value_bits /\ u \div plaintext_bits = f
         /\ \A u \in f * plaintext_bits .. f * plaintext_bits + FieldBits(f) - 1 :
              u % plaintext_bits = u - f * plaintext_bits
<1> DEFINE P == plaintext_bits
           V == value_bits
           base == f * P
<1>1. P \in Nat \ {0} /\ V \in Nat \ {0}
  BY WidthLaw
<1>2. f \in Nat /\ f < CeilDiv(V, P)
  <2>1. CeilDiv(V, P) \in Nat
    BY <1>1, CeilDivLaw
  <2> QED
    BY <2>1 DEF ValueIndex, value_size_in_cells
<1>3. base \in Nat /\ base < V
  BY <1>1, <1>2, CeilDivLaw
<1>4. FieldBits(f) = IF V - base <= P THEN V - base ELSE P
  BY <1>1, <1>3, MinOfPair DEF FieldBits
<1>5. ASSUME NEW u \in Nat, u \in base .. base + P - 1
      PROVE  u \div P = f /\ u % P = u - base
  <2>1. u - base \in 0 .. P - 1 /\ u = base + (u - base)
    BY <1>1, <1>3, <1>5
  <2>2. base = P * f
    BY <1>1, <1>2
  <2> DEFINE r == u - base
  <2>3. r \in 0 .. P - 1 /\ u = P * f + r
    BY <2>1, <2>2
  <2> HIDE DEF r
  <2>4. u \div P = f /\ u % P = r
    BY <1>1, <1>2, <2>3, DivIs
  <2> QED
    BY <2>4 DEF r
<1>6. ASSUME NEW u \in Nat, u \div P = f
      PROVE  u \in base .. base + P - 1
  <2> DEFINE r == u % P
             q == u \div P
  <2>1. r \in 0 .. P - 1 /\ u = P * q + r
    BY <1>1, DivMod
  <2> HIDE DEF r, q
  <2>2. q = f
    BY <1>6 DEF q
  <2>3. u = P * f + r
    BY <2>1, <2>2
  <2>4. P * f = base
    BY <1>1, <1>2
  <2>5. u = base + r
    BY <2>3, <2>4
  <2> HIDE DEF base
  <2> QED
    BY <1>1, <1>3, <2>1, <2>5
<1> HIDE DEF base
<1>7. FieldBits(f) \in 1 .. P /\ base + FieldBits(f) <= V
  BY <1>1, <1>3, <1>4
<1>8. \A u \in Nat : u \in base .. base + FieldBits(f) - 1 <=> u < V /\ u \in base .. base + P - 1
  BY <1>1, <1>3, <1>4
<1>9. ASSUME NEW u \in base .. base + FieldBits(f) - 1 PROVE u % P = u - base
  <2>1. u \in Nat /\ u \in base .. base + P - 1
    BY <1>1, <1>3, <1>7
  <2> QED
    BY <1>5, <2>1
<1> QED
  BY <1>2, <1>3, <1>5, <1>6, <1>7, <1>8, <1>9 DEF base

\* Every bit of a value is in one of its fields.
LEMMA FieldOfBit ==
  ASSUME NEW u \in 0 .. value_bits - 1
  PROVE  u \div plaintext_bits \in ValueIndex
<1> DEFINE P == plaintext_bits
           q == u \div P
           r == u % P
<1>1. P \in Nat \ {0} /\ value_bits \in Nat \ {0} /\ u \in Nat
  BY WidthLaw
<1>2. q \in Nat /\ r \in Nat /\ u = P * q + r
  BY <1>1, DivMod
<1>3. q * P < value_bits
  <2> HIDE DEF q, r
  <2> DEFINE a == P * q
  <2>1. a \in Nat /\ q * P = a /\ u = a + r
    BY <1>1, <1>2
  <2> HIDE DEF a
  <2>2. a < value_bits
    BY <1>1, <1>2, <2>1
  <2> QED
    BY <2>1, <2>2
<1> HIDE DEF q
<1>4. CeilDiv(value_bits, P) \in Nat /\ q < CeilDiv(value_bits, P)
  BY <1>1, <1>2, <1>3, CeilDivLaw
<1> QED
  BY <1>2, <1>4 DEF ValueIndex, value_size_in_cells, q

\* The bits of an array in which the fields s of a value, counted from 1, are
\* written from the bit at on.
ValueInBit(cs, at, vc, s, i, t) ==
  LET u == i * plaintext_bits + t - at
  IN  IF u \in 0 .. value_bits - 1 /\ (u \div plaintext_bits) + 1 \in s
      THEN ValueBit(vc, u) ELSE Bit(cs[i], t)

ValueIn(m, cs, at, vc, s) ==
  [i \in 0 .. m - 1 |-> [t \in 0 .. plaintext_bits - 1 |-> ValueInBit(cs, at, vc, s, i, t)]]

\* Digits in base 2 are bits.
LEMMA BitType == \A x \in Nat : \A t \in 0 .. Width - 1 : Bit(x, t) \in 0 .. 1
<1> SUFFICES ASSUME NEW x \in Nat, NEW t \in 0 .. Width - 1 PROVE Bit(x, t) \in 0 .. 1
  OBVIOUS
<1> DEFINE two == 2
<1>0. two = 2
  OBVIOUS
<1> HIDE DEF two
<1>1. Lawful(two, Width)
  BY <1>0, WidthLaw, Zenon
<1>2. Digit(two, x, t) \in 0 .. two - 1
  BY <1>1, DigitStep
<1>3. Bit(x, t) = Digit(two, x, t)
  BY <1>0, Zenon DEF Bit
<1> QED
  BY <1>0, <1>2, <1>3

\* The bits of a value are bits.
LEMMA ValueBitType ==
  ASSUME NEW vc \in ValueArrays, NEW u \in 0 .. value_bits - 1
  PROVE  ValueBit(vc, u) \in 0 .. 1
<1>1. vc[u \div plaintext_bits] \in Nat
  BY FieldOfBit DEF ValueArrays
<1>2. u % plaintext_bits \in 0 .. plaintext_bits - 1
  <2>1. u \in Nat
    BY WidthLaw
  <2> QED
    BY <2>1, WidthLaw, DivMod
<1>3. u % plaintext_bits \in 0 .. Width - 1
  BY <1>2, WidthLaw
<1> QED
  BY <1>1, <1>3, BitType DEF ValueBit

LEMMA ValueInType ==
  ASSUME NEW m \in Nat, NEW cs \in Strips(m), NEW at \in Nat, NEW vc \in ValueArrays, NEW s
  PROVE  ValueIn(m, cs, at, vc, s) \in [0 .. m - 1 -> [0 .. plaintext_bits - 1 -> 0 .. 1]]
<1> SUFFICES ASSUME NEW i \in 0 .. m - 1, NEW t \in 0 .. plaintext_bits - 1
    PROVE  ValueIn(m, cs, at, vc, s)[i][t] \in 0 .. 1
  BY DEF ValueIn
<1> DEFINE u == i * plaintext_bits + t - at
<1>1. ValueIn(m, cs, at, vc, s)[i][t]
        = IF u \in 0 .. value_bits - 1 /\ (u \div plaintext_bits) + 1 \in s
          THEN ValueBit(vc, u) ELSE Bit(cs[i], t)
  BY Zenon DEF ValueIn, ValueInBit
<1>2. cs[i] \in Nat /\ t \in 0 .. Width - 1
  BY WidthLaw, CellLaw DEF Strips
<1>3. Bit(cs[i], t) \in 0 .. 1
  BY <1>2, BitType
<1> HIDE DEF u
<1> QED
  BY <1>1, <1>3, ValueBitType

\* write_value, once the fields s are written.
ValueCellsIn(m, cs, at, vc, s) == [i \in 0 .. m - 1 |-> FromDigits(2, ValueIn(m, cs, at, vc, s)[i])]

LEMMA ValueInLaw ==
  ASSUME NEW m \in Nat, NEW cs \in Strips(m), NEW at \in Nat, NEW vc \in ValueArrays, NEW s
  PROVE  HoldsBits(ValueCellsIn(m, cs, at, vc, s), m, ValueIn(m, cs, at, vc, s))
BY ValueInType, AnyBits, Zenon DEF ValueCellsIn

\* The step of write_value that writes field x - 1.
WriteField(c, at, vc, x) ==
  WriteBits(c, at + FieldStart(x - 1), FieldBits(x - 1), vc[x - 1] % 2^FieldBits(x - 1))

LEMMA WriteFieldLaw ==
  ASSUME NEW m \in Nat, NEW cs \in Strips(m), NEW at \in Nat, NEW vc \in ValueArrays,
         NEW s, NEW x \in Int, x \in s, x - 1 \in ValueIndex, NEW z, z = at + fingerprint_bits,
         z + value_bits <= m * plaintext_bits
  PROVE  WriteField(ValueCellsIn(m, cs, z, vc, s \ {x}), at, vc, x) = ValueCellsIn(m, cs, z, vc, s)
<1> DEFINE P == plaintext_bits
           f == x - 1
           n == FieldBits(f)
           off == z + f * P
           value == vc[f] % Pow(n)
           c == ValueCellsIn(m, cs, z, vc, s \ {x})
           d == ValueCellsIn(m, cs, z, vc, s)
           b == ValueIn(m, cs, z, vc, s \ {x})
           e == ValueIn(m, cs, z, vc, s)
           new == WriteBits(c, off, n, value)
<1>1. P \in Nat \ {0} /\ z \in Nat /\ Width \in Nat /\ P \in 0 .. Width
  BY WidthLaw
<1>2. /\ f \in Nat /\ f * P \in Nat /\ n \in 1 .. P /\ f * P + n <= value_bits
      /\ \A u \in Nat : u \in f * P .. f * P + n - 1 <=> u < value_bits /\ u \div P = f
      /\ \A u \in f * P .. f * P + n - 1 : u % P = u - f * P
  BY FieldLaw
<1>3. HoldsBits(c, m, b) /\ HoldsBits(d, m, e)
  BY <1>1, ValueInLaw
<1>4. vc[f] \in Nat
  BY DEF ValueArrays
<1> HIDE DEF f
<1>5. n \in 1 .. Width /\ n \in 0 .. Width
  BY <1>1, <1>2
<1> HIDE DEF n
<1>6. Pow(n) \in Nat \ {0} /\ value \in Nat
  <2>1. Pow(n) \in Nat \ {0}
    BY <1>5, BitLaws, WidthLaw
  <2> QED
    BY <1>4, <2>1, DivMod
<1>7. WriteField(c, at, vc, x) = new
  <2>1. at + FieldStart(f) = off
    <3>1. at + (fingerprint_bits + f * P) = at + fingerprint_bits + f * P
      BY <1>2, WidthLaw
    <3> QED
      BY <3>1, Zenon DEF FieldStart
  <2>2. WriteField(c, at, vc, x) = WriteBits(c, at + FieldStart(f), n, value)
    BY Zenon DEF WriteField, Pow, n, f
  <2> QED
    BY <2>1, <2>2, Zenon
<1> HIDE DEF c, d, b, e, value
<1>8. off \in Nat /\ off + n <= m * P
  <2> DEFINE g == f * P
             h == m * P
  <2> HIDE DEF g, h
  <2>1. g \in Nat /\ g + n <= value_bits /\ z + value_bits <= h /\ h \in Int
    BY <1>1, <1>2 DEF g, h
  <2>2. z + g \in Nat /\ (z + g) + n <= h
    BY <1>1, <1>5, <2>1, WidthLaw
  <2> QED
    BY <2>2 DEF g, h
<1> HIDE DEF off
<1>9. c \in Strips(m) /\ d \in Strips(m)
  BY <1>3 DEF HoldsBits
<1>10. /\ new \in Strips(m)
       /\ \A i \in 0 .. m - 1 : \A t \in 0 .. P - 1 :
            Bit(new[i], t) = IF i * P + t \in off .. off + n - 1 THEN Bit(value, i * P + t - off) ELSE Bit(c[i], t)
  BY <1>5, <1>6, <1>8, <1>9, WriteBitsLaw
<1> HIDE DEF new
<1>11. ASSUME NEW i \in 0 .. m - 1, NEW t \in 0 .. P - 1
       PROVE  Bit(new[i], t) = Bit(d[i], t)
  <2> DEFINE pos == i * P + t
             u == i * P + t - z
             g == f * P
             k == u \div P
  <2>0. u = pos - z /\ i * P + t - off = pos - off /\ off \in Int
    <3> DEFINE base == i * P
    <3>1. base \in Nat /\ off \in Nat
      BY <1>1, <1>8
    <3> HIDE DEF base
    <3>2. base + t - z = base + (t - z) /\ base + t - off = (base + t) - off /\ base + t - z = (base + t) - z
      BY <1>1, <3>1
    <3> QED
      BY <3>1, <3>2 DEF base
  <2>1. pos \in Nat /\ u \in Int /\ g \in Nat /\ off = z + g
    <3>1. off = z + g
      BY Zenon DEF off
    <3>2. pos \in Nat /\ g \in Nat
      BY <1>1, <1>2
    <3>3. u = pos - z
      BY <2>0
    <3> HIDE DEF pos, u
    <3> QED
      BY <1>1, <3>1, <3>2, <3>3
  <2>2. /\ Bit(c[i], t) = b[i][t] /\ Bit(d[i], t) = e[i][t]
        /\ b[i][t] = (IF u \in 0 .. value_bits - 1 /\ k + 1 \in s \ {x} THEN ValueBit(vc, u) ELSE Bit(cs[i], t))
        /\ e[i][t] = (IF u \in 0 .. value_bits - 1 /\ k + 1 \in s THEN ValueBit(vc, u) ELSE Bit(cs[i], t))
    <3>1. Bit(c[i], t) = b[i][t] /\ Bit(d[i], t) = e[i][t]
      BY <1>3 DEF HoldsBits
    <3>2. b[i][t] = (IF u \in 0 .. value_bits - 1 /\ k + 1 \in s \ {x} THEN ValueBit(vc, u) ELSE Bit(cs[i], t))
      <4>1. b[i][t] = ValueInBit(cs, z, vc, s \ {x}, i, t)
        BY DEF b, ValueIn
      <4> QED
        BY <4>1 DEF ValueInBit
    <3>3. e[i][t] = (IF u \in 0 .. value_bits - 1 /\ k + 1 \in s THEN ValueBit(vc, u) ELSE Bit(cs[i], t))
      <4>1. e[i][t] = ValueInBit(cs, z, vc, s, i, t)
        BY DEF e, ValueIn
      <4> QED
        BY <4>1 DEF ValueInBit
    <3> QED
      BY <3>1, <3>2, <3>3, Zenon
  <2>3. Bit(new[i], t) = IF pos \in off .. off + n - 1 THEN Bit(value, pos - off) ELSE Bit(c[i], t)
    <3>1. Bit(new[i], t) = IF i * P + t \in off .. off + n - 1
                           THEN Bit(value, i * P + t - off) ELSE Bit(c[i], t)
      BY <1>10
    <3> HIDE DEF pos
    <3> QED
      BY <2>0, <3>1 DEF pos
  <2>4. /\ u \in Nat => (u \in g .. g + n - 1 <=> u < value_bits /\ k = f)
        /\ u \in g .. g + n - 1 => u % P = u - g
    BY <1>2 DEF n
  <2>5. value_bits \in Nat /\ g + n <= value_bits /\ n \in Nat
    BY <1>2, <1>5, WidthLaw DEF n
  <2>6. u \in Nat => k \in Nat
    BY <1>1, DivMod
  <2>7. pos - off = u - g
    <3> HIDE DEF pos, g, u
    <3> QED
      BY <1>1, <2>0, <2>1
  <2>8. u = pos - z
    BY <2>0
  <2>9. value = vc[f] % Pow(n)
    BY DEF value
  <2>10. u \in 0 .. value_bits - 1 => ValueBit(vc, u) = Bit(vc[k], u % P)
    BY Zenon DEF ValueBit
  <2> HIDE DEF pos, u, g, k
  <2>11. pos \in off .. off + n - 1 <=> u \in g .. g + n - 1
    BY <1>1, <2>1, <2>5, <2>8
  <2>12. CASE u \in g .. g + n - 1
    <3>1. u \in Nat /\ u \in 0 .. value_bits - 1 /\ k = f
      BY <2>1, <2>4, <2>5, <2>12
    <3>2. k + 1 = x
      BY <3>1 DEF f
    <3>3. Bit(d[i], t) = Bit(vc[f], u - g)
      BY <2>2, <2>4, <2>10, <2>12, <3>1, <3>2
    <3>4. Bit(new[i], t) = Bit(value, u - g)
      BY <2>3, <2>7, <2>11, <2>12
    <3> DEFINE q == u - g
    <3>5. q \in 0 .. n - 1
      BY <2>1, <2>5, <2>12
    <3> HIDE DEF q
    <3>6. Bit(vc[f] % Pow(n), q) = Bit(vc[f], q)
      <4>1. \A y \in Nat : \A j \in 0 .. Width : \A l \in 0 .. j - 1 : Bit(y % Pow(j), l) = Bit(y, l)
        BY BitLaws, WidthLaw
      <4> HIDE DEF f
      <4> QED
        BY <1>4, <1>5, <3>5, <4>1
    <3> QED
      BY <2>9, <3>3, <3>4, <3>6 DEF q
  <2>13. CASE u \notin g .. g + n - 1
    <3>1. Bit(new[i], t) = b[i][t]
      BY <2>2, <2>3, <2>11, <2>13
    <3>2. u \in 0 .. value_bits - 1 => k + 1 # x
      <4> SUFFICES ASSUME u \in 0 .. value_bits - 1, k + 1 = x PROVE FALSE
        OBVIOUS
      <4>0. f + 1 = x
        BY DEF f
      <4>1. u \in Nat /\ u < value_bits
        BY <2>5
      <4>2. k = f
        BY <1>2, <2>6, <4>0, <4>1
      <4> QED
        BY <2>4, <2>13, <4>1, <4>2
    <3> QED
      BY <2>2, <3>1, <3>2
  <2> QED
    BY <2>12, <2>13
<1>12. new = d
  BY <1>9, <1>10, <1>11, SameBits
<1> QED
  BY <1>7, <1>12 DEF c, d

\* With no field written, the array is as it was.
LEMMA NoFieldWritten ==
  ASSUME NEW m \in Nat, NEW cs \in Strips(m), NEW at \in Nat, NEW vc \in ValueArrays
  PROVE  ValueCellsIn(m, cs, at, vc, {}) = cs
<1> DEFINE c == ValueCellsIn(m, cs, at, vc, {})
           b == ValueIn(m, cs, at, vc, {})
<1>1. HoldsBits(c, m, b)
  BY ValueInLaw
<1>2. \A i \in 0 .. m - 1 : \A t \in 0 .. plaintext_bits - 1 : b[i][t] = Bit(cs[i], t)
  BY DEF ValueIn, ValueInBit
<1> HIDE DEF c, b
<1>3. c = cs
  BY <1>1, <1>2, SameBits DEF HoldsBits
<1> QED
  BY <1>3 DEF c

\* write_value: the bits of the value follow those of the fingerprint, and no
\* other bit changes.
LEMMA WriteValueLaw ==
  ASSUME NEW m \in Nat, NEW cs \in Strips(m), NEW at \in Nat, NEW vc \in ValueArrays,
         at + fingerprint_bits + value_bits <= m * plaintext_bits
  PROVE  WriteValue(cs, at, vc)
           = ValueCellsIn(m, cs, at + fingerprint_bits, vc, 1 .. value_size_in_cells)
<1> DEFINE N == value_size_in_cells
           q == [i \in 1 .. N |-> i - 1]
           z == at + fingerprint_bits
           F(g) == [s \in SUBSET (1 .. N) |->
                      IF s = {} THEN cs
                      ELSE WriteBits(g[s \ {Max(s)}], at + FieldStart(q[Max(s)]), FieldBits(q[Max(s)]),
                                     vc[q[Max(s)]] % 2^FieldBits(q[Max(s)]))]
           iter == CHOOSE g : g = F(g)
           closed == [s \in SUBSET (1 .. N) |-> ValueCellsIn(m, cs, z, vc, s)]
<1>1. N \in Nat /\ z \in Nat /\ DOMAIN q = 1 .. N /\ z + value_bits <= m * plaintext_bits
  <2>1. N \in Nat
    BY WidthLaw, CeilDivLaw DEF value_size_in_cells
  <2> QED
    BY <2>1, WidthLaw
<1>2. WriteValue(cs, at, vc) = iter[1 .. N]
  <2>1. WriteValue(cs, at, vc) =
          LET it[s \in SUBSET (DOMAIN q)] ==
                IF s = {} THEN cs
                ELSE WriteBits(it[s \ {Max(s)}], at + FieldStart(q[Max(s)]), FieldBits(q[Max(s)]),
                               vc[q[Max(s)]] % 2^FieldBits(q[Max(s)]))
          IN  it[DOMAIN q]
    BY Zenon DEF WriteValue, FoldLeft, MapThenFoldSet
  <2> QED
    BY <1>1, <2>1, Zenon
<1>3. ASSUME NEW s \in SUBSET (1 .. N), s # {}
      PROVE  /\ Max(s) \in s /\ Max(s) \in 1 .. N /\ q[Max(s)] = Max(s) - 1 /\ Max(s) - 1 \in ValueIndex
             /\ s \ {Max(s)} \in SUBSET (1 .. N)
  <2>1. s \subseteq Nat /\ \A y \in s : y <= N
    BY <1>1
  <2>2. Max(s) \in s
    BY <1>1, <1>3, <2>1, MaxOfNaturals
  <2>3. Max(s) \in 1 .. N
    BY <2>2
  <2>4. \A y \in 1 .. N : q[y] = y - 1 /\ y - 1 \in ValueIndex
    BY <1>1 DEF ValueIndex
  <2> HIDE DEF q
  <2> QED
    BY <2>2, <2>3, <2>4
<1>4. ASSUME NEW s \in SUBSET (1 .. N), s # {}, NEW c, c = ValueCellsIn(m, cs, z, vc, s \ {Max(s)})
      PROVE  WriteBits(c, at + FieldStart(q[Max(s)]), FieldBits(q[Max(s)]),
                       vc[q[Max(s)]] % 2^FieldBits(q[Max(s)])) = ValueCellsIn(m, cs, z, vc, s)
  <2> DEFINE x == Max(s)
  <2> HIDE DEF q
  <2>0. s # {}
    BY <1>4
  <2>1. x \in s /\ x \in Int /\ x - 1 \in ValueIndex /\ q[x] = x - 1
    <3>1. x \in s /\ x \in 1 .. N /\ x - 1 \in ValueIndex /\ q[x] = x - 1
      BY <1>3, <2>0
    <3> HIDE DEF x
    <3> QED
      BY <3>1
  <2> HIDE DEF x
  <2>2. WriteField(ValueCellsIn(m, cs, z, vc, s \ {x}), at, vc, x) = ValueCellsIn(m, cs, z, vc, s)
    BY <1>1, <2>1, WriteFieldLaw
  <2>3. WriteField(c, at, vc, x) = WriteBits(c, at + FieldStart(x - 1), FieldBits(x - 1),
                                             vc[x - 1] % 2^FieldBits(x - 1))
    BY Zenon DEF WriteField
  <2>4. c = ValueCellsIn(m, cs, z, vc, s \ {x})
    BY <1>4 DEF x
  <2>5. WriteBits(c, at + FieldStart(x - 1), FieldBits(x - 1), vc[x - 1] % 2^FieldBits(x - 1))
          = ValueCellsIn(m, cs, z, vc, s)
    BY <2>2, <2>3, <2>4, Zenon
  <2> DEFINE f == x - 1
  <2>6. q[x] = f /\ WriteBits(c, at + FieldStart(f), FieldBits(f), vc[f] % 2^FieldBits(f))
                      = ValueCellsIn(m, cs, z, vc, s)
    BY <2>1, <2>5, Zenon
  <2> HIDE DEF f, z
  <2>7. WriteBits(c, at + FieldStart(q[x]), FieldBits(q[x]), vc[q[x]] % 2^FieldBits(q[x]))
          = ValueCellsIn(m, cs, z, vc, s)
    BY <2>6, Zenon
  <2> QED
    BY <2>7, Zenon DEF x
<1> HIDE DEF q, N, z
<1>5. closed = F(closed)
  <2>1. ASSUME NEW s \in SUBSET (1 .. N)
        PROVE  closed[s] = F(closed)[s]
    <3>1. CASE s = {}
      <4>1. closed[s] = cs
        BY <1>1, <3>1, NoFieldWritten
      <4>2. F(closed)[s] = cs
        BY <3>1
      <4> HIDE DEF closed, F
      <4> QED
        BY <4>1, <4>2
    <3>2. CASE s # {}
      <4>1. closed[s \ {Max(s)}] = ValueCellsIn(m, cs, z, vc, s \ {Max(s)})
        BY <1>3, <3>2
      <4> HIDE DEF closed
      <4>2. WriteBits(closed[s \ {Max(s)}], at + FieldStart(q[Max(s)]), FieldBits(q[Max(s)]),
                      vc[q[Max(s)]] % 2^FieldBits(q[Max(s)])) = ValueCellsIn(m, cs, z, vc, s)
        BY <1>4, <3>2, <4>1
      <4>3. F(closed)[s] = WriteBits(closed[s \ {Max(s)}], at + FieldStart(q[Max(s)]), FieldBits(q[Max(s)]),
                                     vc[q[Max(s)]] % 2^FieldBits(q[Max(s)]))
        BY <3>2, Zenon
      <4>4. closed[s] = ValueCellsIn(m, cs, z, vc, s)
        BY DEF closed
      <4> QED
        BY <4>2, <4>3, <4>4, Zenon
    <3> QED
      BY <3>1, <3>2
  <2>2. closed = [s \in SUBSET (1 .. N) |-> closed[s]] /\ F(closed) = [s \in SUBSET (1 .. N) |-> F(closed)[s]]
    OBVIOUS
  <2> HIDE DEF closed, F
  <2> QED
    BY <2>1, <2>2, Zenon
<1>6. iter = F(iter)
  <2> HIDE DEF F
  <2> QED
    BY <1>5, Zenon
<1> HIDE DEF iter
<1>7. ASSUME NEW k \in 0 .. N
      PROVE  iter[1 .. k] = ValueCellsIn(m, cs, z, vc, 1 .. k)
  <2> DEFINE S == {i \in 0 .. N : iter[1 .. i] = ValueCellsIn(m, cs, z, vc, 1 .. i)}
  <2>1. 0 \in S
    <3>1. 1 .. 0 = {} /\ {} \in SUBSET (1 .. N) /\ 0 \in 0 .. N
      BY <1>1
    <3>2. iter[{}] = cs
      BY <1>6, <3>1
    <3> QED
      BY <1>1, <3>1, <3>2, NoFieldWritten
  <2>2. ASSUME NEW i \in 0 .. N - 1, i \in S PROVE i + 1 \in S
    <3> DEFINE s == 1 .. i + 1
    <3>1. /\ s \in SUBSET (1 .. N) /\ s # {} /\ s \ {i + 1} = 1 .. i
          /\ s \subseteq Nat /\ i + 1 \in s /\ i + 1 \in 0 .. N /\ \A j \in s : j <= i + 1
      <4>1. i \in Nat /\ i + 1 <= N
        BY <1>1
      <4>2. s \ {i + 1} = 1 .. i
        BY <4>1
      <4>3. s \subseteq Nat /\ i + 1 \in s /\ i + 1 \in 0 .. N /\ \A j \in s : j <= i + 1
        BY <1>1, <4>1
      <4>4. s \in SUBSET (1 .. N) /\ s # {}
        BY <1>1, <4>1
      <4> QED
        BY <4>2, <4>3, <4>4
    <3> HIDE DEF s
    <3>2. Max(s) = i + 1
      BY <3>1, MaxIsUnique
    <3>3. iter[s] = WriteBits(iter[s \ {Max(s)}], at + FieldStart(q[Max(s)]), FieldBits(q[Max(s)]),
                              vc[q[Max(s)]] % 2^FieldBits(q[Max(s)]))
      <4>1. iter[s] = F(iter)[s]
        BY <1>6
      <4> QED
        BY <3>1, <4>1, Zenon
    <3>4. iter[s \ {Max(s)}] = ValueCellsIn(m, cs, z, vc, s \ {Max(s)})
      BY <2>2, <3>1, <3>2
    <3>5. iter[s] = ValueCellsIn(m, cs, z, vc, s)
      BY <1>4, <3>1, <3>3, <3>4
    <3> QED
      BY <3>1, <3>5 DEF s
  <2>3. \A i \in 0 .. N : i \in S
    <3> S \in SUBSET (0 .. N)
      OBVIOUS
    <3> HIDE DEF S
    <3> QED
      BY <1>1, <2>1, <2>2, Climbs
  <2> QED
    BY <2>3
<1>8. iter[1 .. N] = ValueCellsIn(m, cs, z, vc, 1 .. N)
  BY <1>1, <1>7
<1> QED
  BY <1>2, <1>8, Zenon DEF N, z

\* What write_value leaves in the bits.
LEMMA ValueWritten ==
  ASSUME NEW m \in Nat, NEW cs \in Strips(m), NEW at \in Nat, NEW vc \in ValueArrays,
         at + fingerprint_bits + value_bits <= m * plaintext_bits
  PROVE  /\ WriteValue(cs, at, vc) \in Strips(m)
         /\ \A i \in 0 .. m - 1 : \A t \in 0 .. plaintext_bits - 1 :
              LET u == i * plaintext_bits + t - (at + fingerprint_bits)
              IN  Bit(WriteValue(cs, at, vc)[i], t) =
                    IF u \in 0 .. value_bits - 1 THEN ValueBit(vc, u) ELSE Bit(cs[i], t)
<1> DEFINE N == value_size_in_cells
           z == at + fingerprint_bits
           b == ValueIn(m, cs, z, vc, 1 .. N)
           c == WriteValue(cs, at, vc)
<1>1. z \in Nat
  BY WidthLaw
<1>2. HoldsBits(c, m, b)
  <2>1. c = ValueCellsIn(m, cs, z, vc, 1 .. N)
    BY WriteValueLaw
  <2>2. HoldsBits(ValueCellsIn(m, cs, z, vc, 1 .. N), m, b)
    BY <1>1, ValueInLaw
  <2> QED
    BY <2>1, <2>2, Zenon
<1> HIDE DEF c
<1>3. ASSUME NEW i \in 0 .. m - 1, NEW t \in 0 .. plaintext_bits - 1
      PROVE  b[i][t] = IF i * plaintext_bits + t - z \in 0 .. value_bits - 1
                       THEN ValueBit(vc, i * plaintext_bits + t - z) ELSE Bit(cs[i], t)
  <2> DEFINE u == i * plaintext_bits + t - z
             k == u \div plaintext_bits
  <2>1. b[i][t] = ValueInBit(cs, z, vc, 1 .. N, i, t)
    BY DEF ValueIn
  <2>2. b[i][t] = IF u \in 0 .. value_bits - 1 /\ k + 1 \in 1 .. N THEN ValueBit(vc, u) ELSE Bit(cs[i], t)
    BY <2>1, Zenon DEF ValueInBit
  <2>3. u \in 0 .. value_bits - 1 => k + 1 \in 1 .. N
    <3> HIDE DEF u
    <3>1. u \in 0 .. value_bits - 1 => k \in ValueIndex
      BY FieldOfBit
    <3>2. N \in Nat
      BY WidthLaw, CeilDivLaw DEF value_size_in_cells
    <3>3. \A j \in ValueIndex : j + 1 \in 1 .. N
      BY <3>2 DEF ValueIndex
    <3> QED
      BY <3>1, <3>3
  <2> HIDE DEF b, u, k
  <2>4. b[i][t] = IF u \in 0 .. value_bits - 1 THEN ValueBit(vc, u) ELSE Bit(cs[i], t)
    BY <2>2, <2>3
  <2> QED
    BY <2>4 DEF u
<1> QED
  BY <1>2, <1>3 DEF HoldsBits, c

-----------------------------------------------------------------------------
(* Slots.                                                                  *)

\* The bit u of a slot that holds an entry.
EntryBit(e, u) ==
  IF u < fingerprint_bits THEN Bit(e.fp, u)
  ELSE IF u < fingerprint_bits + value_bits THEN ValueBit(ValueCells[e.val], u - fingerprint_bits)
  ELSE 0

\* A slot that starts at a cell holds an entry, and no other bits.
HoldsEntry(cs, first, e) ==
  \A j \in 0 .. cells_per_slot - 1 : \A t \in 0 .. plaintext_bits - 1 :
    Bit(cs[first + j], t) = EntryBit(e, j * plaintext_bits + t)

LEMMA EntryLaw ==
  ASSUME NEW e \in Entries
  PROVE  e.fp \in Nat /\ ValueCells[e.val] \in ValueArrays
<1>1. e.fp \in Nat
  <2> DEFINE f == e.fp
  <2>1. f \in Fps \cup {0}
    BY DEF Entries
  <2> HIDE DEF f
  <2>2. f \in Nat
    BY <2>1, DataAssumption
  <2> QED
    BY <2>2 DEF f
<1>2. e.val \in Values
  BY DEF Entries
<1>3. ValueCells[e.val] \in [ValueIndex -> Cell]
  BY <1>2, BytesAssumption
<1>4. ValueCells[e.val] \in [ValueIndex -> Nat]
  BY <1>3, CellLaw
<1> QED
  BY <1>1, <1>4 DEF ValueArrays

\* A slot has room for its fields.
LEMMA SlotRoom ==
  /\ cells_per_slot \in Nat \ {0}
  /\ cells_per_slot * plaintext_bits \in Nat
  /\ fingerprint_bits + value_bits <= cells_per_slot * plaintext_bits
<1>1. fingerprint_bits + value_bits \in Nat \ {0} /\ plaintext_bits \in Nat \ {0}
  BY WidthLaw
<1>2. cells_per_slot \in Nat /\ fingerprint_bits + value_bits <= cells_per_slot * plaintext_bits
  BY <1>1, CeilDivLaw DEF cells_per_slot
<1>3. cells_per_slot # 0
  BY <1>1, <1>2
<1> QED
  BY <1>1, <1>2, <1>3

\* Where the bits of a slot are, and those of other cells.
LEMMA SlotPlace ==
  ASSUME NEW m \in Nat, NEW first \in Nat, first + cells_per_slot <= m
  PROVE  /\ first * plaintext_bits \in Nat
         /\ first * plaintext_bits + cells_per_slot * plaintext_bits <= m * plaintext_bits
         /\ \A j \in 0 .. cells_per_slot - 1 :
              /\ first + j \in 0 .. m - 1 /\ j * plaintext_bits \in Nat
              /\ (first + j) * plaintext_bits = first * plaintext_bits + j * plaintext_bits
         /\ \A i \in 0 .. m - 1 :
              /\ i * plaintext_bits \in Nat
              /\ i < first => i * plaintext_bits + plaintext_bits <= first * plaintext_bits
              /\ i >= first + cells_per_slot =>
                   i * plaintext_bits >= first * plaintext_bits + cells_per_slot * plaintext_bits
<1> DEFINE P == plaintext_bits
           C == cells_per_slot
<1>1. P \in Nat \ {0} /\ C \in Nat \ {0}
  BY WidthLaw, SlotRoom
<1> HIDE DEF P, C
<1>2. \A a \in Nat, b \in Nat : a <= b => a * P <= b * P
  BY <1>1
<1>3. \A a \in Nat, b \in Nat : (a + b) * P = a * P + b * P /\ a * P \in Nat
  BY <1>1
<1>4. first * P + C * P <= m * P
  <2>1. (first + C) * P <= m * P
    BY <1>1, <1>2 DEF C
  <2> QED
    BY <1>1, <1>3, <2>1
<1>5. ASSUME NEW j \in 0 .. C - 1
      PROVE  first + j \in 0 .. m - 1 /\ j * P \in Nat /\ (first + j) * P = first * P + j * P
  <2>1. first + j \in 0 .. m - 1
    BY <1>1 DEF C
  <2> QED
    BY <1>1, <1>3, <2>1
<1>6. ASSUME NEW i \in 0 .. m - 1
      PROVE  /\ i * P \in Nat
             /\ i < first => i * P + P <= first * P
             /\ i >= first + C => i * P >= first * P + C * P
  <2>1. i \in Nat /\ i * P \in Nat
    BY <1>1
  <2>2. ASSUME i < first PROVE i * P + P <= first * P
    <3>1. (i + 1) * P <= first * P
      BY <1>2, <2>1, <2>2
    <3>2. (i + 1) * P = i * P + P
      BY <1>1, <2>1
    <3> QED
      BY <3>1, <3>2
  <2>3. ASSUME i >= first + C PROVE i * P >= first * P + C * P
    <3>1. (first + C) * P <= i * P
      BY <1>1, <1>2, <2>1, <2>3
    <3>2. (first + C) * P = first * P + C * P /\ first * P \in Nat /\ C * P \in Nat
      BY <1>1, <1>3
    <3> QED
      BY <2>1, <3>1, <3>2
  <2> QED
    BY <2>1, <2>2, <2>3
<1> QED
  BY <1>3, <1>4, <1>5, <1>6 DEF P, C

\* An entry written to a slot, or its value alone when the fingerprint is
\* there, is what the slot holds, and no other cell changes.
LEMMA WriteSlotLaw ==
  ASSUME NEW m \in Nat, NEW cs \in Strips(m), NEW first \in Nat, first + cells_per_slot <= m,
         NEW old \in Entries, HoldsEntry(cs, first, old), NEW e \in Entries, NEW d,
         \/ d = WriteValue(WriteBits(cs, first * plaintext_bits, fingerprint_bits, e.fp),
                           first * plaintext_bits, ValueCells[e.val])
         \/ d = WriteValue(cs, first * plaintext_bits, ValueCells[e.val]) /\ e.fp = old.fp
  PROVE  /\ d \in Strips(m) /\ HoldsEntry(d, first, e)
         /\ \A i \in 0 .. m - 1 : i \notin first .. first + cells_per_slot - 1 => d[i] = cs[i]
<1> DEFINE P == plaintext_bits
           F == fingerprint_bits
           V == value_bits
           C == cells_per_slot
           at == first * P
           vc == ValueCells[e.val]
           mid == WriteBits(cs, at, F, e.fp)
<1>1. P \in Nat \ {0} /\ F \in Nat \ {0} /\ V \in Nat \ {0} /\ C \in Nat \ {0} /\ F \in 1 .. Width
  BY WidthLaw, SlotRoom
<1>2. e.fp \in Nat /\ vc \in ValueArrays
  BY EntryLaw
<1>3. at \in Nat /\ at + F + V <= m * P /\ at + F <= m * P /\ F + V <= C * P /\ C * P \in Nat
  <2> DEFINE g == C * P
             h == m * P
  <2>1. at \in Nat /\ at + g <= h /\ F + V <= g /\ g \in Nat /\ h \in Int
    BY <1>1, SlotPlace, SlotRoom
  <2> HIDE DEF at, g, h
  <2>2. at + F + V <= h /\ at + F <= h
    BY <1>1, <2>1
  <2> QED
    BY <2>1, <2>2 DEF g, h
<1>4. /\ mid \in Strips(m)
      /\ \A i \in 0 .. m - 1 : \A t \in 0 .. P - 1 :
           Bit(mid[i], t) = IF i * P + t \in at .. at + F - 1 THEN Bit(e.fp, i * P + t - at) ELSE Bit(cs[i], t)
  <2> DEFINE fp == e.fp
  <2>1. fp \in Nat /\ at \in Nat /\ at + F <= m * P /\ F \in 1 .. Width
    BY <1>1, <1>2, <1>3
  <2> HIDE DEF at, fp, vc
  <2>2. /\ WriteBits(cs, at, F, fp) \in Strips(m)
        /\ \A i \in 0 .. m - 1 : \A t \in 0 .. P - 1 :
             Bit(WriteBits(cs, at, F, fp)[i], t)
               = IF i * P + t \in at .. at + F - 1 THEN Bit(fp, i * P + t - at) ELSE Bit(cs[i], t)
    BY <2>1, WriteBitsLaw
  <2> QED
    BY <2>2, Zenon DEF fp
<1> HIDE DEF mid
<1>5. PICK c \in {mid, cs} : d = WriteValue(c, at, vc) /\ (c = cs => (e.fp = old.fp \/ cs = mid))
  BY DEF mid
<1>6. c \in Strips(m)
  BY <1>4
<1>7. /\ d \in Strips(m)
      /\ \A i \in 0 .. m - 1 : \A t \in 0 .. P - 1 :
           LET u == i * P + t - (at + F)
           IN  Bit(d[i], t) = IF u \in 0 .. V - 1 THEN ValueBit(vc, u) ELSE Bit(c[i], t)
  <2> HIDE DEF at, vc
  <2> QED
    BY <1>2, <1>3, <1>5, <1>6, ValueWritten
<1>8. ASSUME NEW j \in 0 .. C - 1, NEW t \in 0 .. P - 1
      PROVE  Bit(d[first + j], t) = EntryBit(e, j * P + t)
  <2> DEFINE i == first + j
             g == j * P
             w == g + t
             B == i * P
  <2>1. i \in 0 .. m - 1 /\ g \in Nat /\ B = at + g
    BY SlotPlace
  <2>2. Bit(cs[i], t) = EntryBit(old, w)
    BY DEF HoldsEntry
  <2>3. Bit(d[i], t) = IF B + t - (at + F) \in 0 .. V - 1 THEN ValueBit(vc, B + t - (at + F)) ELSE Bit(c[i], t)
    BY <1>7, <2>1
  <2>4. Bit(mid[i], t) = IF B + t \in at .. at + F - 1 THEN Bit(e.fp, B + t - at) ELSE Bit(cs[i], t)
    BY <1>4, <2>1
  <2> HIDE DEF i, B, at
  <2>5. B + t - (at + F) = w - F /\ B + t - at = w /\ w \in Nat /\ (B + t \in at .. at + F - 1 <=> w < F)
    <3> HIDE DEF g
    <3> QED
      BY <1>1, <1>3, <2>1
  <2> HIDE DEF g, vc
  <2>6. Bit(c[i], t) = IF w < F THEN Bit(e.fp, w) ELSE Bit(cs[i], t)
    <3>1. c = mid \/ (c = cs /\ e.fp = old.fp)
      BY <1>5
    <3>2. w < F => EntryBit(old, w) = Bit(old.fp, w)
      BY DEF EntryBit
    <3> QED
      BY <2>2, <2>4, <2>5, <3>1, <3>2
  <2>7. ~(w < F + V) => EntryBit(old, w) = 0
    BY <1>1, <2>5 DEF EntryBit
  <2> HIDE DEF w
  <2>8. /\ w < F => EntryBit(e, w) = Bit(e.fp, w)
        /\ ~(w < F) /\ w < F + V => EntryBit(e, w) = ValueBit(vc, w - F)
        /\ ~(w < F + V) => EntryBit(e, w) = 0
    BY <1>1, <2>5 DEF EntryBit, vc
  <2>9. Bit(d[i], t) = EntryBit(e, w)
    <3>1. CASE w < F
      <4>1. ~(w - F \in 0 .. V - 1)
        BY <1>1, <2>5, <3>1
      <4> QED
        BY <2>3, <2>5, <2>6, <2>8, <3>1, <4>1
    <3>2. CASE ~(w < F) /\ w < F + V
      <4>1. w - F \in 0 .. V - 1
        BY <1>1, <2>5, <3>2
      <4> QED
        BY <2>3, <2>5, <2>8, <3>2, <4>1
    <3>3. CASE ~(w < F + V)
      <4>1. ~(w - F \in 0 .. V - 1) /\ ~(w < F)
        BY <1>1, <2>5, <3>3
      <4> QED
        BY <2>2, <2>3, <2>5, <2>6, <2>7, <2>8, <3>3, <4>1
    <3> QED
      BY <3>1, <3>2, <3>3
  <2> QED
    BY <2>9 DEF i, g, w
<1>9. ASSUME NEW i \in 0 .. m - 1, i \notin first .. first + C - 1
      PROVE  d[i] = cs[i]
  <2> DEFINE B == i * P
             D == C * P
  <2>1. B \in Nat /\ (i < first => B + P <= at) /\ (i >= first + C => B >= at + D)
    BY SlotPlace
  <2>2. i < first \/ i >= first + C
    BY <1>1, <1>9
  <2>3. ASSUME NEW t \in 0 .. P - 1 PROVE Bit(d[i], t) = Bit(cs[i], t)
    <3>1. Bit(d[i], t) = IF B + t - (at + F) \in 0 .. V - 1 THEN ValueBit(vc, B + t - (at + F)) ELSE Bit(c[i], t)
      BY <1>7
    <3>2. Bit(mid[i], t) = IF B + t \in at .. at + F - 1 THEN Bit(e.fp, B + t - at) ELSE Bit(cs[i], t)
      BY <1>4
    <3>3. F + V <= D /\ D \in Nat
      BY <1>3
    <3> HIDE DEF B, D, at, vc
    <3>4. ~(B + t - (at + F) \in 0 .. V - 1) /\ ~(B + t \in at .. at + F - 1)
      BY <1>1, <1>3, <2>1, <2>2, <3>3
    <3> QED
      BY <1>5, <3>1, <3>2, <3>4
  <2>4. d[i] \in Cell /\ cs[i] \in Cell
    BY <1>7 DEF Strips
  <2> QED
    BY <2>3, <2>4, CellLaw
<1>10. HoldsEntry(d, first, e)
  BY <1>8 DEF HoldsEntry
<1> QED
  BY <1>7, <1>9, <1>10

\* What is written to a slot leaves cells.
LEMMA WriteSlotType ==
  ASSUME NEW m \in Nat, NEW cs \in Strips(m), NEW first \in Nat, first + cells_per_slot <= m, NEW e \in Entries
  PROVE  /\ WriteBits(cs, first * plaintext_bits, fingerprint_bits, e.fp) \in Strips(m)
         /\ WriteValue(cs, first * plaintext_bits, ValueCells[e.val]) \in Strips(m)
<1> DEFINE P == plaintext_bits
           F == fingerprint_bits
           at == first * P
           fp == e.fp
           vc == ValueCells[e.val]
<1>1. fp \in Nat /\ vc \in ValueArrays /\ F \in Nat \ {0} /\ F \in 1 .. Width /\ value_bits \in Nat
  BY EntryLaw, WidthLaw
<1>2. at \in Nat /\ at + F + value_bits <= m * P /\ at + F <= m * P
  <2> DEFINE g == cells_per_slot * P
             h == m * P
  <2>1. at \in Nat /\ at + g <= h /\ F + value_bits <= g /\ g \in Nat /\ h \in Int
    BY WidthLaw, SlotPlace, SlotRoom
  <2> HIDE DEF at, g, h
  <2>2. at + F + value_bits <= h /\ at + F <= h
    BY <1>1, <2>1
  <2> QED
    BY <2>1, <2>2 DEF g, h
<1> HIDE DEF fp, vc, at
<1>3. WriteBits(cs, at, F, fp) \in Strips(m)
  BY <1>1, <1>2, WriteBitsLaw
<1>4. WriteValue(cs, at, vc) \in Strips(m)
  BY <1>1, <1>2, ValueWritten
<1> QED
  BY <1>3, <1>4 DEF fp, vc, at

\* The slots of a table are apart.
TotalCells == NumBuckets * BucketSize * cells_per_slot

LEMMA SlotsApart ==
  /\ TotalCells \in Nat /\ CellIndex = 0 .. TotalCells - 1
  /\ \A l \in Locs : FirstCell(l) \in Nat /\ FirstCell(l) + cells_per_slot <= TotalCells
  /\ \A l \in Locs, n \in Locs :
       l # n => \/ FirstCell(l) + cells_per_slot <= FirstCell(n)
                \/ FirstCell(n) + cells_per_slot <= FirstCell(l)
<1> DEFINE C == cells_per_slot
           S == BucketSize
           Number(l) == l[1] * S + l[2]
<1>1. C \in Nat \ {0} /\ S \in Nat \ {0} /\ NumBuckets \in Nat \ {0}
  BY SlotRoom, SizeAssumption
<1>2. \A l \in Locs : l[1] \in 0 .. NumBuckets - 1 /\ l[2] \in 0 .. S - 1 /\ l = <<l[1], l[2]>>
  BY DEF Locs, Buckets, Slots
<1> HIDE DEF C, S
<1>3. TotalCells \in Nat /\ CellIndex = 0 .. TotalCells - 1
  <2>1. TotalCells \in Nat
    BY <1>1 DEF TotalCells, C, S
  <2> QED
    BY <2>1, Zenon DEF TotalCells, CellIndex
<1>4. ASSUME NEW a \in Nat, NEW b \in Nat, a < b, NEW k \in Nat \ {0} PROVE a * k + k <= b * k
  <2>1. (a + 1) * k <= b * k
    BY <1>4
  <2> QED
    BY <2>1
<1>5. ASSUME NEW l \in Locs
      PROVE  Number(l) \in Nat /\ Number(l) < NumBuckets * S
  <2> DEFINE a == l[1] * S
             b == NumBuckets * S
  <2>1. a \in Nat /\ b \in Nat /\ a + S <= b
    BY <1>1, <1>2, <1>4
  <2> HIDE DEF a, b
  <2>2. a + l[2] \in Nat /\ a + l[2] < b
    BY <1>1, <1>2, <2>1
  <2> QED
    BY <2>2 DEF a, b
<1>6. ASSUME NEW l \in Locs, NEW n \in Locs, l[1] < n[1]
      PROVE  Number(l) < Number(n)
  <2> DEFINE a == l[1] * S
             b == n[1] * S
  <2>1. a \in Nat /\ b \in Nat /\ a + S <= b
    BY <1>1, <1>2, <1>4, <1>6
  <2> HIDE DEF a, b
  <2>2. a + l[2] < b + n[2]
    BY <1>1, <1>2, <2>1
  <2> QED
    BY <2>2 DEF a, b
<1>7. ASSUME NEW l \in Locs, NEW n \in Locs, Number(l) = Number(n)
      PROVE  l = n
  <2>1. ~(l[1] < n[1]) /\ ~(n[1] < l[1])
    BY <1>5, <1>6, <1>7
  <2>2. l[1] = n[1]
    BY <1>1, <1>2, <2>1
  <2>3. l[2] = n[2]
    <3> DEFINE a == l[1] * S
    <3>1. a \in Nat /\ a + l[2] = a + n[2]
      BY <1>1, <1>2, <1>7, <2>2
    <3> HIDE DEF a
    <3> QED
      BY <1>1, <1>2, <3>1
  <2> QED
    BY <1>2, <2>2, <2>3
<1>8. \A l : FirstCell(l) = Number(l) * C
  BY DEF FirstCell, C, S
<1> HIDE DEF Number
<1>9. ASSUME NEW l \in Locs
      PROVE  FirstCell(l) \in Nat /\ FirstCell(l) + C <= TotalCells
  <2>1. Number(l) * C \in Nat /\ Number(l) * C + C <= (NumBuckets * S) * C
    BY <1>1, <1>4, <1>5
  <2>2. TotalCells = (NumBuckets * S) * C
    BY DEF TotalCells, C, S
  <2> QED
    BY <1>8, <2>1, <2>2
<1>10. ASSUME NEW l \in Locs, NEW n \in Locs, Number(l) < Number(n)
       PROVE  FirstCell(l) + C <= FirstCell(n)
  BY <1>1, <1>4, <1>5, <1>8, <1>10
<1>11. ASSUME NEW l \in Locs, NEW n \in Locs, l # n
       PROVE  FirstCell(l) + C <= FirstCell(n) \/ FirstCell(n) + C <= FirstCell(l)
  <2>1. Number(l) < Number(n) \/ Number(n) < Number(l)
    BY <1>5, <1>7, <1>11
  <2> QED
    BY <1>10, <2>1
<1> QED
  BY <1>3, <1>9, <1>11 DEF C

\* The cells of a store that holds a table.
StoreHolds(cs, tbl) ==
  cs \in Strips(TotalCells) /\ \A l \in Locs : HoldsEntry(cs, FirstCell(l), tbl[l])

\* One slot written.
WriteLoc(c, tbl, new, l) ==
  IF new[l].fp = tbl[l].fp THEN WriteValue(c, slot_bit_offset(l), ValueCells[new[l].val])
                           ELSE WriteEntry(c, l, new[l])

LEMMA WriteLocType ==
  ASSUME NEW c \in Strips(TotalCells), NEW tbl, NEW new \in [Locs -> Entries], NEW l \in Locs
  PROVE  WriteLoc(c, tbl, new, l) \in Strips(TotalCells)
<1> DEFINE first == FirstCell(l)
           e == new[l]
           mid == WriteBits(c, first * plaintext_bits, fingerprint_bits, e.fp)
<1>1. first \in Nat /\ first + cells_per_slot <= TotalCells /\ TotalCells \in Nat /\ e \in Entries
  BY SlotsApart
<1> HIDE DEF first, e
<1>2. mid \in Strips(TotalCells) /\ WriteValue(c, first * plaintext_bits, ValueCells[e.val]) \in Strips(TotalCells)
  BY <1>1, WriteSlotType
<1> HIDE DEF mid
<1>3. WriteValue(mid, first * plaintext_bits, ValueCells[e.val]) \in Strips(TotalCells)
  BY <1>1, <1>2, WriteSlotType
<1>4. \/ WriteLoc(c, tbl, new, l) = WriteValue(c, first * plaintext_bits, ValueCells[e.val])
      \/ WriteLoc(c, tbl, new, l) = WriteValue(mid, first * plaintext_bits, ValueCells[e.val])
  BY Zenon DEF WriteLoc, WriteEntry, slot_bit_offset, first, e, mid
<1> QED
  BY <1>2, <1>3, <1>4

LEMMA WriteLocLaw ==
  ASSUME NEW c, NEW tbl, NEW new \in [Locs -> Entries], NEW now \in [Locs -> Entries], NEW l \in Locs,
         StoreHolds(c, now), now[l] = tbl[l]
  PROVE  StoreHolds(WriteLoc(c, tbl, new, l), [now EXCEPT ![l] = new[l]])
<1> DEFINE first == FirstCell(l)
           e == new[l]
           old == now[l]
           d == WriteLoc(c, tbl, new, l)
           after == [now EXCEPT ![l] = e]
<1>1. /\ first \in Nat /\ first + cells_per_slot <= TotalCells /\ TotalCells \in Nat
      /\ e \in Entries /\ old \in Entries /\ c \in Strips(TotalCells) /\ HoldsEntry(c, first, old)
  BY SlotsApart DEF StoreHolds
<1>2. \/ d = WriteValue(WriteBits(c, first * plaintext_bits, fingerprint_bits, e.fp),
                        first * plaintext_bits, ValueCells[e.val])
      \/ d = WriteValue(c, first * plaintext_bits, ValueCells[e.val]) /\ e.fp = old.fp
  <2>1. CASE e.fp = old.fp
    BY <2>1, Zenon DEF WriteLoc, slot_bit_offset
  <2>2. CASE e.fp # old.fp
    BY <2>2, Zenon DEF WriteLoc, WriteEntry, slot_bit_offset
  <2> QED
    BY <2>1, <2>2
<1> HIDE DEF first, e, old, d
<1>3. /\ d \in Strips(TotalCells) /\ HoldsEntry(d, first, e)
      /\ \A i \in 0 .. TotalCells - 1 : i \notin first .. first + cells_per_slot - 1 => d[i] = c[i]
  BY <1>1, <1>2, WriteSlotLaw
<1>4. ASSUME NEW n \in Locs
      PROVE  HoldsEntry(d, FirstCell(n), after[n])
  <2>1. CASE n = l
    BY <1>3, <2>1 DEF first
  <2>2. CASE n # l
    <3>1. after[n] = now[n] /\ HoldsEntry(c, FirstCell(n), now[n])
      BY <2>2 DEF StoreHolds
    <3>2. ASSUME NEW j \in 0 .. cells_per_slot - 1 PROVE d[FirstCell(n) + j] = c[FirstCell(n) + j]
      <4> DEFINE i == FirstCell(n)
      <4>1. i \in Nat /\ i + cells_per_slot <= TotalCells
            /\ (i + cells_per_slot <= first \/ first + cells_per_slot <= i)
        BY <2>2, SlotsApart DEF first
      <4> HIDE DEF i
      <4>2. cells_per_slot \in Nat
        BY SlotRoom
      <4>3. i + j \in 0 .. TotalCells - 1 /\ i + j \notin first .. first + cells_per_slot - 1
        BY <1>1, <4>1, <4>2
      <4> QED
        BY <1>3, <4>3 DEF i
    <3> QED
      BY <3>1, <3>2 DEF HoldsEntry
  <2> QED
    BY <2>1, <2>2
<1> QED
  BY <1>3, <1>4 DEF StoreHolds, d, e

\* All slots in which two tables differ are written.
LEMMA WrittenLaw ==
  ASSUME NEW c, NEW tbl \in [Locs -> Entries], NEW new \in [Locs -> Entries], StoreHolds(c, tbl)
  PROVE  StoreHolds(Written(c, tbl, new), new)
<1> DEFINE T == {l \in Locs : new[l] # tbl[l]}
           D == Strips(TotalCells)
           p(s) == CHOOSE x \in s : TRUE
           F(g) == [s \in SUBSET T |-> IF s = {} THEN c ELSE WriteLoc(g[s \ {p(s)}], tbl, new, p(s))]
           iter == CHOOSE g : g = F(g)
           op   == [l \in T |-> [e \in D |-> WriteLoc(e, tbl, new, l)]]
           Half(s) == [l \in Locs |-> IF l \in s THEN new[l] ELSE tbl[l]]
           K == {s \in SUBSET T : StoreHolds(iter[s], Half(s))}
<1>1. Written(c, tbl, new) = iter[T]
  BY Zenon DEF Written, FoldSet, MapThenFoldSet, WriteLoc
<1>2. ASSUME NEW s \in SUBSET T, s # {} PROVE p(s) \in s /\ p(s) \in T /\ s \ {p(s)} \in SUBSET T
  BY <1>2
<1>3. IsFiniteSet(T) /\ T \subseteq Locs
  BY LocsFinite, FS_Subset
<1>4. c \in D
  BY DEF StoreHolds
<1> HIDE DEF D
<1>5. \E g : g = F(g)
  <2>1. op \in [T -> [D -> D]]
    BY <1>3, WriteLocType DEF D
  <2>2. PICK g \in [SUBSET T -> D] : FoldsOver(T, c, op, g)
    <3> HIDE DEF op, T
    <3> QED
      BY <1>3, <1>4, <2>1, FoldExists
  <2>3. g = [s \in SUBSET T |-> IF s = {} THEN c ELSE op[p(s)][g[s \ {p(s)}]]]
    BY <2>2, Zenon DEF FoldsOver
  <2>4. ASSUME NEW s \in SUBSET T
        PROVE  g[s] = IF s = {} THEN c ELSE WriteLoc(g[s \ {p(s)}], tbl, new, p(s))
    <3>1. g[s] = IF s = {} THEN c ELSE op[p(s)][g[s \ {p(s)}]]
      <4> HIDE DEF op, p, T
      <4> QED
        BY <2>3
    <3>2. CASE s # {}
      <4>1. p(s) \in T /\ s \ {p(s)} \in SUBSET T
        BY <1>2, <3>2
      <4> HIDE DEF p, T
      <4>2. g[s \ {p(s)}] \in D
        BY <2>2, <4>1
      <4>3. op[p(s)][g[s \ {p(s)}]] = WriteLoc(g[s \ {p(s)}], tbl, new, p(s))
        BY <4>1, <4>2
      <4> QED
        BY <3>1, <3>2, <4>3
    <3> QED
      BY <3>1, <3>2
  <2>5. g = F(g)
    <3> HIDE DEF p, T
    <3> QED
      BY <2>2, <2>4
  <2> HIDE DEF F
  <2> QED
    BY <2>5, Zenon
<1>6. iter = F(iter)
  <2> HIDE DEF F
  <2> QED
    BY <1>5, Zenon
<1> HIDE DEF iter, p, T
<1>7. /\ iter[{}] = c
      /\ \A s \in SUBSET T : s # {} => iter[s] = WriteLoc(iter[s \ {p(s)}], tbl, new, p(s))
  <2>1. \A s \in SUBSET T : iter[s] = IF s = {} THEN c ELSE WriteLoc(iter[s \ {p(s)}], tbl, new, p(s))
    BY <1>6
  <2> QED
    BY <2>1
<1>8. {} \in K
  <2>1. Half({}) = tbl
    OBVIOUS
  <2> HIDE DEF Half
  <2> QED
    BY <1>7, <2>1
<1>9. ASSUME NEW s \in SUBSET T, NEW x \in s, NEW e, StoreHolds(e, Half(s \ {x}))
      PROVE  StoreHolds(WriteLoc(e, tbl, new, x), Half(s))
  <2> DEFINE now == Half(s \ {x})
  <2>1. x \in Locs /\ now \in [Locs -> Entries] /\ now[x] = tbl[x]
    BY <1>3
  <2>2. [now EXCEPT ![x] = new[x]] = Half(s)
    BY <1>3
  <2>3. StoreHolds(e, now)
    BY <1>9
  <2> HIDE DEF now, Half
  <2>4. StoreHolds(WriteLoc(e, tbl, new, x), [now EXCEPT ![x] = new[x]])
    BY <2>1, <2>3, WriteLocLaw
  <2> QED
    BY <2>2, <2>4
<1>10. ASSUME NEW s \in SUBSET T, s # {} PROVE \E x \in s : s \ {x} \in K => s \in K
  <2>1. p(s) \in s
    BY <1>2, <1>10
  <2>2. ASSUME s \ {p(s)} \in K PROVE s \in K
    <3> HIDE DEF Half
    <3>1. StoreHolds(iter[s \ {p(s)}], Half(s \ {p(s)}))
      BY <2>2
    <3>2. StoreHolds(WriteLoc(iter[s \ {p(s)}], tbl, new, p(s)), Half(s))
      BY <1>9, <2>1, <3>1
    <3>3. iter[s] = WriteLoc(iter[s \ {p(s)}], tbl, new, p(s))
      BY <1>7, <1>10
    <3> QED
      BY <3>2, <3>3
  <2> HIDE DEF K
  <2> QED
    BY <2>1, <2>2
<1>11. T \in K
  <2>1. K \in SUBSET (SUBSET T)
    OBVIOUS
  <2> HIDE DEF K
  <2> QED
    BY <1>3, <1>8, <1>10, <2>1, FiniteClimb
<1>12. Half(T) = new
  BY DEF T
<1> HIDE DEF Half
<1> QED
  BY <1>1, <1>11, <1>12

LEMMA ZeroBits == \A t \in 0 .. Width : Bit(0, t) = 0
<1> SUFFICES ASSUME NEW t \in 0 .. Width PROVE Bit(0, t) = 0
  OBVIOUS
<1>1. Pow(t) \in Nat \ {0}
  BY BitLaws, WidthLaw
<1> DEFINE k == Pow(t)
<1>2. Bit(0, t) = (0 \div k) % 2
  BY Zenon DEF Bit, Digit, Pow
<1> HIDE DEF k
<1>3. 0 \div k = 0
  <2>1. k \in Nat \ {0} /\ 0 \in 0 .. k - 1 /\ 0 = k * 0 + 0
    BY <1>1 DEF k
  <2> QED
    BY <2>1, DivIs
<1> QED
  BY <1>2, <1>3

\* Zero cells hold empty slots.
LEMMA EmptyBits == \A u \in Nat : EntryBit(Empty, u) = 0
<1> SUFFICES ASSUME NEW u \in Nat PROVE EntryBit(Empty, u) = 0
  OBVIOUS
<1>1. CASE u < fingerprint_bits
  <2>1. u \in 0 .. Width
    BY <1>1, WidthLaw
  <2> QED
    BY <1>1, <2>1, ZeroBits DEF EntryBit, Empty
<1>2. CASE ~(u < fingerprint_bits) /\ u < fingerprint_bits + value_bits
  <2> DEFINE w == u - fingerprint_bits
             i == w \div plaintext_bits
             t == w % plaintext_bits
  <2>1. w \in 0 .. value_bits - 1 /\ w \in Nat
    BY <1>2, WidthLaw
  <2>2. i \in ValueIndex
    BY <2>1, FieldOfBit
  <2>3. t \in 0 .. plaintext_bits - 1
    <3> HIDE DEF w
    <3> QED
      BY <2>1, WidthLaw, DivMod
  <2>4. ValueCells[ZeroValue] = [j \in ValueIndex |-> 0]
    BY BytesAssumption
  <2>5. Bit(0, t) = 0
    <3> HIDE DEF t
    <3>1. t \in 0 .. Width
      BY <2>3, WidthLaw
    <3> QED
      BY <3>1, ZeroBits
  <2> HIDE DEF i, t, w
  <2>6. ValueCells[ZeroValue][i] = 0
    BY <2>2, <2>4
  <2>7. ValueBit(ValueCells[ZeroValue], w) = 0
    BY <2>5, <2>6 DEF ValueBit, i, t
  <2>8. EntryBit(Empty, u) = ValueBit(ValueCells[ZeroValue], w)
    BY <1>2 DEF EntryBit, Empty, w
  <2> QED
    BY <2>7, <2>8
<1>3. CASE ~(u < fingerprint_bits) /\ ~(u < fingerprint_bits + value_bits)
  BY <1>3 DEF EntryBit
<1> QED
  BY <1>1, <1>2, <1>3

LEMMA ZerosHold ==
  ASSUME NEW m \in Nat, NEW first \in Nat, first + cells_per_slot <= m, NEW cs, cs = [i \in 0 .. m - 1 |-> 0]
  PROVE  cs \in Strips(m) /\ HoldsEntry(cs, first, Empty)
<1>1. cs \in Strips(m)
  BY CellLaw DEF Strips
<1>2. ASSUME NEW j \in 0 .. cells_per_slot - 1, NEW t \in 0 .. plaintext_bits - 1
      PROVE  Bit(cs[first + j], t) = EntryBit(Empty, j * plaintext_bits + t)
  <2>1. first + j \in 0 .. m - 1 /\ j * plaintext_bits \in Nat
    BY SlotPlace
  <2>2. j * plaintext_bits + t \in Nat
    BY <2>1
  <2>3. t \in 0 .. Width
    BY WidthLaw
  <2>4. cs[first + j] = 0
    BY <2>1
  <2>5. EntryBit(Empty, j * plaintext_bits + t) = 0
    BY <2>2, EmptyBits
  <2> QED
    BY <2>3, <2>4, <2>5, ZeroBits
<1> QED
  BY <1>1, <1>2 DEF HoldsEntry

\* The cells of a new table.
LEMMA NewTableHolds == StoreHolds(ZeroCells, EmptyTable)
<1>1. ZeroCells = [i \in 0 .. TotalCells - 1 |-> 0] /\ TotalCells \in Nat
  BY SlotsApart DEF ZeroCells
<1>2. ZeroCells \in Strips(TotalCells)
  BY <1>1, CellLaw DEF Strips
<1>3. ASSUME NEW l \in Locs PROVE HoldsEntry(ZeroCells, FirstCell(l), EmptyTable[l])
  <2>1. HoldsEntry(ZeroCells, FirstCell(l), Empty)
    <3> DEFINE first == FirstCell(l)
    <3>1. first \in Nat /\ first + cells_per_slot <= TotalCells
      BY SlotsApart
    <3> HIDE DEF first
    <3> QED
      BY <1>1, <3>1, ZerosHold DEF first
  <2> QED
    BY <2>1 DEF EmptyTable
<1> QED
  BY <1>2, <1>3 DEF StoreHolds

\* Packing off the store.
LEMMA PackLaw ==
  ASSUME NEW e \in Entries
  PROVE  Packed[e] \in Strips(cells_per_slot) /\ HoldsEntry(Packed[e], 0, e)
<1> DEFINE m == cells_per_slot
           zeros == [c \in 0 .. m - 1 |-> 0]
           d == Packed[e]
<1>1. d = WriteValue(WriteBits(zeros, 0, fingerprint_bits, e.fp), 0, ValueCells[e.val])
  BY DEF Packed, PackSlotCells
<1>2. 0 * plaintext_bits = 0 /\ m \in Nat /\ 0 + m <= m
  BY WidthLaw, SlotRoom
<1>3. zeros \in Strips(m) /\ HoldsEntry(zeros, 0, Empty)
  <2> HIDE DEF m
  <2> QED
    BY <1>2, ZerosHold DEF m
<1> HIDE DEF d, zeros
<1>4. d = WriteValue(WriteBits(zeros, 0 * plaintext_bits, fingerprint_bits, e.fp),
                     0 * plaintext_bits, ValueCells[e.val])
  BY <1>1, <1>2
<1>5. d \in Strips(m) /\ HoldsEntry(d, 0, e)
  BY <1>2, <1>3, <1>4, EmptyIsEntry, WriteSlotLaw
<1> QED
  BY <1>5 DEF d

\* What is packed off the store is what the store holds.
LEMMA HeldIsPacked ==
  ASSUME NEW cs, NEW tbl \in [Locs -> Entries], StoreHolds(cs, tbl), NEW l \in Locs
  PROVE  SlotCells(cs, l) = Packed[tbl[l]]
<1> DEFINE first == FirstCell(l)
           e == tbl[l]
           c == SlotCells(cs, l)
<1>1. first \in Nat /\ first + cells_per_slot <= TotalCells /\ TotalCells \in Nat /\ e \in Entries
  BY SlotsApart
<1>2. cs \in Strips(TotalCells) /\ HoldsEntry(cs, first, e)
  BY DEF StoreHolds
<1>3. c = [i \in 0 .. cells_per_slot - 1 |-> cs[first + i]]
  BY DEF SlotCells
<1> HIDE DEF first, e, c
<1>4. Packed[e] \in Strips(cells_per_slot) /\ HoldsEntry(Packed[e], 0, e)
  BY <1>1, PackLaw
<1>5. c \in Strips(cells_per_slot)
  <2>1. \A j \in 0 .. cells_per_slot - 1 : cs[first + j] \in Cell
    BY <1>1, <1>2, SlotPlace DEF Strips
  <2> QED
    BY <1>3, <2>1 DEF Strips
<1>6. ASSUME NEW j \in 0 .. cells_per_slot - 1, NEW t \in 0 .. plaintext_bits - 1
      PROVE  Bit(c[j], t) = Bit(Packed[e][j], t)
  <2>1. c[j] = cs[first + j] /\ 0 + j = j
    BY <1>3
  <2>2. Bit(cs[first + j], t) = EntryBit(e, j * plaintext_bits + t)
    BY <1>2 DEF HoldsEntry
  <2>3. Bit(Packed[e][0 + j], t) = EntryBit(e, j * plaintext_bits + t)
    BY <1>4 DEF HoldsEntry
  <2> QED
    BY <2>1, <2>2, <2>3
<1>7. c = Packed[e]
  BY <1>4, <1>5, <1>6, SameBits
<1> QED
  BY <1>7 DEF c, e

-----------------------------------------------------------------------------
(* The delta of a log.                                                     *)

\* A write of a log without gaps replaces what the writes before it left.
LEMMA GapFree ==
  ASSUME NEW from \in [Locs -> Entries], NEW to \in [Locs -> Entries], NEW log \in Seq(Mutations),
         Telescopes(from, log, to), NEW k \in 0 .. Len(log) - 1
  PROVE  log[k + 1].loc \in Locs /\ log[k + 1].old = LeftBy(from, log, 1 .. k)[log[k + 1].loc]
<1> DEFINE n   == Len(log)
           l   == log[k + 1].loc
           ws  == WritesOf(log, l)
           was == {i \in 1 .. k : log[i].loc = l}
<1>1. n \in Nat /\ k \in Nat /\ k + 1 \in 1 .. n
  OBVIOUS
<1>2. log[k + 1] \in Mutations /\ l \in Locs
  <2>1. log[k + 1] \in Mutations
    BY <1>1
  <2> QED
    BY <2>1 DEF Mutations
<1> HIDE DEF l
<1>3. /\ ws # {} => log[Min(ws)].old = from[l]
      /\ \A i, j \in ws : (i < j /\ \A m \in ws : ~(i < m /\ m < j)) => log[j].old = log[i].new
  BY <1>2 DEF Telescopes
<1>4. LeftBy(from, log, 1 .. k)[l] = IF was = {} THEN from[l] ELSE log[Max(was)].new
  BY <1>2 DEF LeftBy
<1>5. ws \subseteq Nat /\ k + 1 \in ws /\ was = {i \in ws : i <= k}
  BY <1>1 DEF WritesOf, l
<1> HIDE DEF ws, was, n
<1>6. CASE was = {}
  <2>1. \A i \in ws : k + 1 <= i
    BY <1>1, <1>5, <1>6
  <2>2. Min(ws) = k + 1
    BY <1>5, <2>1, MinIsUnique
  <2> QED
    BY <1>2, <1>3, <1>4, <1>5, <1>6, <2>2 DEF l
<1>7. CASE was # {}
  <2> DEFINE i == Max(was)
  <2>1. i \in was /\ \A m \in was : m <= i
    <3>1. was \subseteq Nat /\ \A m \in was : m <= k
      BY <1>5
    <3> QED
      BY <1>1, <1>7, <3>1, MaxOfNaturals
  <2> HIDE DEF i
  <2>2. i \in ws /\ i < k + 1 /\ \A m \in ws : ~(i < m /\ m < k + 1)
    BY <1>1, <1>5, <2>1
  <2>3. log[k + 1].old = log[i].new
    BY <1>3, <1>5, <2>2
  <2> QED
    BY <1>2, <1>4, <1>7, <2>3 DEF i, l
<1> QED
  BY <1>6, <1>7

\* The cells of the segments.
LEMMA ServedCells ==
  ASSUME NEW cell \in Back!Cells
  PROVE  /\ LocOf(cell) \in Locs /\ IndexOf(cell) \in 0 .. cells_per_slot - 1
         /\ cell = <<cell[1], cell[2]>> /\ cell[1] \in Positions /\ cell[2] \in ServerRows
<1> DEFINE seg == segment_size
           C == cells_per_slot
           p == cell[1]
           row == cell[2][1]
           col == cell[2][2]
<1>1. /\ cell = <<cell[1], cell[2]>> /\ cell[1] \in Positions /\ cell[2] \in ServerRows
      /\ p \in 0 .. Arity - 1 /\ row \in 0 .. seg - 1 /\ col \in 0 .. BucketSize * C - 1
  BY DEF Back!Cells, ServerRows, Positions
<1>2. C \in Nat \ {0} /\ BucketSize \in Nat \ {0} /\ Arity \in Nat \ {0} /\ NumBuckets \in Nat
  BY SlotRoom, SizeAssumption
<1>3. seg \in Nat /\ NumBuckets = Arity * seg
  <2>1. seg = NumBuckets \div Arity /\ NumBuckets % Arity = 0
    BY ServerAssumption DEF segment_size
  <2> HIDE DEF seg
  <2>2. NumBuckets \div Arity \in Nat /\ NumBuckets = Arity * (NumBuckets \div Arity) + (NumBuckets % Arity)
    BY <1>2, DivMod
  <2>3. Arity * seg \in Int
    BY <1>2, <2>1, <2>2
  <2> QED
    BY <2>1, <2>2, <2>3
<1> HIDE DEF seg, C, p, row, col
<1>4. p * seg + row \in 0 .. NumBuckets - 1
  <2> DEFINE a == p * seg
             b == Arity * seg
  <2>1. (p + 1) * seg <= Arity * seg
    BY <1>1, <1>2, <1>3
  <2>2. (p + 1) * seg = a + seg /\ a \in Nat /\ b \in Nat
    BY <1>1, <1>2, <1>3
  <2> HIDE DEF a, b
  <2>3. a + row \in 0 .. b - 1
    BY <1>1, <1>3, <2>1, <2>2 DEF b
  <2> QED
    BY <1>3, <2>3 DEF a, b
<1>5. col \div C \in 0 .. BucketSize - 1 /\ col % C \in 0 .. C - 1
  <2>1. col \in Nat /\ col < BucketSize * C
    BY <1>1, <1>2
  <2>2. col \div C \in Nat /\ col % C \in 0 .. C - 1 /\ col = C * (col \div C) + (col % C)
    BY <1>2, <2>1, DivMod
  <2> DEFINE q == col \div C
             r == col % C
  <2>3. q \in Nat /\ r \in Nat /\ col = C * q + r
    BY <1>2, <2>2
  <2> HIDE DEF q, r
  <2>4. q < BucketSize
    <3> SUFFICES ASSUME BucketSize <= q PROVE FALSE
      BY <1>2, <2>3
    <3>1. C * BucketSize <= C * q
      BY <1>2, <2>3
    <3> DEFINE a == C * q
               b == BucketSize * C
    <3>2. a \in Nat /\ b \in Nat /\ C * BucketSize = b
      BY <1>2, <2>3
    <3>3. col = a + r /\ r \in Nat
      BY <1>2, <2>3
    <3> HIDE DEF a, b
    <3> QED
      BY <2>1, <3>1, <3>2, <3>3 DEF a, b
  <2> QED
    BY <1>2, <2>2, <2>4 DEF q
<1>6. LocOf(cell) = <<p * seg + row, col \div C>> /\ IndexOf(cell) = col % C
  BY Zenon DEF LocOf, IndexOf, p, seg, row, col, C
<1>7. LocOf(cell) \in Locs
  BY <1>4, <1>5, <1>6 DEF Locs, Buckets, Slots
<1> QED
  BY <1>1, <1>5, <1>6, <1>7 DEF C

LEMMA PackedInt ==
  ASSUME NEW e \in Entries, NEW x \in 0 .. cells_per_slot - 1
  PROVE  Packed[e][x] \in Cell /\ Packed[e][x] \in Int
<1>1. Packed[e] \in [0 .. cells_per_slot - 1 -> Cell]
  BY PackLaw DEF Strips
<1>2. Packed[e][x] \in Cell
  BY <1>1
<1> QED
  BY <1>2, CellLaw

\* The numbers from 1 to k + 1, the last of them and the ones before.
LEMMA Prefix ==
  ASSUME NEW n \in Nat, NEW k \in 0 .. n - 1
  PROVE  /\ 1 .. k + 1 \in SUBSET (1 .. n) /\ 1 .. k + 1 # {}
         /\ (1 .. k + 1) \ {k + 1} = 1 .. k
         /\ Max(1 .. k + 1) = k + 1
<1>1. k \in Nat /\ k + 1 <= n /\ k + 1 \in Nat
  OBVIOUS
<1> DEFINE s == 1 .. k + 1
<1>2. /\ s \subseteq Nat /\ k + 1 \in s /\ \A j \in s : j <= k + 1
      /\ \A j \in s : j \in 1 .. n
      /\ s \ {k + 1} = 1 .. k
  BY <1>1
<1> HIDE DEF s
<1>3. Max(s) = k + 1
  BY <1>2, MaxIsUnique
<1>4. s \in SUBSET (1 .. n) /\ s # {}
  BY <1>2
<1> QED
  BY <1>2, <1>3, <1>4 DEF s

\* fold_mutations_into_row_deltas: the differences of a log without gaps sum
\* up to the change of the published cells.
LEMMA FoldLaw ==
  ASSUME NEW from \in [Locs -> Entries], NEW to \in [Locs -> Entries], NEW log \in Seq(Mutations),
         Telescopes(from, log, to), NEW cell \in Back!Cells
  PROVE  Fold(log)[cell] = AsCells(to)[cell] - AsCells(from)[cell]
<1> DEFINE n == Len(log)
           T == 1 .. n
           l == LocOf(cell)
           x == IndexOf(cell)
           V(e) == Packed[e][x]
           diff(k) == CellDelta(log[k], cell)
           F(g) == [s \in SUBSET T |-> IF s = {} THEN 0 ELSE g[s \ {Max(s)}] + diff(Max(s))]
           iter == CHOOSE g : g = F(g)
           pick == [s \in SUBSET T |-> Max(s)]
           op   == [k \in T |-> [a \in Int |-> a + diff(k)]]
           now(k) == LeftBy(from, log, 1 .. k)[l]
<1>1. n \in Nat /\ DOMAIN log = T
  OBVIOUS
<1>2. l \in Locs /\ x \in 0 .. cells_per_slot - 1
  BY ServedCells
<1>3. Fold(log)[cell] = iter[T]
  <2>1. Fold(log)[cell] = FoldLeft(LAMBDA acc, m : acc + CellDelta(m, cell), 0, log)
    BY Zenon DEF Fold
  <2>2. FoldLeft(LAMBDA acc, m : acc + CellDelta(m, cell), 0, log) =
          LET it[s \in SUBSET (DOMAIN log)] ==
                IF s = {} THEN 0 ELSE it[s \ {Max(s)}] + CellDelta(log[Max(s)], cell)
          IN  it[DOMAIN log]
    BY Zenon DEF FoldLeft, MapThenFoldSet
  <2> QED
    BY <1>1, <2>1, <2>2, Zenon
<1>4. \A e \in Entries : V(e) \in Int
  BY <1>2, PackedInt
<1>5. ASSUME NEW k \in T
      PROVE  /\ log[k] \in Mutations /\ log[k].old \in Entries /\ log[k].new \in Entries
             /\ diff(k) = (IF l = log[k].loc THEN V(log[k].new) - V(log[k].old) ELSE 0)
             /\ diff(k) \in Int
  <2>1. log[k] \in Mutations
    OBVIOUS
  <2>2. log[k].old \in Entries /\ log[k].new \in Entries
    BY <2>1 DEF Mutations
  <2>3. diff(k) = (IF l = log[k].loc THEN V(log[k].new) - V(log[k].old) ELSE 0)
    BY Zenon DEF CellDelta
  <2> HIDE DEF V, diff
  <2> QED
    BY <1>4, <2>1, <2>2, <2>3
<1> HIDE DEF V, diff, l, x
<1>6. ASSUME NEW s \in SUBSET T, s # {} PROVE Max(s) \in s /\ Max(s) \in T /\ s \ {Max(s)} \in SUBSET T
  <2>1. s \subseteq Nat /\ \A y \in s : y <= n
    BY <1>1
  <2>2. Max(s) \in s
    BY <1>1, <1>6, <2>1, MaxOfNaturals
  <2> QED
    BY <2>2
<1>7. \E g : g = F(g)
  <2>0. IsFiniteSet(T)
    BY <1>1, FS_Interval
  <2>1. op \in [T -> [Int -> Int]]
    <3>1. \A k \in T : [a \in Int |-> a + diff(k)] \in [Int -> Int]
      BY <1>5
    <3> QED
      BY <3>1
  <2>2. \A s \in SUBSET T : pick[s] = Max(s)
    OBVIOUS
  <2> HIDE DEF pick, T
  <2>3. \A s \in SUBSET T : s # {} => pick[s] \in s
    BY <1>6, <2>2
  <2>4. PICK g \in [SUBSET T -> Int] : FoldsBy(pick, T, 0, op, g)
    <3> HIDE DEF op
    <3>1. 0 \in Int
      OBVIOUS
    <3> QED
      BY <2>0, <2>1, <2>3, <3>1, FoldByExists
  <2>5. ASSUME NEW s \in SUBSET T
        PROVE  g[s] = IF s = {} THEN 0 ELSE g[s \ {Max(s)}] + diff(Max(s))
    <3>1. g = [u \in SUBSET T |-> IF u = {} THEN 0 ELSE op[pick[u]][g[u \ {pick[u]}]]]
      BY <2>4, Zenon DEF FoldsBy
    <3> HIDE DEF op
    <3>2. g[s] = IF s = {} THEN 0 ELSE op[pick[s]][g[s \ {pick[s]}]]
      BY <3>1, Zenon
    <3>3. CASE s # {}
      <4> DEFINE z == Max(s)
      <4>1. z \in T /\ s \ {z} \in SUBSET T /\ pick[s] = z
        BY <1>6, <2>2, <3>3
      <4> HIDE DEF z
      <4>2. g[s \ {z}] \in Int
        BY <2>4, <4>1
      <4>3. op[z][g[s \ {z}]] = g[s \ {z}] + diff(z)
        BY <4>1, <4>2 DEF op
      <4>4. g[s] = g[s \ {z}] + diff(z)
        BY <3>2, <3>3, <4>1, <4>3
      <4> QED
        BY <3>3, <4>4 DEF z
    <3> QED
      BY <3>2, <3>3
  <2>6. g = F(g)
    BY <2>4, <2>5
  <2> HIDE DEF F
  <2> QED
    BY <2>6, Zenon
<1>8. iter = F(iter)
  <2> HIDE DEF F
  <2> QED
    BY <1>7, Zenon
<1> HIDE DEF iter, T
<1>9. /\ iter[{}] = 0
      /\ \A s \in SUBSET T : s # {} => iter[s] = iter[s \ {Max(s)}] + diff(Max(s))
  <2>1. \A s \in SUBSET T : iter[s] = IF s = {} THEN 0 ELSE iter[s \ {Max(s)}] + diff(Max(s))
    BY <1>8
  <2> QED
    BY <2>1
<1>10. ASSUME NEW k \in 0 .. n
       PROVE  LeftBy(from, log, 1 .. k) \in [Locs -> Entries] /\ now(k) \in Entries
  <2>1. ASSUME NEW m \in Locs PROVE LeftBy(from, log, 1 .. k)[m] \in Entries
    <3> DEFINE ws == {i \in 1 .. k : log[i].loc = m}
    <3>1. LeftBy(from, log, 1 .. k)[m] = IF ws = {} THEN from[m] ELSE log[Max(ws)].new
      BY DEF LeftBy
    <3>2. ws \subseteq Nat /\ ws \subseteq T /\ \A i \in ws : i <= n
      BY <1>1 DEF T
    <3> HIDE DEF ws
    <3>3. ws # {} => Max(ws) \in T
      BY <1>1, <3>2, MaxOfNaturals
    <3> QED
      BY <1>5, <3>1, <3>3
  <2>2. LeftBy(from, log, 1 .. k) = [m \in Locs |-> LeftBy(from, log, 1 .. k)[m]]
    BY DEF LeftBy
  <2> QED
    BY <1>2, <2>1, <2>2
<1>11. now(0) = from[l]
  <2>1. 1 .. 0 = {}
    OBVIOUS
  <2> QED
    BY <1>2, <2>1 DEF LeftBy
<1>12. ASSUME NEW k \in 0 .. n - 1
       PROVE  /\ k + 1 \in T
              /\ l = log[k + 1].loc => log[k + 1].old = now(k) /\ log[k + 1].new = now(k + 1)
              /\ l # log[k + 1].loc => now(k + 1) = now(k)
  <2> DEFINE s == 1 .. k + 1
             m == log[k + 1]
             before == LeftBy(from, log, 1 .. k)
  <2>1. k \in Nat /\ k + 1 \in T /\ k \in 0 .. n /\ n \in Nat
    BY <1>1 DEF T
  <2>2. s \in SUBSET (1 .. n) /\ s # {} /\ s \ {k + 1} = 1 .. k /\ Max(s) = k + 1
    BY <2>1, Prefix
  <2> HIDE DEF s
  <2>3. LeftBy(from, log, s) = ApplyMutation(LeftBy(from, log, s \ {Max(s)}), log[Max(s)])
    BY <2>2, WrittenStep
  <2>4. LeftBy(from, log, s) = ApplyMutation(before, m)
    BY <2>2, <2>3, Zenon
  <2>5. now(k + 1) = [before EXCEPT ![m.loc] = m.new][l]
    BY <2>4 DEF ApplyMutation, s
  <2>6. before \in [Locs -> Entries] /\ now(k) = before[l]
    BY <1>10, <2>1
  <2>7. m.loc \in Locs /\ m.old = before[m.loc]
    BY GapFree
  <2> HIDE DEF m, before
  <2>8. /\ l = m.loc => m.old = before[l] /\ m.new = [before EXCEPT ![m.loc] = m.new][l]
        /\ l # m.loc => [before EXCEPT ![m.loc] = m.new][l] = before[l]
    BY <1>2, <2>6, <2>7
  <2> QED
    BY <2>1, <2>5, <2>6, <2>8 DEF m
<1>13. now(n) = to[l]
  BY <1>2 DEF Telescopes, LeftBy, WritesOf
<1> HIDE DEF now, n
<1>14. ASSUME NEW k \in 0 .. n
       PROVE  iter[1 .. k] = V(now(k)) - V(from[l])
  <2> DEFINE S == {i \in 0 .. n : iter[1 .. i] = V(now(i)) - V(from[l])}
  <2>1. 0 \in S
    <3>1. 1 .. 0 = {} /\ 0 \in 0 .. n
      BY <1>1
    <3>2. V(from[l]) \in Int
      BY <1>2, <1>4
    <3>3. iter[1 .. 0] = V(now(0)) - V(from[l])
      BY <1>9, <1>11, <3>1, <3>2
    <3> QED
      BY <3>1, <3>3
  <2>2. ASSUME NEW i \in 0 .. n - 1, i \in S PROVE i + 1 \in S
    <3> DEFINE s == 1 .. i + 1
    <3>1. i \in Nat /\ i + 1 <= n /\ i \in 0 .. n /\ i + 1 \in 0 .. n
      BY <1>1
    <3>2. s \in SUBSET T /\ s # {} /\ s \ {i + 1} = 1 .. i
      BY <1>1, Prefix DEF T
    <3>3. Max(s) = i + 1
      BY <1>1, Prefix
    <3> HIDE DEF s
    <3>4. iter[s] = iter[1 .. i] + diff(i + 1)
      BY <1>9, <3>2, <3>3
    <3>5. iter[1 .. i] = V(now(i)) - V(from[l])
      BY <2>2
    <3>6. diff(i + 1) = V(now(i + 1)) - V(now(i))
      <4>1. i + 1 \in T /\ now(i) \in Entries /\ now(i + 1) \in Entries
        BY <1>10, <1>12, <3>1
      <4>2. V(now(i)) \in Int
        BY <1>4, <4>1
      <4>3. CASE l = log[i + 1].loc
        BY <1>5, <1>12, <4>1, <4>3
      <4>4. CASE l # log[i + 1].loc
        BY <1>5, <1>12, <4>1, <4>2, <4>4
      <4> QED
        BY <4>3, <4>4
    <3>7. V(now(i)) \in Int /\ V(now(i + 1)) \in Int /\ V(from[l]) \in Int
      BY <1>2, <1>4, <1>10, <3>1
    <3> DEFINE a == V(now(i))
               b == V(now(i + 1))
               c == V(from[l])
               d == iter[1 .. i]
               e == diff(i + 1)
    <3>8. a \in Int /\ b \in Int /\ c \in Int /\ d = a - c /\ e = b - a /\ iter[s] = d + e
      BY <3>4, <3>5, <3>6, <3>7
    <3> HIDE DEF a, b, c, d, e
    <3>9. iter[s] = b - c
      BY <3>8
    <3> QED
      BY <3>1, <3>9 DEF s, b, c
  <2>3. \A i \in 0 .. n : i \in S
    <3> S \in SUBSET (0 .. n)
      OBVIOUS
    <3> HIDE DEF S
    <3> QED
      BY <1>1, <2>1, <2>2, Climbs
  <2> QED
    BY <2>3
<1>15. iter[T] = V(to[l]) - V(from[l])
  BY <1>1, <1>13, <1>14 DEF T
<1>16. AsCells(to)[cell] = V(to[l]) /\ AsCells(from)[cell] = V(from[l])
  BY DEF AsCells, V, l, x
<1> QED
  BY <1>3, <1>15, <1>16

-----------------------------------------------------------------------------
(* Hints and the cells they belong to.                                     *)

LEMMA AsCellsInt ==
  ASSUME NEW tbl \in [Locs -> Entries]
  PROVE  AsCells(tbl) \in [Back!Cells -> Int]
<1>1. ASSUME NEW cell \in Back!Cells PROVE Packed[tbl[LocOf(cell)]][IndexOf(cell)] \in Int
  BY ServedCells, PackedInt
<1> QED
  BY <1>1 DEF AsCells

\* The delta of a log without gaps is the change of the published cells.
LEMMA FoldIsMinus ==
  ASSUME NEW from \in [Locs -> Entries], NEW to \in [Locs -> Entries], NEW log \in Seq(Mutations),
         Telescopes(from, log, to)
  PROVE  Fold(log) = Back!Minus(AsCells(to), AsCells(from))
<1>1. \A cell \in Back!Cells : Fold(log)[cell] = AsCells(to)[cell] - AsCells(from)[cell]
  BY FoldLaw
<1>2. Fold(log) = [cell \in Back!Cells |-> Fold(log)[cell]]
  BY DEF Fold
<1> QED
  BY <1>1, <1>2 DEF Back!Minus

\* The patch of the hint of a database is the hint of the next one, when the
\* matrix of every touched segment is that of its seed.
LEMMA PatchLaw ==
  ASSUME NEW from \in [Back!Cells -> Int], NEW to \in [Back!Cells -> Int], NEW s, NEW mat,
         \A j \in Back!Touched(Back!Minus(to, from)) : mat[j] = s
  PROVE  Back!Patch(Back!Encode(s, from), mat, Back!Minus(to, from)) = Back!Encode(s, to)
<1> DEFINE delta == Back!Minus(to, from)
           h     == Back!Encode(s, from)
<1>1. \A c \in Back!Cells : delta[c] = to[c] - from[c] /\ delta[c] \in Int
  BY DEF Back!Minus
<1>2. ASSUME NEW c \in Back!Cells, delta[c] # 0 PROVE c[1] \in Back!Touched(delta) /\ mat[c[1]] = s
  <2> HIDE DEF delta
  <2>1. c = <<c[1], c[2]>> /\ c[1] \in Positions /\ c[2] \in ServerRows
    BY ServedCells
  <2>2. c[1] \in Back!Touched(delta)
    BY <1>2, <2>1 DEF Back!Touched
  <2> QED
    BY <2>2 DEF delta
<1> HIDE DEF delta
<1>3. ASSUME NEW t \in Back!Seeds, NEW c \in Back!Cells
      PROVE  h[t][c] + (IF c[1] \in Back!Touched(delta) /\ mat[c[1]] = t THEN delta[c] ELSE 0)
             = Back!Encode(s, to)[t][c]
  <2>1. h[t][c] = IF t = s THEN from[c] ELSE 0
    BY DEF Back!Encode, Back!ZeroDelta
  <2>2. Back!Encode(s, to)[t][c] = IF t = s THEN to[c] ELSE 0
    BY DEF Back!Encode, Back!ZeroDelta
  <2>3. c[1] \in Back!Touched(delta) => mat[c[1]] = s
    BY DEF delta
  <2>4. from[c] \in Int /\ to[c] \in Int /\ delta[c] = to[c] - from[c]
    BY <1>1
  <2>5. CASE t = s
    BY <1>2, <2>1, <2>2, <2>4, <2>5
  <2>6. CASE t # s
    BY <2>1, <2>2, <2>3, <2>6
  <2> QED
    BY <2>5, <2>6
<1>4. Back!Patch(h, mat, delta) = [t \in Back!Seeds |-> [c \in Back!Cells |-> Back!Encode(s, to)[t][c]]]
  BY <1>3 DEF Back!Patch
<1>5. Back!Encode(s, to) = [t \in Back!Seeds |-> [c \in Back!Cells |-> Back!Encode(s, to)[t][c]]]
  <2>1. \A t \in Back!Seeds : Back!Encode(s, to)[t] = [c \in Back!Cells |-> Back!Encode(s, to)[t][c]]
    BY DEF Back!Encode, Back!ZeroDelta
  <2> QED
    BY <2>1 DEF Back!Encode
<1> QED
  BY <1>4, <1>5 DEF delta, h

-----------------------------------------------------------------------------
(* The inductive invariant of the server on its store.                     *)

\* The store's invariant and its log's; the cells hold the table; the hints
\* belong to the cells of the last commit; a matrix is that of the seeds or
\* dropped; and a call runs only where its commit has an epoch to lead to.
ServerIInv ==
  /\ IInv
  /\ LogInv
  /\ log_enabled
  /\ StoreHolds(cells, table)
  /\ hint = Back!Encode(seed, AsCells(known))
  /\ \A j \in Positions : material[j] \in {seed, Server!NoMaterial}
  /\ Idle \/ epoch < MaxEpoch

LEMMA InitServerIInv == ServerInit => ServerIInv
<1> SUFFICES ASSUME ServerInit PROVE ServerIInv
  OBVIOUS
<1>1. /\ table = InitialTable /\ known = InitialTable /\ InitialTable \in [Locs -> Entries]
      /\ chain = <<>> /\ mutation_log = <<>> /\ pc = "ready" /\ log_enabled = TRUE
      /\ num_items = Cardinality(Occupied(table))
  BY ServerAssumption DEF ServerInit
<1>2. IInv
  <2> USE EmptyIsEntry
  <2>1. TypeOK
    <3>1. 0 \in Buckets
      BY SizeAssumption DEF Buckets
    <3>2. max_kicks \in KickBudgets /\ max_kicks \in Nat
      BY SizeAssumption DEF ServerInit
    <3>3. Len(chain) <= chain_room /\ chain_room = max_kicks
      BY <3>2 DEF ServerInit
    <3>4. chain \in Seq(Stashed) /\ mutation_log \in Seq(Mutations) /\ pending_mutations \in Seq(Mutations)
      BY DEF ServerInit
    <3>5. num_items \in Nat
      BY <1>1, OccupiedFinite, FS_CardinalityType
    <3>6. cur \in Entries /\ cur_index \in Buckets /\ result \in Results
      BY <3>1 DEF ServerInit, Results
    <3> QED
      BY <1>1, <3>2, <3>3, <3>4, <3>5, <3>6 DEF TypeOK
  <2>2. CountMatchesTable
    BY <1>1 DEF CountMatchesTable
  <2>3. EmptySlotsAreZero
    BY <1>1, ServerAssumption DEF EmptySlotsAreZero
  <2>4. RoomForBudget
    BY DEF ServerInit, RoomForBudget
  <2> QED
    BY <1>1, <2>1, <2>2, <2>3, <2>4
    DEF IInv, KicksOnlyFullBuckets, ChainOccupied, ChainOnlyInInsert
<1>3. LogInv
  <2>1. Committed = table
    BY <1>1, <1>2, CommittedReady
  <2> QED
    BY <1>1, <2>1, TelescopesEmpty DEF LogInv
<1>4. StoreHolds(cells, table)
  <2>1. EmptyTable \in [Locs -> Entries]
    BY EmptyIsEntry DEF EmptyTable
  <2> QED
    BY <1>1, <2>1, NewTableHolds, WrittenLaw DEF ServerInit
<1>5. hint = Back!Encode(seed, AsCells(known)) /\ \A j \in Positions : material[j] = seed
  BY <1>1 DEF ServerInit, Server!ServerInit, Server!Encode, Back!Encode, Server!Seeds, Back!Seeds,
              Server!ZeroDelta, Back!ZeroDelta, Server!Cells, Back!Cells
<1> QED
  BY <1>1, <1>2, <1>3, <1>4, <1>5 DEF ServerIInv, Idle

\* What a step of a running call leaves alone.
LEMMA StoreStepLaw ==
  ASSUME StoreStep
  PROVE  /\ Next
         /\ UNCHANGED <<known, log_enabled, serverVars>>
         /\ cells' = Written(cells, table, table')
         /\ Idle => epoch < MaxEpoch
<1>1. UNCHANGED serverVars /\ cells' = Written(cells, table, table')
  BY DEF StoreStep
<1>2. ASSUME NEW k \in Keys, NEW v \in Values, Insert(k, v) \/ Update(k, v)
      PROVE  Next /\ UNCHANGED <<known, log_enabled>>
  BY <1>2 DEF Next, Insert, Update, InsertDirect, InsertStartsKicking, logVars
<1>3. ASSUME NEW k \in Keys, Delete(k)
      PROVE  Next /\ UNCHANGED <<known, log_enabled>>
  BY <1>3 DEF Next, Delete
<1>4. ASSUME RejectLength
      PROVE  Next /\ UNCHANGED <<known, log_enabled>>
  BY <1>4 DEF Next, RejectLength, logVars
<1>5. ASSUME InsertLoop
      PROVE  Next /\ UNCHANGED <<known, log_enabled>> /\ ~Idle
  BY <1>5 DEF Next, InsertLoop, Kick, KicksExhausted, RollbackSlot, RollbackDone, logVars, Idle
<1> QED
  BY <1>1, <1>2, <1>3, <1>4, <1>5 DEF StoreStep

\* Between calls the consumers of the deltas know the table, and what is
\* served is its cells.
LEMMA IdleServes ==
  ASSUME ServerIInv, Idle
  PROVE  known = table /\ Served = AsCells(known)
<1>1. /\ table \in [Locs -> Entries] /\ known \in [Locs -> Entries]
      /\ chain = <<>> /\ mutation_log = <<>>
      /\ Telescopes(known, mutation_log, Committed)
  BY DEF ServerIInv, IInv, TypeOK, ChainOnlyInInsert, Idle, LogInv
<1>2. Committed = table
  BY <1>1, CommittedReady DEF ServerIInv
<1>3. \A l \in Locs : known[l] = table[l]
  BY <1>1, <1>2 DEF Telescopes, WritesOf
<1>4. known = table
  BY <1>1, <1>3
<1>5. ASSUME NEW cell \in Back!Cells
      PROVE  cells[FirstCell(LocOf(cell)) + IndexOf(cell)] = Packed[table[LocOf(cell)]][IndexOf(cell)]
  <2>1. LocOf(cell) \in Locs /\ IndexOf(cell) \in 0 .. cells_per_slot - 1
    BY ServedCells
  <2>2. SlotCells(cells, LocOf(cell)) = Packed[table[LocOf(cell)]]
    BY <1>1, <2>1, HeldIsPacked DEF ServerIInv
  <2>3. SlotCells(cells, LocOf(cell))[IndexOf(cell)] = cells[FirstCell(LocOf(cell)) + IndexOf(cell)]
    BY <2>1 DEF SlotCells
  <2> QED
    BY <2>2, <2>3
<1> QED
  BY <1>4, <1>5 DEF Served, AsCells

\* A commit patches the hints to those of the cells of the table.
LEMMA CommitLaw ==
  ASSUME ServerIInv, CommitMutations
  PROVE  /\ known' = table /\ table' = table
         /\ AsCells(table) \in Published
         /\ Fold(mutation_log) = Back!Minus(AsCells(table), AsCells(known))
         /\ hint' = Back!Encode(seed, AsCells(table))
         /\ \A j \in Positions : material'[j] \in {seed, Server!NoMaterial}
<1> DEFINE from  == AsCells(known)
           to    == AsCells(table)
           delta == Fold(mutation_log)
<1>1. /\ DrainMutations /\ pc = "ready" /\ known' = table /\ table' = table
      /\ material' = Server!Expanded(delta) /\ hint' = Back!Patch(hint, material', delta)
  BY DEF CommitMutations, DrainMutations
<1>2. /\ table \in [Locs -> Entries] /\ known \in [Locs -> Entries] /\ mutation_log \in Seq(Mutations)
      /\ chain = <<>> /\ EmptySlotsAreZero
      /\ Telescopes(known, mutation_log, Committed)
  BY <1>1 DEF ServerIInv, IInv, TypeOK, ChainOnlyInInsert, LogInv
<1>3. Committed = table
  BY <1>2, CommittedReady DEF ServerIInv
<1>4. delta = Back!Minus(to, from)
  BY <1>2, <1>3, FoldIsMinus
<1>5. to \in Published
  <2>1. table \in [Locs -> {e \in Entries : e.fp = 0 => e = Empty}]
    BY <1>2 DEF EmptySlotsAreZero
  <2> QED
    BY <2>1 DEF Published
<1>6. from \in [Back!Cells -> Int] /\ to \in [Back!Cells -> Int]
  BY <1>2, AsCellsInt
<1> HIDE DEF delta, from, to
<1>7. \A j \in Positions : material'[j] =
        IF j \in Back!Touched(delta) /\ material[j] = Server!NoMaterial THEN seed ELSE material[j]
  BY <1>1 DEF Server!Expanded, Server!Touched, Back!Touched
<1>8. \A j \in Positions : material[j] \in {seed, Server!NoMaterial}
  BY DEF ServerIInv
<1>9. \A j \in Back!Touched(delta) : j \in Positions
  BY DEF Back!Touched
<1>10. \A j \in Back!Touched(delta) : material'[j] = seed
  BY <1>7, <1>8, <1>9
<1>11. hint = Back!Encode(seed, from)
  BY DEF ServerIInv, from
<1>12. Back!Patch(Back!Encode(seed, from), material', Back!Minus(to, from)) = Back!Encode(seed, to)
  BY <1>4, <1>6, <1>10, PatchLaw
<1> QED
  BY <1>1, <1>4, <1>5, <1>7, <1>8, <1>11, <1>12 DEF delta, from, to

LEMMA NextServerIInv == ServerIInv /\ [ServerNext]_allVars => ServerIInv'
<1> SUFFICES ASSUME ServerIInv, [ServerNext]_allVars PROVE ServerIInv'
  OBVIOUS
<1>0. IInv /\ LogInv /\ log_enabled /\ StoreHolds(cells, table) /\ hint = Back!Encode(seed, AsCells(known))
      /\ (\A j \in Positions : material[j] \in {seed, Server!NoMaterial}) /\ (Idle \/ epoch < MaxEpoch)
  BY DEF ServerIInv
<1>1. [Next]_vars => IInv' /\ LogInv'
  BY <1>0, NextIInv, NextLogInv
<1>2. CASE StoreStep
  <2>1. /\ Next /\ UNCHANGED <<known, log_enabled, serverVars>>
        /\ cells' = Written(cells, table, table') /\ epoch < MaxEpoch
    BY <1>0, <1>2, StoreStepLaw
  <2>2. IInv' /\ LogInv'
    BY <1>1, <2>1
  <2>3. table \in [Locs -> Entries] /\ table' \in [Locs -> Entries]
    BY <1>0, <2>2 DEF IInv, TypeOK
  <2>4. StoreHolds(cells', table')
    BY <1>0, <2>1, <2>3, WrittenLaw
  <2>5. hint' = Back!Encode(seed', AsCells(known')) /\ log_enabled'
        /\ (\A j \in Positions : material'[j] \in {seed', Server!NoMaterial}) /\ epoch' < MaxEpoch
    BY <1>0, <2>1 DEF serverVars
  <2> QED
    BY <2>2, <2>4, <2>5 DEF ServerIInv, StoreHolds, HoldsEntry
<1>3. CASE CommitMutations
  <2>1. DrainMutations /\ UNCHANGED <<cells, seed>>
    BY <1>3 DEF CommitMutations
  <2>2. IInv' /\ LogInv'
    BY <1>1, <2>1 DEF Next
  <2>3. /\ table' = table /\ known' = table /\ hint' = Back!Encode(seed', AsCells(known'))
        /\ \A j \in Positions : material'[j] \in {seed', Server!NoMaterial}
    BY <1>3, <2>1, CommitLaw
  <2>4. Idle' /\ log_enabled'
    BY <1>0, <2>1 DEF DrainMutations, Idle
  <2>5. StoreHolds(cells', table')
    BY <1>0, <2>1, <2>3
  <2> QED
    BY <2>2, <2>3, <2>4, <2>5 DEF ServerIInv
<1>4. CASE FullRebuild \/ DropHintMaterial \/ UNCHANGED allVars
  <2>1. UNCHANGED <<vars, cells>>
    BY <1>4 DEF FullRebuild, DropHintMaterial, allVars
  <2>2. IInv' /\ LogInv'
    BY <1>1, <2>1
  <2>3. table' = table /\ known' = known /\ log_enabled' = log_enabled /\ (Idle' <=> Idle)
    BY <2>1 DEF vars, logVars, Idle
  <2>4. StoreHolds(cells', table')
    BY <1>0, <2>1, <2>3
  <2>5. /\ hint' = Back!Encode(seed', AsCells(known')) /\ (Idle' \/ epoch' < MaxEpoch)
        /\ \A j \in Positions : material'[j] \in {seed', Server!NoMaterial}
    <3>1. CASE FullRebuild
      <4>1. Idle /\ hint' = Back!Encode(seed', Served) /\ material' = [j \in Positions |-> seed']
        BY <3>1 DEF FullRebuild
      <4>2. Served = AsCells(known)
        BY <4>1, IdleServes
      <4> QED
        BY <2>3, <4>1, <4>2
    <3>2. CASE DropHintMaterial
      <4>1. Idle /\ material' = [j \in Positions |-> Server!NoMaterial] /\ UNCHANGED <<seed, hint>>
        BY <3>2 DEF DropHintMaterial
      <4> QED
        BY <1>0, <2>3, <4>1
    <3>3. CASE UNCHANGED allVars
      BY <1>0, <2>3, <3>3 DEF allVars, serverVars
    <3> QED
      BY <1>4, <3>1, <3>2, <3>3
  <2> QED
    BY <1>0, <2>2, <2>3, <2>4, <2>5 DEF ServerIInv
<1> QED
  BY <1>2, <1>3, <1>4 DEF ServerNext

\* The inductive invariant holds in every reachable state of the server.
THEOREM ServerStoreInvariance == ServerSpec => []ServerIInv
BY InitServerIInv, NextServerIInv, PTL DEF ServerSpec

\* Every slot of the cells holds exactly what packing its entry off the store
\* gives, for every width of fingerprint, value and cell and whatever kicks,
\* rollbacks, updates and deletions wrote to cells it shares (write_bits and
\* pack_slot_cells of FingerprintValueTable).
THEOREM CellsAsPacked == ServerSpec => []PackedAsStored
<1>1. ASSUME ServerIInv PROVE PackedAsStored
  <2>1. table \in [Locs -> Entries] /\ StoreHolds(cells, table)
    BY <1>1 DEF ServerIInv, IInv, TypeOK
  <2> QED
    BY <2>1, HeldIsPacked DEF PackedAsStored
<1> QED
  BY <1>1, ServerStoreInvariance, PTL

\* Between calls the hints are those of the cells answer reads, after any
\* number of commits, rebuilds and drops of the matrices (commit_mutations).
THEOREM HintsAreServed == ServerSpec => []HintsMatchServedCells
<1>1. ASSUME ServerIInv PROVE HintsMatchServedCells
  <2> SUFFICES ASSUME Idle PROVE hint = Back!Encode(seed, Served)
    BY DEF HintsMatchServedCells
  <2> QED
    BY <1>1, IdleServes DEF ServerIInv
<1> QED
  BY <1>1, ServerStoreInvariance, PTL

-----------------------------------------------------------------------------
(* The server on its store implements IkpirServer.                         *)

\* The operators of the two instances of PirBackend agree.
LEMMA SameBackend ==
  /\ Server!Cells = Back!Cells /\ Server!Seeds = Back!Seeds /\ Server!ZeroDelta = Back!ZeroDelta
  /\ \A s, d : Server!Encode(s, d) = Back!Encode(s, d)
  /\ \A a, b : Server!Minus(a, b) = Back!Minus(a, b)
  /\ \A h, m, d : Server!Patch(h, m, d) = Back!Patch(h, m, d)
BY DEF Server!Cells, Back!Cells, Server!Seeds, Back!Seeds, Server!ZeroDelta, Back!ZeroDelta,
       Server!Encode, Back!Encode, Server!Minus, Back!Minus, Server!Patch, Back!Patch,
       Server!Touched, Back!Touched

LEMMA InitServer == ServerInit => Server!ServerInit
BY DEF ServerInit

\* Only a commit, a rebuild and a drop show; what a call writes to the store
\* before its commit is a stutter.
LEMMA StepServer ==
  ServerIInv /\ [ServerNext]_allVars => [Server!ServerNext]_(Server!serverVars)
<1> SUFFICES ASSUME ServerIInv, [ServerNext]_allVars
    PROVE  Server!ServerNext \/ UNCHANGED Server!serverVars
  OBVIOUS
<1>1. CASE StoreStep
  <2>1. UNCHANGED <<known, serverVars>>
    BY <1>1, StoreStepLaw
  <2> QED
    BY <2>1 DEF Server!serverVars, serverVars
<1>2. CASE CommitMutations
  <2> DEFINE d     == AsCells(table)
             delta == Fold(mutation_log)
  <2>1. /\ material' = Server!Expanded(delta) /\ hint' = Back!Patch(hint, material', delta)
        /\ epoch' = epoch + 1 /\ seed' = seed /\ Server!Publish(TRUE, delta)
    BY <1>2 DEF CommitMutations
  <2>2. AsCells(known') = d /\ d \in Published /\ delta = Server!Minus(d, AsCells(known))
    BY <1>2, CommitLaw, SameBackend
  <2>3. epoch < MaxEpoch
    BY <1>2 DEF ServerIInv, Idle, CommitMutations, DrainMutations
  <2>4. hint' = Server!Patch(hint, material', delta)
    BY <2>1, SameBackend
  <2> HIDE DEF d, delta
  <2>5. Server!CommitMutations(d)
    BY <2>1, <2>2, <2>3, <2>4 DEF Server!CommitMutations
  <2> QED
    BY <2>2, <2>5 DEF Server!ServerNext
<1>3. CASE FullRebuild
  <2>1. /\ Idle /\ epoch < MaxEpoch /\ seed < MaxSeed /\ seed' = seed + 1
        /\ material' = [j \in Positions |-> seed'] /\ hint' = Back!Encode(seed', Served)
        /\ epoch' = epoch + 1 /\ known' = known /\ Server!Publish(FALSE, Back!ZeroDelta)
    BY <1>3 DEF FullRebuild, vars, logVars
  <2>2. hint' = Server!Encode(seed', AsCells(known)) /\ Server!Publish(FALSE, Server!ZeroDelta)
    BY <2>1, IdleServes, SameBackend
  <2>3. Server!FullRebuild
    BY <2>1, <2>2 DEF Server!FullRebuild
  <2> QED
    BY <2>3 DEF Server!ServerNext
<1>4. CASE DropHintMaterial
  <2>1. Server!DropHintMaterial
    BY <1>4 DEF DropHintMaterial, Server!DropHintMaterial, vars, logVars
  <2> QED
    BY <2>1 DEF Server!ServerNext
<1>5. CASE UNCHANGED allVars
  BY <1>5 DEF allVars, vars, logVars, serverVars, Server!serverVars
<1> QED
  BY <1>1, <1>2, <1>3, <1>4, <1>5 DEF ServerNext

\* Insertions with their kick chains and rollbacks, deletions, updates, their
\* commits, rebuilds and dropped matrices are together one run of IkpirServer:
\* the delta published with an epoch is the whole change of the cells since the
\* epoch before, and no other step of the store shows (insert, update, delete,
\* commit_mutations and fold_mutations_into_row_deltas of ikpir-server).
THEOREM StoreServes == ServerSpec => ImplementsServer
<1>1. ServerInit => Server!ServerInit
  BY InitServer
<1>2. ServerIInv /\ [ServerNext]_allVars => [Server!ServerNext]_(Server!serverVars)
  BY StepServer
<1> QED
  BY <1>1, <1>2, ServerStoreInvariance, PTL DEF ServerSpec, ImplementsServer, Server!ServerSpec

=============================================================================
