---------------------------- MODULE DigitsProofs ----------------------------
(***************************************************************************)
(* The laws of numbers by their digits, and of folds over finite sets: a   *)
(* number below a power of the base is its digits, FromDigits gives the    *)
(* number with given digits, digits in the middle can be replaced, and     *)
(* groups of digits are digits of a larger base.  The library's induction  *)
(* theorems cannot be instantiated, so induction is by a least             *)
(* counterexample (Climbs) or on subsets (FiniteClimb).                    *)
(***************************************************************************)
EXTENDS Digits, FiniteSetTheorems, WellFoundedInduction, TLAPS

-----------------------------------------------------------------------------
(* Natural numbers. *)

\* Induction, for a set of naturals.
LEMMA Climbs ==
  ASSUME NEW n \in Nat, NEW S \in SUBSET (0 .. n), 0 \in S,
         \A k \in 0 .. n - 1 : k \in S => k + 1 \in S
  PROVE  \A k \in 0 .. n : k \in S
<1> DEFINE T == (0 .. n) \ S
           R == OpToRel(<, Nat)
<1> SUFFICES ASSUME T # {} PROVE FALSE
  OBVIOUS
<1>1. PICK x \in T : \A y \in T : <<y, x>> \notin R
  <2>1. IsWellFoundedOn(R, Nat)
    BY NatLessThanWellFounded
  <2>2. T \subseteq Nat
    OBVIOUS
  <2> HIDE DEF T, R
  <2> QED
    BY <2>1, <2>2, WFMin, Zenon
<1>2. x \in 1 .. n /\ x \notin S
  <2> HIDE DEF R
  <2>1. x \in 0 .. n /\ x \notin S
    BY <1>1
  <2>2. x # 0
    BY <2>1
  <2> QED
    BY <2>1, <2>2
<1>3. x - 1 \in T
  <2> HIDE DEF R
  <2>1. x - 1 \in 0 .. n - 1 /\ x - 1 \in 0 .. n /\ (x - 1) + 1 = x
    BY <1>2
  <2>2. x - 1 \notin S
    BY <1>2, <2>1
  <2> QED
    BY <2>1, <2>2
<1>4. <<x - 1, x>> \in {ss \in Nat \X Nat : ss[1] < ss[2]}
  BY <1>2
<1>5. R = {ss \in Nat \X Nat : ss[1] < ss[2]}
  BY Zenon DEF OpToRel
<1> QED
  BY <1>1, <1>3, <1>4, <1>5, Zenon

\* The quotient and the remainder are the numbers that multiply and add up.
LEMMA DivIs ==
  ASSUME NEW x \in Nat, NEW m \in Nat \ {0}, NEW q \in Nat, NEW r \in 0 .. m - 1,
         x = m * q + r
  PROVE  x \div m = q /\ x % m = r
<1>1. x \div m \in Nat /\ x % m \in 0 .. m - 1 /\ x = m * (x \div m) + (x % m)
  OBVIOUS
<1> DEFINE p == x \div m
           s == x % m
<1>2. p \in Nat /\ s \in 0 .. m - 1 /\ m * p + s = m * q + r
  BY <1>1
<1> HIDE DEF p, s
<1>3. ~(p < q)
  <2> SUFFICES ASSUME p < q PROVE FALSE
    OBVIOUS
  <2>1. PICK e \in Nat : q = p + 1 + e
    <3>1. q - p - 1 \in Nat /\ q = p + 1 + (q - p - 1)
      BY <1>2
    <3> QED
      BY <3>1
  <2>2. m * q = m * p + m + m * e /\ m * e \in Nat
    BY <1>2, <2>1
  <2> QED
    BY <1>2, <2>2
<1>4. ~(q < p)
  <2> SUFFICES ASSUME q < p PROVE FALSE
    OBVIOUS
  <2>1. PICK e \in Nat : p = q + 1 + e
    <3>1. p - q - 1 \in Nat /\ p = q + 1 + (p - q - 1)
      BY <1>2
    <3> QED
      BY <3>1
  <2>2. m * p = m * q + m + m * e /\ m * e \in Nat
    BY <1>2, <2>1
  <2> QED
    BY <1>2, <2>2
<1>5. p = q
  BY <1>2, <1>3, <1>4
<1>6. s = r
  BY <1>2, <1>5
<1> QED
  BY <1>5, <1>6 DEF p, s

\* Every number is its quotient and its remainder.
LEMMA DivMod ==
  ASSUME NEW x \in Nat, NEW m \in Nat \ {0}
  PROVE  /\ x \div m \in Nat /\ x % m \in 0 .. m - 1 /\ x % m \in Nat
         /\ x = m * (x \div m) + (x % m)
OBVIOUS

\* To divide twice is to divide by the product.
LEMMA DivTwice ==
  ASSUME NEW x \in Nat, NEW m \in Nat \ {0}, NEW n \in Nat \ {0}
  PROVE  (x \div m) \div n = x \div (m * n)
<1> DEFINE y == x \div m
           r == x % m
           q == y \div n
           s == y % n
<1>1. y \in Nat /\ r \in 0 .. m - 1 /\ x = m * y + r
  BY DivMod
<1>2. q \in Nat /\ s \in 0 .. n - 1 /\ y = n * q + s
  BY <1>1, DivMod
<1> HIDE DEF y, r, q, s
<1>3. m * n \in Nat \ {0} /\ m * s \in Nat
  BY <1>2
<1>4. x = (m * n) * q + (m * s + r)
  <2>1. m * y = m * (n * q) + m * s
    BY <1>1, <1>2
  <2>2. m * (n * q) = (m * n) * q
    BY <1>2
  <2> DEFINE a == m * y
             b == m * (n * q)
             c == (m * n) * q
             d == m * s
  <2>3. a \in Int /\ b \in Int /\ c \in Int /\ d \in Int
    BY <1>1, <1>2
  <2>4. a = b + d /\ b = c /\ x = a + r
    BY <1>1, <2>1, <2>2
  <2> HIDE DEF a, b, c, d
  <2>5. x = c + (d + r)
    BY <1>1, <2>3, <2>4
  <2> QED
    BY <2>5 DEF c, d
<1>5. m * s + r \in 0 .. m * n - 1
  <2>1. m * s <= m * (n - 1)
    BY <1>2
  <2>2. m * (n - 1) = m * n - m
    OBVIOUS
  <2> QED
    BY <1>1, <1>3, <2>1, <2>2
<1>6. x \div (m * n) = q
  BY <1>2, <1>3, <1>4, <1>5, DivIs
<1> QED
  BY <1>6 DEF q, y

-----------------------------------------------------------------------------
(* Powers and digits. *)

\* A base whose powers are known up to n.
Lawful(base, n) == base \in Nat \ {0} /\ n \in Nat /\ PowersUpTo(base, n)

\* Powers are positive naturals.
LEMMA PowerType ==
  ASSUME NEW base, NEW n, Lawful(base, n)
  PROVE  \A k \in 0 .. n : base ^ k \in Nat \ {0}
<1> DEFINE S == {k \in 0 .. n : base ^ k \in Nat \ {0}}
<1>1. n \in Nat /\ base \in Nat \ {0} /\ base ^ 0 = 1
  BY DEF Lawful, PowersUpTo
<1>2. 0 \in S
  BY <1>1
<1>3. ASSUME NEW k \in 0 .. n - 1, k \in S PROVE k + 1 \in S
  <2>1. base ^ (k + 1) = base * base ^ k /\ base ^ k \in Nat \ {0}
    BY <1>3 DEF Lawful, PowersUpTo
  <2>2. \A a \in Nat \ {0} : base * a \in Nat \ {0}
    BY <1>1
  <2>3. base ^ (k + 1) \in Nat \ {0}
    BY <2>1, <2>2
  <2>4. k + 1 \in 0 .. n
    BY <1>1
  <2> QED
    BY <2>3, <2>4
<1>4. \A k \in 0 .. n : k \in S
  <2> S \in SUBSET (0 .. n)
    OBVIOUS
  <2> HIDE DEF S
  <2> QED
    BY <1>1, <1>2, <1>3, Climbs
<1> QED
  BY <1>4

\* One power more is one factor more.
LEMMA PowerStep ==
  ASSUME NEW base, NEW n, Lawful(base, n), NEW k \in 0 .. n - 1
  PROVE  /\ base ^ (k + 1) = base * base ^ k /\ k \in 0 .. n /\ k + 1 \in 0 .. n
         /\ base ^ k \in Nat \ {0} /\ base ^ (k + 1) \in Nat \ {0}
<1>1. n \in Nat /\ k \in 0 .. n /\ k + 1 \in 0 .. n
  BY DEF Lawful
<1> QED
  BY <1>1, PowerType DEF Lawful, PowersUpTo

\* The power of a sum of exponents is the product of the powers.
LEMMA PowerAdds ==
  ASSUME NEW base, NEW n, Lawful(base, n), NEW i \in 0 .. n, NEW j \in 0 .. n - i
  PROVE  base ^ (i + j) = base ^ i * base ^ j
<1>1. n \in Nat /\ base \in Nat \ {0} /\ base ^ 0 = 1 /\ n - i \in Nat
  BY DEF Lawful, PowersUpTo
<1> DEFINE S == {k \in 0 .. n - i : base ^ (i + k) = base ^ i * base ^ k}
<1>2. 0 \in S
  <2>1. base ^ i \in Nat
    BY PowerType
  <2>2. \A a \in Nat : a = a * 1
    OBVIOUS
  <2>3. i + 0 = i
    OBVIOUS
  <2> QED
    BY <1>1, <2>1, <2>2, <2>3
<1>3. ASSUME NEW k \in 0 .. (n - i) - 1, k \in S PROVE k + 1 \in S
  <2>1. i + k \in 0 .. n - 1 /\ k \in 0 .. n - 1 /\ k + 1 \in 0 .. n - i /\ i + (k + 1) = (i + k) + 1
    BY <1>1
  <2>2. base ^ ((i + k) + 1) = base * base ^ (i + k)
    BY <2>1, PowerStep
  <2>3. base ^ (k + 1) = base * base ^ k
    BY <2>1, PowerStep
  <2>4. base ^ i \in Nat /\ base ^ k \in Nat
    BY <2>1, PowerType, <1>1
  <2>5. \A a, b \in Nat : base * (a * b) = a * (base * b)
    BY <1>1
  <2>6. base ^ (i + (k + 1)) = base ^ i * base ^ (k + 1)
    BY <1>3, <2>1, <2>2, <2>3, <2>4, <2>5
  <2> QED
    BY <2>1, <2>6
<1>4. \A k \in 0 .. n - i : k \in S
  <2> S \in SUBSET (0 .. n - i)
    OBVIOUS
  <2> HIDE DEF S
  <2> QED
    BY <1>1, <1>2, <1>3, Climbs
<1> QED
  BY <1>4

\* A number above digit d is its digit d and the number above that.
LEMMA DigitStep ==
  ASSUME NEW base, NEW n, Lawful(base, n), NEW x \in Nat, NEW d \in 0 .. n - 1
  PROVE  /\ Digit(base, x, d) \in 0 .. base - 1
         /\ x \div base ^ d \in Nat /\ x \div base ^ (d + 1) \in Nat
         /\ x \div base ^ d = base * (x \div base ^ (d + 1)) + Digit(base, x, d)
<1>1. base \in Nat \ {0}
  BY DEF Lawful
<1>2. base ^ (d + 1) = base ^ d * base /\ base ^ d \in Nat \ {0} /\ base ^ (d + 1) \in Nat \ {0}
  <2>1. \A a \in Nat : base * a = a * base
    BY <1>1
  <2> QED
    BY <2>1, PowerStep
<1>3. (x \div base ^ d) \div base = x \div base ^ (d + 1)
  <2>1. (x \div base ^ d) \div base = x \div (base ^ d * base)
    BY <1>1, <1>2, DivTwice
  <2> QED
    BY <1>2, <2>1, Zenon
<1>4. x \div base ^ d \in Nat /\ x \div base ^ (d + 1) \in Nat
  BY <1>2, DivMod
<1>5. x \div base ^ d = base * ((x \div base ^ d) \div base) + ((x \div base ^ d) % base)
  BY <1>1, <1>4, DivMod
<1>6. (x \div base ^ d) % base \in 0 .. base - 1
  BY <1>1, <1>4, DivMod
<1> QED
  BY <1>3, <1>4, <1>5, <1>6 DEF Digit

\* A number below base ^ t has no digits from t on.
LEMMA NothingAbove ==
  ASSUME NEW base, NEW n, Lawful(base, n), NEW t \in 0 .. n, NEW x \in 0 .. base ^ t - 1,
         NEW d \in t .. n
  PROVE  x \div base ^ d = 0 /\ Digit(base, x, d) = 0
<1>1. base \in Nat \ {0} /\ n \in Nat
  BY DEF Lawful
<1>2. d - t \in 0 .. n - t /\ t + (d - t) = d /\ d \in 0 .. n /\ d - t \in 0 .. n
  BY <1>1
<1>3. base ^ d = base ^ t * base ^ (d - t)
  BY <1>2, PowerAdds
<1>4. base ^ t \in Nat \ {0} /\ base ^ (d - t) \in Nat \ {0} /\ base ^ d \in Nat \ {0}
  BY <1>2, PowerType
<1>5. \A a, b \in Nat \ {0} : a * b >= a
  OBVIOUS
<1>6. base ^ t <= base ^ d
  BY <1>3, <1>4, <1>5
<1>7. x \in Nat /\ x \in 0 .. base ^ d - 1 /\ x = base ^ d * 0 + x
  BY <1>4, <1>6
<1>8. x \div base ^ d = 0
  BY <1>4, <1>7, DivIs
<1>9. 0 % base = 0
  BY <1>1
<1> QED
  BY <1>8, <1>9 DEF Digit

\* A number below base ^ n without digits from t on is below base ^ t.
LEMMA BelowPower ==
  ASSUME NEW base, NEW n, Lawful(base, n), NEW t \in 0 .. n, NEW x \in 0 .. base ^ n - 1,
         \A d \in t .. n - 1 : Digit(base, x, d) = 0
  PROVE  x \in 0 .. base ^ t - 1
<1>1. base \in Nat \ {0} /\ n \in Nat /\ n \in 0 .. n
  BY DEF Lawful
<1>2. base ^ n \in Nat \ {0} /\ base ^ t \in Nat \ {0} /\ x \in Nat
  BY <1>1, PowerType
<1> DEFINE S == {k \in 0 .. n - t : x \div base ^ (n - k) = 0}
<1>3. 0 \in S
  <2>1. n \in n .. n /\ n - 0 = n /\ 0 \in 0 .. n - t
    BY <1>1
  <2> QED
    BY <1>1, <2>1, NothingAbove
<1>4. ASSUME NEW k \in 0 .. (n - t) - 1, k \in S PROVE k + 1 \in S
  <2>1. /\ n - (k + 1) \in 0 .. n - 1 /\ n - (k + 1) \in t .. n - 1
        /\ (n - (k + 1)) + 1 = n - k /\ k + 1 \in 0 .. n - t
    BY <1>1
  <2>2. x \div base ^ (n - (k + 1)) = base * (x \div base ^ (n - k)) + Digit(base, x, n - (k + 1))
    BY <1>2, <2>1, DigitStep
  <2>3. x \div base ^ (n - k) = 0 /\ Digit(base, x, n - (k + 1)) = 0
    BY <1>4, <2>1
  <2>4. base * 0 + 0 = 0
    BY <1>1
  <2>5. x \div base ^ (n - (k + 1)) = 0
    BY <2>2, <2>3, <2>4, Zenon
  <2> QED
    BY <2>1, <2>5
<1>5. \A k \in 0 .. n - t : k \in S
  <2> S \in SUBSET (0 .. n - t) /\ n - t \in Nat
    BY <1>1
  <2> HIDE DEF S
  <2> QED
    BY <1>1, <1>3, <1>4, Climbs
<1>6. x \div base ^ t = 0
  <2>1. n - t \in 0 .. n - t /\ n - (n - t) = t
    BY <1>1
  <2> QED
    BY <1>5, <2>1
<1>7. x = base ^ t * (x \div base ^ t) + (x % base ^ t) /\ x % base ^ t \in 0 .. base ^ t - 1
  BY <1>2, DivMod
<1> QED
  BY <1>2, <1>6, <1>7

\* Digits determine a number.
LEMMA SameDigits ==
  ASSUME NEW base, NEW n, Lawful(base, n), NEW x \in 0 .. base ^ n - 1, NEW y \in 0 .. base ^ n - 1,
         \A d \in 0 .. n - 1 : Digit(base, x, d) = Digit(base, y, d)
  PROVE  x = y
<1>1. base \in Nat \ {0} /\ n \in Nat /\ n \in 0 .. n /\ base ^ 0 = 1
  BY DEF Lawful, PowersUpTo
<1>2. base ^ n \in Nat \ {0} /\ x \in Nat /\ y \in Nat
  BY <1>1, PowerType
<1> DEFINE S == {k \in 0 .. n : x \div base ^ (n - k) = y \div base ^ (n - k)}
<1>3. 0 \in S
  <2>1. n \in n .. n /\ n - 0 = n /\ 0 \in 0 .. n
    BY <1>1
  <2>2. x \div base ^ n = 0
    BY <1>1, <2>1, NothingAbove
  <2>3. y \div base ^ n = 0
    BY <1>1, <2>1, NothingAbove
  <2> QED
    BY <2>1, <2>2, <2>3
<1>4. ASSUME NEW k \in 0 .. n - 1, k \in S PROVE k + 1 \in S
  <2>1. n - (k + 1) \in 0 .. n - 1 /\ (n - (k + 1)) + 1 = n - k /\ k + 1 \in 0 .. n
    BY <1>1
  <2>2. x \div base ^ (n - (k + 1)) = base * (x \div base ^ (n - k)) + Digit(base, x, n - (k + 1))
    BY <1>2, <2>1, DigitStep
  <2>3. y \div base ^ (n - (k + 1)) = base * (y \div base ^ (n - k)) + Digit(base, y, n - (k + 1))
    BY <1>2, <2>1, DigitStep
  <2>4. x \div base ^ (n - k) = y \div base ^ (n - k)
    BY <1>4
  <2>5. Digit(base, x, n - (k + 1)) = Digit(base, y, n - (k + 1))
    BY <2>1
  <2>6. x \div base ^ (n - (k + 1)) = y \div base ^ (n - (k + 1))
    BY <2>2, <2>3, <2>4, <2>5
  <2> QED
    BY <2>1, <2>6
<1>5. \A k \in 0 .. n : k \in S
  <2> S \in SUBSET (0 .. n)
    OBVIOUS
  <2> HIDE DEF S
  <2> QED
    BY <1>1, <1>3, <1>4, Climbs
<1>6. x \div base ^ 0 = y \div base ^ 0
  <2>1. n - n = 0
    BY <1>1
  <2> QED
    BY <1>1, <1>5, <2>1
<1> QED
  BY <1>1, <1>2, <1>6

-----------------------------------------------------------------------------
(* Folds over finite sets. *)

\* A set without one of its elements is smaller.
LEMMA SmallerSet ==
  ASSUME NEW T, IsFiniteSet(T), NEW s \in SUBSET T, NEW x \in s
  PROVE  /\ s \ {x} \in SUBSET T /\ Cardinality(s) \in Nat \ {0}
         /\ Cardinality(s \ {x}) = Cardinality(s) - 1
         /\ Cardinality(s) <= Cardinality(T)
<1>1. IsFiniteSet(s) /\ Cardinality(s) <= Cardinality(T)
  BY FS_Subset
<1>2. Cardinality(s) \in Nat /\ Cardinality(s \ {x}) = Cardinality(s) - 1
  BY <1>1, FS_RemoveElement, FS_CardinalityType
<1>3. Cardinality(s) # 0
  BY <1>1, FS_EmptySet
<1> QED
  BY <1>1, <1>2, <1>3

\* What holds of the empty set, and of a set when it holds of the set without
\* one of its elements, holds of every subset of a finite set.
LEMMA FiniteClimb ==
  ASSUME NEW T, IsFiniteSet(T), NEW K \in SUBSET (SUBSET T), {} \in K,
         \A s \in SUBSET T : s # {} => \E x \in s : s \ {x} \in K => s \in K
  PROVE  \A s \in SUBSET T : s \in K
<1> DEFINE n == Cardinality(T)
           S == {k \in 0 .. n : \A s \in SUBSET T : Cardinality(s) <= k => s \in K}
<1>1. n \in Nat
  BY FS_CardinalityType
<1>2. 0 \in S
  <2>1. ASSUME NEW s \in SUBSET T, Cardinality(s) <= 0 PROVE s \in K
    <3> SUFFICES ASSUME s # {} PROVE FALSE
      OBVIOUS
    <3>1. PICK x \in s : TRUE
      OBVIOUS
    <3>2. Cardinality(s) \in Nat \ {0}
      BY SmallerSet
    <3> QED
      BY <2>1, <3>2
  <2> QED
    BY <1>1, <2>1
<1>3. ASSUME NEW k \in 0 .. n - 1, k \in S PROVE k + 1 \in S
  <2>1. ASSUME NEW s \in SUBSET T, Cardinality(s) <= k + 1 PROVE s \in K
    <3>1. CASE s = {}
      BY <3>1
    <3>2. CASE s # {}
      <4>1. PICK x \in s : s \ {x} \in K => s \in K
        BY <3>2
      <4>2. s \ {x} \in SUBSET T /\ Cardinality(s) \in Nat /\ Cardinality(s \ {x}) = Cardinality(s) - 1
        BY SmallerSet
      <4>3. Cardinality(s \ {x}) <= k
        BY <2>1, <4>2
      <4> QED
        BY <1>3, <4>1, <4>2, <4>3
    <3> QED
      BY <3>1, <3>2
  <2>2. k + 1 \in 0 .. n
    BY <1>1
  <2> QED
    BY <2>1, <2>2
<1>4. n \in S
  <2>1. \A k \in 0 .. n : k \in S
    <3> S \in SUBSET (0 .. n)
      OBVIOUS
    <3> HIDE DEF S
    <3> QED
      BY <1>1, <1>2, <1>3, Climbs
  <2> HIDE DEF S
  <2> QED
    BY <1>1, <2>1
<1> SUFFICES ASSUME NEW s \in SUBSET T PROVE s \in K
  OBVIOUS
<1>5. Cardinality(s) <= n
  BY FS_Subset
<1> QED
  BY <1>4, <1>5

\* A fold that takes the elements in the order of CHOOSE.
FoldsOver(T, base, op, g) ==
  g = [s \in SUBSET T |-> IF s = {} THEN base
                          ELSE op[CHOOSE x \in s : TRUE][g[s \ {CHOOSE x \in s : TRUE}]]]

\* One that takes them in a given order.
FoldsBy(pick, T, base, op, g) ==
  g = [s \in SUBSET T |-> IF s = {} THEN base ELSE op[pick[s]][g[s \ {pick[s]}]]]

\* The recursion of a fold over a finite set has a solution.
LEMMA FoldByExists ==
  ASSUME NEW T, IsFiniteSet(T), NEW D, NEW base \in D, NEW op \in [T -> [D -> D]],
         NEW pick, \A s \in SUBSET T : s # {} => pick[s] \in s
  PROVE  \E g \in [SUBSET T -> D] : FoldsBy(pick, T, base, op, g)
<1> DEFINE n       == Cardinality(T)
           c(s)    == pick[s]
           F(g, s) == IF s = {} THEN base ELSE op[c(s)][g[s \ {c(s)}]]
           S       == {k \in 0 .. n : \E g \in [SUBSET T -> D] :
                                \A s \in SUBSET T : Cardinality(s) <= k => g[s] = F(g, s)}
<1>1. n \in Nat
  BY FS_CardinalityType
<1>2. ASSUME NEW s \in SUBSET T, s # {}
      PROVE  /\ c(s) \in s /\ s \ {c(s)} \in SUBSET T
             /\ Cardinality(s) \in Nat \ {0} /\ Cardinality(s \ {c(s)}) = Cardinality(s) - 1
             /\ Cardinality(s) <= n
  <2>1. c(s) \in s
    BY <1>2
  <2> HIDE DEF c
  <2> QED
    BY <2>1, SmallerSet
<1> HIDE DEF c
<1>3. 0 \in S
  <2> DEFINE g == [s \in SUBSET T |-> base]
  <2>1. g \in [SUBSET T -> D]
    OBVIOUS
  <2>2. ASSUME NEW s \in SUBSET T, Cardinality(s) <= 0 PROVE g[s] = F(g, s)
    <3>1. s = {}
      <4> SUFFICES ASSUME s # {} PROVE FALSE
        OBVIOUS
      <4>1. Cardinality(s) \in Nat \ {0}
        BY <1>2
      <4> QED
        BY <2>2, <4>1
    <3> QED
      BY <3>1
  <2>3. 0 \in 0 .. n
    BY <1>1
  <2> HIDE DEF g, F
  <2> QED
    BY <2>1, <2>2, <2>3
<1>4. ASSUME NEW k \in 0 .. n - 1, k \in S PROVE k + 1 \in S
  <2>1. PICK g \in [SUBSET T -> D] : \A s \in SUBSET T : Cardinality(s) <= k => g[s] = F(g, s)
    BY <1>4
  <2> DEFINE h == [s \in SUBSET T |-> F(g, s)]
  <2>2. h \in [SUBSET T -> D]
    <3>1. ASSUME NEW s \in SUBSET T PROVE F(g, s) \in D
      <4>1. CASE s = {}
        BY <4>1
      <4>2. CASE s # {}
        <5>1. c(s) \in T /\ s \ {c(s)} \in SUBSET T
          BY <1>2, <4>2
        <5>2. g[s \ {c(s)}] \in D
          BY <2>1, <5>1
        <5> QED
          BY <4>2, <5>1, <5>2
      <4> QED
        BY <4>1, <4>2
    <3> HIDE DEF F
    <3> QED
      BY <3>1
  <2>3. ASSUME NEW s \in SUBSET T, Cardinality(s) <= k + 1 PROVE h[s] = F(h, s)
    <3>1. CASE s = {}
      BY <3>1
    <3>2. CASE s # {}
      <4>1. s \ {c(s)} \in SUBSET T /\ Cardinality(s \ {c(s)}) <= k
        <5>1. /\ Cardinality(s) \in Nat \ {0} /\ Cardinality(s \ {c(s)}) = Cardinality(s) - 1
              /\ s \ {c(s)} \in SUBSET T
          BY <1>2, <3>2
        <5> QED
          BY <2>3, <5>1
      <4>2. h[s \ {c(s)}] = F(g, s \ {c(s)})
        BY <4>1
      <4>3. h[s \ {c(s)}] = g[s \ {c(s)}]
        <5> HIDE DEF F, h
        <5> QED
          BY <2>1, <4>1, <4>2
      <4> HIDE DEF h
      <4>4. F(h, s) = F(g, s)
        BY <3>2, <4>3
      <4> QED
        BY <4>4 DEF h
    <3> QED
      BY <3>1, <3>2
  <2>4. k + 1 \in 0 .. n
    BY <1>1
  <2> HIDE DEF h, F
  <2> QED
    BY <2>2, <2>3, <2>4
<1>5. n \in S
  <2>1. \A k \in 0 .. n : k \in S
    <3> S \in SUBSET (0 .. n)
      OBVIOUS
    <3> HIDE DEF S
    <3> QED
      BY <1>1, <1>3, <1>4, Climbs
  <2> HIDE DEF S
  <2> QED
    BY <1>1, <2>1
<1>6. PICK g \in [SUBSET T -> D] : \A s \in SUBSET T : Cardinality(s) <= n => g[s] = F(g, s)
  BY <1>5
<1>7. ASSUME NEW s \in SUBSET T PROVE g[s] = F(g, s)
  <2>1. Cardinality(s) <= n
    BY FS_Subset
  <2> HIDE DEF n, F
  <2> QED
    BY <1>6, <2>1
<1>8. g = [s \in SUBSET T |-> F(g, s)]
  <2> HIDE DEF F
  <2> QED
    BY <1>6, <1>7
<1>9. FoldsBy(pick, T, base, op, g)
  BY <1>8, Zenon DEF FoldsBy, F, c
<1> QED
  BY <1>6, <1>9

LEMMA FoldExists ==
  ASSUME NEW T, IsFiniteSet(T), NEW D, NEW base \in D, NEW op \in [T -> [D -> D]]
  PROVE  \E g \in [SUBSET T -> D] : FoldsOver(T, base, op, g)
<1> DEFINE c(s) == CHOOSE x \in s : TRUE
           pick == [s \in SUBSET T |-> c(s)]
<1>1. \A s \in SUBSET T : pick[s] = c(s) /\ (s # {} => c(s) \in s)
  OBVIOUS
<1> HIDE DEF c, pick
<1>2. PICK g \in [SUBSET T -> D] : FoldsBy(pick, T, base, op, g)
  <2>1. \A s \in SUBSET T : s # {} => pick[s] \in s
    BY <1>1
  <2> QED
    BY <2>1, FoldByExists
<1>3. \A s \in SUBSET T : g[s] = IF s = {} THEN base ELSE op[c(s)][g[s \ {c(s)}]]
  <2> SUFFICES ASSUME NEW s \in SUBSET T
      PROVE  g[s] = IF s = {} THEN base ELSE op[c(s)][g[s \ {c(s)}]]
    OBVIOUS
  <2>1. g = [u \in SUBSET T |-> IF u = {} THEN base ELSE op[pick[u]][g[u \ {pick[u]}]]]
    BY <1>2, Zenon DEF FoldsBy
  <2>2. g[s] = IF s = {} THEN base ELSE op[pick[s]][g[s \ {pick[s]}]]
    BY <2>1, Zenon
  <2>3. pick[s] = c(s)
    BY <1>1
  <2> QED
    BY <2>2, <2>3, Zenon
<1>4. g = [s \in SUBSET T |-> IF s = {} THEN base ELSE op[c(s)][g[s \ {c(s)}]]]
  BY <1>2, <1>3
<1>5. FoldsOver(T, base, op, g)
  BY <1>4, Zenon DEF FoldsOver, c
<1> QED
  BY <1>2, <1>5

-----------------------------------------------------------------------------
(* Sums over finite sets. *)

\* A sum that takes the elements in the order of CHOOSE.
Sums(T, f, g) ==
  g = [s \in SUBSET T |-> IF s = {} THEN 0
                          ELSE f[CHOOSE x \in s : TRUE] + g[s \ {CHOOSE x \in s : TRUE}]]

\* The recursion by which a fold sums over a finite set has a solution.
LEMMA SumExists ==
  ASSUME NEW T, IsFiniteSet(T), NEW f \in [T -> Int]
  PROVE  \E g : Sums(T, f, g)
<1> DEFINE c(s) == CHOOSE x \in s : TRUE
           op   == [x \in T |-> [m \in Int |-> f[x] + m]]
<1>1. op \in [T -> [Int -> Int]]
  OBVIOUS
<1>2. PICK g \in [SUBSET T -> Int] : FoldsOver(T, 0, op, g)
  <2> HIDE DEF op
  <2> QED
    <3>1. 0 \in Int
      OBVIOUS
    <3> QED
      BY <1>1, <3>1, FoldExists
<1>3. g = [s \in SUBSET T |-> IF s = {} THEN 0 ELSE op[c(s)][g[s \ {c(s)}]]]
  BY <1>2, Zenon DEF FoldsOver
<1>4. ASSUME NEW s \in SUBSET T
      PROVE  g[s] = IF s = {} THEN 0 ELSE f[c(s)] + g[s \ {c(s)}]
  <2>1. g[s] = IF s = {} THEN 0 ELSE op[c(s)][g[s \ {c(s)}]]
    <3> HIDE DEF op, c
    <3> QED
      BY <1>3
  <2>2. CASE s # {}
    <3>1. c(s) \in T
      BY <2>2
    <3> HIDE DEF c
    <3>2. op[c(s)][g[s \ {c(s)}]] = f[c(s)] + g[s \ {c(s)}]
      BY <3>1
    <3> QED
      BY <2>1, <2>2, <3>2
  <2> QED
    BY <2>1, <2>2
<1>5. g = [s \in SUBSET T |-> IF s = {} THEN 0 ELSE f[c(s)] + g[s \ {c(s)}]]
  <2> HIDE DEF c
  <2> QED
    BY <1>4
<1> QED
  BY <1>5, Zenon DEF Sums

\* The order does not matter: any element may be taken first.
LEMMA SumUnfolds ==
  ASSUME NEW T, IsFiniteSet(T), NEW f \in [T -> Int], NEW g, Sums(T, f, g)
  PROVE  /\ g[{}] = 0
         /\ \A s \in SUBSET T : g[s] \in Int /\ \A x \in s : g[s] = f[x] + g[s \ {x}]
<1> DEFINE n    == Cardinality(T)
           c(s) == CHOOSE x \in s : TRUE
           S    == {k \in 0 .. n :
                      \A s \in SUBSET T : Cardinality(s) <= k =>
                        g[s] \in Int /\ \A x \in s : g[s] = f[x] + g[s \ {x}]}
<1>1. n \in Nat
  BY FS_CardinalityType
<1>2. /\ g[{}] = 0
      /\ \A s \in SUBSET T : s # {} => c(s) \in s /\ g[s] = f[c(s)] + g[s \ {c(s)}]
  <2>1. g = [s \in SUBSET T |-> IF s = {} THEN 0 ELSE f[c(s)] + g[s \ {c(s)}]]
    BY Zenon DEF Sums
  <2>2. \A s \in SUBSET T : s # {} => c(s) \in s
    OBVIOUS
  <2> HIDE DEF c
  <2>3. \A s \in SUBSET T : g[s] = IF s = {} THEN 0 ELSE f[c(s)] + g[s \ {c(s)}]
    BY <2>1
  <2>4. {} \in SUBSET T
    OBVIOUS
  <2> QED
    BY <2>2, <2>3, <2>4
<1> HIDE DEF c
<1>3. 0 \in S
  <2>1. ASSUME NEW s \in SUBSET T, Cardinality(s) <= 0 PROVE s = {}
    <3> SUFFICES ASSUME NEW x \in s PROVE FALSE
      OBVIOUS
    <3>1. Cardinality(s) \in Nat \ {0}
      BY SmallerSet
    <3> QED
      BY <2>1, <3>1
  <2>2. 0 \in 0 .. n
    BY <1>1
  <2>3. ASSUME NEW s \in SUBSET T, Cardinality(s) <= 0
        PROVE  g[s] \in Int /\ \A x \in s : g[s] = f[x] + g[s \ {x}]
    <3>1. s = {}
      BY <2>1, <2>3
    <3>2. g[s] = 0
      BY <1>2, <3>1
    <3> QED
      BY <3>1, <3>2
  <2> QED
    BY <2>2, <2>3
<1>4. ASSUME NEW k \in 0 .. n - 1, k \in S PROVE k + 1 \in S
  <2>0. k + 1 \in 0 .. n /\ k \in Nat
    BY <1>1
  <2>1. ASSUME NEW s \in SUBSET T, Cardinality(s) <= k
        PROVE  g[s] \in Int /\ \A x \in s : g[s] = f[x] + g[s \ {x}]
    BY <1>4, <2>1
  <2> SUFFICES ASSUME NEW s \in SUBSET T, Cardinality(s) <= k + 1
               PROVE  g[s] \in Int /\ \A x \in s : g[s] = f[x] + g[s \ {x}]
    <3> DEFINE P(s) == g[s] \in Int /\ \A x \in s : g[s] = f[x] + g[s \ {x}]
    <3>1. \A s \in SUBSET T : Cardinality(s) <= k + 1 => P(s)
      OBVIOUS
    <3> HIDE DEF P
    <3>2. k + 1 \in {j \in 0 .. n : \A s \in SUBSET T : Cardinality(s) <= j => P(s)}
      BY <2>0, <3>1
    <3> QED
      BY <3>2 DEF P
  <2>2. CASE s = {}
    BY <1>2, <2>2
  <2>3. CASE s # {}
    <3> DEFINE y == c(s)
    <3>1. y \in s /\ g[s] = f[y] + g[s \ {y}] /\ f[y] \in Int
      BY <1>2, <2>3
    <3> HIDE DEF y
    <3>2. ASSUME NEW x \in s PROVE s \ {x} \in SUBSET T /\ Cardinality(s \ {x}) <= k /\ f[x] \in Int
      <4>1. /\ s \ {x} \in SUBSET T /\ Cardinality(s) \in Nat \ {0}
            /\ Cardinality(s \ {x}) = Cardinality(s) - 1
        BY SmallerSet
      <4> QED
        BY <2>0, <4>1
    <3>3. g[s] \in Int
      BY <2>1, <3>1, <3>2
    <3>4. ASSUME NEW x \in s, x # y PROVE g[s] = f[x] + g[s \ {x}]
      <4>1. (s \ {y}) \ {x} = (s \ {x}) \ {y} /\ x \in s \ {y} /\ y \in s \ {x}
        BY <3>1, <3>4
      <4> DEFINE r == (s \ {x}) \ {y}
      <4>2. g[s \ {y}] = f[x] + g[r]
        BY <2>1, <3>1, <3>2, <4>1
      <4>3. g[s \ {x}] = f[y] + g[r]
        BY <2>1, <3>1, <3>2, <4>1
      <4>4. g[r] \in Int
        <5>1. r \in SUBSET T /\ Cardinality(r) <= k
          <6>1. s \ {x} \in SUBSET T /\ Cardinality(s \ {x}) <= k
            BY <3>2
          <6>2. /\ r \in SUBSET T /\ Cardinality(s \ {x}) \in Nat \ {0}
                /\ Cardinality(r) = Cardinality(s \ {x}) - 1
            <7> DEFINE u == s \ {x}
            <7>1. y \in u /\ u \in SUBSET T
              BY <4>1, <6>1
            <7> HIDE DEF u
            <7>2. /\ u \ {y} \in SUBSET T /\ Cardinality(u) \in Nat \ {0}
                  /\ Cardinality(u \ {y}) = Cardinality(u) - 1
              BY <7>1, SmallerSet
            <7> QED
              BY <7>2 DEF u
          <6> QED
            BY <2>0, <6>1, <6>2
        <5> QED
          BY <2>1, <5>1
      <4> HIDE DEF r
      <4>5. f[x] \in Int /\ f[y] \in Int
        BY <3>1, <3>2
      <4> QED
        BY <3>1, <4>2, <4>3, <4>4, <4>5
    <3> QED
      BY <3>1, <3>3, <3>4
  <2> QED
    BY <2>2, <2>3
<1>5. \A k \in 0 .. n : k \in S
  <2> S \in SUBSET (0 .. n)
    OBVIOUS
  <2> HIDE DEF S
  <2> QED
    BY <1>1, <1>3, <1>4, Climbs
<1>6. ASSUME NEW s \in SUBSET T
      PROVE  g[s] \in Int /\ \A x \in s : g[s] = f[x] + g[s \ {x}]
  <2>1. n \in 0 .. n /\ Cardinality(s) <= n
    BY <1>1, FS_Subset
  <2>2. n \in S
    BY <1>5, <2>1
  <2> QED
    BY <2>1, <2>2
<1> QED
  BY <1>2, <1>6

\* A sum of naturals is one.
LEMMA SumNatural ==
  ASSUME NEW T, IsFiniteSet(T), NEW f \in [T -> Nat], NEW g, Sums(T, f, g)
  PROVE  \A s \in SUBSET T : g[s] \in Nat
<1> DEFINE K == {s \in SUBSET T : g[s] \in Nat}
<1>1. /\ g[{}] = 0
      /\ \A s \in SUBSET T : \A x \in s : g[s] = f[x] + g[s \ {x}]
  <2>1. f \in [T -> Int]
    OBVIOUS
  <2> QED
    BY <2>1, SumUnfolds
<1>2. {} \in K
  BY <1>1
<1>3. ASSUME NEW s \in SUBSET T, s # {} PROVE \E x \in s : s \ {x} \in K => s \in K
  <2>1. PICK x \in s : TRUE
    BY <1>3
  <2>2. f[x] \in Nat /\ g[s] = f[x] + g[s \ {x}]
    BY <1>1
  <2>3. s \ {x} \in K => s \in K
    BY <2>2
  <2> QED
    BY <2>3
<1>4. \A s \in SUBSET T : s \in K
  <2> K \in SUBSET (SUBSET T)
    OBVIOUS
  <2> HIDE DEF K
  <2> QED
    BY <1>2, <1>3, FiniteClimb
<1> QED
  BY <1>4

-----------------------------------------------------------------------------
(* Numbers from digits. *)

\* What is added at base ^ k leaves the digits below alone.
LEMMA DigitsBelow ==
  ASSUME NEW base, NEW n, Lawful(base, n), NEW k \in 0 .. n, NEW d \in 0 .. k - 1,
         NEW q \in Nat, NEW r \in Nat, NEW x, x = base ^ k * q + r
  PROVE  Digit(base, x, d) = Digit(base, r, d)
<1>1. base \in Nat \ {0} /\ n \in Nat
  BY DEF Lawful
<1>2. /\ d \in 0 .. n /\ k - d \in 0 .. n - d /\ d + (k - d) = k
      /\ k - d - 1 \in 0 .. n - 1 /\ (k - d - 1) + 1 = k - d
  BY <1>1
<1> DEFINE B == base ^ d
           C == base ^ (k - d)
           E == base ^ (k - d - 1)
           m == r \div B
           s == r % B
<1>3. base ^ k = B * C
  BY <1>2, PowerAdds
<1>4. C = base * E /\ C \in Nat \ {0} /\ E \in Nat \ {0}
  BY <1>2, PowerStep
<1>5. B \in Nat \ {0}
  BY <1>2, PowerType
<1>6. m \in Nat /\ s \in 0 .. B - 1 /\ r = B * m + s
  BY <1>5, DivMod
<1> HIDE DEF B, C, E, m, s
<1>7. base ^ k * q + r = B * (C * q + m) + s /\ C * q + m \in Nat
  <2>1. C * q \in Nat
    BY <1>4
  <2>2. (B * C) * q = B * (C * q)
    BY <1>4, <1>5
  <2>3. B * (C * q + m) = B * (C * q) + B * m
    BY <1>5, <1>6, <2>1
  <2> DEFINE a == C * q
             b == B * a
             e == B * m
  <2>4. a \in Nat /\ b \in Nat /\ e \in Nat
    BY <1>5, <1>6, <2>1
  <2>5. base ^ k * q = b /\ r = e + s /\ B * (a + m) = b + e
    BY <1>3, <1>6, <2>2, <2>3
  <2> HIDE DEF b, e
  <2>6. base ^ k * q + r = B * (a + m) + s
    BY <1>6, <2>4, <2>5
  <2> QED
    BY <1>6, <2>4, <2>6
<1>8. (base ^ k * q + r) \div B = C * q + m
  <2>1. base ^ k * q + r \in Nat
    <3>1. base ^ k \in Nat
      BY PowerType
    <3>2. base ^ k * q \in Nat
      BY <3>1
    <3> QED
      BY <3>2
  <2> QED
    BY <1>5, <1>6, <1>7, <2>1, DivIs
<1>9. (C * q + m) % base = m % base
  <2> DEFINE u == m \div base
             v == m % base
  <2>1. u \in Nat /\ v \in 0 .. base - 1 /\ m = base * u + v
    BY <1>1, <1>6, DivMod
  <2> HIDE DEF u, v
  <2>2. C * q = base * (E * q) /\ E * q \in Nat
    BY <1>1, <1>4
  <2>3. base * (E * q) + base * u = base * (E * q + u)
    BY <1>1, <2>1, <2>2
  <2>4. C * q + m = base * (E * q + u) + v /\ E * q + u \in Nat
    <3> DEFINE a == E * q
               b == base * a
               c == base * u
    <3>1. a \in Nat /\ b \in Nat /\ c \in Nat
      BY <1>1, <2>1, <2>2
    <3>2. C * q = b /\ m = c + v /\ base * (a + u) = b + c
      BY <2>1, <2>2, <2>3
    <3> HIDE DEF b, c
    <3>3. C * q + m = base * (a + u) + v
      BY <2>1, <3>1, <3>2
    <3> QED
      BY <2>1, <3>1, <3>3
  <2>5. (C * q + m) % base = v
    BY <1>1, <1>7, <2>1, <2>4, DivIs
  <2> QED
    BY <2>5 DEF v
<1>10. x \div B = C * q + m
  BY <1>8, Zenon
<1> QED
  BY <1>9, <1>10, Zenon DEF Digit, B, m

\* The digits of a quotient are those further up.
LEMMA DigitShift ==
  ASSUME NEW base, NEW n, Lawful(base, n), NEW x \in Nat, NEW s \in 0 .. n, NEW d \in 0 .. n - s
  PROVE  Digit(base, x \div base ^ s, d) = Digit(base, x, s + d)
<1>1. n \in Nat /\ d \in 0 .. n
  BY DEF Lawful
<1>2. base ^ s \in Nat \ {0} /\ base ^ d \in Nat \ {0}
  BY <1>1, PowerType
<1>3. base ^ (s + d) = base ^ s * base ^ d
  BY PowerAdds
<1>4. (x \div base ^ s) \div base ^ d = x \div (base ^ s * base ^ d)
  BY <1>2, DivTwice
<1> QED
  BY <1>3, <1>4, Zenon DEF Digit

\* The digits of a remainder are those further down.
LEMMA DigitOfMod ==
  ASSUME NEW base, NEW n, Lawful(base, n), NEW x \in Nat, NEW k \in 0 .. n, NEW d \in 0 .. k - 1
  PROVE  Digit(base, x % base ^ k, d) = Digit(base, x, d)
<1>1. base ^ k \in Nat \ {0}
  BY PowerType
<1>2. x \div base ^ k \in Nat /\ x % base ^ k \in Nat /\ x = base ^ k * (x \div base ^ k) + (x % base ^ k)
  BY <1>1, DivMod
<1> QED
  BY <1>2, DigitsBelow

\* What is added at base ^ k has its digits from k on.
LEMMA DigitsFrom ==
  ASSUME NEW base, NEW n, Lawful(base, n), NEW k \in 0 .. n, NEW d \in k .. n,
         NEW q \in Nat, NEW r \in 0 .. base ^ k - 1, NEW x, x = base ^ k * q + r
  PROVE  Digit(base, x, d) = Digit(base, q, d - k)
<1>1. base ^ k \in Nat \ {0} /\ n \in Nat
  BY PowerType DEF Lawful
<1>2. base ^ k * q \in Nat
  BY <1>1
<1>3. x \in Nat
  BY <1>1, <1>2
<1>4. x \div base ^ k = q
  BY <1>1, <1>3, DivIs
<1>5. d - k \in 0 .. n - k /\ k + (d - k) = d
  BY <1>1
<1> QED
  BY <1>3, <1>4, <1>5, DigitShift

\* Digits s .. s + w - 1 of a number replaced by those of another.
Spliced(base, x, s, w, v) ==
  (x % base ^ s) + (x \div base ^ (s + w)) * base ^ (s + w) + v * base ^ s

\* A number so changed has the digits it should.
LEMMA Splice ==
  ASSUME NEW base, NEW n, Lawful(base, n), NEW x \in Nat, NEW s \in 0 .. n, NEW w \in 0 .. n - s,
         NEW v \in 0 .. base ^ w - 1
  PROVE  /\ Spliced(base, x, s, w, v) \in Nat
         /\ \A u \in 0 .. n : Digit(base, Spliced(base, x, s, w, v), u) =
                                IF u \in s .. s + w - 1 THEN Digit(base, v, u - s) ELSE Digit(base, x, u)
<1> DEFINE y == Spliced(base, x, s, w, v)
           A == base ^ s
           W == base ^ w
           q == x \div base ^ (s + w)
           r == x % A
           m == W * q + v
<1>1. n \in Nat /\ w \in 0 .. n /\ s + w \in 0 .. n
  BY DEF Lawful
<1>2. A \in Nat \ {0} /\ W \in Nat \ {0} /\ base ^ (s + w) = A * W
  BY <1>1, PowerType, PowerAdds
<1>3. base ^ (s + w) \in Nat \ {0}
  BY <1>1, PowerType
<1>4. q \in Nat /\ r \in 0 .. A - 1 /\ v \in Nat /\ v \in 0 .. W - 1
  <2>1. q \in Nat
    BY <1>3, DivMod
  <2>2. r \in 0 .. A - 1
    BY <1>2, DivMod
  <2>3. v \in 0 .. W - 1
    OBVIOUS
  <2> HIDE DEF q, r
  <2> QED
    BY <1>2, <2>1, <2>2, <2>3
<1>5. y = r + q * (A * W) + v * A
  BY <1>2, Zenon DEF Spliced
<1> HIDE DEF q, r, A, W, y
<1>6. m \in Nat /\ A * m \in Nat /\ y = A * m + r
  <2>1. W * q \in Nat /\ m \in Nat
    BY <1>2, <1>4
  <2>2. A * m = A * (W * q) + A * v
    BY <1>2, <1>4, <2>1
  <2>3. A * (W * q) = q * (A * W) /\ A * v = v * A
    BY <1>2, <1>4
  <2> DEFINE a == A * (W * q)
             b == A * v
             c == A * m
  <2>4. a \in Nat /\ b \in Nat /\ c \in Nat
    BY <1>2, <1>4, <2>1
  <2>5. y = r + a + b /\ c = a + b
    BY <1>5, <2>2, <2>3, Zenon
  <2> HIDE DEF a, b, c
  <2>6. y = c + r
    BY <1>4, <2>4, <2>5
  <2> QED
    BY <2>1, <2>4, <2>6 DEF c
<1>7. ASSUME NEW u \in 0 .. n, u < s PROVE Digit(base, y, u) = Digit(base, x, u)
  <2>1. u \in 0 .. s - 1 /\ r \in Nat
    BY <1>1, <1>2, <1>4, <1>7
  <2> HIDE DEF m
  <2>2. Digit(base, y, u) = Digit(base, r, u)
    BY <1>6, <2>1, DigitsBelow DEF A
  <2>3. Digit(base, r, u) = Digit(base, x, u)
    BY <2>1, DigitOfMod DEF r, A
  <2> QED
    BY <2>2, <2>3
<1>8. ASSUME NEW u \in s .. n PROVE Digit(base, y, u) = Digit(base, m, u - s)
  <2> HIDE DEF m
  <2> QED
    BY <1>4, <1>6, DigitsFrom DEF A
<1>9. ASSUME NEW u \in s .. s + w - 1 PROVE Digit(base, m, u - s) = Digit(base, v, u - s)
  <2>1. u - s \in 0 .. w - 1
    OBVIOUS
  <2>2. \A x_ \in {m} : x_ = base ^ w * q + v
    BY DEF W
  <2> QED
    BY <1>1, <1>4, <2>1, <2>2, DigitsBelow
<1>10. ASSUME NEW u \in s + w .. n PROVE Digit(base, m, u - s) = Digit(base, x, u)
  <2>1. u - s \in w .. n /\ u - s - w \in 0 .. n - (s + w) /\ (s + w) + (u - s - w) = u
    BY <1>1
  <2>2. m = base ^ w * q + v /\ v \in 0 .. base ^ w - 1
    BY <1>4 DEF W
  <2> DEFINE k == u - s
             j == u - s - w
  <2>3. k \in w .. n /\ k - w = j
    BY <1>1, <2>1
  <2> HIDE DEF m, k, j
  <2>4. Digit(base, m, k) = Digit(base, q, j)
    BY <1>1, <1>4, <2>2, <2>3, DigitsFrom
  <2>5. Digit(base, q, j) = Digit(base, x, (s + w) + j)
    BY <1>1, <2>1, DigitShift DEF q, j
  <2> QED
    BY <2>1, <2>4, <2>5 DEF k, j
<1> HIDE DEF m
<1>11. y \in Nat
  <2> DEFINE c == A * m
  <2>1. c \in Nat /\ y = c + r
    BY <1>6, Zenon
  <2>2. r \in Nat
    BY <1>2, <1>4
  <2> HIDE DEF c
  <2> QED
    BY <2>1, <2>2
<1>12. ASSUME NEW u \in 0 .. n
       PROVE  Digit(base, y, u) = IF u \in s .. s + w - 1 THEN Digit(base, v, u - s)
                                  ELSE Digit(base, x, u)
  <2>1. CASE u < s
    BY <1>7, <2>1
  <2>2. CASE u \in s .. s + w - 1
    <3>1. u \in s .. n
      BY <2>2
    <3> QED
      BY <1>8, <1>9, <2>2, <3>1
  <2>3. CASE u \in s + w .. n
    <3>1. u \in s .. n /\ u \notin s .. s + w - 1
      BY <1>1, <2>3
    <3> QED
      BY <1>8, <1>10, <2>3, <3>1
  <2> QED
    BY <1>1, <2>1, <2>2, <2>3
<1> QED
  BY <1>11, <1>12 DEF y

\* A number from digits is below base ^ n, and has those digits.
LEMMA FromDigitsLaw ==
  ASSUME NEW base, NEW n, Lawful(base, n), NEW digits \in [0 .. n - 1 -> 0 .. base - 1]
  PROVE  /\ FromDigits(base, digits) \in 0 .. base ^ n - 1
         /\ \A d \in 0 .. n - 1 : Digit(base, FromDigits(base, digits), d) = digits[d]
<1>1. base \in Nat \ {0} /\ n \in Nat /\ base ^ 0 = 1
  BY DEF Lawful, PowersUpTo
<1> DEFINE T == 0 .. n - 1
           f == [d \in T |-> digits[d] * base ^ d]
           c(s) == CHOOSE x \in s : TRUE
           F(g) == [s \in SUBSET T |-> IF s = {} THEN 0
                                       ELSE digits[c(s)] * base ^ c(s) + g[s \ {c(s)}]]
           iter == CHOOSE g : g = F(g)
<1>2. FromDigits(base, digits) = iter[T]
  <2>1. DOMAIN digits = T
    OBVIOUS
  <2>2. FromDigits(base, digits) =
          LET it[s \in SUBSET (DOMAIN digits)] ==
                IF s = {} THEN 0
                ELSE digits[c(s)] * base ^ c(s) + it[s \ {c(s)}]
          IN  it[DOMAIN digits]
    BY Zenon DEF FromDigits, MapThenSumSet, MapThenFoldSet
  <2> QED
    BY <2>1, <2>2, Zenon
<1>3. IsFiniteSet(T)
  BY <1>1, FS_Interval
<1>4. f \in [T -> Nat]
  <2>1. ASSUME NEW d \in T PROVE digits[d] * base ^ d \in Nat
    <3>1. d \in 0 .. n /\ digits[d] \in Nat
      BY <1>1
    <3>2. base ^ d \in Nat
      BY <3>1, PowerType
    <3> QED
      BY <3>1, <3>2
  <2> QED
    BY <2>1
<1>5. \A s \in SUBSET T : s # {} => c(s) \in T
  OBVIOUS
<1>6. ASSUME NEW g PROVE Sums(T, f, g) <=> g = F(g)
  <2> HIDE DEF c
  <2>1. F(g) = [s \in SUBSET T |-> IF s = {} THEN 0 ELSE f[c(s)] + g[s \ {c(s)}]]
    <3>1. \A s \in SUBSET T : s # {} => f[c(s)] = digits[c(s)] * base ^ c(s)
      BY <1>5
    <3> HIDE DEF f, T
    <3> QED
      BY <3>1
  <2> HIDE DEF F
  <2> QED
    BY <2>1, Zenon DEF Sums, c
<1>7. iter = F(iter)
  <2>1. PICK g : Sums(T, f, g)
    <3> HIDE DEF T, f
    <3>1. f \in [T -> Int]
      BY <1>4
    <3> QED
      BY <1>3, <3>1, SumExists
  <2>2. g = F(g)
    BY <1>6, <2>1, Zenon
  <2> QED
    BY <2>2, Zenon
<1>8. Sums(T, f, iter)
  BY <1>6, <1>7, Zenon
<1> HIDE DEF iter, F, c
<1>9. /\ iter[{}] = 0
      /\ \A s \in SUBSET T : iter[s] \in Nat /\ \A x \in s : iter[s] = f[x] + iter[s \ {x}]
  <2> HIDE DEF T, f
  <2>1. f \in [T -> Int]
    BY <1>4
  <2>2. \A s \in SUBSET T : iter[s] \in Nat
    BY <1>3, <1>4, <1>8, SumNatural
  <2>3. /\ iter[{}] = 0
        /\ \A s \in SUBSET T : iter[s] \in Int /\ \A x \in s : iter[s] = f[x] + iter[s \ {x}]
    BY <1>3, <1>8, <2>1, SumUnfolds
  <2> QED
    BY <2>2, <2>3
<1> DEFINE V(k) == iter[0 .. k - 1]
           S == {k \in 0 .. n : /\ V(k) \in 0 .. base ^ k - 1
                                /\ \A d \in 0 .. k - 1 : Digit(base, V(k), d) = digits[d]}
<1>10. 0 \in S
  <2>1. 0 .. 0 - 1 = {} /\ 0 \in 0 .. n /\ 0 .. 1 - 1 = {0}
    BY <1>1
  <2>2. V(0) = 0
    BY <1>9, <2>1
  <2> QED
    BY <1>1, <2>1, <2>2
<1>11. ASSUME NEW k \in 0 .. n - 1, k \in S PROVE k + 1 \in S
  <2> DEFINE B == base ^ k
             v == V(k)
             w == V(k + 1)
             a == digits[k]
  <2>1. /\ k \in 0 .. n /\ k + 1 \in 0 .. n /\ k \in T /\ 0 .. (k + 1) - 1 \in SUBSET T
        /\ k \in 0 .. (k + 1) - 1 /\ (0 .. (k + 1) - 1) \ {k} = 0 .. k - 1
        /\ 0 .. (k + 1) - 1 = 0 .. k
    BY <1>1
  <2>2. base ^ (k + 1) = base * B /\ B \in Nat \ {0}
    BY PowerStep
  <2>3. a \in 0 .. base - 1
    BY <2>1
  <2>4. v \in 0 .. B - 1 /\ \A d \in 0 .. k - 1 : Digit(base, v, d) = digits[d]
    BY <1>11
  <2>5. w = a * B + v
    <3> DEFINE s == 0 .. (k + 1) - 1
    <3>1. iter[s] = f[k] + iter[s \ {k}]
      <4>1. s \in SUBSET T /\ k \in s
        BY <2>1
      <4> HIDE DEF s, T, f
      <4> QED
        BY <1>9, <4>1
    <3>2. w = f[k] + v
      BY <2>1, <3>1, Zenon
    <3>3. f[k] = a * B
      BY <2>1
    <3> QED
      BY <3>2, <3>3, Zenon
  <2>6. w = B * a + v
    <3>1. a * B = B * a
      BY <2>2, <2>3
    <3> QED
      BY <2>5, <3>1
  <2> HIDE DEF v, w, a, B, V
  <2>7. v \in Nat /\ a \in Nat /\ base * B \in Nat /\ B * a \in Nat
    BY <1>1, <2>2, <2>3, <2>4
  <2>8. w \in 0 .. base ^ (k + 1) - 1
    <3>1. B * a <= B * (base - 1)
      BY <1>1, <2>2, <2>3
    <3>2. B * (base - 1) = base * B - B
      BY <1>1, <2>2
    <3> QED
      BY <2>2, <2>4, <2>6, <2>7, <3>1, <3>2
  <2>9. Digit(base, w, k) = digits[k]
    <3>1. w \div B = a
      <4>1. w \in Nat
        BY <2>6, <2>7
      <4> QED
        BY <2>2, <2>4, <2>6, <2>7, <4>1, DivIs
    <3>2. a % base = a
      <4>1. a = base * 0 + a
        BY <1>1, <2>7
      <4> QED
        BY <1>1, <2>3, <2>7, <4>1, DivIs
    <3> QED
      BY <3>1, <3>2 DEF Digit, B, a
  <2>10. ASSUME NEW d \in 0 .. k - 1 PROVE Digit(base, w, d) = digits[d]
    <3>1. Digit(base, w, d) = Digit(base, v, d)
      BY <2>1, <2>6, <2>7, DigitsBelow DEF B
    <3> QED
      BY <2>4, <3>1
  <2>11. \A d \in 0 .. (k + 1) - 1 : Digit(base, w, d) = digits[d]
    BY <2>1, <2>9, <2>10
  <2> QED
    BY <2>1, <2>8, <2>11 DEF w
<1>12. n \in S
  <2>1. \A k \in 0 .. n : k \in S
    <3> S \in SUBSET (0 .. n)
      OBVIOUS
    <3> HIDE DEF S
    <3> QED
      BY <1>1, <1>10, <1>11, Climbs
  <2> HIDE DEF S
  <2> QED
    BY <1>1, <2>1
<1> QED
  BY <1>2, <1>12

-----------------------------------------------------------------------------
(* Digits in groups. *)

\* big is a group of g digits of base, and m groups are known.
Groups(base, n, big, m, g) ==
  /\ Lawful(base, n) /\ Lawful(big, m)
  /\ g \in Nat \ {0} /\ n = g * m /\ big = base ^ g

\* The exponents that occur when digits are read in groups.
LEMMA GroupBounds ==
  ASSUME NEW base, NEW n, NEW big, NEW m, NEW g, Groups(base, n, big, m, g), NEW c \in 0 .. m - 1
  PROVE  /\ base \in Nat \ {0} /\ big \in Nat \ {0} /\ n \in Nat /\ m \in Nat /\ g \in Nat \ {0}
         /\ c \in Nat /\ g * c \in Nat /\ g * (c + 1) = g * c + g /\ g * c + g <= n
         /\ g \in 0 .. n /\ g * c \in 0 .. n
<1>1. base \in Nat \ {0} /\ big \in Nat \ {0} /\ n \in Nat /\ m \in Nat /\ g \in Nat \ {0} /\ c \in Nat
  BY DEF Groups, Lawful
<1>2. g * (c + 1) = g * c + g /\ g * c \in Nat
  BY <1>1
<1>3. g * (c + 1) <= g * m
  BY <1>1
<1>4. n = g * m
  BY DEF Groups
<1> QED
  BY <1>1, <1>2, <1>3, <1>4

\* A power of the larger base is one of the smaller base.
LEMMA GroupPower ==
  ASSUME NEW base, NEW n, NEW big, NEW m, NEW g, Groups(base, n, big, m, g)
  PROVE  \A c \in 0 .. m : big ^ c = base ^ (g * c)
<1>1. m \in Nat /\ g \in Nat \ {0} /\ base ^ 0 = 1 /\ big ^ 0 = 1 /\ base \in Nat \ {0}
  BY DEF Groups, Lawful, PowersUpTo
<1> DEFINE S == {c \in 0 .. m : big ^ c = base ^ (g * c)}
<1>2. 0 \in S
  <2>1. g * 0 = 0 /\ 0 \in 0 .. m
    BY <1>1
  <2> QED
    BY <1>1, <2>1
<1>3. ASSUME NEW c \in 0 .. m - 1, c \in S PROVE c + 1 \in S
  <2>1. /\ g * (c + 1) = g * c + g /\ g * c + g <= n /\ g * c \in 0 .. n /\ g \in 0 .. n /\ n \in Nat
    BY GroupBounds
  <2>2. g \in 0 .. n - g * c
    BY <2>1
  <2>3. base ^ (g * c + g) = base ^ (g * c) * base ^ g
    BY <2>1, <2>2, PowerAdds DEF Groups
  <2>4. big ^ (c + 1) = big * big ^ c
    BY PowerStep DEF Groups
  <2>5. base ^ (g * c) \in Nat /\ base ^ g \in Nat
    BY <2>1, PowerType DEF Groups
  <2>6. \A a, b \in Nat : a * b = b * a
    OBVIOUS
  <2>7. big = base ^ g /\ big ^ c = base ^ (g * c)
    BY <1>3 DEF Groups
  <2>8. big ^ (c + 1) = base ^ (g * (c + 1))
    BY <2>1, <2>3, <2>4, <2>5, <2>6, <2>7
  <2>9. c + 1 \in 0 .. m
    BY <1>1
  <2> QED
    BY <2>8, <2>9
<1>4. \A c \in 0 .. m : c \in S
  <2> S \in SUBSET (0 .. m)
    OBVIOUS
  <2> HIDE DEF S
  <2> QED
    BY <1>1, <1>2, <1>3, Climbs
<1> QED
  BY <1>4

\* Digit i of group c is digit g * c + i.
LEMMA GroupDigit ==
  ASSUME NEW base, NEW n, NEW big, NEW m, NEW g, Groups(base, n, big, m, g),
         NEW x \in Nat, NEW c \in 0 .. m - 1, NEW i \in 0 .. g - 1
  PROVE  /\ g * c + i \in 0 .. n - 1
         /\ Digit(big, x, c) \in Nat
         /\ Digit(base, x, g * c + i) = Digit(base, Digit(big, x, c), i)
<1>1. /\ base \in Nat \ {0} /\ big \in Nat \ {0} /\ n \in Nat /\ m \in Nat /\ g \in Nat \ {0}
      /\ g * c \in Nat /\ g * c + g <= n /\ g \in 0 .. n /\ g * c \in 0 .. n
  BY GroupBounds
<1>2. g * c + i \in 0 .. n - 1 /\ i \in 0 .. n - g * c /\ i \in 0 .. n /\ c \in 0 .. m
  BY <1>1
<1> DEFINE B == base ^ (g * c)
           I == base ^ i
           y == x \div B
           q == y \div big
           r == y % big
<1>3. base ^ (g * c + i) = B * I /\ B \in Nat \ {0} /\ I \in Nat \ {0}
  <2>1. base ^ (g * c + i) = B * I
    BY <1>1, <1>2, PowerAdds DEF Groups
  <2>2. Lawful(base, n)
    BY DEF Groups
  <2> QED
    BY <1>1, <1>2, <2>1, <2>2, PowerType
<1>4. y \in Nat /\ x \div (B * I) = y \div I
  BY <1>3, DivTwice, DivMod
<1>5. big ^ c = B
  BY <1>2, GroupPower
<1>6. q \in Nat /\ r \in Nat /\ y = big * q + r
  BY <1>1, <1>4, DivMod
<1>7. Digit(big, x, c) = r
  BY <1>5, Zenon DEF Digit, r, y
<1>8. Digit(base, x, g * c + i) = Digit(base, y, i)
  BY <1>3, <1>4, Zenon DEF Digit, I
<1> HIDE DEF q, r, y
<1>9. big = base ^ g /\ Lawful(base, n)
  BY DEF Groups
<1>10. Digit(base, y, i) = Digit(base, r, i)
  <2> HIDE DEF B, I
  <2>1. y = base ^ g * q + r
    BY <1>6, <1>9, Zenon
  <2>2. Lawful(base, n) /\ g \in 0 .. n /\ q \in Nat /\ r \in Nat
    BY <1>1, <1>6, <1>9
  <2> HIDE DEF Groups
  <2> QED
    BY <2>1, <2>2, DigitsBelow
<1> QED
  BY <1>2, <1>6, <1>7, <1>8, <1>9, <1>10, Zenon

\* Where the digits leave no carry, numbers are added digit by digit.
LEMMA DigitsAdd ==
  ASSUME NEW base, NEW n, Lawful(base, n), NEW x \in Nat, NEW y \in Nat,
         \A d \in 0 .. n - 1 : Digit(base, x, d) + Digit(base, y, d) < base
  PROVE  /\ \A d \in 0 .. n : (x + y) \div base ^ d = (x \div base ^ d) + (y \div base ^ d)
         /\ \A d \in 0 .. n - 1 : Digit(base, x + y, d) = Digit(base, x, d) + Digit(base, y, d)
<1>1. base \in Nat \ {0} /\ n \in Nat /\ base ^ 0 = 1
  BY DEF Lawful, PowersUpTo
<1> DEFINE S == {k \in 0 .. n : (x + y) \div base ^ k = (x \div base ^ k) + (y \div base ^ k)}
<1>2. 0 \in S
  BY <1>1
<1>3. ASSUME NEW k \in 0 .. n - 1, k \in S
      PROVE  /\ k + 1 \in S
             /\ Digit(base, x + y, k) = Digit(base, x, k) + Digit(base, y, k)
  <2> DEFINE X == x \div base ^ k
             Y == y \div base ^ k
             Z == (x + y) \div base ^ k
             p == x \div base ^ (k + 1)
             q == y \div base ^ (k + 1)
             r == Digit(base, x, k)
             s == Digit(base, y, k)
  <2>1. r \in 0 .. base - 1 /\ X \in Nat /\ p \in Nat /\ X = base * p + r
    BY DigitStep
  <2>2. s \in 0 .. base - 1 /\ Y \in Nat /\ q \in Nat /\ Y = base * q + s
    BY DigitStep
  <2>3. Z = X + Y /\ r + s < base
    BY <1>3
  <2>4. k + 1 \in 0 .. n /\ x + y \in Nat
    BY <1>1
  <2>5. Digit(base, x + y, k) = Z % base
    BY DEF Digit
  <2>6. Z \div base = (x + y) \div base ^ (k + 1)
    <3>1. base ^ (k + 1) = base * base ^ k /\ base ^ k \in Nat \ {0}
      BY PowerStep
    <3>2. \A a \in Nat : base * a = a * base
      BY <1>1
    <3>3. base ^ (k + 1) = base ^ k * base
      BY <3>1, <3>2
    <3>4. Z \div base = (x + y) \div (base ^ k * base)
      BY <1>1, <2>4, <3>1, DivTwice
    <3> QED
      BY <3>3, <3>4, Zenon
  <2> HIDE DEF X, Y, Z, p, q, r, s
  <2>7. Z = base * (p + q) + (r + s) /\ Z \in Nat /\ p + q \in Nat /\ r + s \in 0 .. base - 1
    <3>1. base * (p + q) = base * p + base * q
      BY <1>1, <2>1, <2>2
    <3> DEFINE a == base * p
               b == base * q
               e == base * (p + q)
    <3>2. a \in Nat /\ b \in Nat
      BY <1>1, <2>1, <2>2
    <3>3. X = a + r /\ Y = b + s /\ e = a + b
      BY <2>1, <2>2, <3>1
    <3> HIDE DEF a, b, e
    <3>4. Z = e + (r + s) /\ Z \in Nat /\ p + q \in Nat /\ r + s \in 0 .. base - 1
      BY <1>1, <2>1, <2>2, <2>3, <3>2, <3>3
    <3> QED
      BY <3>4 DEF e
  <2>8. Z \div base = p + q /\ Z % base = r + s
    BY <1>1, <2>7, DivIs
  <2>9. (x + y) \div base ^ (k + 1) = p + q
    BY <2>6, <2>8
  <2> QED
    BY <2>4, <2>5, <2>8, <2>9 DEF p, q, r, s
<1>4. \A k \in 0 .. n : k \in S
  <2>1. \A k \in 0 .. n - 1 : k \in S => k + 1 \in S
    BY <1>3
  <2> S \in SUBSET (0 .. n)
    OBVIOUS
  <2> HIDE DEF S
  <2> QED
    BY <1>1, <1>2, <2>1, Climbs
<1>5. \A k \in 0 .. n - 1 : k \in 0 .. n
  BY <1>1
<1> QED
  BY <1>3, <1>4, <1>5

=============================================================================
