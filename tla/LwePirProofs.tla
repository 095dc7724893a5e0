---------------------------- MODULE LwePirProofs ----------------------------
(***************************************************************************)
(* The two PIR backends, down to the words, for every modulus, shape,      *)
(* database and batches, number of threads and length of the vector        *)
(* blocks.                                                                 *)
(*                                                                         *)
(* Everything the code computes in a loop of its own is a sum modulo q,    *)
(* and is shown here to be one of two: v D for a vector v of words and the *)
(* matrix D of a database (Times), or A transposed times D (HintOf).       *)
(*   - Kernels: the blocked product, the setup in threads, the scalar tail *)
(*     of an answer (MatvecLaw, SetupHintLaw, AnswerLaw).                  *)
(*   - Patches: what a batch changes at a place of D is added to the hint  *)
(*     in any order and mode: entry by entry, row by row with a buffer     *)
(*     that is used again, and as runs of columns after a sort and a sum   *)
(*     of duplicates (ApplyPatchLaw, PatchCLaw).                           *)
(*   - Rewinding takes away what the batches in between changed, summed by *)
(*     cell (RewindLaw).                                                   *)
(*   - Decoding leaves the cell and the error times the column, and        *)
(*     rounding undoes the error exactly within the margin (ResidualLaw,   *)
(*     RoundingUndoesError, DecodeLaw).                                    *)
(* The inductive invariant WordsInv says of each part of the state which   *)
(* product it stands for; every property of LwePir is read off it.         *)
(***************************************************************************)
EXTENDS LwePir, DigitsProofs


-----------------------------------------------------------------------------
(* Sums of the values of a function. *)

\* A sum can be taken apart at any place of the domain.
LEMMA SumLaw ==
  ASSUME NEW S, IsFiniteSet(S), NEW f \in [S -> Int]
  PROVE  /\ SumFunction(f) \in Int
         /\ S = {} => SumFunction(f) = 0
         /\ \A x \in S : SumFunction(f) = f[x] + SumFunction([y \in S \ {x} |-> f[y]])
<1> DEFINE c(s) == CHOOSE x \in s : TRUE
<1>1. ASSUME NEW T, IsFiniteSet(T), NEW h \in [T -> Int]
      PROVE  \E g : Sums(T, h, g) /\ SumFunction(h) = g[T]
  <2> DEFINE G(g) == [s \in SUBSET T |-> IF s = {} THEN 0 ELSE h[c(s)] + g[s \ {c(s)}]]
             iter == CHOOSE g : g = G(g)
  <2>1. SumFunction(h) = iter[T]
    <3>1. SumFunction(h) = LET it[s \in SUBSET (DOMAIN h)] ==
                                 IF s = {} THEN 0
                                 ELSE h[CHOOSE x \in s : TRUE] + it[s \ {CHOOSE x \in s : TRUE}]
                           IN  it[DOMAIN h]
      BY Zenon DEF SumFunction, SumFunctionOnSet, FoldFunctionOnSet, MapThenFoldSet
    <3>2. DOMAIN h = T
      OBVIOUS
    <3> QED
      BY <3>1, <3>2, Zenon
  <2>2. PICK g : Sums(T, h, g)
    BY <1>1, SumExists
  <2>3. g = G(g)
    BY <2>2, Zenon DEF Sums
  <2>4. iter = G(iter)
    <3> HIDE DEF G
    <3> QED
      BY <2>3, Zenon
  <2>5. Sums(T, h, iter)
    BY <2>4, Zenon DEF Sums
  <2> HIDE DEF iter
  <2> QED
    BY <2>1, <2>5
<1>2. PICK g : Sums(S, f, g) /\ SumFunction(f) = g[S]
  BY <1>1
<1>3. /\ g[{}] = 0
      /\ \A s \in SUBSET S : g[s] \in Int /\ \A x \in s : g[s] = f[x] + g[s \ {x}]
  <2>1. Sums(S, f, g)
    BY <1>2
  <2> QED
    BY <2>1, SumUnfolds
<1>4. ASSUME NEW x \in S PROVE SumFunction([y \in S \ {x} |-> f[y]]) = g[S \ {x}]
  <2> DEFINE T == S \ {x}
             h == [y \in T |-> f[y]]
  <2>1. IsFiniteSet(T) /\ h \in [T -> Int]
    BY FS_Subset
  <2>2. \A y \in T : h[y] = f[y]
    OBVIOUS
  <2>3. T \in SUBSET S
    OBVIOUS
  <2> HIDE DEF T, h
  <2>4. PICK e : Sums(T, h, e) /\ SumFunction(h) = e[T]
    BY <1>1, <2>1
  <2>5. /\ e[{}] = 0
        /\ \A s \in SUBSET T : e[s] \in Int /\ \A y \in s : e[s] = h[y] + e[s \ {y}]
    <3>1. Sums(T, h, e)
      BY <2>4
    <3> QED
      BY <2>1, <3>1, SumUnfolds
  <2> DEFINE K == {s \in SUBSET T : e[s] = g[s]}
  <2>6. {} \in K
    BY <1>3, <2>5
  <2>7. ASSUME NEW s \in SUBSET T, s # {} PROVE \E y \in s : s \ {y} \in K => s \in K
    <3>1. PICK y \in s : TRUE
      BY <2>7
    <3>2. e[s] = h[y] + e[s \ {y}]
      BY <2>5, <3>1
    <3>3. s \in SUBSET S
      BY <2>3
    <3>4. g[s] = f[y] + g[s \ {y}]
      BY <1>3, <3>1, <3>3
    <3>5. h[y] = f[y]
      BY <2>2, <3>1
    <3>6. s \ {y} \in K => s \in K
      BY <3>2, <3>4, <3>5
    <3> QED
      BY <3>1, <3>6
  <2>8. \A s \in SUBSET T : s \in K
    <3> K \in SUBSET (SUBSET T)
      OBVIOUS
    <3> HIDE DEF K
    <3> QED
      BY <2>1, <2>6, <2>7, FiniteClimb
  <2>9. e[T] = g[T]
    BY <2>8
  <2> QED
    BY <2>4, <2>9, Zenon DEF T, h
<1>5. S \in SUBSET S
  OBVIOUS
<1>6. SumFunction(f) \in Int /\ (S = {} => SumFunction(f) = 0)
  BY <1>2, <1>3, <1>5
<1>7. ASSUME NEW x \in S PROVE SumFunction(f) = f[x] + SumFunction([y \in S \ {x} |-> f[y]])
  <2>1. g[S] = f[x] + g[S \ {x}]
    BY <1>3, <1>5
  <2> QED
    BY <1>2, <1>4, <2>1, Zenon
<1> QED
  BY <1>6, <1>7

\* The part of a function on a set.
On(f, s) == [x \in s |-> f[x]]

\* Sums of parts, one element at a time.
LEMMA PartLaw ==
  ASSUME NEW S, IsFiniteSet(S), NEW f \in [S -> Int]
  PROVE  /\ SumFunction(On(f, {})) = 0
         /\ \A s \in SUBSET S : SumFunction(On(f, s)) \in Int
         /\ \A s \in SUBSET S : \A x \in s : SumFunction(On(f, s)) = f[x] + SumFunction(On(f, s \ {x}))
         /\ SumFunction(On(f, S)) = SumFunction(f)
<1>1. ASSUME NEW s \in SUBSET S
      PROVE  /\ SumFunction(On(f, s)) \in Int
             /\ s = {} => SumFunction(On(f, s)) = 0
             /\ \A x \in s : SumFunction(On(f, s)) = f[x] + SumFunction(On(f, s \ {x}))
  <2> DEFINE h == On(f, s)
  <2>1. IsFiniteSet(s) /\ h \in [s -> Int] /\ \A x \in s : h[x] = f[x]
    BY FS_Subset DEF On
  <2> HIDE DEF h
  <2>2. /\ SumFunction(h) \in Int
        /\ s = {} => SumFunction(h) = 0
        /\ \A x \in s : SumFunction(h) = h[x] + SumFunction([y \in s \ {x} |-> h[y]])
    BY <2>1, SumLaw
  <2>3. ASSUME NEW x \in s PROVE SumFunction(h) = f[x] + SumFunction(On(f, s \ {x}))
    <3>1. [y \in s \ {x} |-> h[y]] = On(f, s \ {x})
      BY <2>1 DEF On
    <3> QED
      BY <2>1, <2>2, <3>1
  <2> QED
    BY <2>2, <2>3 DEF h
<1>2. On(f, S) = f
  BY DEF On
<1>3. {} \in SUBSET S
  OBVIOUS
<1> QED
  BY <1>1, <1>2, <1>3

\* A sum of integers is one.
LEMMA SumInt ==
  ASSUME NEW S, IsFiniteSet(S), NEW f \in [S -> Int]
  PROVE  SumFunction(f) \in Int
BY SumLaw

\* Zeros add up to zero.
LEMMA SumZero ==
  ASSUME NEW S, IsFiniteSet(S), NEW f, f = [x \in S |-> 0]
  PROVE  SumFunction(f) = 0
<1> DEFINE K == {s \in SUBSET S : SumFunction(On(f, s)) = 0}
<1>0. f \in [S -> Int] /\ \A x \in S : f[x] = 0
  OBVIOUS
<1>1. /\ SumFunction(On(f, {})) = 0
      /\ \A s \in SUBSET S : SumFunction(On(f, s)) \in Int
      /\ \A s \in SUBSET S : \A x \in s : SumFunction(On(f, s)) = f[x] + SumFunction(On(f, s \ {x}))
      /\ SumFunction(On(f, S)) = SumFunction(f)
  BY <1>0, PartLaw
<1>2. {} \in K
  BY <1>1
<1>3. ASSUME NEW s \in SUBSET S, s # {} PROVE \E x \in s : s \ {x} \in K => s \in K
  <2>1. PICK x \in s : TRUE
    BY <1>3
  <2>2. s \ {x} \in K => s \in K
    BY <1>0, <1>1, <2>1
  <2> QED
    BY <2>2
<1>4. \A s \in SUBSET S : s \in K
  <2> K \in SUBSET (SUBSET S)
    OBVIOUS
  <2> HIDE DEF K
  <2> QED
    BY <1>2, <1>3, FiniteClimb
<1>5. S \in K
  BY <1>4
<1> QED
  BY <1>1, <1>5

\* Sums are linear.
Added(S, f, c, g) == [x \in S |-> f[x] + c * g[x]]

\* Sums are linear.
LEMMA SumLinear ==
  ASSUME NEW S, IsFiniteSet(S), NEW f \in [S -> Int], NEW g \in [S -> Int], NEW c \in Int
  PROVE  SumFunction(Added(S, f, c, g)) = SumFunction(f) + c * SumFunction(g)
<1> DEFINE h == [x \in S |-> f[x] + c * g[x]]
           A(s) == SumFunction(On(f, s))
           B(s) == SumFunction(On(g, s))
           C(s) == SumFunction(On(h, s))
           K == {s \in SUBSET S : C(s) = A(s) + c * B(s)}
<1>1. h \in [S -> Int] /\ \A x \in S : h[x] = f[x] + c * g[x]
  OBVIOUS
<1>2. A({}) = 0 /\ A(S) = SumFunction(f) /\ \A s \in SUBSET S : A(s) \in Int /\ \A x \in s : A(s) = f[x] + A(s \ {x})
  BY PartLaw
<1>3. B({}) = 0 /\ B(S) = SumFunction(g) /\ \A s \in SUBSET S : B(s) \in Int /\ \A x \in s : B(s) = g[x] + B(s \ {x})
  BY PartLaw
<1>4. C({}) = 0 /\ C(S) = SumFunction(h) /\ \A s \in SUBSET S : C(s) \in Int /\ \A x \in s : C(s) = h[x] + C(s \ {x})
  <2> HIDE DEF h
  <2> QED
    BY <1>1, PartLaw
<1> HIDE DEF A, B, C, h
<1>5. {} \in K
  BY <1>2, <1>3, <1>4
<1>6. ASSUME NEW s \in SUBSET S, s # {} PROVE \E x \in s : s \ {x} \in K => s \in K
  <2>1. PICK x \in s : TRUE
    BY <1>6
  <2> DEFINE t == s \ {x}
             u == g[x]
             v == B(t)
  <2>2. t \in SUBSET S /\ x \in S
    OBVIOUS
  <2>3. A(s) = f[x] + A(t) /\ B(s) = u + v /\ C(s) = h[x] + C(t) /\ h[x] = f[x] + c * u
    BY <1>1, <1>2, <1>3, <1>4
  <2>4. u \in Int /\ v \in Int /\ f[x] \in Int /\ A(t) \in Int /\ C(t) \in Int
    BY <1>2, <1>3, <1>4
  <2> HIDE DEF u, v, t
  <2>5. c * (u + v) = c * u + c * v /\ c * u \in Int /\ c * v \in Int
    BY <2>4
  <2>6. C(t) = A(t) + c * v => C(s) = A(s) + c * B(s)
    BY <2>3, <2>4, <2>5
  <2>7. t \in K => s \in K
    BY <2>6 DEF v
  <2> QED
    BY <2>7 DEF t
<1>7. \A s \in SUBSET S : s \in K
  <2> K \in SUBSET (SUBSET S)
    OBVIOUS
  <2> HIDE DEF K
  <2> QED
    BY <1>5, <1>6, FiniteClimb
<1>8. S \in K
  BY <1>7
<1>9. C(S) = A(S) + c * B(S)
  BY <1>8
<1> QED
  BY <1>2, <1>3, <1>4, <1>9 DEF h, Added

\* A sum with one term that counts.
LEMMA SumOne ==
  ASSUME NEW S, IsFiniteSet(S), NEW f \in [S -> Int], NEW x \in S, \A y \in S : y # x => f[y] = 0
  PROVE  SumFunction(f) = f[x]
<1> DEFINE T == S \ {x}
           h == [y \in T |-> f[y]]
<1>1. SumFunction(f) = f[x] + SumFunction(h)
  BY SumLaw
<1>2. IsFiniteSet(T) /\ h = [y \in T |-> 0]
  BY FS_Subset
<1> HIDE DEF T, h
<1>3. SumFunction(h) = 0
  BY <1>2, SumZero
<1>4. f[x] \in Int
  OBVIOUS
<1> QED
  BY <1>1, <1>3, <1>4

\* The sum over the fibres of a map.
Fibre(phi, s, t) == {x \in s : phi[x] = t}
FibreSums(phi, f, S, T) == [t \in T |-> SumFunction(On(f, Fibre(phi, S, t)))]

\* A sum is the sum, over the values of phi, of what has that value.
LEMMA SumFibres ==
  ASSUME NEW S, IsFiniteSet(S), NEW T, IsFiniteSet(T), NEW phi \in [S -> T], NEW f \in [S -> Int]
  PROVE  SumFunction(FibreSums(phi, f, S, T)) = SumFunction(f)
<1> DEFINE G(s) == [t \in T |-> SumFunction(On(f, Fibre(phi, s, t)))]
           K    == {s \in SUBSET S : SumFunction(G(s)) = SumFunction(On(f, s))}
<1>1. /\ SumFunction(On(f, {})) = 0
      /\ \A s \in SUBSET S : SumFunction(On(f, s)) \in Int
      /\ \A s \in SUBSET S : \A x \in s : SumFunction(On(f, s)) = f[x] + SumFunction(On(f, s \ {x}))
      /\ SumFunction(On(f, S)) = SumFunction(f)
  BY PartLaw
<1>2. ASSUME NEW s \in SUBSET S PROVE G(s) \in [T -> Int]
  <2>1. \A t \in T : Fibre(phi, s, t) \in SUBSET S
    BY DEF Fibre
  <2> QED
    BY <1>1, <2>1
<1>3. {} \in K
  <2>1. \A t \in T : Fibre(phi, {}, t) = {}
    BY DEF Fibre
  <2> DEFINE e == G({})
  <2>2. e = [t \in T |-> 0]
    BY <1>1, <2>1
  <2> HIDE DEF e
  <2>3. SumFunction(e) = 0
    BY <2>2, SumZero
  <2>4. {} \in SUBSET S
    OBVIOUS
  <2> QED
    BY <1>1, <2>3, <2>4 DEF e
<1>4. ASSUME NEW s \in SUBSET S, s # {} PROVE \E x \in s : s \ {x} \in K => s \in K
  <2>1. PICK x \in s : TRUE
    BY <1>4
  <2> DEFINE r  == s \ {x}
             t0 == phi[x]
             U  == T \ {t0}
             gs == G(s)
             gr == G(r)
  <2>2. r \in SUBSET S /\ x \in S /\ t0 \in T
    OBVIOUS
  <2>3. gs \in [T -> Int] /\ gr \in [T -> Int]
    <3> HIDE DEF r, G
    <3> QED
      BY <1>2, <2>2
  <2>4. gs[t0] = f[x] + gr[t0]
    <3> DEFINE A == Fibre(phi, s, t0)
    <3>1. A \in SUBSET S /\ x \in A /\ A \ {x} = Fibre(phi, r, t0)
      BY DEF Fibre
    <3>2. gs[t0] = SumFunction(On(f, A)) /\ gr[t0] = SumFunction(On(f, Fibre(phi, r, t0)))
      BY <2>2
    <3> HIDE DEF A, gs, gr
    <3>3. SumFunction(On(f, A)) = f[x] + SumFunction(On(f, A \ {x}))
      BY <1>1, <3>1
    <3> QED
      BY <3>1, <3>2, <3>3, Zenon
  <2>5. \A t \in U : gs[t] = gr[t]
    <3> SUFFICES ASSUME NEW t \in U PROVE gs[t] = gr[t]
      OBVIOUS
    <3>1. Fibre(phi, s, t) = Fibre(phi, r, t)
      BY DEF Fibre
    <3> QED
      BY <3>1
  <2> HIDE DEF gs, gr
  <2>6. [t \in U |-> gs[t]] = [t \in U |-> gr[t]]
    <3> HIDE DEF U
    <3> QED
      BY <2>5
  <2> DEFINE w == SumFunction([t \in U |-> gr[t]])
  <2>7. SumFunction(gs) = gs[t0] + SumFunction([t \in U |-> gs[t]])
    <3>1. \A y \in T : SumFunction(gs) = gs[y] + SumFunction([z \in T \ {y} |-> gs[z]])
      BY <2>3, SumLaw
    <3> QED
      BY <2>2, <3>1, Zenon
  <2>8. SumFunction(gr) = gr[t0] + w
    <3>1. \A y \in T : SumFunction(gr) = gr[y] + SumFunction([z \in T \ {y} |-> gr[z]])
      BY <2>3, SumLaw
    <3> QED
      BY <2>2, <3>1, Zenon
  <2>9. SumFunction(gs) = gs[t0] + w
    BY <2>6, <2>7, Zenon
  <2>10. w \in Int
    <3> DEFINE h == [t \in U |-> gr[t]]
    <3>1. IsFiniteSet(U) /\ h \in [U -> Int]
      BY <2>3, FS_Subset
    <3> HIDE DEF h, U
    <3>2. SumFunction(h) \in Int
      BY <3>1, SumInt
    <3> QED
      BY <3>2 DEF h
  <2> HIDE DEF w
  <2>11. f[x] \in Int /\ gr[t0] \in Int
    BY <2>2, <2>3
  <2>12. SumFunction(On(f, s)) = f[x] + SumFunction(On(f, r)) /\ SumFunction(On(f, r)) \in Int
    BY <1>1, <2>2
  <2>13. SumFunction(gr) = SumFunction(On(f, r)) => SumFunction(gs) = SumFunction(On(f, s))
    BY <2>4, <2>8, <2>9, <2>10, <2>11, <2>12
  <2>14. r \in K => s \in K
    <3> HIDE DEF G, r
    <3> QED
      BY <2>13 DEF gs, gr
  <2> QED
    BY <2>14
<1>5. \A s \in SUBSET S : s \in K
  <2> K \in SUBSET (SUBSET S)
    OBVIOUS
  <2> HIDE DEF K
  <2> QED
    BY <1>3, <1>4, FiniteClimb
<1>6. S \in K
  BY <1>5
<1>7. SumFunction(G(S)) = SumFunction(On(f, S))
  BY <1>6
<1> QED
  BY <1>1, <1>7, Zenon DEF FibreSums

\* A sum may be taken in another order, by other names of its terms, and
\* without terms that are zero.
Renames(phi, S, T, f, g) ==
  /\ phi \in [S -> T] /\ f \in [S -> Int] /\ g \in [T -> Int]
  /\ \A x \in S : g[phi[x]] = f[x]
  /\ \A x \in S : \A y \in S : phi[x] = phi[y] => x = y
  /\ \A t \in T : g[t] # 0 => \E x \in S : phi[x] = t

\* A sum is the same under other names of its terms.
LEMMA SumRenamed ==
  ASSUME NEW S, IsFiniteSet(S), NEW T, IsFiniteSet(T), NEW phi, NEW f, NEW g,
         Renames(phi, S, T, f, g)
  PROVE  SumFunction(f) = SumFunction(g)
<1>0. /\ phi \in [S -> T] /\ f \in [S -> Int] /\ g \in [T -> Int]
      /\ \A x \in S : g[phi[x]] = f[x]
      /\ \A x \in S : \A y \in S : phi[x] = phi[y] => x = y
      /\ \A t \in T : g[t] # 0 => \E x \in S : phi[x] = t
  BY DEF Renames
<1> DEFINE h == [t \in T |-> SumFunction(On(f, Fibre(phi, S, t)))]
<1>1. SumFunction(h) = SumFunction(f)
  <2>1. SumFunction(FibreSums(phi, f, S, T)) = SumFunction(f)
    BY <1>0, SumFibres
  <2> QED
    BY <2>1, Zenon DEF FibreSums
<1>2. ASSUME NEW t \in T PROVE SumFunction(On(f, Fibre(phi, S, t))) = g[t]
  <2>1. CASE \E x \in S : phi[x] = t
    <3>1. PICK x \in S : phi[x] = t
      BY <2>1
    <3>2. Fibre(phi, S, t) = {x}
      BY <1>0, <3>1 DEF Fibre
    <3> DEFINE e == On(f, {x})
    <3>3. e \in [{x} -> Int] /\ e[x] = f[x]
      BY <1>0 DEF On
    <3>4. IsFiniteSet({x})
      BY FS_Singleton
    <3> HIDE DEF e
    <3>5. SumFunction(e) = e[x]
      <4>1. x \in {x} /\ \A y \in {x} : y # x => e[y] = 0
        OBVIOUS
      <4> QED
        BY <3>3, <3>4, <4>1, SumOne
    <3> QED
      BY <1>0, <3>1, <3>2, <3>3, <3>5 DEF e
  <2>2. CASE ~ \E x \in S : phi[x] = t
    <3>1. Fibre(phi, S, t) = {}
      BY <2>2 DEF Fibre
    <3>2. SumFunction(On(f, {})) = 0
      BY <1>0, PartLaw
    <3> QED
      BY <1>0, <2>2, <3>1, <3>2
  <2> QED
    BY <2>1, <2>2
<1>3. h = g
  BY <1>0, <1>2
<1> QED
  BY <1>1, <1>3, Zenon

\* Two sums can be exchanged.
Nested(S, f)     == [x \in S |-> SumFunction(f[x])]
Swapped(S, T, f) == [t \in T |-> [x \in S |-> f[x][t]]]

\* Two sums can be exchanged.
LEMMA SumExchanged ==
  ASSUME NEW S, IsFiniteSet(S), NEW T, IsFiniteSet(T), NEW f \in [S -> [T -> Int]]
  PROVE  SumFunction(Nested(S, f)) = SumFunction(Nested(T, Swapped(S, T, f)))
<1> DEFINE g    == [x \in S |-> SumFunction(f[x])]
           H(s) == [t \in T |-> SumFunction([x \in s |-> f[x][t]])]
           K    == {s \in SUBSET S : SumFunction(On(g, s)) = SumFunction(H(s))}
<1>1. g \in [S -> Int] /\ \A x \in S : g[x] = SumFunction(f[x])
  BY SumInt
<1>2. /\ SumFunction(On(g, {})) = 0
      /\ \A s \in SUBSET S : SumFunction(On(g, s)) \in Int
      /\ \A s \in SUBSET S : \A x \in s : SumFunction(On(g, s)) = g[x] + SumFunction(On(g, s \ {x}))
      /\ SumFunction(On(g, S)) = SumFunction(g)
  <2> HIDE DEF g
  <2> QED
    BY <1>1, PartLaw
<1> HIDE DEF g
<1>3. ASSUME NEW s \in SUBSET S, NEW t \in T
      PROVE  /\ SumFunction([x \in s |-> f[x][t]]) \in Int
             /\ s = {} => SumFunction([x \in s |-> f[x][t]]) = 0
             /\ \A x \in s : SumFunction([y \in s |-> f[y][t]])
                               = f[x][t] + SumFunction([y \in s \ {x} |-> f[y][t]])
  <2> DEFINE c == [x \in S |-> f[x][t]]
  <2>1. c \in [S -> Int] /\ \A x \in S : c[x] = f[x][t]
    OBVIOUS
  <2>2. \A r \in SUBSET S : [x \in r |-> f[x][t]] = On(c, r)
    BY DEF On
  <2> HIDE DEF c
  <2>3. /\ SumFunction(On(c, {})) = 0
        /\ \A r \in SUBSET S : SumFunction(On(c, r)) \in Int
        /\ \A r \in SUBSET S : \A x \in r : SumFunction(On(c, r)) = c[x] + SumFunction(On(c, r \ {x}))
    BY <2>1, PartLaw
  <2>4. \A x \in s : s \ {x} \in SUBSET S
    OBVIOUS
  <2> QED
    BY <2>1, <2>2, <2>3, <2>4, ZenonT(30)
<1>4. {} \in K
  <2> DEFINE e == H({})
  <2>0. {} \in SUBSET S
    OBVIOUS
  <2>1. e = [t \in T |-> 0]
    <3>1. \A t \in T : SumFunction([x \in {} |-> f[x][t]]) = 0
      BY <1>3, <2>0
    <3> QED
      BY <3>1
  <2> HIDE DEF e
  <2>2. SumFunction(e) = 0
    BY <2>1, SumZero
  <2> QED
    BY <1>2, <2>0, <2>2 DEF e
<1>5. ASSUME NEW s \in SUBSET S, s # {} PROVE \E x \in s : s \ {x} \in K => s \in K
  <2>1. PICK x \in s : TRUE
    BY <1>5
  <2> DEFINE r  == s \ {x}
             hs == H(s)
             hr == H(r)
             u  == f[x]
  <2>2. r \in SUBSET S /\ u \in [T -> Int] /\ x \in S
    OBVIOUS
  <2>3. hr \in [T -> Int]
    <3> HIDE DEF r
    <3> QED
      BY <1>3, <2>2
  <2>4. hs = [t \in T |-> u[t] + 1 * hr[t]]
    <3>1. ASSUME NEW t \in T PROVE hs[t] = u[t] + 1 * hr[t]
      <4>1. hs[t] = f[x][t] + SumFunction([y \in r |-> f[y][t]])
        BY <1>3
      <4>2. hr[t] = SumFunction([y \in r |-> f[y][t]])
        OBVIOUS
      <4>3. hr[t] \in Int
        BY <2>3
      <4> HIDE DEF hr, hs, r
      <4> QED
        BY <4>1, <4>2, <4>3
    <3> HIDE DEF r
    <3>2. hs = [t \in T |-> hs[t]]
      OBVIOUS
    <3> HIDE DEF hs, hr, u
    <3> QED
      BY <3>1, <3>2
  <2> HIDE DEF hs, hr, u
  <2>5. SumFunction(hs) = SumFunction(u) + 1 * SumFunction(hr)
    <3>1. 1 \in Int
      OBVIOUS
    <3>2. SumFunction(Added(T, u, 1, hr)) = SumFunction(u) + 1 * SumFunction(hr)
      BY <2>2, <2>3, <3>1, SumLinear
    <3> QED
      BY <2>4, <3>2, Zenon DEF Added
  <2>6. SumFunction(u) \in Int /\ SumFunction(hr) \in Int
    BY <2>2, <2>3, SumInt
  <2>7. SumFunction(On(g, s)) = SumFunction(u) + SumFunction(On(g, r))
    BY <1>1, <1>2, <2>2 DEF u
  <2>8. SumFunction(On(g, r)) = SumFunction(hr) => SumFunction(On(g, s)) = SumFunction(hs)
    BY <2>5, <2>6, <2>7
  <2>9. r \in K => s \in K
    <3> HIDE DEF H, r
    <3> QED
      BY <2>8 DEF hs, hr
  <2> QED
    BY <2>9
<1>6. \A s \in SUBSET S : s \in K
  <2> K \in SUBSET (SUBSET S)
    OBVIOUS
  <2> HIDE DEF K
  <2> QED
    BY <1>4, <1>5, FiniteClimb
<1>7. S \in K
  BY <1>6
<1>8. SumFunction(On(g, S)) = SumFunction(H(S))
  BY <1>7
<1>9. Nested(T, Swapped(S, T, f)) = H(S)
  BY DEF Nested, Swapped
<1>10. Nested(S, f) = g
  BY DEF Nested, g
<1> HIDE DEF H
<1> QED
  BY <1>2, <1>8, <1>9, <1>10

-----------------------------------------------------------------------------
(* Congruence. *)

Cong(n, a, b) == \E t \in Int : a = b + n * t

\* Congruence is reflexive.
LEMMA CongRefl ==
  ASSUME NEW n \in Nat \ {0}, NEW a \in Int
  PROVE  Cong(n, a, a)
<1>1. n * 0 = 0
  OBVIOUS
<1>2. a = a + n * 0
  BY <1>1
<1> QED
  BY <1>2 DEF Cong

\* Congruence is symmetric.
LEMMA CongSym ==
  ASSUME NEW n \in Nat \ {0}, NEW a \in Int, NEW b \in Int, Cong(n, a, b)
  PROVE  Cong(n, b, a)
<1>1. PICK t \in Int : a = b + n * t
  BY DEF Cong
<1>2. n * (-t) = -(n * t) /\ n * t \in Int /\ -t \in Int
  OBVIOUS
<1>3. b = a + n * (-t)
  BY <1>1, <1>2
<1> QED
  BY <1>2, <1>3 DEF Cong

\* Congruence is transitive.
LEMMA CongTrans ==
  ASSUME NEW n \in Nat \ {0}, NEW a \in Int, NEW b \in Int, NEW c \in Int,
         Cong(n, a, b), Cong(n, b, c)
  PROVE  Cong(n, a, c)
<1>1. PICK t \in Int : a = b + n * t
  BY DEF Cong
<1>2. PICK u \in Int : b = c + n * u
  BY DEF Cong
<1>3. n * (u + t) = n * u + n * t /\ n * t \in Int /\ n * u \in Int /\ u + t \in Int
  OBVIOUS
<1>4. a = c + n * (u + t)
  BY <1>1, <1>2, <1>3
<1> QED
  BY <1>3, <1>4 DEF Cong

\* Congruences can be added.
LEMMA CongAdd ==
  ASSUME NEW n \in Nat \ {0}, NEW a \in Int, NEW b \in Int, NEW c \in Int, NEW d \in Int,
         Cong(n, a, b), Cong(n, c, d)
  PROVE  Cong(n, a + c, b + d) /\ Cong(n, a - c, b - d)
<1>1. PICK t \in Int : a = b + n * t
  BY DEF Cong
<1>2. PICK u \in Int : c = d + n * u
  BY DEF Cong
<1>3. /\ n * (t + u) = n * t + n * u /\ n * (t - u) = n * t - n * u
      /\ n * t \in Int /\ n * u \in Int /\ t + u \in Int /\ t - u \in Int
  OBVIOUS
<1>4. a + c = (b + d) + n * (t + u) /\ a - c = (b - d) + n * (t - u)
  BY <1>1, <1>2, <1>3
<1> QED
  BY <1>3, <1>4 DEF Cong

\* A congruence can be multiplied.
LEMMA CongTimes ==
  ASSUME NEW n \in Nat \ {0}, NEW a \in Int, NEW b \in Int, NEW c \in Int, NEW d \in Int,
         Cong(n, a, b), Cong(n, c, d)
  PROVE  Cong(n, a * c, b * d)
<1>1. PICK t \in Int : a = b + n * t
  BY DEF Cong
<1>2. PICK u \in Int : c = d + n * u
  BY DEF Cong
<1> DEFINE x == n * t
           y == n * u
<1>3. x \in Int /\ y \in Int /\ a = b + x /\ c = d + y
  BY <1>1, <1>2
<1>4. x * d = n * (t * d) /\ a * y = n * (a * u)
  OBVIOUS
<1> HIDE DEF x, y
<1>5. a * c = a * d + a * y
  BY <1>3
<1>6. a * d = b * d + x * d
  BY <1>3
<1>7. n * (t * d + a * u) = n * (t * d) + n * (a * u)
  <2> DEFINE v == t * d
             w == a * u
  <2>1. v \in Int /\ w \in Int
    OBVIOUS
  <2> HIDE DEF v, w
  <2>2. n * (v + w) = n * v + n * w
    BY <2>1
  <2> QED
    BY <2>2 DEF v, w
<1> DEFINE e == t * d + a * u
           f == n * (t * d)
           g == n * (a * u)
<1>8. f \in Int /\ g \in Int /\ e \in Int /\ n * e = f + g /\ x * d = f /\ a * y = g
  BY <1>4, <1>7
<1> HIDE DEF e, f, g
<1>9. a * c = b * d + n * e
  <2> DEFINE p == a * c
             r == b * d
             s == a * d
  <2>1. p = s + g /\ s = r + f /\ p \in Int /\ r \in Int /\ s \in Int
    BY <1>5, <1>6, <1>8
  <2> HIDE DEF p, r, s
  <2>2. p = r + n * e
    BY <1>8, <2>1
  <2> QED
    BY <2>2 DEF p, r
<1> QED
  BY <1>8, <1>9 DEF Cong

\* Congruence is to have the same remainder.
LEMMA CongMod ==
  ASSUME NEW n \in Nat \ {0}, NEW a \in Int
  PROVE  a % n \in 0 .. n - 1 /\ Cong(n, a % n, a) /\ Cong(n, a, a % n)
<1>1. a % n \in 0 .. n - 1 /\ a \div n \in Int /\ a = n * (a \div n) + (a % n)
  OBVIOUS
<1> DEFINE r == a % n
           p == a \div n
<1>2. r \in Int /\ p \in Int /\ a = n * p + r /\ n * p \in Int
  BY <1>1
<1> HIDE DEF r, p
<1>3. Cong(n, a, r)
  BY <1>2 DEF Cong
<1>4. Cong(n, r, a)
  BY <1>2, <1>3, CongSym
<1> QED
  BY <1>1, <1>3, <1>4 DEF r

\* Congruent words are equal.
LEMMA CongSmall ==
  ASSUME NEW n \in Nat \ {0}, NEW a \in 0 .. n - 1, NEW b \in 0 .. n - 1, Cong(n, a, b)
  PROVE  a = b
<1>1. PICK t \in Int : a = b + n * t
  BY DEF Cong
<1>2. t < 1
  <2> SUFFICES ASSUME t >= 1 PROVE FALSE
    OBVIOUS
  <2>1. n * t >= n /\ n * t \in Int
    OBVIOUS
  <2> QED
    BY <1>1, <2>1
<1>3. t > -1
  <2> SUFFICES ASSUME -1 >= t PROVE FALSE
    OBVIOUS
  <2>1. n * t <= -n /\ n * t \in Int
    OBVIOUS
  <2> QED
    BY <1>1, <2>1
<1>4. t = 0
  BY <1>2, <1>3
<1> QED
  BY <1>1, <1>4

\* Congruent numbers have one remainder.
LEMMA CongEqual ==
  ASSUME NEW n \in Nat \ {0}, NEW a \in Int, NEW b \in Int, Cong(n, a, b)
  PROVE  a % n = b % n
<1> DEFINE x == a % n
           y == b % n
<1>1. x \in 0 .. n - 1 /\ y \in 0 .. n - 1 /\ x \in Int /\ y \in Int /\ Cong(n, x, a) /\ Cong(n, b, y)
  BY CongMod
<1> HIDE DEF x, y
<1>2. Cong(n, x, b)
  BY <1>1, CongTrans
<1>3. Cong(n, x, y)
  BY <1>1, <1>2, CongTrans
<1>4. x = y
  BY <1>1, <1>3, CongSmall
<1> QED
  BY <1>4 DEF x, y

\* Equal numbers are congruent.
LEMMA CongOfEqual ==
  ASSUME NEW n \in Nat \ {0}, NEW a \in Int, NEW b \in Int, a % n = b % n
  PROVE  Cong(n, a, b)
<1> DEFINE x == a % n
<1>1. x \in Int /\ Cong(n, a, x) /\ Cong(n, x, b)
  <2>1. x \in 0 .. n - 1 /\ Cong(n, a, x)
    BY CongMod
  <2>2. Cong(n, b % n, b)
    BY CongMod
  <2> QED
    BY <2>1, <2>2
<1> HIDE DEF x
<1> QED
  BY <1>1, CongTrans

\* Sums of congruent terms are congruent.
LEMMA CongSum ==
  ASSUME NEW n \in Nat \ {0}, NEW S, IsFiniteSet(S), NEW f \in [S -> Int], NEW g \in [S -> Int],
         \A x \in S : Cong(n, f[x], g[x])
  PROVE  Cong(n, SumFunction(f), SumFunction(g))
<1> DEFINE t == [x \in S |-> CHOOSE i \in Int : f[x] = g[x] + n * i]
<1>1. \A x \in S : t[x] \in Int /\ f[x] = g[x] + n * t[x]
  <2> SUFFICES ASSUME NEW x \in S PROVE t[x] \in Int /\ f[x] = g[x] + n * t[x]
    OBVIOUS
  <2>1. \E i \in Int : f[x] = g[x] + n * i
    BY DEF Cong
  <2> QED
    BY <2>1
<1>2. t \in [S -> Int]
  <2>1. t = [x \in S |-> t[x]]
    OBVIOUS
  <2> HIDE DEF t
  <2> QED
    BY <1>1, <2>1
<1> HIDE DEF t
<1>3. f = Added(S, g, n, t)
  <2>1. f = [x \in S |-> f[x]]
    OBVIOUS
  <2> QED
    BY <1>1, <2>1 DEF Added
<1>4. n \in Int
  OBVIOUS
<1>5. SumFunction(Added(S, g, n, t)) = SumFunction(g) + n * SumFunction(t)
  BY <1>2, <1>4, SumLinear
<1>6. SumFunction(t) \in Int
  BY <1>2, SumInt
<1> QED
  BY <1>3, <1>5, <1>6 DEF Cong

-----------------------------------------------------------------------------
(* The shape of the matrix. *)

\* The sizes are positive.
LEMMA Constants ==
  /\ q \in Nat \ {0} /\ n_rows \in Nat \ {0} /\ row_width \in Nat \ {0} /\ lwe_dim \in Nat \ {0}
  /\ CHACHA_BUFFER_WORDS \in Nat \ {0}
BY LweAssumption

\* The square root that reshape_dims rounds is within reach.
LEMMA ReshapeK == reshape_k \in 1 .. n_rows
<1> DEFINE N == n_rows
           w == row_width
           sq(j) == (2 * j + 1) * (2 * j + 1) * w
           Fits(j) == 4 * N < sq(j)
           S == {j \in 0 .. N : j = 0 \/ ~ Fits(j)}
<1>1. N \in Nat \ {0} /\ w \in Nat \ {0}
  BY Constants
<1> SUFFICES \E j \in 1 .. N : Fits(j) /\ (j = 1 \/ (2 * j - 1) * (2 * j - 1) * w <= 4 * N)
  BY DEF reshape_k
<1> SUFFICES ASSUME \A j \in 1 .. N : ~(Fits(j) /\ (j = 1 \/ (2 * j - 1) * (2 * j - 1) * w <= 4 * N))
             PROVE  FALSE
  OBVIOUS
<1>2. 0 \in S
  BY <1>1
<1>3. ASSUME NEW j \in 0 .. N - 1, j \in S PROVE j + 1 \in S
  <2>1. j + 1 \in 1 .. N /\ 2 * (j + 1) - 1 = 2 * j + 1
    BY <1>1
  <2>2. sq(j) \in Int
    BY <1>1
  <2>3. j # 0 => sq(j) <= 4 * N
    <3> HIDE DEF sq
    <3> QED
      BY <1>1, <1>3, <2>2
  <2>4. j + 1 = 1 \/ (2 * (j + 1) - 1) * (2 * (j + 1) - 1) * w <= 4 * N
    BY <2>1, <2>3
  <2>5. ~ Fits(j + 1)
    BY <2>1, <2>4
  <2> QED
    BY <2>1, <2>5
<1>4. N \in S
  <2>1. S \in SUBSET (0 .. N)
    OBVIOUS
  <2>2. N \in Nat /\ N \in 0 .. N
    BY <1>1
  <2> HIDE DEF S
  <2> QED
    BY <1>2, <1>3, <2>1, <2>2, Climbs
<1>5. ~ Fits(N)
  BY <1>1, <1>4
<1>6. sq(N) >= 4 * N + 1
  <2> DEFINE p == (2 * N + 1) * (2 * N + 1)
  <2>1. p = 4 * (N * N) + 4 * N + 1 /\ N * N \in Nat
    BY <1>1
  <2>2. p \in Nat /\ p >= 4 * N + 1
    <3> HIDE DEF p
    <3> DEFINE z == N * N
    <3>1. z \in Nat /\ p = 4 * z + 4 * N + 1
      BY <2>1
    <3> HIDE DEF z
    <3> QED
      BY <1>1, <3>1
  <2> HIDE DEF p
  <2>3. p * w >= p
    BY <1>1, <2>2
  <2>4. sq(N) = p * w
    BY DEF p
  <2> HIDE DEF sq
  <2>5. p * w \in Int
    BY <1>1, <2>2
  <2> QED
    BY <1>1, <2>2, <2>3, <2>4, <2>5
<1>7. sq(N) \in Int
  BY <1>1
<1> HIDE DEF sq
<1> QED
  BY <1>1, <1>5, <1>6, <1>7

\* A place in the reshaped matrix: the row and offset it is for, and where the
\* cell is in the database.
RowAt(m, r, j) == r * m + j \div row_width
OffAt(j)       == j % row_width

\* Rows and columns of a place of the reshaped matrix.
LEMMA Place ==
  ASSUME NEW m \in Nat \ {0}, NEW r \in Nat, NEW j \in 0 .. m * row_width - 1
  PROVE  /\ RowAt(m, r, j) \in Nat /\ OffAt(j) \in 0 .. row_width - 1
         /\ j \div row_width \in 0 .. m - 1
         /\ r * (m * row_width) + j = RowAt(m, r, j) * row_width + OffAt(j)
         /\ r * (m * row_width) + j \in Nat
         /\ RowAt(m, r, j) \div m = r /\ RowAt(m, r, j) % m = j \div row_width
         /\ (r * (m * row_width) + j) \div row_width = RowAt(m, r, j)
         /\ (r * (m * row_width) + j) % row_width = OffAt(j)
         /\ j = (j \div row_width) * row_width + OffAt(j)
<1> DEFINE w == row_width
           a == j \div w
           b == j % w
           i == r * m + a
           c == r * (m * w) + j
<1>1. w \in Nat \ {0}
  BY Constants
<1>2. m * w \in Nat /\ j \in Nat
  BY <1>1
<1>3. a \in Nat /\ b \in 0 .. w - 1 /\ j = w * a + b
  BY <1>1, <1>2, DivMod
<1>4. a < m
  <2> SUFFICES ASSUME m <= a PROVE FALSE
    BY <1>3
  <2>1. w * m <= w * a /\ w * a \in Nat /\ w * m \in Nat /\ w * m = m * w
    BY <1>1, <1>3
  <2> HIDE DEF a, b, w
  <2>2. j < m * w
    BY <1>2 DEF w
  <2> QED
    BY <1>2, <1>3, <2>1, <2>2
<1> HIDE DEF a, b, w
<1>5. r * m \in Nat /\ i \in Nat
  BY <1>3
<1>6. i \div m = r /\ i % m = a
  <2>1. i = m * r + a /\ a \in 0 .. m - 1
    BY <1>3, <1>4, <1>5
  <2> HIDE DEF i
  <2> QED
    BY <1>5, <2>1, DivIs
<1>7. c = w * i + b /\ c \in Nat
  <2> DEFINE x == r * m
             y == r * (m * w)
  <2>1. y = w * x /\ x \in Nat /\ y \in Nat
    BY <1>1, <1>5
  <2>2. w * (x + a) = w * x + w * a /\ w * a \in Nat
    BY <1>1, <1>3, <2>1
  <2> HIDE DEF x, y
  <2>3. y + j = w * (x + a) + b
    BY <1>3, <2>1, <2>2
  <2> QED
    BY <1>2, <2>1, <2>3 DEF x, y
<1>8. c \div w = i /\ c % w = b
  <2> HIDE DEF c, i
  <2> QED
    BY <1>1, <1>3, <1>5, <1>7, DivIs
<1>9. w * i = i * w /\ w * a = a * w
  BY <1>1, <1>3, <1>5
<1>10. RowAt(m, r, j) = i /\ OffAt(j) = b
  BY DEF RowAt, OffAt, a, b, w
<1>11. j \div row_width = a /\ row_width = w
  BY DEF a, w
<1> QED
  BY <1>3, <1>4, <1>5, <1>6, <1>7, <1>8, <1>9, <1>10, <1>11

\* The place of a cell.
LEMMA PlaceOf ==
  ASSUME NEW m \in Nat \ {0}, NEW row \in Nat, NEW off \in 0 .. row_width - 1
  PROVE  /\ row \div m \in Nat /\ row % m \in 0 .. m - 1
         /\ ReshapeOff(row, off, m) \in 0 .. m * row_width - 1
         /\ ReshapeOff(row, off, m) \div row_width = row % m
         /\ OffAt(ReshapeOff(row, off, m)) = off
         /\ RowAt(m, row \div m, ReshapeOff(row, off, m)) = row
<1> DEFINE w == row_width
           r == row \div m
           a == row % m
           j == a * w + off
<1>1. w \in Nat \ {0}
  BY Constants
<1>2. r \in Nat /\ a \in 0 .. m - 1 /\ row = m * r + a
  BY DivMod
<1> HIDE DEF r, a, w
<1>3. off \in 0 .. w - 1 /\ off \in Nat
  BY <1>1 DEF w
<1>4. j \in Nat /\ j = w * a + off
  <2>1. a * w = w * a /\ w * a \in Nat
    BY <1>1, <1>2
  <2> QED
    BY <1>3, <2>1
<1>5. j \div w = a /\ j % w = off
  <2> HIDE DEF j
  <2> QED
    BY <1>1, <1>2, <1>3, <1>4, DivIs
<1>6. j < m * w
  <2>1. (a + 1) * w <= m * w
    BY <1>1, <1>2
  <2>2. (a + 1) * w = w * a + w /\ w * a \in Nat /\ m * w \in Nat
    BY <1>1, <1>2
  <2> HIDE DEF j
  <2> QED
    BY <1>1, <1>3, <1>4, <2>1, <2>2
<1>7. r * m + a = row
  BY <1>2
<1>8. j \in 0 .. m * w - 1
  <2>1. m * w \in Nat
    BY <1>1
  <2> HIDE DEF j
  <2> QED
    BY <1>4, <1>6, <2>1
<1>9. ReshapeOff(row, off, m) = j
  BY DEF ReshapeOff, a, w
<1>10. RowAt(m, r, j) = r * m + j \div w /\ OffAt(j) = j % w
  BY DEF RowAt, OffAt, w
<1>11. RowAt(m, r, j) = row /\ OffAt(j) = off
  <2> HIDE DEF j
  <2> QED
    BY <1>5, <1>7, <1>10
<1>12. row_width = w /\ row \div m = r /\ row % m = a
  BY DEF w, r, a
<1> HIDE DEF j
<1> QED
  BY <1>2, <1>5, <1>8, <1>9, <1>11, <1>12

\* The rows of the reshaped matrix: all full but for a partial last one.
LEMMA RowsLaw ==
  ASSUME NEW m \in 1 .. n_rows
  PROVE  /\ Rows(m) \in 1 .. n_rows
         /\ n_rows \div m \in Nat
         /\ (n_rows \div m) * m <= n_rows /\ n_rows < (n_rows \div m) * m + m
         /\ Rows(m) = IF (n_rows \div m) * m = n_rows THEN n_rows \div m ELSE (n_rows \div m) + 1
         /\ \A row \in 0 .. n_rows - 1 : row \div m \in 0 .. Rows(m) - 1
<1> DEFINE N    == n_rows
           full == N \div m
           s    == N % m
           R    == Rows(m)
<1>1. N \in Nat \ {0} /\ m \in Nat \ {0} /\ m <= N
  BY Constants
<1>2. full \in Nat /\ s \in 0 .. m - 1 /\ N = m * full + s
  BY <1>1, DivMod
<1>3. R = (N + (m - 1)) \div m
  <2>1. N + m - 1 = N + (m - 1)
    BY <1>1
  <2> QED
    BY <2>1 DEF Rows, DivCeil
<1> HIDE DEF full, s, R, N
<1>4. full * m = m * full /\ m * full \in Nat
  BY <1>1, <1>2
<1>5. full * m <= N /\ N < full * m + m
  BY <1>1, <1>2, <1>4
<1>6. R = IF full * m = N THEN full ELSE full + 1
  <2> DEFINE x == N + (m - 1)
  <2>1. x \in Nat
    BY <1>1
  <2>2. CASE s = 0
    <3>1. x = m * full + (m - 1) /\ m - 1 \in 0 .. m - 1
      BY <1>1, <1>2, <1>4, <2>2
    <3> HIDE DEF x
    <3>2. x \div m = full
      BY <1>1, <1>2, <2>1, <3>1, DivIs
    <3> QED
      BY <1>2, <1>3, <1>4, <2>2, <3>2 DEF x
  <2>3. CASE s # 0
    <3>1. s - 1 \in 0 .. m - 1 /\ full + 1 \in Nat
      BY <1>1, <1>2, <2>3
    <3>2. m * (full + 1) = m * full + m
      BY <1>1, <1>2
    <3>3. x = m * (full + 1) + (s - 1)
      BY <1>1, <1>2, <1>4, <3>2
    <3> HIDE DEF x
    <3>4. x \div m = full + 1
      BY <1>1, <2>1, <3>1, <3>3, DivIs
    <3>5. full * m # N
      BY <1>2, <1>4, <2>3
    <3> QED
      BY <1>3, <3>4, <3>5 DEF x
  <2> QED
    BY <2>2, <2>3
<1>7. full <= N /\ (full * m # N => full + 1 <= N) /\ full >= 1
  <2>1. full >= 1
    <3> SUFFICES ASSUME full = 0 PROVE FALSE
      BY <1>2
    <3>1. m * full = 0
      BY <1>1
    <3> QED
      BY <1>1, <1>2, <3>1
  <2>2. full * m >= full
    BY <1>1, <1>2
  <2>3. full * m # N => full * m < N
    BY <1>1, <1>4, <1>5
  <2> QED
    BY <1>1, <1>2, <1>4, <1>5, <2>1, <2>2, <2>3
<1>8. R \in 1 .. N
  BY <1>1, <1>2, <1>6, <1>7
<1>9. ASSUME NEW row \in 0 .. N - 1 PROVE row \div m \in 0 .. R - 1
  <2> DEFINE r == row \div m
             a == row % m
  <2>0. row \in Nat
    BY <1>1
  <2>1. r \in Nat /\ a \in 0 .. m - 1 /\ row = m * r + a
    BY <1>1, <2>0, DivMod
  <2> HIDE DEF r, a
  <2>2. r < R
    <3> SUFFICES ASSUME R <= r PROVE FALSE
      BY <1>8, <2>1
    <3>1. m * R <= m * r /\ m * R \in Nat /\ m * r \in Nat
      BY <1>1, <1>8, <2>1
    <3>2. m * R >= N
      <4>1. CASE full * m = N
        BY <1>1, <1>4, <1>6, <4>1
      <4>2. CASE full * m # N
        <5>1. m * (full + 1) = m * full + m
          BY <1>1, <1>2
        <5> QED
          BY <1>1, <1>2, <1>4, <1>5, <1>6, <4>2, <5>1
      <4> QED
        BY <4>1, <4>2
    <3> QED
      BY <1>1, <2>1, <3>1, <3>2
  <2> QED
    BY <1>8, <2>1, <2>2 DEF r
<1> QED
  BY <1>2, <1>5, <1>6, <1>8, <1>9 DEF full, R, N

Databases == [0 .. n_rows * row_width - 1 -> Int]

\* The reshaping of either backend is within the rows.
LEMMA KLaw ==
  ASSUME backend \in Backends
  PROVE  k \in 1 .. n_rows /\ k \in Nat \ {0} /\ Width(k) = k * row_width /\ Width(k) \in Nat \ {0}
<1>1. n_rows \in Nat \ {0} /\ row_width \in Nat \ {0}
  BY Constants
<1>2. k \in 1 .. n_rows
  BY <1>1, ReshapeK DEF k, Shape
<1>3. k * row_width \in Nat \ {0}
  BY <1>1, <1>2
<1> QED
  BY <1>1, <1>2, <1>3 DEF Width

\* The cells of the reshaped matrix.
LEMMA DLaw ==
  ASSUME backend \in Backends, NEW db \in Databases, NEW r \in Nat, NEW j \in 0 .. Width(k) - 1
  PROVE  /\ D(db, r, j) \in Int
         /\ D(db, r, j) = IF RowAt(k, r, j) < n_rows
                          THEN db[RowAt(k, r, j) * row_width + OffAt(j)] ELSE 0
         /\ RowAt(k, r, j) < n_rows =>
              /\ RowAt(k, r, j) * row_width + OffAt(j) \in 0 .. n_rows * row_width - 1
              /\ r * Width(k) + j = RowAt(k, r, j) * row_width + OffAt(j)
<1> DEFINE N  == n_rows
           w  == row_width
           i  == RowAt(k, r, j)
           o  == OffAt(j)
           at == r * Width(k) + j
<1>1. N \in Nat \ {0} /\ w \in Nat \ {0} /\ k \in Nat \ {0} /\ Width(k) = k * w
  BY Constants, KLaw
<1>2. i \in Nat /\ o \in 0 .. w - 1 /\ at = i * w + o /\ at \in Nat
  <2>1. j \in 0 .. k * row_width - 1 /\ at = r * (k * row_width) + j
    BY <1>1
  <2>2. /\ RowAt(k, r, j) \in Nat /\ OffAt(j) \in 0 .. row_width - 1
        /\ r * (k * row_width) + j = RowAt(k, r, j) * row_width + OffAt(j)
        /\ r * (k * row_width) + j \in Nat
    BY <1>1, <2>1, Place
  <2> HIDE DEF at
  <2> QED
    BY <2>1, <2>2
<1> HIDE DEF i, o, at
<1>3. N * w \in Nat
  BY <1>1
<1>4. at \in 0 .. N * w - 1 <=> i < N
  <2>1. CASE i < N
    <3>1. (i + 1) * w <= N * w
      BY <1>1, <1>2, <2>1
    <3>2. (i + 1) * w = i * w + w /\ i * w \in Nat
      BY <1>1, <1>2
    <3> HIDE DEF w, N
    <3> QED
      BY <1>1, <1>2, <1>3, <2>1, <3>1, <3>2
  <2>2. CASE N <= i
    <3>1. N * w <= i * w /\ i * w \in Nat
      BY <1>1, <1>2, <2>2
    <3> HIDE DEF w, N
    <3> QED
      BY <1>1, <1>2, <1>3, <2>2, <3>1
  <2> QED
    BY <1>1, <1>2, <2>1, <2>2
<1>5. DOMAIN db = 0 .. N * w - 1 /\ db \in [0 .. N * w - 1 -> Int]
  BY DEF Databases
<1>6. D(db, r, j) = IF at \in 0 .. N * w - 1 THEN db[at] ELSE 0
  BY <1>5 DEF D, at
<1>7. D(db, r, j) \in Int
  BY <1>5, <1>6
<1> HIDE DEF N, w
<1>8. D(db, r, j) = IF i < N THEN db[i * w + o] ELSE 0
  BY <1>2, <1>4, <1>6
<1> QED
  BY <1>2, <1>4, <1>7, <1>8 DEF i, o, N, w, at

-----------------------------------------------------------------------------
(* The blocked product. *)

\* Blocks of R and the rest make up the whole sum.
Blocks(f, n, R) == [b \in 0 .. n \div R - 1 |-> SumFunction([r \in 0 .. R - 1 |-> f[b * R + r]])]

\* The blocks and the rest, summed apart (matvec_accumulate).
LEMMA BlocksLaw ==
  ASSUME NEW n \in Nat, NEW R \in Nat \ {0}, NEW f \in [0 .. n - 1 -> Int]
  PROVE  /\ n - (n % R) \in Nat /\ (n - (n % R)) \div R = n \div R /\ n \div R \in Nat
         /\ SumFunction(Blocks(f, n, R)) \in Int
         /\ SumFunction([i \in n - (n % R) .. n - 1 |-> f[i]]) \in Int
         /\ SumFunction(Blocks(f, n, R)) + SumFunction([i \in n - (n % R) .. n - 1 |-> f[i]])
              = SumFunction(f)
         /\ \A b \in 0 .. n \div R - 1 : \A r \in 0 .. R - 1 : b * R + r \in 0 .. n - 1
<1> DEFINE m    == n \div R
           s    == n % R
           full == n - s
           S    == 0 .. n - 1
           T    == 0 .. m
           phi  == [i \in S |-> IF i < full THEN i \div R ELSE m]
           h    == FibreSums(phi, f, S, T)
           rest == full .. n - 1
<1>1. m \in Nat /\ s \in 0 .. R - 1 /\ n = R * m + s
  BY DivMod
<1> HIDE DEF m, s
<1>2. full = R * m /\ full \in Nat /\ R * m \in Nat
  BY <1>1
<1>3. full \div R = m
  <2>1. full = R * m + 0 /\ 0 \in 0 .. R - 1
    BY <1>2
  <2> HIDE DEF full
  <2> QED
    BY <1>1, <1>2, <2>1, DivIs
<1> HIDE DEF full
<1>4. ASSUME NEW i \in S, i < full PROVE i \div R \in 0 .. m - 1
  <2> DEFINE p == i \div R
             t == i % R
  <2>0. i \in Nat
    BY <1>1
  <2>1. p \in Nat /\ t \in 0 .. R - 1 /\ i = R * p + t
    BY <2>0, DivMod
  <2> HIDE DEF p, t
  <2>2. p < m
    <3> SUFFICES ASSUME m <= p PROVE FALSE
      BY <1>1, <2>1
    <3>1. R * m <= R * p /\ R * p \in Nat
      BY <1>1, <2>1
    <3> QED
      BY <1>2, <1>4, <2>1, <3>1
  <2> QED
    BY <1>1, <2>1, <2>2 DEF p
<1>5. phi \in [S -> T]
  <2>1. \A i \in S : (IF i < full THEN i \div R ELSE m) \in T
    BY <1>1, <1>4
  <2> QED
    BY <2>1
<1>6. IsFiniteSet(S) /\ IsFiniteSet(T)
  BY <1>1, FS_Interval
<1>7. SumFunction(h) = SumFunction(f)
  <2> HIDE DEF phi, S, T
  <2>1. f \in [S -> Int]
    BY DEF S
  <2> HIDE DEF h
  <2>2. SumFunction(FibreSums(phi, f, S, T)) = SumFunction(f)
    BY <1>5, <1>6, <2>1, SumFibres
  <2> QED
    BY <2>2 DEF h
<1>8. ASSUME NEW b \in 0 .. m - 1
      PROVE  /\ SumFunction(On(f, Fibre(phi, S, b))) = SumFunction([r \in 0 .. R - 1 |-> f[b * R + r]])
             /\ \A r \in 0 .. R - 1 : b * R + r \in S
  <2> DEFINE A  == 0 .. R - 1
             B  == Fibre(phi, S, b)
             fa == [r \in A |-> f[b * R + r]]
             fb == On(f, B)
             ps == [r \in A |-> b * R + r]
  <2>1. ASSUME NEW r \in A PROVE b * R + r \in S /\ b * R + r < full /\ (b * R + r) \div R = b
    <3> DEFINE x == b * R
    <3>1. x \in Nat /\ x = R * b
      BY <1>1
    <3>2. R * (b + 1) = R * b + R /\ R * (b + 1) <= R * m
      BY <1>1
    <3> HIDE DEF x
    <3>3. x + r < full /\ x + r \in Nat
      BY <1>2, <3>1, <3>2
    <3>4. (x + r) \div R = b
      <4> DEFINE y == x + r
      <4>1. y = R * b + r /\ y \in Nat
        BY <3>1, <3>3
      <4>2. b \in Nat
        BY <1>1
      <4> HIDE DEF y
      <4>3. y \div R = b
        BY <4>1, <4>2, DivIs
      <4> QED
        BY <4>3 DEF y
    <3>5. full <= n
      BY <1>1, <1>2
    <3> QED
      BY <1>2, <3>3, <3>4, <3>5 DEF x
  <2>2. ASSUME NEW i \in B PROVE i \in S /\ \E r \in A : b * R + r = i
    <3>1. i \in S /\ i < full /\ i \div R = b
      BY <1>1 DEF Fibre
    <3>4. i \in Nat
      BY <3>1
    <3>5. i % R \in 0 .. R - 1 /\ i = R * (i \div R) + (i % R)
      BY <3>4, DivMod
    <3>2. i % R \in A /\ i = R * b + (i % R)
      BY <3>1, <3>5
    <3>3. R * b = b * R /\ R * b \in Nat
      BY <1>1
    <3> QED
      BY <3>1, <3>2, <3>3
  <2>3. \A r \in A : b * R + r \in B
    BY <2>1 DEF Fibre
  <2>4. \A r \in A : \A t \in A : b * R + r = b * R + t => r = t
    <3> DEFINE x == b * R
    <3>1. x \in Int
      BY <1>1
    <3> HIDE DEF x
    <3>2. \A r \in A : \A t \in A : x + r = x + t => r = t
      BY <3>1
    <3> QED
      BY <3>2 DEF x
  <2>5. IsFiniteSet(A) /\ IsFiniteSet(B)
    <3>1. B \in SUBSET S
      BY DEF Fibre
    <3>2. IsFiniteSet(A)
      BY FS_Interval
    <3> HIDE DEF B, S
    <3>3. IsFiniteSet(B)
      BY <1>6, <3>1, FS_Subset
    <3> QED
      BY <3>2, <3>3
  <2>6. fa \in [A -> Int] /\ fb \in [B -> Int] /\ ps \in [A -> B]
    <3>1. \A r \in A : f[b * R + r] \in Int
      BY <2>1
    <3>2. \A i \in B : f[i] \in Int
      BY <2>2
    <3> HIDE DEF B, A
    <3>3. fb = [i \in B |-> f[i]]
      BY DEF On
    <3> QED
      BY <2>3, <3>1, <3>2, <3>3
  <2>7. \A r \in A : ps[r] = b * R + r /\ fa[r] = f[b * R + r]
    OBVIOUS
  <2>8. \A i \in B : fb[i] = f[i]
    BY DEF On
  <2> HIDE DEF fa, fb, ps, A, B
  <2>9. \A r \in A : fb[ps[r]] = fa[r]
    BY <2>3, <2>7, <2>8
  <2>11. \A r \in A : \A t \in A : ps[r] = ps[t] => r = t
    BY <2>4, <2>7
  <2>12. \A i \in B : fb[i] # 0 => \E r \in A : ps[r] = i
    BY <2>2, <2>7
  <2>13. Renames(ps, A, B, fa, fb)
    BY <2>6, <2>9, <2>11, <2>12 DEF Renames
  <2>10. SumFunction(fa) = SumFunction(fb)
    BY <2>5, <2>13, SumRenamed
  <2> QED
    BY <2>1, <2>10 DEF fa, fb, A, B
<1>9. SumFunction(On(f, Fibre(phi, S, m))) = SumFunction([i \in rest |-> f[i]])
  <2>1. Fibre(phi, S, m) = rest
    <3>1. ASSUME NEW i \in S PROVE phi[i] = m <=> ~(i < full)
      BY <1>1, <1>4
    <3>2. \A i \in S : ~(i < full) <=> i \in rest
      BY <1>2
    <3>3. rest \subseteq S
      BY <1>2
    <3> HIDE DEF S, phi, rest
    <3> QED
      BY <3>1, <3>2, <3>3 DEF Fibre
  <2> QED
    BY <2>1 DEF On
<1> HIDE DEF phi
<1>10. h = [b \in T |-> SumFunction(On(f, Fibre(phi, S, b)))]
  BY DEF FibreSums
<1>11. h[m] = SumFunction([i \in rest |-> f[i]])
  BY <1>1, <1>9, <1>10
<1>12. [b \in T \ {m} |-> h[b]] = Blocks(f, n, R)
  <2>1. T \ {m} = 0 .. m - 1 /\ n \div R = m
    BY <1>1 DEF m
  <2>2. \A b \in 0 .. m - 1 : h[b] = SumFunction([r \in 0 .. R - 1 |-> f[b * R + r]])
    BY <1>1, <1>8, <1>10
  <2> HIDE DEF h, T
  <2>3. [b \in 0 .. m - 1 |-> h[b]] = [b \in 0 .. m - 1 |-> SumFunction([r \in 0 .. R - 1 |-> f[b * R + r]])]
    BY <2>2, Zenon
  <2> QED
    BY <2>1, <2>3, Zenon DEF Blocks
<1>13. h \in [T -> Int]
  <2>1. ASSUME NEW b \in T PROVE SumFunction(On(f, Fibre(phi, S, b))) \in Int
    <3>1. Fibre(phi, S, b) \in SUBSET S
      BY DEF Fibre
    <3> HIDE DEF S
    <3>2. f \in [S -> Int]
      BY DEF S
    <3> QED
      BY <1>6, <3>1, <3>2, PartLaw
  <2> HIDE DEF T
  <2> QED
    BY <1>10, <2>1
<1> HIDE DEF h
<1>14. SumFunction(h) = h[m] + SumFunction([b \in T \ {m} |-> h[b]])
  <2>1. \A y \in T : SumFunction(h) = h[y] + SumFunction([b \in T \ {y} |-> h[b]])
    <3> HIDE DEF T
    <3> QED
      BY <1>6, <1>13, SumLaw
  <2>2. m \in T
    BY <1>1
  <2> QED
    BY <2>1, <2>2, Zenon
<1>15. SumFunction(h) = h[m] + SumFunction(Blocks(f, n, R)) /\ h[m] \in Int /\ SumFunction(h) \in Int
  <2>1. m \in T
    BY <1>1
  <2> HIDE DEF T
  <2> QED
    BY <1>6, <1>12, <1>13, <1>14, <2>1, SumInt
<1>16. SumFunction(Blocks(f, n, R)) \in Int
  <2> DEFINE g == Blocks(f, n, R)
             B == 0 .. m - 1
  <2>1. \A b \in B : h[b] \in Int
    BY <1>1, <1>13
  <2>2. g = [b \in B |-> h[b]]
    <3>1. T \ {m} = B
      BY <1>1
    <3> QED
      BY <1>12, <3>1, Zenon
  <2>3. IsFiniteSet(B)
    BY <1>1, FS_Interval
  <2> HIDE DEF g, B
  <2>4. g \in [B -> Int]
    BY <2>1, <2>2
  <2>5. SumFunction(g) \in Int
    BY <2>3, <2>4, SumInt
  <2> QED
    BY <2>5 DEF g
<1>17. n - (n % R) = full /\ n \div R = m /\ rest = full .. n - 1
  BY DEF full, m, s
<1> HIDE DEF rest
<1>18. SumFunction([i \in rest |-> f[i]]) \in Int
  BY <1>11, <1>15
<1>19. SumFunction(Blocks(f, n, R)) + SumFunction([i \in rest |-> f[i]]) = SumFunction(f)
  <2> DEFINE x == SumFunction(Blocks(f, n, R))
             y == SumFunction([i \in rest |-> f[i]])
             z == SumFunction(f)
  <2>1. x \in Int /\ y \in Int /\ SumFunction(h) = z /\ h[m] = y /\ SumFunction(h) = h[m] + x
    BY <1>7, <1>11, <1>15, <1>16, <1>18
  <2> HIDE DEF x, y, z
  <2>2. x + y = z
    BY <2>1
  <2> QED
    BY <2>2 DEF x, y, z
<1>20. \A b \in 0 .. m - 1 : \A r \in 0 .. R - 1 : b * R + r \in S
  BY <1>8
<1> QED
  BY <1>1, <1>2, <1>3, <1>16, <1>17, <1>18, <1>19, <1>20

\* Reducing early changes nothing.
LEMMA ModPlus ==
  ASSUME NEW n \in Nat \ {0}, NEW a \in Int, NEW b \in Int
  PROVE  ((a % n) + b) % n = (a + b) % n
<1> DEFINE x == a % n
<1>1. x \in Int /\ Cong(n, x, a) /\ Cong(n, b, b)
  <2>1. x \in 0 .. n - 1 /\ Cong(n, x, a)
    BY CongMod
  <2>2. Cong(n, b, b)
    BY CongRefl
  <2> QED
    BY <2>1, <2>2
<1> HIDE DEF x
<1>2. Cong(n, x + b, a + b)
  BY <1>1, CongAdd
<1>3. (x + b) % n = (a + b) % n
  <2> DEFINE y == x + b
             z == a + b
  <2>1. y \in Int /\ z \in Int
    BY <1>1
  <2>2. Cong(n, y, z)
    BY <1>2
  <2> HIDE DEF y, z
  <2>3. y % n = z % n
    BY <2>1, <2>2, CongEqual
  <2> QED
    BY <2>3 DEF y, z
<1> QED
  BY <1>3 DEF x

\* The terms of a vector times a column.
ColumnOf(v, d, n, W, j) == [i \in 0 .. n - 1 |-> v[i] * d[i * W + j]]

\* matvec_accumulate adds the product, whatever the blocks.
LEMMA MatvecLaw ==
  ASSUME NEW W \in Nat \ {0}, NEW acc, DOMAIN acc = 0 .. W - 1, NEW d, NEW v, NEW n \in Nat,
         NEW R \in Nat \ {0}, NEW j \in 0 .. W - 1, acc[j] \in Int,
         ColumnOf(v, d, n, W, j) \in [0 .. n - 1 -> Int]
  PROVE  MatvecAccumulate(acc, d, v, n, R)[j] = (acc[j] + SumFunction(ColumnOf(v, d, n, W, j))) % q
<1> DEFINE f    == ColumnOf(v, d, n, W, j)
           full == n - (n % R)
           Term(i) == v[i] * d[i * W + j]
           B == 0 .. (full \div R) - 1
           x == SumFunction([b \in B |-> SumFunction([r \in 0 .. R - 1 |-> Term(b * R + r)])])
           y == SumFunction([i \in full .. n - 1 |-> Term(i)])
<1>1. Cardinality(DOMAIN acc) = W
  <2>1. Cardinality(0 .. W - 1) = (W - 1) - 0 + 1
    BY FS_Interval
  <2> QED
    BY <2>1
<1>2. MatvecAccumulate(acc, d, v, n, R)[j] = (acc[j] + x + y) % q
  <2>1. MatvecAccumulate(acc, d, v, n, R) =
          [jj \in DOMAIN acc |->
             (acc[jj] + SumFunction([b \in B |-> SumFunction([r \in 0 .. R - 1 |->
                                       v[b * R + r] * d[(b * R + r) * W + jj]])])
                      + SumFunction([i \in full .. n - 1 |-> v[i] * d[i * W + jj]])) % q]
    BY <1>1, Zenon DEF MatvecAccumulate
  <2>2. j \in DOMAIN acc
    OBVIOUS
  <2> QED
    BY <2>1, <2>2, Zenon
<1>3. /\ full \in Nat /\ full \div R = n \div R
      /\ SumFunction(Blocks(f, n, R)) \in Int
      /\ SumFunction([i \in full .. n - 1 |-> f[i]]) \in Int
      /\ SumFunction(Blocks(f, n, R)) + SumFunction([i \in full .. n - 1 |-> f[i]]) = SumFunction(f)
      /\ \A b \in 0 .. n \div R - 1 : \A r \in 0 .. R - 1 : b * R + r \in 0 .. n - 1
  <2> HIDE DEF f
  <2>1. f \in [0 .. n - 1 -> Int]
    BY DEF f
  <2> QED
    BY <2>1, BlocksLaw, ZenonT(30)
<1>4. \A i \in 0 .. n - 1 : f[i] = Term(i)
  BY DEF ColumnOf
<1> HIDE DEF f, full, Term
<1>5. \A b \in B : [r \in 0 .. R - 1 |-> Term(b * R + r)] = [r \in 0 .. R - 1 |-> f[b * R + r]]
  BY <1>3, <1>4
<1>6. x = SumFunction(Blocks(f, n, R))
  <2>1. [b \in B |-> SumFunction([r \in 0 .. R - 1 |-> Term(b * R + r)])]
          = [b \in B |-> SumFunction([r \in 0 .. R - 1 |-> f[b * R + r]])]
    <3> HIDE DEF B
    <3> QED
      BY <1>5, Zenon
  <2>2. B = 0 .. n \div R - 1
    BY <1>3
  <2> HIDE DEF B
  <2> QED
    BY <2>1, <2>2, Zenon DEF Blocks
<1>7. y = SumFunction([i \in full .. n - 1 |-> f[i]])
  <2>1. \A i \in full .. n - 1 : i \in 0 .. n - 1
    BY <1>3
  <2>2. [i \in full .. n - 1 |-> Term(i)] = [i \in full .. n - 1 |-> f[i]]
    BY <1>4, <2>1
  <2> QED
    BY <2>2, Zenon
<1> HIDE DEF x, y
<1>8. acc[j] + x + y = acc[j] + SumFunction(f)
  BY <1>3, <1>6, <1>7
<1>9. MatvecAccumulate(acc, d, v, n, R)[j] = (acc[j] + SumFunction(f)) % q
  BY <1>2, <1>8
<1> QED
  BY <1>9 DEF f

\* The terms of a column of v D.
TimesTerms(v, db, j) == [r \in 0 .. Rows(k) - 1 |-> v[r] * D(db, r, j)]

\* The terms of v D are integers.
LEMMA TimesTermsInt ==
  ASSUME backend \in Backends, NEW db \in Databases, NEW v \in [0 .. Rows(k) - 1 -> Int],
         NEW j \in 0 .. Width(k) - 1
  PROVE  /\ TimesTerms(v, db, j) \in [0 .. Rows(k) - 1 -> Int]
         /\ IsFiniteSet(0 .. Rows(k) - 1)
         /\ SumFunction(TimesTerms(v, db, j)) \in Int
<1> DEFINE S == 0 .. Rows(k) - 1
           f == TimesTerms(v, db, j)
<1>1. IsFiniteSet(S)
  <2>1. Rows(k) \in Nat
    BY KLaw, RowsLaw
  <2> QED
    BY <2>1, FS_Interval
<1>2. ASSUME NEW r \in S PROVE v[r] * D(db, r, j) \in Int
  <2>1. r \in Nat /\ v[r] \in Int
    OBVIOUS
  <2>2. D(db, r, j) \in Int
    BY <2>1, DLaw
  <2> QED
    BY <2>1, <2>2
<1>3. f = [r \in S |-> v[r] * D(db, r, j)]
  BY DEF TimesTerms
<1> HIDE DEF f, S
<1>4. f \in [S -> Int]
  BY <1>2, <1>3
<1>5. SumFunction(f) \in Int
  BY <1>1, <1>4, SumInt
<1> QED
  BY <1>1, <1>4, <1>5 DEF f, S

\* The answer is the product with the reshaped matrix.
LEMMA AnswerLaw ==
  ASSUME backend \in Backends, NEW db \in Databases, NEW b \in [0 .. Rows(k) - 1 -> Int],
         NEW R \in Nat \ {0}
  PROVE  Answer(db, b, R) = Times(b, db)
<1> DEFINE W     == Width(k)
           full  == n_rows \div k
           dense == MatvecAccumulate(Zeros(W), db, b, full, R)
           tail(j) == db[(full * k + j \div row_width) * row_width + (j % row_width)]
<1>1. k \in 1 .. n_rows /\ k \in Nat \ {0} /\ W = k * row_width /\ W \in Nat \ {0}
  BY KLaw
<1>2. /\ Rows(k) \in 1 .. n_rows /\ full \in Nat
      /\ full * k <= n_rows
      /\ Rows(k) = IF full * k = n_rows THEN full ELSE full + 1
  BY <1>1, RowsLaw
<1>3. q \in Nat \ {0} /\ n_rows \in Nat /\ row_width \in Nat \ {0}
  BY Constants
<1>4. Answer(db, b, R) = [j \in 0 .. W - 1 |->
                            IF full * k + j \div row_width < n_rows
                            THEN (dense[j] + b[full] * tail(j)) % q ELSE dense[j]]
  BY DEF Answer
<1>5. ASSUME NEW j \in 0 .. W - 1
      PROVE  (IF full * k + j \div row_width < n_rows
              THEN (dense[j] + b[full] * tail(j)) % q ELSE dense[j])
                = SumFunction(TimesTerms(b, db, j)) % q
  <2> DEFINE g    == TimesTerms(b, db, j)
             f    == ColumnOf(b, db, full, W, j)
             S    == 0 .. full - 1
             last == RowAt(k, full, j)
  <2>1. j \div row_width \in 0 .. k - 1 /\ last \in Nat /\ last = full * k + j \div row_width
    <3>1. j \in 0 .. k * row_width - 1
      BY <1>1
    <3> QED
      BY <1>1, <1>2, <3>1, Place DEF RowAt
  <2>2. ASSUME NEW r \in S PROVE RowAt(k, r, j) < n_rows
    <3>1. r \in Nat /\ (r + 1) * k <= full * k
      <4>1. r \in Nat /\ r + 1 \in Nat /\ r + 1 <= full /\ full \in Nat /\ k \in Nat
        BY <1>1, <1>2
      <4>2. \A x \in Nat, y \in Nat, z \in Nat : x <= y => x * z <= y * z
        OBVIOUS
      <4> HIDE DEF full
      <4> QED
        BY <4>1, <4>2
    <3>2. (r + 1) * k = r * k + k /\ r * k \in Nat /\ full * k \in Nat
      BY <1>1, <1>2, <3>1
    <3>3. r * k + j \div row_width < n_rows
      <4> DEFINE x == r * k
                 z == j \div row_width
                 u == full * k
      <4>1. x \in Nat /\ u \in Nat /\ x + k <= u /\ z \in 0 .. k - 1 /\ u <= n_rows
        BY <1>2, <2>1, <3>1, <3>2
      <4> HIDE DEF x, z, u
      <4>2. x + z < n_rows
        BY <1>1, <1>3, <4>1
      <4> QED
        BY <4>2 DEF x, z
    <3> QED
      BY <3>3 DEF RowAt
  <2>3. ASSUME NEW r \in S PROVE b[r] * db[r * W + j] = b[r] * D(db, r, j) /\ b[r] * D(db, r, j) \in Int
    <3>1. RowAt(k, r, j) < n_rows /\ r \in Nat
      BY <2>2
    <3>2. D(db, r, j) \in Int /\ D(db, r, j) = db[r * W + j]
      BY <3>1, DLaw
    <3>3. r \in 0 .. Rows(k) - 1
      BY <1>2
    <3>4. b[r] \in Int
      BY <3>3
    <3> QED
      BY <3>2, <3>4
  <2>4. f = [r \in S |-> b[r] * D(db, r, j)] /\ f \in [S -> Int]
    <3>1. f = [r \in S |-> b[r] * db[r * W + j]]
      BY DEF ColumnOf
    <3> HIDE DEF f, S
    <3> QED
      BY <2>3, <3>1
  <2>5. Zeros(W)[j] = 0 /\ DOMAIN Zeros(W) = 0 .. W - 1
    BY DEF Zeros
  <2>6. dense[j] = SumFunction(f) % q /\ SumFunction(f) \in Int
    <3> DEFINE z == Zeros(W)
    <3>1. z[j] = 0 /\ DOMAIN z = 0 .. W - 1 /\ z[j] \in Int
      BY <2>5
    <3>2. ColumnOf(b, db, full, W, j) \in [0 .. full - 1 -> Int]
      BY <2>4
    <3>3. IsFiniteSet(S)
      BY <1>2, FS_Interval
    <3> HIDE DEF z, full, W
    <3>4. MatvecAccumulate(z, db, b, full, R)[j] = (z[j] + SumFunction(ColumnOf(b, db, full, W, j))) % q
      BY <1>1, <1>2, <3>1, <3>2, MatvecLaw
    <3> HIDE DEF f, S
    <3>5. SumFunction(f) \in Int
      BY <2>4, <3>3, SumInt
    <3>6. z[j] + SumFunction(f) = SumFunction(f)
      BY <3>1, <3>5
    <3> QED
      BY <3>4, <3>5, <3>6 DEF f, z
  <2>7. g = [r \in 0 .. Rows(k) - 1 |-> b[r] * D(db, r, j)]
    BY DEF TimesTerms
  <2>8. g \in [0 .. Rows(k) - 1 -> Int] /\ IsFiniteSet(0 .. Rows(k) - 1)
    BY TimesTermsInt
  <2>9. tail(j) = db[last * row_width + OffAt(j)]
    BY <2>1 DEF OffAt
  <2> HIDE DEF g, f, dense, last, tail
  <2>10. CASE full * k = n_rows
    <3>1. f = g
      <4>1. Rows(k) = full
        BY <1>2, <2>10
      <4> QED
        BY <2>4, <2>7, <4>1
    <3>2. ~(full * k + j \div row_width < n_rows)
      BY <1>1, <1>3, <2>1, <2>10
    <3> QED
      BY <2>6, <3>1, <3>2 DEF g
  <2>11. CASE full * k # n_rows
    <3>1. Rows(k) = full + 1 /\ full \in 0 .. Rows(k) - 1 /\ (0 .. Rows(k) - 1) \ {full} = S
      BY <1>2, <2>11
    <3>2. SumFunction(g) = g[full] + SumFunction(f)
      <4>1. \A y \in 0 .. Rows(k) - 1 :
              SumFunction(g) = g[y] + SumFunction([r \in (0 .. Rows(k) - 1) \ {y} |-> g[r]])
        <5> DEFINE A == 0 .. Rows(k) - 1
        <5> HIDE DEF A
        <5>1. g \in [A -> Int] /\ IsFiniteSet(A)
          BY <2>8 DEF A
        <5>2. \A y \in A : SumFunction(g) = g[y] + SumFunction([r \in A \ {y} |-> g[r]])
          BY <5>1, SumLaw
        <5> QED
          BY <5>2 DEF A
      <4>2. [r \in S |-> g[r]] = f
        <5>1. \A r \in S : r \in 0 .. Rows(k) - 1
          BY <1>2, <3>1
        <5>2. \A r \in S : g[r] = b[r] * D(db, r, j)
          BY <2>7, <5>1
        <5> HIDE DEF S
        <5> QED
          BY <2>4, <5>2
      <4> QED
        BY <3>1, <4>1, <4>2, Zenon
    <3>3. g[full] = b[full] * D(db, full, j) /\ b[full] \in Int /\ g[full] \in Int
      BY <2>7, <2>8, <3>1
    <3>4. CASE last < n_rows
      <4>1. D(db, full, j) = tail(j)
        BY <1>2, <2>9, <3>4, DLaw DEF last
      <4>2. (dense[j] + g[full]) % q = (SumFunction(f) + g[full]) % q
        BY <1>3, <2>6, <3>3, ModPlus, ZenonT(30)
      <4>3. SumFunction(f) + g[full] = SumFunction(g)
        BY <2>6, <3>2, <3>3
      <4>4. g[full] = b[full] * tail(j)
        BY <3>3, <4>1
      <4> QED
        BY <2>1, <3>4, <4>2, <4>3, <4>4 DEF g
    <3>5. CASE ~(last < n_rows)
      <4>1. D(db, full, j) = 0
        BY <1>2, <3>5, DLaw DEF last
      <4>2. g[full] = 0
        BY <3>3, <4>1
      <4>3. SumFunction(g) = SumFunction(f)
        BY <2>6, <3>2, <4>2
      <4> QED
        BY <2>1, <2>6, <3>5, <4>3 DEF g
    <3> QED
      BY <3>4, <3>5
  <2> QED
    BY <2>10, <2>11
<1>6. Times(b, db) = [j \in 0 .. W - 1 |-> SumFunction(TimesTerms(b, db, j)) % q]
  BY DEF Times, TimesTerms
<1> HIDE DEF W, full, dense, tail
<1> QED
  BY <1>4, <1>5, <1>6

-----------------------------------------------------------------------------
(* The hint that is set up. *)

\* The index of a row-major matrix of m rows of n.
LEMMA Index ==
  ASSUME NEW m \in Nat, NEW n \in Nat \ {0}, NEW r \in 0 .. m - 1, NEW i \in 0 .. n - 1
  PROVE  r * n + i \in 0 .. m * n - 1 /\ (r * n + i) \div n = r /\ (r * n + i) % n = i
<1> DEFINE x == r * n
           y == m * n
<1>1. x \in Nat /\ y \in Nat /\ x = n * r
  OBVIOUS
<1>2. x + n <= y
  <2>1. (r + 1) * n = x + n
    OBVIOUS
  <2>2. (r + 1) * n <= m * n
    <3>1. r + 1 \in Nat /\ r + 1 <= m
      OBVIOUS
    <3>2. \A a \in Nat, b \in Nat, c \in Nat : a <= b => a * c <= b * c
      OBVIOUS
    <3> QED
      BY <3>1, <3>2
  <2> HIDE DEF x, y
  <2> QED
    BY <1>1, <2>1, <2>2 DEF y
<1> HIDE DEF x, y
<1>3. x + i \in 0 .. y - 1
  BY <1>1, <1>2
<1>4. (x + i) \div n = r /\ (x + i) % n = i
  <2> DEFINE z == x + i
  <2>1. z = n * r + i /\ z \in Nat /\ r \in Nat
    BY <1>1
  <2> HIDE DEF z
  <2>2. z \div n = r /\ z % n = i
    BY <2>1, DivIs
  <2> QED
    BY <2>2 DEF z
<1> QED
  BY <1>3, <1>4 DEF x, y

\* The row and the column of an index.
LEMMA Unindex ==
  ASSUME NEW m \in Nat, NEW n \in Nat \ {0}, NEW x \in 0 .. m * n - 1
  PROVE  x \div n \in 0 .. m - 1 /\ x % n \in 0 .. n - 1 /\ x = (x \div n) * n + (x % n)
<1> DEFINE r == x \div n
           i == x % n
           y == m * n
<1>1. y \in Nat
  OBVIOUS
<1>2. x \in Nat /\ x < y
  <2> HIDE DEF y
  <2>1. x \in 0 .. y - 1
    BY DEF y
  <2> QED
    BY <1>1, <2>1
<1>3. r \in Nat /\ i \in 0 .. n - 1 /\ x = n * r + i
  BY <1>2, DivMod
<1> HIDE DEF r, i
<1>4. r < m
  <2> SUFFICES ASSUME m <= r PROVE FALSE
    BY <1>3
  <2>1. \A a \in Nat, b \in Nat, c \in Nat : a <= b => c * a <= c * b
    OBVIOUS
  <2>2. n * m <= n * r /\ n * m = y /\ n * r \in Nat
    BY <1>3, <2>1
  <2> HIDE DEF y
  <2> QED
    BY <1>1, <1>2, <1>3, <2>2
<1>5. n * r = r * n
  BY <1>3
<1> QED
  BY <1>3, <1>4, <1>5 DEF r, i

\* A, as read off the seed.
IsA(a) == \A i \in 0 .. Rows(k) * lwe_dim - 1 : a[i] = Keystream[i]

\* The words of the seed, and A as expanded from it.
LEMMA KeyLaw ==
  ASSUME backend \in Backends, NEW r \in 0 .. Rows(k) - 1, NEW i \in 0 .. lwe_dim - 1
  PROVE  /\ Keystream[r * lwe_dim + i] \in Int
         /\ \A a : IsA(a) => a[r * lwe_dim + i] = Keystream[r * lwe_dim + i]
<1>1. Rows(k) \in 1 .. n_rows /\ Rows(k) \in Nat /\ r \in 0 .. n_rows - 1
  <2>1. k \in 1 .. n_rows /\ n_rows \in Nat
    BY KLaw, Constants
  <2>2. Rows(k) \in 1 .. n_rows
    BY <2>1, RowsLaw
  <2> QED
    BY <2>1, <2>2
<1>2. lwe_dim \in Nat \ {0} /\ n_rows \in Nat /\ q \in Nat \ {0}
  BY Constants
<1>3. r * lwe_dim + i \in 0 .. n_rows * lwe_dim - 1
  BY <1>1, <1>2, Index
<1>4. r * lwe_dim + i \in 0 .. Rows(k) * lwe_dim - 1
  BY <1>1, <1>2, Index
<1>5. Keystream \in [0 .. n_rows * lwe_dim - 1 -> Words]
  BY LwePirAssumption
<1>6. Keystream[r * lwe_dim + i] \in Words
  BY <1>3, <1>5
<1>7. Keystream[r * lwe_dim + i] \in Int
  BY <1>2, <1>6 DEF Words
<1> QED
  BY <1>4, <1>7 DEF IsA

\* The terms of a cell of the hint.
HintTerms(db, i, j) == [r \in 0 .. Rows(k) - 1 |-> Keystream[r * lwe_dim + i] * D(db, r, j)]

\* The terms of a hint are integers.
LEMMA HintTermsInt ==
  ASSUME backend \in Backends, NEW db \in Databases, NEW i \in 0 .. lwe_dim - 1,
         NEW j \in 0 .. Width(k) - 1
  PROVE  /\ HintTerms(db, i, j) \in [0 .. Rows(k) - 1 -> Int]
         /\ IsFiniteSet(0 .. Rows(k) - 1)
         /\ SumFunction(HintTerms(db, i, j)) \in Int
<1> DEFINE S == 0 .. Rows(k) - 1
           f == HintTerms(db, i, j)
<1>1. IsFiniteSet(S)
  <2>1. Rows(k) \in Nat
    BY KLaw, RowsLaw
  <2> QED
    BY <2>1, FS_Interval
<1>2. ASSUME NEW r \in S PROVE Keystream[r * lwe_dim + i] * D(db, r, j) \in Int
  <2>1. Keystream[r * lwe_dim + i] \in Int
    BY KeyLaw
  <2>2. D(db, r, j) \in Int
    BY DLaw
  <2> QED
    BY <2>1, <2>2
<1>3. f = [r \in S |-> Keystream[r * lwe_dim + i] * D(db, r, j)]
  BY DEF HintTerms
<1> HIDE DEF f, S
<1>4. f \in [S -> Int]
  BY <1>2, <1>3
<1>5. SumFunction(f) \in Int
  BY <1>1, <1>4, SumInt
<1> QED
  BY <1>1, <1>4, <1>5 DEF f, S

\* compute_hint goes by the rows of the database, and gives the same sums.
LEMMA HintCellLaw ==
  ASSUME backend \in Backends, NEW db \in Databases, NEW a, IsA(a),
         NEW i \in 0 .. lwe_dim - 1, NEW j \in 0 .. Width(k) - 1
  PROVE  HintCell(a, db, k, i, j) = SumFunction(HintTerms(db, i, j)) % q
<1> DEFINE S   == {row \in 0 .. n_rows - 1 : row % k = j \div row_width}
           T   == 0 .. Rows(k) - 1
           f   == [row \in S |-> a[ReshapeRow(row, k) * lwe_dim + i] * db[row * row_width + (j % row_width)]]
           g   == HintTerms(db, i, j)
           phi == [row \in S |-> row \div k]
<1>1. k \in 1 .. n_rows /\ k \in Nat \ {0} /\ n_rows \in Nat
  BY KLaw, Constants
<1>2. IsFiniteSet(S) /\ IsFiniteSet(T) /\ g \in [T -> Int]
  <2>1. IsFiniteSet(0 .. n_rows - 1)
    BY <1>1, FS_Interval
  <2>2. IsFiniteSet(S)
    BY <2>1, FS_Subset
  <2> QED
    BY <2>2, HintTermsInt
<1>3. ASSUME NEW row \in S
      PROVE  /\ row \in 0 .. n_rows - 1 /\ row \div k \in T /\ RowAt(k, row \div k, j) = row
             /\ g[row \div k] = a[ReshapeRow(row, k) * lwe_dim + i] * db[row * row_width + (j % row_width)]
  <2>1. row \in 0 .. n_rows - 1 /\ row \in Nat /\ row % k = j \div row_width
    BY <1>1
  <2>2. row \div k \in T /\ row \div k \in Nat
    <3>1. \A x \in 0 .. n_rows - 1 : x \div k \in 0 .. Rows(k) - 1
      BY <1>1, RowsLaw
    <3>2. row \div k \in Nat
      BY <1>1, <2>1, DivMod
    <3> QED
      BY <2>1, <3>1, <3>2
  <2>3. RowAt(k, row \div k, j) = row
    <3>1. row = k * (row \div k) + (row % k)
      BY <1>1, <2>1, DivMod
    <3>2. k * (row \div k) = (row \div k) * k
      BY <1>1, <2>2
    <3> QED
      BY <2>1, <3>1, <3>2 DEF RowAt
  <2>4. D(db, row \div k, j) = db[row * row_width + OffAt(j)]
    <3>1. row < n_rows
      BY <1>1, <2>1
    <3> QED
      BY <2>2, <2>3, <3>1, DLaw
  <2>5. a[(row \div k) * lwe_dim + i] = Keystream[(row \div k) * lwe_dim + i]
    BY <2>2, KeyLaw
  <2>6. g[row \div k] = Keystream[(row \div k) * lwe_dim + i] * D(db, row \div k, j)
    BY <2>2 DEF HintTerms
  <2> QED
    BY <2>1, <2>2, <2>3, <2>4, <2>5, <2>6 DEF ReshapeRow, OffAt
<1>4. ASSUME NEW r \in T, g[r] # 0 PROVE \E row \in S : row \div k = r
  <2>1. r \in Nat
    OBVIOUS
  <2>2. g[r] = Keystream[r * lwe_dim + i] * D(db, r, j) /\ Keystream[r * lwe_dim + i] \in Int
    BY KeyLaw DEF HintTerms
  <2>3. RowAt(k, r, j) < n_rows
    <3> SUFFICES ASSUME ~(RowAt(k, r, j) < n_rows) PROVE FALSE
      OBVIOUS
    <3>1. D(db, r, j) = 0
      BY <2>1, DLaw
    <3> QED
      BY <1>4, <2>2, <3>1
  <2>4. /\ RowAt(k, r, j) \in Nat /\ RowAt(k, r, j) \div k = r
        /\ RowAt(k, r, j) % k = j \div row_width
    <3>1. j \in 0 .. k * row_width - 1
      BY KLaw
    <3> QED
      BY <1>1, <2>1, <3>1, Place
  <2>5. RowAt(k, r, j) \in S
    BY <1>1, <2>3, <2>4
  <2> QED
    BY <2>4, <2>5
<1>5. Renames(phi, S, T, f, g)
  <2>1. \A row \in S : phi[row] = row \div k /\ f[row] = g[row \div k] /\ phi[row] \in T
    BY <1>3
  <2>2. phi \in [S -> T] /\ DOMAIN f = S /\ f = [row \in S |-> f[row]]
    BY <1>3
  <2> HIDE DEF phi, f, g, S, T
  <2>3. f \in [S -> Int]
    <3>1. \A row \in S : f[row] \in Int
      BY <1>2, <2>1
    <3> QED
      BY <2>2, <3>1
  <2>4. \A x \in S : \A y \in S : phi[x] = phi[y] => x = y
    BY <1>3, <2>1
  <2>5. \A x \in S : g[phi[x]] = f[x]
    BY <2>1
  <2>6. \A t \in T : g[t] # 0 => \E x \in S : phi[x] = t
    BY <1>4, <2>1
  <2> QED
    BY <1>2, <2>2, <2>3, <2>4, <2>5, <2>6 DEF Renames
<1>6. SumFunction(f) = SumFunction(g)
  <2> HIDE DEF phi, f, g, S, T
  <2> QED
    BY <1>2, <1>5, SumRenamed
<1>7. HintCell(a, db, k, i, j) = SumFunction(f) % q
  BY Zenon DEF HintCell
<1> HIDE DEF f
<1> QED
  BY <1>6, <1>7

\* The hint by places.
LEMMA HintOfIs ==
  ASSUME NEW db
  PROVE  HintOf(db) = [x \in 0 .. lwe_dim * Width(k) - 1 |->
                         SumFunction(HintTerms(db, x \div Width(k), x % Width(k))) % q]
BY Zenon DEF HintOf, HintTerms

\* The hint that is set up is the product.
LEMMA ComputeHintLaw ==
  ASSUME backend \in Backends, NEW db \in Databases, NEW a, IsA(a)
  PROVE  ComputeHint(a, db, k) = HintOf(db)
<1> DEFINE X == 0 .. lwe_dim * Width(k) - 1
<1>1. lwe_dim \in Nat /\ Width(k) \in Nat \ {0}
  BY Constants, KLaw
<1>2. ASSUME NEW x \in X
      PROVE  HintCell(a, db, k, x \div Width(k), x % Width(k))
               = SumFunction(HintTerms(db, x \div Width(k), x % Width(k))) % q
  <2>1. x \div Width(k) \in 0 .. lwe_dim - 1 /\ x % Width(k) \in 0 .. Width(k) - 1
    BY <1>1, Unindex
  <2> QED
    BY <2>1, HintCellLaw
<1> HIDE DEF X
<1>3. ComputeHint(a, db, k) = [x \in X |-> HintCell(a, db, k, x \div Width(k), x % Width(k))]
  BY DEF ComputeHint, X
<1>4. HintOf(db) = [x \in X |-> SumFunction(HintTerms(db, x \div Width(k), x % Width(k))) % q]
  BY HintOfIs DEF X
<1> QED
  BY <1>2, <1>3, <1>4

-----------------------------------------------------------------------------
(* Setup in several threads. *)

\* A rounded-up share of something is something.
LEMMA DivCeilPositive ==
  ASSUME NEW a \in Nat \ {0}, NEW b \in Nat \ {0}
  PROVE  DivCeil(a, b) \in Nat \ {0}
<1> DEFINE x == a + b - 1
           y == x \div b
<1>1. x \in Nat /\ x >= b
  OBVIOUS
<1> HIDE DEF x
<1>2. y \in Nat /\ x % b \in 0 .. b - 1 /\ x = b * y + (x % b)
  BY <1>1, DivMod
<1> HIDE DEF y
<1>3. y # 0
  BY <1>1, <1>2
<1> QED
  BY <1>2, <1>3 DEF DivCeil, x, y

\* Chunks start and end at units.
LEMMA ChunkLaw ==
  ASSUME NEW total \in Nat \ {0}, NEW unit \in Nat \ {0}, NEW parts \in Nat \ {0}
  PROVE  \E m \in Nat \ {0} : /\ BalancedChunkLen(total, unit, parts) = m * unit
                              /\ m * unit \in Nat \ {0}
<1> DEFINE m == DivCeil(DivCeil(total, parts), unit)
<1>1. m \in Nat \ {0}
  BY DivCeilPositive
<1> HIDE DEF m
<1>2. m * unit \in Nat \ {0}
  BY <1>1
<1>3. BalancedChunkLen(total, unit, parts) = m * unit
  BY DEF BalancedChunkLen, m
<1> QED
  BY <1>1, <1>2, <1>3

\* An index lies in the chunk that starts at its offset.
LEMMA OffsetLaw ==
  ASSUME NEW i \in Nat, NEW chunk \in Nat \ {0}
  PROVE  /\ i \div chunk \in Nat
         /\ ChunkOffset(i, chunk) = (i \div chunk) * chunk
         /\ ChunkOffset(i, chunk) \in Nat /\ ChunkOffset(i, chunk) <= i
         /\ i - ChunkOffset(i, chunk) \in 0 .. chunk - 1
<1> DEFINE d == i \div chunk
           r == i % chunk
           o == d * chunk
<1>1. d \in Nat /\ r \in 0 .. chunk - 1 /\ i = chunk * d + r
  BY DivMod
<1> HIDE DEF d, r
<1>2. o \in Nat /\ o = chunk * d
  BY <1>1
<1> HIDE DEF o
<1>3. o <= i /\ i - o \in 0 .. chunk - 1
  BY <1>1, <1>2
<1> QED
  BY <1>1, <1>2, <1>3 DEF d, o, ChunkOffset

\* A and the hint have words.
LEMMA Lengths ==
  ASSUME backend \in Backends
  PROVE  Rows(k) * lwe_dim \in Nat \ {0} /\ lwe_dim * Width(k) \in Nat \ {0}
<1>1. k \in 1 .. n_rows /\ Width(k) \in Nat \ {0} /\ lwe_dim \in Nat \ {0} /\ n_rows \in Nat
  BY KLaw, Constants
<1>2. Rows(k) \in 1 .. n_rows
  BY <1>1, RowsLaw
<1>3. Rows(k) \in Nat \ {0}
  BY <1>1, <1>2
<1>4. \A a \in Nat \ {0}, b \in Nat \ {0} : a * b \in Nat \ {0}
  OBVIOUS
<1> QED
  BY <1>1, <1>3, <1>4

\* A expanded by any number of workers is the A of one.
LEMMA ExpandedLaw ==
  ASSUME backend \in Backends, NEW threads \in Nat \ {0}
  PROVE  IsA(Expanded(threads))
<1>1. CASE threads = 1
  BY <1>1 DEF Expanded, IsA, SampleA
<1>2. CASE threads # 1
  <2> DEFINE len == Rows(k) * lwe_dim
             chunk == BalancedChunkLen(len, CHACHA_BUFFER_WORDS, threads)
             off(i) == ChunkOffset(i, chunk)
  <2>1. len \in Nat \ {0} /\ CHACHA_BUFFER_WORDS \in Nat \ {0}
    BY Lengths, Constants
  <2> HIDE DEF len
  <2>2. chunk \in Nat \ {0}
    <3>1. \E m \in Nat \ {0} : chunk = m * CHACHA_BUFFER_WORDS /\ m * CHACHA_BUFFER_WORDS \in Nat \ {0}
      <4>1. threads \in Nat \ {0}
        OBVIOUS
      <4> HIDE DEF chunk
      <4> QED
        BY <2>1, <4>1, ChunkLaw DEF chunk
    <3> HIDE DEF chunk
    <3> QED
      BY <3>1
  <2> HIDE DEF chunk
  <2>3. ASSUME NEW i \in 0 .. len - 1
        PROVE  [t \in 0 .. len - 1 - off(i) |-> Keystream[off(i) + t]][i - off(i)] = Keystream[i]
    <3> DEFINE o == off(i)
    <3>1. i \in Nat
      OBVIOUS
    <3>2. o \in Nat /\ o <= i
      BY <2>2, <3>1, OffsetLaw
    <3> HIDE DEF o
    <3>3. i - o \in 0 .. len - 1 - o /\ o + (i - o) = i
      BY <2>1, <3>1, <3>2
    <3>4. [t \in 0 .. len - 1 - o |-> Keystream[o + t]][i - o] = Keystream[i]
      BY <3>3
    <3> QED
      BY <3>4 DEF o
  <2>4. Expanded(threads) = [i \in 0 .. len - 1 |->
          [t \in 0 .. len - 1 - off(i) |-> Keystream[off(i) + t]][i - off(i)]]
    BY <1>2 DEF Expanded, SampleAParallel, len, chunk
  <2> HIDE DEF off
  <2>5. \A i \in 0 .. len - 1 : Expanded(threads)[i] = Keystream[i]
    BY <2>3, <2>4
  <2> QED
    BY <2>5 DEF IsA, len
<1> QED
  BY <1>1, <1>2

\* A hint computed in bands is the hint.
LEMMA ComputeHintParallelLaw ==
  ASSUME backend \in Backends, NEW db, NEW a, NEW threads \in Nat \ {0}
  PROVE  ComputeHintParallel(a, db, k, threads) = ComputeHint(a, db, k)
<1> DEFINE W == Width(k)
           len == lwe_dim * W
           chunk == BalancedChunkLen(len, W, threads)
           off(x) == ChunkOffset(x, chunk)
           blen(o) == IF o + chunk > len THEN len - o ELSE chunk
           cell(x) == HintCell(a, db, k, x \div W, x % W)
           band(o) == [y \in 0 .. blen(o) - 1 |-> HintCell(a, db, k, o \div W + y \div W, y % W)]
<1>1. W \in Nat \ {0} /\ len \in Nat \ {0}
  BY KLaw, Lengths
<1>2. ComputeHint(a, db, k) = [x \in 0 .. len - 1 |-> cell(x)]
  BY DEF ComputeHint
<1>3. ComputeHintParallel(a, db, k, threads) = [x \in 0 .. len - 1 |-> band(off(x))[x - off(x)]]
  BY Zenon DEF ComputeHintParallel
<1> HIDE DEF W, len
<1>4. PICK m \in Nat \ {0} : chunk = m * W /\ m * W \in Nat \ {0}
  BY <1>1, ChunkLaw
<1>5. chunk \in Nat \ {0}
  BY <1>4
<1> HIDE DEF chunk
<1>6. ASSUME NEW x \in 0 .. len - 1 PROVE band(off(x))[x - off(x)] = cell(x)
  <2> DEFINE o == off(x)
             y == x - o
             d == x \div chunk
             k0 == d * m
             z == y \div W
             r == y % W
  <2>1. x \in Nat /\ x < len
    BY <1>1
  <2>2. d \in Nat /\ o = d * chunk /\ o \in Nat /\ o <= x /\ y \in 0 .. chunk - 1
    BY <1>5, <2>1, OffsetLaw
  <2>3. k0 \in Nat /\ o = W * k0
    <3>1. d * (m * W) = W * (d * m)
      <4>1. \A u \in Nat, v \in Nat, w \in Nat : u * (v * w) = w * (u * v)
        OBVIOUS
      <4>2. d \in Nat /\ m \in Nat /\ W \in Nat
        BY <1>1, <1>4, <2>2
      <4> HIDE DEF d
      <4> QED
        BY <4>1, <4>2
    <3> HIDE DEF o, d
    <3> QED
      BY <1>4, <2>2, <3>1
  <2> HIDE DEF o, d, k0
  <2>4. y \in Nat
    BY <2>2
  <2>5. x = o + y
    BY <2>1, <2>2
  <2>6. y \in 0 .. blen(o) - 1
    <3>1. CASE o + chunk > len
      BY <1>1, <1>5, <2>1, <2>2, <3>1
    <3>2. CASE ~(o + chunk > len)
      BY <2>2, <3>2
    <3> QED
      BY <3>1, <3>2
  <2> HIDE DEF y
  <2>7. z \in Nat /\ r \in 0 .. W - 1 /\ y = W * z + r
    BY <1>1, <2>4, DivMod
  <2>8. o \div W = k0
    <3>1. o \in Nat /\ o = W * k0 + 0 /\ 0 \in 0 .. W - 1
      BY <1>1, <2>2, <2>3
    <3> QED
      BY <1>1, <2>3, <3>1, DivIs
  <2> HIDE DEF z, r
  <2>9. x \div W = k0 + z /\ x % W = r
    <3> DEFINE s == k0 + z
    <3>1. s \in Nat
      BY <2>3, <2>7
    <3>2. W * s = W * k0 + W * z
      BY <1>1, <2>3, <2>7
    <3>3. W * s \in Nat /\ W * k0 \in Nat /\ W * z \in Nat
      BY <1>1, <2>3, <2>7, <3>1
    <3> DEFINE Ws == W * s
               Wk == W * k0
               Wz == W * z
    <3> HIDE DEF Ws, Wk, Wz, s
    <3>4. x = Ws + r
      BY <1>1, <2>3, <2>5, <2>7, <3>2, <3>3 DEF Ws, Wk, Wz
    <3>5. x \div W = s /\ x % W = r
      BY <1>1, <2>1, <2>7, <3>1, <3>4, DivIs DEF Ws
    <3> QED
      BY <3>5 DEF s
  <2>10. band(o)[y] = HintCell(a, db, k, o \div W + z, r)
    <3> HIDE DEF blen
    <3> QED
      BY <2>6 DEF z, r
  <2> HIDE DEF band, cell
  <2>11. band(o)[y] = cell(x)
    BY <2>8, <2>9, <2>10 DEF cell
  <2> QED
    BY <2>11 DEF o, y
<1> HIDE DEF band, off, cell
<1> QED
  BY <1>2, <1>3, <1>6

\* A hint set up in any number of threads is the product.
LEMMA SetupHintLaw ==
  ASSUME backend \in Backends, InitialDb \in Databases, NEW a, IsA(a), NEW threads \in Nat \ {0}
  PROVE  SetupHint(a, threads) = HintOf(InitialDb)
BY ComputeHintLaw, ComputeHintParallelLaw DEF SetupHint

-----------------------------------------------------------------------------
(* What a batch changes. *)

Cells == (0 .. row_width - 1) \X Int

\* A batch, row by row.
LEMMA BatchLaw ==
  ASSUME NEW batch \in Seq(RowDeltas)
  PROVE  /\ DOMAIN batch = 1 .. Len(batch) /\ Len(batch) \in Nat /\ IsFiniteSet(DOMAIN batch)
         /\ \A i \in DOMAIN batch : batch[i][1] \in 0 .. n_rows - 1 /\ batch[i][2] \in Seq(Cells)
<1>1. DOMAIN batch = 1 .. Len(batch) /\ Len(batch) \in Nat
  OBVIOUS
<1>2. IsFiniteSet(1 .. Len(batch))
  BY <1>1, FS_Interval
<1>3. ASSUME NEW i \in DOMAIN batch
      PROVE  batch[i][1] \in 0 .. n_rows - 1 /\ batch[i][2] \in Seq(Cells)
  <2>1. batch[i] \in RowDeltas
    OBVIOUS
  <2> QED
    BY <2>1 DEF RowDeltas, Cells
<1> QED
  BY <1>1, <1>2, <1>3

\* Changes of a row lie within it.
LEMMA RowChangeLaw ==
  ASSUME NEW cells \in Seq(Cells), NEW off \in Int
  PROVE  /\ RowChange(cells, off) \in Int
         /\ off \notin 0 .. row_width - 1 => RowChange(cells, off) = 0
<1> DEFINE S == {x \in DOMAIN cells : cells[x][1] = off}
           f == [x \in S |-> cells[x][2]]
<1>1. \A x \in DOMAIN cells : cells[x][1] \in 0 .. row_width - 1 /\ cells[x][2] \in Int
  <2>1. ASSUME NEW x \in DOMAIN cells PROVE cells[x][1] \in 0 .. row_width - 1 /\ cells[x][2] \in Int
    <3>1. cells[x] \in Cells
      OBVIOUS
    <3> QED
      BY <3>1 DEF Cells
  <2> QED
    BY <2>1
<1>2. IsFiniteSet(S)
  <2>1. IsFiniteSet(1 .. Len(cells))
    BY FS_Interval
  <2>2. DOMAIN cells = 1 .. Len(cells)
    OBVIOUS
  <2>3. S \subseteq 1 .. Len(cells)
    BY <2>2
  <2> QED
    BY <2>1, <2>3, FS_Subset
<1>3. f \in [S -> Int]
  BY <1>1
<1>4. off \notin 0 .. row_width - 1 => S = {}
  BY <1>1
<1> HIDE DEF S
<1>5. RowChange(cells, off) = SumFunction(f)
  BY DEF RowChange, S
<1> HIDE DEF f
<1>6. SumFunction(f) \in Int
  BY <1>2, <1>3, SumInt
<1>7. S = {} => SumFunction(f) = 0
  BY <1>2, <1>3, SumLaw
<1> QED
  BY <1>4, <1>5, <1>6, <1>7

Changes(batch, row, off) ==
  [i \in {i \in DOMAIN batch : batch[i][1] = row} |-> RowChange(batch[i][2], off)]

\* What a batch changes at a cell, and that it is nothing outside.
LEMMA ChangeAtLaw ==
  ASSUME NEW batch \in Seq(RowDeltas), NEW row \in Int, NEW off \in Int
  PROVE  /\ ChangeAt(batch, row, off) \in Int
         /\ ChangeAt(batch, row, off) = SumFunction(Changes(batch, row, off))
         /\ IsFiniteSet({i \in DOMAIN batch : batch[i][1] = row})
         /\ Changes(batch, row, off) \in [{i \in DOMAIN batch : batch[i][1] = row} -> Int]
         /\ row \notin 0 .. n_rows - 1 => ChangeAt(batch, row, off) = 0
<1> DEFINE S == {i \in DOMAIN batch : batch[i][1] = row}
           f == Changes(batch, row, off)
<1>1. IsFiniteSet(S)
  <2>1. IsFiniteSet(DOMAIN batch)
    BY BatchLaw
  <2> QED
    BY <2>1, FS_Subset
<1>2. \A i \in S : RowChange(batch[i][2], off) \in Int
  <2>1. ASSUME NEW i \in S PROVE RowChange(batch[i][2], off) \in Int
    <3>1. batch[i][2] \in Seq(Cells)
      BY BatchLaw
    <3> QED
      BY <3>1, RowChangeLaw
  <2> QED
    BY <2>1
<1>3. f = [i \in S |-> RowChange(batch[i][2], off)]
  BY DEF Changes
<1>4. ChangeAt(batch, row, off) = SumFunction(f)
  BY Zenon DEF ChangeAt, Changes
<1>5. row \notin 0 .. n_rows - 1 => S = {}
  BY BatchLaw
<1> HIDE DEF f, S
<1>6. f \in [S -> Int]
  BY <1>2, <1>3
<1>7. SumFunction(f) \in Int /\ (S = {} => SumFunction(f) = 0)
  BY <1>1, <1>6, SumLaw
<1> QED
  BY <1>1, <1>4, <1>5, <1>6, <1>7 DEF f, S

\* A factor taken out of a sum.
LEMMA SumScaled ==
  ASSUME NEW S, IsFiniteSet(S), NEW g \in [S -> Int], NEW c \in Int, NEW f,
         DOMAIN f = S, f = [x \in S |-> f[x]], \A x \in S : f[x] = c * g[x]
  PROVE  SumFunction(f) = c * SumFunction(g)
<1> DEFINE z == [x \in S |-> 0]
<1>1. z \in [S -> Int] /\ \A x \in S : z[x] = 0
  OBVIOUS
<1>2. SumFunction(z) = 0
  BY SumZero
<1> HIDE DEF z
<1>3. f = Added(S, z, c, g)
  <2>1. \A x \in S : f[x] = z[x] + c * g[x]
    BY <1>1
  <2> QED
    BY <2>1 DEF Added
<1>4. SumFunction(Added(S, z, c, g)) = SumFunction(z) + c * SumFunction(g)
  BY <1>1, SumLinear
<1>5. SumFunction(g) \in Int
  BY SumInt
<1> QED
  BY <1>2, <1>3, <1>4, <1>5

-----------------------------------------------------------------------------
(* A batch changes the reshaped matrix at the places of its rows. *)

PlaceTerms(v, batch, j) ==
  [r \in 0 .. Rows(k) - 1 |-> v[r] * ChangeAt(batch, RowAt(k, r, j), OffAt(j))]

ChangeTerms(v, batch, j) ==
  [i \in DOMAIN batch |->
     v[batch[i][1] \div k] * RowChange(batch[i][2], j - ReshapeOff(batch[i][1], 0, k))]

\* Where a row of the batch is in the reshaped matrix.
LEMMA EntryPlace ==
  ASSUME backend \in Backends, NEW row \in 0 .. n_rows - 1, NEW j \in 0 .. Width(k) - 1
  PROVE  /\ row \div k \in 0 .. Rows(k) - 1
         /\ ReshapeOff(row, 0, k) \in Int
         /\ j - ReshapeOff(row, 0, k) \in Int
         /\ row = RowAt(k, row \div k, j) => j - ReshapeOff(row, 0, k) = OffAt(j)
         /\ row # RowAt(k, row \div k, j) => j - ReshapeOff(row, 0, k) \notin 0 .. row_width - 1
<1> DEFINE d == row \div k
           m == row % k
           c == j \div row_width
           p == m * row_width
           u == c * row_width
<1>1. k \in 1 .. n_rows /\ k \in Nat \ {0} /\ n_rows \in Nat /\ row_width \in Nat \ {0} /\ row \in Nat
  BY KLaw, Constants
<1>2. d \in 0 .. Rows(k) - 1
  <2>1. \A x \in 0 .. n_rows - 1 : x \div k \in 0 .. Rows(k) - 1
    BY <1>1, RowsLaw
  <2> QED
    BY <2>1
<1>3. d \in Nat /\ m \in Nat /\ row = k * d + m
  BY <1>1, DivMod
<1>4. j \in 0 .. k * row_width - 1
  BY KLaw
<1>5. c \in Nat /\ OffAt(j) \in 0 .. row_width - 1 /\ j = u + OffAt(j)
  <2>1. /\ OffAt(j) \in 0 .. row_width - 1 /\ j \div row_width \in 0 .. k - 1
        /\ j = (j \div row_width) * row_width + OffAt(j)
    BY <1>1, <1>3, <1>4, Place
  <2> QED
    BY <1>1, <2>1
<1>6. ReshapeOff(row, 0, k) = p
  BY <1>1, <1>3 DEF ReshapeOff
<1>7. RowAt(k, d, j) = d * k + c
  BY DEF RowAt
<1> HIDE DEF d, m, c
<1>8. p \in Nat /\ u \in Nat
  BY <1>1, <1>3, <1>5
<1>9. d * k = k * d /\ k * d \in Nat
  BY <1>1, <1>3
<1>10. CASE m = c
  <2>1. p = u
    BY <1>10
  <2>2. row = RowAt(k, d, j)
    BY <1>3, <1>7, <1>9, <1>10
  <2> HIDE DEF p, u
  <2>3. j - p = OffAt(j)
    BY <1>5, <1>8, <2>1
  <2> QED
    BY <1>2, <1>5, <1>6, <1>8, <2>2, <2>3 DEF d
<1>11. CASE m # c
  <2>1. row # RowAt(k, d, j)
    <3> DEFINE kd == k * d
    <3> HIDE DEF kd
    <3>1. row = kd + m /\ RowAt(k, d, j) = kd + c /\ kd \in Nat
      BY <1>3, <1>7, <1>9 DEF kd
    <3> QED
      BY <1>3, <1>5, <1>11, <3>1
  <2>2. p + row_width <= u \/ u + row_width <= p
    <3>1. \A a \in Nat, b \in Nat, w \in Nat : a < b => a * w + w <= b * w
      <4>1. SUFFICES ASSUME NEW a \in Nat, NEW b \in Nat, NEW w \in Nat, a < b
                     PROVE  a * w + w <= b * w
        OBVIOUS
      <4>2. PICK t \in Nat : b = a + 1 + t
        <5>1. b = a + 1 + (b - a - 1) /\ b - a - 1 \in Nat
          BY <4>1
        <5> QED
          BY <5>1
      <4>3. b * w = a * w + w + t * w
        BY <4>2
      <4>4. t * w \in Nat /\ a * w \in Nat
        OBVIOUS
      <4> QED
        BY <4>3, <4>4
    <3>2. m < c \/ c < m
      BY <1>3, <1>5, <1>11
    <3> QED
      BY <1>1, <1>3, <1>5, <3>1, <3>2
  <2> HIDE DEF p, u
  <2>3. j - p \notin 0 .. row_width - 1
    BY <1>1, <1>5, <1>8, <2>2
  <2>4. j - p \in Int
    BY <1>5, <1>8
  <2> QED
    BY <1>2, <1>5, <1>6, <1>8, <2>1, <2>3, <2>4 DEF d
<1> QED
  BY <1>10, <1>11

\* The terms of a change of v D are integers.
LEMMA ChangeTermsInt ==
  ASSUME backend \in Backends, NEW batch \in Seq(RowDeltas), NEW v \in [0 .. Rows(k) - 1 -> Int],
         NEW j \in 0 .. Width(k) - 1
  PROVE  /\ ChangeTerms(v, batch, j) \in [DOMAIN batch -> Int]
         /\ SumFunction(ChangeTerms(v, batch, j)) \in Int
<1> DEFINE S == DOMAIN batch
           f == ChangeTerms(v, batch, j)
<1>1. IsFiniteSet(S)
  BY BatchLaw
<1>2. ASSUME NEW i \in S
      PROVE  v[batch[i][1] \div k] * RowChange(batch[i][2], j - ReshapeOff(batch[i][1], 0, k)) \in Int
  <2>1. batch[i][1] \in 0 .. n_rows - 1 /\ batch[i][2] \in Seq(Cells)
    BY BatchLaw
  <2>2. batch[i][1] \div k \in 0 .. Rows(k) - 1 /\ j - ReshapeOff(batch[i][1], 0, k) \in Int
    BY <2>1, EntryPlace
  <2>3. RowChange(batch[i][2], j - ReshapeOff(batch[i][1], 0, k)) \in Int
    BY <2>1, <2>2, RowChangeLaw
  <2>4. v[batch[i][1] \div k] \in Int
    BY <2>2
  <2> QED
    BY <2>3, <2>4
<1>3. f = [i \in S |-> v[batch[i][1] \div k] * RowChange(batch[i][2], j - ReshapeOff(batch[i][1], 0, k))]
  BY DEF ChangeTerms
<1> HIDE DEF f, S
<1>4. f \in [S -> Int]
  BY <1>2, <1>3
<1>5. SumFunction(f) \in Int
  BY <1>1, <1>4, SumInt
<1> QED
  BY <1>4, <1>5 DEF f, S

\* Place by place, or change by change: the sums are the same.
LEMMA SpreadLaw ==
  ASSUME backend \in Backends, NEW batch \in Seq(RowDeltas), NEW v \in [0 .. Rows(k) - 1 -> Int],
         NEW j \in 0 .. Width(k) - 1
  PROVE  /\ PlaceTerms(v, batch, j) \in [0 .. Rows(k) - 1 -> Int]
         /\ SumFunction(PlaceTerms(v, batch, j)) = SumFunction(ChangeTerms(v, batch, j))
<1> DEFINE S   == DOMAIN batch
           T   == 0 .. Rows(k) - 1
           f   == ChangeTerms(v, batch, j)
           g   == PlaceTerms(v, batch, j)
           phi == [i \in S |-> batch[i][1] \div k]
<1>1. k \in 1 .. n_rows /\ k \in Nat \ {0} /\ n_rows \in Nat
  BY KLaw, Constants
<1>2. IsFiniteSet(S) /\ IsFiniteSet(T)
  <2>1. Rows(k) \in 1 .. n_rows
    BY <1>1, RowsLaw
  <2>2. Rows(k) \in Nat
    BY <1>1, <2>1
  <2>3. IsFiniteSet(S)
    BY BatchLaw
  <2>4. IsFiniteSet(T)
    BY <2>2, FS_Interval
  <2> QED
    BY <2>3, <2>4
<1>3. f \in [S -> Int]
  BY ChangeTermsInt
<1>4. \A i \in S : batch[i][1] \in 0 .. n_rows - 1 /\ batch[i][2] \in Seq(Cells)
  BY BatchLaw
<1>5. phi \in [S -> T] /\ \A i \in S : phi[i] = batch[i][1] \div k
  <2>1. \A x \in 0 .. n_rows - 1 : x \div k \in 0 .. Rows(k) - 1
    BY <1>1, RowsLaw
  <2> QED
    BY <1>4, <2>1
<1>6. ASSUME NEW t \in T
      PROVE  v[t] * ChangeAt(batch, RowAt(k, t, j), OffAt(j)) = SumFunction(On(f, Fibre(phi, S, t)))
  <2> DEFINE row == RowAt(k, t, j)
             F == Fibre(phi, S, t)
             A == {i \in S : batch[i][1] = row}
             h == Changes(batch, row, OffAt(j))
             e == [i \in A |-> v[t] * h[i]]
             id == [i \in A |-> i]
             of == On(f, F)
  <2>1. row \in Nat /\ row \in Int /\ OffAt(j) \in Int /\ row \div k = t
    <3>1. j \in 0 .. k * row_width - 1 /\ t \in Nat
      BY KLaw
    <3>2. row \in Nat /\ OffAt(j) \in 0 .. row_width - 1 /\ row \div k = t
      BY <1>1, <3>1, Place
    <3> QED
      BY <3>2
  <2>2. /\ ChangeAt(batch, row, OffAt(j)) \in Int
        /\ ChangeAt(batch, row, OffAt(j)) = SumFunction(h)
        /\ IsFiniteSet(A)
        /\ h \in [A -> Int]
    BY <2>1, ChangeAtLaw
  <2>3. v[t] \in Int
    OBVIOUS
  <2>4. SumFunction(e) = v[t] * SumFunction(h) /\ e \in [A -> Int]
    <3>1. DOMAIN e = A /\ e = [i \in A |-> e[i]] /\ \A i \in A : e[i] = v[t] * h[i]
      OBVIOUS
    <3> HIDE DEF e, h, A
    <3>2. SumFunction(e) = v[t] * SumFunction(h)
      BY <2>2, <2>3, <3>1, SumScaled, SMTT(30)
    <3>3. \A i \in A : h[i] \in Int
      BY <2>2
    <3>4. \A i \in A : e[i] \in Int
      BY <2>3, <3>1, <3>3
    <3>5. e \in [A -> Int]
      BY <3>1, <3>4
    <3> QED
      BY <3>2, <3>5
  <2>5. F = {i \in S : batch[i][1] \div k = t} /\ IsFiniteSet(F) /\ F \subseteq S
    <3>1. F = {i \in S : batch[i][1] \div k = t}
      BY <1>5 DEF Fibre
    <3>2. IsFiniteSet(F)
      BY <1>2, <3>1, FS_Subset
    <3> QED
      BY <3>1, <3>2
  <2>6. A \subseteq F
    BY <2>1, <2>5
  <2>7. \A i \in F : of[i] = f[i] /\ of[i] \in Int /\ of \in [F -> Int]
    <3> HIDE DEF f, F
    <3> QED
      BY <1>3, <2>5 DEF On
  <2>8. ASSUME NEW i \in F
        PROVE  of[i] = IF i \in A THEN v[t] * RowChange(batch[i][2], OffAt(j)) ELSE 0
    <3> DEFINE o == j - ReshapeOff(batch[i][1], 0, k)
    <3>1. i \in S /\ batch[i][1] \div k = t
      BY <2>5
    <3>2. f[i] = v[t] * RowChange(batch[i][2], o)
      BY <3>1 DEF ChangeTerms
    <3>3. batch[i][1] \in 0 .. n_rows - 1 /\ batch[i][2] \in Seq(Cells)
      BY <1>4, <3>1
    <3>4. /\ o \in Int
          /\ batch[i][1] = RowAt(k, batch[i][1] \div k, j) => o = OffAt(j)
          /\ batch[i][1] # RowAt(k, batch[i][1] \div k, j) => o \notin 0 .. row_width - 1
      BY <3>3, EntryPlace
    <3>5. o \notin 0 .. row_width - 1 => RowChange(batch[i][2], o) = 0
      BY <3>3, <3>4, RowChangeLaw
    <3>6. i \in A <=> batch[i][1] = RowAt(k, batch[i][1] \div k, j)
      BY <3>1
    <3>7. of[i] = f[i]
      BY <2>7
    <3> HIDE DEF o, A, of, f
    <3>8. CASE i \in A
      BY <3>2, <3>4, <3>6, <3>7, <3>8
    <3>9. CASE i \notin A
      <4>1. RowChange(batch[i][2], o) = 0
        BY <3>4, <3>5, <3>6, <3>9
      <4>2. v[t] * 0 = 0
        BY <2>3
      <4> QED
        BY <3>2, <3>7, <3>9, <4>1, <4>2
    <3> QED
      BY <3>8, <3>9
  <2>9. \A i \in A : e[i] = v[t] * RowChange(batch[i][2], OffAt(j))
    BY DEF Changes
  <2>10. Renames(id, A, F, e, of)
    <3>1. id \in [A -> F] /\ \A i \in A : id[i] = i
      BY <2>6
    <3> HIDE DEF id, A, F, e, of
    <3>2. of \in [F -> Int]
      BY <2>7 DEF On, of
    <3>3. \A i \in A : of[id[i]] = e[i]
      BY <2>6, <2>8, <2>9, <3>1
    <3>4. \A i \in F : of[i] # 0 => \E x \in A : id[x] = i
      BY <2>8, <3>1
    <3>5. \A x \in A : \A y \in A : id[x] = id[y] => x = y
      BY <3>1
    <3> QED
      BY <2>4, <3>1, <3>2, <3>3, <3>4, <3>5 DEF Renames
  <2>11. SumFunction(e) = SumFunction(of)
    <3> HIDE DEF id, A, F, e, of
    <3> QED
      BY <2>2, <2>5, <2>10, SumRenamed
  <2> HIDE DEF e, h, of
  <2>12. v[t] * ChangeAt(batch, row, OffAt(j)) = SumFunction(of)
    BY <2>2, <2>4, <2>11
  <2> QED
    BY <2>12 DEF of
<1>7. g \in [T -> Int]
  <2>1. \A t \in T : v[t] * ChangeAt(batch, RowAt(k, t, j), OffAt(j)) \in Int
    <3>1. ASSUME NEW t \in T PROVE v[t] * ChangeAt(batch, RowAt(k, t, j), OffAt(j)) \in Int
      <4>1. RowAt(k, t, j) \in Nat /\ OffAt(j) \in 0 .. row_width - 1
        <5>1. j \in 0 .. k * row_width - 1 /\ t \in Nat
          BY KLaw
        <5> QED
          BY <1>1, <5>1, Place
      <4>2. RowAt(k, t, j) \in Int /\ OffAt(j) \in Int
        BY <4>1
      <4>3. ChangeAt(batch, RowAt(k, t, j), OffAt(j)) \in Int
        BY <4>2, ChangeAtLaw
      <4>4. v[t] \in Int
        OBVIOUS
      <4> QED
        BY <4>3, <4>4
    <3> QED
      BY <3>1
  <2>2. g = [t \in T |-> v[t] * ChangeAt(batch, RowAt(k, t, j), OffAt(j))]
    BY DEF PlaceTerms
  <2> HIDE DEF g, T
  <2> QED
    BY <2>1, <2>2
<1>8. g = FibreSums(phi, f, S, T)
  <2>1. g = [t \in T |-> v[t] * ChangeAt(batch, RowAt(k, t, j), OffAt(j))]
    BY DEF PlaceTerms
  <2>2. FibreSums(phi, f, S, T) = [t \in T |-> SumFunction(On(f, Fibre(phi, S, t)))]
    BY Zenon DEF FibreSums
  <2> HIDE DEF g, f, S, T, phi
  <2> QED
    BY <1>6, <2>1, <2>2
<1>9. SumFunction(FibreSums(phi, f, S, T)) = SumFunction(f)
  <2> HIDE DEF f, S, T, phi
  <2> QED
    BY <1>2, <1>3, <1>5, SumFibres
<1> QED
  BY <1>7, <1>8, <1>9

-----------------------------------------------------------------------------
(* The database after a batch. *)

\* The database after a batch.
LEMMA MutatedLaw ==
  ASSUME NEW db \in Databases, NEW batch \in Seq(RowDeltas)
  PROVE  /\ Mutated(db, batch) \in Databases
         /\ \A c \in 0 .. n_rows * row_width - 1 :
              Mutated(db, batch)[c] = db[c] + ChangeAt(batch, c \div row_width, c % row_width)
<1>1. row_width \in Nat \ {0} /\ n_rows \in Nat
  BY Constants
<1>2. DOMAIN db = 0 .. n_rows * row_width - 1
  BY DEF Databases
<1>3. ASSUME NEW c \in 0 .. n_rows * row_width - 1
      PROVE  db[c] + ChangeAt(batch, c \div row_width, c % row_width) \in Int
  <2>1. c \in Nat
    OBVIOUS
  <2>2. c \div row_width \in Int /\ c % row_width \in Int
    BY <1>1, <2>1, DivMod
  <2>3. ChangeAt(batch, c \div row_width, c % row_width) \in Int
    BY <2>2, ChangeAtLaw
  <2>4. db[c] \in Int
    BY DEF Databases
  <2> QED
    BY <2>3, <2>4
<1>4. Mutated(db, batch) = [c \in 0 .. n_rows * row_width - 1 |->
                              db[c] + ChangeAt(batch, c \div row_width, c % row_width)]
  BY <1>2 DEF Mutated
<1> QED
  BY <1>3, <1>4 DEF Databases

\* The reshaped matrix of the database after a batch.
LEMMA MutatedD ==
  ASSUME backend \in Backends, NEW db \in Databases, NEW batch \in Seq(RowDeltas),
         NEW r \in Nat, NEW j \in 0 .. Width(k) - 1
  PROVE  /\ ChangeAt(batch, RowAt(k, r, j), OffAt(j)) \in Int
         /\ D(Mutated(db, batch), r, j) = D(db, r, j) + ChangeAt(batch, RowAt(k, r, j), OffAt(j))
<1> DEFINE m == Mutated(db, batch)
           row == RowAt(k, r, j)
           c == row * row_width + OffAt(j)
<1>1. k \in Nat \ {0} /\ j \in 0 .. k * row_width - 1 /\ Width(k) = k * row_width
  BY KLaw
<1>2. /\ row \in Nat /\ OffAt(j) \in 0 .. row_width - 1
      /\ r * (k * row_width) + j = c
      /\ (r * (k * row_width) + j) \div row_width = row
      /\ (r * (k * row_width) + j) % row_width = OffAt(j)
  BY <1>1, Place, ZenonT(30)
<1>3. c \div row_width = row /\ c % row_width = OffAt(j)
  BY <1>2
<1>4. row \in Int /\ OffAt(j) \in Int
  BY <1>2
<1>5. ChangeAt(batch, row, OffAt(j)) \in Int /\ (row \notin 0 .. n_rows - 1 => ChangeAt(batch, row, OffAt(j)) = 0)
  BY <1>4, ChangeAtLaw
<1>6. m \in Databases
  BY MutatedLaw
<1>7. /\ D(db, r, j) \in Int
      /\ D(db, r, j) = IF row < n_rows THEN db[c] ELSE 0
      /\ row < n_rows => c \in 0 .. n_rows * row_width - 1
  BY DLaw
<1>8. D(m, r, j) = IF row < n_rows THEN m[c] ELSE 0
  BY <1>6, DLaw
<1>9. CASE row < n_rows
  <2>1. m[c] = db[c] + ChangeAt(batch, c \div row_width, c % row_width)
    BY <1>7, <1>9, MutatedLaw
  <2> QED
    BY <1>3, <1>5, <1>7, <1>8, <1>9, <2>1
<1>10. CASE ~(row < n_rows)
  <2>1. n_rows \in Nat
    BY Constants
  <2> QED
    BY <1>2, <1>5, <1>7, <1>8, <1>10, <2>1
<1> QED
  BY <1>9, <1>10

\* v D of the database after a batch.
LEMMA TimesStep ==
  ASSUME backend \in Backends, NEW db \in Databases, NEW batch \in Seq(RowDeltas),
         NEW v \in [0 .. Rows(k) - 1 -> Int], NEW j \in 0 .. Width(k) - 1
  PROVE  SumFunction(TimesTerms(v, Mutated(db, batch), j))
           = SumFunction(TimesTerms(v, db, j)) + SumFunction(ChangeTerms(v, batch, j))
<1> DEFINE T == 0 .. Rows(k) - 1
           f == TimesTerms(v, db, j)
           g == PlaceTerms(v, batch, j)
           m == Mutated(db, batch)
<1>1. f \in [T -> Int] /\ IsFiniteSet(T) /\ SumFunction(f) \in Int
  BY TimesTermsInt
<1>2. g \in [T -> Int] /\ SumFunction(g) = SumFunction(ChangeTerms(v, batch, j))
  BY SpreadLaw
<1>3. ASSUME NEW r \in T PROVE v[r] * D(m, r, j) = f[r] + 1 * g[r]
  <2>1. r \in Nat
    OBVIOUS
  <2>2. /\ ChangeAt(batch, RowAt(k, r, j), OffAt(j)) \in Int
        /\ D(m, r, j) = D(db, r, j) + ChangeAt(batch, RowAt(k, r, j), OffAt(j))
    BY <2>1, MutatedD
  <2>3. D(db, r, j) \in Int
    BY <2>1, DLaw
  <2>4. f[r] = v[r] * D(db, r, j) /\ g[r] = v[r] * ChangeAt(batch, RowAt(k, r, j), OffAt(j))
    BY DEF TimesTerms, PlaceTerms
  <2>5. v[r] \in Int
    OBVIOUS
  <2>6. \A a \in Int, b \in Int, c \in Int : a * (b + c) = a * b + 1 * (a * c)
    OBVIOUS
  <2> HIDE DEF f, g, m, T
  <2> QED
    BY <2>2, <2>3, <2>4, <2>5, <2>6
<1>4. TimesTerms(v, m, j) = [r \in T |-> v[r] * D(m, r, j)]
  BY DEF TimesTerms
<1>5. Added(T, f, 1, g) = [r \in T |-> f[r] + 1 * g[r]]
  BY DEF Added
<1> HIDE DEF f, g, m, T
<1>6. TimesTerms(v, m, j) = Added(T, f, 1, g)
  BY <1>3, <1>4, <1>5
<1>7. SumFunction(Added(T, f, 1, g)) = SumFunction(f) + 1 * SumFunction(g)
  <2> DEFINE one == 1
  <2>1. one \in Int
    OBVIOUS
  <2> HIDE DEF one
  <2>2. f \in [T -> Int] /\ IsFiniteSet(T) /\ g \in [T -> Int]
    BY <1>1, <1>2
  <2>3. SumFunction(Added(T, f, one, g)) = SumFunction(f) + one * SumFunction(g)
    BY <2>1, <2>2, SumLinear
  <2> QED
    BY <2>3 DEF one
<1>8. SumFunction(g) \in Int
  BY <1>1, <1>2, SumInt
<1>9. SumFunction(TimesTerms(v, m, j)) = SumFunction(f) + SumFunction(g)
  BY <1>1, <1>6, <1>7, <1>8
<1> QED
  BY <1>2, <1>9 DEF f, m

-----------------------------------------------------------------------------
(* The hint of the database after a batch. *)

HintIndex == 0 .. lwe_dim * Width(k) - 1

\* Column i of A.
KeyColumn(i) == [r \in 0 .. Rows(k) - 1 |-> Keystream[r * lwe_dim + i]]

\* A column of A has a word for each row of the matrix.
LEMMA KeyColumnLaw ==
  ASSUME backend \in Backends, NEW i \in 0 .. lwe_dim - 1
  PROVE  /\ KeyColumn(i) \in [0 .. Rows(k) - 1 -> Int]
         /\ \A db, j : HintTerms(db, i, j) = TimesTerms(KeyColumn(i), db, j)
<1>1. \A r \in 0 .. Rows(k) - 1 : Keystream[r * lwe_dim + i] \in Int
  BY KeyLaw
<1>2. KeyColumn(i) \in [0 .. Rows(k) - 1 -> Int]
  BY <1>1 DEF KeyColumn
<1>3. ASSUME NEW db, NEW j PROVE HintTerms(db, i, j) = TimesTerms(KeyColumn(i), db, j)
  BY DEF HintTerms, TimesTerms, KeyColumn
<1> QED
  BY <1>2, <1>3

\* The row and the column of a place of the hint.
LEMMA HintPlace ==
  ASSUME backend \in Backends, NEW x \in HintIndex
  PROVE  /\ x \div Width(k) \in 0 .. lwe_dim - 1 /\ x % Width(k) \in 0 .. Width(k) - 1
<1>1. lwe_dim \in Nat /\ Width(k) \in Nat \ {0}
  BY Constants, KLaw
<1>2. x \in 0 .. lwe_dim * Width(k) - 1
  BY DEF HintIndex
<1> QED
  BY <1>1, <1>2, Unindex

\* A hint consists of words.
LEMMA HintOfType ==
  ASSUME backend \in Backends, NEW db \in Databases
  PROVE  /\ HintOf(db) \in [HintIndex -> 0 .. q - 1]
         /\ \A x \in HintIndex :
              HintOf(db)[x] = SumFunction(HintTerms(db, x \div Width(k), x % Width(k))) % q
<1>1. HintOf(db) = [x \in HintIndex |-> SumFunction(HintTerms(db, x \div Width(k), x % Width(k))) % q]
  BY HintOfIs DEF HintIndex
<1>2. ASSUME NEW x \in HintIndex
      PROVE  SumFunction(HintTerms(db, x \div Width(k), x % Width(k))) % q \in 0 .. q - 1
  <2>1. SumFunction(HintTerms(db, x \div Width(k), x % Width(k))) \in Int
    BY HintPlace, HintTermsInt
  <2> QED
    BY <2>1, Constants, CongMod
<1> QED
  BY <1>1, <1>2

\* The sum in a place of the hint, and what a batch adds to it.
HintSum(db, x)       == SumFunction(HintTerms(db, x \div Width(k), x % Width(k)))
HintChanges(batch, x) == ChangeTerms(KeyColumn(x \div Width(k)), batch, x % Width(k))

\* A hint is a column of A times the matrix, place by place.
LEMMA HintSumLaw ==
  ASSUME backend \in Backends, NEW db \in Databases, NEW batch \in Seq(RowDeltas), NEW x \in HintIndex
  PROVE  /\ HintSum(db, x) \in Int
         /\ HintChanges(batch, x) \in [DOMAIN batch -> Int]
         /\ SumFunction(HintChanges(batch, x)) \in Int
         /\ HintSum(Mutated(db, batch), x) = HintSum(db, x) + SumFunction(HintChanges(batch, x))
         /\ HintOf(db)[x] = HintSum(db, x) % q
<1> DEFINE i == x \div Width(k)
           j == x % Width(k)
<1>1. i \in 0 .. lwe_dim - 1 /\ j \in 0 .. Width(k) - 1
  BY HintPlace
<1>2. HintOf(db)[x] = HintSum(db, x) % q
  BY HintOfType DEF HintSum
<1>3. /\ HintSum(db, x) = SumFunction(HintTerms(db, i, j))
      /\ HintSum(Mutated(db, batch), x) = SumFunction(HintTerms(Mutated(db, batch), i, j))
      /\ HintChanges(batch, x) = ChangeTerms(KeyColumn(i), batch, j)
  BY DEF HintSum, HintChanges
<1> HIDE DEF i, j
<1>4. /\ KeyColumn(i) \in [0 .. Rows(k) - 1 -> Int]
      /\ HintTerms(db, i, j) = TimesTerms(KeyColumn(i), db, j)
      /\ HintTerms(Mutated(db, batch), i, j) = TimesTerms(KeyColumn(i), Mutated(db, batch), j)
  BY <1>1, KeyColumnLaw
<1>5. SumFunction(TimesTerms(KeyColumn(i), db, j)) \in Int
  BY <1>1, <1>4, TimesTermsInt
<1>6. /\ ChangeTerms(KeyColumn(i), batch, j) \in [DOMAIN batch -> Int]
      /\ SumFunction(ChangeTerms(KeyColumn(i), batch, j)) \in Int
  BY <1>1, <1>4, ChangeTermsInt
<1>7. SumFunction(TimesTerms(KeyColumn(i), Mutated(db, batch), j))
        = SumFunction(TimesTerms(KeyColumn(i), db, j)) + SumFunction(ChangeTerms(KeyColumn(i), batch, j))
  BY <1>1, <1>4, TimesStep
<1> QED
  BY <1>2, <1>3, <1>4, <1>5, <1>6, <1>7

\* Words congruent to the old products with the changes added are the next hint.
LEMMA HintOfMutated ==
  ASSUME backend \in Backends, NEW db \in Databases, NEW batch \in Seq(RowDeltas),
         NEW h \in [HintIndex -> 0 .. q - 1],
         \A x \in HintIndex : Cong(q, h[x], HintSum(db, x) + SumFunction(HintChanges(batch, x)))
  PROVE  h = HintOf(Mutated(db, batch))
<1> DEFINE m == Mutated(db, batch)
<1>1. m \in Databases /\ q \in Nat \ {0}
  BY MutatedLaw, Constants
<1>2. HintOf(m) \in [HintIndex -> 0 .. q - 1]
  BY <1>1, HintOfType
<1>3. ASSUME NEW x \in HintIndex PROVE h[x] = HintOf(m)[x]
  <2>1. /\ HintSum(db, x) \in Int /\ SumFunction(HintChanges(batch, x)) \in Int
        /\ HintSum(m, x) = HintSum(db, x) + SumFunction(HintChanges(batch, x))
    BY HintSumLaw
  <2>2. HintOf(m)[x] = HintSum(m, x) % q
    BY <1>1, HintSumLaw
  <2>3. HintSum(m, x) \in Int /\ h[x] \in 0 .. q - 1 /\ h[x] \in Int
    BY <2>1
  <2>4. Cong(q, h[x], HintSum(m, x))
    BY <2>1
  <2> HIDE DEF m
  <2>5. h[x] % q = HintSum(m, x) % q
    BY <1>1, <2>3, <2>4, CongEqual
  <2>6. h[x] % q = h[x]
    BY <1>1, <2>3
  <2> QED
    BY <2>2, <2>5, <2>6
<1> HIDE DEF m
<1>4. h = HintOf(m)
  BY <1>2, <1>3
<1> QED
  BY <1>4 DEF m

\* Vectors that stand for the changes of the rows of a batch.
Vectors(batch, vectors) ==
  \A i \in DOMAIN batch : \A j \in 0 .. Width(k) - 1 :
    /\ vectors[i][j] \in Int
    /\ Cong(q, vectors[i][j], RowChange(batch[i][2], j - ReshapeOff(batch[i][1], 0, k)))

\* A pass with each of them gives the next hint.
LEMMA PassesLaw ==
  ASSUME backend \in Backends, NEW db \in Databases, NEW batch \in Seq(RowDeltas),
         NEW a, IsA(a), NEW vectors, Vectors(batch, vectors)
  PROVE  Passes(a, HintOf(db), batch, vectors, k) = HintOf(Mutated(db, batch))
<1> DEFINE S == DOMAIN batch
           Term(x, i) == a[ReshapeRow(batch[i][1], k) * lwe_dim + x \div Width(k)] * vectors[i][x % Width(k)]
           f(x) == [i \in S |-> Term(x, i)]
           h == Passes(a, HintOf(db), batch, vectors, k)
<1>1. q \in Nat \ {0} /\ IsFiniteSet(S)
  BY Constants, BatchLaw
<1>2. HintOf(db) \in [HintIndex -> 0 .. q - 1]
  BY HintOfType
<1>3. h = [x \in HintIndex |-> (HintOf(db)[x] + SumFunction(f(x))) % q]
  <2>1. DOMAIN HintOf(db) = HintIndex
    BY <1>2
  <2> QED
    BY <2>1 DEF Passes
<1>4. ASSUME NEW x \in HintIndex
      PROVE  /\ f(x) \in [S -> Int] /\ SumFunction(f(x)) \in Int
             /\ Cong(q, SumFunction(f(x)), SumFunction(HintChanges(batch, x)))
  <2> DEFINE c == x \div Width(k)
             j == x % Width(k)
             g == HintChanges(batch, x)
  <2>1. c \in 0 .. lwe_dim - 1 /\ j \in 0 .. Width(k) - 1
    BY HintPlace
  <2>2. g \in [S -> Int]
    BY HintSumLaw
  <2>3. ASSUME NEW i \in S PROVE Term(x, i) \in Int /\ Cong(q, Term(x, i), g[i])
    <3> DEFINE r == batch[i][1] \div k
               w == RowChange(batch[i][2], j - ReshapeOff(batch[i][1], 0, k))
               y == vectors[i][j]
               K == Keystream[r * lwe_dim + c]
    <3>1. batch[i][1] \in 0 .. n_rows - 1 /\ batch[i][2] \in Seq(Cells)
      BY BatchLaw
    <3>2. r \in 0 .. Rows(k) - 1 /\ j - ReshapeOff(batch[i][1], 0, k) \in Int
      BY <2>1, <3>1, EntryPlace
    <3>3. w \in Int
      BY <3>1, <3>2, RowChangeLaw
    <3>4. K \in Int /\ a[r * lwe_dim + c] = K
      BY <2>1, <3>2, KeyLaw
    <3>5. y \in Int /\ Cong(q, y, w)
      BY <2>1 DEF Vectors
    <3>6. Term(x, i) = K * y
      BY <3>4 DEF ReshapeRow
    <3>7. g[i] = K * w
      <4>1. KeyColumn(c)[r] = K
        BY <3>2 DEF KeyColumn
      <4> QED
        BY <4>1 DEF HintChanges, ChangeTerms
    <3> HIDE DEF r, w, y, K, Term, g
    <3>8. Cong(q, K, K)
      BY <1>1, <3>4, CongRefl
    <3>9. Cong(q, K * y, K * w)
      BY <1>1, <3>3, <3>4, <3>5, <3>8, CongTimes
    <3>10. K * y \in Int
      BY <3>4, <3>5
    <3> QED
      BY <3>6, <3>7, <3>9, <3>10
  <2> DEFINE e == f(x)
  <2>4. \A i \in S : e[i] = Term(x, i)
    OBVIOUS
  <2>5. e \in [S -> Int]
    <3> HIDE DEF Term
    <3> QED
      BY <2>3
  <2> HIDE DEF e, g, S, Term
  <2>6. \A i \in S : Cong(q, e[i], g[i])
    BY <2>3, <2>4
  <2>7. Cong(q, SumFunction(e), SumFunction(g))
    BY <1>1, <2>2, <2>5, <2>6, CongSum
  <2>8. SumFunction(e) \in Int
    BY <1>1, <2>5, SumInt
  <2> QED
    BY <2>5, <2>7, <2>8 DEF e, g
<1>5. ASSUME NEW x \in HintIndex
      PROVE  /\ h[x] \in 0 .. q - 1
             /\ Cong(q, h[x], HintSum(db, x) + SumFunction(HintChanges(batch, x)))
  <2> DEFINE u == HintSum(db, x)
             s == SumFunction(f(x))
             t == SumFunction(HintChanges(batch, x))
             o == HintOf(db)[x]
  <2>1. u \in Int /\ t \in Int /\ o = u % q
    BY HintSumLaw
  <2>2. s \in Int /\ Cong(q, s, t)
    BY <1>4
  <2>3. h[x] = (o + s) % q
    BY <1>3
  <2> HIDE DEF u, s, t, o, h
  <2>4. o \in Int /\ Cong(q, o, u)
    <3>1. u % q \in 0 .. q - 1 /\ Cong(q, u % q, u)
      BY <1>1, <2>1, CongMod
    <3> QED
      BY <2>1, <3>1
  <2>5. Cong(q, o + s, u + t)
    BY <1>1, <2>1, <2>2, <2>4, CongAdd
  <2>6. o + s \in Int /\ u + t \in Int
    BY <2>1, <2>2, <2>4
  <2>7. (o + s) % q \in 0 .. q - 1 /\ Cong(q, (o + s) % q, o + s)
    BY <1>1, <2>6, CongMod
  <2>8. (o + s) % q \in Int
    BY <2>7
  <2>9. Cong(q, (o + s) % q, u + t)
    BY <1>1, <2>5, <2>6, <2>7, <2>8, CongTrans
  <2> QED
    BY <2>3, <2>7, <2>9 DEF u, t
<1>6. h \in [HintIndex -> 0 .. q - 1]
  <2>1. h = [x \in HintIndex |-> h[x]]
    BY <1>3
  <2> HIDE DEF h
  <2> QED
    BY <1>5, <2>1
<1> HIDE DEF h
<1>7. h = HintOf(Mutated(db, batch))
  BY <1>5, <1>6, HintOfMutated
<1> QED
  BY <1>7 DEF h

\* FrodoPIR's row-level patch.
LEMMA RowLevelFrodoLaw ==
  ASSUME backend \in Backends, NEW db \in Databases, NEW batch \in Seq(RowDeltas), NEW a, IsA(a)
  PROVE  PatchRowLevelFrodo(a, HintOf(db), batch, k) = HintOf(Mutated(db, batch))
<1> DEFINE vectors == [i \in DOMAIN batch |-> Densify(Zeros(Width(k)), batch[i], k)]
<1>1. ASSUME NEW i \in DOMAIN batch, NEW j \in 0 .. Width(k) - 1
      PROVE  /\ vectors[i][j] \in Int
             /\ Cong(q, vectors[i][j], RowChange(batch[i][2], j - ReshapeOff(batch[i][1], 0, k)))
  <2> DEFINE w == RowChange(batch[i][2], j - ReshapeOff(batch[i][1], 0, k))
  <2>1. batch[i][1] \in 0 .. n_rows - 1 /\ batch[i][2] \in Seq(Cells)
    BY BatchLaw
  <2>2. j - ReshapeOff(batch[i][1], 0, k) \in Int
    BY <2>1, EntryPlace
  <2>3. w \in Int
    BY <2>1, <2>2, RowChangeLaw
  <2>4. vectors[i][j] = (0 + w) % q
    BY DEF Densify, Zeros
  <2> HIDE DEF w, vectors
  <2>5. vectors[i][j] = w % q
    BY <2>3, <2>4
  <2>6. w % q \in 0 .. q - 1 /\ Cong(q, w % q, w)
    BY <2>3, Constants, CongMod
  <2> QED
    BY <2>5, <2>6 DEF w
<1>2. PatchRowLevelFrodo(a, HintOf(db), batch, k) = Passes(a, HintOf(db), batch, vectors, k)
  BY Zenon DEF PatchRowLevelFrodo
<1> HIDE DEF vectors
<1>3. Vectors(batch, vectors)
  BY <1>1 DEF Vectors
<1> QED
  BY <1>2, <1>3, PassesLaw

-----------------------------------------------------------------------------
(* Folds over the places of a sequence. *)

\* The last number of a prefix.
LEMMA MaxOfPrefix ==
  ASSUME NEW n \in Nat, NEW t \in 1 .. n
  PROVE  /\ 1 .. t \in SUBSET (1 .. n) /\ 1 .. t # {} /\ Max(1 .. t) = t
         /\ (1 .. t) \ {t} = 1 .. (t - 1) /\ t - 1 \in 0 .. n
<1>1. t \in Nat /\ t >= 1 /\ t <= n
  OBVIOUS
<1>2. t \in 1 .. t /\ \A y \in 1 .. t : t >= y
  BY <1>1
<1>3. Max(1 .. t) \in 1 .. t /\ \A y \in 1 .. t : Max(1 .. t) >= y
  BY <1>2 DEF Max
<1>4. Max(1 .. t) = t
  BY <1>1, <1>2, <1>3
<1>5. (1 .. t) \ {t} = 1 .. (t - 1) /\ t - 1 \in 0 .. n /\ 1 .. t \in SUBSET (1 .. n)
  BY <1>1
<1> QED
  BY <1>2, <1>4, <1>5

\* The largest of some numbers is one of them; a fold over a set takes it last.
LEMMA MaxOfNumbers ==
  ASSUME NEW n \in Nat, NEW s \in SUBSET (1 .. n), s # {}
  PROVE  Max(s) \in s
<1> DEFINE S == {m \in 0 .. n : \A u \in SUBSET (1 .. m) : u # {} => \E x \in u : \A y \in u : x >= y}
<1>1. 0 \in S
  <2>1. 1 .. 0 = {} /\ 0 \in 0 .. n
    OBVIOUS
  <2>2. \A u \in SUBSET (1 .. 0) : u = {}
    BY <2>1
  <2> QED
    BY <2>1, <2>2
<1>2. ASSUME NEW m \in 0 .. n - 1, m \in S PROVE m + 1 \in S
  <2>1. m \in Nat /\ m + 1 \in 0 .. n
    OBVIOUS
  <2>2. ASSUME NEW u \in SUBSET (1 .. m + 1), u # {} PROVE \E x \in u : \A y \in u : x >= y
    <3>1. CASE m + 1 \in u
      BY <2>1, <3>1
    <3>2. CASE m + 1 \notin u
      <4>1. u \in SUBSET (1 .. m)
        <5>1. \A y \in u : y \in 1 .. m
          BY <2>1, <3>2
        <5> QED
          BY <5>1
      <4> QED
        BY <1>2, <2>2, <4>1
    <3> QED
      BY <3>1, <3>2
  <2> QED
    BY <2>1, <2>2
<1>3. n \in S
  <2>1. S \in SUBSET (0 .. n)
    OBVIOUS
  <2> HIDE DEF S
  <2>2. \A m \in 0 .. n : m \in S
    BY <1>1, <1>2, <2>1, Climbs
  <2> QED
    BY <2>2
<1>4. \E x \in s : \A y \in s : x >= y
  BY <1>3
<1> QED
  BY <1>4 DEF Max

\* A fold from the left, by the places folded.
Steps(n, base, op, g) ==
  \A s \in SUBSET (1 .. n) : g[s] = IF s = {} THEN base ELSE op[Max(s)][g[s \ {Max(s)}]]

\* There is a function that folds a sequence, by prefixes.
LEMMA FoldLeftExists ==
  ASSUME NEW n \in Nat, NEW E, NEW base \in E, NEW op \in [1 .. n -> [E -> E]]
  PROVE  \E g \in [SUBSET (1 .. n) -> E] : Steps(n, base, op, g)
<1> DEFINE T == 1 .. n
           pick == [s \in SUBSET T |-> Max(s)]
<1>1. IsFiniteSet(T)
  BY FS_Interval
<1>2. \A s \in SUBSET T : s # {} => pick[s] \in s
  BY MaxOfNumbers
<1>3. \A s \in SUBSET T : pick[s] = Max(s)
  OBVIOUS
<1> HIDE DEF pick, T
<1>4. \E g \in [SUBSET T -> E] : FoldsBy(pick, T, base, op, g)
  <2>1. op \in [T -> [E -> E]]
    BY DEF T
  <2> QED
    BY <1>1, <1>2, <2>1, FoldByExists
<1>5. PICK g \in [SUBSET T -> E] : FoldsBy(pick, T, base, op, g)
  BY <1>4
<1>6. g = [s \in SUBSET T |-> IF s = {} THEN base ELSE op[pick[s]][g[s \ {pick[s]}]]]
  BY <1>5, Zenon DEF FoldsBy
<1>7. \A s \in SUBSET T : g[s] = IF s = {} THEN base ELSE op[Max(s)][g[s \ {Max(s)}]]
  BY <1>3, <1>6
<1>8. Steps(n, base, op, g)
  BY <1>7, Zenon DEF Steps, T
<1> QED
  BY <1>5, <1>8 DEF T

-----------------------------------------------------------------------------
(* SimplePIR's row-level patch. *)

EndsRun(batch, i) == \/ i = Len(batch)
                     \/ ReshapeRow(batch[i + 1][1], k) # ReshapeRow(batch[i][1], k)

RowStep(a, batch, acc, i) ==
  LET dense == Densify(acc.dense, batch[i], k)
  IN  IF EndsRun(batch, i)
      THEN [hint  |-> Passes(a, acc.hint, <<batch[i]>>, <<dense>>, k),
            dense |-> Cleared(dense, SubSeq(batch, acc.start, i), k),
            start |-> i + 1]
      ELSE [acc EXCEPT !.dense = dense]

Vector == [0 .. Width(k) - 1 -> Int]
Hints  == [HintIndex -> 0 .. q - 1]
Passing(n) == [hint : Hints, dense : Vector, start : 1 .. n + 1]

\* Densifying adds the changes of a row to the buffer.
LEMMA DensifyLaw ==
  ASSUME backend \in Backends, NEW dense \in Vector, NEW batch \in Seq(RowDeltas), NEW i \in DOMAIN batch
  PROVE  /\ Densify(dense, batch[i], k) \in Vector
         /\ \A j \in 0 .. Width(k) - 1 :
              /\ RowChange(batch[i][2], j - ReshapeOff(batch[i][1], 0, k)) \in Int
              /\ Cong(q, Densify(dense, batch[i], k)[j],
                      dense[j] + RowChange(batch[i][2], j - ReshapeOff(batch[i][1], 0, k)))
<1> DEFINE w(j) == RowChange(batch[i][2], j - ReshapeOff(batch[i][1], 0, k))
           e == Densify(dense, batch[i], k)
<1>1. ASSUME NEW j \in 0 .. Width(k) - 1
      PROVE  /\ w(j) \in Int /\ (dense[j] + w(j)) % q \in Int
             /\ Cong(q, (dense[j] + w(j)) % q, dense[j] + w(j))
  <2>1. batch[i][1] \in 0 .. n_rows - 1 /\ batch[i][2] \in Seq(Cells)
    BY BatchLaw
  <2>2. j - ReshapeOff(batch[i][1], 0, k) \in Int
    BY <2>1, EntryPlace
  <2>3. w(j) \in Int
    BY <2>1, <2>2, RowChangeLaw
  <2>4. dense[j] \in Int
    BY DEF Vector
  <2> HIDE DEF w
  <2>5. dense[j] + w(j) \in Int
    BY <2>3, <2>4
  <2>6. (dense[j] + w(j)) % q \in 0 .. q - 1 /\ Cong(q, (dense[j] + w(j)) % q, dense[j] + w(j))
    BY <2>5, Constants, CongMod
  <2> QED
    BY <2>3, <2>6
<1>2. e = [j \in 0 .. Width(k) - 1 |-> (dense[j] + w(j)) % q]
  BY DEF Densify, Vector
<1> HIDE DEF e, w
<1>3. e \in Vector
  BY <1>1, <1>2 DEF Vector
<1>4. ASSUME NEW j \in 0 .. Width(k) - 1 PROVE w(j) \in Int /\ Cong(q, e[j], dense[j] + w(j))
  BY <1>1, <1>2
<1> QED
  BY <1>3, <1>4 DEF e, w

\* A pass for one row.
LEMMA PassLaw ==
  ASSUME backend \in Backends, NEW h \in Hints, NEW a, IsA(a), NEW row \in 0 .. n_rows - 1,
         NEW cells, NEW dense \in Vector
  PROVE  /\ Passes(a, h, << <<row, cells>> >>, <<dense>>, k) \in Hints
         /\ \A x \in HintIndex :
              /\ KeyColumn(x \div Width(k))[row \div k] \in Int
              /\ Cong(q, Passes(a, h, << <<row, cells>> >>, <<dense>>, k)[x],
                      h[x] + KeyColumn(x \div Width(k))[row \div k] * dense[x % Width(k)])
<1> DEFINE e == Passes(a, h, << <<row, cells>> >>, <<dense>>, k)
           K(x) == KeyColumn(x \div Width(k))[row \div k]
           f(x) == [i \in {1} |-> K(x) * dense[x % Width(k)]]
<1>1. q \in Nat \ {0} /\ DOMAIN h = HintIndex
  BY Constants DEF Hints
<1>2. ASSUME NEW x \in HintIndex
      PROVE  /\ K(x) \in Int /\ K(x) * dense[x % Width(k)] \in Int
             /\ a[ReshapeRow(row, k) * lwe_dim + x \div Width(k)] = K(x)
             /\ SumFunction(f(x)) = K(x) * dense[x % Width(k)]
  <2>1. x \div Width(k) \in 0 .. lwe_dim - 1 /\ x % Width(k) \in 0 .. Width(k) - 1
    BY HintPlace
  <2>2. row \div k \in 0 .. Rows(k) - 1
    BY <2>1, EntryPlace
  <2>3. /\ Keystream[(row \div k) * lwe_dim + x \div Width(k)] \in Int
        /\ a[(row \div k) * lwe_dim + x \div Width(k)] = Keystream[(row \div k) * lwe_dim + x \div Width(k)]
    BY <2>1, <2>2, KeyLaw
  <2>4. K(x) = Keystream[(row \div k) * lwe_dim + x \div Width(k)]
    BY <2>2 DEF KeyColumn
  <2>5. dense[x % Width(k)] \in Int
    BY <2>1 DEF Vector
  <2> DEFINE c == K(x) * dense[x % Width(k)]
             g == f(x)
  <2>6. c \in Int
    BY <2>3, <2>4, <2>5
  <2>7. g = [i \in {1} |-> c]
    OBVIOUS
  <2> HIDE DEF c, g
  <2>8. g \in [{1} -> Int] /\ g[1] = c /\ IsFiniteSet({1}) /\ 1 \in {1} /\ \A y \in {1} : y # 1 => g[y] = 0
    BY <2>6, <2>7, FS_Singleton
  <2>9. SumFunction(g) = c
    <3> DEFINE S == {1}
               o == 1
    <3>1. g \in [S -> Int] /\ IsFiniteSet(S) /\ o \in S /\ g[o] = c /\ \A y \in S : y # o => g[y] = 0
      BY <2>8
    <3> HIDE DEF S, o
    <3> QED
      BY <3>1, SumOne
  <2> QED
    BY <2>3, <2>4, <2>6, <2>9 DEF ReshapeRow, c, g
<1>3. e = [x \in HintIndex |-> (h[x] + SumFunction(f(x))) % q]
  <2>1. e = [x \in DOMAIN h |->
               (h[x] + SumFunction([i \in DOMAIN << <<row, cells>> >> |->
                          a[ReshapeRow(<< <<row, cells>> >>[i][1], k) * lwe_dim + x \div Width(k)]
                            * <<dense>>[i][x % Width(k)]])) % q]
    BY Zenon DEF Passes
  <2>2. ASSUME NEW x \in HintIndex
        PROVE  [i \in DOMAIN << <<row, cells>> >> |->
                          a[ReshapeRow(<< <<row, cells>> >>[i][1], k) * lwe_dim + x \div Width(k)]
                            * <<dense>>[i][x % Width(k)]] = f(x)
    <3> HIDE DEF K
    <3>1. DOMAIN << <<row, cells>> >> = {1}
      OBVIOUS
    <3>2. << <<row, cells>> >>[1][1] = row /\ <<dense>>[1] = dense
      OBVIOUS
    <3>3. a[ReshapeRow(row, k) * lwe_dim + x \div Width(k)] = K(x)
      BY <1>2
    <3> QED
      BY <3>1, <3>2, <3>3
  <2> HIDE DEF e, f
  <2> QED
    BY <1>1, <2>1, <2>2
<1>4. ASSUME NEW x \in HintIndex
      PROVE  /\ (h[x] + SumFunction(f(x))) % q \in 0 .. q - 1
             /\ Cong(q, (h[x] + SumFunction(f(x))) % q, h[x] + K(x) * dense[x % Width(k)])
  <2> DEFINE c == K(x) * dense[x % Width(k)]
  <2>1. c \in Int /\ SumFunction(f(x)) = c
    BY <1>2
  <2>2. h[x] \in Int
    BY <1>1 DEF Hints
  <2> HIDE DEF c, f
  <2>3. h[x] + c \in Int
    BY <2>1, <2>2
  <2>4. (h[x] + c) % q \in 0 .. q - 1 /\ Cong(q, (h[x] + c) % q, h[x] + c)
    BY <1>1, <2>3, CongMod
  <2> QED
    BY <2>1, <2>4 DEF c
<1> HIDE DEF e, f, K
<1>5. e \in Hints
  BY <1>3, <1>4 DEF Hints
<1>6. ASSUME NEW x \in HintIndex PROVE K(x) \in Int /\ Cong(q, e[x], h[x] + K(x) * dense[x % Width(k)])
  BY <1>2, <1>3, <1>4
<1> QED
  BY <1>5, <1>6 DEF e, K

Wrote(entry, col) == \E x \in DOMAIN entry[2] : ReshapeOff(entry[1], entry[2][x][1], k) = col

\* What was not written did not change.
LEMMA NotWritten ==
  ASSUME backend \in Backends, NEW batch \in Seq(RowDeltas), NEW i \in DOMAIN batch,
         NEW j \in 0 .. Width(k) - 1, ~Wrote(batch[i], j)
  PROVE  RowChange(batch[i][2], j - ReshapeOff(batch[i][1], 0, k)) = 0
<1> DEFINE row == batch[i][1]
           cells == batch[i][2]
           off == j - ReshapeOff(row, 0, k)
           S == {x \in DOMAIN cells : cells[x][1] = off}
           f == [x \in S |-> cells[x][2]]
<1>1. row \in 0 .. n_rows - 1 /\ cells \in Seq(Cells)
  BY BatchLaw
<1>2. off \in Int /\ ReshapeOff(row, 0, k) \in Int
  BY <1>1, EntryPlace
<1>3. ASSUME NEW x \in S PROVE FALSE
  <2>1. x \in DOMAIN cells /\ cells[x][1] = off
    OBVIOUS
  <2>2. row % k \in Nat /\ row_width \in Nat
    <3>1. row \in Nat /\ k \in Nat \ {0} /\ row_width \in Nat \ {0} /\ n_rows \in Nat
      BY <1>1, KLaw, Constants
    <3> HIDE DEF row
    <3> QED
      BY <3>1, DivMod
  <2>3. ReshapeOff(row, off, k) = j
    <3> DEFINE p == (row % k) * row_width
    <3>1. p \in Nat
      BY <2>2
    <3> HIDE DEF p
    <3>2. ReshapeOff(row, 0, k) = p + 0 /\ ReshapeOff(row, off, k) = p + off
      BY DEF ReshapeOff, p
    <3> QED
      BY <3>1, <3>2
  <2> QED
    BY <2>1, <2>3 DEF Wrote
<1>4. S = {}
  BY <1>3
<1>5. RowChange(cells, off) = SumFunction(f)
  BY DEF RowChange
<1>6. f = [x \in {} |-> 0]
  BY <1>4
<1>7. IsFiniteSet({})
  BY FS_EmptySet
<1> HIDE DEF f
<1>8. SumFunction(f) = 0
  BY <1>6, <1>7, SumZero
<1> QED
  BY <1>5, <1>8

\* The hint as it will be once the pass under way is made.
Coming(acc, batch, t, x) ==
  acc.hint[x] + (IF t < Len(batch)
                 THEN KeyColumn(x \div Width(k))[batch[t + 1][1] \div k] * acc.dense[x % Width(k)]
                 ELSE 0)

\* After t rows of a batch.
RowInv(db, batch, acc, t) ==
  /\ acc.start \in 1 .. t + 1
  /\ \A j \in 0 .. Width(k) - 1 :
       Cong(q, acc.dense[j], 0) \/ \E i \in acc.start .. t : Wrote(batch[i], j)
  /\ \A x \in HintIndex :
       Cong(q, Coming(acc, batch, t, x),
            HintSum(db, x) + SumFunction(On(HintChanges(batch, x), 1 .. t)))

\* A row starts with a clean buffer.
LEMMA RowStart ==
  ASSUME backend \in Backends, NEW db \in Databases, NEW batch \in Seq(RowDeltas), NEW acc,
         acc = [hint |-> HintOf(db), dense |-> Zeros(Width(k)), start |-> 1]
  PROVE  RowInv(db, batch, acc, 0)
<1>1. q \in Nat \ {0} /\ acc.hint = HintOf(db) /\ acc.dense = Zeros(Width(k)) /\ acc.start = 1
  BY Constants
<1>2. \A j \in 0 .. Width(k) - 1 : acc.dense[j] = 0
  BY <1>1 DEF Zeros
<1>3. Cong(q, 0, 0)
  BY <1>1, CongRefl
<1>4. ASSUME NEW x \in HintIndex
      PROVE  Cong(q, Coming(acc, batch, 0, x),
                  HintSum(db, x) + SumFunction(On(HintChanges(batch, x), 1 .. 0)))
  <2> DEFINE u == HintSum(db, x)
             f == HintChanges(batch, x)
             o == HintOf(db)[x]
  <2>1. x \div Width(k) \in 0 .. lwe_dim - 1 /\ x % Width(k) \in 0 .. Width(k) - 1
    BY HintPlace
  <2>2. u \in Int /\ f \in [DOMAIN batch -> Int] /\ o = u % q
    BY HintSumLaw
  <2>3. IsFiniteSet(DOMAIN batch) /\ Len(batch) \in Nat /\ DOMAIN batch = 1 .. Len(batch)
    BY BatchLaw
  <2>4. SumFunction(On(f, 1 .. 0)) = 0
    <3>1. 1 .. 0 = {}
      OBVIOUS
    <3> HIDE DEF f
    <3>2. SumFunction(On(f, {})) = 0
      BY <2>2, <2>3, PartLaw
    <3> QED
      BY <3>1, <3>2
  <2>5. Coming(acc, batch, 0, x) = o
    <3>1. o \in 0 .. q - 1
      BY HintOfType
    <3>2. CASE 0 < Len(batch)
      <4>1. batch[1][1] \in 0 .. n_rows - 1
        BY <2>3, <3>2, BatchLaw
      <4>2. batch[1][1] \div k \in 0 .. Rows(k) - 1
        BY <2>1, <4>1, EntryPlace
      <4>3. KeyColumn(x \div Width(k)) \in [0 .. Rows(k) - 1 -> Int]
        BY <2>1, KeyColumnLaw
      <4>4. KeyColumn(x \div Width(k))[batch[1][1] \div k] \in Int
        BY <4>2, <4>3
      <4>5. KeyColumn(x \div Width(k))[batch[1][1] \div k] * 0 = 0
        BY <4>4
      <4>6. Coming(acc, batch, 0, x) = o + KeyColumn(x \div Width(k))[batch[1][1] \div k] * 0
        BY <1>1, <1>2, <2>1, <3>2 DEF Coming
      <4> HIDE DEF o
      <4> QED
        BY <3>1, <4>5, <4>6
    <3>3. CASE ~(0 < Len(batch))
      <4>1. Coming(acc, batch, 0, x) = o + 0
        BY <1>1, <3>3 DEF Coming
      <4> HIDE DEF o
      <4> QED
        BY <3>1, <4>1
    <3> QED
      BY <3>2, <3>3
  <2> HIDE DEF u, f, o
  <2>6. u % q \in 0 .. q - 1 /\ Cong(q, u % q, u)
    BY <1>1, <2>2, CongMod
  <2>7. u + SumFunction(On(f, 1 .. 0)) = u
    BY <2>2, <2>4
  <2> QED
    BY <2>2, <2>5, <2>6, <2>7 DEF u, f
<1> QED
  BY <1>1, <1>2, <1>3, <1>4 DEF RowInv

\* A sum of t terms and the next one.
LEMMA SumPrefix ==
  ASSUME NEW n \in Nat, NEW f \in [1 .. n -> Int], NEW t \in 1 .. n
  PROVE  /\ SumFunction(On(f, 1 .. (t - 1))) \in Int
         /\ SumFunction(On(f, 1 .. t)) = f[t] + SumFunction(On(f, 1 .. (t - 1)))
<1>1. IsFiniteSet(1 .. n)
  BY FS_Interval
<1>2. 1 .. t \in SUBSET (1 .. n) /\ t \in 1 .. t /\ (1 .. t) \ {t} = 1 .. (t - 1)
      /\ 1 .. (t - 1) \in SUBSET (1 .. n)
  <2>1. t \in 1 .. t
    OBVIOUS
  <2>2. 1 .. (t - 1) \in SUBSET (1 .. n)
    OBVIOUS
  <2> QED
    BY <2>1, <2>2, MaxOfPrefix
<1> DEFINE T == 1 .. n
           A == 1 .. t
           B == 1 .. (t - 1)
<1>3. IsFiniteSet(T) /\ f \in [T -> Int] /\ A \in SUBSET T /\ t \in A /\ A \ {t} = B /\ B \in SUBSET T
  BY <1>1, <1>2
<1> HIDE DEF T, A, B
<1>4. /\ \A s \in SUBSET T : SumFunction(On(f, s)) \in Int
      /\ \A s \in SUBSET T : \A x \in s : SumFunction(On(f, s)) = f[x] + SumFunction(On(f, s \ {x}))
  BY <1>3, PartLaw, ZenonT(30)
<1>5. SumFunction(On(f, A)) = f[t] + SumFunction(On(f, A \ {t}))
  BY <1>3, <1>4
<1> QED
  BY <1>3, <1>4, <1>5 DEF A, B

\* An element of a part of a sequence is in the part.
LEMMA RunOf ==
  ASSUME NEW S, NEW s \in Seq(S), NEW m \in 1 .. Len(s), NEW n \in m .. Len(s), NEW i \in m .. n
  PROVE  \E x \in DOMAIN SubSeq(s, m, n) : SubSeq(s, m, n)[x] = s[i]
<1> DEFINE x == i - m + 1
           l == n - m + 1
<1>1. m \in Nat /\ n \in Nat /\ i \in Nat /\ m >= 1 /\ m <= i /\ i <= n
  OBVIOUS
<1>2. x \in 1 .. l /\ m + x - 1 = i
  BY <1>1
<1>3. SubSeq(s, m, n) = [y \in 1 .. (1 + n - m) |-> s[m + y - 1]]
  OBVIOUS
<1>4. 1 + n - m = l
  BY <1>1
<1> HIDE DEF x, l
<1>5. x \in DOMAIN SubSeq(s, m, n) /\ SubSeq(s, m, n)[x] = s[m + x - 1]
  BY <1>2, <1>3, <1>4
<1> QED
  BY <1>2, <1>5

\* Each row of the batch adds its changes to the hint and leaves the buffer clean.
LEMMA RowStepInv ==
  ASSUME backend \in Backends, NEW db \in Databases, NEW batch \in Seq(RowDeltas), NEW a, IsA(a),
         NEW t \in 1 .. Len(batch), NEW acc \in Passing(Len(batch)), RowInv(db, batch, acc, t - 1)
  PROVE  /\ RowStep(a, batch, acc, t) \in Passing(Len(batch))
         /\ RowInv(db, batch, RowStep(a, batch, acc, t), t)
<1> DEFINE n == Len(batch)
           row == batch[t][1]
           cells == batch[t][2]
           dense == Densify(acc.dense, batch[t], k)
           w(j) == RowChange(cells, j - ReshapeOff(row, 0, k))
           K(x) == KeyColumn(x \div Width(k))[row \div k]
           R(x) == HintSum(db, x) + SumFunction(On(HintChanges(batch, x), 1 .. t))
           new == RowStep(a, batch, acc, t)
<1>1. /\ n \in Nat /\ DOMAIN batch = 1 .. n /\ t \in DOMAIN batch /\ q \in Nat \ {0}
      /\ row \in 0 .. n_rows - 1 /\ cells \in Seq(Cells) /\ t \in Nat /\ t >= 1 /\ t <= n
  BY BatchLaw, Constants
<1>2. /\ acc.hint \in Hints /\ acc.dense \in Vector /\ acc.start \in 1 .. n + 1
      /\ acc = [hint |-> acc.hint, dense |-> acc.dense, start |-> acc.start]
  BY DEF Passing
<1>3. /\ dense \in Vector
      /\ \A j \in 0 .. Width(k) - 1 : w(j) \in Int /\ Cong(q, dense[j], acc.dense[j] + w(j))
  BY <1>1, <1>2, DensifyLaw
<1>4. batch[t] = <<row, cells>>
  <2>1. batch[t] \in RowDeltas
    BY <1>1
  <2> QED
    BY <2>1 DEF RowDeltas
<1>5. acc.start \in 1 .. t
  BY <1>1 DEF RowInv
<1>6. ASSUME NEW x \in HintIndex
      PROVE  /\ K(x) \in Int /\ acc.hint[x] \in Int /\ dense[x % Width(k)] \in Int /\ R(x) \in Int
             /\ Cong(q, acc.hint[x] + K(x) * dense[x % Width(k)], R(x))
  <2> DEFINE j == x % Width(k)
             i == x \div Width(k)
             f == HintChanges(batch, x)
             u == HintSum(db, x)
             s == SumFunction(On(f, 1 .. (t - 1)))
             h == acc.hint[x]
             d == acc.dense[j]
             e == dense[j]
             c == K(x)
             wj == w(j)
  <2>1. i \in 0 .. lwe_dim - 1 /\ j \in 0 .. Width(k) - 1
    BY HintPlace
  <2>2. row \div k \in 0 .. Rows(k) - 1
    BY <1>1, <2>1, EntryPlace
  <2>3. c \in Int
    <3>1. KeyColumn(i) \in [0 .. Rows(k) - 1 -> Int]
      BY <2>1, KeyColumnLaw
    <3> QED
      BY <2>2, <3>1
  <2>4. u \in Int /\ f \in [1 .. n -> Int]
    BY <1>1, HintSumLaw
  <2>5. f[t] = c * wj
    BY <1>1 DEF HintChanges, ChangeTerms
  <2>6. s \in Int /\ SumFunction(On(f, 1 .. t)) = f[t] + s
    <3> HIDE DEF f
    <3> QED
      BY <1>1, <2>4, SumPrefix
  <2>7. Cong(q, h + c * d, u + s)
    <3>1. t - 1 < Len(batch) /\ (t - 1) + 1 = t
      BY <1>1
    <3>2. Coming(acc, batch, t - 1, x) = h + c * d
      BY <3>1 DEF Coming
    <3>3. Cong(q, Coming(acc, batch, t - 1, x), u + s)
      BY DEF RowInv
    <3> QED
      BY <3>2, <3>3
  <2>8. h \in Int /\ d \in Int /\ e \in Int /\ wj \in Int /\ Cong(q, e, d + wj)
    <3>1. h \in Int
      BY <1>2 DEF Hints
    <3>2. d \in Int /\ e \in Int
      BY <1>2, <1>3, <2>1 DEF Vector
    <3> QED
      BY <1>3, <2>1, <3>1, <3>2
  <2>9. R(x) = u + (c * wj + s)
    BY <2>5, <2>6
  <2> HIDE DEF u, s, h, d, e, c, wj, R
  <2>10. Cong(q, c * e, c * (d + wj))
    <3>1. Cong(q, c, c) /\ d + wj \in Int
      BY <1>1, <2>3, <2>8, CongRefl
    <3> QED
      BY <1>1, <2>3, <2>8, <3>1, CongTimes
  <2>11. /\ c * e \in Int /\ c * (d + wj) \in Int /\ c * d \in Int /\ c * wj \in Int
         /\ c * (d + wj) = c * d + c * wj
    BY <2>3, <2>8
  <2> DEFINE ce == c * e
             cdw == c * (d + wj)
             cd == c * d
             cw == c * wj
  <2> HIDE DEF ce, cdw, cd, cw
  <2>12. Cong(q, h + ce, h + cdw)
    <3>1. Cong(q, h, h)
      BY <1>1, <2>8, CongRefl
    <3> QED
      BY <1>1, <2>8, <2>10, <2>11, <3>1, CongAdd DEF ce, cdw
  <2>13. Cong(q, (h + cd) + cw, (u + s) + cw)
    <3>1. Cong(q, cw, cw) /\ h + cd \in Int /\ u + s \in Int /\ cw \in Int
      BY <1>1, <2>4, <2>6, <2>8, <2>11, CongRefl DEF cw, cd
    <3>2. Cong(q, h + cd, u + s)
      BY <2>7 DEF cd
    <3> QED
      BY <1>1, <3>1, <3>2, CongAdd
  <2>14. h + cdw = (h + cd) + cw /\ (u + s) + cw = u + (cw + s)
    BY <2>4, <2>6, <2>8, <2>11 DEF cdw, cd, cw
  <2>15. h + ce \in Int /\ (h + cd) + cw \in Int /\ (u + s) + cw \in Int
    BY <2>4, <2>6, <2>8, <2>11, SMTT(30) DEF ce, cd, cw
  <2>16. Cong(q, h + ce, u + (cw + s))
    BY <1>1, <2>12, <2>13, <2>14, <2>15, CongTrans
  <2>17. R(x) \in Int
    BY <2>4, <2>6, <2>9, <2>11
  <2> QED
    BY <2>3, <2>8, <2>9, <2>16, <2>17 DEF h, e, c, ce, cw
<1>7. CASE EndsRun(batch, t)
  <2> DEFINE hint2 == Passes(a, acc.hint, <<batch[t]>>, <<dense>>, k)
             dense2 == Cleared(dense, SubSeq(batch, acc.start, t), k)
  <2>1. new = [hint |-> hint2, dense |-> dense2, start |-> t + 1]
    BY <1>7 DEF RowStep
  <2>2. /\ hint2 \in Hints
        /\ \A x \in HintIndex : Cong(q, hint2[x], acc.hint[x] + K(x) * dense[x % Width(k)])
    BY <1>1, <1>2, <1>3, <1>4, PassLaw
  <2>3. ASSUME NEW j \in 0 .. Width(k) - 1 PROVE dense2[j] \in Int /\ Cong(q, dense2[j], 0)
    <3> DEFINE run == SubSeq(batch, acc.start, t)
               Hit == \E i \in DOMAIN run : Wrote(run[i], j)
    <3>1. dense2[j] = IF Hit THEN 0 ELSE dense[j]
      BY <1>3 DEF Cleared, Wrote, Vector
    <3>2. dense[j] \in Int
      BY <1>3 DEF Vector
    <3>3. Cong(q, 0, 0)
      BY <1>1, CongRefl
    <3>4. CASE ~Hit
      <4>1. ASSUME NEW i \in acc.start .. t PROVE ~Wrote(batch[i], j)
        <5> DEFINE u == acc.start
        <5>1. u \in 1 .. Len(batch) /\ t \in u .. Len(batch) /\ i \in u .. t
          BY <1>1, <1>5
        <5> HIDE DEF u
        <5>2. \E x \in DOMAIN SubSeq(batch, u, t) : SubSeq(batch, u, t)[x] = batch[i]
          BY <5>1, RunOf
        <5> QED
          BY <3>4, <5>2 DEF u
      <4>2. Cong(q, acc.dense[j], 0)
        <5>1. \A i \in acc.start .. t - 1 : i \in acc.start .. t
          BY <1>1, <1>5
        <5> QED
          BY <4>1, <5>1 DEF RowInv
      <4>3. w(j) = 0
        <5>1. t \in acc.start .. t
          BY <1>1, <1>5
        <5> QED
          BY <1>1, <4>1, <5>1, NotWritten
      <4>4. acc.dense[j] \in Int
        BY <1>2 DEF Vector
      <4>5. Cong(q, dense[j], acc.dense[j])
        <5>1. Cong(q, dense[j], acc.dense[j] + w(j))
          BY <1>3
        <5>2. acc.dense[j] + w(j) = acc.dense[j]
          BY <4>3, <4>4
        <5> HIDE DEF dense, w
        <5> QED
          BY <5>1, <5>2
      <4>6. Cong(q, dense[j], 0)
        <5> HIDE DEF dense
        <5> QED
          BY <1>1, <3>2, <4>2, <4>4, <4>5, CongTrans
      <4> HIDE DEF dense, dense2, Hit
      <4> QED
        BY <3>1, <3>2, <3>4, <4>6
    <3>5. CASE Hit
      <4> HIDE DEF dense, dense2, Hit
      <4> QED
        BY <3>1, <3>3, <3>5
    <3> QED
      BY <3>4, <3>5
  <2>4. dense2 \in Vector
    <3>1. DOMAIN dense2 = 0 .. Width(k) - 1 /\ dense2 = [j \in DOMAIN dense2 |-> dense2[j]]
      BY <1>3 DEF Cleared, Vector
    <3> HIDE DEF dense2
    <3> QED
      BY <2>3, <3>1 DEF Vector
  <2>5. /\ new.hint = hint2 /\ new.dense = dense2 /\ new.start = t + 1
    <3> HIDE DEF new, hint2, dense2
    <3> QED
      BY <2>1
  <2>6. new \in Passing(n)
    <3>1. t + 1 \in 1 .. n + 1
      BY <1>1
    <3> HIDE DEF new, hint2, dense2
    <3> QED
      BY <2>1, <2>2, <2>4, <3>1 DEF Passing
  <2> HIDE DEF new, hint2, dense2
  <2>7. ASSUME NEW x \in HintIndex PROVE Cong(q, Coming(new, batch, t, x), R(x))
    <3> DEFINE j == x % Width(k)
               s == hint2[x]
               p == acc.hint[x] + K(x) * dense[j]
               c == KeyColumn(x \div Width(k))[batch[t + 1][1] \div k]
               z == IF t < n THEN c * dense2[j] ELSE 0
    <3>1. x \div Width(k) \in 0 .. lwe_dim - 1 /\ j \in 0 .. Width(k) - 1
      BY HintPlace
    <3>2. Coming(new, batch, t, x) = s + z
      BY <2>5 DEF Coming
    <3>3. s \in Int
      BY <2>2 DEF Hints
    <3>4. z \in Int /\ Cong(q, z, 0)
      <4>1. CASE t < n
        <5>1. t + 1 \in DOMAIN batch
          BY <1>1, <4>1
        <5>2. batch[t + 1][1] \in 0 .. n_rows - 1
          BY <5>1, BatchLaw
        <5>3. batch[t + 1][1] \div k \in 0 .. Rows(k) - 1
          BY <3>1, <5>2, EntryPlace
        <5>4. KeyColumn(x \div Width(k)) \in [0 .. Rows(k) - 1 -> Int]
          BY <3>1, KeyColumnLaw
        <5>5. c \in Int
          BY <5>3, <5>4
        <5>6. dense2[j] \in Int /\ Cong(q, dense2[j], 0)
          BY <2>3, <3>1
        <5> DEFINE dj == dense2[j]
                   zero == 0
        <5>7. c * dj \in Int /\ c * zero = 0 /\ zero \in Int
          BY <5>5, <5>6
        <5>8. dj \in Int /\ Cong(q, dj, zero)
          BY <5>6
        <5> HIDE DEF c, dj, zero
        <5>9. Cong(q, c, c)
          BY <1>1, <5>5, CongRefl
        <5>10. Cong(q, c * dj, c * zero)
          BY <1>1, <5>5, <5>7, <5>8, <5>9, CongTimes
        <5>11. z = c * dj
          BY <4>1 DEF dj
        <5> HIDE DEF z
        <5> QED
          BY <5>7, <5>10, <5>11
      <4>2. CASE ~(t < n)
        <5>1. Cong(q, 0, 0)
          BY <1>1, CongRefl
        <5> QED
          BY <4>2, <5>1
      <4> QED
        BY <4>1, <4>2
    <3>5. p \in Int /\ Cong(q, s, p) /\ Cong(q, p, R(x)) /\ R(x) \in Int
      <4>1. K(x) \in Int /\ acc.hint[x] \in Int /\ dense[j] \in Int /\ R(x) \in Int
            /\ Cong(q, p, R(x))
        BY <1>6
      <4>2. Cong(q, s, p)
        BY <2>2
      <4>3. p \in Int
        <5> DEFINE c1 == K(x)
                   d1 == dense[j]
        <5>1. c1 \in Int /\ d1 \in Int
          BY <4>1
        <5> HIDE DEF c1, d1
        <5>2. c1 * d1 \in Int
          BY <5>1
        <5> QED
          BY <4>1, <5>2 DEF c1, d1
      <4> QED
        BY <4>1, <4>2, <4>3
    <3> DEFINE Rx == R(x)
               zero == 0
    <3>6. zero \in Int /\ Cong(q, z, zero) /\ Rx + zero = Rx /\ Rx \in Int
      BY <3>4, <3>5
    <3> HIDE DEF s, p, z, Rx, zero
    <3>7. Cong(q, s, Rx)
      BY <1>1, <3>3, <3>5, CongTrans DEF Rx
    <3>8. Cong(q, s + z, Rx + zero)
      BY <1>1, <3>3, <3>4, <3>6, <3>7, CongAdd
    <3> QED
      BY <3>2, <3>6, <3>8 DEF Rx
  <2>8. RowInv(db, batch, new, t)
    <3>1. new.start \in 1 .. t + 1
      BY <1>1, <2>5
    <3>2. \A j \in 0 .. Width(k) - 1 : Cong(q, new.dense[j], 0)
      BY <2>3, <2>5
    <3> QED
      BY <2>7, <3>1, <3>2 DEF RowInv
  <2> QED
    BY <2>6, <2>8 DEF new
<1>8. CASE ~EndsRun(batch, t)
  <2>1. new = [acc EXCEPT !.dense = dense]
    BY <1>8 DEF RowStep
  <2>2. t < n /\ batch[t + 1][1] \div k = row \div k
    BY <1>1, <1>8 DEF EndsRun, ReshapeRow
  <2>3. new = [hint |-> acc.hint, dense |-> dense, start |-> acc.start]
    <3> HIDE DEF new, dense
    <3> QED
      BY <1>2, <2>1
  <2>4. new.hint = acc.hint /\ new.dense = dense /\ new.start = acc.start
    <3> HIDE DEF new, dense
    <3> QED
      BY <2>3
  <2>5. new \in Passing(n)
    <3> HIDE DEF new, dense
    <3> QED
      BY <1>2, <1>3, <2>3 DEF Passing
  <2> HIDE DEF new
  <2>6. ASSUME NEW x \in HintIndex PROVE Cong(q, Coming(new, batch, t, x), R(x))
    <3>1. Coming(new, batch, t, x) = acc.hint[x] + K(x) * dense[x % Width(k)]
      BY <2>2, <2>4 DEF Coming
    <3> QED
      BY <1>6, <3>1
  <2>7. ASSUME NEW j \in 0 .. Width(k) - 1
        PROVE  Cong(q, new.dense[j], 0) \/ \E i \in new.start .. t : Wrote(batch[i], j)
    <3> SUFFICES ASSUME \A i \in acc.start .. t : ~Wrote(batch[i], j) PROVE Cong(q, dense[j], 0)
      BY <2>4
    <3>1. Cong(q, acc.dense[j], 0)
      <4>1. \A i \in acc.start .. t - 1 : i \in acc.start .. t
        BY <1>1, <1>5
      <4> QED
        BY <4>1 DEF RowInv
    <3>2. w(j) = 0
      <4>1. t \in acc.start .. t
        BY <1>1, <1>5
      <4> QED
        BY <1>1, <4>1, NotWritten
    <3>3. acc.dense[j] \in Int /\ dense[j] \in Int
      BY <1>2, <1>3 DEF Vector
    <3>4. Cong(q, dense[j], acc.dense[j])
      <4>1. Cong(q, dense[j], acc.dense[j] + w(j))
        BY <1>3
      <4>2. acc.dense[j] + w(j) = acc.dense[j]
        BY <3>2, <3>3
      <4> HIDE DEF dense, w
      <4> QED
        BY <4>1, <4>2
    <3> HIDE DEF dense
    <3> QED
      BY <1>1, <3>1, <3>3, <3>4, CongTrans
  <2>8. RowInv(db, batch, new, t)
    <3>1. new.start \in 1 .. t + 1
      BY <1>1, <1>5, <2>4
    <3> QED
      BY <2>6, <2>7, <3>1 DEF RowInv
  <2> QED
    BY <2>5, <2>8 DEF new
<1> QED
  BY <1>7, <1>8

\* SimplePIR's row-level patch, with a buffer shared by the rows of a group.
LEMMA RowLevelSimpleLaw ==
  ASSUME backend \in Backends, NEW db \in Databases, NEW batch \in Seq(RowDeltas), NEW a, IsA(a)
  PROVE  PatchRowLevelSimple(a, HintOf(db), batch, k) = HintOf(Mutated(db, batch))
<1> DEFINE n    == Len(batch)
           base == [hint |-> HintOf(db), dense |-> Zeros(Width(k)), start |-> 1]
           F(g) == [s \in SUBSET (1 .. n) |->
                      IF s = {} THEN base ELSE RowStep(a, batch, g[s \ {Max(s)}], Max(s))]
           iter == CHOOSE g : g = F(g)
           E    == Passing(n)
           P(t) == {acc \in E : RowInv(db, batch, acc, t)}
<1>0. n \in Nat /\ DOMAIN batch = 1 .. n /\ q \in Nat \ {0}
  BY BatchLaw, Constants
<1>1. PatchRowLevelSimple(a, HintOf(db), batch, k) = iter[1 .. n].hint
  <2> DEFINE ix == [i \in DOMAIN batch |-> i]
  <2>1. PatchRowLevelSimple(a, HintOf(db), batch, k) =
          (LET it[s \in SUBSET (DOMAIN ix)] ==
                IF s = {} THEN base ELSE RowStep(a, batch, it[s \ {Max(s)}], ix[Max(s)])
           IN  it[DOMAIN ix]).hint
    BY Zenon DEF PatchRowLevelSimple, FoldLeftDomain, FoldLeft, MapThenFoldSet, RowStep, EndsRun
  <2>2. DOMAIN ix = 1 .. n
    BY <1>0
  <2> DEFINE G(g) == [s \in SUBSET (1 .. n) |->
                        IF s = {} THEN base ELSE RowStep(a, batch, g[s \ {Max(s)}], ix[Max(s)])]
  <2>3. PatchRowLevelSimple(a, HintOf(db), batch, k) = (CHOOSE g : g = G(g))[1 .. n].hint
    <3> HIDE DEF ix, base, n
    <3> QED
      BY <2>1, <2>2, Zenon
  <2>4. ASSUME NEW g PROVE G(g) = F(g)
    <3>1. ASSUME NEW s \in SUBSET (1 .. n)
          PROVE  (IF s = {} THEN base ELSE RowStep(a, batch, g[s \ {Max(s)}], ix[Max(s)]))
                   = (IF s = {} THEN base ELSE RowStep(a, batch, g[s \ {Max(s)}], Max(s)))
      <4>1. CASE s # {}
        <5>1. Max(s) \in 1 .. n
          <6>1. Max(s) \in s
            BY <1>0, <4>1, MaxOfNumbers
          <6> QED
            BY <6>1
        <5>2. ix[Max(s)] = Max(s)
          BY <1>0, <5>1
        <5> HIDE DEF ix
        <5> QED
          BY <5>2
      <4>2. CASE s = {}
        BY <4>2
      <4> QED
        BY <4>1, <4>2
    <3> HIDE DEF base, ix
    <3> QED
      BY <3>1
  <2>5. (CHOOSE g : g = G(g)) = iter
    <3> HIDE DEF G, F
    <3> QED
      BY <2>4
  <2> HIDE DEF iter, G
  <2> QED
    BY <2>3, <2>5
<1>2. base \in P(0)
  <2>1. base \in E
    <3>1. HintOf(db) \in Hints
      BY HintOfType DEF Hints
    <3>2. Zeros(Width(k)) \in Vector
      BY DEF Zeros, Vector
    <3>3. 1 \in 1 .. n + 1
      BY <1>0
    <3> QED
      BY <3>1, <3>2, <3>3 DEF Passing
  <2>2. RowInv(db, batch, base, 0)
    BY RowStart
  <2> QED
    BY <2>1, <2>2
<1>3. ASSUME NEW t \in 1 .. n, NEW acc \in P(t - 1) PROVE RowStep(a, batch, acc, t) \in P(t)
  <2>1. acc \in Passing(Len(batch)) /\ RowInv(db, batch, acc, t - 1)
    OBVIOUS
  <2>2. /\ RowStep(a, batch, acc, t) \in Passing(Len(batch))
        /\ RowInv(db, batch, RowStep(a, batch, acc, t), t)
    BY <2>1, RowStepInv
  <2> QED
    BY <2>2
<1>4. ASSUME NEW t \in 1 .. n, NEW acc \in E PROVE RowStep(a, batch, acc, t) \in E
  <2> DEFINE dense == Densify(acc.dense, batch[t], k)
             hint2 == Passes(a, acc.hint, <<batch[t]>>, <<dense>>, k)
             dense2 == Cleared(dense, SubSeq(batch, acc.start, t), k)
  <2>1. /\ acc.hint \in Hints /\ acc.dense \in Vector /\ acc.start \in 1 .. n + 1
        /\ acc = [hint |-> acc.hint, dense |-> acc.dense, start |-> acc.start]
    BY DEF Passing
  <2>2. dense \in Vector
    BY <1>0, <2>1, DensifyLaw
  <2>3. CASE EndsRun(batch, t)
    <3>1. RowStep(a, batch, acc, t) = [hint |-> hint2, dense |-> dense2, start |-> t + 1]
      BY <2>3 DEF RowStep
    <3>2. batch[t] = <<batch[t][1], batch[t][2]>> /\ batch[t][1] \in 0 .. n_rows - 1
      <4>1. batch[t] \in RowDeltas
        BY <1>0
      <4> QED
        BY <4>1 DEF RowDeltas
    <3>3. hint2 \in Hints
      BY <2>1, <2>2, <3>2, PassLaw
    <3>4. dense2 \in Vector
      <4>1. dense2 = [j \in 0 .. Width(k) - 1 |->
                        IF \E i \in DOMAIN SubSeq(batch, acc.start, t) :
                             Wrote(SubSeq(batch, acc.start, t)[i], j) THEN 0 ELSE dense[j]]
        BY <2>2 DEF Cleared, Wrote, Vector
      <4>2. \A j \in 0 .. Width(k) - 1 : dense[j] \in Int
        BY <2>2 DEF Vector
      <4> HIDE DEF dense, dense2
      <4> QED
        BY <4>1, <4>2 DEF Vector
    <3>5. t + 1 \in 1 .. n + 1
      BY <1>0
    <3> HIDE DEF hint2, dense2, dense
    <3> QED
      BY <3>1, <3>3, <3>4, <3>5 DEF Passing
  <2>4. CASE ~EndsRun(batch, t)
    <3>1. RowStep(a, batch, acc, t) = [acc EXCEPT !.dense = dense]
      BY <2>4 DEF RowStep
    <3> HIDE DEF dense
    <3>2. RowStep(a, batch, acc, t) = [hint |-> acc.hint, dense |-> dense, start |-> acc.start]
      BY <2>1, <3>1
    <3> QED
      BY <2>1, <2>2, <3>2 DEF Passing
  <2> QED
    BY <2>3, <2>4
<1>5. \E g : g = F(g)
  <2> DEFINE op == [t \in 1 .. n |-> [acc \in E |-> RowStep(a, batch, acc, t)]]
  <2>1. op \in [1 .. n -> [E -> E]]
    <3> HIDE DEF E, n
    <3> QED
      BY <1>4
  <2>2. base \in E
    BY <1>2
  <2> HIDE DEF op, E, base
  <2>3. PICK g \in [SUBSET (1 .. n) -> E] : Steps(n, base, op, g)
    <3> HIDE DEF n
    <3>1. n \in Nat
      BY <1>0
    <3> QED
      BY <2>1, <2>2, <3>1, FoldLeftExists
  <2>33. \A s \in SUBSET (1 .. n) : g[s] = IF s = {} THEN base ELSE op[Max(s)][g[s \ {Max(s)}]]
    BY <2>3, Zenon DEF Steps
  <2>4. ASSUME NEW s \in SUBSET (1 .. n)
        PROVE  g[s] = IF s = {} THEN base ELSE RowStep(a, batch, g[s \ {Max(s)}], Max(s))
    <3>1. CASE s = {}
      BY <2>33, <3>1
    <3>2. CASE s # {}
      <4>1. Max(s) \in 1 .. n /\ s \ {Max(s)} \in SUBSET (1 .. n)
        <5>1. Max(s) \in s
          BY <1>0, <3>2, MaxOfNumbers
        <5> QED
          BY <5>1
      <4> HIDE DEF n
      <4>2. g[s \ {Max(s)}] \in E
        BY <2>3, <4>1
      <4>3. op[Max(s)][g[s \ {Max(s)}]] = RowStep(a, batch, g[s \ {Max(s)}], Max(s))
        BY <4>1, <4>2 DEF op
      <4> QED
        BY <2>33, <3>2, <4>3
    <3> QED
      BY <3>1, <3>2
  <2>5. g = F(g)
    <3> HIDE DEF n
    <3> QED
      BY <2>3, <2>4
  <2> HIDE DEF F
  <2> QED
    BY <2>5, Zenon
<1>6. iter = F(iter)
  <2> HIDE DEF F
  <2> QED
    BY <1>5, Zenon
<1> HIDE DEF iter
<1>7. /\ iter[1 .. 0] = base
      /\ \A t \in 1 .. n : iter[1 .. t] = RowStep(a, batch, iter[1 .. (t - 1)], t)
  <2> HIDE DEF n, base
  <2>1. \A s \in SUBSET (1 .. n) : iter[s] = IF s = {} THEN base ELSE RowStep(a, batch, iter[s \ {Max(s)}], Max(s))
    BY <1>6
  <2>2. 1 .. 0 = {}
    OBVIOUS
  <2>3. \A t \in 1 .. n : iter[1 .. t] = RowStep(a, batch, iter[1 .. (t - 1)], t)
    <3> TAKE t \in 1 .. n
    <3>1. 1 .. t \in SUBSET (1 .. n) /\ 1 .. t # {} /\ Max(1 .. t) = t /\ (1 .. t) \ {t} = 1 .. (t - 1)
      BY <1>0, MaxOfPrefix
    <3> QED
      BY <2>1, <3>1
  <2> QED
    BY <2>1, <2>2, <2>3
<1>8. iter[1 .. n] \in P(n)
  <2> DEFINE S == {t \in 0 .. n : iter[1 .. t] \in P(t)}
  <2> HIDE DEF P, base
  <2>1. 0 \in S
    BY <1>0, <1>2, <1>7
  <2>2. ASSUME NEW t \in 0 .. n - 1, t \in S PROVE t + 1 \in S
    <3> DEFINE u == t + 1
    <3>1. u \in 1 .. n /\ u - 1 = t /\ u \in 0 .. n
      BY <1>0
    <3>2. iter[1 .. t] \in P(t)
      BY <2>2
    <3> HIDE DEF u, n
    <3>3. iter[1 .. u] = RowStep(a, batch, iter[1 .. t], u)
      BY <1>7, <3>1
    <3>4. iter[1 .. u] \in P(u)
      BY <1>3, <3>1, <3>2, <3>3
    <3> QED
      BY <3>1, <3>4 DEF u
  <2>3. S \in SUBSET (0 .. n)
    OBVIOUS
  <2> HIDE DEF S, n
  <2>4. n \in S
    <3>1. \A t \in 0 .. n : t \in S
      BY <1>0, <2>1, <2>2, <2>3, Climbs
    <3> QED
      BY <1>0, <3>1
  <2> QED
    BY <2>4 DEF S
<1> DEFINE acc == iter[1 .. n]
           h == acc.hint
<1>9. h \in [HintIndex -> 0 .. q - 1] /\ RowInv(db, batch, acc, n)
  <2>1. acc \in Passing(n) /\ RowInv(db, batch, acc, n)
    BY <1>8
  <2> HIDE DEF acc
  <2> QED
    BY <2>1 DEF Passing, Hints
<1>10. ASSUME NEW x \in HintIndex
       PROVE  Cong(q, h[x], HintSum(db, x) + SumFunction(HintChanges(batch, x)))
  <2> DEFINE f == HintChanges(batch, x)
  <2>1. f \in [1 .. n -> Int]
    BY <1>0, HintSumLaw
  <2>2. SumFunction(On(f, 1 .. n)) = SumFunction(f)
    <3>1. IsFiniteSet(1 .. n)
      BY <1>0, FS_Interval
    <3> DEFINE T == 1 .. n
    <3> HIDE DEF f, T
    <3>2. SumFunction(On(f, T)) = SumFunction(f)
      BY <2>1, <3>1, PartLaw DEF T
    <3> QED
      BY <3>2 DEF T
  <2>3. Coming(acc, batch, n, x) = h[x] + 0
    BY <1>0 DEF Coming
  <2>4. h[x] + 0 = h[x]
    <3>1. h[x] \in 0 .. q - 1
      BY <1>9
    <3> HIDE DEF h
    <3> QED
      BY <3>1
  <2>5. Cong(q, Coming(acc, batch, n, x), HintSum(db, x) + SumFunction(On(f, 1 .. n)))
    BY <1>9 DEF RowInv
  <2> HIDE DEF f, acc, h
  <2> QED
    BY <2>2, <2>3, <2>4, <2>5 DEF f
<1>11. h = HintOf(Mutated(db, batch))
  <2> HIDE DEF h
  <2> QED
    BY <1>9, <1>10, HintOfMutated
<1> QED
  BY <1>1, <1>11

-----------------------------------------------------------------------------
(* Sorting a set of places by column. *)

Before(col, x, y) == col[x] < col[y] \/ (col[x] = col[y] /\ x < y)
Sorted(col, s) == \A i, j \in DOMAIN s : i < j => Before(col, s[i], s[j])

\* The largest of some numbers.
LEMMA MaxBounds ==
  ASSUME NEW n \in Nat, NEW s \in SUBSET (1 .. n), s # {}
  PROVE  Max(s) \in s /\ \A y \in s : Max(s) >= y
<1>1. \E x \in s : \A y \in s : x >= y
  <2> DEFINE K == {u \in SUBSET s : u # {} => \E x \in u : \A y \in u : x >= y}
  <2>1. Max(s) \in s
    BY MaxOfNumbers
  <2>2. IsFiniteSet(1 .. n)
    BY FS_Interval
  <2>3. IsFiniteSet(s)
    BY <2>2, FS_Subset
  <2>4. {} \in K
    OBVIOUS
  <2>5. ASSUME NEW u \in SUBSET s, u # {} PROVE \E x \in u : u \ {x} \in K => u \in K
    <3>0. \A y \in u : y \in Int
      OBVIOUS
    <3>1. PICK x \in u : TRUE
      BY <2>5
    <3>2. ASSUME u \ {x} \in K PROVE u \in K
      <4>1. CASE u \ {x} = {}
        <5>1. u = {x} /\ x \in Int
          <6>1. \A y \in u : y = x
            BY <4>1
          <6> QED
            BY <3>0, <3>1, <6>1
        <5> QED
          BY <5>1
      <4>2. CASE u \ {x} # {}
        <5>1. PICK z \in u \ {x} : \A y \in u \ {x} : z >= y
          BY <3>2, <4>2
        <5>2. x \in Int /\ z \in Int /\ \A y \in u : y \in Int
          BY <3>0, <3>1, <5>1
        <5>3. CASE x >= z
          <6>1. \A y \in u : x >= y
            BY <5>1, <5>2, <5>3
          <6> QED
            BY <3>1, <6>1
        <5>4. CASE ~(x >= z)
          <6>1. \A y \in u : z >= y
            BY <5>1, <5>2, <5>4
          <6> QED
            BY <5>1, <6>1
        <5> QED
          BY <5>3, <5>4
      <4> QED
        BY <4>1, <4>2
    <3> QED
      BY <3>1, <3>2
  <2>6. s \in K
    <3>1. K \in SUBSET (SUBSET s)
      OBVIOUS
    <3> HIDE DEF K
    <3> QED
      BY <2>3, <2>4, <2>5, <3>1, FiniteClimb
  <2> QED
    BY <2>6
<1> QED
  BY <1>1 DEF Max

\* The last place in the order.
LEMMA LastOf ==
  ASSUME NEW n \in Nat, NEW w \in Nat, NEW u \in SUBSET (1 .. n), u # {},
         NEW col \in [1 .. n -> 0 .. w - 1]
  PROVE  \E x \in u : \A y \in u \ {x} : Before(col, y, x)
<1> DEFINE C == {col[y] + 1 : y \in u}
           c == Max(C)
           M == {y \in u : col[y] + 1 = c}
           x == Max(M)
<1>1. C \in SUBSET (1 .. w) /\ C # {}
  <2>1. ASSUME NEW y \in u PROVE col[y] + 1 \in 1 .. w
    <3>1. col[y] \in 0 .. w - 1
      OBVIOUS
    <3> QED
      BY <3>1
  <2>2. PICK y \in u : TRUE
    OBVIOUS
  <2>3. col[y] + 1 \in C
    BY <2>2
  <2> QED
    BY <2>1, <2>3
<1>2. c \in C /\ \A y \in C : c >= y
  <2> HIDE DEF C
  <2> QED
    BY <1>1, MaxBounds
<1>3. M # {} /\ M \in SUBSET (1 .. n)
  <2> HIDE DEF c
  <2> QED
    BY <1>2
<1> HIDE DEF c
<1>4. x \in M /\ \A y \in M : x >= y
  <2> HIDE DEF M
  <2> QED
    BY <1>3, MaxBounds
<1> HIDE DEF x
<1>5. ASSUME NEW y \in u \ {x} PROVE Before(col, y, x)
  <2>1. x \in 1 .. n /\ y \in 1 .. n /\ col[x] \in 0 .. w - 1 /\ col[y] \in 0 .. w - 1
    BY <1>4
  <2>2. col[x] + 1 = c /\ col[y] + 1 \in C
    BY <1>4
  <2>3. col[x] + 1 >= col[y] + 1
    <3> HIDE DEF C
    <3> QED
      BY <1>2, <2>2
  <2>4. CASE col[y] < col[x]
    BY <2>4 DEF Before
  <2>5. CASE ~(col[y] < col[x])
    <3>1. col[y] = col[x]
      BY <2>1, <2>3, <2>5
    <3>2. y \in M
      BY <2>2, <3>1
    <3>3. x >= y /\ x # y
      BY <1>4, <3>2
    <3> QED
      BY <2>1, <3>1, <3>3 DEF Before
  <2> QED
    BY <2>4, <2>5
<1> QED
  BY <1>4, <1>5

\* Any places can be sorted.
LEMMA SortedExists ==
  ASSUME NEW n \in Nat, NEW w \in Nat, NEW T \in SUBSET (1 .. n), NEW col \in [1 .. n -> 0 .. w - 1]
  PROVE  \E s \in [1 .. Cardinality(T) -> T] : Sorted(col, s)
<1> DEFINE K == {u \in SUBSET T : \E s \in [1 .. Cardinality(u) -> u] : Sorted(col, s)}
<1>1. IsFiniteSet(T)
  <2>1. IsFiniteSet(1 .. n)
    BY FS_Interval
  <2> QED
    BY <2>1, FS_Subset
<1>2. {} \in K
  <2>1. Cardinality({}) = 0 /\ 1 .. 0 = {}
    BY FS_EmptySet
  <2> DEFINE s == [i \in {} |-> 0]
  <2>2. s \in [1 .. Cardinality({}) -> {}] /\ Sorted(col, s)
    BY <2>1 DEF Sorted
  <2> HIDE DEF s
  <2> QED
    BY <2>2
<1>3. ASSUME NEW u \in SUBSET T, u # {} PROVE \E x \in u : u \ {x} \in K => u \in K
  <2>1. PICK x \in u : \A y \in u \ {x} : Before(col, y, x)
    <3>1. u \in SUBSET (1 .. n)
      OBVIOUS
    <3> QED
      BY <1>3, <3>1, LastOf
  <2>2. /\ Cardinality(u) \in Nat \ {0} /\ Cardinality(u \ {x}) = Cardinality(u) - 1
    BY <1>1, SmallerSet
  <2>3. ASSUME u \ {x} \in K PROVE u \in K
    <3> DEFINE m == Cardinality(u)
               v == u \ {x}
    <3>1. PICK s \in [1 .. Cardinality(v) -> v] : Sorted(col, s)
      BY <2>3
    <3> DEFINE e == [i \in 1 .. m |-> IF i = m THEN x ELSE s[i]]
    <3>2. m \in Nat \ {0} /\ Cardinality(v) = m - 1
      BY <2>2
    <3>3. s \in [1 .. m - 1 -> v] /\ v \in SUBSET u /\ x \in u
      BY <3>1, <3>2
    <3> HIDE DEF m, v
    <3>4. ASSUME NEW i \in 1 .. m PROVE e[i] = (IF i = m THEN x ELSE s[i]) /\ (i # m => i \in 1 .. m - 1)
      BY <3>2
    <3>5. e \in [1 .. m -> u]
      <4>1. \A i \in 1 .. m - 1 : s[i] \in u
        BY <3>3
      <4>2. \A i \in 1 .. m : e[i] \in u
        BY <3>3, <3>4, <4>1
      <4>3. e = [i \in 1 .. m |-> e[i]]
        OBVIOUS
      <4> HIDE DEF e
      <4> QED
        BY <4>2, <4>3
    <3>6. ASSUME NEW i \in 1 .. m, NEW j \in 1 .. m, i < j PROVE Before(col, e[i], e[j])
      <4>1. i # m
        BY <3>2, <3>6
      <4>2. i \in 1 .. m - 1 /\ e[i] = s[i] /\ s[i] \in v
        BY <3>3, <3>4, <4>1
      <4>3. CASE j = m
        <5>1. e[j] = x
          BY <3>4, <4>3
        <5>2. Before(col, s[i], x)
          BY <2>1, <4>2 DEF v
        <5> QED
          BY <4>2, <5>1, <5>2
      <4>4. CASE j # m
        <5>1. j \in 1 .. m - 1 /\ e[j] = s[j]
          BY <3>4, <4>4
        <5>2. i \in DOMAIN s /\ j \in DOMAIN s
          BY <3>3, <4>2, <5>1
        <5>3. Before(col, s[i], s[j])
          BY <3>1, <3>6, <5>2 DEF Sorted
        <5> QED
          BY <4>2, <5>1, <5>3
      <4> QED
        BY <4>3, <4>4
    <3> HIDE DEF e
    <3>7. Sorted(col, e)
      <4>1. DOMAIN e = 1 .. m
        BY <3>5
      <4> QED
        BY <3>6, <4>1 DEF Sorted
    <3> QED
      BY <3>5, <3>7 DEF m
  <2> QED
    BY <2>3
<1>4. T \in K
  <2>1. K \in SUBSET (SUBSET T)
    OBVIOUS
  <2> HIDE DEF K
  <2> QED
    BY <1>1, <1>2, <1>3, <2>1, FiniteClimb
<1> QED
  BY <1>4

Numbers(T, s) ==
  /\ Cardinality(T) \in Nat
  /\ \A i \in 1 .. Cardinality(T) : \A j \in 1 .. Cardinality(T) : s[i] = s[j] => i = j
  /\ \A x \in T : \E i \in 1 .. Cardinality(T) : s[i] = x

\* Sorted places are all the places, each once.
LEMMA SortedIsAll ==
  ASSUME NEW n \in Nat, NEW w \in Nat, NEW T \in SUBSET (1 .. n), NEW col \in [1 .. n -> 0 .. w - 1],
         NEW s \in [1 .. Cardinality(T) -> T], Sorted(col, s)
  PROVE  Numbers(T, s)
<1> DEFINE m == Cardinality(T)
           I == 1 .. m
<1>1. IsFiniteSet(T)
  <2>1. IsFiniteSet(1 .. n)
    BY FS_Interval
  <2> QED
    BY <2>1, FS_Subset
<1>2. m \in Nat
  BY <1>1, FS_CardinalityType
<1>3. Cardinality(I) = Cardinality(T)
  <2> HIDE DEF m
  <2>1. Cardinality(1 .. m) = IF 1 > m THEN 0 ELSE m - 1 + 1
    BY <1>2, FS_Interval
  <2>2. Cardinality(1 .. m) = m
    BY <1>2, <2>1
  <2> QED
    BY <2>2 DEF m
<1> HIDE DEF m
<1>4. ASSUME NEW i \in I, NEW j \in I, s[i] = s[j] PROVE i = j
  <2>1. i \in Int /\ j \in Int /\ i \in DOMAIN s /\ j \in DOMAIN s
    BY DEF m
  <2>2. ~Before(col, s[i], s[i])
    <3>1. s[i] \in T
      BY DEF m
    <3>2. s[i] \in 1 .. n /\ col[s[i]] \in 0 .. w - 1
      BY <3>1
    <3> QED
      BY <3>2 DEF Before
  <2>3. ~(i < j) /\ ~(j < i)
    BY <1>4, <2>1, <2>2 DEF Sorted
  <2> QED
    BY <2>1, <2>3
<1>5. s \in [I -> T]
  BY DEF m
<1>6. s \in Injection(I, T)
  BY <1>4, <1>5 DEF Injection, IsInjective
<1> HIDE DEF I
<1>7. s \in Surjection(I, T)
  BY <1>1, <1>3, <1>6, FS_Injection
<1>8. \A x \in T : \E i \in I : s[i] = x
  BY <1>7 DEF Surjection
<1> QED
  BY <1>2, <1>4, <1>8 DEF I, m, Numbers

-----------------------------------------------------------------------------
(* Runs of columns, as the entry-level patch builds them. *)

ColOf(row, cells, x) == ReshapeOff(row, cells[x][1], k)

\* A change is taken.
Push(row, cells, acc, x) ==
  LET n == Len(acc.deltas)
      m == Len(acc.runs)
      change == cells[x][2] % q
  IN  CASE ColOf(row, cells, x) = acc.last     -> [acc EXCEPT !.deltas[n] = (@ + change) % q]
        [] ColOf(row, cells, x) = acc.last + 1 ->
             [deltas |-> Append(acc.deltas, change),
              runs   |-> [acc.runs EXCEPT ![m][2] = @ + 1],
              last   |-> ColOf(row, cells, x)]
        [] OTHER                 ->
             [deltas |-> Append(acc.deltas, change),
              runs   |-> Append(acc.runs, <<ColOf(row, cells, x), 1>>),
              last   |-> ColOf(row, cells, x)]

Built == [deltas : Seq(Int), runs : Seq(Int \X Nat), last : Int]

\* A run that grows is the only one to change.
LEMMA Longer ==
  ASSUME NEW runs \in Seq(Int \X Nat), NEW m
  PROVE  /\ [runs EXCEPT ![m][2] = @ + 1] \in Seq(Int \X Nat)
         /\ Len([runs EXCEPT ![m][2] = @ + 1]) = Len(runs)
         /\ \A i \in 1 .. Len(runs) :
              /\ [runs EXCEPT ![m][2] = @ + 1][i][1] = runs[i][1]
              /\ [runs EXCEPT ![m][2] = @ + 1][i][2] = IF i = m THEN runs[i][2] + 1 ELSE runs[i][2]
<1> DEFINE e == [runs EXCEPT ![m][2] = @ + 1]
           n == Len(runs)
<1>1. n \in Nat /\ DOMAIN runs = 1 .. n
  OBVIOUS
<1>2. DOMAIN e = 1 .. n
  BY <1>1
<1>3. ASSUME NEW i \in 1 .. n
      PROVE  /\ e[i] \in Int \X Nat /\ e[i][1] = runs[i][1]
             /\ e[i][2] = IF i = m THEN runs[i][2] + 1 ELSE runs[i][2]
  <2>1. PICK a \in Int, b \in Nat : runs[i] = <<a, b>>
    <3>1. runs[i] \in Int \X Nat
      BY <1>1
    <3>2. runs[i] = <<runs[i][1], runs[i][2]>> /\ runs[i][1] \in Int /\ runs[i][2] \in Nat
      BY <3>1
    <3> QED
      BY <3>2
  <2>2. CASE i = m
    <3>1. e[i] = [runs[i] EXCEPT ![2] = runs[i][2] + 1]
      BY <1>1, <2>2
    <3>2. [<<a, b>> EXCEPT ![2] = b + 1] = <<a, b + 1>>
      OBVIOUS
    <3>3. e[i] = <<a, b + 1>>
      BY <2>1, <3>1, <3>2
    <3> HIDE DEF e
    <3> QED
      BY <2>1, <2>2, <3>3
  <2>3. CASE i # m
    <3>1. e[i] = runs[i]
      BY <1>1, <2>3
    <3> HIDE DEF e
    <3> QED
      BY <2>1, <2>3, <3>1
  <2> QED
    BY <2>2, <2>3
<1>4. e = [i \in 1 .. n |-> e[i]]
  BY <1>1
<1> HIDE DEF e
<1>5. e \in Seq(Int \X Nat)
  <2>1. e \in [1 .. n -> Int \X Nat]
    BY <1>3, <1>4
  <2> HIDE DEF n
  <2> QED
    BY <1>1, <2>1
<1>6. Len(e) = n
  BY <1>1, <1>2, <1>5
<1> QED
  BY <1>3, <1>5, <1>6 DEF e

\* Taking a change keeps the runs and deltas well formed.
LEMMA PushType ==
  ASSUME NEW row \in 0 .. n_rows - 1, NEW cells \in Seq(Cells), NEW x \in DOMAIN cells,
         ColOf(row, cells, x) \in Nat, NEW acc \in Built
  PROVE  Push(row, cells, acc, x) \in Built
<1> DEFINE n == Len(acc.deltas)
           m == Len(acc.runs)
           col == ColOf(row, cells, x)
           change == cells[x][2] % q
<1>1. /\ acc.deltas \in Seq(Int) /\ acc.runs \in Seq(Int \X Nat) /\ acc.last \in Int
      /\ acc = [deltas |-> acc.deltas, runs |-> acc.runs, last |-> acc.last]
  BY DEF Built
<1>2. change \in Int
  <2>1. cells[x] \in Cells
    OBVIOUS
  <2>2. cells[x][2] \in Int
    BY <2>1 DEF Cells
  <2>3. \A y \in Int : y % q \in Int
    <3>1. q \in Nat \ {0}
      BY Constants
    <3> QED
      BY <3>1
  <2> QED
    BY <2>2, <2>3
<1>3. col \in Int
  OBVIOUS
<1> HIDE DEF change, col
<1>4. CASE col = acc.last
  <2> DEFINE d == [acc.deltas EXCEPT ![n] = (@ + change) % q]
  <2>1. d \in Seq(Int)
    <3>1. \A i \in 1 .. n : acc.deltas[i] \in Int /\ n \in Nat
      BY <1>1
    <3>2. \A i \in 1 .. n : acc.deltas[i] + change \in Int
      BY <1>2, <3>1
    <3>3. \A y \in Int : y % q \in Int
      <4>1. q \in Nat \ {0}
        BY Constants
      <4> QED
        BY <4>1
    <3>4. d = [i \in 1 .. n |-> IF i = n THEN (acc.deltas[i] + change) % q ELSE acc.deltas[i]]
      <4>1. DOMAIN acc.deltas = 1 .. n
        BY <1>1
      <4> QED
        BY <4>1
    <3> HIDE DEF d, n
    <3>5. d \in [1 .. n -> Int]
      BY <3>1, <3>2, <3>3, <3>4
    <3>6. n \in Nat
      BY <1>1 DEF n
    <3> QED
      BY <3>5, <3>6
  <2>2. Push(row, cells, acc, x) = [acc EXCEPT !.deltas = d]
    BY <1>4 DEF Push, col, change
  <2> HIDE DEF d
  <2>3. [acc EXCEPT !.deltas = d] = [deltas |-> d, runs |-> acc.runs, last |-> acc.last]
    BY <1>1, SMTT(30)
  <2> QED
    BY <1>1, <2>1, <2>2, <2>3 DEF Built
<1>5. Append(acc.deltas, change) \in Seq(Int)
  BY <1>1, <1>2
<1>6. CASE col # acc.last /\ col = acc.last + 1
  <2> DEFINE e == [acc.runs EXCEPT ![m][2] = @ + 1]
  <2>1. e \in Seq(Int \X Nat)
    BY <1>1, Longer
  <2>2. Push(row, cells, acc, x) = [deltas |-> Append(acc.deltas, change), runs |-> e, last |-> col]
    BY <1>6 DEF Push, col, change
  <2> HIDE DEF e
  <2> QED
    BY <1>3, <1>5, <2>1, <2>2 DEF Built
<1>7. CASE col # acc.last /\ col # acc.last + 1
  <2> DEFINE e == Append(acc.runs, <<col, 1>>)
  <2>1. e \in Seq(Int \X Nat)
    <3>1. <<col, 1>> \in Int \X Nat
      BY <1>3
    <3> QED
      BY <1>1, <3>1
  <2>2. Push(row, cells, acc, x) = [deltas |-> Append(acc.deltas, change), runs |-> e, last |-> col]
    BY <1>7 DEF Push, col, change
  <2> HIDE DEF e
  <2> QED
    BY <1>3, <1>5, <2>1, <2>2 DEF Built
<1> QED
  BY <1>4, <1>6, <1>7

\* Where the deltas of a run start.
LEMMA FedLaw ==
  ASSUME NEW acc, acc.runs \in Seq(Int \X Nat)
  PROVE  /\ Fed(acc, 1) = 0
         /\ \A j \in 1 .. Len(acc.runs) + 1 : Fed(acc, j) \in Nat
         /\ \A j \in 1 .. Len(acc.runs) :
              Fed(acc, j + 1) = Fed(acc, j) + acc.runs[j][2] /\ acc.runs[j][2] \in Nat
<1> DEFINE n == Len(acc.runs)
           f == [i \in 1 .. n |-> acc.runs[i][2]]
           S == {j \in 0 .. n : Fed(acc, j + 1) \in Nat}
<1>1. n \in Nat /\ DOMAIN acc.runs = 1 .. n
  OBVIOUS
<1>2. \A i \in 1 .. n : acc.runs[i][2] \in Nat
  <2>1. \A i \in 1 .. n : acc.runs[i] \in Int \X Nat
    BY <1>1
  <2> QED
    BY <2>1
<1>3. f \in [1 .. n -> Int] /\ \A i \in 1 .. n : f[i] = acc.runs[i][2]
  BY <1>2
<1>4. ASSUME NEW j \in 1 .. n + 1 PROVE Fed(acc, j) = SumFunction(On(f, 1 .. (j - 1)))
  <2>1. \A i \in 1 .. (j - 1) : i \in 1 .. n
    BY <1>1
  <2>2. On(f, 1 .. (j - 1)) = [i \in 1 .. (j - 1) |-> acc.runs[i][2]]
    BY <2>1, <1>3 DEF On
  <2> QED
    BY <2>2, Zenon DEF Fed
<1> HIDE DEF f, n
<1>5. Fed(acc, 1) = 0
  <2>1. IsFiniteSet(1 .. n) /\ 1 .. (1 - 1) = {} /\ 1 \in 1 .. n + 1
    BY <1>1, FS_Interval
  <2> DEFINE T == 1 .. n
  <2> HIDE DEF T
  <2>2. SumFunction(On(f, {})) = 0
    BY <1>3, <2>1, PartLaw DEF T
  <2> QED
    BY <1>4, <2>1, <2>2
<1>6. ASSUME NEW j \in 1 .. n PROVE Fed(acc, j + 1) = Fed(acc, j) + acc.runs[j][2] /\ Fed(acc, j) \in Int
  <2>1. j \in 1 .. n + 1 /\ j + 1 \in 1 .. n + 1 /\ (j + 1) - 1 = j
    BY <1>1
  <2>2. /\ SumFunction(On(f, 1 .. (j - 1))) \in Int
        /\ SumFunction(On(f, 1 .. j)) = f[j] + SumFunction(On(f, 1 .. (j - 1)))
    BY <1>1, <1>3, SumPrefix
  <2>3. Fed(acc, j) = SumFunction(On(f, 1 .. (j - 1))) /\ Fed(acc, j + 1) = SumFunction(On(f, 1 .. j))
    BY <1>4, <2>1
  <2>4. f[j] = acc.runs[j][2] /\ f[j] \in Int
    BY <1>3
  <2> QED
    BY <2>2, <2>3, <2>4
<1>7. 0 \in S
  BY <1>1, <1>5
<1>8. ASSUME NEW j \in 0 .. n - 1, j \in S PROVE j + 1 \in S
  <2> DEFINE u == j + 1
  <2>1. u \in 1 .. n /\ u \in 0 .. n /\ Fed(acc, u) \in Nat
    BY <1>1, <1>8
  <2> HIDE DEF u
  <2>2. Fed(acc, u + 1) = Fed(acc, u) + acc.runs[u][2] /\ acc.runs[u][2] \in Nat
    BY <1>2, <1>6, <2>1 DEF n
  <2>3. u \in S
    BY <2>1, <2>2, SMTT(30)
  <2> QED
    BY <2>3 DEF u
<1>9. \A j \in 0 .. n : j \in S
  <2>1. S \in SUBSET (0 .. n)
    OBVIOUS
  <2> HIDE DEF S
  <2> QED
    BY <1>1, <1>7, <1>8, <2>1, Climbs
<1>10. ASSUME NEW j \in 1 .. n + 1 PROVE Fed(acc, j) \in Nat
  <2> DEFINE i == j - 1
  <2>1. i \in 0 .. n /\ i + 1 = j
    BY <1>1
  <2> HIDE DEF i
  <2>2. Fed(acc, i + 1) \in Nat
    BY <1>9, <2>1
  <2> QED
    BY <2>1, <2>2
<1> QED
  BY <1>2, <1>5, <1>6, <1>10 DEF n

\* Runs that are not the last keep their deltas.
LEMMA FedSame ==
  ASSUME NEW acc, NEW new, NEW j \in Nat, \A i \in 1 .. (j - 1) : acc.runs[i][2] = new.runs[i][2]
  PROVE  Fed(new, j) = Fed(acc, j)
<1>1. [i \in 1 .. (j - 1) |-> new.runs[i][2]] = [i \in 1 .. (j - 1) |-> acc.runs[i][2]]
  OBVIOUS
<1> QED
  BY <1>1, Zenon DEF Fed

\* The runs built so far take all of the deltas, one after the other.
Whole(acc) ==
  /\ Len(acc.runs) = 0 => acc.last = -2 /\ Len(acc.deltas) = 0
  /\ Len(acc.runs) > 0 =>
       /\ acc.runs[Len(acc.runs)][2] >= 1
       /\ acc.runs[Len(acc.runs)][1] + acc.runs[Len(acc.runs)][2] - 1 = acc.last
       /\ Fed(acc, Len(acc.runs)) + acc.runs[Len(acc.runs)][2] = Len(acc.deltas)
       /\ \A j \in 1 .. Len(acc.runs) - 1 : Fed(acc, j) + acc.runs[j][2] <= Fed(acc, Len(acc.runs))

\* Each place of a run has its delta; the last one is that of the last run.
LEMMA PlacesLaw ==
  ASSUME NEW acc \in Built, Whole(acc), NEW j \in 1 .. Len(acc.runs)
  PROVE  /\ acc.runs[j][1] \in Int /\ acc.runs[j][2] \in Nat /\ Fed(acc, j) \in Nat
         /\ \A col \in acc.runs[j][1] .. acc.runs[j][1] + acc.runs[j][2] - 1 :
              /\ Fed(acc, j) + (col - acc.runs[j][1]) + 1 \in 1 .. Len(acc.deltas)
              /\ Fed(acc, j) + (col - acc.runs[j][1]) + 1 = Len(acc.deltas)
                   => j = Len(acc.runs) /\ col = acc.last
<1> DEFINE m == Len(acc.runs)
           n == Len(acc.deltas)
           b == acc.runs[j][1]
           l == acc.runs[j][2]
           f == Fed(acc, j)
           bm == acc.runs[m][1]
           lm == acc.runs[m][2]
           fm == Fed(acc, m)
<1>1. acc.runs \in Seq(Int \X Nat) /\ acc.deltas \in Seq(Int) /\ m \in Nat /\ n \in Nat
  BY DEF Built
<1>2. /\ \A i \in 1 .. m + 1 : Fed(acc, i) \in Nat
      /\ \A i \in 1 .. m : acc.runs[i][1] \in Int /\ acc.runs[i][2] \in Nat
  <2>1. \A i \in 1 .. m : acc.runs[i] \in Int \X Nat
    BY <1>1
  <2>2. \A i \in 1 .. m : acc.runs[i][1] \in Int /\ acc.runs[i][2] \in Nat
    BY <2>1
  <2>3. \A i \in 1 .. m + 1 : Fed(acc, i) \in Nat
    BY <1>1, FedLaw
  <2> QED
    BY <2>2, <2>3
<1>3. b \in Int /\ l \in Nat /\ f \in Nat /\ bm \in Int /\ lm \in Nat /\ fm \in Nat /\ m >= 1
  <2>1. j \in 1 .. m /\ m \in 1 .. m /\ j \in 1 .. m + 1 /\ m \in 1 .. m + 1 /\ m >= 1
    BY <1>1, SMTT(30)
  <2> HIDE DEF m
  <2> QED
    BY <1>2, <2>1
<1>4. lm >= 1 /\ bm + lm - 1 = acc.last /\ fm + lm = n /\ (j # m => f + l <= fm)
  <2>1. m > 0
    BY <1>1, <1>3
  <2>2. j # m => j \in 1 .. m - 1
    BY <1>1
  <2> QED
    BY <2>1, <2>2 DEF Whole
<1>5. j = m => f = fm /\ l = lm /\ b = bm
  OBVIOUS
<1>6. acc.last \in Int
  BY DEF Built
<1> HIDE DEF m, n, b, l, f, bm, lm, fm
<1>7. ASSUME NEW col \in b .. b + l - 1
      PROVE  /\ f + (col - b) + 1 \in 1 .. n
             /\ f + (col - b) + 1 = n => j = m /\ col = acc.last
  <2>1. CASE j = m
    BY <1>1, <1>3, <1>4, <1>5, <1>6, <2>1
  <2>2. CASE j # m
    BY <1>1, <1>3, <1>4, <2>2
  <2> QED
    BY <2>1, <2>2
<1> QED
  BY <1>3, <1>7 DEF m, n, b, l, f

\* What a run adds to a column is an integer.
LEMMA RunChangeInt ==
  ASSUME NEW acc \in Built, Whole(acc), NEW j \in 1 .. Len(acc.runs), NEW col \in Int
  PROVE  RunChange(acc, j, col) \in Int
<1> DEFINE b == acc.runs[j][1]
           l == acc.runs[j][2]
           i == Fed(acc, j) + (col - b) + 1
<1>1. RunChange(acc, j, col) = IF col \in b .. b + l - 1 THEN acc.deltas[i] ELSE 0
  BY DEF RunChange
<1>2. col \in b .. b + l - 1 => i \in 1 .. Len(acc.deltas)
  BY PlacesLaw
<1>3. acc.deltas \in Seq(Int)
  BY DEF Built
<1> HIDE DEF i, b, l
<1>4. col \in b .. b + l - 1 => acc.deltas[i] \in Int
  BY <1>2, <1>3
<1> QED
  BY <1>1, <1>4

\* What a change does to the runs.
Pushed(acc, new, c, change) ==
  /\ new \in Built /\ Whole(new) /\ new.last = c /\ Len(new.runs) \in Nat \ {0}
  /\ Len(new.runs) = Len(acc.runs) \/ Len(new.runs) = Len(acc.runs) + 1
  /\ \A col \in Int :
       /\ \A j \in 1 .. Len(new.runs) - 1 : RunChange(new, j, col) = RunChange(acc, j, col)
       /\ Cong(q, RunChange(new, Len(new.runs), col),
               (IF Len(new.runs) = Len(acc.runs) THEN RunChange(acc, Len(acc.runs), col) ELSE 0)
                 + (IF c = col THEN change ELSE 0))

\* An equal column: the last delta grows.
LEMMA PushEqual ==
  ASSUME NEW acc \in Built, Whole(acc), NEW new \in Built, NEW c \in Nat, NEW change \in Int,
         c = acc.last, new.runs = acc.runs, new.last = acc.last,
         new.deltas = [acc.deltas EXCEPT ![Len(acc.deltas)] = (@ + (change % q)) % q]
  PROVE  Pushed(acc, new, c, change)
<1> DEFINE m == Len(acc.runs)
           n == Len(acc.deltas)
<1>1. /\ acc.runs \in Seq(Int \X Nat) /\ acc.deltas \in Seq(Int) /\ m \in Nat /\ n \in Nat
      /\ DOMAIN acc.deltas = 1 .. n /\ q \in Nat \ {0}
  BY Constants DEF Built
<1>2. m \in Nat \ {0}
  <2>1. c # -2
    OBVIOUS
  <2> QED
    BY <1>1, <2>1 DEF Whole
<1>3. /\ Len(new.runs) = m /\ Len(new.deltas) = n /\ \A i \in 1 .. n : i # n => new.deltas[i] = acc.deltas[i]
      /\ n \in 1 .. n => new.deltas[n] = (acc.deltas[n] + (change % q)) % q
  BY <1>1
<1>4. \A j : Fed(new, j) = Fed(acc, j)
  BY DEF Fed
<1>5. Whole(new)
  BY <1>1, <1>3, <1>4 DEF Whole
<1>6. ASSUME NEW j \in 1 .. m, NEW col \in Int
      PROVE  /\ j # m \/ col # c => RunChange(new, j, col) = RunChange(acc, j, col)
             /\ j = m /\ col = c =>
                  RunChange(new, j, col) = (RunChange(acc, j, col) + (change % q)) % q
  <2> DEFINE b == acc.runs[j][1]
             l == acc.runs[j][2]
             i == Fed(acc, j) + (col - b) + 1
             in == col \in b .. b + l - 1
  <2>1. b \in Int /\ l \in Nat /\ Fed(acc, j) \in Nat /\ (in => i \in 1 .. n /\ (i = n => j = m /\ col = acc.last))
    BY PlacesLaw
  <2>2. RunChange(acc, j, col) = IF in THEN acc.deltas[i] ELSE 0
    BY DEF RunChange
  <2>3. RunChange(new, j, col) = IF in THEN new.deltas[i] ELSE 0
    BY <1>4 DEF RunChange
  <2>4. ASSUME j # m \/ col # c PROVE RunChange(new, j, col) = RunChange(acc, j, col)
    <3>1. in => i \in 1 .. n /\ i # n
      BY <2>1, <2>4
    <3> HIDE DEF in, i
    <3> QED
      BY <1>3, <2>2, <2>3, <3>1
  <2>5. ASSUME j = m, col = c PROVE RunChange(new, j, col) = (RunChange(acc, j, col) + (change % q)) % q
    <3>1. l >= 1 /\ b + l - 1 = c /\ Fed(acc, j) + l = n
      <4>1. m > 0
        BY <1>2
      <4> QED
        BY <2>5, <4>1 DEF Whole
    <3>2. in /\ i = n
      <4> DEFINE f == Fed(acc, j)
      <4>1. f \in Nat /\ f + l = n
        BY <2>1, <3>1
      <4> HIDE DEF b, l, f, n
      <4>2. col \in Int
        OBVIOUS
      <4>3. col \in b .. b + l - 1 /\ f + (col - b) + 1 = n
        BY <2>1, <2>5, <3>1, <4>1, <4>2
      <4> QED
        BY <4>3 DEF f
    <3>3. n \in 1 .. n
      BY <2>1, <3>2
    <3> HIDE DEF in, i
    <3> QED
      BY <1>3, <2>2, <2>3, <3>2, <3>3
  <2> QED
    BY <2>4, <2>5
<1>7. ASSUME NEW col \in Int
      PROVE  Cong(q, RunChange(new, m, col), RunChange(acc, m, col) + (IF c = col THEN change ELSE 0))
  <2> DEFINE u == RunChange(acc, m, col)
             v == RunChange(new, m, col)
             goal == Cong(q, v, u + (IF c = col THEN change ELSE 0))
  <2> SUFFICES goal
    OBVIOUS
  <2>1. m \in 1 .. m
    BY <1>2
  <2>2. u \in Int /\ v \in Int
    <3> HIDE DEF m
    <3> QED
      BY <1>3, <1>5, <2>1, RunChangeInt
  <2>3. /\ col # c => v = u
        /\ col = c => v = (u + (change % q)) % q
    BY <1>6, <2>1
  <2> HIDE DEF u, v
  <2>4. CASE col = c
    <3>1. change % q \in 0 .. q - 1 /\ Cong(q, change % q, change)
      BY <1>1, CongMod
    <3>2. change % q \in Int
      BY <3>1
    <3> DEFINE g == change % q
    <3>3. g \in Int /\ Cong(q, g, change)
      BY <3>1, <3>2
    <3> HIDE DEF g
    <3>4. Cong(q, u, u)
      BY <1>1, <2>2, CongRefl
    <3>5. Cong(q, u + g, u + change)
      BY <1>1, <2>2, <3>3, <3>4, CongAdd
    <3>6. u + g \in Int /\ u + change \in Int
      BY <2>2, <3>3
    <3>7. Cong(q, (u + g) % q, u + g) /\ (u + g) % q \in 0 .. q - 1
      BY <1>1, <3>6, CongMod
    <3>8. v = (u + g) % q /\ v \in Int
      BY <2>2, <2>3, <2>4 DEF g
    <3>9. Cong(q, v, u + change)
      BY <1>1, <3>5, <3>6, <3>7, <3>8, CongTrans
    <3> QED
      BY <2>4, <3>9 DEF goal
  <2>5. CASE col # c
    <3>1. v = u /\ u + 0 = u
      BY <2>2, <2>3, <2>5
    <3>2. Cong(q, v, u)
      BY <1>1, <2>2, <3>1, CongRefl
    <3> QED
      BY <2>5, <3>1, <3>2 DEF goal
  <2> QED
    BY <2>4, <2>5
<1>8. ASSUME NEW col \in Int, NEW j \in 1 .. m - 1 PROVE RunChange(new, j, col) = RunChange(acc, j, col)
  <2>1. j \in 1 .. m /\ j # m
    BY <1>1
  <2> QED
    BY <1>6, <2>1
<1>9. new.last = c
  OBVIOUS
<1> HIDE DEF m
<1>10. Len(new.runs) = m
  BY <1>3
<1> QED
  BY <1>2, <1>5, <1>7, <1>8, <1>9, <1>10 DEF Pushed, m

\* A sequence with one more element.
LEMMA AppendLaw ==
  ASSUME NEW S, NEW s \in Seq(S), NEW e \in S
  PROVE  /\ Append(s, e) \in Seq(S) /\ Len(s) \in Nat /\ Len(Append(s, e)) = Len(s) + 1
         /\ \A i \in 1 .. Len(s) : Append(s, e)[i] = s[i]
         /\ Append(s, e)[Len(s) + 1] = e
OBVIOUS

\* A change as a word is congruent to it.
LEMMA WordOf ==
  ASSUME NEW change \in Int
  PROVE  change % q \in Int /\ Cong(q, change % q, change)
<1>1. change % q \in 0 .. q - 1 /\ Cong(q, change % q, change)
  BY Constants, CongMod
<1> QED
  BY <1>1

\* The next column: the last run grows.
LEMMA PushNext ==
  ASSUME NEW acc \in Built, Whole(acc), NEW new \in Built, NEW c \in Nat, NEW change \in Int,
         c = acc.last + 1, new.runs = [acc.runs EXCEPT ![Len(acc.runs)][2] = @ + 1], new.last = c,
         new.deltas = Append(acc.deltas, change % q)
  PROVE  Pushed(acc, new, c, change)
<1> DEFINE m == Len(acc.runs)
           n == Len(acc.deltas)
           g == change % q
<1>1. /\ acc.runs \in Seq(Int \X Nat) /\ acc.deltas \in Seq(Int) /\ m \in Nat /\ n \in Nat
      /\ q \in Nat \ {0} /\ acc.last \in Int
  BY Constants DEF Built
<1>2. m \in Nat \ {0} /\ m \in 1 .. m
  <2>1. acc.last # -2
    BY <1>1
  <2> QED
    BY <1>1, <2>1 DEF Whole
<1>3. g \in Int /\ Cong(q, g, change)
  BY WordOf
<1> HIDE DEF g
<1>4. /\ Len(new.deltas) = n + 1 /\ new.deltas[n + 1] = g
      /\ \A i \in 1 .. n : new.deltas[i] = acc.deltas[i]
  BY <1>1, <1>3, AppendLaw DEF g
<1>5. /\ Len(new.runs) = m
      /\ \A i \in 1 .. m : /\ new.runs[i][1] = acc.runs[i][1]
                           /\ new.runs[i][2] = IF i = m THEN acc.runs[i][2] + 1 ELSE acc.runs[i][2]
  BY <1>1, Longer, SMTT(30)
<1> HIDE DEF m
<1>6. ASSUME NEW j \in 1 .. m PROVE Fed(new, j) = Fed(acc, j)
  <2>1. \A i \in 1 .. (j - 1) : i \in 1 .. m /\ i # m
    BY <1>1, <1>2
  <2>2. \A i \in 1 .. (j - 1) : acc.runs[i][2] = new.runs[i][2]
    BY <1>5, <2>1
  <2>3. j \in Nat
    OBVIOUS
  <2> QED
    BY <2>2, <2>3, FedSame
<1>7. /\ acc.runs[m][2] \in Nat /\ acc.runs[m][2] >= 1 /\ acc.runs[m][1] \in Int
      /\ acc.runs[m][1] + acc.runs[m][2] - 1 = acc.last
      /\ Fed(acc, m) \in Nat /\ Fed(acc, m) + acc.runs[m][2] = n
      /\ \A j \in 1 .. m - 1 : Fed(acc, j) + acc.runs[j][2] <= Fed(acc, m)
  <2>1. acc.runs[m][2] \in Nat /\ acc.runs[m][1] \in Int /\ Fed(acc, m) \in Nat
    BY <1>2, PlacesLaw DEF m
  <2>2. Len(acc.runs) > 0
    BY <1>2 DEF m
  <2> QED
    BY <2>1, <2>2 DEF Whole, m
<1>8. Whole(new)
  <2> DEFINE b == acc.runs[m][1]
             l == acc.runs[m][2]
             f == Fed(acc, m)
  <2>1. new.runs[m][1] = b /\ new.runs[m][2] = l + 1 /\ Fed(new, m) = f
    BY <1>2, <1>5, <1>6
  <2>2. l \in Nat /\ l >= 1 /\ b \in Int /\ b + l - 1 = acc.last /\ f \in Nat /\ f + l = n
    BY <1>7
  <2>3. ASSUME NEW j \in 1 .. m - 1 PROVE Fed(new, j) + new.runs[j][2] <= Fed(new, m)
    <3>1. j \in 1 .. m /\ j # m
      BY <1>1, <1>2
    <3> QED
      BY <1>5, <1>6, <1>7, <2>1, <3>1
  <2> HIDE DEF b, l, f, n
  <2>4. l + 1 >= 1 /\ b + (l + 1) - 1 = new.last /\ f + (l + 1) = n + 1
    <3> DEFINE last == acc.last
    <3>1. last \in Int /\ n \in Nat /\ new.last = last + 1
      BY <1>1
    <3>2. l \in Nat /\ l >= 1 /\ b \in Int /\ b + l - 1 = last /\ f \in Nat /\ f + l = n
      BY <2>2
    <3> HIDE DEF last
    <3>3. l + 1 >= 1 /\ b + (l + 1) - 1 = last + 1 /\ f + (l + 1) = n + 1
      BY <3>1, <3>2
    <3> QED
      BY <3>1, <3>3
  <2> QED
    BY <1>2, <1>4, <1>5, <2>1, <2>3, <2>4 DEF Whole, n
<1>9. ASSUME NEW j \in 1 .. m, NEW col \in Int
      PROVE  /\ j # m \/ col # c => RunChange(new, j, col) = RunChange(acc, j, col)
             /\ j = m /\ col = c => RunChange(new, j, col) = g /\ RunChange(acc, j, col) = 0
  <2> DEFINE b == acc.runs[j][1]
             l == acc.runs[j][2]
             l2 == new.runs[j][2]
             f == Fed(acc, j)
             i == f + (col - b) + 1
             in == col \in b .. b + l - 1
             in2 == col \in b .. b + l2 - 1
  <2>1. b \in Int /\ l \in Nat /\ f \in Nat /\ (in => i \in 1 .. n)
    BY PlacesLaw DEF m
  <2>2. RunChange(acc, j, col) = IF in THEN acc.deltas[i] ELSE 0
    BY DEF RunChange
  <2>3. RunChange(new, j, col) = IF in2 THEN new.deltas[i] ELSE 0
    BY <1>5, <1>6 DEF RunChange
  <2>4. l2 = IF j = m THEN l + 1 ELSE l
    BY <1>5
  <2>5. j = m => b + l - 1 = acc.last /\ f + l = n
    BY <1>7
  <2> HIDE DEF b, l, l2, f
  <2>6. ASSUME j # m \/ col # c PROVE in2 <=> in
    BY <1>1, <2>1, <2>4, <2>5, <2>6
  <2>7. ASSUME j = m, col = c PROVE in2 /\ ~in /\ i = n + 1
    <3>1. col = b + l /\ f + l = n /\ l2 = l + 1
      BY <1>1, <2>1, <2>4, <2>5, <2>7
    <3>2. in2 /\ ~in
      BY <2>1, <3>1
    <3>3. i = n + 1
      <4> HIDE DEF n
      <4> QED
        BY <2>1, <3>1
    <3> QED
      BY <3>2, <3>3
  <2> HIDE DEF in, in2, i
  <2>8. ASSUME j # m \/ col # c PROVE RunChange(new, j, col) = RunChange(acc, j, col)
    BY <1>4, <2>1, <2>2, <2>3, <2>6, <2>8
  <2>9. ASSUME j = m, col = c PROVE RunChange(new, j, col) = g /\ RunChange(acc, j, col) = 0
    BY <1>4, <2>2, <2>3, <2>7, <2>9
  <2> QED
    BY <2>8, <2>9
<1>10. ASSUME NEW col \in Int
       PROVE  Cong(q, RunChange(new, m, col), RunChange(acc, m, col) + (IF c = col THEN change ELSE 0))
  <2> DEFINE u == RunChange(acc, m, col)
             v == RunChange(new, m, col)
             goal == Cong(q, v, u + (IF c = col THEN change ELSE 0))
  <2> SUFFICES goal
    OBVIOUS
  <2>1. u \in Int
    BY <1>2, RunChangeInt DEF m
  <2>2. /\ col # c => v = u
        /\ col = c => v = g /\ u = 0
    BY <1>2, <1>9
  <2> HIDE DEF u, v
  <2>3. CASE col = c
    <3>1. u + change = change
      BY <2>2, <2>3
    <3> QED
      BY <1>3, <2>2, <2>3, <3>1 DEF goal
  <2>4. CASE col # c
    <3>1. u + 0 = u
      BY <2>1
    <3>2. Cong(q, v, u)
      BY <1>1, <2>1, <2>2, <2>4, CongRefl
    <3> QED
      BY <2>4, <3>1, <3>2 DEF goal
  <2> QED
    BY <2>3, <2>4
<1>11. ASSUME NEW col \in Int, NEW j \in 1 .. m - 1 PROVE RunChange(new, j, col) = RunChange(acc, j, col)
  <2>1. j \in 1 .. m /\ j # m
    BY <1>1
  <2> QED
    BY <1>9, <2>1
<1> QED
  BY <1>2, <1>5, <1>8, <1>10, <1>11 DEF Pushed, m

\* Any other column: a run of its own.
LEMMA PushNew ==
  ASSUME NEW acc \in Built, Whole(acc), NEW new \in Built, NEW c \in Nat, NEW change \in Int,
         new.runs = Append(acc.runs, <<c, 1>>), new.last = c,
         new.deltas = Append(acc.deltas, change % q)
  PROVE  Pushed(acc, new, c, change)
<1> DEFINE m == Len(acc.runs)
           n == Len(acc.deltas)
           g == change % q
           M == m + 1
<1>1. /\ acc.runs \in Seq(Int \X Nat) /\ acc.deltas \in Seq(Int) /\ m \in Nat /\ n \in Nat
      /\ q \in Nat \ {0} /\ acc.last \in Int
  BY Constants DEF Built
<1>2. M \in Nat \ {0} /\ m = M - 1
  BY <1>1
<1>3. g \in Int /\ Cong(q, g, change)
  BY WordOf
<1> HIDE DEF g
<1>4. /\ Len(new.deltas) = n + 1 /\ new.deltas[n + 1] = g
      /\ \A i \in 1 .. n : new.deltas[i] = acc.deltas[i]
  BY <1>1, <1>3, AppendLaw DEF g
<1>5. /\ Len(new.runs) = M /\ new.runs[M] = <<c, 1>>
      /\ \A i \in 1 .. m : new.runs[i] = acc.runs[i]
  <2> DEFINE e == <<c, 1>>
             S == Int \X Nat
  <2>1. e \in S /\ acc.runs \in Seq(S)
    BY <1>1
  <2> HIDE DEF e, S
  <2>2. /\ Len(Append(acc.runs, e)) = Len(acc.runs) + 1
        /\ \A i \in 1 .. Len(acc.runs) : Append(acc.runs, e)[i] = acc.runs[i]
        /\ Append(acc.runs, e)[Len(acc.runs) + 1] = e
    BY <2>1, AppendLaw
  <2> QED
    BY <2>2 DEF e
<1>6. new.runs[M][1] = c /\ new.runs[M][2] = 1
  BY <1>5
<1> HIDE DEF m, M
<1>7. ASSUME NEW j \in 1 .. M PROVE Fed(new, j) = Fed(acc, j)
  <2>1. \A i \in 1 .. (j - 1) : i \in 1 .. m
    BY <1>1, <1>2
  <2>2. \A i \in 1 .. (j - 1) : acc.runs[i][2] = new.runs[i][2]
    BY <1>5, <2>1
  <2>3. j \in Nat
    OBVIOUS
  <2> QED
    BY <2>2, <2>3, FedSame
<1>8. Fed(acc, M) = n
  <2>1. CASE m = 0
    <3>1. n = 0
      BY <2>1 DEF Whole, m
    <3>2. Fed(acc, 1) = 0
      BY <1>1, FedLaw
    <3>3. M = 1
      BY <2>1 DEF M
    <3> QED
      BY <3>1, <3>2, <3>3
  <2>2. CASE m # 0
    <3>1. m \in 1 .. m /\ m > 0
      BY <1>1, <2>2
    <3>2. Fed(acc, m) + acc.runs[m][2] = n
      BY <3>1 DEF Whole, m
    <3>3. Fed(acc, m + 1) = Fed(acc, m) + acc.runs[m][2]
      BY <1>1, <3>1, FedLaw DEF m
    <3> QED
      BY <3>2, <3>3 DEF M
  <2> QED
    BY <2>1, <2>2
<1>9. M \in 1 .. M /\ \A j \in 1 .. m : j \in 1 .. M
  BY <1>1, <1>2
<1>10. \A j \in 1 .. M - 1 : Fed(acc, j) + acc.runs[j][2] <= n
  <2> TAKE j \in 1 .. M - 1
  <2>1. j \in 1 .. m /\ m \in 1 .. m /\ m > 0
    BY <1>1, <1>2
  <2>2. Fed(acc, m) \in Nat /\ acc.runs[m][2] \in Nat /\ Fed(acc, j) \in Nat /\ acc.runs[j][2] \in Nat
    BY <2>1, PlacesLaw DEF m
  <2>3. /\ Fed(acc, m) + acc.runs[m][2] = n
        /\ j # m => Fed(acc, j) + acc.runs[j][2] <= Fed(acc, m)
    <3>1. j # m => j \in 1 .. m - 1
      BY <1>1, <2>1
    <3> QED
      BY <2>1, <3>1 DEF Whole, m
  <2> DEFINE f == Fed(acc, m)
             l == acc.runs[m][2]
             fj == Fed(acc, j)
             lj == acc.runs[j][2]
  <2>4. f \in Nat /\ l \in Nat /\ fj \in Nat /\ lj \in Nat /\ f + l = n /\ (j # m => fj + lj <= f)
    BY <2>2, <2>3
  <2>5. j = m => fj = f /\ lj = l
    OBVIOUS
  <2> HIDE DEF f, l, fj, lj, n
  <2>6. fj + lj <= n
    BY <2>4, <2>5
  <2> QED
    BY <2>6 DEF fj, lj
<1>11. Whole(new)
  <2>1. Len(new.runs) = M /\ M # 0 /\ M > 0
    BY <1>2, <1>5
  <2>2. new.runs[M][2] >= 1 /\ new.runs[M][1] + new.runs[M][2] - 1 = new.last
    <3>1. c + 1 - 1 = c /\ 1 >= 1
      OBVIOUS
    <3> QED
      BY <1>6, <3>1
  <2>3. Fed(new, M) = n
    BY <1>7, <1>8, <1>9
  <2>4. Fed(new, M) + new.runs[M][2] = Len(new.deltas)
    BY <1>4, <1>6, <2>3
  <2>5. ASSUME NEW j \in 1 .. M - 1 PROVE Fed(new, j) + new.runs[j][2] <= Fed(new, M)
    <3>1. j \in 1 .. m /\ j \in 1 .. M
      BY <1>1, <1>2, <1>9
    <3>2. Fed(new, j) = Fed(acc, j) /\ new.runs[j] = acc.runs[j]
      BY <1>5, <1>7, <3>1
    <3> QED
      BY <1>10, <2>3, <3>2
  <2> QED
    BY <2>1, <2>2, <2>4, <2>5 DEF Whole
<1>12. ASSUME NEW j \in 1 .. M - 1, NEW col \in Int PROVE RunChange(new, j, col) = RunChange(acc, j, col)
  <2> DEFINE b == acc.runs[j][1]
             l == acc.runs[j][2]
             f == Fed(acc, j)
             i == f + (col - b) + 1
             in == col \in b .. b + l - 1
  <2>0. j \in 1 .. m /\ j \in 1 .. M
    BY <1>1, <1>2, <1>9
  <2>1. in => i \in 1 .. n
    BY <2>0, PlacesLaw DEF m
  <2>2. RunChange(acc, j, col) = IF in THEN acc.deltas[i] ELSE 0
    BY DEF RunChange
  <2>3. RunChange(new, j, col) = IF in THEN new.deltas[i] ELSE 0
    BY <1>5, <1>7, <2>0 DEF RunChange
  <2> HIDE DEF in, i
  <2> QED
    BY <1>4, <2>1, <2>2, <2>3
<1>13. ASSUME NEW col \in Int PROVE RunChange(new, M, col) = IF c = col THEN g ELSE 0
  <2>1. Fed(new, M) = n
    BY <1>7, <1>8, <1>9
  <2>2. RunChange(new, M, col) = IF col \in c .. c + 1 - 1 THEN new.deltas[n + (col - c) + 1] ELSE 0
    BY <1>6, <2>1 DEF RunChange
  <2>3. col \in c .. c + 1 - 1 <=> c = col
    OBVIOUS
  <2>4. c = col => n + (col - c) + 1 = n + 1
    BY <1>1
  <2> QED
    BY <1>4, <2>2, <2>3, <2>4
<1>14. ASSUME NEW col \in Int
       PROVE  Cong(q, RunChange(new, M, col), 0 + (IF c = col THEN change ELSE 0))
  <2> DEFINE v == RunChange(new, M, col)
             goal == Cong(q, v, 0 + (IF c = col THEN change ELSE 0))
  <2> SUFFICES goal
    OBVIOUS
  <2>1. v = IF c = col THEN g ELSE 0
    BY <1>13
  <2> HIDE DEF v
  <2>2. CASE c = col
    <3>1. 0 + change = change
      OBVIOUS
    <3> QED
      BY <1>3, <2>1, <2>2, <3>1 DEF goal
  <2>3. CASE c # col
    <3>1. Cong(q, 0, 0)
      BY <1>1, CongRefl
    <3> QED
      BY <2>1, <2>3, <3>1 DEF goal
  <2> QED
    BY <2>2, <2>3
<1>15. Len(new.runs) # Len(acc.runs) /\ Len(new.runs) = Len(acc.runs) + 1
  BY <1>1, <1>5 DEF m, M
<1>16. Len(new.runs) = M
  BY <1>5
<1> QED
  BY <1>2, <1>11, <1>12, <1>14, <1>15, <1>16 DEF Pushed

\* Taking a change adds it to its column, modulo q, and to no other.
LEMMA PushLaw ==
  ASSUME NEW row \in 0 .. n_rows - 1, NEW cells \in Seq(Cells), NEW x \in DOMAIN cells,
         ColOf(row, cells, x) \in Nat, NEW acc \in Built, Whole(acc)
  PROVE  Pushed(acc, Push(row, cells, acc, x), ColOf(row, cells, x), cells[x][2])
<1> DEFINE n == Len(acc.deltas)
           m == Len(acc.runs)
           c == ColOf(row, cells, x)
           change == cells[x][2]
           new == Push(row, cells, acc, x)
<1>1. acc = [deltas |-> acc.deltas, runs |-> acc.runs, last |-> acc.last]
  BY DEF Built
<1>2. change \in Int
  <2>1. cells[x] \in Cells
    OBVIOUS
  <2> QED
    BY <2>1 DEF Cells
<1>3. new \in Built
  BY PushType
<1>4. c \in Nat
  OBVIOUS
<1>5. CASE c = acc.last
  <2> DEFINE d == [acc.deltas EXCEPT ![n] = (@ + (change % q)) % q]
  <2>1. new = [acc EXCEPT !.deltas = d]
    BY <1>5 DEF Push
  <2> HIDE DEF d, new, c, change
  <2>2. new.deltas = d /\ new.runs = acc.runs /\ new.last = acc.last
    BY <1>1, <2>1
  <2> QED
    BY <1>2, <1>3, <1>4, <1>5, <2>2, PushEqual DEF d, new, c, change
<1>6. CASE c # acc.last /\ c = acc.last + 1
  <2> DEFINE e == [acc.runs EXCEPT ![m][2] = @ + 1]
             d == Append(acc.deltas, change % q)
  <2>1. new = [deltas |-> d, runs |-> e, last |-> c]
    BY <1>6 DEF Push
  <2> HIDE DEF d, e, new, c, change
  <2>2. new.deltas = d /\ new.runs = e /\ new.last = c
    BY <2>1
  <2> QED
    BY <1>2, <1>3, <1>4, <1>6, <2>2, PushNext DEF d, e, new, c, change
<1>7. CASE c # acc.last /\ c # acc.last + 1
  <2> DEFINE e == Append(acc.runs, <<c, 1>>)
             d == Append(acc.deltas, change % q)
  <2>1. new = [deltas |-> d, runs |-> e, last |-> c]
    BY <1>7 DEF Push
  <2> HIDE DEF d, e, new, c, change
  <2>2. new.deltas = d /\ new.runs = e /\ new.last = c
    BY <2>1
  <2> QED
    BY <1>2, <1>3, <1>4, <1>7, <2>2, PushNew DEF d, e, new, c, change
<1> QED
  BY <1>5, <1>6, <1>7

RunTerms(acc, col) == [j \in DOMAIN acc.runs |-> RunChange(acc, j, col)]

\* The runs add integers.
LEMMA RunTermsInt ==
  ASSUME NEW acc \in Built, Whole(acc), NEW col \in Int
  PROVE  /\ Len(acc.runs) \in Nat /\ RunTerms(acc, col) \in [1 .. Len(acc.runs) -> Int]
         /\ \A j \in 1 .. Len(acc.runs) : RunTerms(acc, col)[j] = RunChange(acc, j, col)
         /\ IsFiniteSet(1 .. Len(acc.runs))
         /\ SumFunction(RunTerms(acc, col)) \in Int
<1> DEFINE m == Len(acc.runs)
           S == 1 .. m
           f == RunTerms(acc, col)
<1>1. m \in Nat /\ DOMAIN acc.runs = S
  <2>1. acc.runs \in Seq(Int \X Nat)
    BY DEF Built
  <2> QED
    BY <2>1
<1>2. \A j \in S : RunChange(acc, j, col) \in Int
  BY RunChangeInt
<1>3. f = [j \in S |-> RunChange(acc, j, col)]
  BY <1>1 DEF RunTerms
<1>4. IsFiniteSet(S)
  BY <1>1, FS_Interval
<1> HIDE DEF f, S
<1>5. f \in [S -> Int] /\ \A j \in S : f[j] = RunChange(acc, j, col)
  BY <1>2, <1>3
<1>6. SumFunction(f) \in Int
  BY <1>4, <1>5, SumInt
<1> QED
  BY <1>1, <1>4, <1>5, <1>6 DEF f, S

\* The sum of a function on 1 .. n, its last value apart.
LEMMA SumLast ==
  ASSUME NEW n \in Nat \ {0}, NEW f \in [1 .. n -> Int]
  PROVE  /\ SumFunction(On(f, 1 .. (n - 1))) \in Int
         /\ SumFunction(f) = f[n] + SumFunction(On(f, 1 .. (n - 1)))
<1>1. n \in 1 .. n /\ n \in Nat
  OBVIOUS
<1>2. On(f, 1 .. n) = f
  BY DEF On
<1>3. /\ SumFunction(On(f, 1 .. (n - 1))) \in Int
      /\ SumFunction(On(f, 1 .. n)) = f[n] + SumFunction(On(f, 1 .. (n - 1)))
  BY <1>1, SumPrefix
<1> QED
  BY <1>2, <1>3

\* The sum over the runs grows by the change taken.
LEMMA PushedSum ==
  ASSUME NEW acc \in Built, Whole(acc), NEW new, NEW c, NEW change \in Int, Pushed(acc, new, c, change),
         NEW col \in Int
  PROVE  Cong(q, SumFunction(RunTerms(new, col)),
              SumFunction(RunTerms(acc, col)) + (IF c = col THEN change ELSE 0))
<1> DEFINE m == Len(acc.runs)
           M == Len(new.runs)
           f == RunTerms(acc, col)
           g == RunTerms(new, col)
           d == IF c = col THEN change ELSE 0
<1>1. /\ new \in Built /\ Whole(new) /\ M \in Nat \ {0} /\ (M = m \/ M = m + 1)
      /\ \A j \in 1 .. M - 1 : RunChange(new, j, col) = RunChange(acc, j, col)
      /\ Cong(q, RunChange(new, M, col), (IF M = m THEN RunChange(acc, m, col) ELSE 0) + d)
  BY DEF Pushed
<1>2. /\ f \in [1 .. m -> Int] /\ m \in Nat /\ SumFunction(f) \in Int
      /\ \A j \in 1 .. m : f[j] = RunChange(acc, j, col)
  BY RunTermsInt
<1>3. /\ g \in [1 .. M -> Int] /\ SumFunction(g) \in Int
      /\ \A j \in 1 .. M : g[j] = RunChange(new, j, col)
  BY <1>1, RunTermsInt
<1>4. d \in Int /\ q \in Nat \ {0}
  BY Constants
<1> HIDE DEF m, M, f, g, d
<1> DEFINE s == SumFunction(On(g, 1 .. (M - 1)))
<1>5. s \in Int /\ SumFunction(g) = g[M] + s /\ g[M] \in Int /\ g[M] = RunChange(new, M, col)
  <2>1. M \in 1 .. M
    BY <1>1
  <2> QED
    BY <1>1, <1>3, <2>1, SumLast
<1>6. ASSUME NEW u \in Int, Cong(q, g[M], u + d), SumFunction(f) = u + s
      PROVE  Cong(q, SumFunction(g), SumFunction(f) + d)
  <2> DEFINE gM == g[M]
  <2>1. gM \in Int /\ Cong(q, gM, u + d) /\ SumFunction(g) = gM + s
    BY <1>5, <1>6
  <2> HIDE DEF s, gM
  <2>2. Cong(q, s, s) /\ u + d \in Int
    BY <1>4, <1>5, CongRefl
  <2>3. Cong(q, gM + s, (u + d) + s)
    BY <1>4, <1>5, <2>1, <2>2, CongAdd
  <2>4. (u + d) + s = SumFunction(f) + d
    BY <1>4, <1>5, <1>6
  <2> QED
    BY <2>1, <2>3, <2>4
<1>7. CASE M = m
  <2>1. m \in Nat \ {0} /\ m \in 1 .. m
    BY <1>1, <1>7
  <2>2. SumFunction(f) = f[m] + SumFunction(On(f, 1 .. (m - 1)))
    BY <1>2, <2>1, SumLast
  <2>3. On(f, 1 .. (m - 1)) = On(g, 1 .. (M - 1))
    <3>1. \A j \in 1 .. (m - 1) : j \in 1 .. m
      BY <1>2
    <3>2. \A j \in 1 .. (m - 1) : f[j] = g[j]
      BY <1>1, <1>2, <1>3, <1>7, <3>1
    <3> QED
      BY <1>7, <3>2 DEF On
  <2>4. f[m] \in Int /\ f[m] = RunChange(acc, m, col)
    BY <1>2, <2>1
  <2>5. Cong(q, g[M], f[m] + d)
    BY <1>1, <1>5, <1>7, <2>4
  <2>6. SumFunction(f) = f[m] + s
    BY <2>2, <2>3
  <2> HIDE DEF s
  <2>7. Cong(q, SumFunction(g), SumFunction(f) + d)
    BY <1>6, <2>4, <2>5, <2>6
  <2> QED
    BY <2>7 DEF f, g, d
<1>8. CASE M # m
  <2>1. M = m + 1 /\ M - 1 = m
    BY <1>1, <1>2, <1>8
  <2>2. On(g, 1 .. (M - 1)) = f
    <3>1. \A j \in 1 .. m : j \in 1 .. M
      BY <1>2, <2>1
    <3>2. \A j \in 1 .. m : f[j] = g[j]
      BY <1>1, <1>2, <1>3, <2>1, <3>1
    <3>3. On(g, 1 .. (M - 1)) = [j \in 1 .. m |-> g[j]]
      BY <2>1 DEF On
    <3>4. f = [j \in 1 .. m |-> f[j]]
      BY <1>2
    <3> QED
      BY <3>2, <3>3, <3>4
  <2>3. Cong(q, g[M], 0 + d)
    BY <1>1, <1>5, <1>8
  <2>4. SumFunction(f) = 0 + s
    <3>1. SumFunction(f) = s
      BY <2>2
    <3> HIDE DEF s
    <3> QED
      BY <1>5, <3>1
  <2> DEFINE u == 0
  <2>5. u \in Int /\ Cong(q, g[M], u + d) /\ SumFunction(f) = u + s
    BY <2>3, <2>4
  <2> HIDE DEF s, u
  <2>6. Cong(q, SumFunction(g), SumFunction(f) + d)
    BY <1>6, <2>5
  <2> QED
    BY <2>6 DEF f, g, d
<1> QED
  BY <1>7, <1>8

-----------------------------------------------------------------------------
(* What the runs of a row hold is what its cells change. *)

Kept(cells) == {x \in DOMAIN cells : cells[x][2] # 0}

ColTerms(row, cells, s, col) ==
  [i \in 1 .. Cardinality(Kept(cells)) |-> IF ColOf(row, cells, s[i]) = col THEN cells[s[i]][2] ELSE 0]

\* The changes of a row.
LEMMA CellsLaw ==
  ASSUME NEW cells \in Seq(Cells)
  PROVE  /\ DOMAIN cells = 1 .. Len(cells) /\ Len(cells) \in Nat /\ IsFiniteSet(DOMAIN cells)
         /\ Kept(cells) \in SUBSET (1 .. Len(cells))
         /\ \A x \in DOMAIN cells : cells[x][1] \in 0 .. row_width - 1 /\ cells[x][2] \in Int
<1>1. DOMAIN cells = 1 .. Len(cells) /\ Len(cells) \in Nat
  OBVIOUS
<1>2. IsFiniteSet(1 .. Len(cells))
  BY <1>1, FS_Interval
<1>3. ASSUME NEW x \in DOMAIN cells PROVE cells[x][1] \in 0 .. row_width - 1 /\ cells[x][2] \in Int
  <2>1. cells[x] \in Cells
    OBVIOUS
  <2> QED
    BY <2>1 DEF Cells
<1>4. Kept(cells) \in SUBSET (1 .. Len(cells))
  BY <1>1 DEF Kept
<1> QED
  BY <1>1, <1>2, <1>3, <1>4

\* The column of a change is within the hint.
LEMMA ColOfLaw ==
  ASSUME backend \in Backends, NEW row \in 0 .. n_rows - 1, NEW cells \in Seq(Cells),
         NEW x \in DOMAIN cells
  PROVE  /\ ColOf(row, cells, x) \in 0 .. Width(k) - 1 /\ ColOf(row, cells, x) \in Nat
         /\ \A j \in Int : ColOf(row, cells, x) = j <=> cells[x][1] = j - ReshapeOff(row, 0, k)
<1> DEFINE off == cells[x][1]
           p == (row % k) * row_width
<1>1. off \in 0 .. row_width - 1 /\ k \in Nat \ {0} /\ row \in Nat /\ row_width \in Nat /\ n_rows \in Nat
      /\ Width(k) = k * row_width
  BY CellsLaw, KLaw, Constants
<1>2. ReshapeOff(row, off, k) \in 0 .. k * row_width - 1
  <2> HIDE DEF off
  <2> QED
    BY <1>1, PlaceOf
<1>3. p \in Nat
  <2>1. row % k \in Nat
    BY <1>1, DivMod
  <2> QED
    BY <1>1, <2>1
<1>4. ReshapeOff(row, off, k) = p + off /\ ReshapeOff(row, 0, k) = p + 0
  BY DEF ReshapeOff
<1>5. ColOf(row, cells, x) = ReshapeOff(row, off, k)
  BY DEF ColOf
<1> HIDE DEF off, p
<1>6. \A j \in Int : p + off = j <=> off = j - (p + 0)
  BY <1>1, <1>3
<1>7. ColOf(row, cells, x) \in 0 .. Width(k) - 1 /\ ColOf(row, cells, x) \in Nat
  BY <1>1, <1>2, <1>5
<1> QED
  BY <1>4, <1>5, <1>6, <1>7 DEF off

\* Every change of the row is taken, each once.
LEMMA ColTermsLaw ==
  ASSUME backend \in Backends, NEW row \in 0 .. n_rows - 1, NEW cells \in Seq(Cells), NEW col \in Int,
         NEW s \in [1 .. Cardinality(Kept(cells)) -> Kept(cells)],
         \A i \in DOMAIN s : \A j \in DOMAIN s : s[i] = s[j] => i = j,
         \A x \in Kept(cells) : \E i \in DOMAIN s : s[i] = x,
         Cardinality(Kept(cells)) \in Nat
  PROVE  /\ ColTerms(row, cells, s, col) \in [1 .. Cardinality(Kept(cells)) -> Int]
         /\ SumFunction(ColTerms(row, cells, s, col)) = RowChange(cells, col - ReshapeOff(row, 0, k))
<1> DEFINE S == 1 .. Cardinality(Kept(cells))
           T == DOMAIN cells
           A == {x \in T : cells[x][1] = col - ReshapeOff(row, 0, k)}
           f == ColTerms(row, cells, s, col)
           g == [x \in T |-> IF x \in A THEN cells[x][2] ELSE 0]
           h == [x \in A |-> cells[x][2]]
           id == [x \in A |-> x]
<1>1. /\ IsFiniteSet(T) /\ Kept(cells) \in SUBSET T
      /\ \A x \in T : cells[x][1] \in 0 .. row_width - 1 /\ cells[x][2] \in Int
  BY CellsLaw
<1>2. IsFiniteSet(S) /\ IsFiniteSet(A)
  <2>1. IsFiniteSet(S)
    BY FS_Interval
  <2>2. IsFiniteSet(A)
    BY <1>1, FS_Subset
  <2> QED
    BY <2>1, <2>2
<1>3. \A x \in T : ColOf(row, cells, x) = col <=> x \in A
  BY ColOfLaw
<1>4. g \in [T -> Int] /\ h \in [A -> Int]
  BY <1>1
<1>5. ASSUME NEW i \in S PROVE s[i] \in T /\ f[i] = g[s[i]] /\ f[i] \in Int
  <2>1. s[i] \in Kept(cells)
    OBVIOUS
  <2>2. s[i] \in T
    BY <1>1, <2>1
  <2>3. f[i] = IF ColOf(row, cells, s[i]) = col THEN cells[s[i]][2] ELSE 0
    BY DEF ColTerms
  <2>4. g[s[i]] = IF s[i] \in A THEN cells[s[i]][2] ELSE 0
    BY <2>2
  <2> HIDE DEF A, f, g, T, S
  <2> QED
    BY <1>1, <1>3, <2>2, <2>3, <2>4
<1>6. f = [i \in S |-> f[i]]
  BY DEF ColTerms
<1>7. Renames(s, S, T, f, g)
  <2>1. f \in [S -> Int]
    <3> HIDE DEF f, S
    <3> QED
      BY <1>5, <1>6
  <2>2. s \in [S -> T]
    BY <1>1
  <2>3. ASSUME NEW x \in T, g[x] # 0 PROVE \E i \in S : s[i] = x
    <3>1. x \in Kept(cells)
      BY <2>3 DEF Kept
    <3> QED
      BY <3>1
  <2>4. \A i \in S : \A j \in S : s[i] = s[j] => i = j
    OBVIOUS
  <2> HIDE DEF f, g, S, T
  <2>5. \A i \in S : g[s[i]] = f[i]
    BY <1>5
  <2> QED
    BY <1>4, <2>1, <2>2, <2>3, <2>4, <2>5 DEF Renames
<1>8. Renames(id, A, T, h, g)
  <2>1. id \in [A -> T] /\ \A x \in A : id[x] = x /\ g[x] = h[x] /\ x \in T
    OBVIOUS
  <2>2. \A x \in T : g[x] # 0 => x \in A
    OBVIOUS
  <2> HIDE DEF id, A, T, h, g
  <2>3. \A x \in A : g[id[x]] = h[x]
    BY <2>1
  <2>4. \A x \in A : \A y \in A : id[x] = id[y] => x = y
    BY <2>1
  <2>5. \A t \in T : g[t] # 0 => \E x \in A : id[x] = t
    BY <2>1, <2>2
  <2> QED
    BY <1>4, <2>1, <2>3, <2>4, <2>5 DEF Renames
<1>9. RowChange(cells, col - ReshapeOff(row, 0, k)) = SumFunction(h)
  BY DEF RowChange
<1> HIDE DEF f, g, h, id, A, S, T
<1>10. SumFunction(f) = SumFunction(g)
  BY <1>1, <1>2, <1>7, SumRenamed
<1>11. SumFunction(h) = SumFunction(g)
  BY <1>1, <1>2, <1>8, SumRenamed
<1>12. f \in [S -> Int]
  BY <1>5, <1>6
<1> QED
  BY <1>9, <1>10, <1>11, <1>12 DEF f, S

\* The runs after t of the changes, in the order of s.
TakeInv(row, cells, s, acc, t) ==
  /\ acc \in Built /\ Whole(acc)
  /\ \A col \in Int : Cong(q, SumFunction(RunTerms(acc, col)),
                              SumFunction(On(ColTerms(row, cells, s, col), 1 .. t)))

NoRuns == [deltas |-> <<>>, runs |-> <<>>, last |-> -2]

\* All the changes in place order, as the sort of the code takes them.
Order(row, cells, s) ==
  \A i, j \in DOMAIN s :
    i < j => \/ ColOf(row, cells, s[i]) < ColOf(row, cells, s[j])
             \/ ColOf(row, cells, s[i]) = ColOf(row, cells, s[j]) /\ s[i] < s[j]

Scratch(row, cells) ==
  CHOOSE s \in [1 .. Cardinality(Kept(cells)) -> Kept(cells)] : Order(row, cells, s)

AllTaken(row, cells, s) ==
  s \in [1 .. Cardinality(Kept(cells)) -> Kept(cells)] /\ Numbers(Kept(cells), s)

\* The places in the order are all of them.
LEMMA AllTakenLaw ==
  ASSUME NEW row, NEW cells, NEW s, AllTaken(row, cells, s)
  PROVE  /\ s \in [1 .. Cardinality(Kept(cells)) -> Kept(cells)]
         /\ Cardinality(Kept(cells)) \in Nat
         /\ \A i \in DOMAIN s : \A j \in DOMAIN s : s[i] = s[j] => i = j
         /\ \A x \in Kept(cells) : \E i \in DOMAIN s : s[i] = x
BY DEF AllTaken, Numbers

\* The sorted places (the scratch vector of the code).
LEMMA ScratchLaw ==
  ASSUME backend \in Backends, NEW row \in 0 .. n_rows - 1, NEW cells \in Seq(Cells)
  PROVE  AllTaken(row, cells, Scratch(row, cells))
<1> DEFINE n == Len(cells)
           w == Width(k)
           T == Kept(cells)
           col == [x \in 1 .. n |-> ColOf(row, cells, x)]
<1>1. n \in Nat /\ DOMAIN cells = 1 .. n /\ T \in SUBSET (1 .. n)
  BY CellsLaw
<1>2. w \in Nat
  BY KLaw
<1>3. col \in [1 .. n -> 0 .. w - 1] /\ \A x \in 1 .. n : col[x] = ColOf(row, cells, x)
  <2>1. \A x \in 1 .. n : ColOf(row, cells, x) \in 0 .. w - 1
    BY <1>1, ColOfLaw
  <2> QED
    BY <2>1
<1> HIDE DEF n, w, T, col
<1>4. PICK e \in [1 .. Cardinality(T) -> T] : Sorted(col, e)
  BY <1>1, <1>2, <1>3, SortedExists
<1>5. ASSUME NEW s \in [1 .. Cardinality(T) -> T] PROVE Order(row, cells, s) <=> Sorted(col, s)
  <2>1. DOMAIN s = 1 .. Cardinality(T) /\ \A i \in DOMAIN s : s[i] \in 1 .. n
    BY <1>1
  <2>2. \A i \in DOMAIN s : ColOf(row, cells, s[i]) = col[s[i]]
    BY <1>3, <2>1
  <2> QED
    BY <2>2 DEF Order, Sorted, Before
<1> DEFINE s == Scratch(row, cells)
<1>6. s \in [1 .. Cardinality(T) -> T] /\ Order(row, cells, s)
  <2>1. \E f \in [1 .. Cardinality(T) -> T] : Order(row, cells, f)
    BY <1>4, <1>5
  <2>2. s = CHOOSE f \in [1 .. Cardinality(T) -> T] : Order(row, cells, f)
    BY Zenon DEF Scratch, T
  <2> HIDE DEF s
  <2> QED
    BY <2>1, <2>2
<1> HIDE DEF s
<1>7. Sorted(col, s)
  BY <1>5, <1>6
<1>8. Numbers(T, s)
  BY <1>1, <1>2, <1>3, <1>6, <1>7, SortedIsAll
<1> QED
  BY <1>6, <1>8 DEF AllTaken, T, s

\* Before the first change there are no runs.
LEMMA TakeStart ==
  ASSUME backend \in Backends, NEW row \in 0 .. n_rows - 1, NEW cells \in Seq(Cells), NEW s,
         AllTaken(row, cells, s)
  PROVE  NoRuns \in Built /\ TakeInv(row, cells, s, NoRuns, 0)
<1>1. NoRuns \in Built
  <2>1. <<>> \in Seq(Int) /\ <<>> \in Seq(Int \X Nat) /\ -2 \in Int
    OBVIOUS
  <2> QED
    BY <2>1 DEF NoRuns, Built
<1>2. Whole(NoRuns)
  BY DEF Whole, NoRuns
<1>3. ASSUME NEW col \in Int
      PROVE  Cong(q, SumFunction(RunTerms(NoRuns, col)), SumFunction(On(ColTerms(row, cells, s, col), 1 .. 0)))
  <2> DEFINE f == RunTerms(NoRuns, col)
             g == ColTerms(row, cells, s, col)
             T == 1 .. Cardinality(Kept(cells))
  <2>1. f \in [{} -> Int]
    <3>1. DOMAIN NoRuns.runs = {}
      BY DEF NoRuns
    <3> QED
      BY <3>1 DEF RunTerms
  <2>2. IsFiniteSet({})
    BY FS_EmptySet
  <2>3. SumFunction(f) = 0
    <3> HIDE DEF f
    <3> QED
      BY <2>1, <2>2, SumLaw
  <2>4. g \in [T -> Int] /\ IsFiniteSet(T)
    <3>1. g \in [T -> Int]
      BY ColTermsLaw, AllTakenLaw
    <3>2. IsFiniteSet(T)
      BY FS_Interval, AllTakenLaw
    <3> QED
      BY <3>1, <3>2
  <2>5. SumFunction(On(g, 1 .. 0)) = 0
    <3>1. 1 .. 0 = {}
      OBVIOUS
    <3> HIDE DEF g, T
    <3>2. SumFunction(On(g, {})) = 0
      BY <2>4, PartLaw
    <3> QED
      BY <3>1, <3>2
  <2>6. Cong(q, 0, 0)
    BY Constants, CongRefl
  <2> HIDE DEF f, g
  <2> QED
    BY <2>3, <2>5, <2>6 DEF f, g
<1> QED
  BY <1>1, <1>2, <1>3 DEF TakeInv

\* The invariant of the fold: the runs hold the changes taken so far.
LEMMA TakeStep ==
  ASSUME backend \in Backends, NEW row \in 0 .. n_rows - 1, NEW cells \in Seq(Cells), NEW s,
         AllTaken(row, cells, s), NEW t \in 1 .. Cardinality(Kept(cells)), NEW acc,
         TakeInv(row, cells, s, acc, t - 1)
  PROVE  TakeInv(row, cells, s, Push(row, cells, acc, s[t]), t)
<1> DEFINE x == s[t]
           c == ColOf(row, cells, x)
           change == cells[x][2]
           new == Push(row, cells, acc, x)
           n == Cardinality(Kept(cells))
<1>1. x \in DOMAIN cells /\ x \in Kept(cells) /\ change \in Int
  <2>1. x \in Kept(cells)
    BY AllTakenLaw
  <2>2. x \in DOMAIN cells
    BY <2>1, CellsLaw
  <2> QED
    BY <2>1, <2>2, CellsLaw
<1>2. c \in Nat
  <2> HIDE DEF x
  <2> QED
    BY <1>1, ColOfLaw
<1>3. acc \in Built /\ Whole(acc)
  BY DEF TakeInv
<1>4. Pushed(acc, new, c, change)
  <2> HIDE DEF x
  <2> QED
    BY <1>1, <1>2, <1>3, PushLaw
<1>5. new \in Built /\ Whole(new)
  BY <1>4 DEF Pushed
<1>6. n \in Nat
  BY AllTakenLaw
<1>7. ASSUME NEW col \in Int
      PROVE  Cong(q, SumFunction(RunTerms(new, col)), SumFunction(On(ColTerms(row, cells, s, col), 1 .. t)))
  <2> DEFINE g == ColTerms(row, cells, s, col)
             before == SumFunction(On(g, 1 .. (t - 1)))
             after == SumFunction(On(g, 1 .. t))
             d == IF c = col THEN change ELSE 0
             had == SumFunction(RunTerms(acc, col))
             has == SumFunction(RunTerms(new, col))
  <2>1. g \in [1 .. n -> Int]
    BY ColTermsLaw, AllTakenLaw
  <2>2. before \in Int /\ after = g[t] + before
    <3> HIDE DEF g, n
    <3> QED
      BY <1>6, <2>1, SumPrefix DEF n
  <2>3. g[t] = d
    BY DEF ColTerms
  <2>4. Cong(q, has, had + d)
    <3> HIDE DEF new, c, change
    <3> QED
      BY <1>1, <1>3, <1>4, PushedSum
  <2>5. Cong(q, had, before)
    BY DEF TakeInv
  <2>6. had \in Int /\ has \in Int
    <3> HIDE DEF new
    <3> QED
      BY <1>3, <1>5, RunTermsInt
  <2>7. d \in Int /\ q \in Nat \ {0}
    BY <1>1, Constants
  <2> HIDE DEF g, before, after, d, had, has, c, change, new
  <2>8. Cong(q, d, d)
    BY <2>7, CongRefl
  <2>9. Cong(q, had + d, before + d)
    BY <2>2, <2>5, <2>6, <2>7, <2>8, CongAdd
  <2>10. Cong(q, has, before + d)
    <3>1. had + d \in Int /\ before + d \in Int
      BY <2>2, <2>6, <2>7
    <3> QED
      BY <2>4, <2>6, <2>7, <2>9, <3>1, CongTrans
  <2>11. before + d = after
    BY <2>2, <2>3, <2>7
  <2> QED
    BY <2>10, <2>11 DEF g, after, has
<1> QED
  BY <1>5, <1>7 DEF TakeInv

\* The fold of the changes in the order of s.
Folded(row, cells, s, g) ==
  [u \in SUBSET (1 .. Cardinality(Kept(cells))) |->
     IF u = {} THEN NoRuns ELSE Push(row, cells, g[u \ {Max(u)}], s[Max(u)])]

\* The runs of a row as the last of a series.
LEMMA RebuildIs ==
  ASSUME NEW row, NEW cells, AllTaken(row, cells, Scratch(row, cells))
  PROVE  RebuildRuns(row, cells, k)
           = (CHOOSE g : g = Folded(row, cells, Scratch(row, cells), g))[1 .. Cardinality(Kept(cells))]
<1> DEFINE s == Scratch(row, cells)
<1>1. RebuildRuns(row, cells, k) =
        (LET it[u \in SUBSET (DOMAIN s)] ==
              IF u = {} THEN NoRuns ELSE Push(row, cells, it[u \ {Max(u)}], s[Max(u)])
         IN  it[DOMAIN s])
  BY Zenon DEF RebuildRuns, FoldLeft, MapThenFoldSet, Push, ColOf, NoRuns, Scratch, Order, Kept
<1>2. DOMAIN s = 1 .. Cardinality(Kept(cells))
  BY AllTakenLaw
<1> HIDE DEF s
<1> QED
  BY <1>1, <1>2, Zenon DEF Folded, s

\* There is such a series.
LEMMA FoldedExists ==
  ASSUME backend \in Backends, NEW row \in 0 .. n_rows - 1, NEW cells \in Seq(Cells), NEW s,
         AllTaken(row, cells, s)
  PROVE  \E g : g = Folded(row, cells, s, g)
<1> DEFINE n == Cardinality(Kept(cells))
           E == Built
           op == [t \in 1 .. n |-> [acc \in E |-> Push(row, cells, acc, s[t])]]
<1>0. n \in Nat
  BY AllTakenLaw
<1>1. ASSUME NEW t \in 1 .. n, NEW acc \in E PROVE Push(row, cells, acc, s[t]) \in E
  <2> DEFINE x == s[t]
  <2>1. x \in Kept(cells)
    BY AllTakenLaw
  <2>2. x \in DOMAIN cells
    BY <2>1, CellsLaw
  <2> HIDE DEF x
  <2>3. ColOf(row, cells, x) \in Nat
    BY <2>2, ColOfLaw
  <2>4. Push(row, cells, acc, x) \in E
    BY <2>2, <2>3, PushType
  <2> QED
    BY <2>4 DEF x
<1>2. op \in [1 .. n -> [E -> E]]
  <2> HIDE DEF E, n
  <2> QED
    BY <1>1
<1>3. NoRuns \in E
  BY TakeStart
<1> HIDE DEF op, E, n
<1>4. PICK g \in [SUBSET (1 .. n) -> E] : Steps(n, NoRuns, op, g)
  BY <1>0, <1>2, <1>3, FoldLeftExists
<1>5. \A u \in SUBSET (1 .. n) : g[u] = IF u = {} THEN NoRuns ELSE op[Max(u)][g[u \ {Max(u)}]]
  BY <1>4, Zenon DEF Steps
<1>6. ASSUME NEW u \in SUBSET (1 .. n)
      PROVE  g[u] = IF u = {} THEN NoRuns ELSE Push(row, cells, g[u \ {Max(u)}], s[Max(u)])
  <2>1. CASE u = {}
    BY <1>5, <2>1
  <2>2. CASE u # {}
    <3>1. Max(u) \in 1 .. n /\ u \ {Max(u)} \in SUBSET (1 .. n)
      <4>1. Max(u) \in u
        BY <1>0, <2>2, MaxOfNumbers
      <4> QED
        BY <4>1
    <3>2. g[u \ {Max(u)}] \in E
      BY <1>4, <3>1
    <3>3. op[Max(u)][g[u \ {Max(u)}]] = Push(row, cells, g[u \ {Max(u)}], s[Max(u)])
      BY <3>1, <3>2 DEF op
    <3> QED
      BY <1>5, <2>2, <3>3
  <2> QED
    BY <2>1, <2>2
<1>7. g = Folded(row, cells, s, g)
  BY <1>4, <1>6 DEF Folded, n
<1> QED
  BY <1>7

\* The runs of a row hold all of its changes.
LEMMA AllPushed ==
  ASSUME backend \in Backends, NEW row \in 0 .. n_rows - 1, NEW cells \in Seq(Cells)
  PROVE  TakeInv(row, cells, Scratch(row, cells), RebuildRuns(row, cells, k), Cardinality(Kept(cells)))
<1> DEFINE n == Cardinality(Kept(cells))
           s == Scratch(row, cells)
           iter == CHOOSE g : g = Folded(row, cells, s, g)
           S == {t \in 0 .. n : TakeInv(row, cells, s, iter[1 .. t], t)}
<1>1. AllTaken(row, cells, s)
  BY ScratchLaw
<1>2. RebuildRuns(row, cells, k) = iter[1 .. n]
  BY <1>1, RebuildIs
<1> HIDE DEF s
<1>3. n \in Nat
  BY <1>1, AllTakenLaw
<1>4. iter = Folded(row, cells, s, iter)
  <2>1. \E g : g = Folded(row, cells, s, g)
    BY <1>1, FoldedExists
  <2> QED
    BY <2>1, Zenon
<1> HIDE DEF iter
<1>5. \A u \in SUBSET (1 .. n) :
        iter[u] = IF u = {} THEN NoRuns ELSE Push(row, cells, iter[u \ {Max(u)}], s[Max(u)])
  <2>1. iter = [u \in SUBSET (1 .. n) |->
                  IF u = {} THEN NoRuns ELSE Push(row, cells, iter[u \ {Max(u)}], s[Max(u)])]
    BY <1>4, Zenon DEF Folded
  <2> HIDE DEF n
  <2> QED
    BY <2>1
<1>6. iter[1 .. 0] = NoRuns
  <2>1. 1 .. 0 = {} /\ {} \in SUBSET (1 .. n)
    OBVIOUS
  <2> HIDE DEF n
  <2> QED
    BY <1>5, <2>1
<1>7. ASSUME NEW t \in 1 .. n PROVE iter[1 .. t] = Push(row, cells, iter[1 .. (t - 1)], s[t])
  <2>1. 1 .. t \in SUBSET (1 .. n) /\ 1 .. t # {} /\ Max(1 .. t) = t /\ (1 .. t) \ {t} = 1 .. (t - 1)
    BY <1>3, MaxOfPrefix
  <2> HIDE DEF n
  <2> QED
    BY <1>5, <2>1
<1>8. 0 \in S
  <2>1. TakeInv(row, cells, s, NoRuns, 0)
    BY <1>1, TakeStart
  <2> HIDE DEF n
  <2> QED
    BY <1>3, <1>6, <2>1
<1>9. ASSUME NEW t \in 0 .. n - 1, t \in S PROVE t + 1 \in S
  <2> DEFINE v == t + 1
  <2>1. v \in 1 .. n /\ v - 1 = t /\ v \in 0 .. n
    BY <1>3
  <2>2. TakeInv(row, cells, s, iter[1 .. t], t)
    BY <1>9
  <2> HIDE DEF v
  <2>3. iter[1 .. v] = Push(row, cells, iter[1 .. t], s[v])
    BY <1>7, <2>1
  <2>4. TakeInv(row, cells, s, Push(row, cells, iter[1 .. t], s[v]), v)
    BY <1>1, <2>1, <2>2, TakeStep
  <2>5. v \in S
    BY <2>1, <2>3, <2>4
  <2> QED
    BY <2>5 DEF v
<1>10. n \in S
  <2>1. S \in SUBSET (0 .. n)
    OBVIOUS
  <2> HIDE DEF S, n
  <2>2. \A t \in 0 .. n : t \in S
    BY <1>3, <1>8, <1>9, <2>1, Climbs
  <2> QED
    BY <1>3, <2>2
<1> QED
  BY <1>2, <1>10 DEF s

\* What the runs add to a column is what the row changes there.
LEMMA TouchedLaw ==
  ASSUME backend \in Backends, NEW row \in 0 .. n_rows - 1, NEW cells \in Seq(Cells),
         NEW col \in 0 .. Width(k) - 1
  PROVE  /\ Touched(RebuildRuns(row, cells, k), k)[col] \in Int
         /\ Cong(q, Touched(RebuildRuns(row, cells, k), k)[col], RowChange(cells, col - ReshapeOff(row, 0, k)))
<1> DEFINE acc == RebuildRuns(row, cells, k)
           s == Scratch(row, cells)
           n == Cardinality(Kept(cells))
           g == ColTerms(row, cells, s, col)
<1>0. col \in Int
  BY KLaw
<1>1. TakeInv(row, cells, s, acc, n) /\ AllTaken(row, cells, s)
  BY AllPushed, ScratchLaw
<1>2. Touched(acc, k)[col] = SumFunction(RunTerms(acc, col))
  BY DEF Touched, RunTerms
<1> HIDE DEF acc, s
<1>3. SumFunction(RunTerms(acc, col)) \in Int
  BY <1>0, <1>1, RunTermsInt DEF TakeInv
<1>4. Cong(q, SumFunction(RunTerms(acc, col)), SumFunction(On(g, 1 .. n)))
  BY <1>0, <1>1 DEF TakeInv
<1>5. g \in [1 .. n -> Int] /\ SumFunction(g) = RowChange(cells, col - ReshapeOff(row, 0, k))
  BY <1>0, <1>1, ColTermsLaw, AllTakenLaw
<1>6. On(g, 1 .. n) = g
  <2> HIDE DEF g, n
  <2> QED
    BY <1>5 DEF On
<1> QED
  BY <1>2, <1>3, <1>4, <1>5, <1>6 DEF acc

\* The entry-level patch of both backends.
LEMMA EntryLevelLaw ==
  ASSUME backend \in Backends, NEW db \in Databases, NEW batch \in Seq(RowDeltas), NEW a, IsA(a)
  PROVE  PatchEntryLevel(a, HintOf(db), batch, k) = HintOf(Mutated(db, batch))
<1> DEFINE w == [i \in DOMAIN batch |-> Touched(RebuildRuns(batch[i][1], batch[i][2], k), k)]
<1>1. ASSUME NEW i \in DOMAIN batch, NEW j \in 0 .. Width(k) - 1
      PROVE  /\ w[i][j] \in Int
             /\ Cong(q, w[i][j], RowChange(batch[i][2], j - ReshapeOff(batch[i][1], 0, k)))
  <2>1. batch[i][1] \in 0 .. n_rows - 1 /\ batch[i][2] \in Seq(Cells)
    BY BatchLaw
  <2> QED
    BY <2>1, TouchedLaw
<1>2. Vectors(batch, w)
  <2> HIDE DEF w
  <2> QED
    BY <1>1 DEF Vectors
<1>3. PatchEntryLevel(a, HintOf(db), batch, k) = Passes(a, HintOf(db), batch, w, k)
  BY Zenon DEF PatchEntryLevel
<1> HIDE DEF w
<1> QED
  BY <1>2, <1>3, PassesLaw

\* apply_patch, in either mode and of either backend, gives the next hint.
LEMMA ApplyPatchLaw ==
  ASSUME backend \in Backends, NEW db \in Databases, NEW batch \in Seq(RowDeltas), NEW a, IsA(a),
         NEW mode \in Modes
  PROVE  ApplyPatch(a, HintOf(db), batch, mode) = HintOf(Mutated(db, batch))
<1>1. CASE mode = "EntryLevel"
  BY <1>1, EntryLevelLaw DEF ApplyPatch
<1>2. CASE mode = "RowLevel" /\ backend = "simple"
  BY <1>2, RowLevelSimpleLaw DEF ApplyPatch
<1>3. CASE mode = "RowLevel" /\ backend = "frodo"
  BY <1>3, RowLevelFrodoLaw DEF ApplyPatch
<1> QED
  BY <1>1, <1>2, <1>3 DEF Modes, Backends

-----------------------------------------------------------------------------
(* Secrets: A s, and the product of a secret and a hint. *)

Ints == [0 .. lwe_dim - 1 -> Int]

\* A row of A s.
SecretTerms(secret, r) == [i \in 0 .. lwe_dim - 1 |-> secret[i] * Keystream[r * lwe_dim + i]]
AS(secret) == [r \in 0 .. Rows(k) - 1 |-> SumFunction(SecretTerms(secret, r))]

\* The terms of A s are integers.
LEMMA SecretTermsInt ==
  ASSUME backend \in Backends, NEW secret \in Ints
  PROVE  /\ IsFiniteSet(0 .. lwe_dim - 1)
         /\ \A r \in 0 .. Rows(k) - 1 : SecretTerms(secret, r) \in [0 .. lwe_dim - 1 -> Int]
         /\ AS(secret) \in [0 .. Rows(k) - 1 -> Int]
<1>1. IsFiniteSet(0 .. lwe_dim - 1)
  BY Constants, FS_Interval
<1>2. ASSUME NEW r \in 0 .. Rows(k) - 1 PROVE SecretTerms(secret, r) \in [0 .. lwe_dim - 1 -> Int]
  <2>1. \A i \in 0 .. lwe_dim - 1 : secret[i] \in Int
    BY DEF Ints
  <2>2. \A i \in 0 .. lwe_dim - 1 : Keystream[r * lwe_dim + i] \in Int
    BY KeyLaw
  <2>3. \A x \in Int, y \in Int : x * y \in Int
    OBVIOUS
  <2>4. \A i \in 0 .. lwe_dim - 1 : secret[i] * Keystream[r * lwe_dim + i] \in Int
    BY <2>1, <2>2, <2>3
  <2> QED
    BY <2>4 DEF SecretTerms
<1>3. \A r \in 0 .. Rows(k) - 1 : SumFunction(SecretTerms(secret, r)) \in Int
  BY <1>1, <1>2, SumInt
<1> QED
  BY <1>1, <1>2, <1>3 DEF AS

\* The product of a secret and a hint, column by column.
CTerms(secret, db, j) == [i \in 0 .. lwe_dim - 1 |-> secret[i] * HintOf(db)[i * Width(k) + j]]
Material(secret, db)  == [j \in 0 .. Width(k) - 1 |-> SumFunction(CTerms(secret, db, j)) % q]

\* The terms of a secret times a hint are integers.
LEMMA CTermsInt ==
  ASSUME backend \in Backends, NEW db \in Databases, NEW secret \in Ints, NEW j \in 0 .. Width(k) - 1
  PROVE  /\ CTerms(secret, db, j) \in [0 .. lwe_dim - 1 -> Int]
         /\ SumFunction(CTerms(secret, db, j)) \in Int
         /\ \A i \in 0 .. lwe_dim - 1 :
              /\ i * Width(k) + j \in HintIndex
              /\ HintOf(db)[i * Width(k) + j] = SumFunction(HintTerms(db, i, j)) % q
              /\ HintOf(db)[i * Width(k) + j] \in Int
<1>1. ASSUME NEW i \in 0 .. lwe_dim - 1
      PROVE  /\ i * Width(k) + j \in HintIndex
             /\ HintOf(db)[i * Width(k) + j] = SumFunction(HintTerms(db, i, j)) % q
             /\ HintOf(db)[i * Width(k) + j] \in Int
  <2> DEFINE W == Width(k)
             x == i * W + j
  <2>1. W \in Nat \ {0} /\ lwe_dim \in Nat
    BY KLaw, Constants
  <2>2. x \in 0 .. lwe_dim * W - 1 /\ x \div W = i /\ x % W = j
    <3> HIDE DEF W
    <3> QED
      BY <2>1, Index, SMTT(30) DEF W
  <2>3. x \in HintIndex
    BY <2>2 DEF HintIndex
  <2> HIDE DEF x
  <2>4. HintOf(db)[x] = SumFunction(HintTerms(db, x \div W, x % W)) % q
    BY <2>3, HintOfType
  <2>5. HintOf(db)[x] \in 0 .. q - 1
    BY <2>3, HintOfType
  <2> QED
    BY <2>2, <2>3, <2>4, <2>5 DEF x
<1>2. \A i \in 0 .. lwe_dim - 1 : secret[i] \in Int
  BY DEF Ints
<1>3. CTerms(secret, db, j) \in [0 .. lwe_dim - 1 -> Int]
  <2>1. \A x \in Int, y \in Int : x * y \in Int
    OBVIOUS
  <2>2. \A i \in 0 .. lwe_dim - 1 : secret[i] * HintOf(db)[i * Width(k) + j] \in Int
    BY <1>1, <1>2, <2>1
  <2> QED
    BY <2>2 DEF CTerms
<1>4. SumFunction(CTerms(secret, db, j)) \in Int
  BY <1>3, SecretTermsInt, SumInt
<1> QED
  BY <1>1, <1>3, <1>4

\* Multiplying with the hint is multiplying A s with the matrix.
LEMMA CTermsLaw ==
  ASSUME backend \in Backends, NEW db \in Databases, NEW secret \in Ints, NEW j \in 0 .. Width(k) - 1
  PROVE  Cong(q, SumFunction(CTerms(secret, db, j)), SumFunction(TimesTerms(AS(secret), db, j)))
<1> DEFINE I == 0 .. lwe_dim - 1
           R == 0 .. Rows(k) - 1
           F == [i \in I |-> [r \in R |-> secret[i] * (Keystream[r * lwe_dim + i] * D(db, r, j))]]
           G == Swapped(I, R, F)
           c == CTerms(secret, db, j)
           t == TimesTerms(AS(secret), db, j)
<1>1. IsFiniteSet(I) /\ IsFiniteSet(R) /\ q \in Nat \ {0}
  <2>1. Rows(k) \in Nat
    BY KLaw, RowsLaw
  <2> QED
    BY <2>1, SecretTermsInt, FS_Interval, Constants
<1>2. /\ \A i \in I : secret[i] \in Int
      /\ \A i \in I, r \in R : Keystream[r * lwe_dim + i] \in Int
      /\ \A r \in R : D(db, r, j) \in Int
  <2>1. Rows(k) \in Nat
    BY KLaw, RowsLaw
  <2>2. \A r \in R : r \in Nat
    BY <2>1
  <2>3. \A r \in R : D(db, r, j) \in Int
    <3> HIDE DEF R
    <3> QED
      BY <2>2, DLaw
  <2>4. \A i \in I, r \in R : Keystream[r * lwe_dim + i] \in Int
    BY KeyLaw
  <2> QED
    BY <2>3, <2>4 DEF Ints
<1>3. \A x \in Int, y \in Int : x * y \in Int
  OBVIOUS
<1>4. \A i \in I, r \in R : Keystream[r * lwe_dim + i] * D(db, r, j) \in Int
  <2> HIDE DEF I, R
  <2> QED
    BY <1>2, <1>3
<1>5. F \in [I -> [R -> Int]]
  <2>1. \A i \in I, r \in R : secret[i] * (Keystream[r * lwe_dim + i] * D(db, r, j)) \in Int
    <3> HIDE DEF I, R
    <3> QED
      BY <1>2, <1>3, <1>4
  <2> HIDE DEF I, R
  <2> QED
    BY <2>1
<1>6. ASSUME NEW i \in I
      PROVE  SumFunction(F[i]) = secret[i] * SumFunction(HintTerms(db, i, j))
  <2> DEFINE h == HintTerms(db, i, j)
             f == F[i]
  <2>1. h \in [R -> Int]
    BY HintTermsInt
  <2>2. DOMAIN f = R /\ f = [r \in R |-> f[r]]
    <3>1. f = [r \in R |-> secret[i] * (Keystream[r * lwe_dim + i] * D(db, r, j))]
      BY Zenon
    <3> HIDE DEF f
    <3> QED
      BY <3>1
  <2>3. \A r \in R : f[r] = secret[i] * h[r]
    BY DEF HintTerms
  <2>4. secret[i] \in Int
    BY <1>2
  <2> HIDE DEF h, f, R
  <2> QED
    BY <1>1, <2>1, <2>2, <2>3, <2>4, SumScaled, SMTT(30) DEF h, f
<1>7. ASSUME NEW r \in R
      PROVE  SumFunction(G[r]) = t[r]
  <2> DEFINE e == SecretTerms(secret, r)
             f == G[r]
             d == D(db, r, j)
  <2>1. e \in [I -> Int]
    BY SecretTermsInt
  <2>2. f = [i \in I |-> F[i][r]]
    BY Zenon DEF Swapped
  <2>3. \A i \in I : F[i][r] = secret[i] * (Keystream[r * lwe_dim + i] * d)
    OBVIOUS
  <2>4. \A i \in I : e[i] = secret[i] * Keystream[r * lwe_dim + i]
    BY DEF SecretTerms
  <2>5. \A i \in I : secret[i] \in Int /\ Keystream[r * lwe_dim + i] \in Int
    BY <1>2
  <2>6. d \in Int
    BY <1>2
  <2>7. \A x \in Int, y \in Int, z \in Int : x * (y * z) = z * (x * y)
    OBVIOUS
  <2>8. t[r] = AS(secret)[r] * d
    BY DEF TimesTerms
  <2>9. AS(secret)[r] = SumFunction(e)
    BY DEF AS
  <2> HIDE DEF e, f, d, I, F, t, G
  <2>10. \A i \in I : f[i] = d * e[i]
    BY <2>2, <2>3, <2>4, <2>5, <2>6, <2>7
  <2>11. SumFunction(f) = d * SumFunction(e)
    <3>1. DOMAIN f = I /\ f = [i \in I |-> f[i]]
      BY <2>2
    <3> QED
      BY <1>1, <2>1, <2>6, <2>10, <3>1, SumScaled
  <2>12. SumFunction(e) \in Int
    BY <1>1, <2>1, SumInt
  <2>13. \A x \in Int, y \in Int : x * y = y * x
    OBVIOUS
  <2>14. d * SumFunction(e) = SumFunction(e) * d
    BY <2>6, <2>12, <2>13
  <2> QED
    BY <2>8, <2>9, <2>11, <2>14 DEF f
<1>8. \A i \in I : c[i] = secret[i] * HintOf(db)[i * Width(k) + j]
  BY DEF CTerms
<1>9. c \in [I -> Int]
  BY CTermsInt
<1>10. Nested(R, G) = t
  <2>1. t = [r \in R |-> t[r]]
    BY DEF TimesTerms
  <2>2. Nested(R, G) = [r \in R |-> SumFunction(G[r])]
    BY Zenon DEF Nested
  <2> HIDE DEF t, R, G
  <2> QED
    BY <1>7, <2>1, <2>2
<1>11. SumFunction(Nested(I, F)) = SumFunction(t)
  <2> HIDE DEF I, R, F, t
  <2> QED
    BY <1>1, <1>5, <1>10, SumExchanged
<1> DEFINE g == Nested(I, F)
<1>12. \A i \in I : g[i] = SumFunction(F[i]) /\ g = [y \in I |-> g[y]]
  <2> HIDE DEF F, I
  <2> QED
    BY DEF Nested
<1> HIDE DEF F, I, R, G, t, c, g
<1>13. ASSUME NEW i \in I PROVE g[i] \in Int /\ Cong(q, c[i], g[i])
  <2> DEFINE H == SumFunction(HintTerms(db, i, j))
             x == secret[i]
             y == HintOf(db)[i * Width(k) + j]
  <2>1. H \in Int
    BY HintTermsInt DEF I
  <2>2. x \in Int
    BY <1>2
  <2>3. y = H % q /\ y \in Int
    BY CTermsInt DEF I
  <2>4. g[i] = x * H
    BY <1>6, <1>12
  <2>5. c[i] = x * y
    BY <1>8
  <2> HIDE DEF H, x, y
  <2>6. Cong(q, y, H) /\ Cong(q, x, x)
    BY <1>1, <2>1, <2>2, <2>3, CongMod, CongRefl
  <2>7. Cong(q, x * y, x * H)
    BY <1>1, <2>1, <2>2, <2>3, <2>6, CongTimes
  <2>8. x * H \in Int
    BY <2>1, <2>2
  <2> QED
    BY <2>4, <2>5, <2>7, <2>8
<1>14. g \in [I -> Int]
  <2>1. g = [y \in I |-> g[y]]
    <3>1. CASE I = {}
      BY <3>1 DEF g, Nested
    <3>2. CASE I # {}
      BY <1>12, <3>2
    <3> QED
      BY <3>1, <3>2
  <2> QED
    BY <1>13, <2>1
<1>15. Cong(q, SumFunction(c), SumFunction(g))
  BY <1>1, <1>9, <1>13, <1>14, CongSum
<1> QED
  BY <1>11, <1>15 DEF c, g, t

\* Material is A s times the matrix.
LEMMA MaterialLaw ==
  ASSUME backend \in Backends, NEW db \in Databases, NEW secret \in Ints, NEW j \in 0 .. Width(k) - 1
  PROVE  /\ Material(secret, db)[j] = SumFunction(TimesTerms(AS(secret), db, j)) % q
         /\ Material(secret, db)[j] \in 0 .. q - 1
<1> DEFINE c == SumFunction(CTerms(secret, db, j))
           t == SumFunction(TimesTerms(AS(secret), db, j))
<1>1. c \in Int /\ t \in Int
  BY CTermsInt, SecretTermsInt, TimesTermsInt
<1>2. Cong(q, c, t)
  BY CTermsLaw
<1>3. Material(secret, db)[j] = c % q
  BY DEF Material
<1> HIDE DEF c, t
<1>4. c % q = t % q /\ c % q \in 0 .. q - 1
  BY <1>1, <1>2, Constants, CongEqual, CongMod
<1> QED
  BY <1>3, <1>4 DEF t

\* compute_c computes the material.
LEMMA ComputeCLaw ==
  ASSUME backend \in Backends, NEW db \in Databases, NEW secret \in Ints, NEW R \in Nat \ {0},
         hint.client = HintOf(db)
  PROVE  ComputeC(secret, R) = Material(secret, db)
<1> DEFINE W == Width(k)
           z == Zeros(W)
           c == MatvecAccumulate(z, HintOf(db), secret, lwe_dim, R)
<1>1. W \in Nat \ {0} /\ lwe_dim \in Nat
  BY KLaw, Constants
<1>2. DOMAIN z = 0 .. W - 1 /\ \A j \in 0 .. W - 1 : z[j] = 0
  BY DEF Zeros
<1>3. ComputeC(secret, R) = c
  BY DEF ComputeC
<1>4. c = [j \in 0 .. W - 1 |-> c[j]]
  <2> HIDE DEF z, W
  <2> QED
    BY <1>2 DEF MatvecAccumulate
<1>5. ASSUME NEW j \in 0 .. W - 1 PROVE c[j] = Material(secret, db)[j]
  <2> DEFINE e == ColumnOf(secret, HintOf(db), lwe_dim, W, j)
  <2>1. e = CTerms(secret, db, j)
    BY DEF ColumnOf, CTerms
  <2>2. e \in [0 .. lwe_dim - 1 -> Int] /\ SumFunction(e) \in Int
    BY <2>1, CTermsInt
  <2>3. Material(secret, db)[j] = SumFunction(e) % q
    BY <2>1 DEF Material
  <2>4. z[j] \in Int
    BY <1>2
  <2>5. c[j] = (z[j] + SumFunction(e)) % q
    <3> HIDE DEF z
    <3> DEFINE d == HintOf(db)
    <3>1. e = ColumnOf(secret, d, lwe_dim, W, j) /\ c = MatvecAccumulate(z, d, secret, lwe_dim, R)
      OBVIOUS
    <3> HIDE DEF d, e, c, W
    <3> QED
      BY <1>1, <1>2, <2>2, <2>4, <3>1, MatvecLaw
  <2> HIDE DEF e, c, z
  <2> QED
    BY <1>2, <2>2, <2>3, <2>5
<1>6. Material(secret, db) = [j \in 0 .. W - 1 |-> Material(secret, db)[j]]
  BY DEF Material
<1> HIDE DEF c
<1> QED
  BY <1>3, <1>4, <1>5, <1>6

\* patch_slot_c gives the material of the next database.
LEMMA PatchCLaw ==
  ASSUME backend \in Backends, NEW db \in Databases, NEW secret \in Ints, NEW batch \in Seq(RowDeltas),
         NEW a, IsA(a)
  PROVE  PatchC(a, secret, Material(secret, db), batch, k) = Material(secret, Mutated(db, batch))
<1> DEFINE W == Width(k)
           Dot(r) == SumFunction([i \in 0 .. lwe_dim - 1 |-> secret[i] * a[r * lwe_dim + i]])
           T(j) == [i \in DOMAIN batch |->
                      Dot(ReshapeRow(batch[i][1], k)) * RowChange(batch[i][2], j - ReshapeOff(batch[i][1], 0, k))]
           p == PatchC(a, secret, Material(secret, db), batch, k)
           next == Mutated(db, batch)
<1>1. p = [j \in 0 .. W - 1 |-> (Material(secret, db)[j] + SumFunction(T(j))) % q]
  <2>1. DOMAIN Material(secret, db) = 0 .. W - 1
    BY DEF Material
  <2> QED
    BY <2>1, Zenon DEF PatchC
<1>2. ASSUME NEW r \in 0 .. Rows(k) - 1 PROVE Dot(r) = AS(secret)[r]
  <2>1. \A i \in 0 .. lwe_dim - 1 : a[r * lwe_dim + i] = Keystream[r * lwe_dim + i]
    BY KeyLaw
  <2>2. [i \in 0 .. lwe_dim - 1 |-> secret[i] * a[r * lwe_dim + i]] = SecretTerms(secret, r)
    BY <2>1 DEF SecretTerms
  <2>3. Dot(r) = SumFunction(SecretTerms(secret, r))
    BY <2>2, Zenon
  <2> HIDE DEF Dot
  <2> QED
    BY <2>3 DEF AS
<1> HIDE DEF Dot
<1>3. ASSUME NEW j \in 0 .. W - 1 PROVE T(j) = ChangeTerms(AS(secret), batch, j)
  <2>1. ASSUME NEW i \in DOMAIN batch
        PROVE  Dot(ReshapeRow(batch[i][1], k)) = AS(secret)[batch[i][1] \div k]
    <3>1. batch[i][1] \in 0 .. n_rows - 1
      BY BatchLaw
    <3>2. batch[i][1] \div k \in 0 .. Rows(k) - 1
      BY <3>1, EntryPlace
    <3> QED
      BY <1>2, <3>2 DEF ReshapeRow
  <2> QED
    BY <2>1 DEF ChangeTerms
<1> HIDE DEF T
<1>4. AS(secret) \in [0 .. Rows(k) - 1 -> Int]
  BY SecretTermsInt
<1>5. next \in Databases
  BY MutatedLaw
<1>6. ASSUME NEW j \in 0 .. W - 1
      PROVE  (Material(secret, db)[j] + SumFunction(T(j))) % q = Material(secret, next)[j]
  <2> DEFINE t == SumFunction(TimesTerms(AS(secret), db, j))
             d == SumFunction(ChangeTerms(AS(secret), batch, j))
             t2 == SumFunction(TimesTerms(AS(secret), next, j))
  <2>1. t \in Int /\ d \in Int
    BY <1>4, TimesTermsInt, ChangeTermsInt
  <2>2. t2 = t + d
    BY <1>4, TimesStep
  <2>3. Material(secret, db)[j] = t % q
    BY MaterialLaw
  <2>4. Material(secret, next)[j] = t2 % q
    BY <1>5, MaterialLaw
  <2>5. SumFunction(T(j)) = d
    BY <1>3
  <2> HIDE DEF t, d, t2
  <2>6. ((t % q) + d) % q = (t + d) % q
    BY <2>1, Constants, ModPlus
  <2> QED
    BY <2>2, <2>3, <2>4, <2>5, <2>6
<1>7. Material(secret, next) = [j \in 0 .. W - 1 |-> Material(secret, next)[j]]
  BY DEF Material
<1> HIDE DEF p, next
<1> QED
  BY <1>1, <1>6, <1>7 DEF p, next

-----------------------------------------------------------------------------
(* Rewinding an answer. *)

History(lg, ds) ==
  /\ lg \in Seq(Seq(RowDeltas)) /\ ds \in Seq(Databases) /\ Len(ds) = Len(lg) + 1
  /\ \A v \in 1 .. Len(lg) : ds[v + 1] = Mutated(ds[v], lg[v])

\* The databases of a history.
LEMMA HistoryLaw ==
  ASSUME NEW lg, NEW ds, History(lg, ds)
  PROVE  /\ Len(lg) \in Nat
         /\ \A v \in 0 .. Len(lg) : v + 1 \in DOMAIN ds /\ ds[v + 1] \in Databases
         /\ \A v \in 1 .. Len(lg) : /\ lg[v] \in Seq(RowDeltas) /\ ds[v] \in Databases
                                    /\ ds[v + 1] = Mutated(ds[v], lg[v])
<1>1. Len(lg) \in Nat /\ DOMAIN lg = 1 .. Len(lg) /\ DOMAIN ds = 1 .. Len(lg) + 1
  BY DEF History
<1>2. \A v \in 1 .. Len(lg) + 1 : ds[v] \in Databases
  BY <1>1 DEF History
<1>3. \A v \in 1 .. Len(lg) : lg[v] \in Seq(RowDeltas)
  BY <1>1 DEF History
<1>4. \A v \in 0 .. Len(lg) : v + 1 \in DOMAIN ds /\ ds[v + 1] \in Databases
  BY <1>1, <1>2
<1>5. \A v \in 1 .. Len(lg) : ds[v] \in Databases
  BY <1>1, <1>2
<1> QED
  BY <1>1, <1>3, <1>4, <1>5 DEF History

\* What the batches after version c and up to n change at a cell.
Between(lg, c, n, row, off) == [v \in c + 1 .. n |-> ChangeAt(lg[v], row, off)]

\* What batches change at a cell is an integer, and nothing outside.
LEMMA BetweenInt ==
  ASSUME NEW lg, NEW ds, History(lg, ds), NEW c \in Nat, NEW n \in Nat, n <= Len(lg),
         NEW row \in Int, NEW off \in Int
  PROVE  /\ Between(lg, c, n, row, off) \in [c + 1 .. n -> Int] /\ IsFiniteSet(c + 1 .. n)
         /\ SumFunction(Between(lg, c, n, row, off)) \in Int
         /\ row \notin 0 .. n_rows - 1 => SumFunction(Between(lg, c, n, row, off)) = 0
<1> DEFINE T == c + 1 .. n
           f == Between(lg, c, n, row, off)
<1>1. IsFiniteSet(T)
  BY FS_Interval
<1>2. \A v \in T : v \in 1 .. Len(lg)
  BY HistoryLaw
<1>3. ASSUME NEW v \in T
      PROVE  ChangeAt(lg[v], row, off) \in Int /\ (row \notin 0 .. n_rows - 1 => ChangeAt(lg[v], row, off) = 0)
  <2>1. lg[v] \in Seq(RowDeltas)
    BY <1>2, HistoryLaw
  <2> QED
    BY <2>1, ChangeAtLaw
<1> HIDE DEF T
<1>4. f = [v \in T |-> ChangeAt(lg[v], row, off)]
  BY DEF Between, T
<1>5. f \in [T -> Int]
  BY <1>3, <1>4
<1>6. row \notin 0 .. n_rows - 1 => f = [v \in T |-> 0]
  BY <1>3, <1>4
<1> HIDE DEF f
<1>7. SumFunction(f) \in Int
  BY <1>1, <1>5, SumInt
<1>8. row \notin 0 .. n_rows - 1 => SumFunction(f) = 0
  BY <1>1, <1>6, SumZero
<1> QED
  BY <1>1, <1>5, <1>7, <1>8 DEF f, T

\* The last of some batches apart.
LEMMA BetweenLast ==
  ASSUME NEW lg, NEW ds, History(lg, ds), NEW c \in Nat, NEW n \in Nat, n <= Len(lg), c < n,
         NEW row \in Int, NEW off \in Int
  PROVE  SumFunction(Between(lg, c, n, row, off))
           = SumFunction(Between(lg, c, n - 1, row, off)) + ChangeAt(lg[n], row, off)
<1> DEFINE T == c + 1 .. n
           f == Between(lg, c, n, row, off)
<1>1. f \in [T -> Int] /\ IsFiniteSet(T)
  BY BetweenInt
<1>2. n \in T /\ T \ {n} = c + 1 .. (n - 1)
  OBVIOUS
<1>3. f = [v \in T |-> ChangeAt(lg[v], row, off)]
  BY DEF Between
<1>4. [v \in T \ {n} |-> f[v]] = Between(lg, c, n - 1, row, off)
  <2>1. [v \in T \ {n} |-> f[v]] = [v \in T \ {n} |-> ChangeAt(lg[v], row, off)]
    <3> HIDE DEF f
    <3> QED
      BY <1>3
  <2> HIDE DEF f
  <2> QED
    BY <1>2, <2>1 DEF Between
<1>5. f[n] = ChangeAt(lg[n], row, off)
  BY <1>2, <1>3
<1>6. SumFunction(f) = f[n] + SumFunction([v \in T \ {n} |-> f[v]])
  <2> HIDE DEF f, T
  <2> QED
    BY <1>1, <1>2, SumLaw, ZenonT(30)
<1>7. f[n] \in Int
  BY <1>1, <1>2
<1>8. n - 1 \in Nat /\ n - 1 <= Len(lg) /\ Len(lg) \in Nat
  BY HistoryLaw
<1>9. SumFunction(Between(lg, c, n - 1, row, off)) \in Int
  <2> DEFINE m == n - 1
  <2> HIDE DEF m
  <2>1. SumFunction(Between(lg, c, m, row, off)) \in Int
    BY <1>8, BetweenInt DEF m
  <2> QED
    BY <2>1 DEF m
<1> HIDE DEF f
<1>10. SumFunction(f) = ChangeAt(lg[n], row, off) + SumFunction(Between(lg, c, n - 1, row, off))
  BY <1>4, <1>5, <1>6
<1>11. ChangeAt(lg[n], row, off) \in Int
  BY <1>5, <1>7
<1> QED
  BY <1>9, <1>10, <1>11 DEF f

\* No batches change nothing.
LEMMA BetweenNone ==
  ASSUME NEW lg, NEW c \in Nat, NEW row, NEW off
  PROVE  SumFunction(Between(lg, c, c, row, off)) = 0
<1>1. c + 1 .. c = {}
  OBVIOUS
<1>2. Between(lg, c, c, row, off) \in [{} -> Int]
  BY <1>1 DEF Between
<1>3. IsFiniteSet({})
  BY FS_EmptySet
<1> QED
  BY <1>2, <1>3, SumLaw

\* A database is an older one and all that changed since.
LEMMA Telescope ==
  ASSUME backend \in Backends, NEW lg, NEW ds, History(lg, ds), NEW c \in Nat, NEW n \in Nat,
         n <= Len(lg), c <= n, NEW r \in Nat, NEW j \in 0 .. Width(k) - 1
  PROVE  /\ RowAt(k, r, j) \in Int /\ OffAt(j) \in Int
         /\ D(ds[n + 1], r, j)
              = D(ds[c + 1], r, j) + SumFunction(Between(lg, c, n, RowAt(k, r, j), OffAt(j)))
<1> DEFINE row == RowAt(k, r, j)
           off == OffAt(j)
           Sum(u) == SumFunction(Between(lg, c, c + u, row, off))
           Is(u) == D(ds[(c + u) + 1], r, j) = D(ds[c + 1], r, j) + Sum(u)
           S == {u \in 0 .. n - c : Is(u)}
<1>1. row \in Int /\ off \in Int
  BY KLaw, Place
<1>2. /\ Len(lg) \in Nat
      /\ \A v \in 0 .. Len(lg) : ds[v + 1] \in Databases
      /\ \A v \in 1 .. Len(lg) : /\ lg[v] \in Seq(RowDeltas) /\ ds[v] \in Databases
                                 /\ ds[v + 1] = Mutated(ds[v], lg[v])
  BY HistoryLaw
<1>3. D(ds[c + 1], r, j) \in Int
  <2>1. ds[c + 1] \in Databases
    BY <1>2
  <2> QED
    BY <2>1, DLaw
<1>4. 0 \in S
  <2>1. c + 0 = c /\ 0 \in 0 .. n - c
    OBVIOUS
  <2>2. Sum(0) = 0
    BY <2>1, BetweenNone
  <2>3. Is(0)
    <3> HIDE DEF Sum
    <3> QED
      BY <1>3, <2>1, <2>2
  <2> QED
    BY <2>1, <2>3
<1>5. ASSUME NEW u \in 0 .. (n - c) - 1, u \in S PROVE u + 1 \in S
  <2> DEFINE m == c + (u + 1)
  <2>1. m \in Nat /\ m \in 1 .. Len(lg) /\ m - 1 = c + u /\ c < m /\ m <= Len(lg) /\ u + 1 \in 0 .. n - c
        /\ (c + u) + 1 = m
    BY <1>2
  <2>2. Is(u)
    BY <1>5
  <2> DEFINE ch == ChangeAt(lg[m], row, off)
             v == u + 1
  <2> HIDE DEF m
  <2>3. Sum(v) = Sum(u) + ch
    <3>1. SumFunction(Between(lg, c, m, row, off)) = SumFunction(Between(lg, c, m - 1, row, off)) + ch
      <4> HIDE DEF row, off
      <4> QED
        BY <1>1, <2>1, BetweenLast
    <3> HIDE DEF row, off
    <3> QED
      BY <2>1, <3>1 DEF m
  <2>4. D(ds[m + 1], r, j) = D(ds[m], r, j) + ch /\ ch \in Int
    <3>1. lg[m] \in Seq(RowDeltas) /\ ds[m] \in Databases /\ ds[m + 1] = Mutated(ds[m], lg[m])
      BY <1>2, <2>1
    <3> QED
      BY <3>1, MutatedD
  <2>5. D(ds[m], r, j) = D(ds[c + 1], r, j) + Sum(u)
    BY <2>1, <2>2
  <2>6. Sum(u) \in Int
    <3>1. c + u \in Nat /\ c + u <= Len(lg)
      BY <1>2, <2>1
    <3> HIDE DEF row, off
    <3> QED
      BY <1>1, <3>1, BetweenInt
  <2> HIDE DEF ch, Sum
  <2>7. D(ds[m + 1], r, j) = D(ds[c + 1], r, j) + Sum(v)
    BY <1>3, <2>3, <2>4, <2>5, <2>6
  <2>8. Is(v)
    BY <2>7 DEF m
  <2> QED
    BY <2>1, <2>8
<1>6. Is(n - c)
  <2> DEFINE w == n - c
  <2>0. w \in Nat
    OBVIOUS
  <2>1. S \in SUBSET (0 .. w)
    OBVIOUS
  <2>2. \A u \in 0 .. w - 1 : u \in S => u + 1 \in S
    BY <1>5
  <2> HIDE DEF S, w
  <2>3. \A u \in 0 .. w : u \in S
    BY <1>4, <2>0, <2>1, <2>2, Climbs
  <2>4. w \in S
    BY <2>0, <2>3
  <2> QED
    BY <2>4 DEF S, w
<1>7. c + (n - c) = n
  OBVIOUS
<1> HIDE DEF row, off
<1>8. D(ds[n + 1], r, j) = D(ds[c + 1], r, j) + SumFunction(Between(lg, c, n, row, off))
  BY <1>6, <1>7
<1> QED
  BY <1>1, <1>8 DEF row, off

Net(lg, c, n, row, off) == SumFunction(Between(lg, c, n, row, off))
AllCells == (0 .. n_rows - 1) \X (0 .. row_width - 1)
PendingOf(lg, c, n) ==
  [cell \in {x \in AllCells : Net(lg, c, n, x[1], x[2]) # 0} |-> Net(lg, c, n, cell[1], cell[2])]

\* The pending changes of a column of the reshaped matrix, by cell and by row.
CellTerms(b, p, j) ==
  [cell \in {x \in DOMAIN p : ReshapeOff(x[1], x[2], k) = j} |-> b[ReshapeRow(cell[1], k)] * p[cell]]
NetTerms(b, lg, c, n, j) ==
  [r \in 0 .. Rows(k) - 1 |-> b[r] * Net(lg, c, n, RowAt(k, r, j), OffAt(j))]

\* The cells of a column of the reshaped matrix, one in each row.
LEMMA CellsOfColumn ==
  ASSUME backend \in Backends, NEW x \in AllCells, NEW j \in 0 .. Width(k) - 1
  PROVE  /\ x[1] \in 0 .. n_rows - 1 /\ x[2] \in 0 .. row_width - 1 /\ x = <<x[1], x[2]>>
         /\ ReshapeRow(x[1], k) \in 0 .. Rows(k) - 1
         /\ ReshapeOff(x[1], x[2], k) = j
              => x[1] = RowAt(k, ReshapeRow(x[1], k), j) /\ x[2] = OffAt(j)
<1>1. x[1] \in 0 .. n_rows - 1 /\ x[2] \in 0 .. row_width - 1 /\ x = <<x[1], x[2]>>
  BY DEF AllCells
<1> DEFINE row == x[1]
           off == x[2]
<1>2. k \in 1 .. n_rows /\ k \in Nat \ {0} /\ n_rows \in Nat
  BY KLaw, Constants
<1>3. row \in Nat /\ off \in 0 .. row_width - 1
  BY <1>1, <1>2
<1> HIDE DEF row, off
<1>4. OffAt(ReshapeOff(row, off, k)) = off /\ RowAt(k, row \div k, ReshapeOff(row, off, k)) = row
  BY <1>2, <1>3, PlaceOf
<1>5. row \div k \in 0 .. Rows(k) - 1
  BY <1>1, <1>2, RowsLaw DEF row
<1> QED
  BY <1>1, <1>4, <1>5 DEF row, off, ReshapeRow

\* The terms of the net change are integers.
LEMMA NetTermsInt ==
  ASSUME backend \in Backends, NEW lg, NEW ds, History(lg, ds), NEW c \in Nat, NEW n \in Nat,
         n <= Len(lg), c <= n, NEW b \in [0 .. Rows(k) - 1 -> Int], NEW j \in 0 .. Width(k) - 1
  PROVE  /\ NetTerms(b, lg, c, n, j) \in [0 .. Rows(k) - 1 -> Int] /\ IsFiniteSet(0 .. Rows(k) - 1)
         /\ SumFunction(NetTerms(b, lg, c, n, j)) \in Int
         /\ \A r \in 0 .. Rows(k) - 1 : Net(lg, c, n, RowAt(k, r, j), OffAt(j)) \in Int
<1> DEFINE R == 0 .. Rows(k) - 1
           f == NetTerms(b, lg, c, n, j)
<1>1. Rows(k) \in Nat
  BY KLaw, RowsLaw
<1>2. IsFiniteSet(R)
  BY <1>1, FS_Interval
<1>3. ASSUME NEW r \in R PROVE Net(lg, c, n, RowAt(k, r, j), OffAt(j)) \in Int
  <2>1. r \in Nat
    BY <1>1
  <2>2. RowAt(k, r, j) \in Int /\ OffAt(j) \in Int
    BY <2>1, Telescope
  <2> QED
    BY <2>2, BetweenInt DEF Net
<1>4. f = [r \in R |-> b[r] * Net(lg, c, n, RowAt(k, r, j), OffAt(j))]
  BY DEF NetTerms
<1>5. \A r \in R : b[r] \in Int
  OBVIOUS
<1> HIDE DEF R, f
<1>6. \A x \in Int, y \in Int : x * y \in Int
  OBVIOUS
<1>7. f \in [R -> Int]
  BY <1>3, <1>4, <1>5, <1>6
<1>8. SumFunction(f) \in Int
  BY <1>2, <1>7, SumInt
<1> QED
  BY <1>2, <1>3, <1>7, <1>8 DEF f, R

\* Summed by cell, as rewind_response does, or by row: the sums are the same.
LEMMA PendingSum ==
  ASSUME backend \in Backends, NEW lg, NEW ds, History(lg, ds), NEW c \in Nat, NEW n \in Nat,
         n <= Len(lg), c <= n, NEW b \in [0 .. Rows(k) - 1 -> Int], NEW j \in 0 .. Width(k) - 1
  PROVE  SumFunction(CellTerms(b, PendingOf(lg, c, n), j)) = SumFunction(NetTerms(b, lg, c, n, j))
<1> DEFINE p == PendingOf(lg, c, n)
           P == {x \in AllCells : Net(lg, c, n, x[1], x[2]) # 0}
           S == {x \in P : ReshapeOff(x[1], x[2], k) = j}
           T == 0 .. Rows(k) - 1
           f == CellTerms(b, p, j)
           g == NetTerms(b, lg, c, n, j)
           phi == [x \in S |-> ReshapeRow(x[1], k)]
<1>1. DOMAIN p = P /\ \A x \in P : p[x] = Net(lg, c, n, x[1], x[2])
  BY DEF PendingOf
<1>2. IsFiniteSet(S)
  <2>1. IsFiniteSet(0 .. n_rows - 1) /\ IsFiniteSet(0 .. row_width - 1)
    <3>1. n_rows - 1 \in Int /\ row_width - 1 \in Int
      BY Constants
    <3> QED
      BY <3>1, FS_Interval
  <2>2. IsFiniteSet(AllCells)
    BY <2>1, FS_Product DEF AllCells
  <2>3. S \in SUBSET AllCells
    OBVIOUS
  <2> HIDE DEF S
  <2> QED
    BY <2>2, <2>3, FS_Subset
<1>3. /\ g \in [T -> Int] /\ IsFiniteSet(T)
      /\ \A r \in T : Net(lg, c, n, RowAt(k, r, j), OffAt(j)) \in Int
  BY NetTermsInt
<1>4. f = [x \in S |-> b[ReshapeRow(x[1], k)] * p[x]]
  BY <1>1 DEF CellTerms
<1>5. ASSUME NEW x \in S
      PROVE  /\ phi[x] \in T /\ g[phi[x]] = f[x]
             /\ x = <<RowAt(k, phi[x], j), OffAt(j)>>
  <2>1. x \in AllCells /\ x \in P /\ ReshapeOff(x[1], x[2], k) = j
    OBVIOUS
  <2>2. /\ x = <<x[1], x[2]>> /\ ReshapeRow(x[1], k) \in T
        /\ x[1] = RowAt(k, ReshapeRow(x[1], k), j) /\ x[2] = OffAt(j)
    BY <2>1, CellsOfColumn
  <2>3. phi[x] = ReshapeRow(x[1], k)
    OBVIOUS
  <2>4. f[x] = b[ReshapeRow(x[1], k)] * p[x]
    <3> HIDE DEF f, S
    <3> QED
      BY <1>4
  <2>5. p[x] = Net(lg, c, n, x[1], x[2])
    BY <1>1, <2>1
  <2>6. g[phi[x]] = b[phi[x]] * Net(lg, c, n, RowAt(k, phi[x], j), OffAt(j))
    BY <2>2, <2>3 DEF NetTerms
  <2> HIDE DEF f, g, phi, p, S, P, T
  <2> QED
    BY <2>2, <2>3, <2>4, <2>5, <2>6
<1>6. ASSUME NEW r \in T, g[r] # 0 PROVE \E x \in S : phi[x] = r
  <2> DEFINE row == RowAt(k, r, j)
             off == OffAt(j)
             x == <<row, off>>
  <2>0. r \in Nat /\ k \in 1 .. n_rows /\ k \in Nat \ {0} /\ Width(k) = k * row_width /\ row_width \in Nat
        /\ n_rows \in Nat
    BY KLaw, RowsLaw, Constants
  <2>1. /\ row \in Nat /\ off \in 0 .. row_width - 1 /\ row \div k = r /\ row % k = j \div row_width
        /\ j = (j \div row_width) * row_width + off
    <3>1. j \in 0 .. k * row_width - 1
      BY <2>0
    <3>2. /\ RowAt(k, r, j) \in Nat /\ OffAt(j) \in 0 .. row_width - 1
          /\ RowAt(k, r, j) \div k = r /\ RowAt(k, r, j) % k = j \div row_width
          /\ j = (j \div row_width) * row_width + OffAt(j)
      BY <2>0, <3>1, Place, ZenonT(30)
    <3> QED
      BY <3>2
  <2>2. g[r] = b[r] * Net(lg, c, n, row, off)
    BY DEF NetTerms
  <2>3. Net(lg, c, n, row, off) # 0
    <3> HIDE DEF g
    <3>1. \A y \in Int : y * 0 = 0
      OBVIOUS
    <3>2. b[r] \in Int
      OBVIOUS
    <3> QED
      BY <1>6, <2>2, <3>1, <3>2
  <2>4. row \in 0 .. n_rows - 1
    <3>1. row \in Int /\ off \in Int
      BY <2>0, <2>1
    <3> HIDE DEF row, off
    <3>2. row \notin 0 .. n_rows - 1 => Net(lg, c, n, row, off) = 0
      BY <3>1, BetweenInt DEF Net
    <3> QED
      BY <2>3, <3>2
  <2> HIDE DEF row, off
  <2>5. x[1] = row /\ x[2] = off /\ x \in AllCells
    BY <2>1, <2>4 DEF AllCells
  <2>6. x \in P
    BY <2>3, <2>5
  <2>7. ReshapeOff(row, off, k) = j /\ ReshapeRow(row, k) = r
    BY <2>1 DEF ReshapeOff, ReshapeRow
  <2>8. x \in S
    BY <2>5, <2>6, <2>7
  <2>9. phi[x] = r
    BY <2>5, <2>7, <2>8
  <2> QED
    BY <2>8, <2>9
<1>7. phi \in [S -> T]
  <2>1. phi = [x \in S |-> phi[x]]
    OBVIOUS
  <2> HIDE DEF phi, S, T
  <2> QED
    BY <1>5, <2>1
<1>8. ASSUME NEW x \in S PROVE f[x] \in Int
  <2> HIDE DEF f, g, S, T, phi
  <2> QED
    BY <1>3, <1>5
<1>9. f \in [S -> Int]
  <2> HIDE DEF f, S
  <2> QED
    BY <1>4, <1>8
<1>10. Renames(phi, S, T, f, g)
  <2> HIDE DEF f, g, S, T, phi
  <2>1. \A x \in S : \A y \in S : phi[x] = phi[y] => x = y
    BY <1>5
  <2>2. \A x \in S : g[phi[x]] = f[x]
    BY <1>5
  <2> QED
    BY <1>3, <1>6, <1>7, <1>9, <2>1, <2>2 DEF Renames
<1> HIDE DEF f, g, S, T, phi
<1>11. SumFunction(f) = SumFunction(g)
  BY <1>2, <1>3, <1>10, SumRenamed
<1> QED
  BY <1>11 DEF f, g

Apart(lg, ds, c, n, b, j) ==
  /\ SumFunction(TimesTerms(b, ds[c + 1], j)) \in Int
  /\ SumFunction(TimesTerms(b, ds[n + 1], j))
       = SumFunction(TimesTerms(b, ds[c + 1], j)) + SumFunction(NetTerms(b, lg, c, n, j))

\* An answer is an older one and the net change since.
LEMMA TimesApart ==
  ASSUME backend \in Backends, NEW lg, NEW ds, History(lg, ds), NEW c \in Nat, NEW n \in Nat,
         n <= Len(lg), c <= n, NEW b \in [0 .. Rows(k) - 1 -> Int], NEW j \in 0 .. Width(k) - 1
  PROVE  Apart(lg, ds, c, n, b, j)
<1> DEFINE T == 0 .. Rows(k) - 1
           f == TimesTerms(b, ds[c + 1], j)
           g == NetTerms(b, lg, c, n, j)
           h == TimesTerms(b, ds[n + 1], j)
<1>1. ds[c + 1] \in Databases /\ ds[n + 1] \in Databases
  <2>1. c \in 0 .. Len(lg) /\ n \in 0 .. Len(lg)
    BY HistoryLaw
  <2> QED
    BY <2>1, HistoryLaw
<1>2. f \in [T -> Int] /\ IsFiniteSet(T) /\ SumFunction(f) \in Int
  BY <1>1, TimesTermsInt
<1>3. g \in [T -> Int] /\ \A r \in T : Net(lg, c, n, RowAt(k, r, j), OffAt(j)) \in Int
  BY NetTermsInt
<1>4. ASSUME NEW r \in T PROVE h[r] = f[r] + 1 * g[r]
  <2> DEFINE d == D(ds[c + 1], r, j)
             e == D(ds[n + 1], r, j)
             x == Net(lg, c, n, RowAt(k, r, j), OffAt(j))
  <2>1. r \in Nat
    BY KLaw, RowsLaw
  <2>2. e = d + x
    BY <2>1, Telescope DEF Net
  <2>3. d \in Int
    BY <1>1, <2>1, DLaw
  <2>4. x \in Int /\ b[r] \in Int
    BY <1>3
  <2>5. h[r] = b[r] * e /\ f[r] = b[r] * d /\ g[r] = b[r] * x
    BY DEF TimesTerms, NetTerms
  <2>6. \A u \in Int, v \in Int, w \in Int : u * (v + w) = u * v + 1 * (u * w)
    OBVIOUS
  <2> HIDE DEF d, e, x, f, g, h
  <2> QED
    BY <2>2, <2>3, <2>4, <2>5, <2>6
<1>5. h = [r \in T |-> h[r]]
  BY DEF TimesTerms
<1> HIDE DEF f, g, h, T
<1> DEFINE one == 1
<1>6. h = Added(T, f, one, g) /\ one \in Int
  BY <1>4, <1>5 DEF Added
<1> HIDE DEF one
<1>7. SumFunction(h) = SumFunction(f) + one * SumFunction(g)
  BY <1>2, <1>3, <1>6, SumLinear
<1>8. SumFunction(g) \in Int
  BY NetTermsInt DEF g
<1> QED
  BY <1>2, <1>7, <1>8 DEF one, f, g, h, Apart

\* Taking away what changed since an older version gives its answer.
LEMMA RewindLaw ==
  ASSUME backend \in Backends, NEW lg, NEW ds, History(lg, ds), NEW c \in Nat, NEW n \in Nat,
         n <= Len(lg), c <= n, NEW b \in [0 .. Rows(k) - 1 -> Int]
  PROVE  Rewind(Times(b, ds[n + 1]), b, PendingOf(lg, c, n), k) = Times(b, ds[c + 1])
<1> DEFINE p == PendingOf(lg, c, n)
           W == Width(k)
           a == Times(b, ds[n + 1])
           o == Times(b, ds[c + 1])
           z == Rewind(a, b, p, k)
<1>1. /\ a = [j \in 0 .. W - 1 |-> SumFunction(TimesTerms(b, ds[n + 1], j)) % q]
      /\ o = [j \in 0 .. W - 1 |-> SumFunction(TimesTerms(b, ds[c + 1], j)) % q]
  BY Zenon DEF Times, TimesTerms
<1>2. z = [j \in DOMAIN a |-> (a[j] - SumFunction(CellTerms(b, p, j))) % q]
  BY Zenon DEF Rewind, CellTerms
<1>3. ASSUME NEW j \in 0 .. W - 1 PROVE (a[j] - SumFunction(CellTerms(b, p, j))) % q = o[j]
  <2> DEFINE x == SumFunction(TimesTerms(b, ds[n + 1], j))
             y == SumFunction(TimesTerms(b, ds[c + 1], j))
             d == SumFunction(NetTerms(b, lg, c, n, j))
  <2>1. x = y + d /\ y \in Int /\ d \in Int
    <3>1. d \in Int
      BY NetTermsInt
    <3>2. /\ SumFunction(TimesTerms(b, ds[c + 1], j)) \in Int
          /\ SumFunction(TimesTerms(b, ds[n + 1], j))
               = SumFunction(TimesTerms(b, ds[c + 1], j)) + SumFunction(NetTerms(b, lg, c, n, j))
      <4> HIDE DEF x, y, d, p, a, o, z
      <4>1. Apart(lg, ds, c, n, b, j)
        BY TimesApart
      <4> QED
        BY <4>1 DEF Apart
    <3> QED
      BY <3>1, <3>2
  <2>2. SumFunction(CellTerms(b, p, j)) = d
    BY PendingSum
  <2>3. a[j] = x % q /\ o[j] = y % q
    <3> HIDE DEF a, o, x, y
    <3> QED
      BY <1>1 DEF x, y
  <2> HIDE DEF a, o, x, y, d, p
  <2>4. x \in Int /\ x % q \in Int /\ q \in Nat \ {0}
    BY <2>1, Constants, CongMod
  <2> DEFINE m == -d
  <2>5. m \in Int /\ x + m = y /\ (x % q) - d = (x % q) + m
    BY <2>1, <2>4
  <2> HIDE DEF m
  <2>6. ((x % q) + m) % q = (x + m) % q
    BY <2>4, <2>5, ModPlus
  <2> QED
    BY <2>2, <2>3, <2>5, <2>6
<1> HIDE DEF a, o, z, p, W
<1>4. z = o
  BY <1>1, <1>2, <1>3
<1> QED
  BY <1>4 DEF z, o, a, p

-----------------------------------------------------------------------------
(* Rounding. *)

\* Which numbers a division takes to x.
LEMMA DivOfMultiple ==
  ASSUME NEW d \in Nat \ {0}, NEW x \in Nat, NEW w \in Nat
  PROVE  w \div d = x <=> w - x * d \in 0 .. d - 1
<1> DEFINE u == w \div d
<1>1. u \in Nat /\ u * d <= w /\ w < u * d + d
  <2>1. u \in Nat /\ w = d * u + (w % d) /\ w % d \in 0 .. d - 1
    BY DivMod
  <2>3. d * u = u * d
    <3>1. \A a \in Nat, b \in Nat : a * b = b * a
      OBVIOUS
    <3> QED
      BY <2>1, <3>1
  <2>2. u * d \in Nat
    <3>1. \A a \in Nat, b \in Nat : a * b \in Nat
      OBVIOUS
    <3> QED
      BY <2>1, <3>1
  <2> HIDE DEF u
  <2> QED
    BY <2>1, <2>2, <2>3
<1> HIDE DEF u
<1>2. \A a \in Nat, b \in Nat : a < b => a * d + d <= b * d
  <2>1. ASSUME NEW a \in Nat, NEW b \in Nat, a < b PROVE a * d + d <= b * d
    <3>1. (a + 1) * d <= b * d
      BY <2>1
    <3>2. (a + 1) * d = a * d + d
      OBVIOUS
    <3> QED
      BY <3>1, <3>2
  <2> QED
    BY <2>1
<1>3. u * d \in Int /\ x * d \in Int
  BY <1>1
<1>4. u < x => u * d + d <= x * d
  BY <1>1, <1>2
<1>5. x < u => x * d + d <= u * d
  BY <1>1, <1>2
<1>6. u = x => u * d = x * d
  OBVIOUS
<1> DEFINE a == u * d
           b == x * d
<1> HIDE DEF a, b
<1>7. /\ a \in Int /\ b \in Int /\ a <= w /\ w < a + d
      /\ u < x => a + d <= b
      /\ x < u => b + d <= a
      /\ u = x => a = b
  BY <1>1, <1>3, <1>4, <1>5, <1>6 DEF a, b
<1>8. u = x <=> w - b \in 0 .. d - 1
  BY <1>1, <1>7
<1> QED
  BY <1>8 DEF u, b

\* Delta is even and divides the modulus.
LEMMA DeltaLaw ==
  /\ delta \in Nat \ {0} /\ 2^plaintext_bits \in Nat \ {0} /\ q = delta * 2^plaintext_bits
  /\ delta = 2 * (delta \div 2) /\ delta \div 2 \in Nat \ {0}
  /\ q = 2 * (q \div 2) /\ q \div 2 \in Nat /\ q \div 2 >= delta \div 2
<1> DEFINE h == delta \div 2
           P == 2^plaintext_bits
<1>1. q \in Nat \ {0} /\ P \in Nat \ {0} /\ q = delta * P /\ delta % 2 = 0
  BY LweAssumption
<1>2. delta \in Nat
  BY <1>1 DEF delta
<1>3. delta # 0
  BY <1>1, <1>2, SMT
<1>4. delta = 2 * h /\ h \in Nat \ {0}
  BY <1>1, <1>2, <1>3, SMT
<1> HIDE DEF h, P
<1> DEFINE g == h * P
<1>5. q = 2 * g /\ g \in Nat /\ g >= h
  <2>1. \A a \in Nat, b \in Nat \ {0} : (2 * a) * b = 2 * (a * b) /\ a * b \in Nat /\ a * b >= a
    OBVIOUS
  <2> QED
    BY <1>1, <1>4, <2>1
<1> HIDE DEF g
<1>6. q \div 2 = g
  BY <1>5
<1> QED
  BY <1>1, <1>2, <1>3, <1>4, <1>5, <1>6 DEF h, P

\* A word as a number around zero.
LEMMA SignedLaw ==
  ASSUME NEW y \in 0 .. q - 1
  PROVE  /\ Signed(y) \in -(q \div 2) .. (q \div 2) - 1
         /\ Cong(q, y, Signed(y))
<1>1. q = 2 * (q \div 2) /\ q \div 2 \in Nat /\ q \in Nat \ {0}
  BY DeltaLaw, Constants
<1> DEFINE g == q \div 2
<1> HIDE DEF g
<1>2. q = 2 * g /\ g \in Nat
  BY <1>1 DEF g
<1>3. Signed(y) = IF y < g THEN y ELSE y - q
  BY DEF Signed, g
<1>4. CASE y < g
  <2>1. Cong(q, y, y)
    BY <1>1, CongRefl
  <2> QED
    BY <1>2, <1>3, <1>4, <2>1 DEF g
<1>5. CASE ~(y < g)
  <2>1. y = (y - q) + q * 1 /\ y - q \in -g .. g - 1
    BY <1>1, <1>2, <1>5
  <2>2. Cong(q, y, y - q)
    BY <2>1 DEF Cong
  <2> QED
    BY <1>3, <1>5, <2>1, <2>2 DEF g
<1> QED
  BY <1>4, <1>5

\* A word that bears an error rounds to its plaintext exactly when the error,
\* as a number around zero, is from half of delta below to just under half of
\* delta above; plaintext 0 may go below zero and round the modulus
\* (round_q_to_p, round_p_to_q).
THEOREM RoundingUndoesError ==
  ASSUME NEW x \in Plaintext, NEW e \in Int
  PROVE  round_q_to_p((round_p_to_q(x) + e) % q) = x
           <=> Signed(e % q) \in -(delta \div 2) .. (delta \div 2) - 1
<1> DEFINE h == delta \div 2
           g == q \div 2
           P == 2^plaintext_bits
           y == x * delta
           s == Signed(e % q)
           z == (round_p_to_q(x) + e) % q
           w == (z + h) % q
<1>1. /\ q \in Nat \ {0} /\ delta \in Nat \ {0} /\ P \in Nat \ {0} /\ q = delta * P
      /\ delta = 2 * h /\ h \in Nat \ {0} /\ q = 2 * g /\ g \in Nat /\ g >= h
      /\ x \in 0 .. P - 1
  BY DeltaLaw, Constants DEF Plaintext
<1>2. s \in -g .. g - 1 /\ Cong(q, e, s)
  <2>1. e % q \in 0 .. q - 1 /\ Cong(q, e, e % q)
    BY <1>1, CongMod
  <2> DEFINE u == e % q
  <2> HIDE DEF u
  <2>2. Signed(u) \in -g .. g - 1 /\ Cong(q, u, Signed(u))
    BY <2>1, SignedLaw DEF u
  <2>3. u \in Int /\ Signed(u) \in Int
    BY <1>1, <2>1, <2>2 DEF u
  <2>4. Cong(q, e, Signed(u))
    BY <1>1, <2>1, <2>2, <2>3, CongTrans DEF u
  <2> QED
    BY <2>2, <2>4 DEF u
<1> HIDE DEF s, h, g, P
<1>3. y \in Nat /\ y + delta <= q
  <2>1. \A a \in Nat, b \in Nat, c \in Nat : a * c \in Nat /\ (a < b => a * c + c <= b * c)
    <3>1. ASSUME NEW a \in Nat, NEW b \in Nat, NEW c \in Nat, a < b PROVE a * c + c <= b * c
      <4>1. (a + 1) * c <= b * c
        BY <3>1
      <4>2. (a + 1) * c = a * c + c
        OBVIOUS
      <4> QED
        BY <4>1, <4>2
    <3> QED
      BY <3>1
  <2>2. x \in Nat /\ x < P
    BY <1>1
  <2>3. x * delta \in Nat /\ x * delta + delta <= P * delta
    BY <1>1, <2>1, <2>2
  <2>4. P * delta = q
    BY <1>1
  <2> QED
    BY <2>3, <2>4
<1> HIDE DEF y
<1>4. Cong(q, round_p_to_q(x), y) /\ round_p_to_q(x) \in Int
  <2>1. round_p_to_q(x) = y % q
    BY DEF round_p_to_q, y
  <2>2. y \in Int
    BY <1>3
  <2>3. y % q \in 0 .. q - 1 /\ Cong(q, y % q, y)
    BY <1>1, <2>2, CongMod
  <2> QED
    BY <1>1, <2>1, <2>3
<1> DEFINE v == round_p_to_q(x)
<1> HIDE DEF v
<1>5. v \in Int /\ Cong(q, v, y) /\ z = (v + e) % q
  BY <1>4 DEF v
<1>6. Cong(q, z, y + s) /\ z \in Int
  <2>1. Cong(q, v + e, y + s)
    BY <1>1, <1>2, <1>3, <1>5, CongAdd
  <2>2. v + e \in Int /\ y + s \in Int
    BY <1>2, <1>3, <1>5
  <2>3. z \in 0 .. q - 1 /\ Cong(q, z, v + e)
    BY <1>1, <1>5, <2>2, CongMod
  <2>4. z \in Int
    BY <1>1, <2>3
  <2> HIDE DEF z
  <2> QED
    BY <1>1, <2>1, <2>2, <2>3, <2>4, CongTrans
<1> HIDE DEF z
<1>7. w \in 0 .. q - 1 /\ Cong(q, w, (y + s) + h)
  <2>1. Cong(q, h, h)
    BY <1>1, CongRefl
  <2>2. y + s \in Int /\ z + h \in Int /\ (y + s) + h \in Int
    BY <1>1, <1>2, <1>3, <1>6
  <2>3. Cong(q, z + h, (y + s) + h)
    BY <1>1, <1>6, <2>1, <2>2, CongAdd
  <2>4. w \in 0 .. q - 1 /\ Cong(q, w, z + h)
    BY <1>1, <2>2, CongMod
  <2>5. w \in Int
    BY <1>1, <2>4
  <2> HIDE DEF w
  <2> QED
    BY <1>1, <2>2, <2>3, <2>4, <2>5, CongTrans
<1>8. round_q_to_p(z) = w \div delta
  BY DEF round_q_to_p, h
<1> HIDE DEF w
<1>9. w \div delta = x <=> w - y \in 0 .. delta - 1
  <2>1. w \in Nat /\ x \in Nat
    BY <1>1, <1>7
  <2> QED
    BY <1>1, <2>1, DivOfMultiple DEF y
<1>10. w - y \in 0 .. delta - 1 <=> s \in -h .. h - 1
  <2>1. ASSUME s \in -h .. h - 1 PROVE w - y \in 0 .. delta - 1
    <3>1. (y + s) + h \in 0 .. q - 1
      BY <1>1, <1>3, <2>1
    <3>2. w = (y + s) + h
      BY <1>1, <1>7, <3>1, CongSmall
    <3> QED
      BY <1>1, <1>3, <2>1, <3>2
  <2>2. ASSUME w - y \in 0 .. delta - 1 PROVE s \in -h .. h - 1
    <3>1. PICK t \in Int : w = ((y + s) + h) + q * t
      BY <1>7 DEF Cong
    <3>2. /\ t >= 1 => q * t >= q
          /\ t <= -1 => q * t <= -q
          /\ t = 0 => q * t = 0
          /\ q * t \in Int
      BY <1>1
    <3> DEFINE m == q * t
    <3> HIDE DEF m
    <3>3. w = ((y + s) + h) + m /\ m \in Int /\ (m = 0 \/ m >= q \/ m <= -q)
      BY <3>1, <3>2 DEF m
    <3> QED
      BY <1>1, <1>2, <1>3, <1>7, <2>2, <3>3
  <2> QED
    BY <2>1, <2>2
<1> QED
  BY <1>8, <1>9, <1>10 DEF z, s, h

-----------------------------------------------------------------------------
(* Queries and what is left of them. *)

RowVector == [0 .. Rows(k) - 1 -> Int]

\* A s + e.
Masked(secret, e) == [i \in 0 .. Rows(k) - 1 |-> (e[i] + AS(secret)[i]) % q]

\* sample_slot masks A s.
LEMMA SampleLaw ==
  ASSUME backend \in Backends, NEW secret \in Ints, NEW e \in RowVector, IsA(material.client)
  PROVE  SampleSlot(secret, e).b = Masked(secret, e)
<1> DEFINE f(i) == [j \in 0 .. lwe_dim - 1 |-> material.client[i * lwe_dim + j] * secret[j]]
<1>1. SampleSlot(secret, e).b = [i \in 0 .. Rows(k) - 1 |-> (e[i] + SumFunction(f(i))) % q]
  BY DEF SampleSlot
<1>2. ASSUME NEW i \in 0 .. Rows(k) - 1 PROVE SumFunction(f(i)) = AS(secret)[i]
  <2>1. ASSUME NEW j \in 0 .. lwe_dim - 1
        PROVE  material.client[i * lwe_dim + j] * secret[j] = secret[j] * Keystream[i * lwe_dim + j]
    <3>1. /\ material.client[i * lwe_dim + j] = Keystream[i * lwe_dim + j]
          /\ Keystream[i * lwe_dim + j] \in Int
      BY KeyLaw
    <3>2. secret[j] \in Int
      BY DEF Ints
    <3>3. \A x \in Int, y \in Int : x * y = y * x
      OBVIOUS
    <3> QED
      BY <3>1, <3>2, <3>3
  <2>2. f(i) = SecretTerms(secret, i)
    BY <2>1 DEF SecretTerms
  <2> HIDE DEF f
  <2> QED
    BY <2>2 DEF AS
<1> HIDE DEF f
<1> QED
  BY <1>1, <1>2 DEF Masked

QueryVector(b, row) == [b EXCEPT ![row \div k] = (@ + round_p_to_q(1)) % q]

\* Delta at the reshaped row asked for.
Unit(row) == [r \in 0 .. Rows(k) - 1 |-> IF r = row \div k THEN delta ELSE 0]

\* A query is A s + e, and delta at the row asked for, modulo q.
LEMMA QueryVectorLaw ==
  ASSUME backend \in Backends, NEW secret \in Ints, NEW e \in RowVector, NEW row \in 0 .. n_rows - 1
  PROVE  /\ Masked(secret, e) \in RowVector
         /\ QueryVector(Masked(secret, e), row) \in RowVector
         /\ \A r \in 0 .. Rows(k) - 1 :
              Cong(q, QueryVector(Masked(secret, e), row)[r], AS(secret)[r] + e[r] + Unit(row)[r])
<1> DEFINE R == 0 .. Rows(k) - 1
           b == Masked(secret, e)
           v == QueryVector(b, row)
           A == AS(secret)
           r0 == row \div k
           one == round_p_to_q(1)
<1>1. q \in Nat \ {0} /\ delta \in Nat \ {0}
  BY Constants, DeltaLaw
<1>2. A \in [R -> Int]
  BY SecretTermsInt
<1>3. r0 \in R
  BY KLaw, RowsLaw
<1>4. one \in Int /\ Cong(q, one, delta)
  <2>1. one = delta % q
    <3>1. 1 * delta = delta
      BY <1>1
    <3> QED
      BY <3>1 DEF round_p_to_q
  <2>2. delta % q \in 0 .. q - 1 /\ Cong(q, delta % q, delta)
    BY <1>1, CongMod
  <2> HIDE DEF one
  <2> QED
    BY <1>1, <2>1, <2>2
<1>5. ASSUME NEW r \in R
      PROVE  /\ A[r] \in Int /\ e[r] \in Int /\ b[r] \in Int /\ Cong(q, b[r], A[r] + e[r])
             /\ b[r] = (e[r] + A[r]) % q
  <2>1. b[r] = (e[r] + A[r]) % q
    BY DEF Masked
  <2>2. A[r] \in Int /\ e[r] \in Int
    BY <1>2 DEF RowVector
  <2> HIDE DEF A, b
  <2>3. e[r] + A[r] \in Int /\ e[r] + A[r] = A[r] + e[r]
    BY <2>2
  <2>4. (e[r] + A[r]) % q \in 0 .. q - 1 /\ Cong(q, (e[r] + A[r]) % q, e[r] + A[r])
    BY <1>1, <2>3, CongMod
  <2>5. b[r] \in Int
    BY <1>1, <2>1, <2>4
  <2> QED
    BY <2>1, <2>2, <2>3, <2>4, <2>5
<1>6. b = [r \in R |-> b[r]]
  BY DEF Masked
<1>7. v = [r \in R |-> IF r = r0 THEN (b[r0] + one) % q ELSE b[r]]
  <2> HIDE DEF b, one, R, r0
  <2> QED
    BY <1>3, <1>6 DEF QueryVector, one, r0
<1> HIDE DEF b, v, A, one
<1>8. ASSUME NEW r \in R
      PROVE  v[r] \in Int /\ Cong(q, v[r], A[r] + e[r] + Unit(row)[r])
  <2> DEFINE x == A[r]
             y == e[r]
             u == b[r]
             goal == v[r] \in Int /\ Cong(q, v[r], x + y + Unit(row)[r])
  <2> SUFFICES goal
    OBVIOUS
  <2>1. x \in Int /\ y \in Int /\ u \in Int /\ Cong(q, u, x + y)
    BY <1>5
  <2>2. CASE r = r0
    <3>1. v[r] = (u + one) % q /\ Unit(row)[r] = delta
      BY <1>7, <2>2 DEF Unit
    <3> HIDE DEF x, y, u
    <3>2. x + y \in Int /\ u + one \in Int /\ x + y + delta \in Int
      BY <1>1, <1>4, <2>1
    <3>3. Cong(q, u + one, x + y + delta)
      BY <1>1, <1>4, <2>1, <3>2, CongAdd
    <3>4. (u + one) % q \in 0 .. q - 1 /\ Cong(q, (u + one) % q, u + one)
      BY <1>1, <3>2, CongMod
    <3> DEFINE w == (u + one) % q
    <3>5. w \in Int
      BY <1>1, <3>4
    <3> HIDE DEF w
    <3>6. Cong(q, w, x + y + delta)
      BY <1>1, <3>2, <3>3, <3>4, <3>5, CongTrans DEF w
    <3> QED
      BY <3>1, <3>5, <3>6 DEF goal, w
  <2>3. CASE r # r0
    <3>1. v[r] = u /\ Unit(row)[r] = 0
      BY <1>7, <2>3 DEF Unit
    <3> HIDE DEF x, y, u
    <3>2. x + y + 0 = x + y
      BY <2>1
    <3> QED
      BY <2>1, <3>1, <3>2 DEF goal
  <2> QED
    BY <2>2, <2>3
<1>9. v \in [R -> Int]
  <2>1. v = [r \in R |-> v[r]]
    <3>1. DOMAIN v = R
      BY <1>7
    <3> QED
      BY <1>7
  <2> HIDE DEF R
  <2> QED
    BY <1>8, <2>1
<1>10. b \in [R -> Int]
  <2> HIDE DEF R
  <2> QED
    BY <1>5, <1>6
<1> QED
  BY <1>8, <1>9, <1>10 DEF RowVector, v, b, A

\* The product of the query and the matrix: of A s, of the error, and delta
\* times the row asked for.
LEMMA QueryTimes ==
  ASSUME backend \in Backends, NEW db \in Databases, NEW secret \in Ints, NEW e \in RowVector,
         NEW row \in 0 .. n_rows - 1, NEW j \in 0 .. Width(k) - 1
  PROVE  /\ SumFunction(TimesTerms(QueryVector(Masked(secret, e), row), db, j)) \in Int
         /\ SumFunction(TimesTerms(AS(secret), db, j)) \in Int
         /\ SumFunction(TimesTerms(e, db, j)) \in Int
         /\ D(db, row \div k, j) \in Int
         /\ Cong(q, SumFunction(TimesTerms(QueryVector(Masked(secret, e), row), db, j)),
                 SumFunction(TimesTerms(AS(secret), db, j))
                   + (SumFunction(TimesTerms(e, db, j)) + delta * D(db, row \div k, j)))
<1> DEFINE R == 0 .. Rows(k) - 1
           v == QueryVector(Masked(secret, e), row)
           A == AS(secret)
           r0 == row \div k
           fv == TimesTerms(v, db, j)
           fA == TimesTerms(A, db, j)
           fe == TimesTerms(e, db, j)
           fu == TimesTerms(Unit(row), db, j)
           d == D(db, r0, j)
           one == 1
           fs == Added(R, fe, one, fu)
           fall == Added(R, fA, one, fs)
<1>1. q \in Nat \ {0} /\ delta \in Nat \ {0}
  BY Constants, DeltaLaw
<1>2. r0 \in R /\ r0 \in Nat
  <2>1. r0 \in R
    BY KLaw, RowsLaw
  <2> QED
    BY <2>1, KLaw, RowsLaw
<1>3. d \in Int
  BY <1>2, DLaw
<1>4. v \in [R -> Int] /\ A \in [R -> Int] /\ e \in [R -> Int] /\ Unit(row) \in [R -> Int]
  <2>1. Unit(row) \in [R -> Int]
    BY <1>1 DEF Unit
  <2> QED
    BY <2>1, QueryVectorLaw, SecretTermsInt DEF RowVector
<1>5. /\ fv \in [R -> Int] /\ fA \in [R -> Int] /\ fe \in [R -> Int] /\ fu \in [R -> Int]
      /\ IsFiniteSet(R)
      /\ SumFunction(fv) \in Int /\ SumFunction(fA) \in Int /\ SumFunction(fe) \in Int
  BY <1>4, TimesTermsInt
<1>6. SumFunction(fu) = delta * d
  <2>1. fu[r0] = delta * d
    BY <1>2 DEF TimesTerms, Unit
  <2>2. ASSUME NEW r \in R, r # r0 PROVE fu[r] = 0
    <3>1. fu[r] = 0 * D(db, r, j)
      BY <2>2 DEF TimesTerms, Unit
    <3>2. D(db, r, j) \in Int
      <4>1. r \in Nat
        BY KLaw, RowsLaw
      <4> QED
        BY <4>1, DLaw
    <3>3. \A x \in Int : 0 * x = 0
      OBVIOUS
    <3> HIDE DEF fu
    <3> QED
      BY <3>1, <3>2, <3>3
  <2>3. SumFunction(fu) = fu[r0]
    <3> HIDE DEF fu, R, r0
    <3> QED
      BY <1>2, <1>5, <2>2, SumOne, ZenonT(30)
  <2> QED
    BY <2>1, <2>3
<1>7. one \in Int /\ \A x \in Int : one * x = x
  OBVIOUS
<1> HIDE DEF R, one
<1>8. /\ fs \in [R -> Int] /\ SumFunction(fs) = SumFunction(fe) + one * SumFunction(fu)
      /\ \A r \in R : fs[r] = fe[r] + one * fu[r]
  <2> HIDE DEF fe, fu
  <2>1. fs = [r \in R |-> fe[r] + one * fu[r]]
    BY DEF Added
  <2>2. \A r \in R : fe[r] \in Int /\ fu[r] \in Int
    BY <1>5
  <2>3. \A x \in Int, y \in Int : x + one * y \in Int
    BY <1>7
  <2>4. \A r \in R : fe[r] + one * fu[r] \in Int
    BY <2>2, <2>3
  <2>5. SumFunction(fs) = SumFunction(fe) + one * SumFunction(fu)
    BY <1>5, <1>7, SumLinear, SMTT(30)
  <2> HIDE DEF fs
  <2> QED
    BY <2>1, <2>4, <2>5
<1>9. /\ fall \in [R -> Int] /\ SumFunction(fall) = SumFunction(fA) + one * SumFunction(fs)
      /\ \A r \in R : fall[r] = fA[r] + one * fs[r]
  <2> HIDE DEF fA, fs
  <2>1. fall = [r \in R |-> fA[r] + one * fs[r]]
    BY DEF Added
  <2>2. \A r \in R : fA[r] \in Int /\ fs[r] \in Int
    BY <1>5, <1>8
  <2>3. \A x \in Int, y \in Int : x + one * y \in Int
    BY <1>7
  <2>4. \A r \in R : fA[r] + one * fs[r] \in Int
    BY <2>2, <2>3
  <2>5. SumFunction(fall) = SumFunction(fA) + one * SumFunction(fs)
    BY <1>5, <1>7, <1>8, SumLinear
  <2> HIDE DEF fall
  <2> QED
    BY <2>1, <2>4, <2>5
<1>10. ASSUME NEW r \in R PROVE Cong(q, fv[r], fall[r])
  <2> DEFINE x == D(db, r, j)
             m == A[r] + e[r] + Unit(row)[r]
  <2>1. x \in Int
    <3>1. r \in Nat
      BY KLaw, RowsLaw DEF R
    <3> QED
      BY <3>1, DLaw
  <2>2. A[r] \in Int /\ e[r] \in Int /\ Unit(row)[r] \in Int /\ v[r] \in Int
    <3> HIDE DEF A, v
    <3> QED
      BY <1>4
  <2>3. Cong(q, v[r], m)
    BY QueryVectorLaw DEF R
  <2>4. fv[r] = v[r] * x /\ fA[r] = A[r] * x /\ fe[r] = e[r] * x /\ fu[r] = Unit(row)[r] * x
    BY DEF TimesTerms, R
  <2> DEFINE a == A[r]
             b == e[r]
             c == Unit(row)[r]
             w == v[r]
  <2> HIDE DEF x, a, b, c, w
  <2>5. m = a + b + c
    BY DEF a, b, c
  <2>6. \A y \in Int, z \in Int, t \in Int, s \in Int : (y + z + t) * s = y * s + one * (z * s + one * (t * s))
    BY <1>7
  <2>7. fall[r] = a * x + one * (b * x + one * (c * x))
    <3>1. fall[r] = fA[r] + one * (fe[r] + one * fu[r])
      BY <1>8, <1>9
    <3> HIDE DEF fall, fA, fe, fu
    <3> QED
      BY <2>4, <3>1 DEF a, b, c
  <2>8. fall[r] = m * x
    <3> HIDE DEF fall, m
    <3> QED
      BY <2>1, <2>2, <2>5, <2>6, <2>7 DEF a, b, c
  <2>9. m \in Int
    BY <2>2, <2>5 DEF a, b, c
  <2>10. Cong(q, x, x) /\ w \in Int /\ Cong(q, w, m)
    BY <1>1, <2>1, <2>2, <2>3, CongRefl DEF w
  <2> HIDE DEF m
  <2>11. Cong(q, w * x, m * x)
    BY <1>1, <2>1, <2>9, <2>10, CongTimes
  <2> HIDE DEF fall, fv, v
  <2> QED
    BY <2>4, <2>8, <2>11 DEF w
<1>11. Cong(q, SumFunction(fv), SumFunction(fall))
  <2> HIDE DEF fv, fall
  <2> QED
    BY <1>1, <1>5, <1>9, <1>10, CongSum
<1>12. SumFunction(fall) = SumFunction(fA) + (SumFunction(fe) + delta * d)
  <2> DEFINE se == SumFunction(fe)
             su == SumFunction(fu)
             ss == SumFunction(fs)
             sA == SumFunction(fA)
             sal == SumFunction(fall)
             p == delta * d
  <2>1. p \in Int
    <3>1. \A x \in Int, y \in Int : x * y \in Int
      OBVIOUS
    <3> QED
      BY <1>1, <1>3, <3>1
  <2>2. se \in Int /\ sA \in Int /\ su = p /\ ss = se + one * su /\ sal = sA + one * ss
    BY <1>5, <1>6, <1>8, <1>9
  <2> HIDE DEF se, su, ss, sA, sal, p
  <2>3. ss = se + p /\ ss \in Int
    BY <1>7, <2>1, <2>2
  <2>4. sal = sA + ss
    BY <1>7, <2>2, <2>3
  <2>5. sal = sA + (se + p)
    BY <2>3, <2>4
  <2> QED
    BY <2>5 DEF sal, sA, se, p
<1> QED
  BY <1>3, <1>5, <1>11, <1>12 DEF v, A, d, r0

\* What is masked and taken away leaves the rest.
LEMMA TakenAway ==
  ASSUME NEW a \in Int, NEW x \in Int, NEW s \in Int, NEW m \in Int,
         Cong(q, a, s + m), Cong(q, x, -s)
  PROVE  (a + x) % q = m % q
<1>1. q \in Nat \ {0} /\ s + m \in Int /\ -s \in Int
  BY Constants
<1>2. Cong(q, a + x, (s + m) + (-s))
  BY <1>1, CongAdd
<1>3. (s + m) + (-s) = m /\ a + x \in Int
  OBVIOUS
<1>4. Cong(q, a + x, m)
  BY <1>2, <1>3
<1> QED
  BY <1>1, <1>3, <1>4, CongEqual

\* The hint multiplied with the negated secret.
LEMMA NegatedLaw ==
  ASSUME backend \in Backends, NEW db \in Databases, NEW secret \in Ints, NEW j \in 0 .. Width(k) - 1,
         NEW neg, neg = [i \in 0 .. lwe_dim - 1 |-> (-secret[i]) % q]
  PROVE  /\ ColumnOf(neg, HintOf(db), lwe_dim, Width(k), j) \in [0 .. lwe_dim - 1 -> Int]
         /\ SumFunction(ColumnOf(neg, HintOf(db), lwe_dim, Width(k), j)) \in Int
         /\ Cong(q, SumFunction(ColumnOf(neg, HintOf(db), lwe_dim, Width(k), j)),
                 -SumFunction(TimesTerms(AS(secret), db, j)))
<1> DEFINE I == 0 .. lwe_dim - 1
           W == Width(k)
           f == ColumnOf(neg, HintOf(db), lwe_dim, W, j)
           c == CTerms(secret, db, j)
           m == [i \in I |-> (-1) * c[i]]
           sA == SumFunction(TimesTerms(AS(secret), db, j))
<1>1. q \in Nat \ {0} /\ IsFiniteSet(I)
  BY Constants, SecretTermsInt
<1>2. /\ c \in [I -> Int] /\ SumFunction(c) \in Int
      /\ \A i \in I : HintOf(db)[i * W + j] \in Int
  BY CTermsInt
<1>3. ASSUME NEW i \in I
      PROVE  f[i] \in Int /\ (-1) * c[i] \in Int /\ Cong(q, f[i], (-1) * c[i])
  <2> DEFINE s == secret[i]
             h == HintOf(db)[i * W + j]
             n == (-s) % q
  <2>1. s \in Int /\ h \in Int
    BY <1>2 DEF Ints
  <2>2. f[i] = n * h /\ c[i] = s * h
    BY DEF ColumnOf, CTerms
  <2> HIDE DEF s, h, f, c
  <2>3. -s \in Int
    BY <2>1
  <2>4. n \in 0 .. q - 1 /\ Cong(q, n, -s)
    <3> DEFINE t == -s
    <3> HIDE DEF t
    <3>1. t % q \in 0 .. q - 1 /\ Cong(q, t % q, t)
      BY <1>1, <2>3, CongMod DEF t
    <3> QED
      BY <3>1 DEF t
  <2>5. n \in Int /\ Cong(q, h, h)
    BY <1>1, <2>1, <2>4, CongRefl
  <2> HIDE DEF n
  <2>6. Cong(q, n * h, (-s) * h)
    BY <1>1, <2>1, <2>3, <2>4, <2>5, CongTimes
  <2>7. \A x \in Int, y \in Int : (-x) * y = (-1) * (x * y) /\ x * y \in Int /\ (-1) * (x * y) \in Int
    OBVIOUS
  <2>8. (-s) * h = (-1) * (s * h) /\ (-1) * (s * h) \in Int /\ n * h \in Int
    BY <2>1, <2>5, <2>7
  <2> QED
    BY <2>2, <2>6, <2>8
<1>4. f \in [I -> Int]
  <2>1. f = [i \in I |-> f[i]]
    BY DEF ColumnOf
  <2> HIDE DEF f, I
  <2> QED
    BY <1>3, <2>1
<1> HIDE DEF f, I, c
<1>5. m \in [I -> Int] /\ \A i \in I : m[i] = (-1) * c[i]
  BY <1>3
<1> DEFINE mone == -1
<1>6. SumFunction(m) = mone * SumFunction(c)
  <2>1. mone \in Int /\ \A i \in I : m[i] = mone * c[i]
    BY <1>5
  <2>2. DOMAIN m = I /\ m = [i \in I |-> m[i]]
    BY <1>5
  <2>3. IsFiniteSet(I) /\ c \in [I -> Int]
    BY <1>1, <1>2
  <2> HIDE DEF mone, m, sA, W
  <2> QED
    BY <2>1, <2>2, <2>3, SumScaled, SMTT(30)
<1>7. SumFunction(f) \in Int
  BY <1>1, <1>4, SumInt
<1> HIDE DEF m
<1>8. Cong(q, SumFunction(f), SumFunction(m))
  <2>1. \A i \in I : Cong(q, f[i], m[i])
    BY <1>3, <1>5
  <2> QED
    BY <1>1, <1>4, <1>5, <2>1, CongSum
<1>9. sA \in Int /\ Cong(q, SumFunction(c), sA)
  <2>1. sA \in Int
    BY SecretTermsInt, TimesTermsInt
  <2>2. Cong(q, SumFunction(c), sA)
    BY CTermsLaw DEF c
  <2> QED
    BY <2>1, <2>2
<1> DEFINE sc == SumFunction(c)
           sf == SumFunction(f)
<1>10. sc \in Int /\ sf \in Int /\ sA \in Int /\ Cong(q, sc, sA) /\ Cong(q, sf, mone * sc)
  BY <1>2, <1>6, <1>7, <1>8, <1>9
<1> HIDE DEF sc, sf, sA
<1>11. mone * sc = 0 - sc /\ -sA = 0 - sA /\ 0 - sc \in Int /\ 0 - sA \in Int
  BY <1>10
<1> HIDE DEF mone
<1> DEFINE zero == 0
<1>12. zero \in Int /\ Cong(q, zero, zero)
  BY <1>1, CongRefl
<1>13. Cong(q, sf, zero - sc) /\ zero - sc \in Int /\ zero - sA \in Int
  BY <1>10, <1>11
<1>17. -sA = zero - sA
  BY <1>11
<1> HIDE DEF zero
<1>14. Cong(q, zero - sc, zero - sA)
  BY <1>1, <1>10, <1>12, CongAdd
<1>15. Cong(q, sf, zero - sA)
  BY <1>1, <1>10, <1>13, <1>14, CongTrans
<1>16. Cong(q, sf, -sA)
  BY <1>15, <1>17
<1> QED
  BY <1>4, <1>7, <1>16 DEF f, I, sf, sA

\* With cached material or fresh, the error and the cell are left (client_decode).
LEMMA ResidualLaw ==
  ASSUME backend \in Backends, NEW db \in Databases, NEW secret \in Ints, NEW e \in RowVector,
         NEW row \in 0 .. n_rows - 1, NEW j \in 0 .. Width(k) - 1, NEW R \in Nat \ {0},
         in_flight.slot.secret = secret, hint.client = HintOf(db),
         in_flight.slot.c # None => in_flight.slot.c = Material(secret, db)
  PROVE  Residual(Times(QueryVector(Masked(secret, e), row), db), R)[j]
           = (SumFunction(TimesTerms(e, db, j)) + delta * D(db, row \div k, j)) % q
<1> DEFINE W == Width(k)
           v == QueryVector(Masked(secret, e), row)
           a == Times(v, db)
           sv == SumFunction(TimesTerms(v, db, j))
           sA == SumFunction(TimesTerms(AS(secret), db, j))
           se == SumFunction(TimesTerms(e, db, j))
           d == D(db, row \div k, j)
           m == se + delta * d
<1>1. q \in Nat \ {0} /\ delta \in Nat \ {0} /\ W \in Nat \ {0} /\ lwe_dim \in Nat
  BY Constants, DeltaLaw, KLaw
<1>2. sv \in Int /\ sA \in Int /\ se \in Int /\ d \in Int /\ Cong(q, sv, sA + m)
  BY QueryTimes
<1>3. m \in Int
  <2>1. \A x \in Int, y \in Int, z \in Int : x + y * z \in Int
    OBVIOUS
  <2> HIDE DEF se, d
  <2> QED
    BY <1>1, <1>2, <2>1
<1>4. a = [c \in 0 .. W - 1 |-> SumFunction(TimesTerms(v, db, c)) % q]
  BY Zenon DEF Times, TimesTerms
<1>5. DOMAIN a = 0 .. W - 1 /\ a[j] = sv % q
  <2> HIDE DEF a
  <2> QED
    BY <1>4
<1>6. a[j] \in Int /\ Cong(q, a[j], sA + m)
  <2> HIDE DEF a, sv, sA, m
  <2>1. sv % q \in 0 .. q - 1 /\ Cong(q, sv % q, sv)
    BY <1>1, <1>2, CongMod
  <2> DEFINE x == sv % q
  <2>2. x \in Int /\ sA + m \in Int
    BY <1>1, <1>2, <1>3, <2>1
  <2> HIDE DEF x
  <2>3. Cong(q, x, sA + m)
    BY <1>1, <1>2, <2>1, <2>2, CongTrans DEF x
  <2> QED
    BY <1>5, <2>2, <2>3 DEF x
<1>7. CASE in_flight.slot.c # None
  <2> DEFINE c == Material(secret, db)
             y == c[j]
             x == -y
  <2>1. Residual(a, R)[j] = (a[j] - y) % q
    <3> HIDE DEF a, c
    <3>1. in_flight.slot.c = c
      BY <1>7 DEF c
    <3> QED
      BY <1>5, <1>7, <3>1 DEF Residual
  <2>2. y = sA % q
    BY MaterialLaw
  <2> HIDE DEF a, c, sA, m
  <2>3. sA % q \in 0 .. q - 1 /\ Cong(q, sA % q, sA)
    BY <1>1, <1>2, CongMod
  <2>4. y \in Int /\ Cong(q, y, sA)
    BY <1>1, <2>2, <2>3
  <2> HIDE DEF y
  <2> DEFINE zero == 0
  <2>5. zero \in Int /\ Cong(q, zero, zero) /\ x = zero - y /\ -sA = zero - sA /\ x \in Int
    BY <1>1, <1>2, <2>4, CongRefl
  <2> HIDE DEF zero, x
  <2>6. Cong(q, zero - y, zero - sA)
    BY <1>1, <1>2, <2>4, <2>5, CongAdd
  <2>7. Cong(q, x, -sA)
    BY <2>5, <2>6
  <2>8. a[j] + x = a[j] - y
    BY <1>6, <2>4 DEF x
  <2>9. (a[j] + x) % q = m % q
    <3> DEFINE aj == a[j]
    <3>1. aj \in Int /\ Cong(q, aj, sA + m) /\ sA \in Int /\ m \in Int /\ x \in Int
      BY <1>2, <1>3, <1>6, <2>5
    <3> HIDE DEF aj
    <3>2. (aj + x) % q = m % q
      BY <2>7, <3>1, TakenAway
    <3> QED
      BY <3>2 DEF aj
  <2> QED
    BY <2>1, <2>8, <2>9 DEF m, a
<1>8. CASE in_flight.slot.c = None
  <2> DEFINE neg == [i \in 0 .. lwe_dim - 1 |-> (-secret[i]) % q]
             h == HintOf(db)
             f == ColumnOf(neg, h, lwe_dim, W, j)
             x == SumFunction(f)
  <2>1. Residual(a, R) = MatvecAccumulate(a, h, neg, lwe_dim, R)
    <3>1. DOMAIN secret = 0 .. lwe_dim - 1
      BY DEF Ints
    <3>2. neg = [i \in DOMAIN secret |-> (-secret[i]) % q]
      BY <3>1
    <3> HIDE DEF a, neg
    <3> QED
      BY <1>8, <3>2 DEF Residual
  <2>2. f \in [0 .. lwe_dim - 1 -> Int] /\ x \in Int /\ Cong(q, x, -sA)
    <3> HIDE DEF neg
    <3>1. neg = [i \in 0 .. lwe_dim - 1 |-> (-secret[i]) % q]
      BY DEF neg
    <3> QED
      BY <3>1, NegatedLaw
  <2>3. MatvecAccumulate(a, h, neg, lwe_dim, R)[j] = (a[j] + x) % q
    <3> HIDE DEF a, h, neg, W
    <3>1. ColumnOf(neg, h, lwe_dim, W, j) \in [0 .. lwe_dim - 1 -> Int]
      BY <2>2
    <3>2. j \in 0 .. W - 1
      BY DEF W
    <3> HIDE DEF f, x
    <3>3. DOMAIN a = 0 .. W - 1 /\ a[j] \in Int
      BY <1>5, <1>6
    <3>4. MatvecAccumulate(a, h, neg, lwe_dim, R)[j] = (a[j] + SumFunction(ColumnOf(neg, h, lwe_dim, W, j))) % q
      <4>1. W \in Nat \ {0} /\ lwe_dim \in Nat /\ R \in Nat \ {0}
        BY <1>1
      <4> DEFINE mv == MatvecAccumulate(a, h, neg, lwe_dim, R)
                 g == ColumnOf(neg, h, lwe_dim, W, j)
      <4>2. /\ g \in [0 .. lwe_dim - 1 -> Int] /\ g = ColumnOf(neg, h, lwe_dim, W, j)
            /\ mv = MatvecAccumulate(a, h, neg, lwe_dim, R)
        BY <3>1
      <4> HIDE DEF mv, g, sA, se, sv, d, m, v
      <4>3. mv[j] = (a[j] + SumFunction(g)) % q
        BY <3>2, <3>3, <4>1, <4>2, MatvecLaw
      <4> QED
        BY <4>3 DEF mv, g
    <3> QED
      BY <3>4 DEF x, f
  <2> HIDE DEF a, x, sA, m
  <2>4. (a[j] + x) % q = m % q
    BY <1>2, <1>3, <1>6, <2>2, TakenAway
  <2> QED
    BY <2>1, <2>3, <2>4 DEF m, a
<1> QED
  BY <1>7, <1>8

\* Decoding the answer of the client's version gives the cell exactly within the margin.
LEMMA DecodeLaw ==
  ASSUME backend \in Backends, NEW db \in Databases, \A x \in DOMAIN db : db[x] \in Plaintext,
         NEW secret \in Ints, NEW e \in RowVector,
         NEW row \in 0 .. n_rows - 1, NEW off \in 0 .. row_width - 1, NEW R \in Nat \ {0},
         in_flight.slot.secret = secret, hint.client = HintOf(db), in_flight.bucket_within = row % k,
         in_flight.slot.c # None => in_flight.slot.c = Material(secret, db)
  PROVE  ClientDecode(Times(QueryVector(Masked(secret, e), row), db), R)[off] = db[row * row_width + off]
           <=> Signed(SumFunction(TimesTerms(e, db, in_flight.bucket_within * row_width + off)) % q)
                 \in -(delta \div 2) .. (delta \div 2) - 1
<1> DEFINE a == Times(QueryVector(Masked(secret, e), row), db)
           j == in_flight.bucket_within * row_width + off
           cell == db[row * row_width + off]
           n == SumFunction(TimesTerms(e, db, j))
<1>1. k \in 1 .. n_rows /\ k \in Nat \ {0} /\ Width(k) = k * row_width /\ row \in Nat
      /\ n_rows \in Nat \ {0} /\ row_width \in Nat \ {0}
  BY KLaw, Constants
<1>2. j = ReshapeOff(row, off, k)
  BY DEF ReshapeOff
<1>3. /\ row \div k \in Nat /\ j \in 0 .. Width(k) - 1 /\ OffAt(j) = off
      /\ RowAt(k, row \div k, j) = row
  <2> HIDE DEF j
  <2> QED
    BY <1>1, <1>2, PlaceOf
<1> HIDE DEF j
<1>4. D(db, row \div k, j) = cell /\ row * row_width + off \in DOMAIN db
  <2>1. /\ D(db, row \div k, j) = IF RowAt(k, row \div k, j) < n_rows
                                 THEN db[RowAt(k, row \div k, j) * row_width + OffAt(j)] ELSE 0
        /\ RowAt(k, row \div k, j) < n_rows =>
             RowAt(k, row \div k, j) * row_width + OffAt(j) \in 0 .. n_rows * row_width - 1
    BY <1>3, DLaw
  <2>2. row < n_rows
    BY <1>1
  <2>3. DOMAIN db = 0 .. n_rows * row_width - 1
    BY DEF Databases
  <2> QED
    BY <1>3, <2>1, <2>2, <2>3
<1>5. cell \in Plaintext
  BY <1>4
<1>6. n \in Int
  BY <1>3, TimesTermsInt DEF RowVector
<1>7. Residual(a, R)[j] = (n + delta * cell) % q
  BY <1>3, <1>4, ResidualLaw
<1>8. ClientDecode(a, R)[off] = round_q_to_p(Residual(a, R)[j])
  <2> HIDE DEF a
  <2> QED
    BY DEF ClientDecode, j
<1> HIDE DEF a, cell, n
<1>9. (n + delta * cell) % q = (round_p_to_q(cell) + n) % q
  <2>1. delta \in Nat /\ cell \in Nat /\ q \in Nat \ {0}
    BY <1>5, DeltaLaw, Constants DEF Plaintext
  <2>2. \A x \in Int, y \in Int : x * y = y * x /\ x * y \in Int
    OBVIOUS
  <2> DEFINE p == cell * delta
  <2>3. delta * cell = p /\ p \in Int /\ round_p_to_q(cell) = p % q
    BY <2>1, <2>2 DEF round_p_to_q
  <2> HIDE DEF p
  <2>4. ((p % q) + n) % q = (p + n) % q
    BY <1>6, <2>1, <2>3, ModPlus
  <2>5. p + n = n + p
    BY <1>6, <2>3
  <2> QED
    BY <2>3, <2>4, <2>5
<1>10. round_q_to_p((round_p_to_q(cell) + n) % q) = cell
         <=> Signed(n % q) \in -(delta \div 2) .. (delta \div 2) - 1
  BY <1>5, <1>6, RoundingUndoesError
<1>11. ClientDecode(a, R)[off] = cell <=> Signed(n % q) \in -(delta \div 2) .. (delta \div 2) - 1
  BY <1>7, <1>8, <1>9, <1>10
<1> QED
  BY <1>11 DEF a, cell, n, j

-----------------------------------------------------------------------------
(* The inductive invariant. *)

Column == [0 .. Width(k) - 1 -> Int]

\* Slots whose vector is A s + e and whose material, if any, is for a database.
GoodSlots(db) ==
  {s \in [secret : Ints, e : RowVector, c : {None} \cup Column, b : RowVector] :
     /\ s.b = Masked(s.secret, s.e)
     /\ s.c # None => s.c = Material(s.secret, db)}

Versions(lg, ds, cv) ==
  /\ History(lg, ds) /\ cv \in 0 .. Len(lg)
  /\ \A v \in 0 .. Len(lg) : \A x \in DOMAIN ds[v + 1] : ds[v + 1][x] \in Plaintext

GoodHints(h, lg, ds, cv) == h = [server |-> HintOf(ds[Len(lg) + 1]), client |-> HintOf(ds[cv + 1])]

GoodClient(ds, cv, prep, infl) ==
  /\ prep \in Seq(GoodSlots(ds[cv + 1]))
  /\ infl # None => infl \in [slot : GoodSlots(ds[cv + 1]), bucket_within : Nat]

GoodQuery(infl, qu) ==
  qu # None =>
    /\ qu.row \in 0 .. n_rows - 1 /\ qu.b \in RowVector
    /\ infl # None => /\ infl.bucket_within = qu.row % k
                      /\ qu.b = QueryVector(infl.slot.b, qu.row)

GoodResponse(lg, ds, qu, resp) ==
  resp # None => /\ qu # None /\ resp.version \in 0 .. Len(lg)
                 /\ resp.a = Times(qu.b, ds[resp.version + 1])

WordsInv ==
  /\ backend \in Backends /\ IsA(material.server) /\ IsA(material.client)
  /\ Versions(log, dbs, cversion)
  /\ GoodHints(hint, log, dbs, cversion)
  /\ GoodClient(dbs, cversion, prepared, in_flight)
  /\ GoodQuery(in_flight, query)
  /\ GoodResponse(log, dbs, query, response)

\* The shape is of the backend, and that is chosen once.
LEMMA SameShape ==
  ASSUME backend' = backend
  PROVE  k' = k
BY DEF k

\* The parts of the invariant, read in the next state.
LEMMA SameVersions ==
  ASSUME backend' = backend, material' = material, backend \in Backends,
         IsA(material.server), IsA(material.client),
         Versions(log', dbs', cversion'),
         GoodHints(hint', log', dbs', cversion')
  PROVE  /\ (backend \in Backends)' /\ IsA(material.server)' /\ IsA(material.client)'
         /\ Versions(log, dbs, cversion)' /\ GoodHints(hint, log, dbs, cversion)'
<1>1. k' = k
  BY SameShape
<1>2. (backend \in Backends)' /\ IsA(material.server)' /\ IsA(material.client)'
  BY <1>1 DEF IsA
<1>3. Versions(log, dbs, cversion)'
  BY <1>1 DEF Versions, History
<1>4. GoodHints(hint, log, dbs, cversion)'
  BY <1>1 DEF GoodHints, HintOf, D
<1> QED
  BY <1>2, <1>3, <1>4

\* As before.
LEMMA SameClient ==
  ASSUME backend' = backend, GoodClient(dbs', cversion', prepared', in_flight')
  PROVE  GoodClient(dbs, cversion, prepared, in_flight)'
<1>1. k' = k
  BY SameShape
<1> QED
  BY <1>1, SMTT(30) DEF GoodClient, GoodSlots, Column, RowVector, Ints, Masked, AS, SecretTerms, Material, CTerms, HintOf, D

\* As before.
LEMMA SameQuery ==
  ASSUME backend' = backend, GoodQuery(in_flight', query')
  PROVE  GoodQuery(in_flight, query)'
<1>1. k' = k
  BY SameShape
<1> QED
  BY <1>1 DEF GoodQuery, RowVector, QueryVector

\* As before.
LEMMA SameResponse ==
  ASSUME backend' = backend, GoodResponse(log', dbs', query', response')
  PROVE  GoodResponse(log, dbs, query, response)'
<1>1. k' = k
  BY SameShape
<1> QED
  BY <1>1 DEF GoodResponse, Times, D

\* What the constants are known to be.
LEMMA Givens ==
  ASSUME backend \in Backends
  PROVE  /\ InitialDb \in Databases /\ \A x \in DOMAIN InitialDb : InitialDb[x] \in Plaintext
         /\ DOMAIN InitialDb = 0 .. n_rows * row_width - 1
         /\ Plaintext \subseteq Int
         /\ Secrets[backend] \subseteq Ints /\ Errors[backend] \subseteq RowVector
         /\ Batches \subseteq Seq(RowDeltas) /\ QueryRows \subseteq 0 .. n_rows - 1
         /\ BlockRows \subseteq Nat \ {0} /\ Threads \subseteq Nat \ {0}
<1>1. /\ InitialDb \in [0 .. n_rows * row_width - 1 -> Plaintext]
      /\ Batches \subseteq Seq(RowDeltas) /\ QueryRows \subseteq 0 .. n_rows - 1
      /\ BlockRows \subseteq Nat \ {0} /\ Threads \subseteq Nat \ {0}
  BY LwePirAssumption
<1>2. Plaintext \subseteq Int
  BY DeltaLaw DEF Plaintext
<1>3. Ternary \subseteq Int /\ Words \subseteq Int
  BY Constants DEF Ternary, Words
<1>4. InitialDb \in Databases
  BY <1>1, <1>2 DEF Databases
<1>5. ASSUME NEW s \in Secrets[backend] PROVE s \in Ints
  <2>1. s \in [0 .. lwe_dim - 1 -> IF backend = "frodo" THEN Ternary ELSE Words]
    BY LwePirAssumption
  <2> QED
    BY <1>3, <2>1 DEF Ints
<1>6. ASSUME NEW e \in Errors[backend] PROVE e \in RowVector
  <2>1. e \in [0 .. Rows(k) - 1 -> IF backend = "frodo" THEN Ternary ELSE Words]
    BY LwePirAssumption DEF k
  <2> QED
    BY <1>3, <2>1 DEF RowVector
<1> QED
  BY <1>1, <1>2, <1>4, <1>5, <1>6

\* The invariant holds when server and client are set up.
LEMMA WordsInit == Init => WordsInv
<1> SUFFICES ASSUME Init PROVE WordsInv
  OBVIOUS
<1>1. backend \in Backends
  BY DEF Init
<1>2. /\ log = <<>> /\ dbs = <<InitialDb>> /\ cversion = 0 /\ prepared = <<>> /\ in_flight = None
      /\ query = None /\ response = None
  BY DEF Init
<1>3. PICK ts \in Threads, tc \in Threads :
        /\ material = [server |-> Expanded(ts), client |-> Expanded(tc)]
        /\ hint = [server |-> SetupHint(material.server, ts), client |-> SetupHint(material.server, ts)]
  BY DEF Init
<1>4. ts \in Nat \ {0} /\ tc \in Nat \ {0}
  BY <1>1, Givens
<1>5. IsA(material.server) /\ IsA(material.client)
  <2>1. material.server = Expanded(ts) /\ material.client = Expanded(tc)
    BY <1>3
  <2>2. IsA(Expanded(ts)) /\ IsA(Expanded(tc))
    BY <1>1, <1>4, ExpandedLaw
  <2> QED
    BY <2>1, <2>2
<1>6. InitialDb \in Databases /\ \A x \in DOMAIN InitialDb : InitialDb[x] \in Plaintext
  BY <1>1, Givens
<1>7. SetupHint(material.server, ts) = HintOf(InitialDb)
  BY <1>1, <1>4, <1>5, <1>6, SetupHintLaw
<1>8. Len(log) = 0 /\ dbs[0 + 1] = InitialDb /\ Len(dbs) = 1
  BY <1>2
<1>9. Versions(log, dbs, cversion)
  <2>1. log \in Seq(Seq(RowDeltas))
    BY <1>2
  <2>2. dbs \in Seq(Databases)
    BY <1>2, <1>6
  <2>3. 1 .. 0 = {} /\ 0 .. 0 = {0}
    OBVIOUS
  <2>4. History(log, dbs)
    BY <1>8, <2>1, <2>2, <2>3 DEF History
  <2> QED
    BY <1>2, <1>6, <1>8, <2>3, <2>4 DEF Versions
<1>10. GoodHints(hint, log, dbs, cversion)
  BY <1>2, <1>3, <1>7, <1>8 DEF GoodHints
<1>11. GoodClient(dbs, cversion, prepared, in_flight)
  BY <1>2 DEF GoodClient
<1>12. GoodQuery(in_flight, query) /\ GoodResponse(log, dbs, query, response)
  BY <1>2 DEF GoodQuery, GoodResponse
<1> QED
  BY <1>1, <1>5, <1>9, <1>10, <1>11, <1>12 DEF WordsInv

\* The fields of a good slot.
LEMMA SlotLaw ==
  ASSUME NEW db, NEW slot \in GoodSlots(db)
  PROVE  /\ slot.secret \in Ints /\ slot.e \in RowVector /\ slot.b \in RowVector
         /\ slot.c \in {None} \cup Column
         /\ slot = [secret |-> slot.secret, e |-> slot.e, c |-> slot.c, b |-> slot.b]
         /\ slot.b = Masked(slot.secret, slot.e)
         /\ slot.c # None => slot.c = Material(slot.secret, db)
BY DEF GoodSlots

\* A slot with material for a database is good for it.
LEMMA SlotWith ==
  ASSUME backend \in Backends, NEW db, NEW db2 \in Databases, NEW slot \in GoodSlots(db), NEW c,
         c = Material(slot.secret, db2)
  PROVE  [slot EXCEPT !.c = c] \in GoodSlots(db2)
<1>1. /\ slot.secret \in Ints /\ slot.e \in RowVector /\ slot.b \in RowVector
      /\ slot = [secret |-> slot.secret, e |-> slot.e, c |-> slot.c, b |-> slot.b]
      /\ slot.b = Masked(slot.secret, slot.e)
  BY SlotLaw
<1>2. c \in Column
  <2>1. \A j \in 0 .. Width(k) - 1 : c[j] \in 0 .. q - 1
    BY <1>1, MaterialLaw
  <2>2. 0 .. q - 1 \subseteq Int
    BY Constants
  <2>3. c = [j \in 0 .. Width(k) - 1 |-> c[j]]
    BY DEF Material
  <2> QED
    BY <2>1, <2>2, <2>3 DEF Column
<1>3. [slot EXCEPT !.c = c] = [secret |-> slot.secret, e |-> slot.e, c |-> c, b |-> slot.b]
  BY <1>1
<1> QED
  BY <1>1, <1>2, <1>3 DEF GoodSlots

\* A slot without material is good for any database.
LEMMA SlotWithout ==
  ASSUME NEW db, NEW db2, NEW slot \in GoodSlots(db), slot.c = None
  PROVE  slot \in GoodSlots(db2)
BY DEF GoodSlots

\* A fresh slot is good.
LEMMA FreshLaw ==
  ASSUME backend \in Backends, IsA(material.client), NEW db, NEW slot \in FreshSlots
  PROVE  slot \in GoodSlots(db)
<1>1. PICK s \in Secrets[backend], e \in Errors[backend] : slot = SampleSlot(s, e)
  BY DEF FreshSlots
<1>2. s \in Ints /\ e \in RowVector
  BY <1>1, Givens
<1>3. slot.b = Masked(s, e)
  BY <1>1, <1>2, SampleLaw
<1>4. slot = [secret |-> s, e |-> e, c |-> None, b |-> slot.b]
  BY <1>1 DEF SampleSlot
<1>5. Masked(s, e) \in RowVector
  <2> DEFINE zero == 0
  <2>1. zero \in 0 .. n_rows - 1
    BY Constants
  <2> HIDE DEF zero
  <2> QED
    BY <1>2, <2>1, QueryVectorLaw
<1> DEFINE b == Masked(s, e)
<1> HIDE DEF b
<1>6. slot = [secret |-> s, e |-> e, c |-> None, b |-> b] /\ b \in RowVector
  BY <1>3, <1>4, <1>5 DEF b
<1>7. slot \in [secret : Ints, e : RowVector, c : {None} \cup Column, b : RowVector]
  BY <1>2, <1>6
<1>8. slot.secret = s /\ slot.e = e /\ slot.c = None /\ slot.b = b
  BY <1>6
<1> QED
  BY <1>7, <1>8 DEF GoodSlots, b

\* Computing material keeps a slot good, and its query.
LEMMA WithCLaw ==
  ASSUME backend \in Backends, NEW db \in Databases, hint.client = HintOf(db), NEW R \in BlockRows,
         NEW slot \in GoodSlots(db)
  PROVE  /\ WithC(slot, R) \in GoodSlots(db)
         /\ WithC(slot, R).secret = slot.secret /\ WithC(slot, R).e = slot.e /\ WithC(slot, R).b = slot.b
<1>1. CASE slot.c = None
  <2>1. slot.secret \in Ints /\ R \in Nat \ {0}
    BY SlotLaw, Givens
  <2> DEFINE c == ComputeC(slot.secret, R)
  <2>2. c = Material(slot.secret, db)
    BY <2>1, ComputeCLaw
  <2>3. WithC(slot, R) = [slot EXCEPT !.c = c]
    BY <1>1 DEF WithC
  <2> HIDE DEF c
  <2>4. WithC(slot, R) \in GoodSlots(db)
    BY <2>2, <2>3, SlotWith
  <2>5. slot = [secret |-> slot.secret, e |-> slot.e, c |-> slot.c, b |-> slot.b]
    BY SlotLaw
  <2>6. WithC(slot, R) = [secret |-> slot.secret, e |-> slot.e, c |-> c, b |-> slot.b]
    BY <2>3, <2>5
  <2> QED
    BY <2>4, <2>6
<1>2. CASE slot.c # None
  BY <1>2 DEF WithC
<1> QED
  BY <1>1, <1>2

\* Patching makes a slot good for the next database, and keeps its query.
LEMMA PatchSlotLaw ==
  ASSUME backend \in Backends, NEW db \in Databases, NEW batch \in Seq(RowDeltas), IsA(material.client),
         NEW slot \in GoodSlots(db)
  PROVE  /\ PatchSlot(slot, batch) \in GoodSlots(Mutated(db, batch))
         /\ PatchSlot(slot, batch).secret = slot.secret /\ PatchSlot(slot, batch).e = slot.e
         /\ PatchSlot(slot, batch).b = slot.b
<1>1. CASE slot.c = None
  <2>1. PatchSlot(slot, batch) = slot
    BY <1>1 DEF PatchSlot
  <2>2. slot \in GoodSlots(Mutated(db, batch))
    BY <1>1, SlotWithout
  <2> QED
    BY <2>1, <2>2
<1>2. CASE slot.c # None
  <2>1. slot.secret \in Ints /\ slot.c = Material(slot.secret, db)
        /\ slot = [secret |-> slot.secret, e |-> slot.e, c |-> slot.c, b |-> slot.b]
    BY <1>2, SlotLaw
  <2> DEFINE c == PatchC(material.client, slot.secret, slot.c, batch, k)
             next == Mutated(db, batch)
  <2>2. c = Material(slot.secret, next)
    BY <2>1, PatchCLaw
  <2>3. PatchSlot(slot, batch) = [slot EXCEPT !.c = c]
    BY <1>2 DEF PatchSlot
  <2>4. next \in Databases
    BY MutatedLaw
  <2> HIDE DEF c, next
  <2>5. [slot EXCEPT !.c = c] \in GoodSlots(next)
    BY <2>2, <2>4, SlotWith
  <2>6. [slot EXCEPT !.c = c] = [secret |-> slot.secret, e |-> slot.e, c |-> c, b |-> slot.b]
    BY <2>1
  <2> QED
    BY <2>3, <2>5, <2>6 DEF next
<1> QED
  BY <1>1, <1>2

\* The versions, by number.
LEMMA CurrentLaw ==
  ASSUME NEW lg, NEW ds, NEW cv, Versions(lg, ds, cv)
  PROVE  /\ Len(lg) \in Nat /\ cv \in 0 .. Len(lg) /\ Len(ds) = Len(lg) + 1
         /\ Last(ds) = ds[Len(lg) + 1]
         /\ \A v \in 0 .. Len(lg) :
              ds[v + 1] \in Databases /\ \A x \in DOMAIN ds[v + 1] : ds[v + 1][x] \in Plaintext
         /\ \A v \in 1 .. Len(lg) : lg[v] \in Seq(RowDeltas) /\ ds[v + 1] = Mutated(ds[v], lg[v])
<1>1. History(lg, ds) /\ cv \in 0 .. Len(lg)
  BY DEF Versions
<1>2. Len(ds) = Len(lg) + 1
  BY <1>1 DEF History
<1>3. Last(ds) = ds[Len(lg) + 1]
  BY <1>2 DEF Last
<1>4. \A v \in 0 .. Len(lg) : \A x \in DOMAIN ds[v + 1] : ds[v + 1][x] \in Plaintext
  BY DEF Versions
<1>5. /\ Len(lg) \in Nat
      /\ \A v \in 0 .. Len(lg) : ds[v + 1] \in Databases
      /\ \A v \in 1 .. Len(lg) : lg[v] \in Seq(RowDeltas) /\ ds[v + 1] = Mutated(ds[v], lg[v])
  BY <1>1, HistoryLaw
<1> QED
  BY <1>1, <1>2, <1>3, <1>4, <1>5

Extended(lg, ds, cv, l2, d2, db) ==
  /\ Versions(l2, d2, cv)
  /\ Len(l2) = Len(lg) + 1
  /\ d2[(Len(lg) + 1) + 1] = db
  /\ \A v \in 0 .. Len(lg) : d2[v + 1] = ds[v + 1]

\* A mutation adds a version and keeps the older ones.
LEMMA VersionsStep ==
  ASSUME NEW lg, NEW ds, NEW cv, Versions(lg, ds, cv), NEW batch \in Seq(RowDeltas), NEW db,
         db = Mutated(Last(ds), batch), \A x \in DOMAIN db : db[x] \in Plaintext
  PROVE  Extended(lg, ds, cv, Append(lg, batch), Append(ds, db), db)
<1> DEFINE n == Len(lg)
           l2 == Append(lg, batch)
           d2 == Append(ds, db)
<1>1. /\ n \in Nat /\ cv \in 0 .. n /\ Len(ds) = n + 1 /\ Last(ds) = ds[n + 1]
      /\ \A v \in 0 .. n : ds[v + 1] \in Databases /\ \A x \in DOMAIN ds[v + 1] : ds[v + 1][x] \in Plaintext
      /\ \A v \in 1 .. n : lg[v] \in Seq(RowDeltas) /\ ds[v + 1] = Mutated(ds[v], lg[v])
  BY CurrentLaw
<1>2. lg \in Seq(Seq(RowDeltas)) /\ ds \in Seq(Databases)
  BY DEF Versions, History
<1>3. db \in Databases
  BY <1>1, MutatedLaw
<1>4. /\ l2 \in Seq(Seq(RowDeltas)) /\ Len(l2) = n + 1
      /\ \A v \in 1 .. n : l2[v] = lg[v]
      /\ l2[n + 1] = batch
  BY <1>2, AppendLaw
<1>5. /\ d2 \in Seq(Databases) /\ Len(d2) = (n + 1) + 1
      /\ \A v \in 1 .. n + 1 : d2[v] = ds[v]
      /\ d2[(n + 1) + 1] = db
  <2>1. /\ d2 \in Seq(Databases) /\ Len(d2) = Len(ds) + 1
        /\ \A v \in 1 .. Len(ds) : d2[v] = ds[v]
        /\ d2[Len(ds) + 1] = db
    <3> HIDE DEF d2
    <3> QED
      BY <1>2, <1>3, AppendLaw DEF d2
  <2> QED
    BY <1>1, <2>1
<1> HIDE DEF l2, d2, n
<1>6. \A v \in 0 .. n : d2[v + 1] = ds[v + 1] /\ v + 1 \in 1 .. n + 1
  BY <1>1, <1>5
<1>7. ASSUME NEW v \in 1 .. n + 1 PROVE d2[v + 1] = Mutated(d2[v], l2[v])
  <2>1. CASE v = n + 1
    <3>1. d2[v] = ds[n + 1] /\ l2[v] = batch
      BY <1>4, <1>5, <2>1
    <3>2. d2[v + 1] = db
      BY <1>5, <2>1
    <3> QED
      BY <1>1, <3>1, <3>2
  <2>2. CASE v # n + 1
    <3>1. v \in 1 .. n /\ v \in 0 .. n
      BY <1>1, <2>2
    <3>2. d2[v] = ds[v] /\ d2[v + 1] = ds[v + 1] /\ l2[v] = lg[v]
      BY <1>4, <1>5, <1>6, <3>1
    <3> QED
      BY <1>1, <3>1, <3>2
  <2> QED
    BY <2>1, <2>2
<1>8. History(l2, d2)
  BY <1>4, <1>5, <1>7 DEF History
<1>9. ASSUME NEW v \in 0 .. n + 1 PROVE \A x \in DOMAIN d2[v + 1] : d2[v + 1][x] \in Plaintext
  <2>1. CASE v = n + 1
    BY <1>5, <2>1
  <2>2. CASE v # n + 1
    <3>1. v \in 0 .. n
      BY <1>1, <2>2
    <3> QED
      BY <1>1, <1>6, <3>1
  <2> QED
    BY <2>1, <2>2
<1>10. cv \in 0 .. n + 1
  BY <1>1
<1>11. Versions(l2, d2, cv)
  BY <1>4, <1>8, <1>9, <1>10 DEF Versions
<1> QED
  BY <1>4, <1>5, <1>6, <1>11 DEF l2, d2, n, Extended

\* Each action keeps the invariant: a mutation.
LEMMA MutateStep ==
  ASSUME WordsInv, NEW batch \in Batches, NEW mode \in Modes, Mutate(batch, mode)
  PROVE  WordsInv'
<1> DEFINE n == Len(log)
           db == Mutated(Last(dbs), batch)
<1>1. /\ backend \in Backends /\ IsA(material.server) /\ IsA(material.client)
      /\ Versions(log, dbs, cversion)
      /\ GoodHints(hint, log, dbs, cversion)
      /\ GoodClient(dbs, cversion, prepared, in_flight)
      /\ GoodQuery(in_flight, query)
      /\ GoodResponse(log, dbs, query, response)
  BY DEF WordsInv
<1>2. /\ db \in [DOMAIN InitialDb -> Plaintext]
      /\ dbs' = Append(dbs, db) /\ log' = Append(log, batch)
      /\ hint' = [hint EXCEPT !.server = ApplyPatch(material.server, hint.server, batch, mode)]
      /\ backend' = backend /\ material' = material /\ cversion' = cversion /\ prepared' = prepared
      /\ in_flight' = in_flight /\ query' = query /\ response' = response
  BY DEF Mutate, clientVars, wireVars
<1>3. batch \in Seq(RowDeltas)
  BY <1>1, Givens
<1>4. \A x \in DOMAIN db : db[x] \in Plaintext
  BY <1>2
<1>5. /\ n \in Nat /\ cversion \in 0 .. n /\ Last(dbs) = dbs[n + 1]
      /\ dbs[n + 1] \in Databases
  <2>1. /\ n \in Nat /\ cversion \in 0 .. n /\ Last(dbs) = dbs[n + 1]
        /\ \A v \in 0 .. n : dbs[v + 1] \in Databases
    BY <1>1, CurrentLaw
  <2> QED
    BY <2>1
<1>6. /\ Versions(log', dbs', cversion')
      /\ Len(log') = n + 1
      /\ dbs'[(n + 1) + 1] = db
      /\ \A v \in 0 .. n : dbs'[v + 1] = dbs[v + 1]
  <2> HIDE DEF db, n
  <2>0. db = Mutated(Last(dbs), batch)
    BY DEF db
  <2>1. Extended(log, dbs, cversion, Append(log, batch), Append(dbs, db), db)
    BY <1>1, <1>3, <1>4, <2>0, VersionsStep
  <2>2. Extended(log, dbs, cversion, log', dbs', db)
    BY <1>2, <2>1
  <2>3. /\ Versions(log', dbs', cversion)
        /\ Len(log') = Len(log) + 1
        /\ dbs'[(Len(log) + 1) + 1] = db
        /\ \A v \in 0 .. Len(log) : dbs'[v + 1] = dbs[v + 1]
    BY <2>2 DEF Extended
  <2> QED
    BY <1>2, <2>3 DEF n
<1>7. GoodHints(hint', log', dbs', cversion')
  <2>1. hint = [server |-> HintOf(dbs[n + 1]), client |-> HintOf(dbs[cversion + 1])]
    BY <1>1 DEF GoodHints
  <2>2. ApplyPatch(material.server, HintOf(dbs[n + 1]), batch, mode) = HintOf(db)
    BY <1>1, <1>3, <1>5, ApplyPatchLaw
  <2> HIDE DEF db, n
  <2>3. hint' = [server |-> HintOf(db), client |-> HintOf(dbs[cversion + 1])]
    BY <1>2, <2>1, <2>2
  <2>4. dbs'[cversion' + 1] = dbs[cversion + 1]
    BY <1>2, <1>5, <1>6
  <2> QED
    BY <1>6, <2>3, <2>4 DEF GoodHints
<1>8. GoodClient(dbs', cversion', prepared', in_flight')
  <2>1. dbs'[cversion' + 1] = dbs[cversion + 1]
    BY <1>2, <1>5, <1>6
  <2> QED
    BY <1>1, <1>2, <2>1 DEF GoodClient
<1>9. GoodQuery(in_flight', query')
  BY <1>1, <1>2
<1>10. GoodResponse(log', dbs', query', response')
  <2>1. SUFFICES ASSUME response # None
                 PROVE  /\ query # None /\ response.version \in 0 .. n + 1
                        /\ response.a = Times(query.b, dbs'[response.version + 1])
    BY <1>2, <1>6 DEF GoodResponse
  <2>2. /\ query # None /\ response.version \in 0 .. n
        /\ response.a = Times(query.b, dbs[response.version + 1])
    BY <1>1, <2>1 DEF GoodResponse
  <2> HIDE DEF n
  <2> QED
    BY <1>5, <1>6, <2>2
<1> QED
  <2> HIDE DEF db, n
  <2>1. /\ (backend \in Backends)' /\ IsA(material.server)' /\ IsA(material.client)'
        /\ Versions(log, dbs, cversion)' /\ GoodHints(hint, log, dbs, cversion)'
    BY <1>1, <1>2, <1>6, <1>7, SameVersions
  <2>2. GoodClient(dbs, cversion, prepared, in_flight)'
    BY <1>2, <1>8, SameClient
  <2>3. GoodQuery(in_flight, query)' /\ GoodResponse(log, dbs, query, response)'
    BY <1>2, <1>9, <1>10, SameQuery, SameResponse
  <2> QED
    BY <2>1, <2>2, <2>3 DEF WordsInv

\* The client applies the oldest batch: hint, slots and query in flight move on together.
LEMMA PatchStep ==
  ASSUME WordsInv, NEW mode \in Modes, ClientPatchState(mode)
  PROVE  WordsInv'
<1> DEFINE batch == log[cversion + 1]
           db    == dbs[cversion + 1]
           db2   == Mutated(db, batch)
<1>1. /\ backend \in Backends /\ IsA(material.server) /\ IsA(material.client)
      /\ Versions(log, dbs, cversion)
      /\ GoodHints(hint, log, dbs, cversion)
      /\ GoodClient(dbs, cversion, prepared, in_flight)
      /\ GoodQuery(in_flight, query)
      /\ GoodResponse(log, dbs, query, response)
  BY DEF WordsInv
<1>2. /\ cversion < Len(log)
      /\ hint' = [hint EXCEPT !.client = ApplyPatch(material.client, hint.client, batch, mode)]
      /\ prepared' = [i \in DOMAIN prepared |-> PatchSlot(prepared[i], batch)]
      /\ in_flight' = IF in_flight = None THEN None
                      ELSE [in_flight EXCEPT !.slot = PatchSlot(in_flight.slot, batch)]
      /\ cversion' = cversion + 1
      /\ backend' = backend /\ material' = material /\ log' = log /\ dbs' = dbs
      /\ query' = query /\ response' = response
  BY DEF ClientPatchState, serverVars, wireVars
<1>3. /\ Len(log) \in Nat /\ cversion \in 0 .. Len(log)
      /\ \A v \in 0 .. Len(log) : dbs[v + 1] \in Databases
      /\ \A v \in 1 .. Len(log) : log[v] \in Seq(RowDeltas) /\ dbs[v + 1] = Mutated(dbs[v], log[v])
  BY <1>1, CurrentLaw
<1>4. /\ cversion + 1 \in 1 .. Len(log) /\ cversion + 1 \in 0 .. Len(log)
      /\ batch \in Seq(RowDeltas) /\ db \in Databases
      /\ dbs[(cversion + 1) + 1] = db2
  <2>1. cversion + 1 \in 1 .. Len(log) /\ cversion + 1 \in 0 .. Len(log) /\ cversion \in 0 .. Len(log)
    BY <1>2, <1>3
  <2> QED
    BY <1>3, <2>1
<1>5. dbs'[cversion' + 1] = db2
  BY <1>2, <1>4
<1>6. Versions(log', dbs', cversion')
  BY <1>1, <1>2, <1>4 DEF Versions
<1>7. GoodHints(hint', log', dbs', cversion')
  <2>1. hint = [server |-> HintOf(dbs[Len(log) + 1]), client |-> HintOf(db)]
    BY <1>1 DEF GoodHints
  <2>2. ApplyPatch(material.client, HintOf(db), batch, mode) = HintOf(db2)
    BY <1>1, <1>4, ApplyPatchLaw
  <2> HIDE DEF db, db2, batch
  <2>3. hint' = [server |-> HintOf(dbs[Len(log) + 1]), client |-> HintOf(db2)]
    BY <1>2, <2>1, <2>2
  <2> QED
    BY <1>2, <1>5, <2>3 DEF GoodHints
<1>8. GoodClient(dbs', cversion', prepared', in_flight')
  <2>1. prepared \in Seq(GoodSlots(db))
    BY <1>1 DEF GoodClient
  <2> HIDE DEF db, db2, batch
  <2>2. ASSUME NEW slot \in GoodSlots(db) PROVE PatchSlot(slot, batch) \in GoodSlots(db2)
    BY <1>1, <1>4, PatchSlotLaw DEF db2
  <2>3. prepared' \in Seq(GoodSlots(db2))
    BY <1>2, <2>1, <2>2
  <2>4. ASSUME in_flight' # None PROVE in_flight' \in [slot : GoodSlots(db2), bucket_within : Nat]
    <3>1. in_flight # None /\ in_flight' = [in_flight EXCEPT !.slot = PatchSlot(in_flight.slot, batch)]
      BY <1>2, <2>4
    <3>2. in_flight \in [slot : GoodSlots(db), bucket_within : Nat]
      BY <1>1, <3>1 DEF GoodClient, db
    <3> QED
      BY <2>2, <3>1, <3>2
  <2> QED
    BY <1>5, <2>3, <2>4 DEF GoodClient
<1>9. GoodQuery(in_flight', query')
  <2>1. SUFFICES ASSUME query # None, in_flight' # None
                 PROVE  /\ in_flight'.bucket_within = query.row % k
                        /\ query.b = QueryVector(in_flight'.slot.b, query.row)
    BY <1>1, <1>2 DEF GoodQuery
  <2>2. in_flight # None /\ in_flight' = [in_flight EXCEPT !.slot = PatchSlot(in_flight.slot, batch)]
    BY <1>2, <2>1
  <2>3. in_flight \in [slot : GoodSlots(db), bucket_within : Nat]
    BY <1>1, <2>2 DEF GoodClient
  <2>4. in_flight.bucket_within = query.row % k /\ query.b = QueryVector(in_flight.slot.b, query.row)
    BY <1>1, <2>1, <2>2 DEF GoodQuery
  <2> HIDE DEF db, batch
  <2>5. in_flight'.bucket_within = in_flight.bucket_within
        /\ in_flight'.slot = PatchSlot(in_flight.slot, batch)
    BY <2>2, <2>3
  <2>6. PatchSlot(in_flight.slot, batch).b = in_flight.slot.b
    BY <1>1, <1>4, <2>3, PatchSlotLaw
  <2> QED
    BY <2>4, <2>5, <2>6
<1>10. GoodResponse(log', dbs', query', response')
  BY <1>1, <1>2
<1> QED
  <2> HIDE DEF db, db2, batch
  <2>1. /\ (backend \in Backends)' /\ IsA(material.server)' /\ IsA(material.client)'
        /\ Versions(log, dbs, cversion)' /\ GoodHints(hint, log, dbs, cversion)'
    BY <1>1, <1>2, <1>6, <1>7, SameVersions
  <2>2. GoodClient(dbs, cversion, prepared, in_flight)'
    BY <1>2, <1>8, SameClient
  <2>3. GoodQuery(in_flight, query)' /\ GoodResponse(log, dbs, query, response)'
    BY <1>2, <1>9, <1>10, SameQuery, SameResponse
  <2> QED
    BY <2>1, <2>2, <2>3 DEF WordsInv

\* The steps that leave server, hints and version alone.
LEMMA ClientStep ==
  ASSUME WordsInv, UNCHANGED <<backend, material, hint, serverVars, cversion>>,
         GoodClient(dbs, cversion, prepared', in_flight'),
         GoodQuery(in_flight', query'), GoodResponse(log, dbs, query', response')
  PROVE  WordsInv'
<1>1. /\ backend \in Backends /\ IsA(material.server) /\ IsA(material.client)
      /\ Versions(log, dbs, cversion) /\ GoodHints(hint, log, dbs, cversion)
  BY DEF WordsInv
<1>2. /\ backend' = backend /\ material' = material /\ hint' = hint /\ log' = log /\ dbs' = dbs
      /\ cversion' = cversion
  BY DEF serverVars
<1>3. /\ (backend \in Backends)' /\ IsA(material.server)' /\ IsA(material.client)'
      /\ Versions(log, dbs, cversion)' /\ GoodHints(hint, log, dbs, cversion)'
  BY <1>1, <1>2, SameVersions
<1>4. GoodClient(dbs, cversion, prepared, in_flight)'
  BY <1>2, SameClient
<1>5. GoodQuery(in_flight, query)' /\ GoodResponse(log, dbs, query, response)'
  BY <1>2, SameQuery, SameResponse
<1> QED
  BY <1>3, <1>4, <1>5 DEF WordsInv

\* A slot is prepared.
LEMMA PrepareStep ==
  ASSUME WordsInv, ClientPrecomputeQueries
  PROVE  WordsInv'
<1>1. /\ backend \in Backends /\ IsA(material.client)
      /\ GoodClient(dbs, cversion, prepared, in_flight)
      /\ GoodQuery(in_flight, query) /\ GoodResponse(log, dbs, query, response)
  BY DEF WordsInv
<1>2. PICK slot \in FreshSlots : prepared' = Append(prepared, slot)
  BY DEF ClientPrecomputeQueries
<1>3. UNCHANGED <<backend, material, hint, serverVars, cversion, in_flight, wireVars>>
  BY DEF ClientPrecomputeQueries
<1> DEFINE db == dbs[cversion + 1]
<1>4. slot \in GoodSlots(db)
  <2> HIDE DEF db
  <2> QED
    BY <1>1, FreshLaw
<1>5. prepared' \in Seq(GoodSlots(db))
  <2>1. prepared \in Seq(GoodSlots(db))
    BY <1>1 DEF GoodClient
  <2> HIDE DEF db
  <2> QED
    BY <1>2, <1>4, <2>1
<1>6. GoodClient(dbs, cversion, prepared', in_flight')
  BY <1>1, <1>3, <1>5 DEF GoodClient
<1>7. GoodQuery(in_flight', query') /\ GoodResponse(log, dbs, query', response')
  BY <1>1, <1>3 DEF wireVars
<1> QED
  BY <1>3, <1>6, <1>7, ClientStep DEF serverVars

\* Material is computed.
LEMMA MaterialStep ==
  ASSUME WordsInv, NEW R \in BlockRows, ClientPrecomputeDecodes(R)
  PROVE  WordsInv'
<1> DEFINE db == dbs[cversion + 1]
<1>1. /\ backend \in Backends /\ Versions(log, dbs, cversion)
      /\ GoodHints(hint, log, dbs, cversion)
      /\ GoodClient(dbs, cversion, prepared, in_flight)
      /\ GoodQuery(in_flight, query) /\ GoodResponse(log, dbs, query, response)
  BY DEF WordsInv
<1>2. /\ prepared' = [i \in DOMAIN prepared |-> WithC(prepared[i], R)]
      /\ in_flight' = IF in_flight = None THEN None
                      ELSE [in_flight EXCEPT !.slot = WithC(in_flight.slot, R)]
      /\ UNCHANGED <<backend, material, hint, serverVars, cversion, wireVars>>
  BY DEF ClientPrecomputeDecodes
<1>3. db \in Databases
  <2>1. cversion \in 0 .. Len(log) /\ \A v \in 0 .. Len(log) : dbs[v + 1] \in Databases
    BY <1>1, CurrentLaw
  <2> QED
    BY <2>1
<1>4. hint.client = HintOf(db)
  BY <1>1 DEF GoodHints
<1>5. prepared \in Seq(GoodSlots(db))
      /\ (in_flight # None => in_flight \in [slot : GoodSlots(db), bucket_within : Nat])
  BY <1>1 DEF GoodClient
<1> HIDE DEF db
<1>6. ASSUME NEW slot \in GoodSlots(db) PROVE WithC(slot, R) \in GoodSlots(db) /\ WithC(slot, R).b = slot.b
  BY <1>1, <1>3, <1>4, WithCLaw
<1>7. GoodClient(dbs, cversion, prepared', in_flight')
  <2>1. prepared' \in Seq(GoodSlots(db))
    BY <1>2, <1>5, <1>6
  <2>2. ASSUME in_flight' # None PROVE in_flight' \in [slot : GoodSlots(db), bucket_within : Nat]
    <3>1. in_flight # None /\ in_flight' = [in_flight EXCEPT !.slot = WithC(in_flight.slot, R)]
      BY <1>2, <2>2
    <3> QED
      BY <1>5, <1>6, <3>1
  <2> QED
    BY <2>1, <2>2 DEF GoodClient, db
<1>8. GoodQuery(in_flight', query')
  <2>1. SUFFICES ASSUME query # None, in_flight' # None
                 PROVE  /\ in_flight'.bucket_within = query.row % k
                        /\ query.b = QueryVector(in_flight'.slot.b, query.row)
    BY <1>1, <1>2 DEF GoodQuery, wireVars
  <2>2. in_flight # None /\ in_flight' = [in_flight EXCEPT !.slot = WithC(in_flight.slot, R)]
    BY <1>2, <2>1
  <2>3. in_flight.bucket_within = query.row % k /\ query.b = QueryVector(in_flight.slot.b, query.row)
    BY <1>1, <2>1, <2>2 DEF GoodQuery
  <2>4. in_flight'.bucket_within = in_flight.bucket_within
        /\ in_flight'.slot = WithC(in_flight.slot, R)
    BY <1>5, <2>2
  <2>5. WithC(in_flight.slot, R).b = in_flight.slot.b
    BY <1>5, <1>6, <2>2
  <2> QED
    BY <2>3, <2>4, <2>5
<1>9. GoodResponse(log, dbs, query', response')
  BY <1>1, <1>2 DEF wireVars
<1> QED
  BY <1>2, <1>7, <1>8, <1>9, ClientStep DEF serverVars

\* A query is sent, and an answer to the one before forgotten.
LEMMA QueryStep ==
  ASSUME WordsInv, NEW row \in QueryRows, ClientQuery(row)
  PROVE  WordsInv'
<1> DEFINE db == dbs[cversion + 1]
<1>1. /\ backend \in Backends /\ IsA(material.client)
      /\ GoodClient(dbs, cversion, prepared, in_flight)
  BY DEF WordsInv
<1>2. PICK slot \in (IF prepared = <<>> THEN FreshSlots ELSE {Head(prepared)}) :
        /\ in_flight' = InFlight(slot, row)
        /\ query' = [row |-> row,
                     b   |-> [slot.b EXCEPT ![row \div k] = (slot.b[row \div k] + round_p_to_q(1)) % q]]
  BY DEF ClientQuery
<1>3. /\ prepared' = IF prepared = <<>> THEN <<>> ELSE Tail(prepared)
      /\ response' = None
      /\ UNCHANGED <<backend, material, hint, serverVars, cversion>>
  BY DEF ClientQuery
<1>4. prepared \in Seq(GoodSlots(db))
  BY <1>1 DEF GoodClient
<1>5. row \in 0 .. n_rows - 1
  BY <1>1, Givens
<1>6. k \in Nat \ {0}
  BY <1>1, KLaw
<1> HIDE DEF db
<1>7. slot \in GoodSlots(db) /\ prepared' \in Seq(GoodSlots(db))
  <2>1. CASE prepared = <<>>
    <3>1. slot \in FreshSlots /\ prepared' = <<>>
      BY <1>2, <1>3, <2>1
    <3> QED
      BY <1>1, <3>1, FreshLaw
  <2>2. CASE prepared # <<>>
    <3>1. slot = Head(prepared) /\ prepared' = Tail(prepared)
      BY <1>2, <1>3, <2>2
    <3> QED
      BY <1>4, <2>2, <3>1
  <2> QED
    BY <2>1, <2>2
<1>8. row % k \in Nat
  BY <1>5, <1>6
<1>9. in_flight' = [slot |-> slot, bucket_within |-> row % k]
  BY <1>2 DEF InFlight
<1>10. query' = [row |-> row, b |-> QueryVector(slot.b, row)]
  BY <1>2 DEF QueryVector
<1>11. QueryVector(slot.b, row) \in RowVector
  <2>1. slot.secret \in Ints /\ slot.e \in RowVector /\ slot.b = Masked(slot.secret, slot.e)
    BY <1>7, SlotLaw
  <2> QED
    BY <1>1, <1>5, <2>1, QueryVectorLaw
<1>12. GoodClient(dbs, cversion, prepared', in_flight')
  BY <1>7, <1>8, <1>9 DEF GoodClient, db
<1>13. GoodQuery(in_flight', query')
  BY <1>5, <1>9, <1>10, <1>11 DEF GoodQuery
<1>14. GoodResponse(log, dbs, query', response')
  BY <1>3 DEF GoodResponse
<1> QED
  BY <1>3, <1>12, <1>13, <1>14, ClientStep

\* The query is answered from the database served.
LEMMA AnswerStep ==
  ASSUME WordsInv, NEW R \in BlockRows, ServerAnswer(R)
  PROVE  WordsInv'
<1> DEFINE n == Len(log)
<1>1. /\ backend \in Backends /\ Versions(log, dbs, cversion)
      /\ GoodClient(dbs, cversion, prepared, in_flight)
      /\ GoodQuery(in_flight, query) /\ GoodResponse(log, dbs, query, response)
  BY DEF WordsInv
<1>2. /\ query # None
      /\ response' = [a |-> Answer(Last(dbs), query.b, R), version |-> n]
      /\ UNCHANGED <<backend, material, hint, serverVars, clientVars, query>>
  BY DEF ServerAnswer
<1>3. n \in Nat /\ Last(dbs) = dbs[n + 1] /\ dbs[n + 1] \in Databases
  <2>1. /\ n \in Nat /\ Last(dbs) = dbs[n + 1]
        /\ \A v \in 0 .. n : dbs[v + 1] \in Databases
    BY <1>1, CurrentLaw
  <2> QED
    BY <2>1
<1>4. query.b \in RowVector
  BY <1>1, <1>2 DEF GoodQuery
<1> DEFINE db == dbs[n + 1]
<1>5. Answer(db, query.b, R) = Times(query.b, db)
  <2>1. db \in Databases /\ R \in Nat \ {0}
    BY <1>1, <1>3, Givens
  <2> HIDE DEF db
  <2> QED
    BY <1>1, <1>4, <2>1, AnswerLaw DEF RowVector
<1>6. response' = [a |-> Times(query.b, db), version |-> n]
  BY <1>2, <1>3, <1>5
<1>7. GoodResponse(log, dbs, query', response')
  <2> HIDE DEF db
  <2>1. response'.version = n /\ response'.a = Times(query.b, db) /\ n \in 0 .. n
    BY <1>3, <1>6
  <2> QED
    BY <1>2, <2>1 DEF GoodResponse, db
<1>8. GoodClient(dbs, cversion, prepared', in_flight') /\ GoodQuery(in_flight', query')
  BY <1>1, <1>2 DEF clientVars
<1> QED
  BY <1>2, <1>7, <1>8, ClientStep DEF clientVars

\* Every step keeps the invariant.
LEMMA WordsStep == WordsInv /\ [Next]_vars => WordsInv'
<1> SUFFICES ASSUME WordsInv, [Next]_vars PROVE WordsInv'
  OBVIOUS
<1>1. ASSUME NEW batch \in Batches, NEW mode \in Modes, Mutate(batch, mode) PROVE WordsInv'
  BY <1>1, MutateStep
<1>2. ASSUME NEW mode \in Modes, ClientPatchState(mode) PROVE WordsInv'
  BY <1>2, PatchStep
<1>3. CASE ClientPrecomputeQueries
  BY <1>3, PrepareStep
<1>4. ASSUME NEW R \in BlockRows, ClientPrecomputeDecodes(R) PROVE WordsInv'
  BY <1>4, MaterialStep
<1>5. ASSUME NEW R \in BlockRows, ServerAnswer(R) PROVE WordsInv'
  BY <1>5, AnswerStep
<1>6. ASSUME NEW row \in QueryRows, ClientQuery(row) PROVE WordsInv'
  BY <1>6, QueryStep
<1>7. CASE UNCHANGED vars
  <2>1. /\ UNCHANGED <<backend, material, hint, serverVars, cversion>>
        /\ prepared' = prepared /\ in_flight' = in_flight /\ query' = query /\ response' = response
    BY <1>7 DEF vars, clientVars, wireVars
  <2>2. /\ GoodClient(dbs, cversion, prepared, in_flight)
        /\ GoodQuery(in_flight, query) /\ GoodResponse(log, dbs, query, response)
    BY DEF WordsInv
  <2>3. /\ GoodClient(dbs, cversion, prepared', in_flight')
        /\ GoodQuery(in_flight', query') /\ GoodResponse(log, dbs, query', response')
    BY <2>1, <2>2
  <2> QED
    BY <2>1, <2>3, ClientStep
<1> QED
  BY <1>1, <1>2, <1>3, <1>4, <1>5, <1>6, <1>7 DEF Next

\* Hints, material, slots in flight, the query and its answer are the products
\* they stand for, each for the version it belongs to (server_setup,
\* server_patch_hint, client_patch_state, server_answer).
THEOREM WordsInvariance == Spec => []WordsInv
<1>1. Init => WordsInv
  BY WordsInit
<1>2. WordsInv /\ [Next]_vars => WordsInv'
  BY WordsStep
<1> QED
  BY <1>1, <1>2, PTL DEF Spec

\* Server and client hold the hint of their version of the database, whatever
\* was mutated, in whichever mode each patched, and whatever the shape and the
\* number of threads (compute_hint_parallel, apply_patch).
THEOREM HintsCorrect == Spec => []HintIsProduct
<1>1. WordsInv => HintIsProduct
  <2> SUFFICES ASSUME WordsInv PROVE HintIsProduct
    OBVIOUS
  <2>1. Versions(log, dbs, cversion) /\ GoodHints(hint, log, dbs, cversion)
    BY DEF WordsInv
  <2>2. Last(dbs) = dbs[Len(log) + 1]
    BY <2>1, CurrentLaw
  <2> QED
    BY <2>1, <2>2 DEF GoodHints, HintIsProduct, ClientDb
<1> QED
  BY <1>1, WordsInvariance, PTL

\* Cached material is the product of its secret and the hint of the client's
\* version, whether computed for it or patched from an older one (compute_c,
\* patch_slot_c), in prepared slots and in the one in flight.
THEOREM MaterialCorrect == Spec => []MaterialIsProduct
<1>1. WordsInv => MaterialIsProduct
  <2> SUFFICES ASSUME WordsInv, NEW slot \in Slots, slot.c # None
               PROVE  slot.c = Material(slot.secret, ClientDb)
    BY Zenon DEF MaterialIsProduct, Material, CTerms
  <2>1. GoodClient(dbs, cversion, prepared, in_flight)
    BY DEF WordsInv
  <2>2. prepared \in Seq(GoodSlots(ClientDb))
        /\ (in_flight # None => in_flight \in [slot : GoodSlots(ClientDb), bucket_within : Nat])
    BY <2>1 DEF GoodClient, ClientDb
  <2>3. slot \in GoodSlots(ClientDb)
    BY <2>2 DEF Slots
  <2> QED
    BY <2>3, SlotLaw
<1> QED
  BY <1>1, WordsInvariance, PTL

\* An answer is the query times the reshaped matrix of the database served, for
\* any length of the vector blocks and any partial last row (server_answer).
THEOREM AnswersCorrect == Spec => []AnswerIsProduct
<1>1. WordsInv => AnswerIsProduct
  BY DEF WordsInv, GoodResponse, AnswerIsProduct
<1> QED
  BY <1>1, WordsInvariance, PTL

\* A rewound response is the answer of the client's version.
LEMMA RewoundLaw ==
  ASSUME WordsInv, response # None, cversion <= response.version
  PROVE  Rewound = Times(query.b, ClientDb)
<1>1. /\ backend \in Backends /\ Versions(log, dbs, cversion)
      /\ GoodQuery(in_flight, query) /\ GoodResponse(log, dbs, query, response)
  BY DEF WordsInv
<1>2. /\ query # None /\ response.version \in 0 .. Len(log)
      /\ response.a = Times(query.b, dbs[response.version + 1])
  BY <1>1 DEF GoodResponse
<1>3. query.b \in [0 .. Rows(k) - 1 -> Int]
  BY <1>1, <1>2 DEF GoodQuery, RowVector
<1>4. History(log, dbs) /\ Len(log) \in Nat /\ cversion \in 0 .. Len(log)
  BY <1>1, CurrentLaw DEF Versions
<1>5. Pending = PendingOf(log, cversion, response.version)
  BY Zenon DEF Pending, PendingOf, Net, Between, AllCells
<1> DEFINE n == response.version
           b == query.b
<1>6. Rewound = Rewind(Times(b, dbs[n + 1]), b, PendingOf(log, cversion, n), k)
  BY <1>2, <1>5 DEF Rewound
<1>7. n \in Nat /\ n <= Len(log) /\ cversion \in Nat /\ cversion <= n
  BY <1>2, <1>4
<1>8. b \in [0 .. Rows(k) - 1 -> Int]
  BY <1>3
<1> HIDE DEF n, b
<1>9. Rewind(Times(b, dbs[n + 1]), b, PendingOf(log, cversion, n), k) = Times(b, dbs[cversion + 1])
  BY <1>1, <1>4, <1>7, <1>8, RewindLaw
<1> QED
  BY <1>6, <1>9 DEF b, ClientDb

\* A rewound answer is, to the bit, the one the client's version would have
\* given (rewind_response).
THEOREM RewindingCorrect == Spec => []RewoundIsOlderAnswer
<1>1. WordsInv => RewoundIsOlderAnswer
  BY RewoundLaw DEF RewoundIsOlderAnswer
<1> QED
  BY <1>1, WordsInvariance, PTL

\* Decoding gives the cells of the row asked for, as in the client's version,
\* exactly when the error times the column is within the margin: patching,
\* rewinding and caching never use any of it (client_decode, round_q_to_p).
THEOREM DecodingCorrect == Spec => []DecodesWithinMargin
<1>1. WordsInv => DecodesWithinMargin
  <2> SUFFICES ASSUME WordsInv, response # None, in_flight # None, cversion <= response.version,
                      NEW R \in BlockRows, NEW j \in 0 .. row_width - 1
               PROVE  ClientDecode(Rewound, R)[j] = ClientDb[query.row * row_width + j]
                        <=> Noise(in_flight.bucket_within * row_width + j)
                              \in -(delta \div 2) .. (delta \div 2) - 1
    BY DEF DecodesWithinMargin
  <2> DEFINE slot == in_flight.slot
             row  == query.row
             secret == slot.secret
             e == slot.e
             db == dbs[cversion + 1]
  <2>1. /\ backend \in Backends /\ Versions(log, dbs, cversion)
        /\ GoodHints(hint, log, dbs, cversion) /\ GoodClient(dbs, cversion, prepared, in_flight)
        /\ GoodQuery(in_flight, query) /\ GoodResponse(log, dbs, query, response)
    BY DEF WordsInv
  <2>2. in_flight \in [slot : GoodSlots(db), bucket_within : Nat]
    BY <2>1 DEF GoodClient
  <2>3. slot \in GoodSlots(db)
    BY <2>2
  <2>4. secret \in Ints /\ e \in RowVector /\ slot.b = Masked(secret, e)
        /\ (slot.c # None => slot.c = Material(secret, db))
    <3> HIDE DEF db
    <3> QED
      BY <2>3, SlotLaw
  <2>5. query # None
    BY <2>1 DEF GoodResponse
  <2>6. row \in 0 .. n_rows - 1 /\ in_flight.bucket_within = row % k /\ query.b = QueryVector(slot.b, row)
    BY <2>1, <2>5 DEF GoodQuery
  <2>7. hint.client = HintOf(db)
    BY <2>1 DEF GoodHints
  <2>8. db \in Databases /\ \A x \in DOMAIN db : db[x] \in Plaintext
    <3>1. /\ cversion \in 0 .. Len(log)
          /\ \A v \in 0 .. Len(log) :
               dbs[v + 1] \in Databases /\ \A x \in DOMAIN dbs[v + 1] : dbs[v + 1][x] \in Plaintext
      BY <2>1, CurrentLaw
    <3> QED
      BY <3>1
  <2>9. R \in Nat \ {0}
    BY <2>1, Givens
  <2>10. Rewound = Times(query.b, db)
    BY RewoundLaw DEF ClientDb
  <2>11. Rewound = Times(QueryVector(Masked(secret, e), row), db)
    BY <2>4, <2>6, <2>10
  <2> DEFINE y == in_flight.bucket_within * row_width + j
  <2>12. Noise(y) = Signed(SumFunction(TimesTerms(e, db, y)) % q)
    <3> HIDE DEF y
    <3> QED
      BY Zenon DEF Noise, TimesTerms, ClientDb
  <2>13. in_flight.slot.secret = secret /\ (in_flight.slot.c # None => in_flight.slot.c = Material(secret, db))
    BY <2>4
  <2> HIDE DEF db, secret, e, row, slot, y
  <2>14. ClientDecode(Times(QueryVector(Masked(secret, e), row), db), R)[j] = db[row * row_width + j]
           <=> Signed(SumFunction(TimesTerms(e, db, in_flight.bucket_within * row_width + j)) % q)
                 \in -(delta \div 2) .. (delta \div 2) - 1
    BY <2>1, <2>4, <2>6, <2>7, <2>8, <2>9, <2>13, DecodeLaw
  <2> QED
    BY <2>11, <2>12, <2>14 DEF y, db, row, ClientDb
<1> QED
  BY <1>1, WordsInvariance, PTL

=============================================================================
