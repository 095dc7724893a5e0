----------------------------- MODULE PirBackend -----------------------------
(***************************************************************************)
(* What the FrodoPIR and SimplePIR backends of crate ikpir-common compute, *)
(* up to the linear algebra: hints, patches, the prepared query slots of a *)
(* client and the outcome of decoding.                                     *)
(*                                                                         *)
(* A cell is <<segment, row>>; the offsets in a row behave alike and are   *)
(* one.  The hint A^T.D is linear in D and in the matrix A, which a seed   *)
(* determines: a hint is a sum over seeds s of A_s^T.X_s, and the model    *)
(* keeps X_s for each s.  Patching it with the matrix of another seed      *)
(* leaves a sum that decodes nothing.                                      *)
(*                                                                         *)
(* A response q^T.D to q = A.s + e + Delta.u_row decodes, with the decode  *)
(* material s^T.H, to D[row] exactly when H is the hint of D under the     *)
(* matrix of q; otherwise the secret does not cancel, and the plaintext is *)
(* undefined.                                                              *)
(***************************************************************************)
EXTENDS Integers, Sequences

CONSTANTS
  Segments,    \* the sub-databases, one per candidate bucket of a key
  Rows,        \* the rows of a segment
  PlainBound,  \* 2^plaintext_bits: cells are in 0 .. PlainBound - 1
  MaxSeed      \* bound: the number of times new seeds are sampled

Cells == Segments \X Rows
Plain == 0 .. PlainBound - 1
Seeds == 0 .. MaxSeed

ASSUME CellAssumption ==
  /\ Segments # {} /\ Rows # {}
  /\ PlainBound \in Nat \ {0}
  /\ MaxSeed \in Nat

Deltas == [Cells -> Int]
Hints  == [Seeds -> Deltas]

ZeroDelta == [c \in Cells |-> 0]

Plus(x, y)  == [c \in Cells |-> x[c] + y[c]]
Minus(x, y) == [c \in Cells |-> x[c] - y[c]]

\* The hint of database d under the matrix of seed s.
Encode(s, d) == [t \in Seeds |-> IF t = s THEN d ELSE ZeroDelta]

\* The segments in which delta changes a cell.
Touched(delta) == {j \in Segments : \E r \in Rows : delta[<<j, r>>] # 0}

\* The patch of each touched segment j, with the matrix of seed mat[j].
Patch(h, mat, delta) ==
  [t \in Seeds |-> [c \in Cells |->
     h[t][c] + IF c[1] \in Touched(delta) /\ mat[c[1]] = t THEN delta[c] ELSE 0]]

\* A client holds the matrix of one seed.
ClientPatch(h, s, delta) == Patch(h, [j \in Segments |-> s], delta)

-----------------------------------------------------------------------------
(* Prepared slots: a secret, and once computed its decode material c.      *)

Slots     == [cached : BOOLEAN, c : Hints]
NoC       == [t \in Seeds |-> ZeroDelta]
FreshSlot == [cached |-> FALSE, c |-> NoC]

\* client_precompute_decodes on one slot, under hint h.
WithC(slot, h) == IF slot.cached THEN slot ELSE [cached |-> TRUE, c |-> h]

\* patch_slot_c: a slot without c takes up the patched hint when it needs it.
PatchSlot(slot, s, delta) ==
  IF slot.cached THEN [slot EXCEPT !.c = ClientPatch(slot.c, s, delta)] ELSE slot

DecodeMaterial(slot, h) == IF slot.cached THEN slot.c ELSE h

SameInSegment(g, h, j) == \A t \in Seeds, r \in Rows : g[t][<<j, r>>] = h[t][<<j, r>>]

\* The plaintexts client_decode may return in segment j for row r, from a
\* response over x to a query under seed s.
Decodes(material, s, x, j, r) ==
  IF SameInSegment(material, Encode(s, x), j) THEN {x[<<j, r>>] % PlainBound} ELSE Plain

=============================================================================
