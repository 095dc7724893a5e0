----------------------------- MODULE StoreCells -----------------------------
(***************************************************************************)
(* FingerprintValueTable: the cells the store keeps its slots in and the   *)
(* server publishes.  CuckooKVStore says what a step writes to which slot; *)
(* here it is written, in place, bit by bit.                               *)
(***************************************************************************)
EXTENDS CuckooKVStore, SlotBits

CONSTANT BytesOf   \* the bytes the application passes for a value

\* Bytes may have bits set beyond the value; what is stored tells values
\* apart and is zero for ZeroValue.
ValueCells == [v \in Values |-> PackValueBytesToCells(BytesOf[v])]

ASSUME BytesAssumption ==
  /\ Fps \subseteq 1 .. 2^fingerprint_bits - 1
  /\ BytesOf \in [Values -> [1 .. value_size_in_bytes -> 0 .. 2^ByteBits - 1]]
  /\ ValueCells \in [Values -> [ValueIndex -> Cell]]
  /\ ValueCells[ZeroValue] = [i \in ValueIndex |-> 0]
  /\ \A v, w \in Values : ValueCells[v] = ValueCells[w] => v = w

\* What the packing of an entry outside of a table gives.
Packed == [e \in Entries |-> PackSlotCells(e.fp, ValueCells[e.val])]

VARIABLE cells

CellIndex == 0 .. NumBuckets * BucketSize * cells_per_slot - 1

FirstCell(loc)       == (loc[1] * BucketSize + loc[2]) * cells_per_slot
slot_bit_offset(loc) == FirstCell(loc) * plaintext_bits

-----------------------------------------------------------------------------
ReadFingerprint(c, loc) == ReadBits(c, slot_bit_offset(loc), fingerprint_bits)

\* get_into: the bytes in the first slot of the first candidate that holds the
\* fingerprint, or none.
NotFound == <<>>

GetInto(c, k) ==
  LET Found(p) == {s \in Slots : ReadFingerprint(c, <<HashItem[k].indices[p], s>>) = HashItem[k].fp}
      ps       == {p \in Positions : Found(p) # {}}
      loc      == <<HashItem[k].indices[Min(ps)], Min(Found(Min(ps)))>>
  IN  IF ps = {} THEN NotFound ELSE BytesOfCells(ReadValue(c, slot_bit_offset(loc)))

\* write: the fingerprint, then the value.
WriteEntry(c, loc, entry) ==
  WriteValue(WriteBits(c, slot_bit_offset(loc), fingerprint_bits, entry.fp),
             slot_bit_offset(loc), ValueCells[entry.val])

\* The cells once the slots in which tbl and new differ are written; an
\* update writes the value alone.
Written(c, tbl, new) ==
  FoldSet(LAMBDA l, c1 : IF new[l].fp = tbl[l].fp
                         THEN WriteValue(c1, slot_bit_offset(l), ValueCells[new[l].val])
                         ELSE WriteEntry(c1, l, new[l]),
          c, {l \in Locs : new[l] # tbl[l]})

\* The cells of a new table.
ZeroCells == [i \in CellIndex |-> 0]

SlotCells(c, loc) == [i \in 0 .. cells_per_slot - 1 |-> c[FirstCell(loc) + i]]

\* The bytes passed for a value, without the bits beyond it.
ProperBytes(v) ==
  [b \in 1 .. value_size_in_bytes |->
     FromDigits(2, [t \in 0 .. ByteBits - 1 |->
                      IF (b - 1) * ByteBits + t < value_bits THEN Digit(2, BytesOf[v][b], t) ELSE 0])]

-----------------------------------------------------------------------------
\* Each slot holds the entry last written there and no other bits, whatever
\* was written to the fields that share its cells and to the other slots:
\* packing off the store is "byte-identical to the slot payload that insert
\* would write", after kicks, updates, rollbacks and deletions too
\* (write_bits, pack_slot_cells).
PackedAsStored == \A l \in Locs : SlotCells(cells, l) = Packed[table[l]]

=============================================================================
