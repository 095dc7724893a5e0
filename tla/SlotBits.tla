------------------------------ MODULE SlotBits ------------------------------
(***************************************************************************)
(* How crate segmented-cuckoo packs a slot in cells: the fingerprint, then *)
(* the value cell by cell, bit after bit from the lowest on, so that every *)
(* field may start inside a cell and end in another.  Cells are addressed  *)
(* from 0.  The value comes from, and goes back to, bytes.                 *)
(*                                                                         *)
(* Operators only.  Cells and accumulators are wide enough for the fields  *)
(* the code admits, so that or-ing disjoint bits is addition.              *)
(***************************************************************************)
EXTENDS Digits, Sequences, SequencesExt

CONSTANTS
  fingerprint_bits,
  value_bits,
  plaintext_bits,   \* of a cell
  ByteBits          \* 8 in the code

ASSUME BitsAssumption ==
  /\ {fingerprint_bits, value_bits, plaintext_bits, ByteBits} \subseteq Nat \ {0}
  /\ PowersUpTo(2, fingerprint_bits + plaintext_bits)

CeilDiv(a, b) == (a + b - 1) \div b

cells_per_slot      == CeilDiv(fingerprint_bits + value_bits, plaintext_bits)
value_size_in_cells == CeilDiv(value_bits, plaintext_bits)
value_size_in_bytes == CeilDiv(value_bits, ByteBits)

PlainBound == 2^plaintext_bits
Cell       == 0 .. PlainBound - 1
ValueIndex == 0 .. value_size_in_cells - 1

\* The bits of a value in its cell i, fewer in the last one, and where they
\* start in the slot.
FieldBits(i)  == Min({value_bits - i * plaintext_bits, plaintext_bits})
FieldStart(i) == fingerprint_bits + i * plaintext_bits

-----------------------------------------------------------------------------
(***************************************************************************)
(* read_bits and write_bits, on a table or a single slot.                  *)
(***************************************************************************)
ReadBits(cs, bit_offset, n) ==
  LET first == bit_offset \div plaintext_bits
      intra == bit_offset % plaintext_bits
      more  == CeilDiv(Max({n - (plaintext_bits - intra), 0}), plaintext_bits)
  IN  (FromDigits(PlainBound, [j \in 0 .. more |-> cs[first + j]]) \div 2^intra) % 2^n

\* The bits lo .. hi - 1 of a cell replaced by the next ones of value.
WrongWriteCell(cell, lo, hi, bits) ==   \* those below are lost
  bits * 2^lo + (cell \div 2^hi) * 2^hi

WriteCell(cell, lo, hi, bits) ==
  (cell % 2^lo) + bits * 2^lo + (cell \div 2^hi) * 2^hi

WriteBits(cs, bit_offset, n, value) ==
  LET end       == bit_offset + n
      Written(i) ==
        LET base == i * plaintext_bits
            lo   == Max({bit_offset - base, 0})
            hi   == Min({end - base, plaintext_bits})
        IN  WriteCell(cs[i], lo, hi, (value \div 2^(base + lo - bit_offset)) % 2^(hi - lo))
  IN  [i \in DOMAIN cs |->
         IF i \in (bit_offset \div plaintext_bits) .. (CeilDiv(end, plaintext_bits) - 1)
         THEN Written(i) ELSE cs[i]]

-----------------------------------------------------------------------------
\* The bytes it takes to fill up a cell.
WrongWanted(bits) == Max({plaintext_bits - bits, 0}) \div ByteBits
Wanted(bits)      == CeilDiv(Max({plaintext_bits - bits, 0}), ByteBits)

\* pack_value_bytes_to_cells: bytes are taken as cells need them, the last
\* cell takes the bits of the value only.
PackValueBytesToCells(bytes) ==
  LET Refilled(s) ==
        LET taken == Min({Wanted(s.bits), Len(bytes) - s.next})
        IN  [acc  |-> s.acc + FromDigits(2^ByteBits, [t \in 0 .. taken - 1 |-> bytes[s.next + t + 1]]) * 2^s.bits,
             bits |-> s.bits + taken * ByteBits,
             next |-> s.next + taken]
      Drained(s, n) == [s EXCEPT !.acc = @ \div 2^n, !.bits = Max({@ - n, 0})]
      Before[i \in ValueIndex] ==   \* what is at hand when cell i is emitted
        Refilled(IF i = 0 THEN [acc |-> 0, bits |-> 0, next |-> 0]
                 ELSE Drained(Before[i - 1], FieldBits(i - 1)))
  IN  [i \in ValueIndex |-> Before[i].acc % 2^FieldBits(i)]

\* The bytes of value cells: full bytes as they fill up, then what is left,
\* and the bits beyond the value cleared.
Flushed(s, acc, bits) ==
  LET full == Min({bits \div ByteBits, value_size_in_bytes - Len(s.out)})
  IN  [acc  |-> acc \div 2^(full * ByteBits),
       bits |-> bits - full * ByteBits,
       out  |-> s.out \o [t \in 1 .. full |-> (acc \div 2^((t - 1) * ByteBits)) % 2^ByteBits]]

Trimmed(out) ==
  IF value_bits % ByteBits = 0 THEN out
  ELSE Append(Front(out), Last(out) % 2^(value_bits % ByteBits))

BytesOfCells(value_cells) ==
  LET Take(s, i) == Flushed(s, s.acc + (value_cells[i] % 2^FieldBits(i)) * 2^s.bits,
                               s.bits + FieldBits(i))
      final == FoldLeft(Take, [acc |-> 0, bits |-> 0, out |-> <<>>],
                        [i \in 1 .. value_size_in_cells |-> i - 1])
      left  == final.bits > 0 /\ Len(final.out) < value_size_in_bytes
  IN  Trimmed(IF left THEN Append(final.out, final.acc % 2^ByteBits) ELSE final.out)

-----------------------------------------------------------------------------
\* write_value, for a slot that starts at a bit offset.
WriteValue(cs, at, value_cells) ==
  FoldLeft(LAMBDA c, i : WriteBits(c, at + FieldStart(i), FieldBits(i), value_cells[i] % 2^FieldBits(i)),
           cs, [i \in 1 .. value_size_in_cells |-> i - 1])

\* read_value, and read_value_cells_chunk of all chunks.
ReadValue(cs, at) ==
  [i \in ValueIndex |-> ReadBits(cs, at + FieldStart(i), FieldBits(i))]

WrongPackSlotCells(fp, value_cells) ==   \* the value starts with a cell of its own
  LET aligned == CeilDiv(fingerprint_bits, plaintext_bits)
  IN  [c \in 0 .. cells_per_slot - 1 |->
         IF c < aligned THEN (fp \div 2^(c * plaintext_bits)) % 2^plaintext_bits
         ELSE value_cells[c - aligned]]

PackSlotCells(fp, value_cells) ==
  WriteValue(WriteBits([c \in 0 .. cells_per_slot - 1 |-> 0], 0, fingerprint_bits, fp), 0, value_cells)

\* unpack_slot_cells, as a client decodes a slot.
UnpackSlotCells(slot_cells) ==
  [fp |-> ReadBits(slot_cells, 0, fingerprint_bits), bytes |-> BytesOfCells(ReadValue(slot_cells, 0))]

=============================================================================
