---------------------------- MODULE FilterTable -----------------------------
(***************************************************************************)
(* FingerprintTable: the bytes the filter keeps its fingerprints in, bit   *)
(* by bit without regard to byte boundaries.  A slot is read and written   *)
(* through a window of bytes from its first byte on, which holds some of   *)
(* its neighbours too, and for the last slots some of the padding.         *)
(*                                                                         *)
(* CuckooFilter says which slots a call writes; this module writes them.   *)
(***************************************************************************)
EXTENDS CuckooFilter

CONSTANTS
  ByteBits,   \* 8 in the code
  Window      \* bytes of the narrower window: 8 in the code

ASSUME TableAssumption ==
  /\ ByteBits \in Nat \ {0} /\ Window \in Nat \ {0, 1}
  /\ fingerprint_bits <= ByteBits * Window
  /\ PowersUpTo(2, ByteBits * (2 * Window)) /\ PowersUpTo(2 ^ ByteBits, 2 * Window)

VARIABLE data   \* data[i] is byte i

tableVars == <<vars, data>>

-----------------------------------------------------------------------------
size_in_bytes ==
  (num_buckets(scheme) * BucketSize * fingerprint_bits + ByteBits - 1) \div ByteBits

\* Twice the window for fingerprints that the first byte may push out of it.
window == IF fingerprint_bits <= ByteBits * (Window - 1) THEN Window ELSE 2 * Window

bit_offset(loc) == (loc[1] * BucketSize + loc[2]) * fingerprint_bits

\* The bits of the window at a byte, and those of it before and after a slot.
Load(d, byte) == FromDigits(2^ByteBits, [i \in 0 .. window - 1 |-> d[byte + i]])

Before(val, shift) == val % 2^shift
After(val, shift)  == (val \div 2^(shift + fingerprint_bits)) * 2^(shift + fingerprint_bits)

Read(d, loc) ==
  (Load(d, bit_offset(loc) \div ByteBits) \div 2^(bit_offset(loc) % ByteBits)) % 2^fingerprint_bits

WrongMasked(val, shift) == After(val, shift)   \* the neighbour below is cleared too
Masked(val, shift)      == Before(val, shift) + After(val, shift)

Store(d, loc, fp) ==
  LET byte  == bit_offset(loc) \div ByteBits
      shift == bit_offset(loc) % ByteBits
      val   == Masked(Load(d, byte), shift) + (fp % 2^fingerprint_bits) * 2^shift
  IN  [i \in DOMAIN d |-> IF i \in byte .. byte + window - 1
                          THEN Digit(2^ByteBits, val, i - byte)
                          ELSE d[i]]

-----------------------------------------------------------------------------
TableInit ==
  /\ Init
  /\ data = [i \in 0 .. size_in_bytes + 2 * Window - 1 |-> 0]

\* The slots of a set, written one by one.
StoreAll(d, tbl, locs) == FoldSet(LAMBDA l, e : Store(e, l, tbl[l]), d, locs)

\* The slots a step changes.
Writes == {l \in Locs : table'[l] # table[l]}

TableNext ==
  /\ Next
  /\ data' = StoreAll(data, table', Writes)

TableSpec == TableInit /\ [][TableNext]_tableVars

-----------------------------------------------------------------------------
\* Whatever slots were written and in whatever order, each slot reads as the
\* fingerprint last put there, although its bits share bytes and windows with
\* its neighbours, and no write spills into the padding (read, write).
BytesHoldTable ==
  /\ \A l \in Locs : Read(data, l) = table[l]
  /\ \A i \in DOMAIN data : data[i] \in 0 .. 2^ByteBits - 1
  /\ \A i \in DOMAIN data : i >= size_in_bytes => data[i] = 0

=============================================================================
