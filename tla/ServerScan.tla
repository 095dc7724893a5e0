----------------------------- MODULE ServerScan -----------------------------
(***************************************************************************)
(* The rows the server of ServerStore answers with, as a client scans them *)
(* for a key.                                                              *)
(***************************************************************************)
EXTENDS ServerStore

LOCAL INSTANCE Bitwise

-----------------------------------------------------------------------------
(***************************************************************************)
(* decode of the clients, once the queried rows, one per segment, are      *)
(* recovered (see DecodeIsExact): all slots are unpacked, and the bytes of *)
(* those with the fingerprint of the key are or-ed.                        *)
(***************************************************************************)
SlotsOfRows(k) ==
  [n \in 1 .. Arity * BucketSize |->
     LET j   == (n - 1) \div BucketSize
         row == HashItem[k].indices[j] % segment_size
     IN  UnpackSlotCells([i \in 0 .. cells_per_slot - 1 |->
                            Served[<<j, <<row, ((n - 1) % BucketSize) * cells_per_slot + i>>>>]])]

WrongMerged(acc, bytes) == bytes   \* the last match overrides
Merged(acc, bytes)      == [b \in DOMAIN bytes |-> acc[b] | bytes[b]]

ClientScan(k) ==
  LET matches == SelectSeq(SlotsOfRows(k), LAMBDA slot : slot.fp = HashItem[k].fp)
  IN  IF matches = <<>> THEN NotFound
      ELSE FoldLeft(LAMBDA acc, slot : Merged(acc, slot.bytes),
                    [b \in 1 .. value_size_in_bytes |-> 0], matches)

-----------------------------------------------------------------------------
\* A client finds a key in its rows when the store contains it, and reads what
\* get reads, without stray bits: the bytes that were inserted, or when copies
\* or a key of the same class hold other values, "the bitwise OR of their
\* values" (unpack_slot_cells, get_into, HintPatchClient::decode).
DecodeReadsStore ==
  Idle =>
    \A k \in Keys :
      LET held == {l \in Locs : /\ table[l].fp = HashItem[k].fp
                               /\ \E p \in Positions : l[1] = HashItem[k].indices[p]}
          Bit(bytes, b, t) == (bytes[b] \div 2^t) % 2 = 1
      IN  IF held = {}
          THEN ClientScan(k) = NotFound /\ GetInto(cells, k) = NotFound
          ELSE /\ GetInto(cells, k) = ProperBytes(Get(k))
               /\ \A b \in 1 .. value_size_in_bytes, t \in 0 .. ByteBits - 1 :
                    Bit(ClientScan(k), b, t) <=> \E l \in held : Bit(ProperBytes(table[l].val), b, t)

=============================================================================
