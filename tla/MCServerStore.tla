---------------------------- MODULE MCServerStore ----------------------------
(***************************************************************************)
(* An instance of ServerScan for TLC, on the scheme of MCCuckooKVStore: a  *)
(* fingerprint of 3 bits, a value of 7 in bytes of 3, and cells of 4 bits, *)
(* so that the fields of a value cross cells, the last one is shorter, and *)
(* bits are left over in the last byte of a value and the last cell of a   *)
(* slot.                                                                   *)
(***************************************************************************)
EXTENDS MCCuckooKVStore, ServerScan

\* As TwoAryKeys, with a fingerprint whose highest bit is set.
MCOffsets == [f \in {1, 6} |-> IF f = 1 THEN 0 ELSE 1]
MCKeys    == {<<1, 0>>, <<1, 1>>, <<6, 0>>}

\* Both values come with bits beyond the seventh.
MCBytesOf == [v \in {0, 1} |-> IF v = 0 THEN <<0, 0, 6>> ELSE <<5, 7, 3>>]

\* With this TLC packs every entry once.
ASSUME PackedOnce == Packed \in [Entries -> [0 .. cells_per_slot - 1 -> Cell]]

\* The table after direct insertions of the keys in ks, with values 1 and 0 in
\* turn.
Populated(ks) ==
  FoldLeft(LAMBDA tbl, i : [tbl EXCEPT ![PlaceLoc(tbl, HashItem[ks[i]].indices,
                                           Open(tbl, HashItem[ks[i]].indices, Positions))] =
                              [fp |-> HashItem[ks[i]].fp, val |-> i % 2]],
           EmptyTable, [i \in 1 .. Len(ks) |-> i])

\* Two keys stored twice.  After a delete, an insertion may go round: its
\* fourth kick hits a slot that its first kick has hit.
FullTable == Populated(<<<<1, 0>>, <<1, 0>>, <<1, 1>>, <<1, 1>>>>)

=============================================================================
