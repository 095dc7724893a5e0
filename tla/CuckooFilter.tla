---------------------------- MODULE CuckooFilter ----------------------------
(***************************************************************************)
(* CuckooFilter of crate segmented-cuckoo, over its FingerprintTable, for  *)
(* any index scheme, degenerate ones included whose candidates coincide.   *)
(*                                                                         *)
(* As in CuckooKVStore, an insertion that finds its candidates full is one *)
(* action per kick and per slot of the rollback.                           *)
(***************************************************************************)
EXTENDS IndexSchemes, Sequences, SequencesExt

CONSTANTS
  BucketSize,
  Items,            \* the digests of the application's items
  scheme,           \* a scheme of IndexSchemes
  KickBudgets,      \* values passed to set_max_kicks
  MAX_KICKS_DEFAULT

ASSUME FilterAssumption ==
  /\ BucketSize \in Nat \ {0}
  /\ Items \subseteq Digests
  /\ scheme \in SchemesUpTo(HashBits)   \* a range of more digits is no word
  /\ MAX_KICKS_DEFAULT \in KickBudgets /\ KickBudgets \subseteq Nat

VARIABLES
  table,            \* table[<<bucket, slot>>] is a fingerprint, 0 if empty
  num_items,
  max_kicks,
  chain,            \* what each kick evicted
  cur_fingerprint, cur_index,
  pc,               \* "ready" between calls, "kicking" or "rollback" inside insert
  result,           \* what the last completed call returned
  inserting,        \* history: the item of the running call
  stored,           \* history: how often each item is stored, while not misused
  misused           \* history: an item was deleted that was not stored

loop    == <<chain, cur_fingerprint, cur_index, inserting>>
vars    == <<table, num_items, max_kicks, loop, pc, result, stored, misused>>

-----------------------------------------------------------------------------
Slots      == 0 .. BucketSize - 1
Locs       == (0 .. num_buckets(scheme) - 1) \X Slots
Positions  == PositionsOf(scheme)
Hash       == [i \in Items |-> hash_item(scheme, i)]
Candidates == [b \in 0 .. num_buckets(scheme) - 1 |->
                 [fp \in Fingerprints |-> all_indices(scheme, b, fp)]]

SetOf(indices) == {indices[p] : p \in Positions}

\* FingerprintTable: the lowest slot of bucket b that holds fp.
SlotsWith(tbl, b, fp) == {s \in Slots : tbl[<<b, s>>] = fp}

\* The positions of ps whose bucket holds fp, and the first slot that does.
Holding(tbl, indices, ps, fp) == {p \in ps : SlotsWith(tbl, indices[p], fp) # {}}

WrongFirstLoc(tbl, indices, ps, fp) ==   \* the first slot of the bucket
  <<indices[Min(Holding(tbl, indices, ps, fp))], 0>>

FirstLoc(tbl, indices, ps, fp) ==
  LET b == indices[Min(Holding(tbl, indices, ps, fp))]
  IN  <<b, Min(SlotsWith(tbl, b, fp))>>

WrongMatches(tbl, i) == Holding(tbl, Hash[i].indices, {0}, Hash[i].fp)
Matches(tbl, i)      == Holding(tbl, Hash[i].indices, Positions, Hash[i].fp)

Contain(i) == Matches(table, i) # {}

Init ==
  /\ table = [l \in Locs |-> 0]
  /\ num_items = 0
  /\ max_kicks = MAX_KICKS_DEFAULT
  /\ chain = <<>>
  /\ cur_fingerprint = 0 /\ cur_index = 0
  /\ pc = "ready"
  /\ result = "none"
  /\ inserting = <<>>
  /\ stored = [i \in Items |-> 0]
  /\ misused = FALSE

-----------------------------------------------------------------------------
(* insert.                                                                 *)

InsertDirect(i) ==
  /\ pc = "ready"
  /\ Holding(table, Hash[i].indices, Positions, 0) # {}
  /\ table' = [table EXCEPT ![FirstLoc(table, Hash[i].indices, Positions, 0)] = Hash[i].fp]
  /\ num_items' = num_items + 1
  /\ result' = "Ok"
  /\ stored' = IF misused THEN stored ELSE [stored EXCEPT ![i] = @ + 1]
  /\ UNCHANGED <<max_kicks, loop, pc, misused>>

InsertStartsKicking(i) ==
  /\ pc = "ready"
  /\ Holding(table, Hash[i].indices, Positions, 0) = {}
  /\ cur_fingerprint' = Hash[i].fp
  /\ \E p \in Positions : cur_index' = Hash[i].indices[p]
  /\ chain' = <<>>
  /\ pc' = "kicking"
  /\ inserting' = <<i>>
  /\ UNCHANGED <<table, num_items, max_kicks, result, stored, misused>>

\* The position the evicted fingerprint leaves: the first that names the bucket.
EvictedPos(all) ==
  LET ps == {p \in Positions : all[p] = cur_index} IN IF ps = {} THEN 0 ELSE Min(ps)

EndOfInsert ==   \* scratch, unused until the next call
  /\ pc' = "ready"
  /\ chain' = <<>>
  /\ cur_fingerprint' = 0 /\ cur_index' = 0
  /\ inserting' = <<>>

Kick ==
  /\ pc = "kicking"
  /\ Len(chain) < max_kicks
  /\ \E s \in Slots :
       LET loc     == <<cur_index, s>>
           evicted == table[loc]
           kicked  == [table EXCEPT ![loc] = cur_fingerprint]
           all     == Candidates[cur_index][evicted]
           others  == Positions \ {EvictedPos(all)}
       IN  \/ /\ Holding(kicked, all, others, 0) # {}
              /\ table' = [kicked EXCEPT ![FirstLoc(kicked, all, others, 0)] = evicted]
              /\ num_items' = num_items + 1
              /\ result' = "Ok"
              /\ stored' = IF misused THEN stored ELSE [stored EXCEPT ![inserting[1]] = @ + 1]
              /\ EndOfInsert
           \/ /\ Holding(kicked, all, others, 0) = {}
              /\ table' = kicked
              /\ chain' = Append(chain, [loc |-> loc, fp |-> evicted])
              /\ cur_fingerprint' = evicted
              /\ \E p \in others : cur_index' = all[p]
              /\ UNCHANGED <<num_items, pc, result, inserting, stored>>
  /\ UNCHANGED <<max_kicks, misused>>

KicksExhausted ==
  /\ pc = "kicking"
  /\ Len(chain) >= max_kicks
  /\ pc' = "rollback"
  /\ UNCHANGED <<table, num_items, max_kicks, loop, result, stored, misused>>

WrongRollbackSlot ==   \* from the first kick to the last
  /\ pc = "rollback"
  /\ chain # <<>>
  /\ table' = [table EXCEPT ![Head(chain).loc] = Head(chain).fp]
  /\ chain' = Tail(chain)
  /\ UNCHANGED <<num_items, max_kicks, cur_fingerprint, cur_index, pc, result,
                 inserting, stored, misused>>

RollbackSlot ==
  /\ pc = "rollback"
  /\ chain # <<>>
  /\ table' = [table EXCEPT ![Last(chain).loc] = Last(chain).fp]
  /\ chain' = Front(chain)
  /\ UNCHANGED <<num_items, max_kicks, cur_fingerprint, cur_index, pc, result,
                 inserting, stored, misused>>

RollbackDone ==
  /\ pc = "rollback"
  /\ chain = <<>>
  /\ result' = "TableFull"
  /\ EndOfInsert
  /\ UNCHANGED <<table, num_items, max_kicks, stored, misused>>

-----------------------------------------------------------------------------
(* delete and set_max_kicks.                                               *)

WrongFreed(i) ==   \* every copy
  [l \in Locs |-> IF l[1] \in SetOf(Hash[i].indices) /\ table[l] = Hash[i].fp THEN 0 ELSE table[l]]

Freed(i) == [table EXCEPT ![FirstLoc(table, Hash[i].indices, Positions, Hash[i].fp)] = 0]

Delete(i) ==
  /\ pc = "ready"
  /\ \/ /\ Contain(i)
        /\ table' = Freed(i)
        /\ num_items' = num_items - 1
        /\ result' = "Ok"
        /\ misused' = (misused \/ stored[i] = 0)
        /\ stored' = IF misused' THEN [j \in Items |-> 0] ELSE [stored EXCEPT ![i] = @ - 1]
     \/ /\ ~Contain(i)
        /\ result' = "NotFound"
        /\ UNCHANGED <<table, num_items, stored, misused>>
  /\ UNCHANGED <<max_kicks, loop, pc>>

SetMaxKicks(n) ==
  /\ pc = "ready"
  /\ max_kicks' = n
  /\ UNCHANGED <<table, num_items, loop, pc, result, stored, misused>>

Next ==
  \/ \E i \in Items : InsertDirect(i) \/ InsertStartsKicking(i) \/ Delete(i)
  \/ Kick \/ KicksExhausted \/ RollbackSlot \/ RollbackDone
  \/ \E n \in KickBudgets : SetMaxKicks(n)

Spec == Init /\ [][Next]_vars

-----------------------------------------------------------------------------
\* "It never returns false for items that are currently inserted", as long
\* as the application deletes only what it has inserted (contain, delete).
NoFalseNegatives ==
  pc = "ready" /\ ~misused => \A i \in Items : stored[i] > 0 => Contain(i)

(***************************************************************************)
(* The filter implements the bag of its classes: an insertion adds one     *)
(* member or none, whatever it kicks, and num_items is the size of the     *)
(* bag.  The table is taken back over the running chain of kicks.          *)
(***************************************************************************)
ClassOf(i) == <<Hash[i].fp, SetOf(Hash[i].indices)>>

Kicks(l) == {n \in DOMAIN chain : chain[n].loc = l}

Committed == [l \in Locs |-> IF Kicks(l) = {} THEN table[l] ELSE chain[Min(Kicks(l))].fp]

\* The members of class c; all candidates are buckets of the table.
Members(c) == {l \in c[2] \X Slots : Committed[l] = c[1]}

Bag == INSTANCE KVBag WITH
         Keys     <- Items,
         Values   <- {"present"},
         Classes  <- {ClassOf(i) : i \in Items},
         KeyClass <- [i \in Items |-> ClassOf(i)],
         bag      <- [cv \in {ClassOf(i) : i \in Items} \X {"present"} |-> Cardinality(Members(cv[1]))]

ImplementsBag == Bag!Spec

\* num_items counts the occupied slots (num_items: "maintained exactly").
CountMatchesTable == num_items = Cardinality({l \in Locs : Committed[l] # 0})

=============================================================================
