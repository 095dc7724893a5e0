--------------------------- MODULE CuckooKVStore ---------------------------
(***************************************************************************)
(* CuckooKVStore<S> of crate segmented-cuckoo: the table of fingerprint    *)
(* and value slots that the server publishes, with cuckoo insertion,       *)
(* rollback of a failed kick chain, and the log of committed slot writes.  *)
(*                                                                         *)
(* An insertion is modelled step by step: one action per kick, one per     *)
(* slot the rollback restores.  The other calls are one action each.  The  *)
(* random choices of the code (start bucket, evicted slot, next bucket)    *)
(* are existential quantifiers.  Values are opaque; how a slot is packed   *)
(* in cells is not in this module.  The hash scheme is the function pair   *)
(* HashItem, AllIndices with the contract of trait IndexScheme.            *)
(***************************************************************************)
EXTENDS Integers, Sequences, FiniteSets, SequencesExt

CONSTANTS
  Keys,             \* application keys
  Values,           \* values that fit a slot
  ZeroValue,        \* the value of all-zero cells
  Fps,              \* fingerprints of keys, all non-zero
  NumBuckets,
  BucketSize,
  Arity,            \* candidate buckets per key
  HashItem,         \* HashItem[k] = [fp, indices]
  AllIndices,       \* AllIndices[<<b, fp>>]: the candidates, from one of them
  KickBudgets,      \* values max_kicks may be set to
  DefaultMaxKicks,  \* MAX_KICKS_DEFAULT
  MaxLog            \* bound: no call starts with a longer mutation log

Buckets   == 0 .. NumBuckets - 1
Slots     == 0 .. BucketSize - 1
Positions == 0 .. Arity - 1
Locs      == Buckets \X Slots
Tuples    == [Positions -> Buckets]

ASSUME SizeAssumption ==
  /\ NumBuckets \in Nat \ {0}
  /\ BucketSize \in Nat \ {0}
  /\ Arity \in Nat \ {0, 1}
  /\ KickBudgets \subseteq Nat
  /\ DefaultMaxKicks \in KickBudgets
  /\ MaxLog \in Nat

ASSUME DataAssumption ==
  /\ Fps \subseteq Nat \ {0}
  /\ ZeroValue \in Values

(***************************************************************************)
(* The contract of IndexScheme: from any candidate of a key, AllIndices    *)
(* finds the same set of candidates again, in an order that may differ.    *)
(***************************************************************************)
ASSUME SchemeAssumption ==
  /\ HashItem \in [Keys -> [fp : Fps, indices : Tuples]]
  /\ AllIndices \in [Buckets \X Fps -> Tuples]
  /\ \A b \in Buckets, f \in Fps :
       /\ \E p \in Positions : AllIndices[<<b, f>>][p] = b
       /\ \A p \in Positions :
            Range(AllIndices[<<AllIndices[<<b, f>>][p], f>>]) = Range(AllIndices[<<b, f>>])
  /\ \A k \in Keys, p \in Positions :
       Range(AllIndices[<<HashItem[k].indices[p], HashItem[k].fp>>]) = Range(HashItem[k].indices)

Entries   == [fp : Fps \cup {0}, val : Values]
Empty     == [fp |-> 0, val |-> ZeroValue]
Mutations == [loc : Locs, old : Entries, new : Entries]
Stashed   == [loc : Locs, entry : Entries]

Results == {"none", "Ok", "TableFull", "NotFound", "InvalidParams"}

VARIABLES
  table,              \* table[<<bucket, slot>>] is the entry stored there
  num_items,
  max_kicks,
  chain_room,         \* the values that chain_values has room for
  log_enabled,        \* mutation_log.is_some()
  mutation_log,
  pending_mutations,  \* writes of the running kick chain, not yet logged
  chain,              \* chain_meta and chain_values: what each kick evicted
  cur,                \* cur_fingerprint, 0 outside insert, and cur_value: the
                      \* entry in flight, and the scratch that later calls find
  cur_index,          \* the bucket the entry in flight goes to next
  pc,                 \* "ready" between calls, "kicking" or "rollback" inside insert
  result,             \* what the last completed call returned
  known               \* history: the table the consumer of the log knows

scratch == <<chain, cur, cur_index, pending_mutations>>
logVars == <<log_enabled, mutation_log, known>>
vars == <<table, num_items, max_kicks, chain_room, logVars, scratch, pc, result>>

-----------------------------------------------------------------------------
(***************************************************************************)
(* FingerprintValueTable: the lowest empty slot, the lowest matching slot. *)
(* Definitions named Wrong... are plausible mistakes in the definition     *)
(* they precede; no behaviour uses them.  They show that each property can *)
(* fail.                                                                   *)
(***************************************************************************)

WrongFreeSlots(tbl, b) == {s \in Slots : tbl[<<b, s>>].val = ZeroValue}
FreeSlots(tbl, b)      == {s \in Slots : tbl[<<b, s>>].fp = 0}

MatchSlots(tbl, b, f) == {s \in Slots : tbl[<<b, s>>].fp = f}

\* The positions of ps whose bucket can take an entry.
Open(tbl, indices, ps) == {p \in ps : FreeSlots(tbl, indices[p]) # {}}

\* Where table.insert puts an entry when candidates are tried in order.
PlaceLoc(tbl, indices, open) ==
  LET b == indices[Min(open)] IN <<b, Min(FreeSlots(tbl, b))>>

\* The candidates of k that hold its fingerprint, and the first of them.
WrongMatches(tbl, k) ==
  {p \in Positions \ {0} : MatchSlots(tbl, HashItem[k].indices[p], HashItem[k].fp) # {}}

Matches(tbl, k) ==
  {p \in Positions : MatchSlots(tbl, HashItem[k].indices[p], HashItem[k].fp) # {}}

FirstMatch(tbl, k) ==
  LET b == HashItem[k].indices[Min(Matches(tbl, k))]
  IN  <<b, Min(MatchSlots(tbl, b, HashItem[k].fp))>>

Contain(k) == Matches(table, k) # {}
Get(k)     == table[FirstMatch(table, k)].val   \* when Contain(k)

\* What a call leaves in cur: the value is not cleared.
Left(v) == [fp |-> 0, val |-> v]

\* The entry a deletion leaves, from cur_value once it is filled with zeros.
WrongCleared(v) == Left(v)
Cleared(v)      == Left(ZeroValue)

\* The log after the writes ms, if there is a log.
WrongLogged(ms) == IF log_enabled THEN Append(mutation_log, Last(ms)) ELSE <<>>
Logged(ms) == IF log_enabled THEN mutation_log \o ms ELSE <<>>

WrongWrite(loc, old, new) == [loc |-> loc, old |-> Empty, new |-> new]
Write(loc, old, new)      == [loc |-> loc, old |-> old, new |-> new]

\* apply_mutation: a raw write of the new entry.
ApplyMutation(tbl, m) == [tbl EXCEPT ![m.loc] = m.new]

Replay(tbl, log) == FoldLeft(ApplyMutation, tbl, log)

-----------------------------------------------------------------------------
EmptyTable == [l \in Locs |-> Empty]

Init ==
  /\ table = EmptyTable
  /\ num_items = 0
  /\ max_kicks = DefaultMaxKicks
  /\ chain_room = DefaultMaxKicks
  /\ log_enabled = FALSE
  /\ mutation_log = <<>>
  /\ pending_mutations = <<>>
  /\ chain = <<>>
  /\ cur = Empty
  /\ cur_index = 0
  /\ pc = "ready"
  /\ result = "none"
  /\ known = EmptyTable   \* no consumer yet

\* The consumer drains the log often enough to keep it short.
CanCall == pc = "ready" /\ Len(mutation_log) <= MaxLog

(***************************************************************************)
(* insert: the entry goes to the first candidate bucket with an empty      *)
(* slot; with none, it is in flight to a random candidate.                 *)
(***************************************************************************)
InsertDirect(k, v) ==
  LET item  == HashItem[k]
      entry == [fp |-> item.fp, val |-> v]
      open  == Open(table, item.indices, Positions)
      loc   == PlaceLoc(table, item.indices, open)
  IN  /\ CanCall
      /\ open # {}
      /\ table' = [table EXCEPT ![loc] = entry]
      /\ num_items' = num_items + 1
      /\ mutation_log' = Logged(<<Write(loc, Empty, entry)>>)
      /\ cur' = Left(v)
      /\ result' = "Ok"
      /\ UNCHANGED <<max_kicks, chain_room, log_enabled, known, chain, cur_index,
                     pending_mutations, pc>>

WrongInsertStartsKicking(k, v) ==
  /\ CanCall
  /\ Open(table, HashItem[k].indices, {0}) = {}
  /\ cur' = [fp |-> HashItem[k].fp, val |-> v]
  /\ \E p \in Positions : cur_index' = HashItem[k].indices[p]
  /\ chain' = <<>>
  /\ pending_mutations' = <<>>
  /\ pc' = "kicking"
  /\ UNCHANGED <<table, num_items, max_kicks, chain_room, logVars, result>>

InsertStartsKicking(k, v) ==
  LET item == HashItem[k]
  IN  /\ CanCall
      /\ Open(table, item.indices, Positions) = {}
      /\ cur' = [fp |-> item.fp, val |-> v]
      /\ \E p \in Positions : cur_index' = item.indices[p]
      /\ chain' = <<>>
      /\ pending_mutations' = <<>>
      /\ pc' = "kicking"
      /\ UNCHANGED <<table, num_items, max_kicks, chain_room, logVars, result>>

Insert(k, v) == InsertDirect(k, v) \/ InsertStartsKicking(k, v)

WrongBudgetLeft == Len(chain) <= max_kicks
BudgetLeft      == Len(chain) < max_kicks

\* The candidates of an entry evicted from bucket b.
WrongAllFrom(b, evicted) == AllIndices[<<b, cur.fp>>]   \* of the entry that comes in
AllFrom(b, evicted)      == AllIndices[<<b, evicted.fp>>]

\* The position the evicted entry leaves: the first that names the bucket.
EvictedPos(all, b) ==
  LET ps == {p \in Positions : all[p] = b} IN IF ps = {} THEN 0 ELSE Min(ps)

(***************************************************************************)
(* One kick: the entry in flight takes a random slot of cur_index, and the *)
(* entry it evicts goes to the first of its other candidates with an empty *)
(* slot; with none, it is in flight to a random one of them.               *)
(***************************************************************************)
Kick ==
  /\ pc = "kicking"
  /\ BudgetLeft
  /\ \E s \in Slots :
       LET loc     == <<cur_index, s>>
           evicted == table[loc]
           kicked  == [table EXCEPT ![loc] = cur]
           pending == IF log_enabled
                        THEN Append(pending_mutations, Write(loc, evicted, cur))
                        ELSE pending_mutations
           all     == AllFrom(cur_index, evicted)
           others  == Positions \ {EvictedPos(all, cur_index)}
           open    == Open(kicked, all, others)
           final   == PlaceLoc(kicked, all, open)
       IN  \/ /\ open # {}
              /\ table' = [kicked EXCEPT ![final] = evicted]
              /\ num_items' = num_items + 1
              /\ mutation_log' = Logged(Append(pending, Write(final, Empty, evicted)))
              /\ pc' = "ready"
              /\ result' = "Ok"
              /\ cur' = Left(evicted.val)
              /\ chain' = <<>> /\ pending_mutations' = <<>>   \* unused until
              /\ cur_index' = 0                               \* the next call
              /\ UNCHANGED <<max_kicks, chain_room, log_enabled, known>>
           \/ /\ open = {}
              /\ table' = kicked
              /\ chain' = Append(chain, [loc |-> loc, entry |-> evicted])
              /\ pending_mutations' = pending
              /\ cur' = evicted
              /\ \E p \in others : cur_index' = all[p]
              /\ UNCHANGED <<num_items, max_kicks, chain_room, logVars, pc, result>>

KicksExhausted ==
  /\ pc = "kicking"
  /\ ~BudgetLeft
  /\ pc' = "rollback"
  /\ UNCHANGED <<table, num_items, max_kicks, chain_room, logVars, scratch, result>>

\* The rollback restores the slots from the last kick to the first.
WrongRollbackSlot ==   \* from the first kick to the last
  /\ pc = "rollback"
  /\ chain # <<>>
  /\ table' = [table EXCEPT ![Head(chain).loc] = Head(chain).entry]
  /\ chain' = Tail(chain)
  /\ UNCHANGED <<num_items, max_kicks, chain_room, logVars, cur, cur_index,
                 pending_mutations, pc, result>>

StuckRollbackSlot ==   \* forgets that the slot is restored
  /\ pc = "rollback"
  /\ chain # <<>>
  /\ table' = [table EXCEPT ![Last(chain).loc] = Last(chain).entry]
  /\ UNCHANGED <<num_items, max_kicks, chain_room, logVars, scratch, pc, result>>

RollbackSlot ==
  /\ pc = "rollback"
  /\ chain # <<>>
  /\ table' = [table EXCEPT ![Last(chain).loc] = Last(chain).entry]
  /\ chain' = Front(chain)
  /\ UNCHANGED <<num_items, max_kicks, chain_room, logVars, cur, cur_index,
                 pending_mutations, pc, result>>

RollbackDone ==
  /\ pc = "rollback"
  /\ chain = <<>>
  /\ pending_mutations' = <<>>
  /\ cur' = Left(cur.val) /\ cur_index' = 0
  /\ pc' = "ready"
  /\ result' = "TableFull"
  /\ UNCHANGED <<table, num_items, max_kicks, chain_room, logVars, chain>>

Delete(k) ==
  /\ CanCall
  /\ \/ /\ Contain(k)
        /\ LET loc == FirstMatch(table, k)
           IN  /\ table' = [table EXCEPT ![loc] = Cleared(cur.val)]
               /\ mutation_log' = Logged(<<Write(loc, table[loc], Empty)>>)
        /\ cur' = Cleared(cur.val)
        /\ num_items' = num_items - 1
        /\ result' = "Ok"
     \/ /\ ~Contain(k)
        /\ result' = "NotFound"
        /\ UNCHANGED <<table, num_items, cur, mutation_log>>
  /\ UNCHANGED <<max_kicks, chain_room, log_enabled, known, chain, cur_index,
                 pending_mutations, pc>>

Update(k, v) ==
  /\ CanCall
  /\ \/ /\ Contain(k)
        /\ LET loc == FirstMatch(table, k)
               new == [table[loc] EXCEPT !.val = v]
           IN  /\ table' = [table EXCEPT ![loc] = new]
               /\ mutation_log' = Logged(<<Write(loc, table[loc], new)>>)
        /\ result' = "Ok"
     \/ /\ ~Contain(k)
        /\ result' = "NotFound"
        /\ UNCHANGED <<table, mutation_log>>
  /\ cur' = Left(v)
  /\ UNCHANGED <<num_items, max_kicks, chain_room, log_enabled, known, chain, cur_index,
                 pending_mutations, pc>>

\* insert or update with a value of the wrong length.
RejectLength ==
  /\ CanCall
  /\ result' = "InvalidParams"
  /\ UNCHANGED <<table, num_items, max_kicks, chain_room, logVars, scratch, pc>>

WrongRoomFor(n) == chain_room
RoomFor(n)      == n   \* chain_values is resized to the new budget

SetMaxKicks(n) ==
  /\ pc = "ready"
  /\ max_kicks' = n
  /\ chain_room' = RoomFor(n)
  /\ UNCHANGED <<table, num_items, logVars, scratch, pc, result>>

\* The consumer of a new log starts from a snapshot of the table.
EnableMutationLog ==
  /\ pc = "ready"
  /\ ~log_enabled
  /\ log_enabled' = TRUE
  /\ mutation_log' = <<>>
  /\ known' = table
  /\ UNCHANGED <<table, num_items, max_kicks, chain_room, scratch, pc, result>>

DisableMutationLog ==
  /\ pc = "ready"
  /\ log_enabled
  /\ log_enabled' = FALSE
  /\ mutation_log' = <<>>
  /\ known' = EmptyTable
  /\ UNCHANGED <<table, num_items, max_kicks, chain_room, scratch, pc, result>>

\* The consumer of the drained log now knows the table.
DrainMutations ==
  /\ pc = "ready"
  /\ log_enabled
  /\ mutation_log # <<>>
  /\ mutation_log' = <<>>
  /\ known' = table
  /\ UNCHANGED <<table, num_items, max_kicks, chain_room, log_enabled, scratch, pc, result>>

\* A store rebuilt by from_cells from the snapshot and count of this one.
FromCells ==
  /\ pc = "ready"
  /\ max_kicks' = DefaultMaxKicks
  /\ chain_room' = DefaultMaxKicks
  /\ log_enabled' = FALSE
  /\ mutation_log' = <<>>
  /\ known' = EmptyTable
  /\ cur' = Empty
  /\ UNCHANGED <<table, num_items, chain, cur_index, pending_mutations, pc, result>>

InsertLoop == Kick \/ KicksExhausted \/ RollbackSlot \/ RollbackDone

Next ==
  \/ \E k \in Keys, v \in Values : Insert(k, v) \/ Update(k, v)
  \/ \E k \in Keys : Delete(k)
  \/ RejectLength
  \/ InsertLoop
  \/ \E n \in KickBudgets : SetMaxKicks(n)
  \/ EnableMutationLog
  \/ DisableMutationLog
  \/ DrainMutations
  \/ FromCells

Spec == Init /\ [][Next]_vars

\* insert runs its loop to the end once it has entered it.
FairSpec == Spec /\ WF_vars(InsertLoop)

-----------------------------------------------------------------------------
(***************************************************************************)
(* Properties.                                                             *)
(***************************************************************************)

\* The type invariant of the store (struct CuckooKVStore).  No kick writes
\* beyond the end of chain_values, which set_max_kicks resizes.
TypeOK ==
  /\ table \in [Locs -> Entries]
  /\ num_items \in Nat
  /\ max_kicks \in KickBudgets
  /\ chain_room \in Nat
  /\ log_enabled \in BOOLEAN
  /\ mutation_log \in Seq(Mutations)
  /\ pending_mutations \in Seq(Mutations)
  /\ chain \in Seq(Stashed)
  /\ Len(chain) <= chain_room
  /\ cur \in Entries
  /\ cur_index \in Buckets
  /\ pc \in {"ready", "kicking", "rollback"}
  /\ result \in Results
  /\ known \in [Locs -> Entries]

Occupied(tbl) == {l \in Locs : tbl[l].fp # 0}

\* num_items is the number of occupied slots, between calls and through a
\* kick chain that fails or succeeds (num_items of insert and delete).
CountMatchesTable == num_items = Cardinality(Occupied(table))

\* An empty slot holds only zero cells, as the matrix product over the
\* published cells needs (delete zeroes the value, rollback restores it).
EmptySlotsAreZero == \A l \in Locs : table[l].fp = 0 => table[l] = Empty

\* Inside the kick loop the bucket about to be kicked is full, so no kick
\* evicts an empty slot (which all_indices and table.insert could not take),
\* and it is a candidate of the entry in flight: of the key that is being
\* inserted, or of the entry that the last kick evicted, as found from the
\* bucket it was evicted from.
KicksOnlyFullBuckets ==
  pc = "kicking" =>
    /\ FreeSlots(table, cur_index) = {}
    /\ cur.fp # 0
    /\ chain = <<>> =>
         \E k \in Keys : cur.fp = HashItem[k].fp /\ cur_index \in Range(HashItem[k].indices)
    /\ chain # <<>> =>
         /\ cur = Last(chain).entry
         /\ cur_index \in Range(AllIndices[<<Last(chain).loc[1], cur.fp>>])

\* The table with the running kick chain taken back: a slot kicked more
\* than once gets the entry its first kick evicted.
Stashes(c, l) == {i \in 1 .. Len(c) : c[i].loc = l}

TakenBack(tbl, c) ==
  [l \in Locs |-> IF Stashes(c, l) = {} THEN tbl[l] ELSE c[Min(Stashes(c, l))].entry]

Committed == TakenBack(table, chain)

\* A call that fails changes no slot and not the count: what the kick chain
\* wrote can be taken back at every step of it, and the rollback, from the
\* last kick to the first, ends with the table the call found.
FailedCallLeavesNoTrace ==
  [][ ~(pc' = "ready" /\ result' = "Ok") =>
        Committed' = Committed /\ num_items' = num_items ]_vars

\* Replaying the undrained log on the table the consumer knows gives the
\* table, between calls and while a kick chain runs or is rolled back.
LogReplaysToTable ==
  log_enabled => Replay(known, mutation_log) = Committed

\* The logged writes of one slot follow each other without a gap, from the
\* consumer's entry to the present one, so the differences new - old that
\* the server folds into row deltas sum to the change of the table.
WritesAt(l) == {i \in 1 .. Len(mutation_log) : mutation_log[i].loc = l}

LogTelescopes ==
  log_enabled =>
    \A l \in Locs :
      LET ws == WritesAt(l)
      IN  /\ ws = {} => known[l] = Committed[l]
          /\ ws # {} => /\ mutation_log[Min(ws)].old = known[l]
                        /\ mutation_log[Max(ws)].new = Committed[l]
          /\ \A i, j \in ws :
               (i < j /\ \A m \in ws : ~(i < m /\ m < j)) =>
                  mutation_log[j].old = mutation_log[i].new

\* An insertion ends (the loop of insert is bounded by max_kicks).
InsertTerminates == (pc # "ready") ~> (pc = "ready")

\* What the kick chain stashed, and the slots it kicked, are occupied.
ChainOccupied ==
  \A i \in 1 .. Len(chain) : chain[i].entry.fp # 0 /\ table[chain[i].loc].fp # 0

ChainOnlyInInsert == pc = "ready" => chain = <<>>

\* The room for the stashed values is what the kick loop may need.
RoomForBudget == chain_room = max_kicks

\* The inductive invariant: with the chain occupied, the count survives
\* every kick and every restored slot.
IInv ==
  /\ TypeOK
  /\ CountMatchesTable
  /\ EmptySlotsAreZero
  /\ KicksOnlyFullBuckets
  /\ ChainOccupied
  /\ ChainOnlyInInsert
  /\ RoomForBudget

-----------------------------------------------------------------------------
(***************************************************************************)
(* The store implements the bag of KVBag: the class of an entry is its     *)
(* fingerprint with its set of candidates, found from where it lies.       *)
(***************************************************************************)
ClassOf == [bf \in Buckets \X Fps |-> <<bf[2], Range(AllIndices[bf])>>]

Classes == Range(ClassOf)

KeyClass == [k \in Keys |-> <<HashItem[k].fp, Range(HashItem[k].indices)>>]

Copies(tbl, c, v) ==
  {l \in Locs : tbl[l].val = v /\ tbl[l].fp # 0 /\ ClassOf[<<l[1], tbl[l].fp>>] = c}

BagOf(tbl) == [p \in Classes \X Values |-> Cardinality(Copies(tbl, p[1], p[2]))]

Abstract == INSTANCE KVBag WITH bag <- BagOf(Committed)

\* Every behaviour of the store is one of the bag: kicks move entries and
\* lose, duplicate or misplace none; a key whose class holds an entry is
\* found; a failed insertion adds nothing.
ImplementsBag == Abstract!Spec

=============================================================================
