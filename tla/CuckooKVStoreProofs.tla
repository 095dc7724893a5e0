------------------------ MODULE CuckooKVStoreProofs ------------------------
(***************************************************************************)
(* Proofs about CuckooKVStore, for every number of buckets, slots and      *)
(* candidates, every hash scheme that meets SchemeAssumption, and every    *)
(* kick budget.                                                            *)
(***************************************************************************)
EXTENDS CuckooKVStore, FiniteSetTheorems, SequenceTheorems, TLAPS

-----------------------------------------------------------------------------
(* Lemmas on the operators. *)

\* Min picks the least element of a non-empty set of naturals: the lowest
\* slot, the first candidate, the first kick of a slot.
LEMMA MinOfNaturals ==
  ASSUME NEW S, S \subseteq Nat, S # {}
  PROVE  Min(S) \in S /\ \A y \in S : Min(S) <= y
<1> DEFINE R == OpToRel(<, Nat)
<1>1. PICK x \in S : \A y \in S : <<y, x>> \notin R
  <2>1. IsWellFoundedOn(R, Nat)
    BY NatLessThanWellFounded
  <2> QED
    BY <2>1, WFMin, Zenon
<1>2. ASSUME NEW y \in S
      PROVE  x <= y
  <2>1. y < x => <<y, x>> \in {ss \in Nat \X Nat : ss[1] < ss[2]}
    OBVIOUS
  <2>2. R = {ss \in Nat \X Nat : ss[1] < ss[2]}
    BY Zenon DEF OpToRel
  <2>3. <<y, x>> \notin R
    BY <1>1
  <2> HIDE DEF R
  <2>4. ~(y < x)
    BY <2>1, <2>2, <2>3
  <2> QED
    BY <2>4
<1> QED
  BY <1>2 DEF Min

LEMMA LocsFinite == IsFiniteSet(Locs)
<1>1. IsFiniteSet(Buckets) /\ IsFiniteSet(Slots)
  BY FS_Interval, SizeAssumption DEF Buckets, Slots
<1> QED
  BY <1>1, FS_Product DEF Locs

\* The occupied slots can be counted.
LEMMA OccupiedFinite ==
  ASSUME NEW tbl
  PROVE  IsFiniteSet(Occupied(tbl)) /\ Cardinality(Occupied(tbl)) \in Nat
<1>1. Occupied(tbl) \subseteq Locs
  BY DEF Occupied
<1>2. IsFiniteSet(Occupied(tbl))
  BY <1>1, LocsFinite, FS_Subset
<1> QED
  BY <1>2, FS_CardinalityType

\* Filling an empty slot adds one to the number of occupied slots.
LEMMA FillCounts ==
  ASSUME NEW tbl \in [Locs -> Entries], NEW l \in Locs, NEW e \in Entries,
         tbl[l].fp = 0, e.fp # 0
  PROVE  Cardinality(Occupied([tbl EXCEPT ![l] = e])) = Cardinality(Occupied(tbl)) + 1
<1>1. Occupied([tbl EXCEPT ![l] = e]) = Occupied(tbl) \cup {l}
  BY DEF Occupied
<1>2. l \notin Occupied(tbl)
  BY DEF Occupied
<1> QED
  BY <1>1, <1>2, OccupiedFinite, FS_AddElement

\* Clearing an occupied slot takes one from it.
LEMMA ClearCounts ==
  ASSUME NEW tbl \in [Locs -> Entries], NEW l \in Locs, NEW e \in Entries,
         tbl[l].fp # 0, e.fp = 0
  PROVE  Cardinality(Occupied([tbl EXCEPT ![l] = e])) = Cardinality(Occupied(tbl)) - 1
<1>1. Occupied([tbl EXCEPT ![l] = e]) = Occupied(tbl) \ {l}
  BY DEF Occupied
<1>2. l \in Occupied(tbl)
  BY DEF Occupied
<1> QED
  BY <1>1, <1>2, OccupiedFinite, FS_RemoveElement

\* Exchanging one entry for another changes nothing to the count.
LEMMA SwapKeepsOccupied ==
  ASSUME NEW tbl \in [Locs -> Entries], NEW l \in Locs, NEW e \in Entries,
         tbl[l].fp # 0, e.fp # 0
  PROVE  Occupied([tbl EXCEPT ![l] = e]) = Occupied(tbl)
BY DEF Occupied

\* The slot PlaceLoc names is an empty slot of one of the candidates.
LEMMA PlaceLocIsFree ==
  ASSUME NEW tbl, NEW indices \in Tuples, NEW ps \in SUBSET Positions,
         Open(tbl, indices, ps) # {}
  PROVE  /\ PlaceLoc(tbl, indices, Open(tbl, indices, ps)) \in Locs
         /\ tbl[PlaceLoc(tbl, indices, Open(tbl, indices, ps))].fp = 0
<1> DEFINE open == Open(tbl, indices, ps)
           b    == indices[Min(open)]
<1>0. Positions \subseteq Nat /\ Slots \subseteq Nat
  BY DEF Positions, Slots
<1>1. Min(open) \in open
  <2>1. open \subseteq Nat
    BY <1>0 DEF Open
  <2> QED
    BY <2>1, MinOfNaturals
<1>2. b \in Buckets /\ FreeSlots(tbl, b) # {}
  BY <1>1 DEF Open, Tuples
<1>3. Min(FreeSlots(tbl, b)) \in FreeSlots(tbl, b)
  <2>1. FreeSlots(tbl, b) \subseteq Nat
    BY <1>0 DEF FreeSlots
  <2> QED
    BY <1>2, <2>1, MinOfNaturals
<1> QED
  BY <1>2, <1>3 DEF PlaceLoc, FreeSlots, Locs

\* The slot FirstMatch names holds the fingerprint of the key.
LEMMA FirstMatchHolds ==
  ASSUME NEW tbl, NEW k \in Keys, Matches(tbl, k) # {}
  PROVE  FirstMatch(tbl, k) \in Locs /\ tbl[FirstMatch(tbl, k)].fp = HashItem[k].fp
<1> DEFINE f == HashItem[k].fp
           b == HashItem[k].indices[Min(Matches(tbl, k))]
<1>0. Positions \subseteq Nat /\ Slots \subseteq Nat
  BY DEF Positions, Slots
<1>1. Min(Matches(tbl, k)) \in Matches(tbl, k)
  <2>1. Matches(tbl, k) \subseteq Nat
    BY <1>0 DEF Matches
  <2> QED
    BY <2>1, MinOfNaturals
<1>2. b \in Buckets /\ MatchSlots(tbl, b, f) # {}
  BY <1>1, SchemeAssumption DEF Matches, Tuples
<1>3. Min(MatchSlots(tbl, b, f)) \in MatchSlots(tbl, b, f)
  <2>1. MatchSlots(tbl, b, f) \subseteq Nat
    BY <1>0 DEF MatchSlots
  <2> QED
    BY <1>2, <2>1, MinOfNaturals
<1> QED
  BY <1>2, <1>3 DEF FirstMatch, MatchSlots, Locs

LEMMA EmptyIsEntry == Empty \in Entries /\ Empty.fp = 0
BY DataAssumption DEF Empty, Entries

\* The hash of a key.
LEMMA HashType ==
  ASSUME NEW k \in Keys
  PROVE  /\ HashItem[k].fp \in Fps
         /\ HashItem[k].indices \in Tuples
         /\ \A v \in Values : /\ [fp |-> HashItem[k].fp, val |-> v] \in Entries
                              /\ [fp |-> HashItem[k].fp, val |-> v].fp # 0
         /\ \A p \in Positions : HashItem[k].indices[p] \in Buckets
BY SchemeAssumption, DataAssumption DEF Tuples, Entries

\* Appending writes to the log keeps it a log.
LEMMA LoggedType ==
  ASSUME TypeOK, NEW ms \in Seq(Mutations)
  PROVE  Logged(ms) \in Seq(Mutations)
BY ConcatProperties DEF Logged, TypeOK

\* What a call leaves in cur is no entry in flight, and cleared it is empty.
LEMMA LeftType ==
  ASSUME NEW v \in Values
  PROVE  Left(v) \in Entries /\ Left(v).fp = 0 /\ Cleared(v) = Empty
BY DEF Left, Cleared, Entries, Empty

LEMMA WriteType ==
  ASSUME NEW l \in Locs, NEW old \in Entries, NEW new \in Entries
  PROVE  Write(l, old, new) \in Mutations
BY DEF Write, Mutations

\* The positions other than the one evicted from, and what AllIndices gives.
LEMMA CandidatesType ==
  ASSUME NEW b \in Buckets, NEW f \in Fps
  PROVE  AllIndices[<<b, f>>] \in Tuples
BY SchemeAssumption

-----------------------------------------------------------------------------
(* The inductive invariant: the initial state, then one lemma per action.  *)

LEMMA InitIInv == Init => IInv
<1> SUFFICES ASSUME Init PROVE IInv
  OBVIOUS
<1> USE EmptyIsEntry
<1>1. TypeOK
  <2>1. 0 \in Buckets
    BY SizeAssumption DEF Buckets
  <2>2. max_kicks \in KickBudgets /\ max_kicks \in Nat
    BY SizeAssumption DEF Init
  <2>3. table \in [Locs -> Entries] /\ known \in [Locs -> Entries]
    BY DEF Init, EmptyTable
  <2>4. Len(chain) <= chain_room /\ chain_room \in Nat
    BY <2>2 DEF Init
  <2>5. chain \in Seq(Stashed) /\ mutation_log \in Seq(Mutations) /\ pending_mutations \in Seq(Mutations)
    BY DEF Init
  <2>6. cur \in Entries /\ cur_index \in Buckets /\ result \in Results /\ num_items \in Nat
    BY <2>1 DEF Init, Results
  <2> QED
    BY <2>2, <2>3, <2>4, <2>5, <2>6 DEF Init, TypeOK
<1>2. CountMatchesTable
  <2>1. Occupied(table) = {}
    BY DEF Init, EmptyTable, Occupied
  <2> QED
    BY <2>1, FS_EmptySet DEF Init, CountMatchesTable
<1>3. EmptySlotsAreZero
  BY DEF Init, EmptyTable, EmptySlotsAreZero
<1> QED
  BY <1>1, <1>2, <1>3
  DEF IInv, Init, KicksOnlyFullBuckets, ChainOccupied, ChainOnlyInInsert, RoomForBudget

LEMMA InsertDirectIInv ==
  ASSUME IInv, NEW k \in Keys, NEW v \in Values, InsertDirect(k, v)
  PROVE  IInv'
<1> DEFINE item  == HashItem[k]
           entry == [fp |-> item.fp, val |-> v]
           open  == Open(table, item.indices, Positions)
           loc   == PlaceLoc(table, item.indices, open)
<1>1. /\ CanCall
      /\ open # {}
      /\ table' = [table EXCEPT ![loc] = entry]
      /\ num_items' = num_items + 1
      /\ mutation_log' = Logged(<<Write(loc, Empty, entry)>>)
      /\ result' = "Ok"
      /\ cur' = Left(v)
      /\ UNCHANGED <<max_kicks, chain_room, log_enabled, known, chain, cur_index,
                     pending_mutations, pc>>
  BY DEF InsertDirect
<1>2. entry \in Entries /\ entry.fp # 0 /\ item.indices \in Tuples
  BY HashType
<1>3. loc \in Locs /\ table[loc].fp = 0
  BY <1>1, <1>2, PlaceLocIsFree
<1> HIDE DEF loc, entry, open
<1>4. Logged(<<Write(loc, Empty, entry)>>) \in Seq(Mutations)
  <2>1. Write(loc, Empty, entry) \in Mutations
    BY <1>2, <1>3, EmptyIsEntry, WriteType
  <2>2. <<Write(loc, Empty, entry)>> \in Seq(Mutations)
    BY <2>1
  <2> QED
    BY <2>2, LoggedType DEF IInv
<1>5. TypeOK'
  BY <1>1, <1>2, <1>3, <1>4, LeftType DEF IInv, TypeOK, Results
<1>6. CountMatchesTable'
  BY <1>1, <1>2, <1>3, FillCounts DEF IInv, TypeOK, CountMatchesTable
<1>7. EmptySlotsAreZero'
  BY <1>1, <1>2, <1>3 DEF IInv, TypeOK, EmptySlotsAreZero
<1>8. KicksOnlyFullBuckets' /\ ChainOccupied' /\ ChainOnlyInInsert' /\ RoomForBudget'
  BY <1>1 DEF CanCall, IInv, KicksOnlyFullBuckets, ChainOccupied, ChainOnlyInInsert, RoomForBudget
<1> QED
  BY <1>5, <1>6, <1>7, <1>8 DEF IInv

LEMMA InsertStartsKickingIInv ==
  ASSUME IInv, NEW k \in Keys, NEW v \in Values, InsertStartsKicking(k, v)
  PROVE  IInv'
<1>1. PICK p \in Positions : cur_index' = HashItem[k].indices[p]
  BY DEF InsertStartsKicking
<1>2. /\ cur' = [fp |-> HashItem[k].fp, val |-> v]
      /\ chain' = <<>> /\ pending_mutations' = <<>> /\ pc' = "kicking"
      /\ UNCHANGED <<table, num_items, max_kicks, chain_room, logVars, result>>
  BY DEF InsertStartsKicking
<1>3. cur' \in Entries /\ cur'.fp # 0 /\ cur_index' \in Buckets
  BY <1>1, <1>2, HashType
<1>4. FreeSlots(table, cur_index') = {}
  BY <1>1 DEF InsertStartsKicking, Open
<1>5. TypeOK'
  <2>1. chain_room \in Nat
    BY DEF IInv, TypeOK
  <2> QED
    BY <1>2, <1>3, <2>1 DEF IInv, TypeOK, logVars
<1>6. CountMatchesTable' /\ EmptySlotsAreZero'
  BY <1>2 DEF IInv, CountMatchesTable, EmptySlotsAreZero
<1>7. KicksOnlyFullBuckets'
  <2>1. cur'.fp = HashItem[k].fp /\ cur_index' \in Range(HashItem[k].indices)
    BY <1>1, <1>2, HashType DEF Range, Tuples
  <2> QED
    BY <1>2, <1>3, <1>4, <2>1 DEF KicksOnlyFullBuckets, FreeSlots
<1>8. ChainOccupied' /\ ChainOnlyInInsert' /\ RoomForBudget'
  BY <1>2 DEF ChainOccupied, ChainOnlyInInsert, RoomForBudget, IInv
<1> QED
  BY <1>5, <1>6, <1>7, <1>8 DEF IInv

\* One kick, whether it ends the insertion or goes on.
LEMMA KickIInv ==
  ASSUME IInv, Kick
  PROVE  IInv'
<1> PICK s \in Slots :
      LET loc     == <<cur_index, s>>
          evicted == table[loc]
          kicked  == [table EXCEPT ![loc] = cur]
          pending == IF log_enabled
                       THEN Append(pending_mutations, Write(loc, evicted, cur))
                       ELSE pending_mutations
          all     == AllIndices[<<cur_index, evicted.fp>>]
          others  == Positions \ {EvictedPos(all, cur_index)}
          open    == Open(kicked, all, others)
          final   == PlaceLoc(kicked, all, open)
      IN  \/ /\ open # {}
             /\ table' = [kicked EXCEPT ![final] = evicted]
             /\ num_items' = num_items + 1
             /\ mutation_log' = Logged(Append(pending, Write(final, Empty, evicted)))
             /\ pc' = "ready"
             /\ result' = "Ok"
             /\ chain' = <<>> /\ pending_mutations' = <<>>
             /\ cur' = Left(evicted.val) /\ cur_index' = 0
             /\ UNCHANGED <<max_kicks, chain_room, log_enabled, known>>
          \/ /\ open = {}
             /\ table' = kicked
             /\ chain' = Append(chain, [loc |-> loc, entry |-> evicted])
             /\ pending_mutations' = pending
             /\ cur' = evicted
             /\ \E p \in others : cur_index' = all[p]
             /\ UNCHANGED <<num_items, max_kicks, chain_room, logVars, pc, result>>
  BY DEF Kick, AllFrom
<1> DEFINE loc     == <<cur_index, s>>
           evicted == table[loc]
           kicked  == [table EXCEPT ![loc] = cur]
           pending == IF log_enabled
                        THEN Append(pending_mutations, Write(loc, evicted, cur))
                        ELSE pending_mutations
           all     == AllIndices[<<cur_index, evicted.fp>>]
           others  == Positions \ {EvictedPos(all, cur_index)}
           open    == Open(kicked, all, others)
           final   == PlaceLoc(kicked, all, open)
<1>1. pc = "kicking" /\ Len(chain) < chain_room /\ chain_room = max_kicks
  BY DEF Kick, BudgetLeft, IInv, RoomForBudget
<1>2. loc \in Locs /\ evicted \in Entries /\ cur \in Entries /\ table \in [Locs -> Entries]
  BY DEF IInv, TypeOK, Locs
<1>3. evicted.fp # 0 /\ evicted.fp \in Fps /\ cur.fp # 0
  <2>1. s \notin FreeSlots(table, cur_index)
    BY <1>1 DEF IInv, KicksOnlyFullBuckets
  <2> QED
    BY <1>1, <1>2, <2>1 DEF IInv, KicksOnlyFullBuckets, FreeSlots, Entries
<1>4. kicked \in [Locs -> Entries] /\ Occupied(kicked) = Occupied(table)
  BY <1>2, <1>3, SwapKeepsOccupied
<1>5. pending \in Seq(Mutations)
  <2>1. Write(loc, evicted, cur) \in Mutations
    BY <1>2, WriteType
  <2> QED
    BY <2>1 DEF IInv, TypeOK
<1>6. all \in Tuples
  BY <1>3, CandidatesType DEF IInv, TypeOK
<1>7. EmptySlotsAreZero => \A l \in Locs : kicked[l].fp = 0 => kicked[l] = Empty
  BY <1>2, <1>3 DEF EmptySlotsAreZero
<1>8. CASE open # {}
  <2>1. /\ table' = [kicked EXCEPT ![final] = evicted]
        /\ num_items' = num_items + 1
        /\ mutation_log' = Logged(Append(pending, Write(final, Empty, evicted)))
        /\ pc' = "ready"
        /\ result' = "Ok"
        /\ chain' = <<>> /\ pending_mutations' = <<>>
        /\ cur' = Left(evicted.val) /\ cur_index' = 0
        /\ UNCHANGED <<max_kicks, chain_room, log_enabled, known>>
    BY <1>8
  <2>2. final \in Locs /\ kicked[final].fp = 0
    BY <1>6, <1>8, PlaceLocIsFree
  <2> HIDE DEF final, open, pending, kicked, all, evicted
  <2>3. Logged(Append(pending, Write(final, Empty, evicted))) \in Seq(Mutations)
    <3>1. Write(final, Empty, evicted) \in Mutations
      BY <1>2, <2>2, EmptyIsEntry, WriteType
    <3>2. Append(pending, Write(final, Empty, evicted)) \in Seq(Mutations)
      BY <1>5, <3>1
    <3> QED
      BY <3>2, LoggedType DEF IInv
  <2>4. TypeOK'
    <3>1. 0 \in Buckets /\ chain_room \in Nat
      BY SizeAssumption DEF Buckets, IInv, TypeOK
    <3>2. Left(evicted.val) \in Entries
      BY <1>2, LeftType DEF Entries
    <3> QED
      BY <1>2, <1>4, <2>1, <2>2, <2>3, <3>1, <3>2 DEF IInv, TypeOK, Results
  <2>5. CountMatchesTable'
    BY <1>2, <1>3, <1>4, <2>1, <2>2, FillCounts DEF IInv, CountMatchesTable
  <2>6. EmptySlotsAreZero'
    BY <1>2, <1>3, <1>4, <1>7, <2>1, <2>2 DEF IInv, EmptySlotsAreZero
  <2> QED
    BY <2>1, <2>4, <2>5, <2>6
    DEF IInv, KicksOnlyFullBuckets, ChainOccupied, ChainOnlyInInsert, RoomForBudget
<1>9. CASE open = {}
  <2>1. /\ table' = kicked
        /\ chain' = Append(chain, [loc |-> loc, entry |-> evicted])
        /\ pending_mutations' = pending
        /\ cur' = evicted
        /\ UNCHANGED <<num_items, max_kicks, chain_room, logVars, pc, result>>
    BY <1>9
  <2>2. PICK p \in others : cur_index' = all[p]
    BY <1>9
  <2>3. cur_index' \in Buckets /\ FreeSlots(kicked, cur_index') = {}
    BY <1>6, <1>9, <2>2 DEF Open, Tuples
  <2> HIDE DEF final, open, pending, kicked, all, evicted
  <2>4. [loc |-> loc, entry |-> evicted] \in Stashed
    BY <1>2 DEF Stashed
  <2>5. TypeOK'
    BY <1>1, <1>2, <1>4, <1>5, <2>1, <2>3, <2>4, SizeAssumption DEF IInv, TypeOK, logVars
  <2>6. CountMatchesTable' /\ EmptySlotsAreZero'
    BY <1>4, <1>7, <2>1 DEF IInv, CountMatchesTable, EmptySlotsAreZero
  <2>7. KicksOnlyFullBuckets' /\ ChainOnlyInInsert' /\ RoomForBudget'
    <3>1. chain' # <<>> /\ Last(chain') = [loc |-> loc, entry |-> evicted]
      <4>1. chain \in Seq(Stashed)
        BY DEF IInv, TypeOK
      <4> DEFINE e == [loc |-> loc, entry |-> evicted]
      <4> HIDE DEF e
      <4>2. chain' = Append(chain, e) /\ e \in Stashed
        BY <2>1, <2>4 DEF e
      <4>3. Len(chain') = Len(chain) + 1 /\ chain'[Len(chain) + 1] = e /\ Len(chain) \in Nat
        BY <4>1, <4>2
      <4>4. chain' # <<>> /\ Last(chain') = e
        BY <4>3 DEF Last
      <4> QED
        BY <4>4 DEF e
    <3>2. cur_index' \in Range(AllIndices[<<cur_index, evicted.fp>>])
      BY <1>6, <2>2 DEF Range, Tuples, all
    <3>3. Last(chain').entry = evicted /\ Last(chain').loc[1] = cur_index
      BY <3>1
    <3>4. /\ cur'.fp # 0 /\ cur' = Last(chain').entry
          /\ cur_index' \in Range(AllIndices[<<Last(chain').loc[1], cur'.fp>>])
      BY <1>3, <2>1, <3>2, <3>3, Zenon
    <3>5. FreeSlots(table', cur_index') = {}
      BY <2>1, <2>3
    <3> QED
      BY <1>1, <2>1, <3>1, <3>4, <3>5
      DEF KicksOnlyFullBuckets, FreeSlots, ChainOnlyInInsert, RoomForBudget
  <2>8. ChainOccupied'
    <3> SUFFICES ASSUME NEW i \in 1 .. Len(chain')
                 PROVE  chain'[i].entry.fp # 0 /\ table'[chain'[i].loc].fp # 0
      BY DEF ChainOccupied
    <3>1. chain \in Seq(Stashed)
      BY DEF IInv, TypeOK
    <3>2. i \in 1 .. Len(chain) \/ (i = Len(chain) + 1 /\ chain'[i] = [loc |-> loc, entry |-> evicted])
      BY <2>1, <2>4, <3>1
    <3>3. i \in 1 .. Len(chain) => chain'[i] = chain[i] /\ chain[i].loc \in Locs
      <4>1. i \in 1 .. Len(chain) => chain'[i] = chain[i]
        BY <2>1, <2>4, <3>1
      <4>2. i \in 1 .. Len(chain) => chain[i] \in Stashed
        BY <3>1
      <4> QED
        BY <4>1, <4>2 DEF Stashed
    <3>4. \A l \in Locs : table[l].fp # 0 => table'[l].fp # 0
      BY <1>2, <1>3, <2>1 DEF kicked
    <3>5. evicted.fp # 0 /\ table'[loc].fp # 0
      BY <1>2, <1>3, <3>4 DEF evicted
    <3>6. i \in 1 .. Len(chain) => chain[i].entry.fp # 0 /\ table[chain[i].loc].fp # 0
      BY DEF IInv, ChainOccupied
    <3>7. CASE i \in 1 .. Len(chain)
      BY <3>3, <3>4, <3>6, <3>7
    <3>8. CASE chain'[i] = [loc |-> loc, entry |-> evicted]
      <4>1. chain'[i].loc = loc /\ chain'[i].entry = evicted
        BY <3>8
      <4> QED
        BY <3>5, <4>1, Zenon
    <3> QED
      BY <3>2, <3>7, <3>8
  <2> QED
    BY <2>5, <2>6, <2>7, <2>8 DEF IInv
<1> QED
  BY <1>8, <1>9

\* The last stashed entry and its slot.
LEMMA LastOfChain ==
  ASSUME IInv, chain # <<>>
  PROVE  /\ Len(chain) \in Nat \ {0}
         /\ Last(chain).loc \in Locs
         /\ Last(chain).entry \in Entries
         /\ Last(chain).entry.fp # 0
         /\ table[Last(chain).loc].fp # 0
         /\ Front(chain) \in Seq(Stashed)
         /\ Len(Front(chain)) = Len(chain) - 1
         /\ \A i \in 1 .. Len(chain) - 1 : Front(chain)[i] = chain[i]
<1>1. chain \in Seq(Stashed) /\ Len(chain) \in Nat \ {0}
  BY DEF IInv, TypeOK
<1>2. Last(chain) \in Stashed
  BY <1>1 DEF Last
<1>3. /\ Front(chain) \in Seq(Stashed)
      /\ Len(Front(chain)) = Len(chain) - 1
      /\ \A i \in 1 .. Len(chain) - 1 : Front(chain)[i] = chain[i]
  <2> DEFINE n == Len(chain) - 1
             front == SubSeq(chain, 1, n)
  <2>1. n \in Nat /\ 1 \in Int /\ n \in Int
    BY <1>1
  <2>2. \A i \in 1 .. n : chain[i] \in Stashed
    BY <1>1
  <2>3. Front(chain) = front
    BY DEF Front
  <2> HIDE DEF n
  <2>4. /\ front \in Seq(Stashed)
        /\ Len(front) = IF 1 <= n THEN n - 1 + 1 ELSE 0
        /\ \A i \in 1 .. n - 1 + 1 : front[i] = chain[1 + i - 1]
    BY <2>1, <2>2, SubSeqProperties
  <2> HIDE DEF front
  <2>5. Len(front) = n /\ \A i \in 1 .. n : front[i] = chain[i]
    BY <2>1, <2>4
  <2> QED
    BY <2>3, <2>4, <2>5 DEF n
<1> QED
  BY <1>1, <1>2, <1>3 DEF Last, Stashed, IInv, ChainOccupied

LEMMA RollbackSlotIInv ==
  ASSUME IInv, RollbackSlot
  PROVE  IInv'
<1> DEFINE loc == Last(chain).loc
           entry == Last(chain).entry
<1>1. /\ pc = "rollback" /\ chain # <<>>
      /\ table' = [table EXCEPT ![loc] = entry]
      /\ chain' = Front(chain)
      /\ UNCHANGED <<num_items, max_kicks, chain_room, logVars, cur, cur_index,
                     pending_mutations, pc, result>>
  BY DEF RollbackSlot
<1>2. /\ loc \in Locs /\ entry \in Entries /\ entry.fp # 0 /\ table[loc].fp # 0
      /\ table \in [Locs -> Entries]
  BY <1>1, LastOfChain DEF IInv, TypeOK
<1>3. TypeOK'
  <2>1. chain' \in Seq(Stashed) /\ Len(chain') <= chain_room
    <3>1. chain_room \in Nat
      BY DEF IInv, TypeOK
    <3> QED
      BY <1>1, <3>1, LastOfChain DEF IInv, TypeOK
  <2> HIDE DEF loc, entry
  <2> QED
    BY <1>1, <1>2, <2>1 DEF IInv, TypeOK, logVars
<1>4. CountMatchesTable'
  <2>1. Occupied(table') = Occupied(table)
    BY <1>1, <1>2, SwapKeepsOccupied
  <2> QED
    BY <1>1, <2>1 DEF IInv, CountMatchesTable
<1>5. EmptySlotsAreZero'
  BY <1>1, <1>2 DEF IInv, EmptySlotsAreZero
<1>6. ChainOccupied'
  <2> SUFFICES ASSUME NEW i \in 1 .. Len(chain')
               PROVE  chain'[i].entry.fp # 0 /\ table'[chain'[i].loc].fp # 0
    BY DEF ChainOccupied
  <2>1. i \in 1 .. Len(chain) /\ chain'[i] = chain[i] /\ chain[i] \in Stashed
    <3>1. chain \in Seq(Stashed)
      BY DEF IInv, TypeOK
    <3>2. i \in 1 .. Len(chain) - 1 /\ Len(chain) \in Nat
      BY <1>1, LastOfChain
    <3>3. i \in 1 .. Len(chain)
      BY <3>2
    <3> QED
      BY <1>1, <3>1, <3>2, <3>3, LastOfChain
  <2>2. chain[i].loc \in Locs
    BY <2>1 DEF Stashed
  <2>3. chain[i].entry.fp # 0 /\ table[chain[i].loc].fp # 0
    BY <2>1 DEF IInv, ChainOccupied
  <2> HIDE DEF loc, entry
  <2> QED
    BY <1>1, <1>2, <2>1, <2>2, <2>3
<1> QED
  BY <1>1, <1>3, <1>4, <1>5, <1>6 DEF IInv, KicksOnlyFullBuckets, ChainOnlyInInsert, RoomForBudget

LEMMA DeleteIInv ==
  ASSUME IInv, NEW k \in Keys, Delete(k)
  PROVE  IInv'
<1> DEFINE loc == FirstMatch(table, k)
<1>1. pc = "ready" /\ UNCHANGED <<max_kicks, chain_room, log_enabled, known, chain, cur_index,
                                   pending_mutations, pc>>
  BY DEF Delete, CanCall
<1>2. CASE Contain(k)
  <2>1. /\ table' = [table EXCEPT ![loc] = Empty]
        /\ mutation_log' = Logged(<<Write(loc, table[loc], Empty)>>)
        /\ num_items' = num_items - 1
        /\ cur' = Empty
        /\ result' = "Ok"
    <3>1. Cleared(cur.val) = Empty
      BY LeftType DEF IInv, TypeOK, Entries
    <3> QED
      BY <1>2, <3>1 DEF Delete
  <2>2. /\ loc \in Locs /\ table[loc].fp # 0
        /\ table \in [Locs -> Entries] /\ table[loc] \in Entries
    BY <1>2, FirstMatchHolds, HashType, DataAssumption DEF Contain, IInv, TypeOK
  <2> HIDE DEF loc
  <2>3. mutation_log' \in Seq(Mutations)
    <3>1. Write(loc, table[loc], Empty) \in Mutations
      BY <2>2, EmptyIsEntry, WriteType
    <3>2. <<Write(loc, table[loc], Empty)>> \in Seq(Mutations)
      BY <3>1
    <3> QED
      BY <2>1, <3>2, LoggedType DEF IInv
  <2>4. CountMatchesTable'
    BY <2>1, <2>2, EmptyIsEntry, ClearCounts DEF IInv, CountMatchesTable
  <2>5. num_items' \in Nat
    BY <2>4, OccupiedFinite DEF CountMatchesTable
  <2>6. TypeOK'
    BY <1>1, <2>1, <2>2, <2>3, <2>5, EmptyIsEntry DEF IInv, TypeOK, Results
  <2>7. EmptySlotsAreZero'
    BY <2>1, <2>2 DEF IInv, EmptySlotsAreZero
  <2> QED
    BY <1>1, <2>4, <2>6, <2>7
    DEF IInv, KicksOnlyFullBuckets, ChainOccupied, ChainOnlyInInsert, RoomForBudget
<1>3. CASE ~Contain(k)
  <2>1. result' = "NotFound" /\ UNCHANGED <<table, num_items, cur, mutation_log>>
    BY <1>3 DEF Delete
  <2> QED
    BY <1>1, <2>1 DEF IInv, TypeOK, CountMatchesTable, EmptySlotsAreZero,
         KicksOnlyFullBuckets, FreeSlots, ChainOccupied, ChainOnlyInInsert, RoomForBudget, Results
<1> QED
  BY <1>2, <1>3

LEMMA UpdateIInv ==
  ASSUME IInv, NEW k \in Keys, NEW v \in Values, Update(k, v)
  PROVE  IInv'
<1> DEFINE loc == FirstMatch(table, k)
           new == [table[loc] EXCEPT !.val = v]
<1>1. /\ pc = "ready" /\ cur' \in Entries
      /\ UNCHANGED <<num_items, max_kicks, chain_room, log_enabled, known, chain, cur_index,
                     pending_mutations, pc>>
  BY LeftType DEF Update, CanCall
<1>2. CASE Contain(k)
  <2>1. /\ table' = [table EXCEPT ![loc] = new]
        /\ mutation_log' = Logged(<<Write(loc, table[loc], new)>>)
        /\ result' = "Ok"
    BY <1>2 DEF Update
  <2>2. /\ loc \in Locs /\ table[loc].fp # 0
        /\ table \in [Locs -> Entries] /\ table[loc] \in Entries
    BY <1>2, FirstMatchHolds, HashType, DataAssumption DEF Contain, IInv, TypeOK
  <2>3. new \in Entries /\ new.fp # 0
    BY <2>2 DEF Entries
  <2> HIDE DEF loc, new
  <2>4. mutation_log' \in Seq(Mutations)
    <3>1. Write(loc, table[loc], new) \in Mutations
      BY <2>2, <2>3, WriteType
    <3>2. <<Write(loc, table[loc], new)>> \in Seq(Mutations)
      BY <3>1
    <3> QED
      BY <2>1, <3>2, LoggedType DEF IInv
  <2>5. TypeOK'
    BY <1>1, <2>1, <2>2, <2>3, <2>4 DEF IInv, TypeOK, Results
  <2>6. CountMatchesTable'
    <3>1. Occupied(table') = Occupied(table)
      BY <2>1, <2>2, <2>3, SwapKeepsOccupied
    <3> QED
      BY <1>1, <3>1 DEF IInv, CountMatchesTable
  <2>7. EmptySlotsAreZero'
    BY <2>1, <2>2, <2>3 DEF IInv, EmptySlotsAreZero
  <2> QED
    BY <1>1, <2>5, <2>6, <2>7
    DEF IInv, KicksOnlyFullBuckets, ChainOccupied, ChainOnlyInInsert, RoomForBudget
<1>3. CASE ~Contain(k)
  <2>1. result' = "NotFound" /\ UNCHANGED <<table, mutation_log>>
    BY <1>3 DEF Update
  <2> QED
    BY <1>1, <2>1 DEF IInv, TypeOK, CountMatchesTable, EmptySlotsAreZero,
         KicksOnlyFullBuckets, FreeSlots, ChainOccupied, ChainOnlyInInsert, RoomForBudget, Results
<1> QED
  BY <1>2, <1>3

\* A fresh store has room for the chain of its default budget.
LEMMA FreshRoom ==
  ASSUME IInv, FromCells
  PROVE  Len(chain') <= chain_room' /\ max_kicks' \in KickBudgets /\ chain_room' \in Nat
<1>1. chain' = <<>> /\ chain_room' = DefaultMaxKicks /\ max_kicks' = DefaultMaxKicks
  BY DEF FromCells, IInv, ChainOnlyInInsert
<1>2. DefaultMaxKicks \in KickBudgets /\ DefaultMaxKicks \in Nat
  BY SizeAssumption
<1>3. Len(<<>>) <= DefaultMaxKicks
  BY <1>2
<1> QED
  BY <1>1, <1>2, <1>3

\* A new budget makes room for its chain before the next call.
LEMMA NewRoom ==
  ASSUME IInv, NEW n \in KickBudgets, SetMaxKicks(n)
  PROVE  Len(chain) <= n
<1>1. chain = <<>> /\ n \in Nat
  BY SizeAssumption DEF SetMaxKicks, IInv, ChainOnlyInInsert
<1> QED
  BY <1>1

\* The steps that write no slot.
LEMMA QuietIInv ==
  ASSUME IInv,
         \/ KicksExhausted \/ RollbackDone \/ RejectLength
         \/ \E n \in KickBudgets : SetMaxKicks(n)
         \/ EnableMutationLog \/ DisableMutationLog \/ DrainMutations \/ FromCells
         \/ UNCHANGED vars
  PROVE  IInv'
<1>1. UNCHANGED <<table, num_items, chain>>
  BY DEF KicksExhausted, RollbackDone, RejectLength, SetMaxKicks, EnableMutationLog,
         DisableMutationLog, DrainMutations, FromCells, scratch, vars
<1>2. CountMatchesTable' /\ EmptySlotsAreZero' /\ ChainOccupied'
  BY <1>1 DEF IInv, CountMatchesTable, EmptySlotsAreZero, ChainOccupied
<1>3. TypeOK' /\ KicksOnlyFullBuckets' /\ ChainOnlyInInsert' /\ RoomForBudget'
  <2> USE DEF IInv, TypeOK, KicksOnlyFullBuckets, FreeSlots, ChainOnlyInInsert, RoomForBudget
  <2>1. EmptyTable \in [Locs -> Entries]
    BY EmptyIsEntry DEF EmptyTable
  <2>2. DefaultMaxKicks \in KickBudgets /\ KickBudgets \subseteq Nat
    BY SizeAssumption
  <2>3. CASE KicksExhausted
    BY <2>3 DEF KicksExhausted, scratch, logVars
  <2>4. CASE RollbackDone
    <3>1. 0 \in Buckets
      BY SizeAssumption DEF Buckets
    <3>2. <<>> \in Seq(Mutations)
      OBVIOUS
    <3> QED
      BY <2>4, <3>1, <3>2, LeftType DEF RollbackDone, logVars, Results, Entries
  <2>5. CASE RejectLength
    BY <2>5 DEF RejectLength, CanCall, scratch, logVars, Results
  <2>6. CASE \E n \in KickBudgets : SetMaxKicks(n)
    <3>1. PICK n \in KickBudgets : SetMaxKicks(n)
      BY <2>6
    <3>2. n \in Nat
      BY <2>2
    <3>3. Len(chain) <= n
      BY <3>1, NewRoom
    <3> QED
      BY <3>1, <3>2, <3>3 DEF SetMaxKicks, RoomFor, scratch, logVars
  <2>7. CASE EnableMutationLog
    BY <2>7 DEF EnableMutationLog, scratch
  <2>8. CASE DisableMutationLog
    <3>1. mutation_log' \in Seq(Mutations) /\ known' \in [Locs -> Entries]
      BY <2>1, <2>8 DEF DisableMutationLog
    <3> QED
      BY <2>8, <3>1 DEF DisableMutationLog, scratch
  <2>9. CASE DrainMutations
    BY <2>9 DEF DrainMutations, scratch
  <2>10. CASE FromCells
    <3>1. Len(chain') <= chain_room' /\ max_kicks' \in KickBudgets /\ chain_room' \in Nat
      BY <2>10, FreshRoom
    <3>2. mutation_log' \in Seq(Mutations) /\ known' \in [Locs -> Entries]
      BY <2>1, <2>10 DEF FromCells
    <3> QED
      BY <2>10, <3>1, <3>2, EmptyIsEntry DEF FromCells
  <2>11. CASE UNCHANGED vars
    BY <2>11 DEF vars, scratch, logVars
  <2> QED
    BY <2>3, <2>4, <2>5, <2>6, <2>7, <2>8, <2>9, <2>10, <2>11
<1> QED
  BY <1>2, <1>3 DEF IInv

LEMMA NextIInv == IInv /\ [Next]_vars => IInv'
<1> SUFFICES ASSUME IInv, [Next]_vars PROVE IInv'
  OBVIOUS
<1>1. ASSUME NEW k \in Keys, NEW v \in Values, Insert(k, v) PROVE IInv'
  BY <1>1, InsertDirectIInv, InsertStartsKickingIInv DEF Insert
<1>2. ASSUME NEW k \in Keys, NEW v \in Values, Update(k, v) PROVE IInv'
  BY <1>2, UpdateIInv
<1>3. ASSUME NEW k \in Keys, Delete(k) PROVE IInv'
  BY <1>3, DeleteIInv
<1>4. CASE Kick
  BY <1>4, KickIInv
<1>5. CASE RollbackSlot
  BY <1>5, RollbackSlotIInv
<1> QED
  BY <1>1, <1>2, <1>3, <1>4, <1>5, QuietIInv DEF Next, InsertLoop

-----------------------------------------------------------------------------
(* Theorems.                                                               *)

\* The inductive invariant holds in every reachable state.
THEOREM Invariance == Spec => []IInv
BY InitIInv, NextIInv, PTL DEF Spec

\* Every variable of the store keeps its type, and a kick chain never
\* outgrows the buffer for the values it evicts, which set_max_kicks resizes.
THEOREM TypeCorrect == Spec => []TypeOK
<1>1. IInv => TypeOK
  BY DEF IInv
<1> QED
  BY <1>1, Invariance, PTL

\* num_items counts the occupied slots at every step of every call.
THEOREM CountCorrect == Spec => []CountMatchesTable
<1>1. IInv => CountMatchesTable
  BY DEF IInv
<1> QED
  BY <1>1, Invariance, PTL

\* Empty slots hold zero cells at every step of every call.
THEOREM EmptySlotsCorrect == Spec => []EmptySlotsAreZero
<1>1. IInv => EmptySlotsAreZero
  BY DEF IInv
<1> QED
  BY <1>1, Invariance, PTL

\* The kick loop never evicts an empty slot, and kicks a candidate bucket of
\* the entry in flight.
THEOREM KicksCorrect == Spec => []KicksOnlyFullBuckets
<1>1. IInv => KicksOnlyFullBuckets
  BY DEF IInv
<1> QED
  BY <1>1, Invariance, PTL

-----------------------------------------------------------------------------
(* Taking a kick chain back.                                               *)

LEMMA MinIsUnique ==
  ASSUME NEW S, S \subseteq Nat, NEW m \in S, \A y \in S : m <= y
  PROVE  Min(S) = m
<1>1. Min(S) \in S /\ Min(S) <= m /\ m <= Min(S)
  BY MinOfNaturals
<1>2. Min(S) \in Nat /\ m \in Nat
  BY <1>1
<1> QED
  BY <1>1, <1>2

LEMMA MinOfSingleton ==
  ASSUME NEW m \in Nat
  PROVE  Min({m}) = m
<1>1. {m} \subseteq Nat /\ m \in {m} /\ \A y \in {m} : m <= y
  OBVIOUS
<1> QED
  BY <1>1, MinIsUnique

\* A stash added at the end of the chain does not become the first of a slot.
LEMMA FirstStashStays ==
  ASSUME NEW c \in Seq(Stashed), NEW d \in Seq(Stashed), NEW l \in Locs,
         Len(d) = Len(c) + 1, \A i \in 1 .. Len(c) : d[i] = c[i],
         Stashes(c, l) # {}
  PROVE  /\ Stashes(d, l) # {}
         /\ d[Min(Stashes(d, l))] = c[Min(Stashes(c, l))]
<1> DEFINE m == Min(Stashes(c, l))
<1>1. Len(c) \in Nat
  OBVIOUS
<1>2. Stashes(c, l) \subseteq Nat /\ Stashes(d, l) \subseteq Nat
  BY <1>1 DEF Stashes
<1>3. m \in Stashes(c, l) /\ \A i \in Stashes(c, l) : m <= i
  BY <1>2, MinOfNaturals
<1> HIDE DEF m
<1>4. m \in 1 .. Len(c) /\ m \in Stashes(d, l)
  BY <1>1, <1>3 DEF Stashes
<1>5. \A i \in Stashes(d, l) : m <= i
  BY <1>1, <1>3, <1>4 DEF Stashes
<1>6. Min(Stashes(d, l)) = m
  BY <1>2, <1>4, <1>5, MinIsUnique
<1> QED
  BY <1>4, <1>6 DEF m

\* A kick writes a slot and stashes what the slot held: taken back, the
\* table is the one before it.
LEMMA KickTakenBack ==
  ASSUME NEW tbl \in [Locs -> Entries], NEW c \in Seq(Stashed),
         NEW loc \in Locs, NEW new \in Entries
  PROVE  TakenBack([tbl EXCEPT ![loc] = new],
                   Append(c, [loc |-> loc, entry |-> tbl[loc]])) = TakenBack(tbl, c)
<1> DEFINE e == [loc |-> loc, entry |-> tbl[loc]]
           d == Append(c, e)
           after == [tbl EXCEPT ![loc] = new]
<1>1. e \in Stashed
  BY DEF Stashed
<1>2. e.loc = loc /\ e.entry = tbl[loc]
  OBVIOUS
<1> HIDE DEF e
<1>3. /\ d \in Seq(Stashed) /\ Len(c) \in Nat /\ Len(d) = Len(c) + 1
      /\ \A i \in 1 .. Len(c) : d[i] = c[i]
      /\ d[Len(c) + 1] = e
  BY <1>1
<1> HIDE DEF d
<1>4. ASSUME NEW l \in Locs
      PROVE  TakenBack(after, d)[l] = TakenBack(tbl, c)[l]
  <2>1. CASE Stashes(c, l) # {}
    BY <1>3, <2>1, FirstStashStays DEF TakenBack
  <2>2. CASE Stashes(c, l) = {} /\ l = loc
    <3>1. Stashes(d, l) = {Len(c) + 1}
      BY <1>2, <1>3, <2>2 DEF Stashes
    <3>2. Min(Stashes(d, l)) = Len(c) + 1
      <4>1. Len(c) + 1 \in Nat
        BY <1>3
      <4> QED
        BY <3>1, <4>1, MinOfSingleton
    <3> QED
      BY <1>2, <1>3, <2>2, <3>1, <3>2 DEF TakenBack
  <2>3. CASE Stashes(c, l) = {} /\ l # loc
    <3>1. Stashes(d, l) = {}
      BY <1>2, <1>3, <2>3 DEF Stashes
    <3> QED
      BY <2>3, <3>1 DEF TakenBack
  <2> QED
    BY <2>1, <2>2, <2>3
<1> QED
  BY <1>4 DEF TakenBack, d, e

\* Restoring the slot of the last kick takes exactly that kick back.
LEMMA RollbackTakenBack ==
  ASSUME NEW tbl \in [Locs -> Entries], NEW c \in Seq(Stashed), c # <<>>,
         NEW d \in Seq(Stashed), Len(d) = Len(c) - 1, \A i \in 1 .. Len(c) - 1 : d[i] = c[i]
  PROVE  TakenBack([tbl EXCEPT ![Last(c).loc] = Last(c).entry], d) = TakenBack(tbl, c)
<1> DEFINE loc == Last(c).loc
           entry == Last(c).entry
           after == [tbl EXCEPT ![loc] = entry]
<1>1. Len(c) \in Nat \ {0} /\ Len(c) = Len(d) + 1 /\ Len(d) \in Nat
  OBVIOUS
<1>2. Last(c) = c[Len(c)] /\ c[Len(c)] \in Stashed
  BY <1>1 DEF Last
<1>3. loc \in Locs /\ entry \in Entries /\ loc = c[Len(c)].loc /\ entry = c[Len(c)].entry
  BY <1>2 DEF Stashed
<1> HIDE DEF loc, entry
<1>4. \A i \in 1 .. Len(d) : c[i] = d[i]
  BY <1>1
<1>5. ASSUME NEW l \in Locs
      PROVE  TakenBack(after, d)[l] = TakenBack(tbl, c)[l]
  <2>1. CASE Stashes(d, l) # {}
    BY <1>1, <1>4, <2>1, FirstStashStays DEF TakenBack
  <2>2. CASE Stashes(d, l) = {} /\ l = loc
    <3>1. Stashes(c, l) = {Len(c)}
      BY <1>1, <1>3, <1>4, <2>2 DEF Stashes
    <3>2. Min(Stashes(c, l)) = Len(c)
      BY <1>1, <3>1, MinOfSingleton
    <3> QED
      BY <1>3, <2>2, <3>1, <3>2 DEF TakenBack
  <2>3. CASE Stashes(d, l) = {} /\ l # loc
    <3>1. Stashes(c, l) = {}
      BY <1>1, <1>3, <1>4, <2>3 DEF Stashes
    <3> QED
      BY <2>3, <3>1 DEF TakenBack
  <2> QED
    BY <2>1, <2>2, <2>3
<1> QED
  BY <1>5 DEF TakenBack, loc, entry

LEMMA KickLeavesNoTrace ==
  ASSUME IInv, Kick, ~(pc' = "ready" /\ result' = "Ok")
  PROVE  Committed' = Committed /\ num_items' = num_items
<1>1. PICK s \in Slots :
        /\ table' = [table EXCEPT ![<<cur_index, s>>] = cur]
        /\ chain' = Append(chain, [loc |-> <<cur_index, s>>, entry |-> table[<<cur_index, s>>]])
        /\ num_items' = num_items
  BY DEF Kick, AllFrom
<1>2. <<cur_index, s>> \in Locs /\ cur \in Entries
  BY DEF IInv, TypeOK, Locs
<1>3. table \in [Locs -> Entries] /\ chain \in Seq(Stashed)
  BY DEF IInv, TypeOK
<1>4. TakenBack(table', chain') = TakenBack(table, chain)
  BY <1>1, <1>2, <1>3, KickTakenBack
<1> QED
  BY <1>1, <1>4 DEF Committed, TakenBack, Stashes

LEMMA RollbackLeavesNoTrace ==
  ASSUME IInv, RollbackSlot
  PROVE  Committed' = Committed /\ num_items' = num_items
<1>1. /\ chain # <<>>
      /\ table' = [table EXCEPT ![Last(chain).loc] = Last(chain).entry]
      /\ chain' = Front(chain)
      /\ num_items' = num_items
  BY DEF RollbackSlot
<1>2. /\ chain' \in Seq(Stashed) /\ Len(chain') = Len(chain) - 1
      /\ \A i \in 1 .. Len(chain) - 1 : chain'[i] = chain[i]
  BY <1>1, LastOfChain
<1>3. table \in [Locs -> Entries] /\ chain \in Seq(Stashed)
  BY DEF IInv, TypeOK
<1>4. TakenBack(table', chain') = TakenBack(table, chain)
  BY <1>1, <1>2, <1>3, RollbackTakenBack
<1> QED
  BY <1>1, <1>4 DEF Committed, TakenBack, Stashes

LEMMA StepLeavesNoTrace ==
  ASSUME IInv, [Next]_vars, ~(pc' = "ready" /\ result' = "Ok")
  PROVE  Committed' = Committed /\ num_items' = num_items
<1> DEFINE Quiet == UNCHANGED <<table, num_items, chain>>
<1>1. Quiet => Committed' = Committed /\ num_items' = num_items
  BY DEF Committed, TakenBack, Stashes
<1>2. ASSUME NEW k \in Keys, NEW v \in Values, Insert(k, v) PROVE Quiet
  <2>1. ~InsertDirect(k, v)
    BY DEF InsertDirect, CanCall
  <2>2. InsertStartsKicking(k, v)
    BY <1>2, <2>1 DEF Insert
  <2> QED
    BY <2>2 DEF InsertStartsKicking, CanCall, IInv, ChainOnlyInInsert
<1>3. ASSUME NEW k \in Keys, NEW v \in Values, Update(k, v) PROVE Quiet
  BY <1>3 DEF Update, CanCall, scratch
<1>4. ASSUME NEW k \in Keys, Delete(k) PROVE Quiet
  BY <1>4 DEF Delete, CanCall, scratch
<1>5. CASE Kick
  BY <1>5, KickLeavesNoTrace
<1>6. CASE RollbackSlot
  BY <1>6, RollbackLeavesNoTrace
<1>7. CASE KicksExhausted \/ RollbackDone \/ RejectLength
  BY <1>1, <1>7 DEF KicksExhausted, RollbackDone, RejectLength, scratch
<1>8. CASE \/ \E n \in KickBudgets : SetMaxKicks(n)
           \/ EnableMutationLog \/ DisableMutationLog \/ DrainMutations \/ FromCells
           \/ UNCHANGED vars
  BY <1>1, <1>8 DEF SetMaxKicks, EnableMutationLog, DisableMutationLog, DrainMutations,
                    FromCells, scratch, vars
<1> QED
  BY <1>1, <1>2, <1>3, <1>4, <1>5, <1>6, <1>7, <1>8 DEF Next, InsertLoop

\* A call that does not succeed leaves the table and the count as it found
\* them, however long its kick chain was and however often it kicked a slot.
THEOREM NoTrace == Spec => FailedCallLeavesNoTrace
<1>1. IInv /\ [Next]_vars =>
        [~(pc' = "ready" /\ result' = "Ok") =>
            Committed' = Committed /\ num_items' = num_items]_vars
  BY StepLeavesNoTrace
<1> QED
  BY <1>1, Invariance, PTL DEF Spec, FailedCallLeavesNoTrace

-----------------------------------------------------------------------------
(* The log of slot writes.                                                *)

\* Max picks the greatest element of a non-empty set of naturals that has a bound.
LEMMA MaxOfNaturals ==
  ASSUME NEW S, S \subseteq Nat, S # {}, NEW n \in Nat, \A y \in S : y <= n
  PROVE  Max(S) \in S /\ \A y \in S : y <= Max(S)
<1> DEFINE T == {u \in Nat : \A y \in S : y <= u}
           m == Min(T)
<1>1. m \in T /\ \A u \in T : m <= u
  <2>1. T \subseteq Nat /\ n \in T
    OBVIOUS
  <2> QED
    BY <2>1, MinOfNaturals
<1> HIDE DEF m
<1>2. m \in S
  <2> SUFFICES ASSUME m \notin S PROVE FALSE
    OBVIOUS
  <2>1. m \in Nat /\ \A y \in S : y \in Nat /\ y <= m - 1
    BY <1>1
  <2>2. PICK y \in S : y \in Nat /\ y <= m - 1
    BY <2>1
  <2>3. m - 1 \in Nat
    BY <2>1, <2>2
  <2>4. m - 1 \in T /\ ~(m <= m - 1)
    BY <2>1, <2>3
  <2> QED
    BY <1>1, <2>4
<1>3. \A y \in S : m >= y
  BY <1>1
<1> QED
  BY <1>2, <1>3 DEF Max

\* The greatest element is the one Max picks.
LEMMA MaxIsUnique ==
  ASSUME NEW S, S \subseteq Nat, NEW m \in S, \A y \in S : y <= m
  PROVE  Max(S) = m
<1>1. Max(S) \in S /\ Max(S) <= m /\ m <= Max(S)
  BY MaxOfNaturals
<1>2. Max(S) \in Nat /\ m \in Nat
  BY <1>1
<1> QED
  BY <1>1, <1>2

\* The writes of log to slot l.
WritesOf(log, l) == {i \in 1 .. Len(log) : log[i].loc = l}

\* The logged writes of each slot lead from one table to another.
Telescopes(from, log, to) ==
  \A l \in Locs :
    LET ws == WritesOf(log, l)
    IN  /\ ws = {} => from[l] = to[l]
        /\ ws # {} => log[Min(ws)].old = from[l] /\ log[Max(ws)].new = to[l]
        /\ \A i, j \in ws :
             (i < j /\ \A m \in ws : ~(i < m /\ m < j)) => log[j].old = log[i].new

\* The writes to a slot, the first and the last of them.
LEMMA WritesType ==
  ASSUME NEW log \in Seq(Mutations), NEW l
  PROVE  /\ Len(log) \in Nat
         /\ WritesOf(log, l) \subseteq Nat
         /\ \A i \in WritesOf(log, l) : i \in 1 .. Len(log) /\ log[i] \in Mutations /\ log[i].loc = l
         /\ WritesOf(log, l) # {} =>
              /\ Min(WritesOf(log, l)) \in WritesOf(log, l)
              /\ \A i \in WritesOf(log, l) : Min(WritesOf(log, l)) <= i
              /\ Max(WritesOf(log, l)) \in WritesOf(log, l)
              /\ \A i \in WritesOf(log, l) : i <= Max(WritesOf(log, l))
<1> DEFINE ws == WritesOf(log, l)
<1>1. /\ Len(log) \in Nat /\ ws \subseteq Nat
      /\ \A i \in ws : i \in 1 .. Len(log) /\ log[i] \in Mutations /\ log[i].loc = l
  BY DEF WritesOf
<1>2. \A i \in ws : i <= Len(log)
  BY <1>1
<1> HIDE DEF ws
<1>3. ws # {} => Min(ws) \in ws /\ \A i \in ws : Min(ws) <= i
  BY <1>1, MinOfNaturals
<1>4. ws # {} => Max(ws) \in ws /\ \A i \in ws : i <= Max(ws)
  BY <1>1, <1>2, MaxOfNaturals
<1> QED
  BY <1>1, <1>3, <1>4 DEF ws

\* An empty log leads nowhere.
LEMMA TelescopesEmpty ==
  ASSUME NEW tbl
  PROVE  Telescopes(tbl, <<>>, tbl)
BY DEF Telescopes, WritesOf

\* A write of the entry that is there extends the log.
LEMMA TelescopesAppend ==
  ASSUME NEW from \in [Locs -> Entries], NEW to \in [Locs -> Entries],
         NEW log \in Seq(Mutations), NEW m \in Mutations,
         Telescopes(from, log, to), m.old = to[m.loc]
  PROVE  Telescopes(from, Append(log, m), [to EXCEPT ![m.loc] = m.new])
<1> DEFINE longer == Append(log, m)
           after  == [to EXCEPT ![m.loc] = m.new]
           n      == Len(log)
<1>1. /\ longer \in Seq(Mutations) /\ n \in Nat /\ Len(longer) = n + 1
      /\ \A i \in 1 .. n : longer[i] = log[i]
      /\ longer[n + 1] = m
  OBVIOUS
<1>2. m.loc \in Locs /\ m.old \in Entries /\ m.new \in Entries
  BY DEF Mutations
<1> HIDE DEF longer
<1> SUFFICES ASSUME NEW l \in Locs
    PROVE  LET ws == WritesOf(longer, l)
           IN  /\ ws = {} => from[l] = after[l]
               /\ ws # {} => longer[Min(ws)].old = from[l] /\ longer[Max(ws)].new = after[l]
               /\ \A i, j \in ws :
                    (i < j /\ \A k \in ws : ~(i < k /\ k < j)) => longer[j].old = longer[i].new
  BY DEF Telescopes, longer
<1> DEFINE was == WritesOf(log, l)
           ws  == WritesOf(longer, l)
<1>3. /\ was = {} => from[l] = to[l]
      /\ was # {} => log[Min(was)].old = from[l] /\ log[Max(was)].new = to[l]
      /\ \A i, j \in was :
           (i < j /\ \A k \in was : ~(i < k /\ k < j)) => log[j].old = log[i].new
  BY DEF Telescopes
<1>4. /\ was \subseteq Nat /\ \A i \in was : i \in 1 .. n /\ longer[i] = log[i]
      /\ was # {} => /\ Min(was) \in was /\ \A i \in was : Min(was) <= i
                     /\ Max(was) \in was /\ \A i \in was : i <= Max(was)
  BY <1>1, WritesType
<1>5. CASE l # m.loc
  <2>1. ws = was
    BY <1>1, <1>5 DEF WritesOf
  <2>2. after[l] = to[l]
    BY <1>5
  <2> HIDE DEF was, ws, after
  <2>3. ws # {} => longer[Min(ws)].old = from[l] /\ longer[Max(ws)].new = after[l]
    BY <1>3, <1>4, <2>1, <2>2
  <2>4. ASSUME NEW i \in ws, NEW j \in ws, i < j, \A k \in ws : ~(i < k /\ k < j)
        PROVE  longer[j].old = longer[i].new
    BY <1>3, <1>4, <2>1, <2>4
  <2> QED
    BY <1>3, <2>1, <2>2, <2>3, <2>4 DEF ws
<1>6. CASE l = m.loc
  <2>1. ws = was \cup {n + 1}
    BY <1>1, <1>6 DEF WritesOf
  <2>2. after[l] = m.new
    BY <1>2, <1>6
  <2> HIDE DEF was, ws, after, n
  <2>3. ws \subseteq Nat /\ n + 1 \in ws /\ \A i \in was : i <= n
    BY <1>1, <1>4, <2>1
  <2>4. Max(ws) = n + 1
    <3>1. \A i \in ws : i <= n + 1
      BY <1>1, <1>4, <2>1, <2>3
    <3> QED
      BY <2>3, <3>1, MaxIsUnique
  <2>5. longer[Min(ws)].old = from[l]
    <3>1. CASE was = {}
      <4>1. ws = {n + 1} /\ n + 1 \in Nat
        BY <1>1, <2>1, <3>1
      <4>2. Min(ws) = n + 1
        BY <4>1, MinOfSingleton
      <4> QED
        BY <1>1, <1>3, <1>6, <3>1, <4>2
    <3>2. CASE was # {}
      <4>0. Min(was) \in was /\ Min(was) <= n /\ Min(was) \in Nat
        BY <1>4, <2>3, <3>2
      <4>1. Min(was) \in ws /\ \A i \in ws : Min(was) <= i
        BY <1>1, <1>4, <2>1, <3>2, <4>0
      <4>2. Min(ws) = Min(was)
        BY <2>3, <4>1, MinIsUnique
      <4> QED
        BY <1>3, <1>4, <3>2, <4>2
    <3> QED
      BY <3>1, <3>2
  <2>6. ASSUME NEW i \in ws, NEW j \in ws, i < j, \A k \in ws : ~(i < k /\ k < j)
        PROVE  longer[j].old = longer[i].new
    <3>1. i \in was
      BY <1>1, <1>4, <2>1, <2>3, <2>6
    <3>2. CASE j \in was
      BY <1>3, <1>4, <2>1, <2>6, <3>1, <3>2
    <3>3. CASE j = n + 1
      <4>1. Max(was) = i
        <5>1. ~(i < Max(was) /\ Max(was) < j)
          BY <1>4, <2>1, <2>6, <3>1
        <5>2. Max(was) \in Nat /\ Max(was) <= n /\ i <= Max(was) /\ i \in Nat /\ n \in Nat
          BY <1>1, <1>4, <2>3, <3>1
        <5> QED
          BY <3>3, <5>1, <5>2
      <4> QED
        BY <1>1, <1>3, <1>4, <1>6, <3>1, <3>3, <4>1
    <3> QED
      BY <2>1, <3>2, <3>3
  <2> QED
    BY <1>1, <2>2, <2>3, <2>4, <2>5, <2>6 DEF ws
<1> QED
  BY <1>5, <1>6

\* What the writes of a log that are numbered in s leave of a table.
LeftBy(tbl, log, s) ==
  [l \in Locs |->
     LET ws == {i \in s : log[i].loc = l}
     IN  IF ws = {} THEN tbl[l] ELSE log[Max(ws)].new]

\* The last of some writes, and the writes before it.
LEMMA WrittenStep ==
  ASSUME NEW tbl \in [Locs -> Entries], NEW log \in Seq(Mutations),
         NEW s \in SUBSET (1 .. Len(log)), s # {}
  PROVE  /\ Max(s) \in s
         /\ LeftBy(tbl, log, s) = ApplyMutation(LeftBy(tbl, log, s \ {Max(s)}), log[Max(s)])
<1> DEFINE x == Max(s)
           m == log[x]
           before == LeftBy(tbl, log, s \ {x})
           after  == LeftBy(tbl, log, s)
<1>1. Len(log) \in Nat /\ s \subseteq Nat /\ \A i \in s : i <= Len(log)
  OBVIOUS
<1>2. x \in s /\ \A i \in s : i <= x
  BY <1>1, MaxOfNaturals
<1>3. m \in Mutations
  <2>1. x \in 1 .. Len(log)
    BY <1>2
  <2> HIDE DEF x
  <2> QED
    BY <2>1
<1>4. m.loc \in Locs
  BY <1>3 DEF Mutations
<1> HIDE DEF x
<1>5. ASSUME NEW l \in Locs
      PROVE  after[l] = [before EXCEPT ![m.loc] = m.new][l]
  <2> DEFINE ws  == {i \in s : log[i].loc = l}
             was == {i \in s \ {x} : log[i].loc = l}
  <2>1. CASE l # m.loc
    <3>1. ws = was
      BY <2>1
    <3> QED
      BY <2>1, <3>1 DEF LeftBy
  <2>2. CASE l = m.loc
    <3>1. x \in ws /\ \A i \in ws : i <= x
      BY <1>2, <2>2
    <3>2. ws \subseteq Nat
      BY <1>1
    <3> HIDE DEF ws
    <3>3. Max(ws) = x
      BY <3>1, <3>2, MaxIsUnique
    <3>4. ws # {}
      BY <3>1
    <3>5. after[l] = m.new
      BY <3>3, <3>4 DEF LeftBy, ws
    <3>6. l \in DOMAIN before
      BY DEF LeftBy
    <3> QED
      BY <2>2, <3>5, <3>6
  <2> QED
    BY <2>1, <2>2
<1>6. /\ after = [l \in Locs |-> after[l]]
      /\ DOMAIN before = Locs
  BY DEF LeftBy
<1>7. [before EXCEPT ![m.loc] = m.new] = [l \in Locs |-> [before EXCEPT ![m.loc] = m.new][l]]
  BY <1>6
<1>8. after = [before EXCEPT ![m.loc] = m.new]
  <2> HIDE DEF before, after, m
  <2> QED
    BY <1>5, <1>6, <1>7
<1> QED
  BY <1>2, <1>8 DEF ApplyMutation, x

\* Replaying a log leaves in each slot the entry of its last write.
LEMMA ReplayIsLastWrite ==
  ASSUME NEW tbl \in [Locs -> Entries], NEW log \in Seq(Mutations)
  PROVE  Replay(tbl, log) = LeftBy(tbl, log, 1 .. Len(log))
<1> DEFINE n    == Len(log)
           F(g) == [s \in SUBSET (1 .. n) |->
                      IF s = {} THEN tbl ELSE ApplyMutation(g[s \ {Max(s)}], log[Max(s)])]
           iter == CHOOSE g : g = F(g)
           closed == [s \in SUBSET (1 .. n) |-> LeftBy(tbl, log, s)]
<1>0. n \in Nat /\ DOMAIN log = 1 .. n
  OBVIOUS
<1>1. Replay(tbl, log) = iter[1 .. n]
  <2>1. Replay(tbl, log) =
          LET it[s \in SUBSET (DOMAIN log)] ==
                IF s = {} THEN tbl ELSE ApplyMutation(it[s \ {Max(s)}], log[Max(s)])
          IN  it[DOMAIN log]
    BY Zenon DEF Replay, FoldLeft, MapThenFoldSet
  <2> QED
    BY <1>0, <2>1, Zenon
<1>2. LeftBy(tbl, log, {}) = tbl
  BY DEF LeftBy
<1>3. closed = F(closed)
  <2>1. ASSUME NEW s \in SUBSET (1 .. n)
        PROVE  closed[s] = F(closed)[s]
    <3>1. s = {} => closed[s] = tbl
      BY <1>2
    <3>2. s # {} => closed[s] = ApplyMutation(closed[s \ {Max(s)}], log[Max(s)])
      BY WrittenStep
    <3> QED
      BY <3>1, <3>2
  <2> QED
    BY <2>1
<1>4. iter = F(iter)
  BY <1>3, Zenon
<1> HIDE DEF iter, n
<1>5. ASSUME NEW k \in 0 .. n
      PROVE  iter[1 .. k] = LeftBy(tbl, log, 1 .. k)
  <2> SUFFICES ASSUME iter[1 .. k] # LeftBy(tbl, log, 1 .. k) PROVE FALSE
    OBVIOUS
  <2> DEFINE bad == {i \in 0 .. n : iter[1 .. i] # LeftBy(tbl, log, 1 .. i)}
             i   == Min(bad)
  <2>1. i \in bad /\ \A j \in bad : i <= j
    <3>1. k \in bad /\ bad \subseteq Nat
      BY <1>0
    <3> HIDE DEF bad
    <3> QED
      BY <3>1, MinOfNaturals
  <2> HIDE DEF i
  <2>2. i # 0
    <3>1. 1 .. 0 = {} /\ {} \in SUBSET (1 .. n)
      OBVIOUS
    <3>2. iter[{}] = tbl
      BY <1>4, <3>1
    <3> QED
      BY <1>2, <2>1, <3>1, <3>2
  <2>3. i \in 1 .. n /\ i - 1 \in 0 .. n /\ ~(i <= i - 1)
    BY <1>0, <2>1, <2>2
  <2>4. /\ 1 .. i \in SUBSET (1 .. n) /\ 1 .. i # {}
        /\ (1 .. i) \ {i} = 1 .. (i - 1)
        /\ 1 .. i \subseteq Nat /\ i \in 1 .. i /\ \A j \in 1 .. i : j <= i
    <3>1. i \in Nat /\ i >= 1 /\ i <= n
      BY <1>0, <2>3
    <3>2. (1 .. i) \ {i} = 1 .. (i - 1)
      BY <3>1
    <3>3. i \in 1 .. i /\ 1 .. i \subseteq Nat /\ \A j \in 1 .. i : j <= i
      BY <3>1
    <3>4. 1 .. i \in SUBSET (1 .. n)
      BY <1>0, <3>1
    <3> QED
      BY <3>2, <3>3, <3>4
  <2>5. Max(1 .. i) = i
    BY <2>4, MaxIsUnique
  <2>6. iter[1 .. i] = ApplyMutation(iter[1 .. (i - 1)], log[i])
    BY <1>4, <2>4, <2>5
  <2>7. LeftBy(tbl, log, 1 .. i) = ApplyMutation(LeftBy(tbl, log, 1 .. (i - 1)), log[i])
    BY <2>4, <2>5, WrittenStep DEF n
  <2>8. iter[1 .. (i - 1)] = LeftBy(tbl, log, 1 .. (i - 1))
    BY <2>1, <2>3
  <2> QED
    BY <2>1, <2>6, <2>7, <2>8
<1> QED
  BY <1>0, <1>1, <1>5 DEF n

\* A log that telescopes replays to the table it leads to.
LEMMA TelescopesReplays ==
  ASSUME NEW from \in [Locs -> Entries], NEW to \in [Locs -> Entries],
         NEW log \in Seq(Mutations), Telescopes(from, log, to)
  PROVE  Replay(from, log) = to
<1>1. ASSUME NEW l \in Locs
      PROVE  LeftBy(from, log, 1 .. Len(log))[l] = to[l]
  BY DEF Telescopes, LeftBy, WritesOf
<1>2. LeftBy(from, log, 1 .. Len(log)) = to
  BY <1>1 DEF LeftBy
<1> QED
  BY <1>2, ReplayIsLastWrite

\* What the log tells at every step: it leads from the table the consumer
\* knows to the committed one, and with the pending writes of a running kick
\* chain to the table as it is.
LogInv ==
  log_enabled =>
    /\ Telescopes(known, mutation_log, Committed)
    /\ pc = "kicking" => Telescopes(known, mutation_log \o pending_mutations, table)

\* With no chain, nothing is taken back.
LEMMA NothingTakenBack ==
  ASSUME NEW tbl \in [Locs -> Entries]
  PROVE  TakenBack(tbl, <<>>) = tbl
<1>1. \A l \in Locs : Stashes(<<>>, l) = {}
  BY DEF Stashes
<1> QED
  BY <1>1 DEF TakenBack

\* The committed table is a table.
LEMMA CommittedType ==
  ASSUME IInv
  PROVE  Committed \in [Locs -> Entries]
<1>1. table \in [Locs -> Entries] /\ chain \in Seq(Stashed)
  BY DEF IInv, TypeOK
<1>2. ASSUME NEW l \in Locs PROVE Committed[l] \in Entries
  <2>1. Len(chain) \in Nat /\ Stashes(chain, l) \subseteq Nat
    BY <1>1 DEF Stashes
  <2>2. Stashes(chain, l) # {} => Min(Stashes(chain, l)) \in Stashes(chain, l)
    BY <2>1, MinOfNaturals
  <2>3. \A i \in Stashes(chain, l) : chain[i] \in Stashed
    BY <1>1 DEF Stashes
  <2> QED
    BY <1>1, <2>2, <2>3 DEF Committed, TakenBack, Stashed
<1> QED
  BY <1>2 DEF Committed, TakenBack

\* A call that ends has left the table it committed.
LEMMA CommittedReadyNext ==
  ASSUME IInv', chain' = <<>>
  PROVE  Committed' = table'
<1>1. table' \in [Locs -> Entries]
  BY DEF IInv, TypeOK
<1>2. Committed' = TakenBack(table', chain')
  BY DEF Committed, TakenBack, Stashes
<1> QED
  BY <1>1, <1>2, NothingTakenBack

\* Between calls the committed table is the table.
LEMMA CommittedReady ==
  ASSUME IInv, chain = <<>>
  PROVE  Committed = table
BY NothingTakenBack DEF Committed, IInv, TypeOK

\* The log before the first call.
LEMMA InitLogInv == Init => LogInv
BY DEF Init, LogInv

\* A call that writes one slot, between calls.
LEMMA OneWriteLogInv ==
  ASSUME IInv, IInv', LogInv, pc = "ready", pc' = "ready",
         NEW loc \in Locs, NEW new \in Entries,
         table' = [table EXCEPT ![loc] = new],
         mutation_log' = Logged(<<Write(loc, table[loc], new)>>),
         UNCHANGED <<log_enabled, known>>
  PROVE  LogInv'
<1> SUFFICES ASSUME log_enabled
    PROVE  Telescopes(known', mutation_log', Committed')
  BY DEF LogInv
<1> DEFINE m == Write(loc, table[loc], new)
<1>1. /\ known \in [Locs -> Entries] /\ table \in [Locs -> Entries]
      /\ mutation_log \in Seq(Mutations)
      /\ chain = <<>> /\ chain' = <<>>
  BY DEF IInv, TypeOK, ChainOnlyInInsert
<1>2. m \in Mutations /\ m.loc = loc /\ m.old = table[loc] /\ m.new = new
  BY <1>1, WriteType DEF Write
<1>3. mutation_log' = mutation_log \o <<m>>
  BY DEF Logged
<1> HIDE DEF m
<1>4. mutation_log' = Append(mutation_log, m)
  BY <1>1, <1>2, <1>3
<1>5. Committed = table /\ Committed' = table'
  BY <1>1, CommittedReady, CommittedReadyNext
<1>6. Telescopes(known, mutation_log, table)
  BY <1>5 DEF LogInv
<1>7. Telescopes(known, Append(mutation_log, m), [table EXCEPT ![m.loc] = m.new])
  BY <1>1, <1>2, <1>6, TelescopesAppend
<1> QED
  BY <1>2, <1>4, <1>5, <1>7

\* Writes are appended to the log one by one or as one chain.
LEMMA ConcatAppend ==
  ASSUME NEW s \in Seq(Mutations), NEW t \in Seq(Mutations), NEW m \in Mutations
  PROVE  s \o Append(t, m) = Append(s \o t, m)
OBVIOUS

\* One kick: its write is pending until the chain succeeds.
LEMMA KickLogInv ==
  ASSUME IInv, IInv', LogInv, Kick
  PROVE  LogInv'
<1> SUFFICES ASSUME log_enabled, log_enabled'
    PROVE  /\ Telescopes(known', mutation_log', Committed')
           /\ pc' = "kicking" => Telescopes(known', mutation_log' \o pending_mutations', table')
  <2>1. log_enabled' = log_enabled
    BY DEF Kick, logVars
  <2> QED
    BY <2>1 DEF LogInv
<1>0. PICK s \in Slots :
      LET loc     == <<cur_index, s>>
          evicted == table[loc]
          kicked  == [table EXCEPT ![loc] = cur]
          pending == IF log_enabled
                       THEN Append(pending_mutations, Write(loc, evicted, cur))
                       ELSE pending_mutations
          all     == AllIndices[<<cur_index, evicted.fp>>]
          others  == Positions \ {EvictedPos(all, cur_index)}
          open    == Open(kicked, all, others)
          final   == PlaceLoc(kicked, all, open)
      IN  \/ /\ open # {}
             /\ table' = [kicked EXCEPT ![final] = evicted]
             /\ num_items' = num_items + 1
             /\ mutation_log' = Logged(Append(pending, Write(final, Empty, evicted)))
             /\ pc' = "ready"
             /\ result' = "Ok"
             /\ chain' = <<>> /\ pending_mutations' = <<>>
             /\ cur' = Left(evicted.val) /\ cur_index' = 0
             /\ UNCHANGED <<max_kicks, chain_room, log_enabled, known>>
          \/ /\ open = {}
             /\ table' = kicked
             /\ chain' = Append(chain, [loc |-> loc, entry |-> evicted])
             /\ pending_mutations' = pending
             /\ cur' = evicted
             /\ \E p \in others : cur_index' = all[p]
             /\ UNCHANGED <<num_items, max_kicks, chain_room, logVars, pc, result>>
  BY DEF Kick, AllFrom
<1> DEFINE loc     == <<cur_index, s>>
           evicted == table[loc]
           kicked  == [table EXCEPT ![loc] = cur]
           m       == Write(loc, evicted, cur)
           pending == Append(pending_mutations, m)
           all     == AllIndices[<<cur_index, evicted.fp>>]
           others  == Positions \ {EvictedPos(all, cur_index)}
           open    == Open(kicked, all, others)
           final   == PlaceLoc(kicked, all, open)
           w       == Write(final, Empty, evicted)
           log     == mutation_log \o pending_mutations
<1>1. /\ pc = "kicking" /\ loc \in Locs /\ cur \in Entries /\ evicted \in Entries
      /\ table \in [Locs -> Entries] /\ known \in [Locs -> Entries]
      /\ mutation_log \in Seq(Mutations) /\ pending_mutations \in Seq(Mutations)
      /\ log \in Seq(Mutations)
  BY DEF Kick, IInv, TypeOK, Locs
<1>2. evicted.fp \in Fps /\ cur.fp # 0
  <2>1. s \notin FreeSlots(table, cur_index)
    BY <1>1 DEF IInv, KicksOnlyFullBuckets
  <2> QED
    BY <1>1, <2>1 DEF IInv, KicksOnlyFullBuckets, FreeSlots, Entries
<1>3. m \in Mutations /\ m.loc = loc /\ m.old = evicted /\ m.new = cur
  BY <1>1, WriteType DEF Write
<1>4. kicked \in [Locs -> Entries]
  BY <1>1
<1>5. Append(log, m) \in Seq(Mutations) /\ Telescopes(known, Append(log, m), kicked)
  <2>1. Telescopes(known, log, table)
    BY <1>1 DEF LogInv
  <2> HIDE DEF m, log, evicted
  <2>2. Telescopes(known, Append(log, m), [table EXCEPT ![m.loc] = m.new])
    BY <1>1, <1>3, <2>1, TelescopesAppend DEF evicted
  <2>3. Append(log, m) \in Seq(Mutations)
    BY <1>1, <1>3
  <2> QED
    BY <1>3, <2>2, <2>3
<1>6. pending \in Seq(Mutations) /\ mutation_log \o pending = Append(log, m)
  <2> HIDE DEF m
  <2> QED
    BY <1>1, <1>3, ConcatAppend
<1>7. CASE open # {}
  <2>1. /\ table' = [kicked EXCEPT ![final] = evicted]
        /\ mutation_log' = Logged(Append(pending, w))
        /\ pc' = "ready" /\ chain' = <<>> /\ known' = known
    BY <1>0, <1>7
  <2>2. final \in Locs /\ kicked[final].fp = 0
    <3>1. all \in Tuples
      BY <1>2, CandidatesType DEF IInv, TypeOK
    <3> QED
      BY <1>7, <3>1, PlaceLocIsFree
  <2>3. kicked[final] = Empty
    <3> HIDE DEF final
    <3> QED
      BY <1>1, <1>2, <2>2 DEF IInv, EmptySlotsAreZero
  <2>4. w \in Mutations /\ w.loc = final /\ w.old = kicked[final] /\ w.new = evicted
    BY <1>1, <2>2, <2>3, EmptyIsEntry, WriteType DEF Write
  <2>5. mutation_log' = Append(Append(log, m), w)
    <3> HIDE DEF w, m, pending
    <3>1. mutation_log' = mutation_log \o Append(pending, w)
      BY <2>1 DEF Logged
    <3>2. mutation_log \o Append(pending, w) = Append(mutation_log \o pending, w)
      BY <1>1, <1>6, <2>4, ConcatAppend
    <3> QED
      BY <1>6, <3>1, <3>2
  <2>6. Committed' = table'
    BY <2>1, CommittedReadyNext
  <2> HIDE DEF w, final, kicked, m, log, evicted
  <2>7. Telescopes(known, Append(Append(log, m), w), [kicked EXCEPT ![w.loc] = w.new])
    BY <1>1, <1>4, <1>5, <2>4, TelescopesAppend
  <2>8. table' = [kicked EXCEPT ![w.loc] = w.new]
    BY <2>1, <2>4
  <2> QED
    BY <2>1, <2>5, <2>6, <2>7, <2>8
<1>8. CASE open = {}
  <2>1. /\ table' = kicked
        /\ pending_mutations' = pending
        /\ UNCHANGED logVars
        /\ pc' = pc
    BY <1>0, <1>8
  <2>2. Committed' = Committed
    BY <1>1, <2>1, KickLeavesNoTrace
  <2> HIDE DEF pending, kicked, m, log
  <2>3. Telescopes(known', mutation_log', Committed')
    BY <2>1, <2>2 DEF LogInv, logVars
  <2>4. Telescopes(known', mutation_log' \o pending_mutations', table')
    BY <1>5, <1>6, <2>1 DEF logVars
  <2> QED
    BY <2>3, <2>4
<1> QED
  BY <1>7, <1>8

\* A new or drained log starts where its consumer does.
LEMMA FreshLogInv ==
  ASSUME IInv, EnableMutationLog \/ DrainMutations
  PROVE  LogInv'
<1>1. /\ pc = "ready" /\ pc' = pc /\ table' = table /\ chain' = chain
      /\ mutation_log' = <<>> /\ known' = table
  BY DEF EnableMutationLog, DrainMutations, scratch
<1>2. Committed' = table
  <2>1. Committed' = Committed
    BY <1>1 DEF Committed, TakenBack, Stashes
  <2> QED
    BY <1>1, <2>1, CommittedReady DEF IInv, ChainOnlyInInsert
<1>3. Telescopes(known', mutation_log', Committed')
  BY <1>1, <1>2, TelescopesEmpty
<1> QED
  BY <1>1, <1>3 DEF LogInv

\* The steps that write neither the log nor a committed slot.
LEMMA SilentLogInv ==
  ASSUME LogInv, Committed' = Committed, UNCHANGED logVars,
         pc' = "kicking" => pc = "kicking" /\ UNCHANGED <<pending_mutations, table>>
  PROVE  LogInv'
BY DEF LogInv, logVars

\* An insertion that starts kicking has written nothing yet.
LEMMA StartKickingLogInv ==
  ASSUME IInv, LogInv, NEW k \in Keys, NEW v \in Values, InsertStartsKicking(k, v)
  PROVE  LogInv'
<1>1. /\ chain = <<>> /\ chain' = <<>> /\ pending_mutations' = <<>>
      /\ table' = table /\ UNCHANGED logVars
      /\ mutation_log \in Seq(Mutations)
  BY DEF InsertStartsKicking, CanCall, IInv, ChainOnlyInInsert, TypeOK
<1>2. Committed' = Committed /\ Committed = table
  BY <1>1, CommittedReady DEF Committed, TakenBack, Stashes
<1>3. mutation_log' \o pending_mutations' = mutation_log'
  BY <1>1 DEF logVars
<1> QED
  BY <1>1, <1>2, <1>3 DEF LogInv, logVars

\* Every step keeps the invariant of the log.
LEMMA NextLogInv == IInv /\ IInv' /\ LogInv /\ [Next]_vars => LogInv'
<1> SUFFICES ASSUME IInv, IInv', LogInv, [Next]_vars PROVE LogInv'
  OBVIOUS
<1>0. table \in [Locs -> Entries]
  BY DEF IInv, TypeOK
<1>1. ASSUME NEW k \in Keys, NEW v \in Values, InsertDirect(k, v) PROVE LogInv'
  <2> DEFINE entry == [fp |-> HashItem[k].fp, val |-> v]
             loc   == PlaceLoc(table, HashItem[k].indices, Open(table, HashItem[k].indices, Positions))
  <2>1. /\ pc = "ready" /\ pc' = pc
        /\ Open(table, HashItem[k].indices, Positions) # {}
        /\ table' = [table EXCEPT ![loc] = entry]
        /\ mutation_log' = Logged(<<Write(loc, Empty, entry)>>)
        /\ UNCHANGED <<log_enabled, known>>
    BY <1>1 DEF InsertDirect, CanCall
  <2>2. entry \in Entries /\ loc \in Locs /\ table[loc].fp = 0
    BY <2>1, HashType, PlaceLocIsFree
  <2> HIDE DEF entry, loc
  <2>3. table[loc] = Empty
    BY <2>2 DEF IInv, EmptySlotsAreZero
  <2> QED
    BY <2>1, <2>2, <2>3, OneWriteLogInv
<1>2. ASSUME NEW k \in Keys, NEW v \in Values, Update(k, v) PROVE LogInv'
  <2> DEFINE loc == FirstMatch(table, k)
             new == [table[loc] EXCEPT !.val = v]
  <2>1. pc = "ready" /\ pc' = pc /\ UNCHANGED <<log_enabled, known, chain, pending_mutations>>
    BY <1>2 DEF Update, CanCall, scratch
  <2>2. CASE Contain(k)
    <3>1. /\ table' = [table EXCEPT ![loc] = new]
          /\ mutation_log' = Logged(<<Write(loc, table[loc], new)>>)
      BY <1>2, <2>2 DEF Update
    <3>2. loc \in Locs
      BY <2>2, FirstMatchHolds DEF Contain
    <3>3. new \in Entries
      BY <1>0, <3>2 DEF Entries
    <3> HIDE DEF loc, new
    <3> QED
      BY <2>1, <3>1, <3>2, <3>3, OneWriteLogInv
  <2>3. CASE ~Contain(k)
    <3>1. UNCHANGED <<table, mutation_log>>
      BY <1>2, <2>3 DEF Update
    <3>2. Committed' = Committed
      BY <2>1, <3>1 DEF Committed, TakenBack, Stashes
    <3> QED
      BY <2>1, <3>1, <3>2, SilentLogInv DEF logVars
  <2> QED
    BY <2>2, <2>3
<1>3. ASSUME NEW k \in Keys, Delete(k) PROVE LogInv'
  <2> DEFINE loc == FirstMatch(table, k)
  <2>1. pc = "ready" /\ pc' = pc /\ UNCHANGED <<log_enabled, known, chain, pending_mutations>>
    BY <1>3 DEF Delete, CanCall, scratch
  <2>2. CASE Contain(k)
    <3>1. /\ table' = [table EXCEPT ![loc] = Empty]
          /\ mutation_log' = Logged(<<Write(loc, table[loc], Empty)>>)
      BY <1>3, <2>2 DEF Delete, Cleared, Left, Empty
    <3>2. loc \in Locs
      BY <2>2, FirstMatchHolds DEF Contain
    <3> HIDE DEF loc
    <3> QED
      BY <2>1, <3>1, <3>2, EmptyIsEntry, OneWriteLogInv
  <2>3. CASE ~Contain(k)
    <3>1. UNCHANGED <<table, mutation_log>>
      BY <1>3, <2>3 DEF Delete
    <3>2. Committed' = Committed
      BY <2>1, <3>1 DEF Committed, TakenBack, Stashes
    <3> QED
      BY <2>1, <3>1, <3>2, SilentLogInv DEF logVars
  <2> QED
    BY <2>2, <2>3
<1>4. CASE Kick
  BY <1>4, KickLogInv
<1>5. CASE RollbackSlot
  BY <1>5, RollbackLeavesNoTrace, SilentLogInv DEF RollbackSlot
<1>6. CASE \/ KicksExhausted \/ RollbackDone \/ RejectLength \/ UNCHANGED vars
           \/ \E n \in KickBudgets : SetMaxKicks(n)
  <2>1. /\ UNCHANGED <<table, chain>> /\ UNCHANGED logVars
        /\ pc' = "kicking" => pc = "kicking" /\ UNCHANGED pending_mutations
    BY <1>6 DEF KicksExhausted, RollbackDone, RejectLength, SetMaxKicks, CanCall, scratch, vars
  <2>2. Committed' = Committed
    BY <2>1 DEF Committed, TakenBack, Stashes
  <2> QED
    BY <2>1, <2>2, SilentLogInv
<1>7. CASE DisableMutationLog \/ FromCells
  BY <1>7 DEF DisableMutationLog, FromCells, LogInv
<1> QED
  BY <1>1, <1>2, <1>3, <1>4, <1>5, <1>6, <1>7, StartKickingLogInv, FreshLogInv
  DEF Next, InsertLoop, Insert

\* The invariant of the log holds in every reachable state.
THEOREM LogInvariance == Spec => []LogInv
<1>1. IInv /\ [Next]_vars => IInv'
  BY NextIInv
<1> QED
  BY InitIInv, InitLogInv, <1>1, NextLogInv, Invariance, PTL DEF Spec

\* The logged writes of a slot follow each other without a gap, from the entry
\* the consumer knows to the committed one, whatever insertions, deletions and
\* updates wrote it (the log pushes of insert, delete and update).
THEOREM LogIsGapless == Spec => []LogTelescopes
<1>1. LogInv => LogTelescopes
  BY DEF LogInv, LogTelescopes, Telescopes, WritesOf, WritesAt
<1> QED
  BY <1>1, LogInvariance, PTL

\* A consumer that applies the writes of the log to the table it knows gets the
\* table, between calls and while a kick chain runs or is rolled back.
THEOREM LogComplete == Spec => []LogReplaysToTable
<1>1. ASSUME IInv, LogInv PROVE LogReplaysToTable
  <2> SUFFICES ASSUME log_enabled PROVE Replay(known, mutation_log) = Committed
    BY DEF LogReplaysToTable
  <2>1. known \in [Locs -> Entries] /\ mutation_log \in Seq(Mutations)
    BY <1>1 DEF IInv, TypeOK
  <2>2. Committed \in [Locs -> Entries]
    BY <1>1, CommittedType
  <2> QED
    BY <1>1, <2>1, <2>2, TelescopesReplays DEF LogInv
<1> QED
  BY <1>1, Invariance, LogInvariance, PTL

-----------------------------------------------------------------------------
(* The bag of the store.  An entry moved between its candidates keeps its  *)
(* class, so a kick exchanges pairs and adds none.                         *)

Pairs == Classes \X Values

\* The pair an entry is of when it lies in bucket b, or goes there.
PairOf(b, e) == <<ClassOf[<<b, e.fp>>], e.val>>

\* One more of a pair.
Plus(bag, p) == [bag EXCEPT ![p] = @ + 1]

\* The class of an entry is the same from each of its candidates.
LEMMA SameClass ==
  ASSUME NEW b \in Buckets, NEW f \in Fps, NEW p \in Positions
  PROVE  /\ AllIndices[<<b, f>>][p] \in Buckets
         /\ ClassOf[<<AllIndices[<<b, f>>][p], f>>] = ClassOf[<<b, f>>]
<1>1. AllIndices[<<b, f>>][p] \in Buckets
  BY CandidatesType DEF Tuples
<1>2. Range(AllIndices[<<AllIndices[<<b, f>>][p], f>>]) = Range(AllIndices[<<b, f>>])
  BY SchemeAssumption
<1> QED
  BY <1>1, <1>2 DEF ClassOf

\* The class of a key is that of its entry in each of its candidates.
LEMMA ClassOfKey ==
  ASSUME NEW k \in Keys, NEW p \in Positions
  PROVE  /\ HashItem[k].fp \in Fps /\ HashItem[k].indices[p] \in Buckets
         /\ ClassOf[<<HashItem[k].indices[p], HashItem[k].fp>>] = KeyClass[k]
<1>1. HashItem[k].fp \in Fps /\ HashItem[k].indices[p] \in Buckets
  BY HashType
<1>2. Range(AllIndices[<<HashItem[k].indices[p], HashItem[k].fp>>]) = Range(HashItem[k].indices)
  BY SchemeAssumption
<1> QED
  BY <1>1, <1>2 DEF ClassOf, KeyClass

\* An entry and its bucket are of a pair.
LEMMA PairType ==
  ASSUME NEW b \in Buckets, NEW e \in Entries, e.fp # 0
  PROVE  PairOf(b, e) \in Pairs
<1>1. e.fp \in Fps /\ e.val \in Values
  BY DEF Entries
<1>2. <<b, e.fp>> \in DOMAIN ClassOf
  BY <1>1 DEF ClassOf
<1>3. ClassOf[<<b, e.fp>>] \in Classes
  BY <1>2, Zenon DEF Classes, Range
<1> QED
  BY <1>1, <1>3 DEF PairOf, Pairs

\* The class of a key is one of the classes.
LEMMA KeyPairType ==
  ASSUME NEW k \in Keys, NEW v \in Values
  PROVE  KeyClass[k] \in Classes /\ <<KeyClass[k], v>> \in Pairs
<1>1. 0 \in Positions
  BY SizeAssumption DEF Positions
<1>2. <<HashItem[k].indices[0], HashItem[k].fp>> \in DOMAIN ClassOf
  BY <1>1, ClassOfKey DEF ClassOf
<1>3. KeyClass[k] \in Classes
  BY <1>1, <1>2, ClassOfKey, Zenon DEF Classes, Range
<1> QED
  BY <1>3 DEF Pairs

\* The copies of a pair can be counted.
LEMMA BagType ==
  ASSUME NEW tbl
  PROVE  /\ BagOf(tbl) \in [Pairs -> Nat]
         /\ \A c \in Classes, v \in Values :
              /\ IsFiniteSet(Copies(tbl, c, v))
              /\ Cardinality(Copies(tbl, c, v)) \in Nat
              /\ BagOf(tbl)[<<c, v>>] = Cardinality(Copies(tbl, c, v))
<1>1. ASSUME NEW c, NEW v
      PROVE  IsFiniteSet(Copies(tbl, c, v)) /\ Cardinality(Copies(tbl, c, v)) \in Nat
  <2>1. Copies(tbl, c, v) \subseteq Locs
    BY DEF Copies
  <2>2. IsFiniteSet(Copies(tbl, c, v))
    BY <2>1, LocsFinite, FS_Subset
  <2> QED
    BY <2>2, FS_CardinalityType
<1> QED
  BY <1>1 DEF BagOf, Pairs

\* An entry that fills an empty slot adds its pair to the bag.
LEMMA FillBag ==
  ASSUME NEW tbl \in [Locs -> Entries], NEW l \in Locs, NEW e \in Entries,
         tbl[l].fp = 0, e.fp # 0
  PROVE  BagOf([tbl EXCEPT ![l] = e]) = Plus(BagOf(tbl), PairOf(l[1], e))
<1> DEFINE after == [tbl EXCEPT ![l] = e]
           new   == PairOf(l[1], e)
<1>1. l[1] \in Buckets /\ after \in [Locs -> Entries] /\ after[l] = e
  BY DEF Locs
<1>2. new \in Pairs
  BY <1>1, PairType
<1>3. ASSUME NEW c \in Classes, NEW v \in Values
      PROVE  BagOf(after)[<<c, v>>] = Plus(BagOf(tbl), new)[<<c, v>>]
  <2>1. l \notin Copies(tbl, c, v)
    BY DEF Copies
  <2>2. CASE <<c, v>> = new
    <3>1. Copies(after, c, v) = Copies(tbl, c, v) \cup {l}
      BY <1>1, <2>2 DEF Copies, PairOf
    <3>2. IsFiniteSet(Copies(tbl, c, v))
      BY BagType
    <3>3. Cardinality(Copies(tbl, c, v) \cup {l}) = Cardinality(Copies(tbl, c, v)) + 1
      BY <2>1, <3>2, FS_AddElement
    <3>4. Cardinality(Copies(after, c, v)) = Cardinality(Copies(tbl, c, v)) + 1
      BY <3>1, <3>3
    <3> HIDE DEF new, after
    <3> QED
      BY <1>2, <2>2, <3>4, BagType DEF Plus
  <2>3. CASE <<c, v>> # new
    <3>1. Copies(after, c, v) = Copies(tbl, c, v)
      BY <1>1, <2>3 DEF Copies, PairOf
    <3> HIDE DEF new, after
    <3> QED
      BY <1>2, <2>3, <3>1, BagType DEF Plus
  <2> QED
    BY <2>2, <2>3
<1> HIDE DEF after, new
<1>4. BagOf(after) \in [Pairs -> Nat] /\ Plus(BagOf(tbl), new) \in [Pairs -> Nat]
  BY <1>2, BagType DEF Plus
<1>5. \A p \in Pairs : BagOf(after)[p] = Plus(BagOf(tbl), new)[p]
  BY <1>3 DEF Pairs
<1>6. BagOf(after) = Plus(BagOf(tbl), new)
  BY <1>4, <1>5
<1> QED
  BY <1>6 DEF after, new

\* An entry that is cleared takes its pair from the bag.
LEMMA ClearBag ==
  ASSUME NEW tbl \in [Locs -> Entries], NEW l \in Locs, NEW e \in Entries,
         tbl[l].fp # 0, e.fp = 0
  PROVE  BagOf(tbl) = Plus(BagOf([tbl EXCEPT ![l] = e]), PairOf(l[1], tbl[l]))
<1> DEFINE mid == [tbl EXCEPT ![l] = e]
<1>1. /\ mid \in [Locs -> Entries] /\ mid[l].fp = 0 /\ tbl[l] \in Entries
      /\ [mid EXCEPT ![l] = tbl[l]] = tbl
  OBVIOUS
<1> HIDE DEF mid
<1>2. BagOf([mid EXCEPT ![l] = tbl[l]]) = Plus(BagOf(mid), PairOf(l[1], tbl[l]))
  BY <1>1, FillBag
<1> QED
  BY <1>1, <1>2 DEF mid

\* Pairs may be added in any order.
LEMMA PlusCommutes ==
  ASSUME NEW bag \in [Pairs -> Nat], NEW p \in Pairs, NEW q \in Pairs
  PROVE  Plus(Plus(bag, p), q) = Plus(Plus(bag, q), p)
<1>1. ASSUME NEW r \in Pairs
      PROVE  Plus(Plus(bag, p), q)[r] = Plus(Plus(bag, q), p)[r]
  BY DEF Plus
<1>2. Plus(Plus(bag, p), q) \in [Pairs -> Nat] /\ Plus(Plus(bag, q), p) \in [Pairs -> Nat]
  BY DEF Plus
<1> QED
  BY <1>1, <1>2

\* An entry that takes the place of another changes the bag by the two.
LEMMA SwapBag ==
  ASSUME NEW tbl \in [Locs -> Entries], NEW l \in Locs, NEW e \in Entries,
         tbl[l].fp # 0, e.fp # 0
  PROVE  Plus(BagOf([tbl EXCEPT ![l] = e]), PairOf(l[1], tbl[l])) = Plus(BagOf(tbl), PairOf(l[1], e))
<1> DEFINE mid == [tbl EXCEPT ![l] = Empty]
           p   == PairOf(l[1], tbl[l])
           q   == PairOf(l[1], e)
<1>1. /\ mid \in [Locs -> Entries] /\ mid[l].fp = 0 /\ tbl[l] \in Entries
      /\ [mid EXCEPT ![l] = e] = [tbl EXCEPT ![l] = e]
  BY EmptyIsEntry
<1>2. p \in Pairs /\ q \in Pairs
  BY <1>1, PairType DEF Locs
<1>3. BagOf(tbl) = Plus(BagOf(mid), p)
  BY EmptyIsEntry, ClearBag
<1> HIDE DEF mid
<1>4. BagOf([mid EXCEPT ![l] = e]) = Plus(BagOf(mid), q)
  BY <1>1, FillBag
<1> HIDE DEF p, q
<1>5. Plus(Plus(BagOf(mid), q), p) = Plus(Plus(BagOf(mid), p), q)
  BY <1>2, BagType, PlusCommutes
<1> QED
  BY <1>1, <1>3, <1>4, <1>5 DEF p, q

\* While a kick chain runs, the table with the entry in flight holds the
\* committed bag and the pair of the key that is being inserted.
InFlight ==
  pc = "kicking" =>
    \E k \in Keys, v \in Values :
      Plus(BagOf(table), PairOf(cur_index, cur)) = Plus(BagOf(Committed), <<KeyClass[k], v>>)

\* The candidate that PlaceLoc and FirstMatch name.
LEMMA PlaceLocBucket ==
  ASSUME NEW tbl, NEW indices \in Tuples, NEW ps \in SUBSET Positions,
         Open(tbl, indices, ps) # {}
  PROVE  \E p \in ps : PlaceLoc(tbl, indices, Open(tbl, indices, ps))[1] = indices[p]
<1> DEFINE open == Open(tbl, indices, ps)
<1>1. open \subseteq Nat
  <2>1. open \subseteq ps
    BY DEF Open
  <2>2. Positions \subseteq Nat
    BY DEF Positions
  <2> QED
    BY <2>1, <2>2
<1>2. Min(open) \in open
  BY <1>1, MinOfNaturals
<1> QED
  BY <1>2 DEF PlaceLoc, Open

\* The entry FirstMatch names is of the class of the key.
LEMMA FirstMatchClass ==
  ASSUME NEW tbl \in [Locs -> Entries], NEW k \in Keys, Matches(tbl, k) # {}
  PROVE  /\ FirstMatch(tbl, k) \in Locs
         /\ tbl[FirstMatch(tbl, k)] \in Entries
         /\ tbl[FirstMatch(tbl, k)].fp # 0
         /\ PairOf(FirstMatch(tbl, k)[1], tbl[FirstMatch(tbl, k)])
              = <<KeyClass[k], tbl[FirstMatch(tbl, k)].val>>
<1> DEFINE l == FirstMatch(tbl, k)
<1>1. l \in Locs /\ tbl[l].fp = HashItem[k].fp
  BY FirstMatchHolds
<1>2. Min(Matches(tbl, k)) \in Positions
  <2>1. Matches(tbl, k) \subseteq Nat /\ Matches(tbl, k) \subseteq Positions
    BY DEF Matches, Positions
  <2> QED
    BY <2>1, MinOfNaturals
<1>3. l[1] = HashItem[k].indices[Min(Matches(tbl, k))]
  BY DEF FirstMatch
<1>4. HashItem[k].fp # 0
  BY HashType, DataAssumption
<1> HIDE DEF l
<1>5. ClassOf[<<l[1], tbl[l].fp>>] = KeyClass[k]
  BY <1>1, <1>2, <1>3, ClassOfKey
<1> QED
  BY <1>1, <1>4, <1>5 DEF PairOf, l

\* A copy of a key's class lies in one of its candidates with its fingerprint.
LEMMA CopyIsFound ==
  ASSUME NEW tbl \in [Locs -> Entries], NEW k \in Keys, NEW v \in Values,
         Copies(tbl, KeyClass[k], v) # {}
  PROVE  Matches(tbl, k) # {}
<1>1. PICK l \in Locs : tbl[l].fp # 0 /\ ClassOf[<<l[1], tbl[l].fp>>] = KeyClass[k]
  BY DEF Copies
<1>2. l[1] \in Buckets /\ l[2] \in Slots /\ l = <<l[1], l[2]>> /\ tbl[l].fp \in Fps
  BY <1>1 DEF Locs, Entries
<1>3. /\ tbl[l].fp = HashItem[k].fp
      /\ Range(AllIndices[<<l[1], tbl[l].fp>>]) = Range(HashItem[k].indices)
  BY <1>1, <1>2 DEF ClassOf, KeyClass
<1>4. l[1] \in Range(AllIndices[<<l[1], tbl[l].fp>>])
  <2>1. PICK p \in Positions : AllIndices[<<l[1], tbl[l].fp>>][p] = l[1]
    BY <1>2, SchemeAssumption
  <2>2. p \in DOMAIN AllIndices[<<l[1], tbl[l].fp>>]
    BY <1>2, CandidatesType DEF Tuples
  <2> QED
    BY <2>1, <2>2 DEF Range
<1>5. PICK p \in Positions : HashItem[k].indices[p] = l[1]
  <2>1. DOMAIN HashItem[k].indices = Positions
    BY HashType DEF Tuples
  <2> QED
    BY <1>3, <1>4, <2>1 DEF Range
<1>6. l[2] \in MatchSlots(tbl, HashItem[k].indices[p], HashItem[k].fp)
  BY <1>2, <1>3, <1>5 DEF MatchSlots
<1> QED
  BY <1>6 DEF Matches

\* A key is found exactly when the bag holds a pair of its class.
LEMMA FoundIsStored ==
  ASSUME NEW tbl \in [Locs -> Entries], NEW k \in Keys
  PROVE  /\ Matches(tbl, k) = {} => \A v \in Values : BagOf(tbl)[<<KeyClass[k], v>>] = 0
         /\ Matches(tbl, k) # {} =>
              BagOf(tbl)[<<KeyClass[k], tbl[FirstMatch(tbl, k)].val>>] > 0
<1>1. ASSUME Matches(tbl, k) = {}, NEW v \in Values
      PROVE  BagOf(tbl)[<<KeyClass[k], v>>] = 0
  <2>1. Copies(tbl, KeyClass[k], v) = {}
    BY <1>1, CopyIsFound
  <2> QED
    BY <2>1, BagType, KeyPairType, FS_EmptySet
<1>2. ASSUME Matches(tbl, k) # {}
      PROVE  BagOf(tbl)[<<KeyClass[k], tbl[FirstMatch(tbl, k)].val>>] > 0
  <2> DEFINE l == FirstMatch(tbl, k)
  <2>1. /\ l \in Locs /\ tbl[l] \in Entries /\ tbl[l].fp # 0
        /\ PairOf(l[1], tbl[l]) = <<KeyClass[k], tbl[l].val>>
    BY <1>2, FirstMatchClass
  <2> HIDE DEF l
  <2>2. l \in Copies(tbl, KeyClass[k], tbl[l].val) /\ tbl[l].val \in Values
    BY <2>1 DEF Copies, PairOf, Entries
  <2>3. /\ IsFiniteSet(Copies(tbl, KeyClass[k], tbl[l].val))
        /\ BagOf(tbl)[<<KeyClass[k], tbl[l].val>>] = Cardinality(Copies(tbl, KeyClass[k], tbl[l].val))
        /\ Cardinality(Copies(tbl, KeyClass[k], tbl[l].val)) \in Nat
    BY <2>2, BagType, KeyPairType
  <2>4. Cardinality(Copies(tbl, KeyClass[k], tbl[l].val)) # 0
    BY <2>2, <2>3, FS_EmptySet
  <2> QED
    BY <2>3, <2>4 DEF l
<1> QED
  BY <1>1, <1>2

\* An insertion that starts has the pair of its key in flight.
LEMMA StartKickingBag ==
  ASSUME IInv, NEW k \in Keys, NEW v \in Values, InsertStartsKicking(k, v)
  PROVE  /\ Plus(BagOf(table'), PairOf(cur_index', cur')) = Plus(BagOf(Committed'), <<KeyClass[k], v>>)
         /\ Committed' = Committed /\ result' = result
<1>1. /\ chain = <<>> /\ chain' = <<>> /\ table' = table /\ result' = result
      /\ cur' = [fp |-> HashItem[k].fp, val |-> v]
  BY DEF InsertStartsKicking, CanCall, IInv, ChainOnlyInInsert
<1>2. PICK p \in Positions : cur_index' = HashItem[k].indices[p]
  BY DEF InsertStartsKicking
<1>3. Committed' = Committed /\ Committed = table
  BY <1>1, CommittedReady DEF Committed, TakenBack, Stashes
<1>4. PairOf(cur_index', cur') = <<KeyClass[k], v>>
  BY <1>1, <1>2, ClassOfKey DEF PairOf
<1>5. Plus(BagOf(table'), PairOf(cur_index', cur')) = Plus(BagOf(Committed'), <<KeyClass[k], v>>)
  BY <1>1, <1>3, <1>4
<1> QED
  BY <1>1, <1>3, <1>5

\* A kick moves the pair in flight into the table and has another in flight,
\* or completes the insertion: the pair p to be added stays the same.
LEMMA KickBag ==
  ASSUME IInv, IInv', Kick,
         NEW p, Plus(BagOf(table), PairOf(cur_index, cur)) = Plus(BagOf(Committed), p)
  PROVE  \/ /\ pc' = pc /\ Committed' = Committed /\ result' = result
            /\ Plus(BagOf(table'), PairOf(cur_index', cur')) = Plus(BagOf(Committed'), p)
         \/ /\ pc' = "ready" /\ result' = "Ok"
            /\ BagOf(Committed') = Plus(BagOf(Committed), p)
<1>0. PICK s \in Slots :
      LET loc     == <<cur_index, s>>
          evicted == table[loc]
          kicked  == [table EXCEPT ![loc] = cur]
          pending == IF log_enabled
                       THEN Append(pending_mutations, Write(loc, evicted, cur))
                       ELSE pending_mutations
          all     == AllIndices[<<cur_index, evicted.fp>>]
          others  == Positions \ {EvictedPos(all, cur_index)}
          open    == Open(kicked, all, others)
          final   == PlaceLoc(kicked, all, open)
      IN  \/ /\ open # {}
             /\ table' = [kicked EXCEPT ![final] = evicted]
             /\ num_items' = num_items + 1
             /\ mutation_log' = Logged(Append(pending, Write(final, Empty, evicted)))
             /\ pc' = "ready"
             /\ result' = "Ok"
             /\ chain' = <<>> /\ pending_mutations' = <<>>
             /\ cur' = Left(evicted.val) /\ cur_index' = 0
             /\ UNCHANGED <<max_kicks, chain_room, log_enabled, known>>
          \/ /\ open = {}
             /\ table' = kicked
             /\ chain' = Append(chain, [loc |-> loc, entry |-> evicted])
             /\ pending_mutations' = pending
             /\ cur' = evicted
             /\ \E q \in others : cur_index' = all[q]
             /\ UNCHANGED <<num_items, max_kicks, chain_room, logVars, pc, result>>
  BY DEF Kick, AllFrom
<1> DEFINE loc     == <<cur_index, s>>
           evicted == table[loc]
           kicked  == [table EXCEPT ![loc] = cur]
           all     == AllIndices[<<cur_index, evicted.fp>>]
           others  == Positions \ {EvictedPos(all, cur_index)}
           open    == Open(kicked, all, others)
           final   == PlaceLoc(kicked, all, open)
<1>1. /\ pc = "kicking" /\ loc \in Locs /\ loc[1] = cur_index /\ cur_index \in Buckets
      /\ cur \in Entries /\ evicted \in Entries
      /\ table \in [Locs -> Entries] /\ kicked \in [Locs -> Entries]
  BY DEF Kick, IInv, TypeOK, Locs
<1>2. evicted.fp \in Fps /\ evicted.fp # 0 /\ cur.fp # 0
  <2>1. s \notin FreeSlots(table, cur_index)
    BY <1>1 DEF IInv, KicksOnlyFullBuckets
  <2> QED
    BY <1>1, <2>1 DEF IInv, KicksOnlyFullBuckets, FreeSlots, Entries
<1>4. Plus(BagOf(kicked), PairOf(cur_index, evicted)) = Plus(BagOf(Committed), p)
  <2>1. Plus(BagOf(kicked), PairOf(loc[1], evicted)) = Plus(BagOf(table), PairOf(loc[1], cur))
    <3> HIDE DEF loc
    <3> QED
      BY <1>1, <1>2, SwapBag
  <2> QED
    BY <1>1, <2>1
<1>5. \A q \in Positions : PairOf(all[q], evicted) = PairOf(cur_index, evicted)
  BY <1>1, <1>2, SameClass DEF PairOf
<1>6. CASE open # {}
  <2>1. /\ table' = [kicked EXCEPT ![final] = evicted]
        /\ pc' = "ready" /\ result' = "Ok" /\ chain' = <<>>
    BY <1>0, <1>6
  <2>2. all \in Tuples
    BY <1>1, <1>2, CandidatesType
  <2>3. final \in Locs /\ kicked[final].fp = 0
    BY <1>6, <2>2, PlaceLocIsFree
  <2>4. PICK q \in others : final[1] = all[q]
    BY <1>6, <2>2, PlaceLocBucket
  <2> HIDE DEF final, kicked, evicted, all
  <2>5. BagOf(table') = Plus(BagOf(kicked), PairOf(final[1], evicted))
    BY <1>1, <1>2, <2>1, <2>3, FillBag
  <2>6. BagOf(table') = Plus(BagOf(Committed), p)
    BY <1>4, <1>5, <2>4, <2>5
  <2> QED
    BY <2>1, <2>6, CommittedReadyNext
<1>7. CASE open = {}
  <2>1. table' = kicked /\ cur' = evicted /\ pc' = pc /\ result' = result
    BY <1>0, <1>7
  <2>2. PICK q \in others : cur_index' = all[q]
    BY <1>0, <1>7
  <2>3. Committed' = Committed
    BY <1>1, <2>1, KickLeavesNoTrace
  <2> HIDE DEF kicked, evicted, all
  <2>4. Plus(BagOf(table'), PairOf(cur_index', cur')) = Plus(BagOf(Committed'), p)
    BY <1>4, <1>5, <2>1, <2>2, <2>3
  <2> QED
    BY <2>1, <2>3, <2>4
<1> QED
  BY <1>6, <1>7

\* An insertion that finds room adds the pair of its key.
LEMMA InsertDirectBag ==
  ASSUME IInv, IInv', NEW k \in Keys, NEW v \in Values, InsertDirect(k, v)
  PROVE  /\ pc' = "ready" /\ result' = "Ok"
         /\ BagOf(Committed') = Plus(BagOf(Committed), <<KeyClass[k], v>>)
<1> DEFINE entry   == [fp |-> HashItem[k].fp, val |-> v]
           indices == HashItem[k].indices
           loc     == PlaceLoc(table, indices, Open(table, indices, Positions))
<1>1. /\ Open(table, indices, Positions) # {}
      /\ table' = [table EXCEPT ![loc] = entry]
      /\ pc = "ready" /\ pc' = pc /\ result' = "Ok" /\ chain' = chain
      /\ table \in [Locs -> Entries]
  BY DEF InsertDirect, CanCall, scratch, IInv, TypeOK
<1>2. Committed = table /\ Committed' = table'
  BY <1>1, CommittedReady, CommittedReadyNext DEF IInv, ChainOnlyInInsert
<1>3. indices \in Tuples /\ entry \in Entries /\ entry.fp # 0
  BY HashType
<1>4. loc \in Locs /\ table[loc].fp = 0
  BY <1>1, <1>3, PlaceLocIsFree
<1>5. PICK p \in Positions : loc[1] = indices[p]
  BY <1>1, <1>3, PlaceLocBucket
<1> HIDE DEF loc
<1>6. PairOf(loc[1], entry) = <<KeyClass[k], v>>
  BY <1>5, ClassOfKey DEF PairOf
<1> HIDE DEF entry
<1>7. BagOf(table') = Plus(BagOf(table), PairOf(loc[1], entry))
  BY <1>1, <1>3, <1>4, FillBag
<1> QED
  BY <1>1, <1>2, <1>6, <1>7

\* What one less of a pair is.
LEMMA PlusIsMinus ==
  ASSUME NEW bag \in [Pairs -> Nat], NEW p \in Pairs
  PROVE  bag = [Plus(bag, p) EXCEPT ![p] = @ - 1]
<1> DEFINE less == [Plus(bag, p) EXCEPT ![p] = @ - 1]
<1>1. less \in [Pairs -> Int] /\ bag \in [Pairs -> Int]
  BY DEF Plus
<1>2. ASSUME NEW q \in Pairs PROVE less[q] = bag[q]
  BY DEF Plus
<1> HIDE DEF less
<1>3. less = bag
  BY <1>1, <1>2
<1> QED
  BY <1>3 DEF less

\* A deletion takes one pair of the key's class, or the class is empty.
LEMMA DeleteBag ==
  ASSUME IInv, IInv', NEW k \in Keys, Delete(k)
  PROVE  Abstract!Delete(k)
<1> DEFINE loc == FirstMatch(table, k)
           val == table[loc].val
<1>1. /\ pc = "ready" /\ pc' = pc /\ chain' = chain /\ chain = <<>>
      /\ table \in [Locs -> Entries]
  BY DEF Delete, CanCall, scratch, IInv, TypeOK, ChainOnlyInInsert
<1>2. Committed = table /\ Committed' = table'
  BY <1>1, CommittedReady, CommittedReadyNext
<1>3. CASE Contain(k)
  <2>1. table' = [table EXCEPT ![loc] = Empty] /\ result' = "Ok"
    BY <1>3 DEF Delete, Cleared, Left, Empty
  <2>2. /\ loc \in Locs /\ table[loc] \in Entries /\ table[loc].fp # 0
        /\ PairOf(loc[1], table[loc]) = <<KeyClass[k], val>>
        /\ BagOf(table)[<<KeyClass[k], val>>] > 0
    BY <1>1, <1>3, FirstMatchClass, FoundIsStored DEF Contain
  <2> HIDE DEF loc
  <2>3. BagOf(table) = Plus(BagOf(table'), <<KeyClass[k], val>>)
    BY <1>1, <2>1, <2>2, EmptyIsEntry, ClearBag
  <2>4. val \in Values /\ <<KeyClass[k], val>> \in Pairs
    BY <2>2, KeyPairType DEF Entries
  <2> HIDE DEF val
  <2>5. BagOf(table') = [BagOf(table) EXCEPT ![<<KeyClass[k], val>>] = @ - 1]
    BY <2>3, <2>4, BagType, PlusIsMinus
  <2>6. val \in Abstract!Stored(k)
    BY <1>2, <2>2, <2>4 DEF Abstract!Stored
  <2> QED
    BY <1>2, <2>1, <2>5, <2>6 DEF Abstract!Delete
<1>4. CASE ~Contain(k)
  <2>1. table' = table /\ result' = "NotFound"
    BY <1>4 DEF Delete
  <2>2. \A v \in Values : BagOf(table)[<<KeyClass[k], v>>] = 0
    BY <1>1, <1>4, FoundIsStored DEF Contain
  <2>3. Abstract!Stored(k) = {}
    BY <1>2, <2>2 DEF Abstract!Stored
  <2> QED
    BY <1>2, <2>1, <2>3 DEF Abstract!Delete
<1> QED
  BY <1>3, <1>4

\* An update replaces one pair of the key's class, or the class is empty.
LEMMA UpdateBag ==
  ASSUME IInv, IInv', NEW k \in Keys, NEW v \in Values, Update(k, v)
  PROVE  Abstract!Update(k, v)
<1> DEFINE loc == FirstMatch(table, k)
           val == table[loc].val
           new == [table[loc] EXCEPT !.val = v]
           mid == [table EXCEPT ![loc] = Empty]
<1>1. /\ pc = "ready" /\ pc' = pc /\ chain' = chain /\ chain = <<>>
      /\ table \in [Locs -> Entries]
  BY DEF Update, CanCall, scratch, IInv, TypeOK, ChainOnlyInInsert
<1>2. Committed = table /\ Committed' = table'
  BY <1>1, CommittedReady, CommittedReadyNext
<1>3. CASE Contain(k)
  <2>1. table' = [table EXCEPT ![loc] = new] /\ result' = "Ok"
    BY <1>3 DEF Update
  <2>2. /\ loc \in Locs /\ table[loc] \in Entries /\ table[loc].fp # 0
        /\ PairOf(loc[1], table[loc]) = <<KeyClass[k], val>>
        /\ BagOf(table)[<<KeyClass[k], val>>] > 0
    BY <1>1, <1>3, FirstMatchClass, FoundIsStored DEF Contain
  <2> HIDE DEF loc
  <2>3. new \in Entries /\ new.fp = table[loc].fp /\ new.val = v
    BY <2>2 DEF Entries
  <2>4. PairOf(loc[1], new) = <<KeyClass[k], v>>
    BY <2>2, <2>3 DEF PairOf
  <2> HIDE DEF new
  <2>5. BagOf(table) = Plus(BagOf(mid), <<KeyClass[k], val>>)
    BY <1>1, <2>2, EmptyIsEntry, ClearBag
  <2>6. /\ mid \in [Locs -> Entries] /\ mid[loc].fp = 0
        /\ table' = [mid EXCEPT ![loc] = new]
    BY <1>1, <2>1, <2>2, EmptyIsEntry
  <2> HIDE DEF mid
  <2>7. BagOf(table') = Plus(BagOf(mid), <<KeyClass[k], v>>)
    BY <2>2, <2>3, <2>4, <2>6, FillBag
  <2>8. val \in Values /\ <<KeyClass[k], val>> \in Pairs
    BY <2>2, KeyPairType DEF Entries
  <2> HIDE DEF val
  <2>9. BagOf(mid) = [BagOf(table) EXCEPT ![<<KeyClass[k], val>>] = @ - 1]
    BY <2>5, <2>8, BagType, PlusIsMinus
  <2>10. val \in Abstract!Stored(k)
    BY <1>2, <2>2, <2>8 DEF Abstract!Stored
  <2> QED
    BY <1>2, <2>1, <2>7, <2>9, <2>10 DEF Abstract!Update, Plus
<1>4. CASE ~Contain(k)
  <2>1. table' = table /\ result' = "NotFound"
    BY <1>4 DEF Update
  <2>2. \A w \in Values : BagOf(table)[<<KeyClass[k], w>>] = 0
    BY <1>1, <1>4, FoundIsStored DEF Contain
  <2>3. Abstract!Stored(k) = {}
    BY <1>2, <2>2 DEF Abstract!Stored
  <2> QED
    BY <1>2, <2>1, <2>3 DEF Abstract!Update
<1> QED
  BY <1>3, <1>4

\* The empty table is the empty bag.
LEMMA InitBag == Init => InFlight /\ Abstract!Init
<1> SUFFICES ASSUME Init PROVE InFlight /\ Abstract!Init
  OBVIOUS
<1>1. EmptyTable \in [Locs -> Entries] /\ table = EmptyTable /\ chain = <<>>
  BY EmptyIsEntry DEF Init, EmptyTable
<1>2. Committed = EmptyTable
  BY <1>1, NothingTakenBack DEF Committed
<1>3. ASSUME NEW c \in Classes, NEW v \in Values
      PROVE  BagOf(EmptyTable)[<<c, v>>] = 0
  <2>1. Copies(EmptyTable, c, v) = {}
    BY DEF Copies, EmptyTable, Empty
  <2> QED
    BY <2>1, BagType, FS_EmptySet
<1>4. BagOf(EmptyTable) = [p \in Pairs |-> 0]
  <2>1. \A p \in Pairs : BagOf(EmptyTable)[p] = 0
    BY <1>3 DEF Pairs
  <2> QED
    BY <2>1, BagType
<1> QED
  BY <1>2, <1>4 DEF Init, InFlight, Abstract!Init, Abstract!Pairs, Pairs

\* Every step of the store is a step of the bag or leaves it alone.
LEMMA StepBag ==
  ASSUME IInv, IInv', InFlight, [Next]_vars
  PROVE  InFlight' /\ [Abstract!Next]_(Abstract!vars)
<1> DEFINE Stutter == Committed' = Committed /\ result' = result
           Quiet   == UNCHANGED <<table, chain>>
<1>0. Quiet => Committed' = Committed
  BY DEF Committed, TakenBack, Stashes
<1>1. ASSUME NEW k \in Keys, NEW v \in Values, InsertDirect(k, v)
      PROVE  InFlight' /\ Abstract!Insert(k, v)
  <2>1. pc' = "ready" /\ result' = "Ok"
        /\ BagOf(Committed') = Plus(BagOf(Committed), <<KeyClass[k], v>>)
    BY <1>1, InsertDirectBag
  <2> QED
    BY <2>1 DEF InFlight, Plus, Abstract!Insert
<1>2. ASSUME NEW k \in Keys, NEW v \in Values, InsertStartsKicking(k, v)
      PROVE  InFlight' /\ Stutter
  BY <1>2, StartKickingBag DEF InFlight
<1>3. ASSUME NEW k \in Keys, NEW v \in Values, Update(k, v)
      PROVE  InFlight' /\ Abstract!Update(k, v)
  BY <1>3, UpdateBag DEF Update, CanCall, InFlight
<1>4. ASSUME NEW k \in Keys, Delete(k)
      PROVE  InFlight' /\ Abstract!Delete(k)
  BY <1>4, DeleteBag DEF Delete, CanCall, InFlight
<1>5. CASE Kick
  <2>1. PICK k \in Keys, v \in Values :
          Plus(BagOf(table), PairOf(cur_index, cur)) = Plus(BagOf(Committed), <<KeyClass[k], v>>)
    BY <1>5 DEF Kick, InFlight
  <2>2. CASE /\ pc' = pc /\ Committed' = Committed /\ result' = result
             /\ Plus(BagOf(table'), PairOf(cur_index', cur'))
                  = Plus(BagOf(Committed'), <<KeyClass[k], v>>)
    BY <2>2 DEF InFlight, Abstract!vars
  <2>3. CASE /\ pc' = "ready" /\ result' = "Ok"
             /\ BagOf(Committed') = Plus(BagOf(Committed), <<KeyClass[k], v>>)
    <3>1. Abstract!Insert(k, v)
      BY <2>3 DEF Plus, Abstract!Insert
    <3> QED
      BY <2>3, <3>1 DEF InFlight, Abstract!Next
  <2> QED
    BY <1>5, <2>1, <2>2, <2>3, KickBag
<1>6. CASE RollbackSlot
  <2>1. Committed' = Committed
    BY <1>6, RollbackLeavesNoTrace
  <2>2. InFlight' /\ result' = result
    BY <1>6 DEF RollbackSlot, InFlight
  <2> QED
    BY <2>1, <2>2 DEF Abstract!vars
<1>7. CASE RollbackDone
  <2>1. Quiet /\ InFlight' /\ result' = "TableFull"
    BY <1>7 DEF RollbackDone, InFlight
  <2>2. Abstract!InsertFails
    BY <1>0, <2>1 DEF Abstract!InsertFails
  <2> QED
    BY <2>1, <2>2 DEF Abstract!Next
<1>8. CASE RejectLength
  <2>1. Quiet /\ InFlight' /\ result' = "InvalidParams"
    BY <1>8 DEF RejectLength, CanCall, InFlight, scratch
  <2>2. Abstract!RejectLength
    BY <1>0, <2>1 DEF Abstract!RejectLength
  <2> QED
    BY <2>1, <2>2 DEF Abstract!Next
<1>9. CASE \/ KicksExhausted
           \/ \E n \in KickBudgets : SetMaxKicks(n)
           \/ EnableMutationLog \/ DisableMutationLog \/ DrainMutations \/ FromCells
  <2>1. Quiet /\ result' = result /\ pc' # "kicking"
    BY <1>9 DEF KicksExhausted, SetMaxKicks, EnableMutationLog, DisableMutationLog,
                DrainMutations, FromCells, scratch
  <2> QED
    BY <1>0, <2>1 DEF InFlight, Abstract!vars
<1>10. CASE UNCHANGED vars
  <2>1. Quiet /\ result' = result /\ UNCHANGED <<pc, cur, cur_index>>
    BY <1>10 DEF vars, scratch
  <2> QED
    BY <1>0, <2>1 DEF InFlight, Abstract!vars
<1>11. ASSUME NEW k \in Keys, NEW v \in Values, Insert(k, v)
       PROVE  InFlight' /\ [Abstract!Next]_(Abstract!vars)
  BY <1>1, <1>2, <1>11 DEF Insert, Abstract!Next, Abstract!vars
<1> QED
  BY <1>3, <1>4, <1>5, <1>6, <1>7, <1>8, <1>9, <1>10, <1>11
  DEF Next, InsertLoop, Abstract!Next

\* The store implements the bag of its classes: whatever entries a kick chain
\* moves, an insertion adds one pair or, failing, none; a deletion takes one pair
\* of the key's class, and reports NotFound only when the class is empty; an
\* update replaces one (insert, delete and update of CuckooKVStore).
THEOREM StoreRefinesBag == Spec => ImplementsBag
<1>1. Init => InFlight /\ Abstract!Init
  BY InitBag
<1>2. IInv /\ IInv' /\ InFlight /\ [Next]_vars => InFlight' /\ [Abstract!Next]_(Abstract!vars)
  BY StepBag
<1> QED
  BY <1>1, <1>2, Invariance, PTL DEF Spec, ImplementsBag, Abstract!Spec

=============================================================================
