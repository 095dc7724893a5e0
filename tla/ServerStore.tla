----------------------------- MODULE ServerStore -----------------------------
(***************************************************************************)
(* IkpirServer on the CuckooKVStore it owns: insert, update and delete run *)
(* the store, and when it succeeds commit_mutations folds the log of its   *)
(* writes into the delta that patches the hints and goes to the clients.   *)
(*                                                                         *)
(* The server has exclusive access to its store, so nothing comes between  *)
(* the call of the store and commit_mutations; every state in between is   *)
(* one inside the call.  What the server encodes is the cells of the       *)
(* store, bit-packed; what it folds are slots packed off the store.        *)
(***************************************************************************)
EXTENDS StoreCells

CONSTANTS
  InitialTable,  \* the table of the populated store the server is built on
  MaxSeed,       \* bound: the number of times new seeds are sampled
  MaxEpoch       \* bound: the last epoch

ASSUME ServerAssumption ==
  /\ NumBuckets % Arity = 0
  /\ InitialTable \in [Locs -> Entries]
  /\ \A l \in Locs : InitialTable[l].fp = 0 => InitialTable[l] = Empty

VARIABLES seed, material, hint, epoch, history   \* as in IkpirServer

serverVars == <<seed, material, hint, epoch, history>>
allVars    == <<vars, cells, serverVars>>

-----------------------------------------------------------------------------
segment_size == NumBuckets \div Arity

\* A cell of a segment: its row, a bucket of the segment, and the offset in
\* the row, which packs slot by slot.
ServerRows == (0 .. segment_size - 1) \X (0 .. BucketSize * cells_per_slot - 1)

LocOf(cell)    == <<cell[1] * segment_size + cell[2][1], cell[2][2] \div cells_per_slot>>
IndexOf(cell)  == cell[2][2] % cells_per_slot

Back == INSTANCE PirBackend WITH Segments <- Positions, Rows <- ServerRows

\* The matrices of the segments: slices of as_cells.
Served == [cell \in Back!Cells |-> cells[FirstCell(LocOf(cell)) + IndexOf(cell)]]

\* What they should be for a table.
AsCells(tbl) == [cell \in Back!Cells |-> Packed[tbl[LocOf(cell)]][IndexOf(cell)]]

\* Empty slots of a table the store publishes are zero.
Published == {AsCells(tbl) : tbl \in [Locs -> {e \in Entries : e.fp = 0 => e = Empty}]}

\* The server these calls implement: a mutation changes the published cells
\* to those of another table.
Server == INSTANCE IkpirServer WITH
            Segments  <- Positions,
            Rows      <- ServerRows,
            Databases <- Published,
            InitialDb <- AsCells(InitialTable),
            db        <- AsCells(known)

(***************************************************************************)
(* fold_mutations_into_row_deltas: the differences of the cells sum up, a  *)
(* cell whose differences sum to zero being left out, which reads as zero. *)
(***************************************************************************)
CellDelta(m, cell) ==
  IF LocOf(cell) = m.loc THEN Packed[m.new][IndexOf(cell)] - Packed[m.old][IndexOf(cell)]
                         ELSE 0

WrongFold(muts) ==   \* the last write of a slot stands for all of them
  [cell \in Back!Cells |->
     FoldLeft(LAMBDA acc, m : IF LocOf(cell) = m.loc THEN CellDelta(m, cell) ELSE acc, 0, muts)]

Fold(muts) ==
  [cell \in Back!Cells |-> FoldLeft(LAMBDA acc, m : acc + CellDelta(m, cell), 0, muts)]

-----------------------------------------------------------------------------
\* new, on a store whose calls before are not of interest here.
ServerInit ==
  /\ table = InitialTable
  /\ cells = Written(ZeroCells, EmptyTable, InitialTable)
  /\ num_items = Cardinality(Occupied(InitialTable))
  /\ max_kicks = DefaultMaxKicks
  /\ chain_room = DefaultMaxKicks
  /\ log_enabled = TRUE
  /\ mutation_log = <<>>
  /\ pending_mutations = <<>>
  /\ chain = <<>>
  /\ cur = Empty
  /\ cur_index = 0
  /\ pc = "ready"
  /\ result = "none"
  /\ known = InitialTable
  /\ Server!ServerInit

\* No call is running.
Idle == pc = "ready" /\ mutation_log = <<>>

\* insert, update and delete of the server, up to commit_mutations.
StoreStep ==
  /\ \/ /\ Idle
        /\ epoch < MaxEpoch
        /\ \/ \E k \in Keys, v \in Values : Insert(k, v) \/ Update(k, v)
           \/ \E k \in Keys : Delete(k)
           \/ RejectLength
     \/ InsertLoop
  /\ cells' = Written(cells, table, table')
  /\ UNCHANGED serverVars

CommitMutations ==
  LET delta == Fold(mutation_log)
  IN  /\ DrainMutations
      /\ material' = Server!Expanded(delta)
      /\ hint' = Back!Patch(hint, material', delta)
      /\ epoch' = epoch + 1
      /\ UNCHANGED <<cells, seed>>
      /\ Server!Publish(TRUE, delta)

\* full_rebuild, from the cells of the store.
FullRebuild ==
  /\ Idle
  /\ epoch < MaxEpoch
  /\ seed < MaxSeed
  /\ seed' = seed + 1
  /\ material' = [j \in Positions |-> seed']
  /\ hint' = Back!Encode(seed', Served)
  /\ epoch' = epoch + 1
  /\ UNCHANGED <<vars, cells>>
  /\ Server!Publish(FALSE, Back!ZeroDelta)

DropHintMaterial ==
  /\ Idle
  /\ material' = [j \in Positions |-> Server!NoMaterial]
  /\ UNCHANGED <<vars, cells, seed, hint, epoch, history>>

ServerNext == StoreStep \/ CommitMutations \/ FullRebuild \/ DropHintMaterial

ServerSpec == ServerInit /\ [][ServerNext]_allVars

-----------------------------------------------------------------------------
\* Between calls, the hints belong to the cells that answer serves, kicks,
\* rollbacks and rejected calls included (commit_mutations, insert).
HintsMatchServedCells == Idle => hint = Back!Encode(seed, Served)

\* The delta of a commit is the change of the published cells, with slots a
\* kick chain wrote more than once, and so every behaviour of server and
\* store is one of IkpirServer (fold_mutations_into_row_deltas).
ImplementsServer == Server!ServerSpec

=============================================================================
