# A TLA+ verification of IKPIR

IKPIR is an incremental keyword PIR system in Rust. A server keeps a segmented
cuckoo key-value store, publishes its slots as a matrix of small integers
(cells), and answers LWE-based PIR queries on it; clients hold a *hint* (the
product of the public matrix with the cells) and keep it current, by *delta
bundles*, while the server inserts, updates and deletes. This directory models
the system in TLA+, checks the models with TLC and proves the most important
facts with TLAPS.

Paths below are relative to `src/crates/`.

## Inventory

| Component | State | Operations | Hard behaviour | What makes it correct |
|---|---|---|---|---|
| Store, `segmented-cuckoo/src/store.rs`, `fingerprint_value_table.rs` | cells, `num_items`, `max_kicks`, mutation log, kick-chain scratch | insert (kick loop, rollback), delete, update, get, log enable/disable/drain, snapshot and `from_cells` | a kick chain of many writes that fails half way; slots kicked twice; colliding keys and duplicates; scratch shared by calls; fields of a slot that share cells | a failed insert leaves no trace; nothing is lost or duplicated; the log telescopes to the change of the table; free slots are zero; a write keeps its neighbours' bits |
| Index schemes, `scheme.rs`, `hash.rs` | none | `hash_item`, `all_indices` | candidates must be found again from any one of them, by sums of digits on masked or table-driven words | from every candidate the same set is found (`SchemeAssumption` of the store, proved for the six schemes) |
| Cuckoo filter, `filter.rs`, `fingerprint_table.rs` | the bytes of the table, `num_items`, `max_kicks` | insert, contain, delete | as the store; slots that share bytes, read through windows | as the store, without values |
| PIR backends, `ikpir-common/src/backend/` | server params (seed), matrix, hint; client slots, the slot in flight | setup, query, answer, decode, patch, precompute, rewind | arithmetic mod 2^32, reshape with a partial row, kernels by blocks and threads, two ways to patch, slots whose decode material is cached while the hint moves | decode returns the row; patched hint = recomputed hint; cached material = fresh material |
| Server, `ikpir-server/src/server.rs`, `hint_patch.rs` | store, params and matrix per segment, hints, epoch | new, setup, answer, insert/update/delete, `full_rebuild`, `drop_hint_material`, `reset_for_replay` | matrices dropped and re-expanded, seeds that change, mutations that fail | hints are those of the present cells; every delta bridges two setups |
| Clients, `ikpir-client/src/` | params, states per segment, epoch; rewind client: pending sum, pin epoch | build_query, decode, precompute, apply/accumulate delta, collect garbage, reset, resync | deltas lost, duplicated, reordered; the server moving between query, answer and decode; resets with slots in flight | state at epoch e = fresh setup at e; decode returns the value at its epoch or an error |
| Wire format, `ikpir-common/src/wire.rs` | none | encode, decode of delta bundles | bit widths at the limits, run splitting | decode inverts encode and rejects everything else |
| Sizes of tables, `from_num_items` of store and filter, `next_power_of_*` | none | the loop that grows a table | a doubled `u32`, a rounded quotient | the smallest table at the target load, found in finitely many steps |
| Parameter derivation, `ikpir-common/src/pir_params.rs` | none | moduli, widths, noise | floating point | products in range |
| Samplers, matrix kernels, threads, `backend/{matvec,parallel,patch}.rs` | none | products, seeks in the keystream, noise | tail rows, ragged bands, runs of a patch | the same result as the plain sum |
| Benches, scripts | none | measurement | - | - |

Components interact by calls. The application moves bundles between server and
client; nothing in the code orders or retries them, so the clients must cope
with any order. All calls are synchronous with exclusive access (`&mut self`):
interleavings are those of whole calls, except inside `insert`, whose steps are
modelled one by one because a failure in the middle must be undone.

## Modules

`CuckooKVStore` models the store. The table is a function from
`<<bucket, slot>>` to entries (fingerprint, value). A direct insertion is one
action; an insertion that has to kick is `InsertStartsKicking`, then one `Kick`
per iteration of the loop, then either the final placement (in the last
`Kick`) or `KicksExhausted`, one `RollbackSlot` per restored slot and
`RollbackDone`. Random choices (start bucket, slot, next bucket) are
existential. The scratch `cur_value` keeps what the last call left in it, and
`chain_room` is what `chain_values` has room for, which `set_max_kicks` must keep
equal to the budget. `known` is a history variable: the table as the consumer of the
log knows it. `SchemeAssumption` is the contract of trait `IndexScheme`.

`KVBag` is what the store promises: a bag of (class, value) pairs, a class
being a fingerprint with its candidate set. `CuckooKVStore!ImplementsBag` maps
the table, with the running kick chain taken back, to that bag.

`Digits` has numbers by their digits, in any base. `SlotBits` has the packing: `read_bits`, `write_bits`, bytes to cells and back, a
slot packed and unpacked off the store. `StoreCells` adds to the store the
cells it keeps its slots in (`FingerprintValueTable`), written in place, field
by field. `SlotBits` leaves out the fast path for cells of a byte, which skips the
accumulator when the bytes are the cells.

`PirBackend` holds the operators of the two backends. A hint `A^T.D` is linear
in `D` and in the matrix `A`, which a seed determines, so a hint is kept as
one database-shaped function per seed: patching a hint with the matrix of
another seed yields a hint that belongs to no setup. A response over `x`
decodes exactly iff the decode material is the hint of `x` under the seed of
the query; otherwise decode may return any plaintext. Cells of one row behave
alike and are represented by one.

`LweKernels` and `LwePir` are what `PirBackend` abstracts from, for one segment of
either backend: words mod `q`, the keystream of the matrix, SimplePIR's
near-square reshape, setup by any number of threads, products by blocks of
rows, patches cell by cell and by runs of rows, secrets, errors, rounding, and
`rewind_response`. `LweKernels` holds the kernels, loop by loop; `LwePir` the
server's and the client's calls.

`IkpirServer` models the server: `CommitMutations` is `insert`, `update` or
`delete` once the store has succeeded, with the phases of `commit_mutations`;
`history` records, for each epoch, database, setup bundle and the delta
emitted. `ServerReplay` adds `reset_for_replay`.

`PirClient` holds what the two clients have in common, with the application:
any delta ever emitted may be handed to the client at any time, the server may
do anything between query, answer and decode, and `reset_from` gets any bundle
that is not older than the client. `HintPatchClient` and `RewindClient` extend
it with the actions in which the clients differ. The rewind client is shown to
implement the hint-patch client, with the refinement mapping that folds the
pending sum into hint and slots.

`ServerStore` puts the server on the store it owns. It extends `StoreCells`,
steps of `insert` included, adds `commit_mutations` with the fold of the log
(`fold_mutations_into_row_deltas`) and is shown to implement `IkpirServer`: the
database of the abstract server is the cells of the table at the last commit.
`ServerScan` adds `ClientScan`, the end of `decode` in both clients, from recovered
rows to bytes; it is apart because its bitwise or is beyond the provers.

`IndexSchemes` holds the six index schemes (segmented and standard, of 2, 3 and
4 candidates) with the digit sums `xor`, `xor3`, `xor4` as the code computes
them; `IndexWalk` walks from candidate to candidate as kicks do. The way back from a
candidate is that of each scheme: over half the table (`FromHalf`), by way of a hub
(`FromHub`), or to the first candidate (`WalkBack`). `CuckooFilter`
is the filter on such a scheme and implements `KVBag` too, with no values;
`FilterTable` adds the bytes of its `FingerprintTable`.
`TableSizing` is `from_num_items`, one action per iteration of its loop.
`DeltaWire` is the encoder of delta bundles, as a function to sequences of
fields, and the decoder, as a machine that reads field by field. Bundles name rows by
segment and place, streams by bucket; `BucketOf` and `RowOf` convert. The machine
reads any stream, or (`unread`) the encoding of a bundle.

`...Proofs` modules hold the theorems, `MC*` modules and configurations the
instances for TLC; `MCDatabases` has the databases that the instances of server
and clients share. Operators named `Wrong...` (one `Stuck...`) are plausible
mistakes in the definition that follows them; no behaviour uses them. They
serve to show that each property can fail.

How the modules build on each other:

- `CuckooKVStore` and `CuckooFilter` implement `KVBag`. `StoreCells` extends
  `CuckooKVStore` and `SlotBits`, `ServerStore` extends `StoreCells`, `ServerScan`
  extends `ServerStore`. `SlotBits` and `IndexSchemes` extend `Digits`.
- `CuckooFilter` and `IndexWalk` extend `IndexSchemes`, `FilterTable` extends
  `CuckooFilter`.
- `LwePir` extends `LweKernels`.
- `IkpirServer` extends `PirBackend`; `ServerReplay` and `PirClient` extend
  `IkpirServer`; `HintPatchClient` and `RewindClient` extend `PirClient`.
- `ServerStore` implements `IkpirServer`, and `RewindClient` implements
  `HintPatchClient`.
- `DeltaWire` and `TableSizing` stand alone.
- `CuckooFilterProofs` is about index schemes, sizes, filter and bytes; it extends
  `TableSizing` and `DigitsProofs` and instantiates `CuckooKVStoreProofs`, as the store that the
  filter implements. `ServerStoreProofs` extends `CuckooKVStoreProofs` and
  `DigitsProofs`; `LwePirProofs` extends `LwePir` and `DigitsProofs`, for its laws
  of folds.

## State and actions against the code

| Module | Variable | In the code |
|---|---|---|
| `CuckooKVStore` | `table`, `num_items`, `max_kicks` | the fields of the store, the cells unpacked to slots |
| | `log_enabled`, `mutation_log`, `pending_mutations` | `mutation_log: Option<_>`, and the writes `insert` holds back |
| | `chain`, `chain_room` | `chain_meta` and `chain_values`; the length of `chain_values`, in values |
| | `cur`, `cur_index` | `cur_fingerprint` (0 between calls), `cur_value`, the local `cur_index` |
| | `pc`, `result` | the place inside `insert`; the value last returned |
| | `known` | history only |
| `StoreCells` | `cells` | `FingerprintValueTable::cells` |
| `CuckooFilter`, `FilterTable` | `table`, `data` | the fingerprints in `FingerprintTable`, and its bytes |
| `IkpirServer` | `db`, `seed`, `material`, `hint`, `epoch` | `store.as_cells()`, the seeds in `backend_params`, `backend_hint_material`, `hints`, `epoch` |
| | `history` | history only |
| `PirClient` | `cseed`, `chint`, `cepoch` | params and hints of the client's states, its epoch |
| | `prepared`, `in_flight` | the slots of precomputed secrets, and the one of the running query |
| | `query`, `response`, `outcome` | what the application holds; the last return value |
| `LwePir` | `backend`, `dbs`, `log`, `cversion` | which of the two backends; the databases so far, the row deltas between them, the one the client's hint belongs to |
| | `material`, `hint` | matrix and hint of server and client |
| | `prepared`, `in_flight`, `query`, `response` | the slots of the client state, and what is under way |
| `RewindClient` | `pending`, `pin_epoch` | the fields of those names |
| `DeltaWire` | `sent`, `unread` | the bundle encoded and what is left of its bits, if the stream is one of `encode` |
| | `read`, `at` and the rest | `BitReader`, the place in `decode` or its result, and its locals |

Actions bear the names of the functions they model. All other steps of the code
between two calls (`Answer`, delivery of a bundle, a fetch of a setup) are the
application's, which may choose any of them at any time.

## Hazards and the properties aimed at them

- A kick chain that fails has written many slots, some twice, and logged
  nothing: `FailedCallLeavesNoTrace` (a call that does not return `Ok` leaves
  table, count and log as they were), `LogReplaysToTable` (the log, replayed on
  what its consumer has, gives the table), `LogTelescopes` (the old entry of
  each write is what the writes before it have left).
- A chain returns to buckets it has changed: `KicksOnlyFullBuckets` (the bucket to be
  kicked is full, and a candidate of the entry in flight), `CountMatchesTable`, and `ImplementsBag`, by which nothing is lost, duplicated
  or changed while thrown about.
- Freed slots are published, and are cleared from a scratch value that holds
  what the last call left: `EmptySlotsAreZero`.
- The kicked values lie in a buffer sized by `set_max_kicks`: `TypeOK`.
- The server patches a hint for ever, with matrices that come and go:
  `HintsEncodeDb`, `DeltasBridgeSetups`; on the real store
  `HintsMatchServedCells`, `ImplementsServer`.
- Fields that share cells and slots that share bytes: `PackedAsStored`,
  `BytesHoldTable`. What a client unpacks is what `get` returns, stray bits, kicks
  and copies with other values included: `DecodeReadsStore`.
- Reshape, tail rows, threads, reused buffers, two ways to patch:
  `HintIsProduct`, `MaterialIsProduct`, `AnswerIsProduct` (each equals the plain
  product), `RewoundIsOlderAnswer` (a rewound answer is the answer of the older
  database to the last bit), `DecodesWithinMargin` (rounding gives the row up to
  the last error it bears).
- Deltas are lost, repeated, overtaken, and resets come at any time:
  `ClientMatchesSetup`, `PinPlusPendingIsHead`.
- Decode material is computed before a patch and used after it, and the server
  moves between query, answer and decode: `CachedMaterialIsFresh`,
  `DecodeIsExact`, `NoFalseAlarm`.
- Field widths and run boundaries on the wire: `AcceptedIsCanonical`,
  `EncodedIsAccepted` (every bundle is read to its end and comes back, at the limits
  of bucket, segment, offset and delta), `RunsAreShortest`, `SizeAsStated`.
- A kicked fingerprint must be found on the way back: `SameCandidates`,
  `InOwnSegment`, `SumsAreDigitwise`; in the filter `NoFalseNegatives`.
- Growth of a `u32`: `SmallestTable`, `FindsTable`.

## Runs

| Run | Instance | What it shows |
|---|---|---|
| `store`, `MCStoreTwoAry.cfg` | 2 segments of 2 one-slot buckets; keys of 3 classes whose buckets overlap; 2 values; budgets 0, 2 and 3 | count, zeroed slots, log, rollback at every step of every chain; the store implements `KVBag`; insertions end |
| `server_store`, `MCServerStore.cfg` | the same table, full at the start, copies of a key with two values; budget 4; fingerprints of 3 bits, values of 7 in bytes of 3, cells of 4; 2 epochs | the cells hold the slots to the bit; folded logs, of chains that write a slot twice too, patch the hints as the abstract server does; clients read what `get` reads |
| `lwe_pir`, `MCLwePir.cfg` | 14 rows of 2 cells, reshaped 3 side by side with a partial last row; words mod 256, 2-bit plaintexts, `lwe_dim` 3; blocks of 1 and 3 rows, threads 1 and 2; 3 batches of changes, 2 prepared slots; both backends | every product equals its definition; answers rewind to the bit; rounding up to its margin |
| `hint_patch`, `MCHintPatch.cfg` | 2 segments of 2 rows, 3 databases, 3 epochs, 2 seeds, 1 prepared slot | server: patched hints are fresh hints, deltas bridge setups; client: state is a fresh setup of its epoch, decode is exact |
| `rewind`, `MCRewind.cfg` | the same with 2 databases | pin plus pending is the head, decode is exact, no false alarm; behaves as the hint-patch client |
| `delta_wire`, `MCDeltaWire.cfg` | 3 segments of 2 rows of 4 cells, 2-bit plaintexts, code points 0, 3, 6, 7, up to 2 rows and 3 non-zero deltas | every stream of such fields, valid or not: accepted only if canonical, size, fewest bits; every bundle comes back from its encoding |
| `index_walk`, `MCIndexWalk.cfg` | 4-bit indices, 5-bit fingerprints, ranges up to base^2, two chunks of a digit for `xor3` | the six schemes, every fingerprint |
| `filter`, `MCCuckooFilter.cfg` | standard scheme of 4 candidates, 4 buckets of 2 slots, 4 items, two of them of one class; budgets 0 and 2; bytes of 3 bits | no false negatives, count, bytes, the filter implements `KVBag` |
| `sizing`, `MCTableSizing.cfg` | 6-bit words, up to 256 items, bucket sizes 1 and 4, builds with and without overflow checks | the smallest table at the target load, found whenever it exists |
| `decode_panics`, `replay`, `sizing_returns` | as above or smaller | violations: see Findings |

### Bounds, and why they are enough

- *Kick budgets.* 3 kicks on 4 buckets let a chain return to a slot it has
  kicked, 4 let the writes of one *successful* chain hit a slot twice (that is
  why `server_store` has 4). 0 is the edge where no kick is allowed. The code
  kicks up to 500 times; a chain has no memory beyond `chain`, and the
  theorems hold for any budget. The store starts with 2, so that `set_max_kicks` both
  raises and lowers it.
- `MaxLog = 0`: no call starts with an undrained log, as the server has it,
  which drains after each call. The log still grows to budget + 1 writes
  inside a call. The proofs allow any `MaxLog`.
- *Keys.* A key is its fingerprint and its first bucket; two keys of equal pairs
  take the same steps. Three classes share buckets and two share a fingerprint.
- *Databases.* Mutations between the three change one cell, or cells in both
  segments as a chain does, or undo each other; with two, every second delta
  cancels the one before, the case in which `pending` sums to zero. An offset
  in a row behaves as any other, so a row is one cell.
- `MaxEpoch`, `MaxSeed`, `MaxPrepared`: three epochs allow a gap of two deltas, a
  late and a repeated one; two seeds one rebuild. One prepared slot is what
  tells a query with material from one without.
- *Wire.* 6 buckets leave bucket and code fields with values out of range, and a
  run may end beyond its row; rows of 4 cells have gaps shorter and longer than
  `max_gap`; two rows can be out of order, equal, or in one or two segments, of
  which there are not as many as rows in each. Code points are the least and the
  largest delta, zero, and the one beyond the largest. `MaxDeltas` 3 allows two runs in
  one row and another in the next. Of the padding at most one bit is set.
- *Index schemes.* Words are narrower than 32 bits, but in the proportions of
  the code: fingerprints are wider than an index, the largest range fills both
  chunks, and the multipliers are the low bytes of the constants.
- *Filter.* Of its fingerprints one has a single bucket four times, one has two
  buckets twice, one has all four. Two items have the first of these: each may be
  deleted in place of the other, and any item without having been inserted.
- *Cells and bytes.* A byte has 3 bits: the fields of a slot cross cells, the last
  field of a value is shorter than a cell, and bits are left over in the last
  byte of a value and the last cell of a slot. In the filter, a fingerprint
  crosses bytes, at every offset in a byte.
- *Backends.* The errors come up to half of `delta` and beyond, so that rounding
  is tested on both sides of its margin. Batches have rows that share a reshaped
  row, rows out of order, a row of the partial last one, changes that repeat,
  cancel and are zero. FrodoPIR's 14 rows and SimplePIR's 4
  full ones leave rows over after blocks of 3 (the code has powers of two up to 16);
  2 threads get unequal bands. The keystream is one fixed sequence without
  structure: nothing in the kernels depends on its words.
- *Sizing.* 6-bit words for 32-bit ones, with items up to four times the largest
  bucket count, so that every outcome occurs.

### Fairness

There are three liveness properties. `InsertTerminates` assumes weak fairness of
the steps inside `insert` (`FairSpec` has `WF` of `InsertLoop`): once entered,
the function runs its loop to the end on its caller's thread and waits for
nothing. `FindsTable` assumes the same of `from_num_items`, and
`EncodedIsAccepted` of `decode`: a decoder that stops in the middle of a stream
violates it as one that refuses it does. No fairness is
assumed of the application: it may stop calling for ever, and no property says
that a client becomes current. Deadlock is checked in all runs except those of
`DeltaWire` and `TableSizing`, single calls that end.

## Findings

Three runs end in a violation of what a comment of the code says.

1. `decode_panics`: the comment at
   `ikpir-common/src/backend/simple/backend.rs:410-414` calls decoding with no
   query in flight *"an unreachable backend bug, never reachable from user
   input"*. A `reset_from` with a bundle of the same epoch between `build_query`
   and `decode` leaves none in flight and lets the response pass the epoch
   check; decode then panics.
2. `replay`: the doc of `reset_for_replay` (`ikpir-server/src/server.rs:492-495`)
   says that the seeds *"depend only on the seed, which is unchanged - so the
   post-reset (seed, A, hints) triple is identical to the original epoch-0
   state"*. `full_rebuild` samples new seeds, and the reset keeps them next to
   hints of the old ones.
3. `sizing_returns`: the doc of `from_num_items`
   (`segmented-cuckoo/src/store.rs:732-735`) promises `Ok`, or *"`Err(CuckooError::InvalidParams)`
   if any scalar constraint is violated or `max_items` exceeds the `u32`
   num-buckets cap."* Between what the largest table takes at the target load
   and that cap the doubling overflows: with overflow checks it panics, without
   it wraps to 0 and the loop never ends.

Two remarks that no run shows. The doc of `update` advises to call it repeatedly
to reach all duplicates of a key (`segmented-cuckoo/src/store.rs:1413-1414`); it
rewrites the first match, which stays the first match, so that repeating it
reaches no other. And when copies of a key hold different values, `get`
returns the first, a client the bitwise or of all (`DecodeReadsStore`).

## Proofs

All theorems hold for every value of the constants that satisfies the
assumptions. Except for those on schemes and on rounding, they are of the form `Spec => []P`
or `Spec => [][A]_vars`, from an inductive invariant, or `Spec => A!Spec`, for an
abstract specification `A`, from an invariant and one step for each action.

*Assumptions.* `SizeAssumption`, `DataAssumption` (fingerprints of keys are not
zero; one value is all zeros), `SchemeAssumption` (the contract of `IndexScheme`,
which `SchemeContract` proves of the six schemes); `WidthAssumption` and
`FilterAssumption` (widths, sizes and one of the six schemes), `TableAssumption`
(widths of bytes and windows; no fingerprint is wider than a window), `WalkAssumption`;
`SizingAssumption` (the width of a word, bucket sizes from 1 to 4);
`CellAssumption`, `DatabaseAssumption`, `PreparedAssumption` (sizes and types only);
`BitsAssumption`, `BytesAssumption` and `ServerAssumption` (widths; the bytes of a
value are packed to cells that tell values apart; the segments divide the buckets,
and the first table has zeros in its empty slots);
`LweAssumption` (`delta` is even and divides the modulus; a power of two is a positive
natural) and `LwePirAssumption` (types; batches name rows and offsets of the segment, as the
`debug_assert!`s of the patches say, and keep cells plaintexts by the guard of `Mutate`). `PowersUpTo` in them says
that `b^0 = 1` and `b^(k + 1) = b * b^k`, of the bases and exponents of the words:
the definition of powers, which the provers lack and TLC evaluates.

*Store* (`CuckooKVStoreProofs`). `TypeCorrect`, `CountCorrect`,
`EmptySlotsCorrect`, `KicksCorrect`, `NoTrace`, all from `Invariance`. None of
the invariants is inductive alone. `IInv` adds `ChainOccupied` (the entries a
chain has evicted are real ones) and `ChainOnlyInInsert` (between calls the
chain is empty): without them a rollback could bring an empty slot back, and the
count would be wrong. `RoomForBudget` says that `chain_values` has room for exactly as
many values as the budget allows kicks, which is how `TypeOK` follows, by which that
buffer does not overflow.

`LogInvariance` is about the log: `LogIsGapless` and `LogComplete` (`LogTelescopes`
and `LogReplaysToTable`). Its invariant `LogInv` says that the writes of the log
lead, slot by slot, from `known` to the committed table (the present one with the
running chain taken back), and together with the pending writes of that chain to
the present table. What a replay computes is a fold; `ReplayIsLastWrite` says
that it leaves in each slot the entry of its last write. No induction theorem of the
library can be instantiated, so it is proved by the least number of writes for
which it would fail.

`StoreRefinesBag` (`ImplementsBag`): the bag counts, for each class and value,
the slots of the committed table. A kick moves the chain's far end and leaves
the committed table alone, so it is a stutter; only the last placement, a direct
insertion, an update and a deletion change a count, each by one.

*Filter* (`CuckooFilterProofs`). The filter is shown to be a store with one value
and no log (`FilterIsStore`), step by step, from `FilterInvariance`. `FilterCount`
(`CountMatchesTable`) and `FilterRefinesBag` (`ImplementsBag`) are then theorems of
the store. `FilterNoFalseNegatives` needs an invariant of its own, `Counted`: of
each class, the table (with the fingerprint in flight during a chain) holds as
many as were stored and not deleted. That a bucket holds one somewhere is not
inductive: with two items of one class, a deletion takes one of two equal
fingerprints, and it is the count that shows the other to be still there.

*Bytes of the filter* (in `CuckooFilterProofs`). `FilterBytesHoldTable`, from
`BytesInvariance`: the bytes read, slot by slot, as the table. A window is the
number whose digits are its bytes, so its bits are bits of the data (`LoadBits`),
and a write replaces a run of digits of that number and no other (`Splice`,
`StoreBits`). Slots have bits of their own (`SlotsApart`), a fingerprint is known
by its bits (`SameField`), and a fold over the slots a step writes leaves in each
what was last stored there, in whatever order (`StoresLaw`, by `FiniteClimb`).
`Widths` is where the width of the window comes in: a fingerprint that starts at
the last bit of a byte still ends inside it.

*Index schemes* (in `CuckooFilterProofs`). `SchemeContract`, for words of any even
width, any multipliers and every size the constructors let pass; from it
`WalkFindsCandidates`, `WalkKeepsSegments` and `WalkAddsDigits` by the invariant
`WalkInv`. In `DigitsProofs`, a number below `base^n` is its `n` digits (`SameDigits`), and
`FromDigitsLaw` says that the fold over digits gives the number that has them,
again by a least counterexample. So a sum digit by digit stays below the power,
adding an offset `base` times leads back to the start, and `xor3` and `xor4`
equal the sum because they have its digits: chunks are groups of base-3 digits,
base-4 digits pairs of bits, and the masks of `xor4` carry the low bit into
the high one. A segmented scheme then undoes its offsets in reverse order
(`SegmentedWalk`; the ways by half and hub lead to the same candidates, `SegmentedWays`), a standard one goes round (`StandardWalk`). With this the
theorems on the filter need no assumption on its scheme.

*Sizes* (in `CuckooFilterProofs`). `SmallestTableFound` (`SmallestTable`), from
`SizingInvariance`: in the loop, either the size is a power with every lawful size below it
too small for the items (`Overloaded`), or no lawful size will do. The second case is
there because a build without overflow checks wraps around, for the standard
3-candidate scheme to words that may be a power of 3 again: a size that wraps has passed all
lawful ones (`WrappedSize`), so if it is lawful it is too small as well, and is not
returned. That the loop may start at the least power that has as many slots as
there are items (`FirstSize`) rests on target loads below 1 (`LoadAboveItems`).

*Server* (in `PirClientProofs`). `HintsCorrect` and `DeltasCorrect`, from
`ServerInvariance`. `HintsEncodeDb` holds only as long as each matrix in memory
is that of the present seed (`MaterialOfSeed`), and the deltas in `history` say
something only together with the databases they lie between
(`HistoryOfSetups`, `DeltasOfDatabases`).

*The server on its store* (`ServerStoreProofs`). `CellsAsPacked` (`PackedAsStored`),
`HintsAreServed` (`HintsMatchServedCells`) and `StoreServes` (`ImplementsServer`),
from `ServerStoreInvariance`. None is inductive alone: that the hints are right
between calls needs to be known during a call, where they lag behind the cells.
`ServerIInv` therefore has the invariants of store and log (`IInv`, `LogInv`), says
that the cells hold the table at every step (`StoreHolds`), that the hints are
those of the table at the last commit (`known`), that a matrix in memory is that of
the present seed, and that a call runs only below the last epoch.
The argument has three parts. (1) Bits: a cell is known by its bits (`SameBits`),
`write_bits` replaces the bits of its field and no other (`WriteBitsLaw`),
`write_value` those of the fields of a value (`WriteValueLaw`), slots have cells
of their own (`SlotsApart`), and a fold over the slots a step writes leaves in each
its new entry, in whatever order (`WrittenLaw`). Packing off the store writes the
same fields to cells of zeros (`PackLaw`), hence the same bits.
(2) Sums: in a log without gaps, what a write replaces is what the writes before
it left (`GapFree`), so that the differences of a cell telescope to the change
since the last commit, however often a kick chain wrote its slot (`FoldLaw`).
(3) Linearity: a hint patched with the difference of two databases is the hint of
the second, if the matrices of the touched segments are those of the seed
(`PatchLaw`). The steps of a call are stutters of the abstract server, whose
database is the cells of `known`; the commit takes it from there to the table.

*Clients.* `PirClientProofs` then has the part that both share, `PirInv`: cached
decode material is that of the client's hint, a response is over the database
of its epoch, and what was decoded is exact. `HintPatchClientProofs` adds
`ClientMatchesSetup`, and proves `ClientCorrect`, `HintPatchMaterialFresh`,
`HintPatchDecodeCorrect`. `RewindClientProofs` adds `PinPlusPendingIsHead` and
proves `PinCorrect`, `RewindMaterialFresh`, `RewindDecodeCorrect`,
`RewindNoFalseAlarm`, and `RewindRefines`: the rewind client implements the
hint-patch client (`ImplementsHintPatch`), with `pending` folded into hint and
slots. The argument is linearity: a hint of a database patched
with the difference to another is the hint of the other, under the same seed;
and an emitted delta never crosses a change of seed.

*Backends* (`LwePirProofs`). `HintsCorrect` (`HintIsProduct`), `MaterialCorrect`,
`AnswersCorrect`, `RewindingCorrect` (`RewoundIsOlderAnswer`) and `DecodingCorrect`
(`DecodesWithinMargin`), for every modulus, shape, keystream, database, history of
batches, number of threads and length of blocks, from `WordsInvariance`. The
properties are not inductive. That cached material is the right product after a
patch needs the hint to be right before it, and that an answer rewinds needs the
databases of all versions to differ by exactly the batches of the log: `WordsInv` says,
for each part of the state, which product it is and of which version. Slots
carry `b = A s + e` (`Masked`), so that of a query in flight it is known which secret
takes its mask away.
The argument has four parts. (1) Sums: the code has no sum as such, but loops; a
fold over a finite set is a sum that can be split, exchanged, renamed and taken
together by the values of a function (`SumFibres`), all from taking one element
away (`SumLaw`), by induction over subsets (`FiniteClimb`); and words are congruence
modulo `q` (`Cong`).
(2) Places: each cell has one place in the reshaped matrix, the last row of which is
padded (`Place`, `DLaw`); with it blocks and rest (`MatvecLaw`), bands of threads
(`SetupHintLaw`) and the scalar tail (`AnswerLaw`) are the plain product. What the
constructor rounds, the shape, is shown to exist (`ReshapeK`).
(3) Patches: what a batch changes at a place, added up over the places of a column,
is what its changes add up to, one after the other (`SpreadLaw`), so each
mode needs only the vector it multiplies with: for rows a buffer that is
clean at the start of each run (`RowStepInv`), for entries the runs of `TouchedRuns`,
where the fold over the sorted changes adds each to its own column and to no
other (`Whole`, `PushLaw`, `TouchedLaw`). Hence `ApplyPatchLaw`, and with the sums of rows
and columns exchanged `PatchCLaw`. Changes summed by cell, those that cancel left
out, take an answer back to the older version (`Telescope`, `RewindLaw`).
(4) Rounding: decoding leaves error and cell (`ResidualLaw`), and `RoundingUndoesError`
says exactly which errors rounding undoes: from `-delta/2` up to `delta/2 - 1`, round
the modulus too. That `DecodesWithinMargin` is an equivalence shows that nothing
else in the protocol takes of the margin or adds to it.

*Only model-checked.* Liveness (the prover has no support for fairness and
`ENABLED`), `EncodedIsAccepted` included. `DecodeReadsStore`: its bitwise or is a recursive operator, and the
cells of a value are read back to bytes by a loop over an accumulator. The wire
format: its streams are sequences flattened and folded field by field, and the
laws of such sequences, which its round trip would rest on, are not proved here.

*Only proved.* The types of the two clients (`HintPatchTypeCorrect`,
`RewindTypeCorrect`) and `CachedMaterialIsFresh` of the rewind client hold for
every instance by their theorems and are not run again.

## Not modelled

- The distributions of secrets and errors: `LwePir` takes any from a given
  set, and rounds. That the noise stays within the margin is a matter of
  probability; `DecodesWithinMargin` says what decode returns when it does.
- ChaCha as such: the keystream is an arbitrary sequence of words, read and
  sought as the code does.
- SIMD and unrolling within a row, which add up the same words in other orders
  (addition mod 2^32); the threads' joins come before any use of a result.
- `pir_params`, floating-point formulas for moduli and noise.
- The fast path of packing for cells of a byte, which skips the accumulator when
  the bytes are the cells.
- The byte layer of the wire format (fields to bytes), and the bundles other than
  deltas, which are flat records.
- Snapshots and `from_cells` as operations of the store: they copy cells, which
  `ServerStore` starts from.
- Benches, scripts, examples.

## Plan

Done so far, in this order: store, server, clients, composition of server and
store, wire format, index schemes, filter, sizing; proofs of store, server and
both clients; then the packing of slots, cells and bytes, the scan of decoded
rows, the algebra and the kernels of both backends; proofs of the store's log,
of the index schemes, sizes, the filter and its bytes, of the refinements of store,
filter and rewind client, of the server on its store, down to the bits, and of the
backends, down to the words. Next:

1. `PirBackend` shown to be the abstraction of `LwePir`, once words are wide
   enough for every error of the instance to be within the margin.
2. The remaining bundles of the wire format.
3. Proofs: the round trip of `DeltaWire`.
