------------------------------- MODULE LwePir --------------------------------
(***************************************************************************)
(* One segment served by FrodoPirBackend or SimplePirBackend, down to the  *)
(* words: the server mutates its database and patches its hint, the client *)
(* patches its own hint and slots when it pleases, and in between prepares *)
(* slots, queries and is answered.  An answer may be newer than the        *)
(* client's hint and is then rewound, as RewindClient does.                *)
(*                                                                         *)
(* PirBackend takes what this module checks for granted: that hints,       *)
(* patches, material, answers and rewinding all stand for the same         *)
(* product, and that decoding finds the cells.                             *)
(***************************************************************************)
EXTENDS LweKernels

CONSTANTS
  None,         \* no material, query, answer
  Keystream,    \* the ChaCha20 words of the segment's seed
  InitialDb,
  Batches,      \* the batches of row deltas that happen
  Secrets,      \* secrets and errors sampled, by backend
  Errors,
  QueryRows,    \* bound: the rows asked for
  BlockRows,    \* rows in a block of matvec_accumulate, on any architecture
  Threads,      \* setup threads; 1 stands for the sequential fallback too
  MaxVersion,   \* bound: the number of mutations
  MaxPrepared   \* bound: the number of prepared slots

Backends == {"frodo", "simple"}

\* FrodoPIR keeps the rows as they are, SimplePIR reshapes.
Shape(b) == IF b = "simple" THEN reshape_k ELSE 1

ASSUME LwePirAssumption ==
  /\ Keystream \in [0 .. n_rows * lwe_dim - 1 -> Words]
  /\ InitialDb \in [0 .. n_rows * row_width - 1 -> Plaintext]
  /\ \A b \in Backends :
       /\ Secrets[b] \subseteq [0 .. lwe_dim - 1 -> IF b = "frodo" THEN Ternary ELSE Words]
       /\ Errors[b] \subseteq [0 .. Rows(Shape(b)) - 1 -> IF b = "frodo" THEN Ternary ELSE Words]
  /\ Batches \subseteq Seq(RowDeltas)
  /\ QueryRows \subseteq 0 .. n_rows - 1
  /\ BlockRows \subseteq Nat \ {0} /\ Threads \subseteq Nat \ {0}
  /\ MaxVersion \in Nat /\ MaxPrepared \in Nat

VARIABLES
  backend,
  material,    \* A, as expanded by the server and by the client
  hint,        \* of the server and of the client
  log,         \* the batches of the mutations so far
  dbs,         \* history: the databases before and after each of them
  cversion,    \* how many of them the client has applied
  prepared,
  in_flight,
  query,       \* on the way, with its row as a history field
  response     \* received, with the version it was made at

serverVars == <<log, dbs>>
clientVars == <<cversion, prepared, in_flight>>
wireVars   == <<query, response>>
vars       == <<backend, material, hint, serverVars, clientVars, wireVars>>

k  == Shape(backend)

-----------------------------------------------------------------------------
\* sample_slot: a PreparedSlot, b = A s + e; e is a history field.
SampleSlot(secret, e) ==
  [secret |-> secret, e |-> e, c |-> None,
   b |-> [i \in 0 .. Rows(k) - 1 |->
            (e[i] + SumFunction([j \in 0 .. lwe_dim - 1 |->
                      material.client[i * lwe_dim + j] * secret[j]])) % q]]

FreshSlots == {SampleSlot(s, e) : s \in Secrets[backend], e \in Errors[backend]}

\* compute_c.
ComputeC(secret, R) == MatvecAccumulate(Zeros(Width(k)), hint.client, secret, lwe_dim, R)

WithC(slot, R) == IF slot.c = None THEN [slot EXCEPT !.c = ComputeC(slot.secret, R)] ELSE slot

\* apply_patch, by mode; both backends share the entry-level one.
ApplyPatch(a, h, batch, mode) ==
  CASE mode = "EntryLevel"                       -> PatchEntryLevel(a, h, batch, k)
    [] mode = "RowLevel" /\ backend = "simple"   -> PatchRowLevelSimple(a, h, batch, k)
    [] mode = "RowLevel" /\ backend = "frodo"    -> PatchRowLevelFrodo(a, h, batch, k)

Modes == {"EntryLevel", "RowLevel"}

\* The database after a batch; mutations keep its cells plaintexts.
Mutated(db, batch) ==
  [c \in DOMAIN db |-> db[c] + ChangeAt(batch, c \div row_width, c % row_width)]

-----------------------------------------------------------------------------
\* expand_hint_material, or the parallel one.
Expanded(threads) == IF threads = 1 THEN SampleA(Keystream, k)
                                    ELSE SampleAParallel(Keystream, k, threads)

\* The hint of server_setup, or of the parallel one.
SetupHint(a, threads) == IF threads = 1 THEN ComputeHint(a, InitialDb, k)
                                        ELSE ComputeHintParallel(a, InitialDb, k, threads)

\* Server and client are set up, each on its number of threads.
Init ==
  /\ backend \in Backends
  /\ \E ts, tc \in Threads :
       /\ material = [server |-> Expanded(ts), client |-> Expanded(tc)]
       /\ LET h == SetupHint(material.server, ts) IN hint = [server |-> h, client |-> h]
  /\ log = <<>>
  /\ dbs = <<InitialDb>>
  /\ cversion = 0
  /\ prepared = <<>>
  /\ in_flight = None
  /\ query = None
  /\ response = None

\* A mutation of the database with server_patch_hint.
Mutate(batch, mode) ==
  LET db == Mutated(Last(dbs), batch)
  IN  /\ Len(log) < MaxVersion
      /\ db \in [DOMAIN InitialDb -> Plaintext]
      /\ dbs' = Append(dbs, db)
      /\ log' = Append(log, batch)
      /\ hint' = [hint EXCEPT !.server = ApplyPatch(material.server, @, batch, mode)]
      /\ UNCHANGED <<backend, material, clientVars, wireVars>>

WrongPatchSlot(slot, batch) == slot   \* the material is not patched

PatchSlot(slot, batch) ==
  IF slot.c = None THEN slot
  ELSE [slot EXCEPT !.c = PatchC(material.client, slot.secret, @, batch, k)]

\* client_patch_state, with the oldest batch not applied yet.
ClientPatchState(mode) ==
  LET batch == log[cversion + 1]
  IN  /\ cversion < Len(log)
      /\ hint' = [hint EXCEPT !.client = ApplyPatch(material.client, @, batch, mode)]
      /\ prepared' = [i \in DOMAIN prepared |-> PatchSlot(prepared[i], batch)]
      /\ in_flight' = IF in_flight = None THEN None
                      ELSE [in_flight EXCEPT !.slot = PatchSlot(@, batch)]
      /\ cversion' = cversion + 1
      /\ UNCHANGED <<backend, material, serverVars, wireVars>>

\* client_precompute_queries of one slot; more are calls in a row.
ClientPrecomputeQueries ==
  /\ Len(prepared) < MaxPrepared
  /\ \E slot \in FreshSlots : prepared' = Append(prepared, slot)
  /\ UNCHANGED <<backend, material, hint, serverVars, cversion, in_flight, wireVars>>

ClientPrecomputeDecodes(R) ==
  /\ prepared' = [i \in DOMAIN prepared |-> WithC(prepared[i], R)]
  /\ in_flight' = IF in_flight = None THEN None
                  ELSE [in_flight EXCEPT !.slot = WithC(@, R)]
  /\ UNCHANGED <<backend, material, hint, serverVars, cversion, wireVars>>

InFlight(slot, row) == [slot |-> slot, bucket_within |-> row % k]

\* client_query: of the oldest prepared slot, or a fresh one.
ClientQuery(row) ==
  /\ \E slot \in (IF prepared = <<>> THEN FreshSlots ELSE {Head(prepared)}) :
       /\ in_flight' = InFlight(slot, row)
       /\ query' = [row |-> row,
                    b   |-> [slot.b EXCEPT ![row \div k] = (@ + round_p_to_q(1)) % q]]
  /\ prepared' = IF prepared = <<>> THEN <<>> ELSE Tail(prepared)
  /\ response' = None
  /\ UNCHANGED <<backend, material, hint, serverVars, cversion>>

WrongAnswer(db, b, R) ==   \* the rows of a partial last row are left out
  MatvecAccumulate(Zeros(Width(k)), db, b, n_rows \div k, R)

\* server_answer: the full reshaped rows in the blocked kernel, then the rows
\* of a partial last one, each at its place.
Answer(db, b, R) ==
  LET full  == n_rows \div k
      dense == MatvecAccumulate(Zeros(Width(k)), db, b, full, R)
      TailRow(j) == full * k + j \div row_width   \* the row at place j, if any
  IN  [j \in 0 .. Width(k) - 1 |->
         IF TailRow(j) < n_rows
         THEN (dense[j] + b[full] * db[TailRow(j) * row_width + (j % row_width)]) % q
         ELSE dense[j]]

ServerAnswer(R) ==
  /\ query # None /\ response = None
  /\ response' = [a |-> Answer(Last(dbs), query.b, R), version |-> Len(log)]
  /\ UNCHANGED <<backend, material, hint, serverVars, clientVars, query>>

Next ==
  \/ \E batch \in Batches, mode \in Modes : Mutate(batch, mode)
  \/ \E mode \in Modes : ClientPatchState(mode)
  \/ ClientPrecomputeQueries
  \/ \E R \in BlockRows : ClientPrecomputeDecodes(R) \/ ServerAnswer(R)
  \/ \E row \in QueryRows : ClientQuery(row)

Spec == Init /\ [][Next]_vars

-----------------------------------------------------------------------------
(***************************************************************************)
(* Decoding reads the client's state only: the response rewound by what    *)
(* the batches between the client's version and its own changed, then      *)
(* client_decode.                                                          *)
(***************************************************************************)
Pending ==
  LET Change(cell) == SumFunction([v \in cversion + 1 .. response.version |->
                                     ChangeAt(log[v], cell[1], cell[2])])
  IN  [cell \in {cell \in (0 .. n_rows - 1) \X (0 .. row_width - 1) : Change(cell) # 0} |->
         Change(cell)]

Rewound == Rewind(response.a, query.b, Pending, k)

\* client_decode.
Residual(a, R) ==
  LET slot == in_flight.slot
  IN  IF slot.c # None THEN [j \in DOMAIN a |-> (a[j] - slot.c[j]) % q]
      ELSE MatvecAccumulate(a, hint.client, [i \in DOMAIN slot.secret |-> (-slot.secret[i]) % q],
                            lwe_dim, R)

ClientDecode(a, R) ==
  LET residual == Residual(a, R)
  IN  [j \in 0 .. row_width - 1 |-> round_q_to_p(residual[in_flight.bucket_within * row_width + j])]

-----------------------------------------------------------------------------
\* The reshaped matrix D of a database, padded with zeros, and v D.
D(db, r, j) == LET at == r * Width(k) + j IN IF at \in DOMAIN db THEN db[at] ELSE 0
Times(v, db) ==
  [j \in 0 .. Width(k) - 1 |->
     SumFunction([r \in 0 .. Rows(k) - 1 |-> v[r] * D(db, r, j)]) % q]

\* The hint of a database, A transposed times D, with A read off the seed.
HintOf(db) ==
  [x \in 0 .. lwe_dim * Width(k) - 1 |->
     SumFunction([r \in 0 .. Rows(k) - 1 |->
       Keystream[r * lwe_dim + x \div Width(k)] * D(db, r, x % Width(k))]) % q]

ClientDb == dbs[cversion + 1]

\* Hints set up in any number of threads and patched in either mode, any
\* number of times and on both sides, are those of the reshaped database,
\* partial last row included (compute_hint_parallel, apply_patch).
HintIsProduct == hint.server = HintOf(Last(dbs)) /\ hint.client = HintOf(ClientDb)

\* c stays the product of the secret and the hint of the client's database,
\* whenever it was computed (compute_c, patch_slot_c).
Slots == {prepared[i] : i \in DOMAIN prepared}
           \cup (IF in_flight = None THEN {} ELSE {in_flight.slot})

MaterialIsProduct ==
  \A slot \in Slots : slot.c # None =>
    slot.c = [j \in 0 .. Width(k) - 1 |->
                SumFunction([i \in 0 .. lwe_dim - 1 |->
                  slot.secret[i] * HintOf(ClientDb)[i * Width(k) + j]]) % q]

\* The blocked kernel and the scalar tail together multiply the query with
\* the reshaped matrix of the database served (server_answer).
AnswerIsProduct == response # None => response.a = Times(query.b, dbs[response.version + 1])

\* A rewound response is the answer the client's own version would have
\* given, cell changes that cancel included (rewind_response).
RewoundIsOlderAnswer ==
  response # None /\ cversion <= response.version => Rewound = Times(query.b, ClientDb)

\* Decoding gives each cell of the row asked for, as in the client's version,
\* exactly when the error in the query, times the column, is within half of
\* delta as a word around zero: no other step of the protocol loses a bit
\* (client_decode, round_q_to_p), and cached and fresh material decode alike.
Noise(j) ==
  Signed(SumFunction([r \in 0 .. Rows(k) - 1 |-> in_flight.slot.e[r] * D(ClientDb, r, j)]) % q)

DecodesWithinMargin ==
  response # None /\ in_flight # None /\ cversion <= response.version =>
    \A R \in BlockRows : LET decoded == ClientDecode(Rewound, R) IN
      \A j \in 0 .. row_width - 1 :
        decoded[j] = ClientDb[query.row * row_width + j]
          <=> Noise(in_flight.bucket_within * row_width + j)
                \in -(delta \div 2) .. (delta \div 2) - 1

=============================================================================
