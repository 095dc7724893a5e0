--------------------------- MODULE PirClientProofs ---------------------------
(***************************************************************************)
(* The hints and the deltas of the server, and what the two clients share: *)
(* types, the freshness of cached decode material, the honesty of answers; *)
(* for any number of segments, rows, databases, epochs and seeds.          *)
(***************************************************************************)
EXTENDS PirClient, SequenceTheorems, TLAPS

-----------------------------------------------------------------------------
(* The server.                                                             *)

\* A matrix in memory belongs to the present seeds.
MaterialOfSeed == \A j \in Segments : material[j] \in {seed, NoMaterial}

\* Every bundle of the history is one that a fresh setup could have given,
\* the last one with the present seed and database.
HistoryOfSetups ==
  /\ \A e \in 0 .. epoch :
       LET b == history[e].bundle IN b.epoch = e /\ b.hint = Encode(b.seed, history[e].db)
  /\ history[epoch].db = db
  /\ history[epoch].bundle.seed = seed

\* A delta bundle holds the difference of two databases under one seed.
DeltasOfDatabases ==
  \A e \in Emitted :
    /\ history[e].bundle.seed = history[e - 1].bundle.seed
    /\ history[e].delta = Minus(history[e].db, history[e - 1].db)

\* The inductive invariant of the server.
ServerInv ==
  /\ ServerTypeOK
  /\ HintsEncodeDb
  /\ MaterialOfSeed
  /\ HistoryOfSetups
  /\ DeltasOfDatabases

-----------------------------------------------------------------------------
(* Databases, deltas and hints.                                            *)

LEMMA ZeroSeed == 0 \in Seeds /\ Seeds \subseteq Nat
BY CellAssumption DEF Seeds

LEMMA DatabaseIsDelta == ASSUME NEW d \in [Cells -> Plain] PROVE d \in Deltas
BY CellAssumption DEF Deltas, Plain

LEMMA DeltaTypes ==
  /\ ZeroDelta \in Deltas
  /\ \A x, y \in Deltas : Plus(x, y) \in Deltas /\ Minus(x, y) \in Deltas
BY DEF Deltas, ZeroDelta, Plus, Minus

LEMMA EncodeType == ASSUME NEW s \in Seeds, NEW d \in Deltas PROVE Encode(s, d) \in Hints
BY DeltaTypes DEF Encode, Hints

LEMMA PatchType ==
  ASSUME NEW h \in Hints, NEW mat, NEW delta \in Deltas
  PROVE  Patch(h, mat, delta) \in Hints
<1> DEFINE cell(t, c) == h[t][c] + IF c[1] \in Touched(delta) /\ mat[c[1]] = t THEN delta[c] ELSE 0
<1>1. \A t \in Seeds, c \in Cells : h[t][c] \in Int /\ delta[c] \in Int
  BY DEF Hints, Deltas
<1>2. \A t \in Seeds, c \in Cells : cell(t, c) \in Int
  BY <1>1
<1>3. Patch(h, mat, delta) = [t \in Seeds |-> [c \in Cells |-> cell(t, c)]]
  BY DEF Patch
<1> HIDE DEF cell
<1> QED BY <1>2, <1>3 DEF Hints, Deltas

\* A patch with the matrix of the hint, in the segments it touches, adds.
LEMMA PatchEncode ==
  ASSUME NEW s \in Seeds, NEW x \in Deltas, NEW delta \in Deltas, NEW mat,
         \A j \in Touched(delta) : mat[j] = s
  PROVE  Patch(Encode(s, x), mat, delta) = Encode(s, Plus(x, delta))
<1> DEFINE cell(t, c) ==
      Encode(s, x)[t][c] + IF c[1] \in Touched(delta) /\ mat[c[1]] = t THEN delta[c] ELSE 0
<1>1. \A c \in Cells : x[c] \in Int /\ delta[c] \in Int
  BY DEF Deltas
<1>2. \A c \in Cells : c[1] \notin Touched(delta) => delta[c] = 0
  BY DEF Touched, Cells
<1>3. \A t \in Seeds, c \in Cells : cell(t, c) = Encode(s, Plus(x, delta))[t][c]
  <2> SUFFICES ASSUME NEW t \in Seeds, NEW c \in Cells
               PROVE  cell(t, c) = Encode(s, Plus(x, delta))[t][c]
    OBVIOUS
  <2>1. CASE t = s
    <3>1. Encode(s, x)[t][c] = x[c] /\ Encode(s, Plus(x, delta))[t][c] = x[c] + delta[c]
      BY <2>1 DEF Encode, Plus
    <3>2. CASE c[1] \in Touched(delta)
      BY <3>1, <3>2, <2>1
    <3>3. CASE c[1] \notin Touched(delta)
      BY <3>1, <3>3, <1>1, <1>2
    <3> QED BY <3>2, <3>3
  <2>2. CASE t # s
    <3>1. Encode(s, x)[t][c] = 0 /\ Encode(s, Plus(x, delta))[t][c] = 0
      BY <2>2 DEF Encode, ZeroDelta
    <3> QED BY <3>1, <2>2
  <2> QED BY <2>1, <2>2
<1>4. Patch(Encode(s, x), mat, delta) = [t \in Seeds |-> [c \in Cells |-> cell(t, c)]]
  BY DEF Patch
<1>5. Encode(s, Plus(x, delta)) = [t \in Seeds |-> [c \in Cells |-> Encode(s, Plus(x, delta))[t][c]]]
  BY DEF Encode, Plus, ZeroDelta
<1> HIDE DEF cell
<1> QED BY <1>3, <1>4, <1>5

LEMMA ClientPatchEncode ==
  ASSUME NEW s \in Seeds, NEW x \in Deltas, NEW delta \in Deltas
  PROVE  ClientPatch(Encode(s, x), s, delta) = Encode(s, Plus(x, delta))
<1>1. \A j \in Touched(delta) : [i \in Segments |-> s][j] = s
  BY DEF Touched
<1> QED BY <1>1, PatchEncode DEF ClientPatch

LEMMA PlusMinus == ASSUME NEW x \in Deltas, NEW y \in Deltas PROVE Plus(x, Minus(y, x)) = y
BY DEF Plus, Minus, Deltas

-----------------------------------------------------------------------------
(* The steps of the server.                                                *)

LEMMA InitServerInv == ServerInit => ServerInv
<1> SUFFICES ASSUME ServerInit PROVE ServerInv
  OBVIOUS
<1> USE ZeroSeed, DatabaseAssumption DEF ServerInit
<1>1. InitialDb \in Deltas
  BY DatabaseIsDelta
<1>2. Encode(0, InitialDb) \in Hints
  BY <1>1, EncodeType
<1>3. Setup(0, 0, Encode(0, InitialDb)) \in Bundles
  BY <1>2 DEF Setup, Bundles
<1>4. 0 .. epoch = {0} /\ Emitted = {}
  BY DEF Emitted
<1>5. history[0] = [db |-> InitialDb, bundle |-> Setup(0, 0, Encode(0, InitialDb)),
                    emitted |-> FALSE, delta |-> ZeroDelta]
  OBVIOUS
<1>6. ServerTypeOK
  <2>1. history[0] \in [db : Databases, bundle : Bundles, emitted : BOOLEAN, delta : Deltas]
    BY <1>3, <1>5, DeltaTypes
  <2>2. history \in [0 .. epoch -> [db : Databases, bundle : Bundles, emitted : BOOLEAN, delta : Deltas]]
    BY <2>1, <1>4
  <2> QED BY <2>2, <1>2 DEF ServerTypeOK
<1>7. HintsEncodeDb /\ MaterialOfSeed
  BY DEF HintsEncodeDb, MaterialOfSeed
<1>8. HistoryOfSetups
  BY <1>4, <1>5 DEF HistoryOfSetups, Setup
<1>9. DeltasOfDatabases
  BY <1>4 DEF DeltasOfDatabases
<1> QED BY <1>6, <1>7, <1>8, <1>9 DEF ServerInv

\* What a step that ends an epoch leaves of the invariant to show.
LEMMA PublishKeepsInv ==
  ASSUME ServerInv, NEW emitted \in BOOLEAN, NEW delta \in Deltas,
         epoch < MaxEpoch, epoch' = epoch + 1, Publish(emitted, delta),
         db' \in Databases, seed' \in Seeds,
         material' \in [Segments -> Seeds \cup {NoMaterial}],
         hint' = Encode(seed', db'),
         \A j \in Segments : material'[j] \in {seed', NoMaterial},
         emitted => seed' = seed /\ delta = Minus(db', db)
  PROVE  ServerInv'
<1> DEFINE Item == [db : Databases, bundle : Bundles, emitted : BOOLEAN, delta : Deltas]
           item == [db |-> db', bundle |-> Setup(epoch', seed', hint'), emitted |-> emitted, delta |-> delta]
<1>1. /\ epoch \in Nat /\ epoch' \in 0 .. MaxEpoch
      /\ history \in [0 .. epoch -> Item]
  BY DatabaseAssumption DEF ServerInv, ServerTypeOK
<1>2. /\ DOMAIN history = 0 .. epoch
      /\ history' = [e \in 0 .. epoch' |-> IF e \in 0 .. epoch THEN history[e] ELSE item]
  BY <1>1 DEF Publish
<1>3. /\ history'[epoch'] = item
      /\ \A e \in 0 .. epoch : history'[e] = history[e]
      /\ \A e \in 0 .. epoch' : e \in 0 .. epoch \/ e = epoch'
  BY <1>1, <1>2
<1>4. hint' \in Hints
  BY DatabaseAssumption, DatabaseIsDelta, EncodeType
<1>5. item \in Item
  BY <1>1, <1>4 DEF Setup, Bundles
<1>6. history' \in [0 .. epoch' -> Item]
  <2> HIDE DEF Item, item
  <2> QED BY <1>1, <1>2, <1>3, <1>5
<1>7. ServerTypeOK'
  BY <1>1, <1>4, <1>6 DEF ServerTypeOK
<1>8. HintsEncodeDb' /\ MaterialOfSeed'
  BY DEF HintsEncodeDb, MaterialOfSeed
<1>9. HistoryOfSetups'
  <2>1. \A e \in 0 .. epoch' :
          LET b == history'[e].bundle IN b.epoch = e /\ b.hint = Encode(b.seed, history'[e].db)
    <3> SUFFICES ASSUME NEW e \in 0 .. epoch'
                 PROVE  LET b == history'[e].bundle IN b.epoch = e /\ b.hint = Encode(b.seed, history'[e].db)
      OBVIOUS
    <3>1. CASE e \in 0 .. epoch
      <4>1. LET b == history[e].bundle IN b.epoch = e /\ b.hint = Encode(b.seed, history[e].db)
        BY <3>1 DEF ServerInv, HistoryOfSetups
      <4> QED BY <4>1, <3>1, <1>3
    <3>2. CASE e = epoch'
      BY <3>2, <1>3 DEF Setup
    <3> QED BY <3>1, <3>2, <1>3
  <2>2. history'[epoch'].db = db' /\ history'[epoch'].bundle.seed = seed'
    BY <1>3 DEF Setup
  <2> QED BY <2>1, <2>2 DEF HistoryOfSetups
<1>10. DeltasOfDatabases'
  <2> SUFFICES ASSUME NEW e \in 1 .. epoch', history'[e].emitted
               PROVE  /\ history'[e].bundle.seed = history'[e - 1].bundle.seed
                      /\ history'[e].delta = Minus(history'[e].db, history'[e - 1].db)
    BY DEF DeltasOfDatabases, Emitted
  <2>1. CASE e \in 1 .. epoch
    <3>1. history'[e] = history[e] /\ history'[e - 1] = history[e - 1]
      BY <2>1, <1>1, <1>3
    <3>2. e \in Emitted
      BY <2>1, <3>1 DEF Emitted
    <3> QED BY <3>1, <3>2 DEF ServerInv, DeltasOfDatabases
  <2>2. CASE e = epoch'
    <3>1. history'[e] = item /\ history'[e - 1] = history[epoch]
      BY <2>2, <1>1, <1>3
    <3>2. history[epoch].db = db /\ history[epoch].bundle.seed = seed
      BY DEF ServerInv, HistoryOfSetups
    <3> QED BY <3>1, <3>2 DEF Setup
  <2> QED BY <2>1, <2>2, <1>1
<1> QED BY <1>7, <1>8, <1>9, <1>10 DEF ServerInv

LEMMA CommitServerInv ==
  ASSUME ServerInv, NEW d \in Databases, CommitMutations(d)
  PROVE  ServerInv'
<1> DEFINE delta == Minus(d, db)
<1>1. /\ db \in Deltas /\ d \in Deltas /\ delta \in Deltas
      /\ seed \in Seeds /\ db \in Databases
      /\ material \in [Segments -> Seeds \cup {NoMaterial}]
      /\ hint = Encode(seed, db)
  BY DatabaseAssumption, DatabaseIsDelta, DeltaTypes DEF ServerInv, ServerTypeOK, HintsEncodeDb
<1>2. /\ epoch < MaxEpoch /\ epoch' = epoch + 1
      /\ db' = d /\ seed' = seed
      /\ material' = Expanded(delta)
      /\ hint' = Patch(hint, material', delta)
      /\ Publish(TRUE, delta)
  BY DEF CommitMutations
<1>3. \A j \in Segments :
        /\ material'[j] \in {seed, NoMaterial}
        /\ j \in Touched(delta) => material'[j] = seed
  BY <1>2 DEF Expanded, ServerInv, MaterialOfSeed
<1>4. material' \in [Segments -> Seeds \cup {NoMaterial}]
  BY <1>1, <1>2 DEF Expanded
<1>5. \A j \in Touched(delta) : material'[j] = seed
  BY <1>3 DEF Touched
<1>6. hint' = Encode(seed', d)
  <2> HIDE DEF delta
  <2>1. Patch(Encode(seed, db), material', delta) = Encode(seed, Plus(db, delta))
    BY <1>1, <1>5, PatchEncode
  <2>2. Plus(db, delta) = d
    BY <1>1, PlusMinus DEF delta
  <2> QED BY <2>1, <2>2, <1>1, <1>2
<1> HIDE DEF delta
<1>7. delta = Minus(db', db)
  BY <1>2 DEF delta
<1> QED BY <1>1, <1>2, <1>3, <1>4, <1>6, <1>7, PublishKeepsInv

LEMMA RebuildServerInv == ASSUME ServerInv, FullRebuild PROVE ServerInv'
<1>1. /\ seed' \in Seeds /\ db \in Databases
      /\ \A j \in Segments : material'[j] = seed'
      /\ material' \in [Segments -> Seeds \cup {NoMaterial}]
  BY CellAssumption DEF ServerInv, ServerTypeOK, FullRebuild, Seeds
<1>2. /\ epoch < MaxEpoch /\ epoch' = epoch + 1 /\ db' = db
      /\ hint' = Encode(seed', db)
      /\ Publish(FALSE, ZeroDelta)
  BY DEF FullRebuild
<1> QED BY <1>1, <1>2, DeltaTypes, PublishKeepsInv

LEMMA DropServerInv == ASSUME ServerInv, DropHintMaterial PROVE ServerInv'
BY DEF ServerInv, DropHintMaterial, ServerTypeOK, HintsEncodeDb, MaterialOfSeed,
       HistoryOfSetups, DeltasOfDatabases, Emitted

LEMMA StutterServerInv == ASSUME ServerInv, UNCHANGED serverVars PROVE ServerInv'
BY DEF ServerInv, serverVars, ServerTypeOK, HintsEncodeDb, MaterialOfSeed,
       HistoryOfSetups, DeltasOfDatabases, Emitted

LEMMA StepServerInv == ASSUME ServerInv, [ServerNext]_serverVars PROVE ServerInv'
BY CommitServerInv, RebuildServerInv, DropServerInv, StutterServerInv DEF ServerNext

\* The inductive invariant holds in every state of the server (IkpirServer).
THEOREM ServerInvariance == ServerSpec => []ServerInv
<1>1. ServerInit => ServerInv
  BY InitServerInv
<1>2. ServerInv /\ [ServerNext]_serverVars => ServerInv'
  BY StepServerInv
<1> QED BY <1>1, <1>2, PTL DEF ServerSpec

\* Patched hints are those a fresh setup would compute, for any databases,
\* seeds and number of mutations, rebuilds and dropped matrices
\* (commit_mutations, full_rebuild, drop_hint_material).
THEOREM HintsCorrect == ServerSpec => []HintsEncodeDb
<1>1. ServerInv => HintsEncodeDb
  BY DEF ServerInv
<1> QED BY <1>1, ServerInvariance, PTL

LEMMA BridgesFromInv == ServerInv => DeltasBridgeSetups
<1> SUFFICES ASSUME ServerInv, NEW e \in Emitted
             PROVE  /\ history[e - 1].bundle.seed = history[e].bundle.seed
                    /\ history[e].bundle.hint =
                         ClientPatch(history[e - 1].bundle.hint, history[e].bundle.seed, history[e].delta)
  BY DEF DeltasBridgeSetups
<1> DEFINE s == history[e].bundle.seed
           x == history[e - 1].db
           y == history[e].db
<1>1. e \in 0 .. epoch /\ e - 1 \in 0 .. epoch
  BY DEF Emitted, ServerInv, ServerTypeOK
<1>2. s \in Seeds /\ x \in Deltas /\ y \in Deltas
  BY <1>1, DatabaseAssumption, DatabaseIsDelta DEF ServerInv, ServerTypeOK, Bundles
<1>3. history[e - 1].bundle.seed = s /\ history[e].delta = Minus(y, x)
  BY DEF ServerInv, DeltasOfDatabases
<1>4. history[e].bundle.hint = Encode(s, y) /\ history[e - 1].bundle.hint = Encode(s, x)
  BY <1>1, <1>3 DEF ServerInv, HistoryOfSetups
<1>5. Minus(y, x) \in Deltas
  BY <1>2, DeltaTypes
<1> HIDE DEF s, x, y
<1>6. ClientPatch(Encode(s, x), s, Minus(y, x)) = Encode(s, y)
  BY <1>2, <1>5, ClientPatchEncode, PlusMinus
<1> QED BY <1>3, <1>4, <1>6 DEF s

\* A delta leads from one setup to the next, with the same seed; no delta
\* leads over a rebuild (commit_mutations, rebuild_with).
THEOREM DeltasCorrect == ServerSpec => []DeltasBridgeSetups
BY BridgesFromInv, ServerInvariance, PTL

-----------------------------------------------------------------------------
(* What the clients share.                                                 *)

\* There is one query at most, and an answer is that of the database of its
\* epoch, to this query.
AnswersAreHonest ==
  /\ \A p, q \in query : p = q
  /\ \A r \in response : r.epoch \in 0 .. epoch /\ r.db = history[r.epoch].db
  /\ \A q \in query, r \in response : q.epoch = r.epoch

\* The part of the inductive invariants that both clients have.
PirInv ==
  /\ ServerInv
  /\ TypeOK
  /\ CachedMaterialIsFresh
  /\ AnswersAreHonest
  /\ outcome.epoch \in 0 .. epoch
  /\ DecodeIsExact

-----------------------------------------------------------------------------
(* Types of what the calls compute.                                        *)

LEMMA ReturnedType ==
  ASSUME NEW kind \in Kinds
  PROVE  /\ Returned(kind) \in Outcomes
         /\ Returned(kind).kind = kind
         /\ Returned(kind).epoch = 0
<1>1. \E rows : rows \in RowChoices
  <2>1. PICK r \in Rows : TRUE
    BY CellAssumption
  <2>2. [j \in Segments |-> r] \in RowChoices
    BY DEF RowChoices
  <2> QED BY <2>2
<1>2. (CHOOSE rows \in RowChoices : TRUE) \in RowChoices
  BY <1>1
<1>3. [j \in Segments |-> 0] \in [Segments -> Plain]
  BY CellAssumption DEF Plain
<1> QED BY <1>2, <1>3 DEF Returned, Outcomes

LEMMA WithCType ==
  ASSUME NEW slot \in Slots, NEW h \in Hints
  PROVE  /\ WithC(slot, h) \in Slots
         /\ WithC(slot, h).cached
         /\ (slot.cached => slot.c = h) => WithC(slot, h).c = h
BY DEF WithC, Slots

LEMMA PatchSlotType ==
  ASSUME NEW slot \in Slots, NEW s \in Seeds, NEW delta \in Deltas
  PROVE  /\ PatchSlot(slot, s, delta) \in Slots
         /\ PatchSlot(slot, s, delta).cached = slot.cached
         /\ slot.cached => PatchSlot(slot, s, delta).c = ClientPatch(slot.c, s, delta)
<1>1. slot.c \in Hints
  BY DEF Slots
<1>2. ClientPatch(slot.c, s, delta) \in Hints
  BY <1>1, PatchType DEF ClientPatch
<1> QED BY <1>2 DEF PatchSlot, Slots

LEMMA FreshSlotType == FreshSlot \in Slots /\ ~FreshSlot.cached
BY DeltaTypes DEF FreshSlot, NoC, Slots, Hints

\* A sequence of slots, mapped.
LEMMA MappedSlots ==
  ASSUME NEW p \in Seq(Slots), NEW q, DOMAIN q = DOMAIN p, q = [i \in DOMAIN p |-> q[i]],
         \A i \in DOMAIN p : q[i] \in Slots
  PROVE  q \in Seq(Slots) /\ Len(q) = Len(p)
<1>1. Len(p) \in Nat /\ DOMAIN p = 1 .. Len(p)
  OBVIOUS
<1>2. q \in [1 .. Len(p) -> Slots]
  BY <1>1
<1> QED BY <1>1, <1>2

-----------------------------------------------------------------------------
(* The steps both clients make.                                            *)

LEMMA HistoryGrows ==
  ASSUME ServerInv, [ServerNext]_serverVars
  PROVE  /\ epoch \in Nat /\ epoch' \in Nat /\ epoch <= epoch'
         /\ \A e \in 0 .. epoch : e \in 0 .. epoch' /\ history'[e] = history[e]
<1>1. epoch \in Nat /\ epoch + 1 \in Nat /\ DOMAIN history = 0 .. epoch
  BY DatabaseAssumption DEF ServerInv, ServerTypeOK
<1>2. ASSUME NEW emitted, NEW delta, Publish(emitted, delta)
      PROVE  \A e \in 0 .. epoch : history'[e] = history[e]
  BY <1>1, <1>2 DEF Publish
<1>3. CASE \E d \in Databases : CommitMutations(d)
  <2>1. PICK d \in Databases : CommitMutations(d)
    BY <1>3
  <2>2. epoch' = epoch + 1 /\ Publish(TRUE, Minus(d, db))
    BY <2>1 DEF CommitMutations
  <2>3. \A e \in 0 .. epoch : history'[e] = history[e]
    BY <1>2, <2>2
  <2> QED BY <1>1, <2>2, <2>3
<1>4. CASE FullRebuild
  <2>1. epoch' = epoch + 1 /\ Publish(FALSE, ZeroDelta)
    BY <1>4 DEF FullRebuild
  <2>2. \A e \in 0 .. epoch : history'[e] = history[e]
    BY <1>2, <2>1
  <2> QED BY <1>1, <2>1, <2>2
<1>5. CASE DropHintMaterial \/ UNCHANGED serverVars
  BY <1>1, <1>5 DEF DropHintMaterial, serverVars
<1> QED BY <1>3, <1>4, <1>5 DEF ServerNext

LEMMA InitPirInv == ClientInit => PirInv
<1> SUFFICES ASSUME ClientInit PROVE PirInv
  OBVIOUS
<1>1. ServerInv
  BY InitServerInv DEF ClientInit
<1>2. epoch = 0 /\ cepoch = 0 /\ cseed = seed /\ chint = hint /\ prepared = <<>>
      /\ in_flight = {} /\ query = {} /\ response = {} /\ outcome = Returned("Ok")
  BY DEF ClientInit, ServerInit
<1>3. "Ok" \in Kinds /\ "Ok" # "Value"
  BY DEF Kinds
<1>4. outcome \in Outcomes /\ outcome.kind = "Ok" /\ outcome.epoch = 0
  BY <1>2, <1>3, ReturnedType
<1>5. seed \in Seeds /\ hint \in Hints /\ ServerTypeOK
  BY <1>1 DEF ServerInv, ServerTypeOK
<1>6. TypeOK
  BY <1>2, <1>4, <1>5, PreparedAssumption DEF TypeOK
<1>7. CachedMaterialIsFresh /\ AnswersAreHonest
  BY <1>2 DEF CachedMaterialIsFresh, AllSlots, AnswersAreHonest
<1>8. DecodeIsExact
  BY <1>3, <1>4 DEF DecodeIsExact
<1> QED BY <1>1, <1>2, <1>4, <1>6, <1>7, <1>8 DEF PirInv

LEMMA ServerStepPirInv == ASSUME PirInv, ServerStep PROVE PirInv'
<1>1. ServerInv' /\ ServerTypeOK'
  BY StepServerInv DEF PirInv, ServerStep, ServerInv
<1>2. /\ epoch \in Nat /\ epoch' \in Nat /\ epoch <= epoch'
      /\ \A e \in 0 .. epoch : e \in 0 .. epoch' /\ history'[e] = history[e]
  BY HistoryGrows DEF PirInv, ServerStep
<1>3. UNCHANGED <<cseed, chint, cepoch, prepared, in_flight, query, response, outcome>>
  BY DEF ServerStep, clientVars, appVars
<1>4. TypeOK'
  BY <1>1, <1>2, <1>3 DEF PirInv, TypeOK
<1>5. CachedMaterialIsFresh'
  BY <1>3 DEF PirInv, CachedMaterialIsFresh, AllSlots
<1>6. AnswersAreHonest'
  BY <1>2, <1>3 DEF PirInv, AnswersAreHonest
<1>7. outcome'.epoch \in 0 .. epoch'
  BY <1>2, <1>3 DEF PirInv
<1>8. DecodeIsExact'
  BY <1>2, <1>3 DEF PirInv, DecodeIsExact
<1> QED BY <1>1, <1>4, <1>5, <1>6, <1>7, <1>8 DEF PirInv

\* A call that leaves the server alone and returns no value: types, slots
\* and answers are what there is to show.
LEMMA CallPirInv ==
  ASSUME PirInv, UNCHANGED serverVars, TypeOK', CachedMaterialIsFresh', AnswersAreHonest',
         \/ UNCHANGED outcome
         \/ \E kind \in Kinds \ {"Value"} : outcome' = Returned(kind)
  PROVE  PirInv'
<1>1. ServerInv' /\ epoch' = epoch /\ history' = history
  BY StutterServerInv DEF PirInv, serverVars
<1>2. CASE UNCHANGED outcome
  BY <1>1, <1>2 DEF PirInv, DecodeIsExact
<1>3. CASE \E kind \in Kinds \ {"Value"} : outcome' = Returned(kind)
  <2>1. outcome'.kind # "Value" /\ outcome'.epoch = 0
    BY <1>3, ReturnedType
  <2>2. 0 \in 0 .. epoch'
    BY <1>1, DatabaseAssumption DEF ServerInv, ServerTypeOK
  <2> QED BY <1>1, <2>1, <2>2 DEF PirInv, DecodeIsExact
<1> QED BY <1>2, <1>3

LEMMA ServerTypeUnchanged == ASSUME ServerTypeOK, UNCHANGED serverVars PROVE ServerTypeOK'
BY DEF ServerTypeOK, serverVars

LEMMA BuildQueryPirInv ==
  ASSUME PirInv, NEW rows \in RowChoices, BuildQuery(rows)
  PROVE  PirInv'
<1> USE DEF BuildQuery
<1>1. UNCHANGED serverVars /\ UNCHANGED <<epoch, history>>
  BY DEF serverVars
<1>2. "Ok" \in Kinds \ {"Value"} /\ outcome' = Returned("Ok") /\ outcome' \in Outcomes
  BY ReturnedType DEF Kinds
<1>3. /\ prepared \in Seq(Slots) /\ Len(prepared) <= MaxPrepared
      /\ cepoch \in 0 .. epoch /\ epoch \in Nat
  BY DatabaseAssumption DEF PirInv, TypeOK, ServerTypeOK
<1>4. /\ prepared' \in Seq(Slots) /\ Len(prepared') <= MaxPrepared
      /\ in_flight' \subseteq Slots
      /\ AllSlots' \subseteq AllSlots \cup {FreshSlot}
  <2>1. CASE prepared = <<>>
    BY <1>3, <2>1, FreshSlotType DEF AllSlots
  <2>2. CASE prepared # <<>>
    <3>1. /\ Head(prepared) = prepared[1] /\ 1 \in DOMAIN prepared
          /\ Head(prepared) \in Slots
          /\ Tail(prepared) \in Seq(Slots) /\ Len(Tail(prepared)) = Len(prepared) - 1
          /\ \A i \in DOMAIN Tail(prepared) :
               i + 1 \in DOMAIN prepared /\ Tail(prepared)[i] = prepared[i + 1]
      BY <1>3, <2>2
    <3>2. prepared' = Tail(prepared) /\ in_flight' = {Head(prepared)}
      BY <2>2
    <3>3. prepared' \in Seq(Slots) /\ Len(prepared') = Len(prepared) - 1
      BY <3>1, <3>2
    <3>4. Len(prepared) \in Nat /\ Len(prepared') <= MaxPrepared
      BY <1>3, <3>3, PreparedAssumption
    <3>5. in_flight' \subseteq Slots
      BY <3>1, <3>2
    <3>6. AllSlots' \subseteq AllSlots
      BY <3>1, <3>2 DEF AllSlots
    <3> QED BY <3>3, <3>4, <3>5, <3>6
  <2> QED BY <2>1, <2>2
<1>5. TypeOK'
  <2>1. query' \subseteq Queries
    BY <1>3 DEF Queries
  <2> QED BY <1>1, <1>2, <1>4, <2>1, ServerTypeUnchanged DEF PirInv, TypeOK
<1>6. CachedMaterialIsFresh'
  BY <1>4, FreshSlotType DEF PirInv, CachedMaterialIsFresh
<1>7. AnswersAreHonest'
  BY DEF AnswersAreHonest
<1> QED BY <1>1, <1>2, <1>5, <1>6, <1>7, CallPirInv

LEMMA AnswerPirInv == ASSUME PirInv, Answer PROVE PirInv'
<1>1. /\ UNCHANGED serverVars /\ UNCHANGED <<db, epoch, history>>
      /\ UNCHANGED <<cseed, chint, cepoch, prepared, in_flight, query>>
  BY DEF Answer, serverVars, clientVars
<1>2. PICK q \in query :
        \/ /\ q.epoch = epoch
           /\ response' = {[epoch |-> epoch, db |-> db]}
           /\ outcome' = Returned("Ok")
        \/ outcome' = Returned("StaleEpoch") /\ UNCHANGED response
  BY DEF Answer
<1>3. /\ \E kind \in Kinds \ {"Value"} : outcome' = Returned(kind)
      /\ outcome' \in Outcomes
  BY <1>2, ReturnedType DEF Kinds
<1>4. /\ epoch \in Nat /\ epoch \in 0 .. epoch /\ db \in [Cells -> Plain]
      /\ history[epoch].db = db
  BY DatabaseAssumption DEF PirInv, ServerInv, ServerTypeOK, HistoryOfSetups
<1>5. TypeOK'
  <2>1. response' \subseteq Responses
    BY <1>2, <1>4 DEF Responses, PirInv, TypeOK
  <2> QED BY <1>1, <1>3, <2>1, ServerTypeUnchanged DEF PirInv, TypeOK
<1>6. CachedMaterialIsFresh'
  BY <1>1 DEF PirInv, CachedMaterialIsFresh, AllSlots
<1>7. AnswersAreHonest'
  <2>1. CASE UNCHANGED response
    BY <1>1, <2>1 DEF PirInv, AnswersAreHonest
  <2>2. CASE q.epoch = epoch /\ response' = {[epoch |-> epoch, db |-> db]}
    <3>1. \A p \in query : p = q
      BY DEF PirInv, AnswersAreHonest
    <3> QED BY <1>1, <1>4, <2>2, <3>1 DEF PirInv, AnswersAreHonest
  <2> QED BY <1>2, <2>1, <2>2
<1> QED BY <1>1, <1>3, <1>5, <1>6, <1>7, CallPirInv

LEMMA PrecomputeQueryPirInv == ASSUME PirInv, PrecomputeQuery PROVE PirInv'
<1> USE DEF PrecomputeQuery
<1>1. UNCHANGED serverVars /\ UNCHANGED <<epoch, history>>
  BY DEF serverVars
<1>2. "Ok" \in Kinds \ {"Value"} /\ outcome' = Returned("Ok") /\ outcome' \in Outcomes
  BY ReturnedType DEF Kinds
<1>3. prepared \in Seq(Slots) /\ MaxPrepared \in Nat
  BY PreparedAssumption DEF PirInv, TypeOK
<1>4. /\ prepared' \in Seq(Slots) /\ Len(prepared') = Len(prepared) + 1
      /\ \A i \in DOMAIN prepared' :
           \/ i \in DOMAIN prepared /\ prepared'[i] = prepared[i]
           \/ prepared'[i] = FreshSlot
  BY <1>3, FreshSlotType
<1>5. TypeOK'
  BY <1>1, <1>2, <1>3, <1>4, ServerTypeUnchanged DEF PirInv, TypeOK
<1>6. CachedMaterialIsFresh'
  <2>1. AllSlots' \subseteq AllSlots \cup {FreshSlot}
    BY <1>4 DEF AllSlots
  <2> QED BY <2>1, FreshSlotType DEF PirInv, CachedMaterialIsFresh
<1>7. AnswersAreHonest'
  BY <1>1 DEF PirInv, AnswersAreHonest
<1> QED BY <1>1, <1>2, <1>5, <1>6, <1>7, CallPirInv

LEMMA PrecomputeDecodesPirInv == ASSUME PirInv, PrecomputeDecodes PROVE PirInv'
<1> USE DEF PrecomputeDecodes
<1>1. UNCHANGED serverVars /\ UNCHANGED <<epoch, history>>
  BY DEF serverVars
<1>2. "Ok" \in Kinds \ {"Value"} /\ outcome' = Returned("Ok") /\ outcome' \in Outcomes
  BY ReturnedType DEF Kinds
<1>3. /\ prepared \in Seq(Slots) /\ in_flight \subseteq Slots /\ chint \in Hints
      /\ \A i \in DOMAIN prepared : prepared[i] \in Slots
  BY DEF PirInv, TypeOK
<1>4. \A slot \in AllSlots :
        slot \in Slots /\ WithC(slot, chint) \in Slots /\ WithC(slot, chint).c = chint
  <2> SUFFICES ASSUME NEW slot \in AllSlots
               PROVE  slot \in Slots /\ WithC(slot, chint) \in Slots /\ WithC(slot, chint).c = chint
    OBVIOUS
  <2>1. slot \in Slots
    BY <1>3 DEF AllSlots
  <2>2. slot.cached => slot.c = chint
    BY DEF PirInv, CachedMaterialIsFresh
  <2> QED BY <1>3, <2>1, <2>2, WithCType
<1>5. \A i \in DOMAIN prepared : prepared'[i] = WithC(prepared[i], chint) /\ prepared[i] \in AllSlots
  BY DEF AllSlots
<1>6. /\ DOMAIN prepared' = DOMAIN prepared
      /\ prepared' = [i \in DOMAIN prepared |-> prepared'[i]]
      /\ \A i \in DOMAIN prepared : prepared'[i] \in Slots
  BY <1>4, <1>5
<1>7. prepared' \in Seq(Slots) /\ Len(prepared') = Len(prepared)
  BY <1>3, <1>6, MappedSlots
<1>8. TypeOK'
  <2>1. in_flight' \subseteq Slots
    BY <1>4 DEF AllSlots
  <2> QED BY <1>1, <1>2, <1>7, <2>1, ServerTypeUnchanged DEF PirInv, TypeOK
<1>9. CachedMaterialIsFresh'
  <2>1. \A t \in AllSlots' : \E slot \in AllSlots : t = WithC(slot, chint)
    BY <1>5, <1>6 DEF AllSlots
  <2> QED BY <1>4, <2>1 DEF CachedMaterialIsFresh
<1>10. AnswersAreHonest'
  BY <1>1 DEF PirInv, AnswersAreHonest
<1> QED BY <1>1, <1>2, <1>8, <1>9, <1>10, CallPirInv

LEMMA RejectDeltaPirInv == ASSUME PirInv, NEW e, RejectDelta(e) PROVE PirInv'
<1>1. /\ UNCHANGED serverVars /\ UNCHANGED <<epoch, history>>
      /\ UNCHANGED <<cseed, chint, cepoch, prepared, in_flight, query, response>>
  BY DEF RejectDelta, serverVars, clientVars
<1>2. /\ \E kind \in Kinds \ {"Value"} : outcome' = Returned(kind)
      /\ outcome' \in Outcomes
  BY ReturnedType DEF RejectDelta, Kinds
<1>3. TypeOK'
  BY <1>1, <1>2, ServerTypeUnchanged DEF PirInv, TypeOK
<1>4. CachedMaterialIsFresh' /\ AnswersAreHonest'
  BY <1>1 DEF PirInv, CachedMaterialIsFresh, AllSlots, AnswersAreHonest
<1> QED BY <1>1, <1>2, <1>3, <1>4, CallPirInv

LEMMA CommonPirInv == ASSUME PirInv, CommonNext PROVE PirInv'
BY ServerStepPirInv, BuildQueryPirInv, AnswerPirInv, PrecomputeQueryPirInv,
   PrecomputeDecodesPirInv, RejectDeltaPirInv
   DEF CommonNext

-----------------------------------------------------------------------------
(* What the other steps of the clients do to the common state.             *)

\* The bundle of an epoch is the setup of that epoch.
LEMMA HistoryFacts ==
  ASSUME ServerInv, NEW e \in 0 .. epoch
  PROVE  /\ history[e].db \in Databases
         /\ history[e].db \in [Cells -> Plain]
         /\ history[e].db \in Deltas
         /\ history[e].delta \in Deltas
         /\ history[e].bundle.seed \in Seeds
         /\ history[e].bundle.epoch = e
         /\ history[e].bundle.hint = Encode(history[e].bundle.seed, history[e].db)
         /\ history[e].bundle.hint \in Hints
<1>1. /\ history[e].db \in Databases
      /\ history[e].bundle \in Bundles
      /\ history[e].delta \in Deltas
  BY DEF ServerInv, ServerTypeOK
<1>2. history[e].db \in [Cells -> Plain] /\ history[e].db \in Deltas
  BY <1>1, DatabaseAssumption, DatabaseIsDelta
<1>3. history[e].bundle.seed \in Seeds /\ history[e].bundle.hint \in Hints
  BY <1>1 DEF Bundles
<1>4. /\ history[e].bundle.epoch = e
      /\ history[e].bundle.hint = Encode(history[e].bundle.seed, history[e].db)
  BY DEF ServerInv, HistoryOfSetups
<1> QED BY <1>1, <1>2, <1>3, <1>4

LEMMA ResetPirInv ==
  ASSUME PirInv, NEW e \in 0 .. epoch, Reset(history[e].bundle),
         NEW kind \in Kinds \ {"Value"}, outcome' = Returned(kind)
  PROVE  PirInv'
<1> USE DEF Reset
<1>1. UNCHANGED serverVars /\ UNCHANGED <<epoch, history>>
  BY DEF serverVars
<1>2. outcome' \in Outcomes
  BY ReturnedType
<1>3. cseed' \in Seeds /\ chint' \in Hints /\ cepoch' \in 0 .. epoch'
  BY <1>1, HistoryFacts DEF PirInv
<1>4. prepared' \in Seq(Slots) /\ Len(prepared') <= MaxPrepared
  BY PreparedAssumption
<1>5. TypeOK'
  BY <1>1, <1>2, <1>3, <1>4, ServerTypeUnchanged DEF PirInv, TypeOK
<1>6. CachedMaterialIsFresh'
  BY DEF CachedMaterialIsFresh, AllSlots
<1>7. AnswersAreHonest'
  BY <1>1 DEF PirInv, AnswersAreHonest
<1> QED BY <1>1, <1>5, <1>6, <1>7, CallPirInv

LEMMA PatchStateTypes ==
  ASSUME PirInv, NEW delta \in Deltas, PatchState(delta)
  PROVE  /\ chint' \in Hints
         /\ prepared' \in Seq(Slots) /\ Len(prepared') = Len(prepared)
         /\ in_flight' \subseteq Slots
         /\ CachedMaterialIsFresh'
<1> USE DEF PatchState
<1>1. /\ prepared \in Seq(Slots) /\ in_flight \subseteq Slots
      /\ chint \in Hints /\ cseed \in Seeds
      /\ \A i \in DOMAIN prepared : prepared[i] \in Slots
  BY DEF PirInv, TypeOK
<1>2. chint' \in Hints
  BY <1>1, PatchType DEF ClientPatch
<1>3. \A slot \in AllSlots :
        /\ PatchSlot(slot, cseed, delta) \in Slots
        /\ PatchSlot(slot, cseed, delta).cached => PatchSlot(slot, cseed, delta).c = chint'
  <2> SUFFICES ASSUME NEW slot \in AllSlots
               PROVE  /\ PatchSlot(slot, cseed, delta) \in Slots
                      /\ PatchSlot(slot, cseed, delta).cached =>
                           PatchSlot(slot, cseed, delta).c = chint'
    OBVIOUS
  <2>1. slot \in Slots
    BY <1>1 DEF AllSlots
  <2>2. slot.cached => slot.c = chint
    BY DEF PirInv, CachedMaterialIsFresh
  <2> QED BY <1>1, <2>1, <2>2, PatchSlotType
<1>4. \A i \in DOMAIN prepared :
        prepared'[i] = PatchSlot(prepared[i], cseed, delta) /\ prepared[i] \in AllSlots
  BY DEF AllSlots
<1>5. /\ DOMAIN prepared' = DOMAIN prepared
      /\ prepared' = [i \in DOMAIN prepared |-> prepared'[i]]
      /\ \A i \in DOMAIN prepared : prepared'[i] \in Slots
  BY <1>3, <1>4
<1>6. prepared' \in Seq(Slots) /\ Len(prepared') = Len(prepared)
  BY <1>1, <1>5, MappedSlots
<1>7. in_flight' \subseteq Slots
  BY <1>3 DEF AllSlots
<1>8. CachedMaterialIsFresh'
  <2>1. \A t \in AllSlots' : \E slot \in AllSlots : t = PatchSlot(slot, cseed, delta)
    BY <1>4, <1>5 DEF AllSlots
  <2> QED BY <1>3, <2>1 DEF CachedMaterialIsFresh
<1> QED BY <1>2, <1>6, <1>7, <1>8

-----------------------------------------------------------------------------
(* Decoding.                                                               *)

LEMMA SmallMod == ASSUME NEW p \in Nat \ {0}, NEW x \in 0 .. p - 1 PROVE x % p = x
OBVIOUS

\* With the hint of x, exactly the row of x comes out.
LEMMA DecodesExactly ==
  ASSUME NEW s \in Seeds, NEW x \in [Cells -> Plain], NEW j \in Segments, NEW r \in Rows
  PROVE  Decodes(Encode(s, x), s, x, j, r) = {x[<<j, r>>]}
<1>1. SameInSegment(Encode(s, x), Encode(s, x), j)
  BY DEF SameInSegment
<1>2. x[<<j, r>>] \in 0 .. PlainBound - 1
  BY DEF Cells, Plain
<1>3. x[<<j, r>>] % PlainBound = x[<<j, r>>]
  BY <1>2, CellAssumption, SmallMod
<1> QED BY <1>1, <1>3 DEF Decodes

=============================================================================
