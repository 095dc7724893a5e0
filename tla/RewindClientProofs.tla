-------------------------- MODULE RewindClientProofs --------------------------
(***************************************************************************)
(* RewindClient is right for any sizes, epochs, seeds and order of calls:  *)
(* the pinned hint and the pending sum describe the head, what decodes is  *)
(* the row at the head, no honest answer is refused as corrupt, and what   *)
(* it returns is what a HintPatchClient could have returned.               *)
(***************************************************************************)
EXTENDS RewindClient, PirClientProofs

\* The inductive invariant of server, application and rewind client.
RInv ==
  /\ PirInv
  /\ RewindTypeOK
  /\ PinPlusPendingIsHead
  /\ NoFalseAlarm

\* The part of it that no return value of a call but decode's can disturb.
Pinned ==
  /\ pending \in Deltas
  /\ pin_epoch \in 0 .. cepoch
  /\ PinPlusPendingIsHead

LEMMA ReturnsKeepRInv ==
  ASSUME PirInv', Pinned', NoFalseAlarm,
         \/ UNCHANGED outcome
         \/ \E kind \in Kinds \ {"CellOutOfRange", "MalformedBundle"} : outcome' = Returned(kind)
  PROVE  RInv'
<1>1. NoFalseAlarm'
  BY ReturnedType DEF NoFalseAlarm
<1> QED BY <1>1 DEF RInv, Pinned, PirInv, RewindTypeOK

LEMMA ZeroPending ==
  ASSUME NEW x \in [Cells -> Plain]
  PROVE  Minus(x, x) = ZeroDelta
<1>1. \A c \in Cells : x[c] - x[c] = 0
  BY CellAssumption DEF Plain
<1> QED BY <1>1 DEF Minus, ZeroDelta

\* The two sums a client adds are the way of the database over both.
LEMMA Telescope ==
  ASSUME NEW x \in Deltas, NEW y \in Deltas, NEW z \in Deltas
  PROVE  Plus(Minus(y, x), Minus(z, y)) = Minus(z, x)
<1>1. \A c \in Cells : (y[c] - x[c]) + (z[c] - y[c]) = z[c] - x[c]
  BY DEF Deltas
<1> QED BY <1>1 DEF Plus, Minus

\* Taking the pending sum out of the head gives the database at the pin.
LEMMA TakenOut ==
  ASSUME NEW x \in Deltas, NEW y \in Deltas
  PROVE  Minus(y, Minus(y, x)) = x
<1>1. \A c \in Cells : y[c] - (y[c] - x[c]) = x[c]
  BY DEF Deltas
<1>2. Minus(y, Minus(y, x)) = [c \in Cells |-> x[c]]
  BY <1>1 DEF Minus
<1> QED BY <1>2 DEF Deltas

LEMMA InitRInv == Init => RInv
<1> SUFFICES ASSUME Init PROVE RInv
  OBVIOUS
<1>1. PirInv /\ ServerInv /\ TypeOK
  BY InitPirInv DEF Init, PirInv
<1>2. pending = ZeroDelta /\ pin_epoch = 0 /\ cepoch = 0 /\ epoch = 0 /\ cseed = seed
      /\ chint = hint /\ outcome = Returned("Ok")
  BY DEF Init, ClientInit, ServerInit
<1>3. 0 \in 0 .. epoch
  BY <1>2
<1>4. RewindTypeOK
  BY <1>1, <1>2, DeltaTypes DEF RewindTypeOK
<1>5. history[0].bundle.seed = seed /\ history[0].db = db /\ hint = Encode(seed, db)
      /\ history[0].bundle.hint = Encode(seed, db) /\ db \in [Cells -> Plain]
  BY <1>1, <1>2, <1>3, HistoryFacts DEF ServerInv, HistoryOfSetups, HintsEncodeDb
<1>6. PinPlusPendingIsHead
  BY <1>2, <1>5, ZeroPending DEF PinPlusPendingIsHead
<1>7. NoFalseAlarm
  BY <1>2, ReturnedType DEF NoFalseAlarm, Kinds
<1> QED BY <1>1, <1>4, <1>6, <1>7 DEF RInv

\* The history only grows, so steps that leave the client's hint and epochs
\* alone leave it right.
LEMMA PinnedStays ==
  ASSUME PirInv, Pinned, TypeOK,
         \/ ServerStep
         \/ UNCHANGED serverVars,
         UNCHANGED <<cseed, chint, cepoch, pending, pin_epoch>>
  PROVE  Pinned'
<1>1. pin_epoch \in 0 .. epoch /\ cepoch \in 0 .. epoch
  BY DatabaseAssumption DEF Pinned, TypeOK, ServerTypeOK
<1>2. /\ history'[pin_epoch] = history[pin_epoch]
      /\ history'[cepoch] = history[cepoch]
  <2>1. CASE ServerStep
    BY <1>1, <2>1, HistoryGrows DEF ServerStep, PirInv
  <2>2. CASE UNCHANGED serverVars
    BY <2>2 DEF serverVars
  <2> QED BY <2>1, <2>2
<1> QED BY <1>2 DEF Pinned, PinPlusPendingIsHead

LEMMA RInvFacts ==
  ASSUME RInv
  PROVE  /\ PirInv /\ ServerInv /\ TypeOK /\ Pinned /\ NoFalseAlarm
         /\ epoch \in Nat
         /\ cepoch \in 0 .. epoch
         /\ pin_epoch \in 0 .. epoch
<1>1. PirInv /\ ServerInv /\ TypeOK /\ Pinned /\ NoFalseAlarm
  BY DEF RInv, PirInv, RewindTypeOK, Pinned
<1> QED BY <1>1, DatabaseAssumption DEF TypeOK, ServerTypeOK, Pinned

-----------------------------------------------------------------------------
(* The steps of the client.                                                *)

LEMMA CommonRInv ==
  ASSUME RInv, CommonNext, UNCHANGED rewindVars
  PROVE  RInv'
<1>1. PirInv'
  BY CommonPirInv DEF RInv
<1>2. /\ ServerStep \/ UNCHANGED serverVars
      /\ UNCHANGED <<cseed, chint, cepoch>>
  BY DEF CommonNext, ServerStep, BuildQuery, Answer, PrecomputeQuery, PrecomputeDecodes,
         RejectDelta, clientVars
<1>3. Pinned'
  BY <1>2, RInvFacts, PinnedStays DEF rewindVars
<1>4. \/ UNCHANGED outcome
      \/ \E kind \in Kinds \ {"CellOutOfRange", "MalformedBundle"} : outcome' = Returned(kind)
  BY DEF CommonNext, ServerStep, BuildQuery, Answer, PrecomputeQuery, PrecomputeDecodes,
         RejectDelta, appVars, Kinds
<1> QED BY <1>1, <1>3, <1>4, ReturnsKeepRInv DEF RInv

LEMMA AccumulateRInv ==
  ASSUME RInv, NEW e \in Emitted, AccumulateDelta(e)
  PROVE  RInv'
<1> DEFINE x == history[pin_epoch].db
           y == history[cepoch].db
           z == history[e].db
<1>1. /\ e = cepoch + 1 /\ e \in 0 .. epoch /\ cepoch' = e
      /\ pending' = Plus(pending, history[e].delta)
      /\ UNCHANGED serverVars /\ UNCHANGED <<epoch, history>>
      /\ UNCHANGED <<cseed, chint, prepared, in_flight, query, response, pin_epoch>>
  BY DEF AccumulateDelta, Merge, Emitted, serverVars
<1>2. "Synced" \in Kinds \ {"Value", "CellOutOfRange", "MalformedBundle"}
      /\ outcome' = Returned("Synced") /\ outcome' \in Outcomes
  BY ReturnedType DEF AccumulateDelta, Kinds
<1>3. /\ x \in Deltas /\ y \in Deltas /\ z \in Deltas
      /\ cepoch \in 0 .. epoch /\ pin_epoch \in 0 .. cepoch
  BY <1>1, RInvFacts, HistoryFacts DEF Pinned
<1>4. /\ history[e].bundle.seed = history[cepoch].bundle.seed
      /\ history[e].delta = Minus(z, y)
  <2>1. e - 1 = cepoch
    BY <1>1, <1>3
  <2> QED BY <2>1, RInvFacts DEF ServerInv, DeltasOfDatabases
<1>5. pending = Minus(y, x)
  BY RInvFacts DEF Pinned, PinPlusPendingIsHead
<1> HIDE DEF x, y, z
<1>6. pending' = Minus(z, x) /\ pending' \in Deltas
  BY <1>1, <1>3, <1>4, <1>5, Telescope, DeltaTypes
<1>7. PinPlusPendingIsHead'
  BY <1>1, <1>4, <1>6, RInvFacts DEF Pinned, PinPlusPendingIsHead, x, z
<1>8. Pinned'
  BY <1>1, <1>3, <1>6, <1>7 DEF Pinned
<1>9. TypeOK'
  BY <1>1, <1>2, RInvFacts, ServerTypeUnchanged DEF TypeOK
<1>10. CachedMaterialIsFresh' /\ AnswersAreHonest'
  BY <1>1 DEF RInv, PirInv, CachedMaterialIsFresh, AllSlots, AnswersAreHonest
<1>11. PirInv'
  BY <1>1, <1>2, <1>9, <1>10, RInvFacts, CallPirInv
<1> QED BY <1>2, <1>8, <1>11, RInvFacts, ReturnsKeepRInv

LEMMA CollectGarbageRInv == ASSUME RInv, CollectGarbage PROVE RInv'
<1> DEFINE x == history[pin_epoch].db
           y == history[cepoch].db
<1>1. /\ PatchState(pending) /\ pin_epoch' = cepoch /\ pending' = ZeroDelta
      /\ UNCHANGED serverVars /\ UNCHANGED <<epoch, history>>
      /\ UNCHANGED <<cseed, cepoch, query, response, outcome>>
  BY DEF CollectGarbage, serverVars, appVars
<1>2. pending \in Deltas /\ pending = Minus(y, x)
  BY RInvFacts DEF Pinned, PinPlusPendingIsHead
<1>3. /\ chint' \in Hints
      /\ prepared' \in Seq(Slots) /\ Len(prepared') = Len(prepared)
      /\ in_flight' \subseteq Slots
      /\ CachedMaterialIsFresh'
  BY <1>1, <1>2, RInvFacts, PatchStateTypes
<1>4. /\ x \in Deltas /\ y \in Deltas /\ y \in [Cells -> Plain]
      /\ cepoch \in 0 .. epoch /\ epoch \in Nat
  BY RInvFacts, HistoryFacts
<1>5. /\ cseed = history[pin_epoch].bundle.seed
      /\ cseed = history[cepoch].bundle.seed
      /\ chint = history[pin_epoch].bundle.hint
  BY RInvFacts DEF Pinned, PinPlusPendingIsHead
<1>6. cseed \in Seeds /\ chint = Encode(cseed, x) /\ history[cepoch].bundle.hint = Encode(cseed, y)
  BY <1>5, RInvFacts, HistoryFacts
<1>7. chint' = history[cepoch].bundle.hint
  <2>1. chint' = ClientPatch(Encode(cseed, x), cseed, Minus(y, x))
    BY <1>1, <1>2, <1>6 DEF PatchState
  <2> HIDE DEF x, y
  <2>2. Minus(y, x) \in Deltas /\ Plus(x, Minus(y, x)) = y
    BY <1>4, DeltaTypes, PlusMinus
  <2> QED BY <2>1, <2>2, <1>4, <1>6, ClientPatchEncode
<1>8. pending' = Minus(y, y) /\ pending' \in Deltas
  BY <1>1, <1>4, ZeroPending, DeltaTypes
<1>9. Pinned'
  <2>1. PinPlusPendingIsHead'
    BY <1>1, <1>5, <1>7, <1>8 DEF PinPlusPendingIsHead
  <2>2. pin_epoch' \in 0 .. cepoch'
    BY <1>1, <1>4
  <2> QED BY <2>1, <2>2, <1>8 DEF Pinned
<1>10. TypeOK'
  BY <1>1, <1>3, RInvFacts, ServerTypeUnchanged DEF TypeOK
<1>11. AnswersAreHonest'
  BY <1>1 DEF RInv, PirInv, AnswersAreHonest
<1>12. PirInv'
  BY <1>1, <1>3, <1>10, <1>11, RInvFacts, CallPirInv
<1> QED BY <1>1, <1>9, <1>12, RInvFacts, ReturnsKeepRInv

\* reset_from and the resync of apply_delta.
LEMMA ResetRInv ==
  ASSUME RInv, NEW e \in 0 .. epoch, Reset(history[e].bundle), Repin,
         NEW kind \in {"Ok", "Resynced"}, outcome' = Returned(kind)
  PROVE  RInv'
<1>1. kind \in Kinds \ {"Value"} /\ kind \in Kinds \ {"CellOutOfRange", "MalformedBundle"}
  BY DEF Kinds
<1>2. PirInv'
  BY <1>1, RInvFacts, ResetPirInv
<1>3. /\ cseed' = history[e].bundle.seed /\ chint' = history[e].bundle.hint
      /\ cepoch' = history[e].bundle.epoch
      /\ pending' = ZeroDelta /\ pin_epoch' = cepoch'
      /\ UNCHANGED history
  BY DEF Reset, Repin, serverVars
<1>4. cepoch' = e /\ e \in Nat /\ history[e].db \in [Cells -> Plain]
  BY <1>3, RInvFacts, HistoryFacts
<1>5. PinPlusPendingIsHead'
  BY <1>3, <1>4, ZeroPending DEF PinPlusPendingIsHead
<1>6. Pinned'
  BY <1>3, <1>4, <1>5, DeltaTypes DEF Pinned
<1> QED BY <1>1, <1>2, <1>6, RInvFacts, ReturnsKeepRInv

\* What comes out of a response of the client's epoch is the queried rows
\* of the database at the pin.
LEMMA StaleIsPinned ==
  ASSUME RInv, NEW q \in query, NEW r \in response, r.epoch = cepoch,
         NEW slot \in in_flight, NEW v \in Stale(q, r, slot)
  PROVE  \A j \in Segments : v[j] = history[pin_epoch].db[<<j, q.rows[j]>>]
<1> DEFINE x == history[pin_epoch].db
           y == history[cepoch].db
<1>1. /\ x \in Deltas /\ y \in Deltas /\ x \in [Cells -> Plain]
      /\ pending = Minus(y, x) /\ r.db = y
  BY RInvFacts, HistoryFacts DEF Pinned, PinPlusPendingIsHead, PirInv, AnswersAreHonest
<1>2. cseed \in Seeds /\ chint = Encode(cseed, x)
  BY RInvFacts, HistoryFacts DEF Pinned, PinPlusPendingIsHead
<1>3. DecodeMaterial(slot, chint) = Encode(cseed, x)
  BY <1>2 DEF DecodeMaterial, RInv, PirInv, CachedMaterialIsFresh, AllSlots
<1>4. Minus(r.db, pending) = x
  BY <1>1, TakenOut
<1>5. \A j \in Segments : q.rows[j] \in Rows
  BY RInvFacts DEF TypeOK, Queries, RowChoices
<1> HIDE DEF x, y
<1>6. \A j \in Segments : v[j] \in Decodes(Encode(cseed, x), cseed, x, j, q.rows[j])
  BY <1>3, <1>4 DEF Stale
<1>7. ASSUME NEW j \in Segments PROVE v[j] = x[<<j, q.rows[j]>>]
  <2>1. q.rows[j] \in Rows /\ v[j] \in Decodes(Encode(cseed, x), cseed, x, j, q.rows[j])
    BY <1>5, <1>6
  <2>2. Decodes(Encode(cseed, x), cseed, x, j, q.rows[j]) = {x[<<j, q.rows[j]>>]}
    BY <1>1, <1>2, <2>1, DecodesExactly
  <2> QED BY <2>1, <2>2
<1> QED BY <1>7 DEF x

\* Hence the corrected row is that of the head.
LEMMA CorrectedIsHead ==
  ASSUME RInv, NEW q \in query, NEW r \in response, r.epoch = cepoch,
         NEW slot \in in_flight, NEW v \in Stale(q, r, slot)
  PROVE  /\ \A j \in Segments : /\ Corrected(q, v)[j] = history[cepoch].db[<<j, q.rows[j]>>]
                                /\ Corrected(q, v)[j] \in Plain
         /\ Corrected(q, v) \in [Segments -> Plain]
<1> DEFINE x == history[pin_epoch].db
           y == history[cepoch].db
<1>1. /\ x \in Deltas /\ y \in Deltas /\ y \in [Cells -> Plain]
      /\ pending = Minus(y, x)
  BY RInvFacts, HistoryFacts DEF Pinned, PinPlusPendingIsHead
<1>2. \A j \in Segments : v[j] = x[<<j, q.rows[j]>>]
  BY StaleIsPinned
<1>3. \A j \in Segments : <<j, q.rows[j]>> \in Cells
  BY RInvFacts DEF TypeOK, Queries, RowChoices, Cells
<1> HIDE DEF x, y
<1>4. \A c \in Cells : /\ x[c] + pending[c] = y[c]
                       /\ y[c] \in Plain
  BY <1>1 DEF Minus, Deltas
<1>5. \A j \in Segments : Corrected(q, v)[j] = y[<<j, q.rows[j]>>] /\ y[<<j, q.rows[j]>>] \in Plain
  BY <1>2, <1>3, <1>4 DEF Corrected
<1>6. Corrected(q, v) \in [Segments -> Plain]
  BY <1>5 DEF Corrected
<1> QED BY <1>5, <1>6 DEF y

LEMMA DecodeRInv == ASSUME RInv, Decode PROVE RInv'
<1>1. /\ UNCHANGED serverVars /\ UNCHANGED <<epoch, history>>
      /\ UNCHANGED <<cseed, chint, cepoch, prepared, in_flight, query, response>>
      /\ UNCHANGED <<pending, pin_epoch>>
  BY DEF Decode, serverVars, clientVars, rewindVars
<1>2. /\ CachedMaterialIsFresh' /\ AnswersAreHonest' /\ ServerInv'
      /\ epoch \in Nat /\ cepoch \in 0 .. epoch
  BY <1>1, RInvFacts, StutterServerInv
     DEF PirInv, CachedMaterialIsFresh, AllSlots, AnswersAreHonest
<1>3. Pinned'
  BY <1>1, RInvFacts, PinnedStays
<1>4. ASSUME NEW kind \in {"EpochMismatch", "Panic"}, outcome' = Returned(kind)
      PROVE  RInv'
  <2>1. kind \in Kinds \ {"Value"} /\ kind \in Kinds \ {"CellOutOfRange", "MalformedBundle"}
    BY DEF Kinds
  <2>2. outcome' \in Outcomes
    BY <1>4, <2>1, ReturnedType
  <2>3. TypeOK'
    BY <1>1, <2>2, RInvFacts, ServerTypeUnchanged DEF TypeOK
  <2>4. PirInv'
    BY <1>1, <1>2, <1>4, <2>1, <2>3, RInvFacts, CallPirInv
  <2> QED BY <1>3, <1>4, <2>1, <2>4, RInvFacts, ReturnsKeepRInv
<1>5. ASSUME NEW q \in query, NEW r \in response, r.epoch = cepoch,
             NEW slot \in in_flight, DecodeRow(q, r, slot)
      PROVE  RInv'
  <2>1. PICK v \in Stale(q, r, slot) :
           \/ outcome' = Value(q, Corrected(q, v))
           \/ \E j \in Segments : Corrected(q, v)[j] \notin Plain
    BY <1>5 DEF DecodeRow
  <2>2. /\ \A j \in Segments : Corrected(q, v)[j] = history[cepoch].db[<<j, q.rows[j]>>]
        /\ Corrected(q, v) \in [Segments -> Plain]
        /\ outcome' = Value(q, Corrected(q, v))
    BY <1>5, <2>1, CorrectedIsHead
  <2>3. "Value" \in Kinds /\ q.rows \in RowChoices /\ cepoch \in Nat
    BY <1>2, RInvFacts DEF Kinds, TypeOK, Queries
  <2>4. /\ outcome' \in Outcomes /\ outcome'.kind = "Value" /\ outcome'.epoch = cepoch
        /\ outcome'.rows = q.rows /\ outcome'.value = Corrected(q, v)
    BY <2>2, <2>3 DEF Value, Outcomes
  <2>5. TypeOK'
    BY <1>1, <2>4, RInvFacts, ServerTypeUnchanged DEF TypeOK
  <2>6. DecodeIsExact'
    BY <1>1, <2>2, <2>4 DEF DecodeIsExact
  <2>7. PirInv'
    BY <1>1, <1>2, <2>4, <2>5, <2>6 DEF PirInv
  <2>8. NoFalseAlarm'
    BY <2>4 DEF NoFalseAlarm
  <2> QED BY <1>3, <2>5, <2>7, <2>8 DEF RInv, RewindTypeOK, Pinned
<1>6. PICK q \in query, r \in response :
        \/ outcome' = Returned("EpochMismatch")
        \/ q.epoch # r.epoch
        \/ outcome' = Returned("Panic")
        \/ r.epoch = cepoch /\ \E slot \in in_flight : DecodeRow(q, r, slot)
  BY DEF Decode
<1>7. q.epoch = r.epoch
  BY DEF RInv, PirInv, AnswersAreHonest
<1> QED BY <1>4, <1>5, <1>6, <1>7

LEMMA StutterRInv == ASSUME RInv, UNCHANGED vars PROVE RInv'
<1>1. /\ UNCHANGED serverVars /\ UNCHANGED <<epoch, history, outcome>>
      /\ UNCHANGED <<cseed, chint, cepoch, prepared, in_flight, query, response>>
      /\ UNCHANGED <<pending, pin_epoch>>
  BY DEF vars, pirVars, serverVars, clientVars, appVars, rewindVars
<1>2. TypeOK' /\ CachedMaterialIsFresh' /\ AnswersAreHonest'
  BY <1>1, RInvFacts, ServerTypeUnchanged
     DEF TypeOK, PirInv, CachedMaterialIsFresh, AllSlots, AnswersAreHonest
<1>3. PirInv'
  BY <1>1, <1>2, RInvFacts, CallPirInv
<1>4. Pinned'
  BY <1>1, RInvFacts, PinnedStays
<1> QED BY <1>1, <1>3, <1>4, RInvFacts, ReturnsKeepRInv

LEMMA StepRInv == ASSUME RInv, [Next]_vars PROVE RInv'
<1>1. CASE CommonNext /\ UNCHANGED rewindVars
  BY <1>1, CommonRInv
<1>2. CASE \E e \in Emitted : AccumulateDelta(e)
  BY <1>2, AccumulateRInv
<1>3. CASE CollectGarbage
  BY <1>3, CollectGarbageRInv
<1>4. CASE \E e \in 0 .. epoch : ResetFrom(e) /\ Repin
  BY <1>4, ResetRInv DEF ResetFrom
<1>5. CASE \E e \in Emitted, fetched \in 0 .. epoch : Resync(e, fetched) /\ Repin
  BY <1>5, ResetRInv DEF Resync
<1>6. CASE Decode
  BY <1>6, DecodeRInv
<1>7. CASE UNCHANGED vars
  BY <1>7, StutterRInv
<1> QED BY <1>1, <1>2, <1>3, <1>4, <1>5, <1>6, <1>7 DEF Next

-----------------------------------------------------------------------------
\* The inductive invariant holds in every state (RewindClient, IkpirServer).
THEOREM RewindInvariance == Spec => []RInv
<1>1. Init => RInv
  BY InitRInv
<1>2. RInv /\ [Next]_vars => RInv'
  BY StepRInv
<1> QED BY <1>1, <1>2, PTL DEF Spec

\* After any deltas lost, repeated or out of order, resets and foldings, the
\* pinned hint is that of a fresh setup at the pin and the pending sum leads
\* to the head (accumulate_delta, collect_garbage, reset_from).
THEOREM PinCorrect == Spec => []PinPlusPendingIsHead
<1>1. RInv => PinPlusPendingIsHead
  BY DEF RInv
<1> QED BY <1>1, RewindInvariance, PTL

\* Server and client keep their types; the pin is never ahead of the client,
\* nor the client of the server (RewindClient).
THEOREM RewindTypeCorrect == Spec => []RewindTypeOK
<1>1. RInv => RewindTypeOK
  BY DEF RInv
<1> QED BY <1>1, RewindInvariance, PTL

\* Decode material computed at any time is that of the hint at hand
\* (client_precompute_decodes, client_patch_state).
THEOREM RewindMaterialFresh == Spec => []CachedMaterialIsFresh
<1>1. RInv => CachedMaterialIsFresh
  BY DEF RInv, PirInv
<1> QED BY <1>1, RewindInvariance, PTL

\* What decode returns is the queried rows at the epoch of the client,
\* whatever came between query, answer and decode (RewindClient::decode).
THEOREM RewindDecodeCorrect == Spec => []DecodeIsExact
<1>1. RInv => DecodeIsExact
  BY DEF RInv, PirInv
<1> QED BY <1>1, RewindInvariance, PTL

\* An honest answer is never refused as corrupt (correct_row_cells, decode).
THEOREM RewindNoFalseAlarm == Spec => []NoFalseAlarm
<1>1. RInv => NoFalseAlarm
  BY DEF RInv
<1> QED BY <1>1, RewindInvariance, PTL

-----------------------------------------------------------------------------
(* RewindClient implements HintPatchClient.  The state of the abstract     *)
(* client: the hint and the slots as they would be had the pending sum     *)
(* been folded into them.                                                  *)

FoldedHint       == ClientPatch(chint, cseed, pending)
FoldedSlot(slot) == PatchSlot(slot, cseed, pending)
FoldedPrepared   == [i \in DOMAIN prepared |-> FoldedSlot(prepared[i])]
FoldedInFlight   == {FoldedSlot(slot) : slot \in in_flight}

\* The operators of HP that no state enters are those of the modules extended.
LEMMA SameOperators ==
  /\ \A h, s, delta : HP!ClientPatch(h, s, delta) = ClientPatch(h, s, delta)
  /\ \A slot, s, delta : HP!PatchSlot(slot, s, delta) = PatchSlot(slot, s, delta)
  /\ \A slot, h : HP!WithC(slot, h) = WithC(slot, h)
  /\ \A slot, h : HP!DecodeMaterial(slot, h) = DecodeMaterial(slot, h)
  /\ \A h, s, x, j, r : HP!Decodes(h, s, x, j, r) = Decodes(h, s, x, j, r)
  /\ \A kind : HP!Returned(kind) = Returned(kind)
  /\ \A q, v : HP!Value(q, v) = Value(q, v)
  /\ HP!FreshSlot = FreshSlot /\ HP!RowChoices = RowChoices /\ HP!Plain = Plain
  /\ HP!Emitted = Emitted
BY DEF HP!ClientPatch, HP!Patch, HP!PatchSlot, HP!WithC, HP!DecodeMaterial, HP!Decodes,
       HP!SameInSegment, HP!Encode, HP!ZeroDelta, HP!Returned, HP!Value, HP!FreshSlot, HP!NoC,
       HP!RowChoices, HP!Plain, HP!Emitted, HP!Cells, HP!Seeds, HP!Touched,
       ClientPatch, Patch, PatchSlot, WithC, DecodeMaterial, Decodes, SameInSegment, Encode,
       ZeroDelta, Returned, Value, FreshSlot, NoC, RowChoices, Plain, Emitted, Cells, Seeds,
       Touched

LEMMA SameServer == HP!ServerNext <=> ServerNext
BY DEF HP!ServerNext, HP!CommitMutations, HP!FullRebuild, HP!DropHintMaterial, HP!Expanded,
       HP!Publish, HP!Setup, HP!Patch, HP!Encode, HP!Minus, HP!ZeroDelta, HP!Cells, HP!Seeds,
       HP!NoMaterial, HP!Touched,
       ServerNext, CommitMutations, FullRebuild, DropHintMaterial, Expanded, Publish, Setup,
       Patch, Encode, Minus, ZeroDelta, Cells, Seeds, NoMaterial, Touched

\* Folded, the hint is that of a fresh setup at the client's epoch.
LEMMA FoldedHintIsHead ==
  ASSUME RInv
  PROVE  /\ FoldedHint = Encode(cseed, history[cepoch].db)
         /\ FoldedHint = history[cepoch].bundle.hint
         /\ cseed \in Seeds /\ pending \in Deltas /\ chint \in Hints
<1> DEFINE x == history[pin_epoch].db
           y == history[cepoch].db
<1>1. pending \in Deltas /\ pending = Minus(y, x)
  BY RInvFacts DEF Pinned, PinPlusPendingIsHead
<1>2. x \in Deltas /\ y \in Deltas
  BY RInvFacts, HistoryFacts
<1>3. /\ cseed = history[pin_epoch].bundle.seed
      /\ cseed = history[cepoch].bundle.seed
      /\ chint = history[pin_epoch].bundle.hint
  BY RInvFacts DEF Pinned, PinPlusPendingIsHead
<1>4. cseed \in Seeds /\ chint = Encode(cseed, x) /\ history[cepoch].bundle.hint = Encode(cseed, y)
  BY <1>3, RInvFacts, HistoryFacts
<1>5. FoldedHint = ClientPatch(Encode(cseed, x), cseed, Minus(y, x))
  BY <1>1, <1>4 DEF FoldedHint
<1>6. chint \in Hints
  BY RInvFacts DEF TypeOK
<1> HIDE DEF x, y
<1>7. Minus(y, x) \in Deltas /\ Plus(x, Minus(y, x)) = y
  BY <1>2, DeltaTypes, PlusMinus
<1>8. FoldedHint = Encode(cseed, y)
  BY <1>4, <1>5, <1>7, <1>2, ClientPatchEncode
<1> QED BY <1>1, <1>4, <1>6, <1>8 DEF y

\* So is, folded, the decode material of a slot that has it.
LEMMA FoldedSlots ==
  ASSUME RInv, NEW slot \in AllSlots
  PROVE  /\ slot \in Slots
         /\ FoldedSlot(slot) = IF slot.cached THEN [cached |-> TRUE, c |-> FoldedHint] ELSE slot
<1>1. slot \in Slots
  BY RInvFacts DEF AllSlots, TypeOK
<1>2. slot.cached => slot.c = chint
  BY DEF RInv, PirInv, CachedMaterialIsFresh
<1>3. CASE slot.cached
  <2>1. /\ FoldedSlot(slot) \in Slots /\ FoldedSlot(slot).cached = slot.cached
        /\ FoldedSlot(slot).c = FoldedHint
    BY <1>1, <1>2, <1>3, FoldedHintIsHead, PatchSlotType DEF FoldedSlot, FoldedHint
  <2>2. FoldedSlot(slot).cached = TRUE
    BY <1>1, <1>3, <2>1 DEF Slots
  <2> QED BY <1>1, <1>3, <2>1, <2>2 DEF Slots
<1>4. CASE ~slot.cached
  BY <1>1, <1>4 DEF FoldedSlot, PatchSlot
<1> QED BY <1>3, <1>4

LEMMA InitRefines == Init => HP!Init
<1> SUFFICES ASSUME Init PROVE HP!Init
  OBVIOUS
<1>1. RInv /\ ClientInit
  BY InitRInv DEF Init
<1>2. prepared = <<>> /\ in_flight = {} /\ cepoch = 0 /\ epoch = 0 /\ cseed = seed /\ hint = chint
  BY <1>1 DEF ClientInit, ServerInit
<1>3. history[0].bundle.hint = chint
  BY <1>1, <1>2 DEF ClientInit, ServerInit, Setup
<1>4. FoldedHint = hint
  BY <1>1, <1>2, <1>3, FoldedHintIsHead
<1>5. FoldedPrepared = <<>> /\ FoldedInFlight = {}
  BY <1>2 DEF FoldedPrepared, FoldedInFlight
<1>6. HP!ServerInit
  BY <1>1 DEF ClientInit, ServerInit, Setup, Encode, ZeroDelta, Cells, Seeds,
     HP!ServerInit, HP!Setup, HP!Encode, HP!ZeroDelta, HP!Cells, HP!Seeds
<1> QED BY <1>1, <1>4, <1>5, <1>6, SameOperators
        DEF ClientInit, HP!Init, HP!ClientInit, FoldedHint, FoldedPrepared, FoldedInFlight, FoldedSlot

-----------------------------------------------------------------------------
(* Every step of the client is a step of HP or leaves its state alone.     *)

\* What the state of HP is made of.
LEMMA AbstractState ==
  /\ HP!clientVars = <<cseed, FoldedHint, cepoch, FoldedPrepared, FoldedInFlight>>
  /\ HP!serverVars = serverVars /\ HP!appVars = appVars
  /\ (UNCHANGED HP!serverVars <=> UNCHANGED serverVars)
  /\ HP!pirVars = <<serverVars, HP!clientVars, appVars>>
BY DEF HP!clientVars, HP!serverVars, HP!appVars, HP!pirVars, serverVars, appVars,
       FoldedHint, FoldedPrepared, FoldedInFlight, FoldedSlot

LEMMA FoldedUnchanged ==
  ASSUME UNCHANGED <<cseed, chint, cepoch, prepared, in_flight, pending>>
  PROVE  UNCHANGED <<FoldedHint, FoldedPrepared, FoldedInFlight, HP!clientVars>>
BY DEF FoldedHint, FoldedPrepared, FoldedInFlight, FoldedSlot, HP!clientVars

LEMMA ServerStepRefines ==
  ASSUME ServerStep, UNCHANGED rewindVars
  PROVE  HP!ServerStep
<1>1. UNCHANGED <<cseed, chint, cepoch, prepared, in_flight, pending>>
  BY DEF ServerStep, clientVars, rewindVars
<1>2. UNCHANGED HP!clientVars
  BY <1>1, FoldedUnchanged
<1>3. UNCHANGED HP!appVars
  BY DEF ServerStep, appVars, HP!appVars
<1> QED BY <1>2, <1>3, SameServer DEF ServerStep, HP!ServerStep

LEMMA SequenceAsFunction ==
  ASSUME NEW S, NEW s \in Seq(S)
  PROVE  s = [i \in 1 .. Len(s) |-> s[i]]
<1>1. s \in [1 .. Len(s) -> S]
  BY LenProperties
<1> QED BY <1>1

LEMMA FoldedSequence ==
  ASSUME RInv
  PROVE  /\ prepared \in Seq(Slots) /\ FoldedPrepared \in Seq(Slots)
         /\ Len(FoldedPrepared) = Len(prepared)
         /\ \A i \in 1 .. Len(prepared) : FoldedPrepared[i] = FoldedSlot(prepared[i])
<1>1. prepared \in Seq(Slots)
  BY RInvFacts DEF TypeOK
<1>2. \A i \in DOMAIN prepared : FoldedSlot(prepared[i]) \in Slots
  BY <1>1, FoldedHintIsHead, PatchSlotType DEF FoldedSlot
<1>3. FoldedPrepared \in Seq(Slots) /\ Len(FoldedPrepared) = Len(prepared)
  BY <1>1, <1>2, MappedSlots DEF FoldedPrepared
<1> QED BY <1>1, <1>3 DEF FoldedPrepared

LEMMA BuildQueryRefines ==
  ASSUME RInv, NEW rows \in RowChoices, BuildQuery(rows), UNCHANGED rewindVars
  PROVE  HP!BuildQuery(rows)
<1>1. /\ in_flight' = {IF prepared = <<>> THEN FreshSlot ELSE Head(prepared)}
      /\ prepared' = IF prepared = <<>> THEN <<>> ELSE Tail(prepared)
      /\ UNCHANGED <<cseed, chint, cepoch, pending>>
  BY DEF BuildQuery, rewindVars
<1>2. FoldedSlot(FreshSlot) = FreshSlot
  BY FreshSlotType DEF FoldedSlot, PatchSlot
<1>3. /\ FoldedHint' = FoldedHint
      /\ FoldedInFlight' = {FoldedSlot(slot) : slot \in in_flight'}
      /\ FoldedPrepared' = [i \in DOMAIN prepared' |-> FoldedSlot(prepared'[i])]
  BY <1>1 DEF FoldedHint, FoldedInFlight, FoldedPrepared, FoldedSlot
<1>4. /\ FoldedInFlight' = {IF FoldedPrepared = <<>> THEN FreshSlot ELSE Head(FoldedPrepared)}
      /\ FoldedPrepared' = IF FoldedPrepared = <<>> THEN <<>> ELSE Tail(FoldedPrepared)
  <2>1. CASE prepared = <<>>
    <3>1. FoldedPrepared = <<>> /\ FoldedPrepared' = <<>>
      BY <1>1, <1>3, <2>1 DEF FoldedPrepared
    <3> QED BY <1>1, <1>2, <1>3, <2>1, <3>1
  <2>2. CASE prepared # <<>>
    <3>1. /\ prepared \in Seq(Slots) /\ FoldedPrepared \in Seq(Slots)
          /\ Len(prepared) \in Nat /\ Len(prepared) # 0
          /\ Len(FoldedPrepared) = Len(prepared) /\ FoldedPrepared # <<>>
      BY <2>2, FoldedSequence
    <3>2. Head(FoldedPrepared) = FoldedSlot(Head(prepared))
      BY <3>1, FoldedSequence
    <3>3. /\ Tail(prepared) \in Seq(Slots) /\ Len(Tail(prepared)) = Len(prepared) - 1
          /\ Tail(FoldedPrepared) \in Seq(Slots) /\ Len(Tail(FoldedPrepared)) = Len(prepared) - 1
      BY <3>1
    <3>4. \A i \in 1 .. Len(prepared) - 1 : Tail(FoldedPrepared)[i] = FoldedSlot(Tail(prepared)[i])
      BY <3>1, FoldedSequence
    <3>5. FoldedPrepared' = Tail(FoldedPrepared)
      <4>1. DOMAIN Tail(prepared) = 1 .. Len(prepared) - 1
        BY <3>3
      <4>2. FoldedPrepared' = [i \in 1 .. Len(prepared) - 1 |-> FoldedSlot(Tail(prepared)[i])]
        BY <1>1, <1>3, <2>2, <4>1
      <4>3. Tail(FoldedPrepared) = [i \in 1 .. Len(prepared) - 1 |-> Tail(FoldedPrepared)[i]]
        BY <3>3, SequenceAsFunction
      <4> QED BY <3>4, <4>2, <4>3
    <3> QED BY <1>1, <1>3, <2>2, <3>1, <3>2, <3>5
  <2> QED BY <2>1, <2>2
<1> HIDE DEF FoldedHint, FoldedInFlight, FoldedPrepared
<1>5. HP!BuildQuery(rows) <=>
        /\ FoldedInFlight' = {IF FoldedPrepared = <<>> THEN HP!FreshSlot ELSE Head(FoldedPrepared)}
        /\ FoldedPrepared' = IF FoldedPrepared = <<>> THEN <<>> ELSE Tail(FoldedPrepared)
        /\ query' = {[rows |-> rows, epoch |-> cepoch]}
        /\ response' = {}
        /\ outcome' = HP!Returned("Ok")
        /\ UNCHANGED <<HP!serverVars, cseed, FoldedHint, cepoch>>
  BY DEF HP!BuildQuery, FoldedHint, FoldedInFlight, FoldedPrepared, FoldedSlot
<1> QED BY <1>1, <1>3, <1>4, <1>5, SameOperators, AbstractState DEF BuildQuery

LEMMA AnswerRefines ==
  ASSUME Answer, UNCHANGED rewindVars
  PROVE  HP!Answer
<1>1. UNCHANGED HP!clientVars
  BY FoldedUnchanged DEF Answer, clientVars, rewindVars
<1> QED BY <1>1, SameOperators, AbstractState DEF Answer, HP!Answer

LEMMA PrecomputeQueryRefines ==
  ASSUME RInv, PrecomputeQuery, UNCHANGED rewindVars
  PROVE  HP!PrecomputeQuery
<1>1. /\ prepared' = Append(prepared, FreshSlot)
      /\ Len(prepared) < MaxPrepared
      /\ UNCHANGED <<cseed, chint, cepoch, in_flight, pending>>
  BY DEF PrecomputeQuery, rewindVars
<1>2. FoldedSlot(FreshSlot) = FreshSlot /\ FreshSlot \in Slots
  BY FreshSlotType DEF FoldedSlot, PatchSlot
<1>3. /\ FoldedHint' = FoldedHint /\ FoldedInFlight' = FoldedInFlight
      /\ FoldedPrepared' = [i \in DOMAIN prepared' |-> FoldedSlot(prepared'[i])]
  BY <1>1 DEF FoldedHint, FoldedInFlight, FoldedPrepared, FoldedSlot
<1>4. /\ prepared \in Seq(Slots) /\ FoldedPrepared \in Seq(Slots)
      /\ Len(prepared) \in Nat /\ Len(FoldedPrepared) = Len(prepared)
  BY FoldedSequence
<1>5. FoldedPrepared' = Append(FoldedPrepared, FreshSlot)
  <2>1. DOMAIN prepared' = 1 .. Len(prepared) + 1
    BY <1>1, <1>2, <1>4
  <2>2. \A i \in 1 .. Len(prepared) + 1 : FoldedSlot(prepared'[i]) = Append(FoldedPrepared, FreshSlot)[i]
    BY <1>1, <1>2, <1>4, FoldedSequence
  <2>3. Append(FoldedPrepared, FreshSlot)
          = [i \in 1 .. Len(prepared) + 1 |-> Append(FoldedPrepared, FreshSlot)[i]]
    <3>1. Append(FoldedPrepared, FreshSlot) \in Seq(Slots)
          /\ Len(Append(FoldedPrepared, FreshSlot)) = Len(prepared) + 1
      BY <1>2, <1>4
    <3> QED BY <3>1, SequenceAsFunction
  <2> QED BY <1>3, <2>1, <2>2, <2>3
<1>6. HP!PrecomputeQuery <=>
        /\ Len(FoldedPrepared) < MaxPrepared
        /\ FoldedPrepared' = Append(FoldedPrepared, HP!FreshSlot)
        /\ outcome' = HP!Returned("Ok")
        /\ UNCHANGED <<HP!serverVars, cseed, FoldedHint, cepoch, FoldedInFlight, query, response>>
  BY DEF HP!PrecomputeQuery, FoldedHint, FoldedInFlight, FoldedPrepared, FoldedSlot
<1> QED BY <1>1, <1>3, <1>4, <1>5, <1>6, SameOperators, AbstractState DEF PrecomputeQuery

LEMMA PrecomputeDecodesRefines ==
  ASSUME RInv, PrecomputeDecodes, UNCHANGED rewindVars
  PROVE  HP!PrecomputeDecodes
<1>1. /\ prepared' = [i \in DOMAIN prepared |-> WithC(prepared[i], chint)]
      /\ in_flight' = {WithC(slot, chint) : slot \in in_flight}
      /\ UNCHANGED <<cseed, chint, cepoch, pending>>
  BY DEF PrecomputeDecodes, rewindVars
<1>2. /\ FoldedHint' = FoldedHint
      /\ FoldedInFlight' = {FoldedSlot(slot) : slot \in in_flight'}
      /\ FoldedPrepared' = [i \in DOMAIN prepared' |-> FoldedSlot(prepared'[i])]
  BY <1>1 DEF FoldedHint, FoldedInFlight, FoldedPrepared, FoldedSlot
<1>3. ASSUME NEW slot \in AllSlots
      PROVE  FoldedSlot(WithC(slot, chint)) = WithC(FoldedSlot(slot), FoldedHint)
  <2>1. CASE slot.cached
    <3>1. WithC(slot, chint) = slot
      BY <2>1 DEF WithC
    <3>2. FoldedSlot(slot).cached
      BY <2>1, FoldedSlots
    <3> QED BY <3>1, <3>2 DEF WithC
  <2>2. CASE ~slot.cached
    <3> DEFINE new == [cached |-> TRUE, c |-> chint]
    <3>1. WithC(slot, chint) = new /\ new \in Slots /\ new.cached
      BY <2>2, FoldedHintIsHead DEF WithC, Slots
    <3>2. /\ FoldedSlot(new) \in Slots /\ FoldedSlot(new).cached = TRUE
          /\ FoldedSlot(new).c = FoldedHint
      BY <3>1, FoldedHintIsHead, PatchSlotType DEF FoldedSlot, FoldedHint
    <3>3. FoldedSlot(new) = [cached |-> TRUE, c |-> FoldedHint]
      BY <3>2 DEF Slots
    <3>4. WithC(FoldedSlot(slot), FoldedHint) = [cached |-> TRUE, c |-> FoldedHint]
      BY <2>2, FoldedSlots DEF WithC
    <3> QED BY <3>1, <3>3, <3>4
  <2> QED BY <2>1, <2>2
<1>4. FoldedInFlight' = {WithC(slot, FoldedHint) : slot \in FoldedInFlight}
  <2>1. \A slot \in in_flight : FoldedSlot(WithC(slot, chint)) = WithC(FoldedSlot(slot), FoldedHint)
    BY <1>3 DEF AllSlots
  <2> QED BY <1>1, <1>2, <2>1 DEF FoldedInFlight
<1>5. FoldedPrepared' = [i \in DOMAIN FoldedPrepared |-> WithC(FoldedPrepared[i], FoldedHint)]
  <2>1. \A i \in DOMAIN prepared :
          FoldedSlot(WithC(prepared[i], chint)) = WithC(FoldedSlot(prepared[i]), FoldedHint)
    BY <1>3 DEF AllSlots
  <2> QED BY <1>1, <1>2, <2>1 DEF FoldedPrepared
<1>6. HP!PrecomputeDecodes <=>
        /\ FoldedPrepared' = [i \in DOMAIN FoldedPrepared |-> HP!WithC(FoldedPrepared[i], FoldedHint)]
        /\ FoldedInFlight' = {HP!WithC(slot, FoldedHint) : slot \in FoldedInFlight}
        /\ outcome' = HP!Returned("Ok")
        /\ UNCHANGED <<HP!serverVars, cseed, FoldedHint, cepoch, query, response>>
  BY DEF HP!PrecomputeDecodes, FoldedHint, FoldedInFlight, FoldedPrepared, FoldedSlot
<1> QED BY <1>1, <1>2, <1>4, <1>5, <1>6, SameOperators, AbstractState DEF PrecomputeDecodes

LEMMA RejectDeltaRefines ==
  ASSUME NEW e \in Emitted, RejectDelta(e), UNCHANGED rewindVars
  PROVE  HP!RejectDelta(e)
<1>1. UNCHANGED HP!clientVars
  BY FoldedUnchanged DEF RejectDelta, clientVars, rewindVars
<1> QED BY <1>1, SameOperators, AbstractState
        DEF RejectDelta, HP!RejectDelta, Behind, Ahead, HP!Behind, HP!Ahead

LEMMA CommonRefines ==
  ASSUME RInv, CommonNext, UNCHANGED rewindVars
  PROVE  HP!CommonNext
BY ServerStepRefines, BuildQueryRefines, AnswerRefines, PrecomputeQueryRefines,
   PrecomputeDecodesRefines, RejectDeltaRefines, SameOperators DEF CommonNext, HP!CommonNext

\* A slot whose decode material, if it has it, is that of hint h.
Under(slot, h) == IF slot.cached THEN [cached |-> TRUE, c |-> h] ELSE slot

FoldedState ==
  /\ FoldedHint = Encode(cseed, history[cepoch].db)
  /\ FoldedHint = history[cepoch].bundle.hint
  /\ FoldedPrepared = [i \in DOMAIN prepared |-> Under(prepared[i], FoldedHint)]
  /\ FoldedInFlight = {Under(slot, FoldedHint) : slot \in in_flight}

LEMMA FoldedStateHolds == RInv => FoldedState
<1> SUFFICES ASSUME RInv PROVE FoldedState
  OBVIOUS
<1>1. \A slot \in AllSlots : FoldedSlot(slot) = Under(slot, FoldedHint)
  BY FoldedSlots DEF Under
<1>2. FoldedPrepared = [i \in DOMAIN prepared |-> Under(prepared[i], FoldedHint)]
  BY <1>1 DEF FoldedPrepared, AllSlots
<1>3. FoldedInFlight = {Under(slot, FoldedHint) : slot \in in_flight}
  BY <1>1 DEF FoldedInFlight, AllSlots
<1> QED BY <1>2, <1>3, FoldedHintIsHead DEF FoldedState

LEMMA FoldedStateNext == RInv' => FoldedState'
BY FoldedStateHolds, PTL

\* Patches leave the slots without decode material as they are.
LEMMA PatchUnder ==
  ASSUME NEW slot \in Slots, NEW h \in Hints, NEW s \in Seeds, NEW delta \in Deltas
  PROVE  /\ PatchSlot(Under(slot, h), s, delta) = Under(slot, ClientPatch(h, s, delta))
         /\ Under(PatchSlot(slot, s, delta), h) = Under(slot, h)
<1>1. CASE slot.cached
  <2>1. Under(slot, h) \in Slots /\ Under(slot, h).cached /\ Under(slot, h).c = h
    BY <1>1 DEF Under, Slots
  <2> DEFINE patched == PatchSlot(Under(slot, h), s, delta)
  <2>2. patched \in Slots /\ patched.cached /\ patched.c = ClientPatch(h, s, delta)
    BY <2>1, PatchSlotType
  <2>3. PatchSlot(slot, s, delta).cached
    BY <1>1, PatchSlotType
  <2> HIDE DEF patched
  <2>4. patched = [cached |-> TRUE, c |-> ClientPatch(h, s, delta)]
    BY <2>2 DEF Slots
  <2> QED BY <1>1, <2>3, <2>4 DEF Under, patched
<1>2. CASE ~slot.cached
  BY <1>2 DEF Under, PatchSlot
<1> QED BY <1>1, <1>2

LEMMA AccumulateRefines ==
  ASSUME RInv, NEW e \in Emitted, AccumulateDelta(e)
  PROVE  HP!ApplyDelta(e)
<1> DEFINE delta == history[e].delta
           y     == history[cepoch].db
           z     == history[e].db
<1>1. /\ e = cepoch + 1 /\ e \in 0 .. epoch /\ cepoch' = e
      /\ UNCHANGED serverVars /\ UNCHANGED history
      /\ UNCHANGED <<cseed, chint, prepared, in_flight, query, response>>
      /\ outcome' = Returned("Synced")
  BY DEF AccumulateDelta, Emitted, serverVars
<1>2. FoldedState /\ FoldedState'
  BY AccumulateRInv, FoldedStateHolds, FoldedStateNext
<1>3. FoldedHint = Encode(cseed, y) /\ FoldedHint' = Encode(cseed, z) /\ cseed \in Seeds
  BY <1>1, <1>2, FoldedHintIsHead DEF FoldedState
<1>4. y \in Deltas /\ z \in Deltas /\ delta = Minus(z, y) /\ delta \in Deltas
  <2>1. y \in Deltas /\ z \in Deltas /\ cepoch \in Nat
    BY <1>1, RInvFacts, HistoryFacts
  <2>2. e - 1 = cepoch
    BY <1>1, <2>1
  <2>3. delta = Minus(z, y)
    BY <2>2, RInvFacts DEF ServerInv, DeltasOfDatabases
  <2> QED BY <2>1, <2>3, DeltaTypes
<1> HIDE DEF delta, y, z
<1>5. FoldedHint' = ClientPatch(FoldedHint, cseed, delta) /\ FoldedHint \in Hints
  <2>1. Plus(y, Minus(z, y)) = z
    BY <1>4, PlusMinus
  <2> QED BY <1>3, <1>4, <2>1, ClientPatchEncode, EncodeType
<1>6. \A slot \in AllSlots : Under(slot, FoldedHint') = PatchSlot(Under(slot, FoldedHint), cseed, delta)
  BY <1>3, <1>4, <1>5, FoldedSlots, PatchUnder
<1>7. FoldedPrepared' = [i \in DOMAIN FoldedPrepared |-> PatchSlot(FoldedPrepared[i], cseed, delta)]
  BY <1>1, <1>2, <1>6 DEF FoldedState, AllSlots
<1>8. FoldedInFlight' = {PatchSlot(slot, cseed, delta) : slot \in FoldedInFlight}
  BY <1>1, <1>2, <1>6 DEF FoldedState, AllSlots
<1>9. HP!ApplyDelta(e) <=>
        /\ e = cepoch + 1
        /\ FoldedHint' = HP!ClientPatch(FoldedHint, cseed, history[e].delta)
        /\ FoldedPrepared' = [i \in DOMAIN FoldedPrepared |->
                                HP!PatchSlot(FoldedPrepared[i], cseed, history[e].delta)]
        /\ FoldedInFlight' = {HP!PatchSlot(slot, cseed, history[e].delta) : slot \in FoldedInFlight}
        /\ cepoch' = e
        /\ outcome' = HP!Returned("Synced")
        /\ UNCHANGED <<HP!serverVars, cseed, query, response>>
  BY DEF HP!ApplyDelta, HP!PatchState, FoldedHint, FoldedInFlight, FoldedPrepared, FoldedSlot
<1> QED BY <1>1, <1>5, <1>7, <1>8, <1>9, SameOperators, AbstractState DEF delta

LEMMA CollectGarbageRefines ==
  ASSUME RInv, CollectGarbage
  PROVE  UNCHANGED HP!pirVars
<1>1. /\ PatchState(pending)
      /\ UNCHANGED serverVars /\ UNCHANGED history
      /\ UNCHANGED <<cseed, cepoch>> /\ UNCHANGED appVars
  BY DEF CollectGarbage, serverVars
<1>2. FoldedState /\ FoldedState'
  BY CollectGarbageRInv, FoldedStateHolds, FoldedStateNext
<1>3. FoldedHint' = FoldedHint
  BY <1>1, <1>2 DEF FoldedState
<1>4. FoldedHint \in Hints
  BY FoldedHintIsHead, PatchType DEF FoldedHint, ClientPatch
<1>5. \A slot \in AllSlots : Under(PatchSlot(slot, cseed, pending), FoldedHint) = Under(slot, FoldedHint)
  BY <1>4, FoldedHintIsHead, FoldedSlots, PatchUnder
<1>6. FoldedPrepared' = FoldedPrepared
  BY <1>1, <1>2, <1>3, <1>5 DEF PatchState, FoldedState, AllSlots
<1>7. FoldedInFlight' = FoldedInFlight
  BY <1>1, <1>2, <1>3, <1>5 DEF PatchState, FoldedState, AllSlots
<1>8. UNCHANGED HP!clientVars
  BY <1>1, <1>3, <1>6, <1>7
     DEF HP!clientVars, FoldedHint, FoldedPrepared, FoldedInFlight, FoldedSlot
<1> QED BY <1>1, <1>8, AbstractState DEF HP!pirVars, HP!serverVars, HP!appVars, serverVars, appVars

LEMMA ResetRefines ==
  ASSUME RInv, NEW e \in 0 .. epoch, Reset(history[e].bundle), Repin,
         NEW kind \in {"Ok", "Resynced"}, outcome' = Returned(kind)
  PROVE  HP!Reset(history[e].bundle)
<1>1. /\ cseed' = history[e].bundle.seed /\ cepoch' = history[e].bundle.epoch
      /\ prepared' = <<>> /\ in_flight' = {}
      /\ UNCHANGED serverVars /\ UNCHANGED history
      /\ UNCHANGED <<query, response>>
  BY DEF Reset, serverVars
<1>2. cepoch' = e
  BY <1>1, RInvFacts, HistoryFacts
<1>3. FoldedState'
  BY ResetRInv, FoldedStateNext
<1>4. FoldedHint' = history[e].bundle.hint
  BY <1>1, <1>2, <1>3 DEF FoldedState
<1>5. FoldedPrepared' = <<>> /\ FoldedInFlight' = {}
  BY <1>1 DEF FoldedPrepared, FoldedInFlight
<1>6. HP!Reset(history[e].bundle) <=>
        /\ cseed' = history[e].bundle.seed
        /\ FoldedHint' = history[e].bundle.hint
        /\ cepoch' = history[e].bundle.epoch
        /\ FoldedPrepared' = <<>>
        /\ FoldedInFlight' = {}
        /\ UNCHANGED <<HP!serverVars, query, response>>
  BY DEF HP!Reset, FoldedHint, FoldedInFlight, FoldedPrepared, FoldedSlot
<1> QED BY <1>1, <1>4, <1>5, <1>6, AbstractState

LEMMA DecodeRefines ==
  ASSUME RInv, Decode
  PROVE  HP!Decode
<1>1. /\ UNCHANGED serverVars /\ UNCHANGED clientVars /\ UNCHANGED <<query, response>>
      /\ UNCHANGED HP!clientVars
  BY FoldedUnchanged DEF Decode, clientVars, rewindVars
<1>2. PICK q \in query, r \in response :
       \/ r.epoch # cepoch /\ outcome' = Returned("EpochMismatch")
       \/ q.epoch # r.epoch
       \/ r.epoch = cepoch /\ in_flight = {} /\ outcome' = Returned("Panic")
       \/ r.epoch = cepoch /\ \E slot \in in_flight : DecodeRow(q, r, slot)
  BY DEF Decode
<1>3. q.epoch = r.epoch
  BY DEF RInv, PirInv, AnswersAreHonest
<1>4. FoldedState
  BY FoldedStateHolds
<1>5. ASSUME r.epoch = cepoch, NEW slot \in in_flight, DecodeRow(q, r, slot)
      PROVE  \E folded \in FoldedInFlight, v \in [Segments -> Plain] :
               /\ \A j \in Segments :
                    v[j] \in Decodes(DecodeMaterial(folded, FoldedHint), cseed, r.db, j, q.rows[j])
               /\ outcome' = Value(q, v)
  <2> DEFINE y == history[cepoch].db
             folded == Under(slot, FoldedHint)
  <2>1. PICK v \in Stale(q, r, slot) :
           \/ outcome' = Value(q, Corrected(q, v))
           \/ \E j \in Segments : Corrected(q, v)[j] \notin Plain
    BY <1>5 DEF DecodeRow
  <2>2. /\ \A j \in Segments : Corrected(q, v)[j] = y[<<j, q.rows[j]>>]
        /\ Corrected(q, v) \in [Segments -> Plain]
        /\ outcome' = Value(q, Corrected(q, v))
    BY <1>5, <2>1, CorrectedIsHead
  <2>3. DecodeMaterial(folded, FoldedHint) = FoldedHint /\ folded \in FoldedInFlight
    BY <1>4 DEF FoldedState, Under, DecodeMaterial
  <2>4. r.db = y /\ FoldedHint = Encode(cseed, y) /\ cseed \in Seeds /\ y \in [Cells -> Plain]
    BY <1>4, <1>5, RInvFacts, HistoryFacts, FoldedHintIsHead DEF PirInv, AnswersAreHonest, FoldedState
  <2>5. \A j \in Segments : q.rows[j] \in Rows
    BY RInvFacts DEF TypeOK, Queries, RowChoices
  <2> HIDE DEF y, folded
  <2>6. \A j \in Segments : Decodes(FoldedHint, cseed, r.db, j, q.rows[j]) = {y[<<j, q.rows[j]>>]}
    <3>1. ASSUME NEW j \in Segments
          PROVE  Decodes(Encode(cseed, y), cseed, y, j, q.rows[j]) = {y[<<j, q.rows[j]>>]}
      BY <2>4, <2>5, DecodesExactly
    <3> QED BY <2>4, <3>1
  <2> QED BY <2>2, <2>3, <2>6
<1>6. in_flight = {} => FoldedInFlight = {}
  BY DEF FoldedInFlight
<1>7. HP!Decode <=>
        /\ \E q_1 \in query, r_1 \in response :
             \/ /\ r_1.epoch # cepoch
                /\ outcome' = HP!Returned("EpochMismatch")
             \/ /\ r_1.epoch = cepoch
                /\ FoldedInFlight = {}
                /\ outcome' = HP!Returned("Panic")
             \/ /\ r_1.epoch = cepoch
                /\ \E slot \in FoldedInFlight, v \in [Segments -> HP!Plain] :
                     /\ \A j \in Segments :
                          v[j] \in HP!Decodes(HP!DecodeMaterial(slot, FoldedHint), cseed, r_1.db, j, q_1.rows[j])
                     /\ outcome' = HP!Value(q_1, v)
        /\ UNCHANGED <<HP!serverVars, HP!clientVars, query, response>>
  BY DEF HP!Decode, FoldedHint, FoldedInFlight, FoldedPrepared, FoldedSlot
<1>8. UNCHANGED <<HP!serverVars, HP!clientVars, query, response>>
  BY <1>1, AbstractState
<1> QED BY <1>2, <1>3, <1>5, <1>6, <1>7, <1>8, SameOperators

LEMMA NextRefines == ASSUME RInv, [Next]_vars PROVE [HP!Next]_HP!pirVars
<1>1. CASE CommonNext /\ UNCHANGED rewindVars
  BY <1>1, CommonRefines DEF HP!Next
<1>2. CASE \E e \in Emitted : AccumulateDelta(e)
  BY <1>2, AccumulateRefines, SameOperators DEF HP!Next
<1>3. CASE CollectGarbage
  BY <1>3, CollectGarbageRefines
<1>4. CASE \E e \in 0 .. epoch : ResetFrom(e) /\ Repin
  <2>1. PICK e \in 0 .. epoch : ResetFrom(e) /\ Repin
    BY <1>4
  <2>2. HP!Reset(history[e].bundle)
    BY <2>1, ResetRefines DEF ResetFrom
  <2>3. HP!ResetFrom(e)
    BY <2>1, <2>2, SameOperators DEF ResetFrom, HP!ResetFrom
  <2> QED BY <2>3 DEF HP!Next
<1>5. CASE \E e \in Emitted, fetched \in 0 .. epoch : Resync(e, fetched) /\ Repin
  <2>1. PICK e \in Emitted, fetched \in 0 .. epoch : Resync(e, fetched) /\ Repin
    BY <1>5
  <2>2. HP!Reset(history[fetched].bundle)
    BY <2>1, ResetRefines DEF Resync
  <2>3. HP!Resync(e, fetched)
    BY <2>1, <2>2, SameOperators DEF Resync, HP!Resync, Ahead, HP!Ahead
  <2> QED BY <2>3, SameOperators DEF HP!Next
<1>6. CASE Decode
  BY <1>6, DecodeRefines DEF HP!Next
<1>7. CASE UNCHANGED vars
  <2>1. UNCHANGED <<cseed, chint, cepoch, prepared, in_flight, pending>> /\ UNCHANGED serverVars
        /\ UNCHANGED appVars
    BY <1>7 DEF vars, pirVars, clientVars, rewindVars
  <2>2. UNCHANGED HP!clientVars
    BY <2>1, FoldedUnchanged
  <2> QED BY <2>1, <2>2, AbstractState DEF HP!pirVars, HP!serverVars, HP!appVars, serverVars, appVars
<1> QED BY <1>1, <1>2, <1>3, <1>4, <1>5, <1>6, <1>7 DEF Next

\* Whatever the application does, a client that keeps its hint pinned returns
\* what one that patches its hint could have returned (RewindClient).
THEOREM RewindRefines == Spec => ImplementsHintPatch
<1>1. Init => HP!Init
  BY InitRefines
<1>2. RInv /\ [Next]_vars => [HP!Next]_HP!pirVars
  BY NextRefines
<1> QED BY <1>1, <1>2, RewindInvariance, PTL DEF Spec, ImplementsHintPatch, HP!Spec

=============================================================================
