------------------------- MODULE HintPatchClientProofs -------------------------
(***************************************************************************)
(* HintPatchClient is right for any sizes, epochs, seeds and order of      *)
(* calls: it holds what a fresh setup would give, and decodes the rows of  *)
(* its epoch.                                                              *)
(***************************************************************************)
EXTENDS HintPatchClient, PirClientProofs

\* The inductive invariant of server, application and patching client.
HInv ==
  /\ PirInv
  /\ ClientMatchesSetup

LEMMA HInvFacts ==
  ASSUME HInv
  PROVE  /\ PirInv /\ ServerInv /\ TypeOK
         /\ epoch \in Nat /\ cepoch \in 0 .. epoch
BY DatabaseAssumption DEF HInv, PirInv, TypeOK, ServerTypeOK

LEMMA InitHInv == Init => HInv
<1> SUFFICES ASSUME Init PROVE HInv
  OBVIOUS
<1>1. PirInv /\ ServerInv
  BY InitPirInv DEF Init, PirInv
<1>2. cepoch = 0 /\ epoch = 0 /\ cseed = seed /\ chint = hint /\ 0 \in 0 .. epoch
  BY DEF Init, ClientInit, ServerInit
<1>3. /\ history[0].bundle.seed = seed
      /\ history[0].bundle.hint = hint
  BY <1>1, <1>2, HistoryFacts DEF ServerInv, HistoryOfSetups, HintsEncodeDb
<1> QED BY <1>1, <1>2, <1>3 DEF HInv, ClientMatchesSetup

\* The history only grows, so steps that leave seed, hint and epoch of the
\* client alone leave them right.
LEMMA MatchStays ==
  ASSUME HInv, ServerStep \/ UNCHANGED serverVars, UNCHANGED <<cseed, chint, cepoch>>
  PROVE  ClientMatchesSetup'
<1>1. history'[cepoch] = history[cepoch]
  <2>1. CASE ServerStep
    BY <2>1, HInvFacts, HistoryGrows DEF ServerStep
  <2>2. CASE UNCHANGED serverVars
    BY <2>2 DEF serverVars
  <2> QED BY <2>1, <2>2
<1> QED BY <1>1 DEF HInv, ClientMatchesSetup

LEMMA CommonHInv == ASSUME HInv, CommonNext PROVE HInv'
<1>1. PirInv'
  BY CommonPirInv DEF HInv
<1>2. /\ ServerStep \/ UNCHANGED serverVars
      /\ UNCHANGED <<cseed, chint, cepoch>>
  BY DEF CommonNext, ServerStep, BuildQuery, Answer, PrecomputeQuery, PrecomputeDecodes,
         RejectDelta, clientVars
<1> QED BY <1>1, <1>2, MatchStays DEF HInv

LEMMA ApplyDeltaHInv ==
  ASSUME HInv, NEW e \in Emitted, ApplyDelta(e)
  PROVE  HInv'
<1> DEFINE delta == history[e].delta
<1>1. /\ e = cepoch + 1 /\ e \in 0 .. epoch /\ cepoch' = e
      /\ PatchState(delta)
      /\ UNCHANGED serverVars /\ UNCHANGED <<epoch, history>>
      /\ UNCHANGED <<cseed, query, response>>
  BY DEF ApplyDelta, Emitted, serverVars
<1>2. "Synced" \in Kinds \ {"Value"} /\ outcome' = Returned("Synced") /\ outcome' \in Outcomes
  BY ReturnedType DEF ApplyDelta, Kinds
<1>3. delta \in Deltas
  BY <1>1, HInvFacts, HistoryFacts
<1>4. /\ chint' \in Hints
      /\ prepared' \in Seq(Slots) /\ Len(prepared') = Len(prepared)
      /\ in_flight' \subseteq Slots
      /\ CachedMaterialIsFresh'
  BY <1>1, <1>3, HInvFacts, PatchStateTypes
<1>5. TypeOK'
  BY <1>1, <1>2, <1>4, HInvFacts, ServerTypeUnchanged DEF TypeOK
<1>6. AnswersAreHonest'
  BY <1>1 DEF HInv, PirInv, AnswersAreHonest
<1>7. PirInv'
  BY <1>1, <1>2, <1>4, <1>5, <1>6, HInvFacts, CallPirInv
<1>8. /\ history[cepoch].bundle.seed = history[e].bundle.seed
      /\ history[e].bundle.hint =
           ClientPatch(history[cepoch].bundle.hint, history[e].bundle.seed, delta)
  <2>1. e - 1 = cepoch
    BY <1>1, HInvFacts
  <2>2. DeltasBridgeSetups
    BY HInvFacts, BridgesFromInv
  <2> QED BY <2>1, <2>2 DEF DeltasBridgeSetups
<1>9. ClientMatchesSetup'
  BY <1>1, <1>8 DEF HInv, ClientMatchesSetup, PatchState
<1> QED BY <1>7, <1>9 DEF HInv

\* reset_from and the resync of apply_delta.
LEMMA ResetHInv ==
  ASSUME HInv, NEW e \in 0 .. epoch, Reset(history[e].bundle),
         NEW kind \in {"Ok", "Resynced"}, outcome' = Returned(kind)
  PROVE  HInv'
<1>1. kind \in Kinds \ {"Value"}
  BY DEF Kinds
<1>2. PirInv'
  BY <1>1, HInvFacts, ResetPirInv
<1>3. /\ cseed' = history[e].bundle.seed /\ chint' = history[e].bundle.hint
      /\ cepoch' = history[e].bundle.epoch
      /\ UNCHANGED history
  BY DEF Reset, serverVars
<1>4. cepoch' = e
  BY <1>3, HInvFacts, HistoryFacts
<1> QED BY <1>2, <1>3, <1>4 DEF HInv, ClientMatchesSetup

\* A response of the client's epoch decodes to the queried rows of it.
LEMMA DecodedIsHead ==
  ASSUME HInv, NEW q \in query, NEW r \in response, r.epoch = cepoch,
         NEW slot \in in_flight, NEW j \in Segments,
         NEW n \in Decodes(DecodeMaterial(slot, chint), cseed, r.db, j, q.rows[j])
  PROVE  n = history[cepoch].db[<<j, q.rows[j]>>]
<1> DEFINE y == history[cepoch].db
<1>1. y \in [Cells -> Plain] /\ r.db = y
  BY HInvFacts, HistoryFacts DEF PirInv, AnswersAreHonest
<1>2. cseed \in Seeds /\ chint = Encode(cseed, y)
  BY HInvFacts, HistoryFacts DEF HInv, ClientMatchesSetup
<1>3. DecodeMaterial(slot, chint) = Encode(cseed, y)
  BY <1>2 DEF DecodeMaterial, HInv, PirInv, CachedMaterialIsFresh, AllSlots
<1>4. q.rows[j] \in Rows
  BY HInvFacts DEF TypeOK, Queries, RowChoices
<1> HIDE DEF y
<1>5. n \in Decodes(Encode(cseed, y), cseed, y, j, q.rows[j])
  BY <1>1, <1>3
<1>6. Decodes(Encode(cseed, y), cseed, y, j, q.rows[j]) = {y[<<j, q.rows[j]>>]}
  BY <1>1, <1>2, <1>4, DecodesExactly
<1> QED BY <1>5, <1>6 DEF y

LEMMA DecodeHInv == ASSUME HInv, Decode PROVE HInv'
<1>1. /\ UNCHANGED serverVars /\ UNCHANGED <<epoch, history>>
      /\ UNCHANGED <<cseed, chint, cepoch, prepared, in_flight, query, response>>
  BY DEF Decode, serverVars, clientVars
<1>2. /\ CachedMaterialIsFresh' /\ AnswersAreHonest' /\ ServerInv'
      /\ epoch \in Nat /\ cepoch \in 0 .. epoch
  BY <1>1, HInvFacts, StutterServerInv
     DEF PirInv, CachedMaterialIsFresh, AllSlots, AnswersAreHonest
<1>3. ClientMatchesSetup'
  BY <1>1, MatchStays
<1>4. ASSUME NEW kind \in {"EpochMismatch", "Panic"}, outcome' = Returned(kind)
      PROVE  HInv'
  <2>1. kind \in Kinds \ {"Value"}
    BY DEF Kinds
  <2>2. outcome' \in Outcomes
    BY <1>4, <2>1, ReturnedType
  <2>3. TypeOK'
    BY <1>1, <2>2, HInvFacts, ServerTypeUnchanged DEF TypeOK
  <2>4. PirInv'
    BY <1>1, <1>2, <1>4, <2>1, <2>3, HInvFacts, CallPirInv
  <2> QED BY <1>3, <2>4 DEF HInv
<1>5. ASSUME NEW q \in query, NEW r \in response, r.epoch = cepoch,
             NEW slot \in in_flight, NEW v \in [Segments -> Plain],
             \A j \in Segments :
               v[j] \in Decodes(DecodeMaterial(slot, chint), cseed, r.db, j, q.rows[j]),
             outcome' = Value(q, v)
      PROVE  HInv'
  <2>1. \A j \in Segments : v[j] = history[cepoch].db[<<j, q.rows[j]>>]
    BY <1>5, DecodedIsHead
  <2>2. "Value" \in Kinds /\ q.rows \in RowChoices /\ cepoch \in Nat
    BY <1>2, HInvFacts DEF Kinds, TypeOK, Queries
  <2>3. /\ outcome' \in Outcomes /\ outcome'.epoch = cepoch
        /\ outcome'.rows = q.rows /\ outcome'.value = v
    BY <1>5, <2>2 DEF Value, Outcomes
  <2>4. TypeOK'
    BY <1>1, <2>3, HInvFacts, ServerTypeUnchanged DEF TypeOK
  <2>5. DecodeIsExact'
    BY <1>1, <2>1, <2>3 DEF DecodeIsExact
  <2>6. PirInv'
    BY <1>1, <1>2, <2>3, <2>4, <2>5 DEF PirInv
  <2> QED BY <1>3, <2>6 DEF HInv
<1> QED BY <1>4, <1>5 DEF Decode

LEMMA StutterHInv == ASSUME HInv, UNCHANGED pirVars PROVE HInv'
<1>1. /\ UNCHANGED serverVars /\ UNCHANGED <<epoch, history, outcome>>
      /\ UNCHANGED <<cseed, chint, cepoch, prepared, in_flight, query, response>>
  BY DEF pirVars, serverVars, clientVars, appVars
<1>2. TypeOK' /\ CachedMaterialIsFresh' /\ AnswersAreHonest'
  BY <1>1, HInvFacts, ServerTypeUnchanged
     DEF TypeOK, PirInv, CachedMaterialIsFresh, AllSlots, AnswersAreHonest
<1>3. PirInv'
  BY <1>1, <1>2, HInvFacts, CallPirInv
<1> QED BY <1>1, <1>3, MatchStays DEF HInv

LEMMA StepHInv == ASSUME HInv, [Next]_pirVars PROVE HInv'
<1>1. CASE CommonNext
  BY <1>1, CommonHInv
<1>2. CASE \E e \in Emitted : ApplyDelta(e)
  BY <1>2, ApplyDeltaHInv
<1>3. CASE \E e \in 0 .. epoch : ResetFrom(e)
  BY <1>3, ResetHInv DEF ResetFrom
<1>4. CASE \E e \in Emitted, fetched \in 0 .. epoch : Resync(e, fetched)
  BY <1>4, ResetHInv DEF Resync
<1>5. CASE Decode
  BY <1>5, DecodeHInv
<1>6. CASE UNCHANGED pirVars
  BY <1>6, StutterHInv
<1> QED BY <1>1, <1>2, <1>3, <1>4, <1>5, <1>6 DEF Next

-----------------------------------------------------------------------------
\* The inductive invariant holds in every state (HintPatchClient,
\* IkpirServer).
THEOREM HintPatchInvariance == Spec => []HInv
<1>1. Init => HInv
  BY InitHInv
<1>2. HInv /\ [Next]_pirVars => HInv'
  BY StepHInv
<1> QED BY <1>1, <1>2, PTL DEF Spec

\* After any deltas lost, repeated or out of order and any resets, the
\* client holds what a fresh setup of its epoch would give (apply_delta).
THEOREM ClientCorrect == Spec => []ClientMatchesSetup
<1>1. HInv => ClientMatchesSetup
  BY DEF HInv
<1> QED BY <1>1, HintPatchInvariance, PTL

\* Server and client keep their types: at most MaxPrepared slots, and a client
\* that is never ahead of the server (HintPatchClient).
THEOREM HintPatchTypeCorrect == Spec => []TypeOK
<1>1. HInv => TypeOK
  BY HInvFacts
<1> QED BY <1>1, HintPatchInvariance, PTL

\* Decode material computed at any time is that of the hint at hand
\* (client_precompute_decodes, client_patch_state).
THEOREM HintPatchMaterialFresh == Spec => []CachedMaterialIsFresh
<1>1. HInv => CachedMaterialIsFresh
  BY DEF HInv, PirInv
<1> QED BY <1>1, HintPatchInvariance, PTL

\* What decode returns is the queried rows at the epoch of the client,
\* whatever came between query, answer and decode (HintPatchClient::decode).
THEOREM HintPatchDecodeCorrect == Spec => []DecodeIsExact
<1>1. HInv => DecodeIsExact
  BY DEF HInv, PirInv
<1> QED BY <1>1, HintPatchInvariance, PTL

=============================================================================
