---------------------------- MODULE RewindClient ----------------------------
(***************************************************************************)
(* RewindClient<B> of crate ikpir-client: a client that keeps its hint     *)
(* pinned, sums the deltas since, takes their effect out of a response and *)
(* adds the delta of the queried row to what it decodes.                   *)
(***************************************************************************)
EXTENDS PirClient

VARIABLES
  pending,    \* the sum of the deltas since the pin
  pin_epoch   \* the epoch of the pinned hint

rewindVars == <<pending, pin_epoch>>
vars       == <<pirVars, rewindVars>>

Init ==
  /\ ClientInit
  /\ pending = ZeroDelta
  /\ pin_epoch = cepoch

\* PendingDelta::merge; cells that net to zero are dropped, and read as zero.
WrongMerge(delta) == [c \in Cells |-> IF delta[c] # 0 THEN delta[c] ELSE pending[c]]
Merge(delta)      == Plus(pending, delta)

\* accumulate_delta, with the bundle of the next epoch.
AccumulateDelta(e) ==
  /\ e = cepoch + 1
  /\ pending' = Merge(history[e].delta)
  /\ cepoch' = e
  /\ outcome' = Returned("Synced")
  /\ UNCHANGED <<serverVars, cseed, chint, prepared, in_flight, query, response, pin_epoch>>

\* It returns Ok, which outcome leaves out: nothing else shows the call.
WrongCollectGarbage ==   \* folds the deltas and goes on adding them
  /\ pin_epoch # cepoch
  /\ PatchState(pending)
  /\ pin_epoch' = cepoch
  /\ UNCHANGED <<serverVars, cseed, cepoch, appVars, pending>>

CollectGarbage ==
  /\ pin_epoch # cepoch
  /\ PatchState(pending)
  /\ pin_epoch' = cepoch
  /\ pending' = ZeroDelta
  /\ UNCHANGED <<serverVars, cseed, cepoch, appVars>>

Repin == pending' = ZeroDelta /\ pin_epoch' = cepoch'

-----------------------------------------------------------------------------
\* The rows as of the pin that client_decode may return.
Stale(q, r, slot) ==
  {v \in [Segments -> Plain] : \A j \in Segments :
     v[j] \in Decodes(DecodeMaterial(slot, chint), cseed, Minus(r.db, pending), j, q.rows[j])}

\* The row as of the head.
Corrected(q, v) == [j \in Segments |-> v[j] + pending[<<j, q.rows[j]>>]]

DecodeRow(q, r, slot) ==
  \E v \in Stale(q, r, slot) :
    LET w == Corrected(q, v)
    IN  \/ /\ \A j \in Segments : w[j] \in Plain
           /\ outcome' = Value(q, w)
        \/ /\ \E j \in Segments : w[j] \notin Plain
           /\ outcome' = Returned("CellOutOfRange")

Decode ==
  /\ \E q \in query, r \in response :
       \/ /\ r.epoch # cepoch
          /\ outcome' = Returned("EpochMismatch")
       \/ /\ r.epoch = cepoch
          /\ q.epoch # r.epoch
          /\ outcome' = Returned("MalformedBundle")
       \/ /\ r.epoch = cepoch
          /\ q.epoch = r.epoch
          /\ in_flight = {}            \* client_decode expects a slot
          /\ outcome' = Returned("Panic")
       \/ /\ r.epoch = cepoch
          /\ q.epoch = r.epoch
          /\ \E slot \in in_flight : DecodeRow(q, r, slot)
  /\ UNCHANGED <<serverVars, clientVars, query, response, rewindVars>>

Next ==
  \/ CommonNext /\ UNCHANGED rewindVars
  \/ \E e \in Emitted : AccumulateDelta(e)
  \/ CollectGarbage
  \/ \E e \in 0 .. epoch : ResetFrom(e) /\ Repin
  \/ \E e \in Emitted, fetched \in 0 .. epoch : Resync(e, fetched) /\ Repin
  \/ Decode

Spec == Init /\ [][Next]_vars

-----------------------------------------------------------------------------
\* The type invariant of the rewind client (struct RewindClient).
RewindTypeOK ==
  /\ TypeOK
  /\ pending \in Deltas
  /\ pin_epoch \in 0 .. cepoch

\* The pinned hint is the one of a fresh setup at the pin, and the pending
\* sum leads from the database there to the one at the client's epoch, with
\* deltas lost, repeated or out of order (accumulate_delta, pending.rs).
PinPlusPendingIsHead ==
  /\ cseed = history[pin_epoch].bundle.seed
  /\ cseed = history[cepoch].bundle.seed
  /\ chint = history[pin_epoch].bundle.hint
  /\ pending = Minus(history[cepoch].db, history[pin_epoch].db)

\* A response the server gave is never taken for a corrupt one, nor a pair of
\* query and response for a mismatched one (decode).
NoFalseAlarm == outcome.kind \notin {"CellOutOfRange", "MalformedBundle"}

\* The client that patches its hint, whose state this one has in two parts.
HP == INSTANCE HintPatchClient WITH
        chint     <- ClientPatch(chint, cseed, pending),
        prepared  <- [i \in DOMAIN prepared |-> PatchSlot(prepared[i], cseed, pending)],
        in_flight <- {PatchSlot(slot, cseed, pending) : slot \in in_flight}

\* Every behaviour of this client, returned values included, is one of
\* HintPatchClient (tests/client_flow_parity.rs).
ImplementsHintPatch == HP!Spec

=============================================================================
