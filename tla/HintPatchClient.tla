--------------------------- MODULE HintPatchClient ---------------------------
(***************************************************************************)
(* HintPatchClient<B> of crate ikpir-client: a client that patches its     *)
(* copy of the hint by every delta.                                        *)
(***************************************************************************)
EXTENDS PirClient

Init == ClientInit

\* apply_delta, with the bundle of the next epoch.
ApplyDelta(e) ==
  /\ e = cepoch + 1
  /\ PatchState(history[e].delta)
  /\ cepoch' = e
  /\ outcome' = Returned("Synced")
  /\ UNCHANGED <<serverVars, cseed, query, response>>

Decode ==
  /\ \E q \in query, r \in response :
       \/ /\ r.epoch # cepoch
          /\ outcome' = Returned("EpochMismatch")
       \/ /\ r.epoch = cepoch
          /\ in_flight = {}            \* client_decode expects a slot
          /\ outcome' = Returned("Panic")
       \/ /\ r.epoch = cepoch
          /\ \E slot \in in_flight, v \in [Segments -> Plain] :
               /\ \A j \in Segments :
                    v[j] \in Decodes(DecodeMaterial(slot, chint), cseed, r.db, j, q.rows[j])
               /\ outcome' = Value(q, v)
  /\ UNCHANGED <<serverVars, clientVars, query, response>>

Next ==
  \/ CommonNext
  \/ \E e \in Emitted : ApplyDelta(e)
  \/ \E e \in 0 .. epoch : ResetFrom(e)
  \/ \E e \in Emitted, fetched \in 0 .. epoch : Resync(e, fetched)
  \/ Decode

Spec == Init /\ [][Next]_pirVars

-----------------------------------------------------------------------------
\* A client at epoch e holds what a fresh setup at epoch e would have given
\* it, after any deltas lost, repeated or out of order (apply_delta).
ClientMatchesSetup ==
  /\ cseed = history[cepoch].bundle.seed
  /\ chint = history[cepoch].bundle.hint

\* client_decode of simple/backend.rs: "a `None` here is an unreachable
\* backend bug, never reachable from user input".  A reset_from between
\* build_query and decode reaches it when the epoch stays the same.
DecodeNeverPanics == outcome.kind # "Panic"

=============================================================================
