------------------------------ MODULE PirClient ------------------------------
(***************************************************************************)
(* What HintPatchClient<B> and RewindClient<B> of crate ikpir-client have  *)
(* in common, with the application between client and server: queries,     *)
(* answers and the prepared slots.                                         *)
(*                                                                         *)
(* The application may hand the client any delta the server ever emitted,  *)
(* at any time and any number of times: deltas get lost, duplicated,       *)
(* delayed and reordered.  It keeps the last query and the answer to that  *)
(* query only, and resets a client with a bundle not older than the client *)
(* (reset_from).                                                           *)
(***************************************************************************)
EXTENDS IkpirServer

CONSTANT
  MaxPrepared  \* bound: prepared slots

ASSUME PreparedAssumption == MaxPrepared \in Nat

VARIABLES
  cseed,      \* the seed in the params of states, and of its matrices
  chint,      \* the hint in states
  cepoch,     \* epoch of the client
  prepared,   \* prepared slots of states, first in first out
  in_flight,  \* the slot of the last query, none after a reset
  query,      \* the last query bundle, none at first
  response,   \* the answer to it, none until the server answers
  outcome     \* what the last call returned

clientVars == <<cseed, chint, cepoch, prepared, in_flight>>
appVars    == <<query, response, outcome>>
pirVars    == <<serverVars, clientVars, appVars>>

RowChoices == [Segments -> Rows]

Queries   == [rows : RowChoices, epoch : Nat]
Responses == [epoch : Nat, db : [Cells -> Plain]]

Kinds == {"Ok", "Synced", "Resynced", "StaleDelta", "FutureDelta", "StaleEpoch",
          "EpochMismatch", "MalformedBundle", "CellOutOfRange", "Panic", "Value"}

Outcomes == [kind : Kinds, rows : RowChoices, epoch : Nat, value : [Segments -> Plain]]

\* A call that returns no value.
Returned(kind) ==
  [kind |-> kind, rows |-> CHOOSE rows \in RowChoices : TRUE, epoch |-> 0,
   value |-> [j \in Segments |-> 0]]

\* decode of the cells of one row in each segment.
Value(q, v) == [kind |-> "Value", rows |-> q.rows, epoch |-> cepoch, value |-> v]

-----------------------------------------------------------------------------
\* from_setup, on the first bundle of the server.
ClientInit ==
  /\ ServerInit
  /\ cseed = seed
  /\ chint = hint
  /\ cepoch = epoch
  /\ prepared = <<>>
  /\ in_flight = {}
  /\ query = {}
  /\ response = {}
  /\ outcome = Returned("Ok")

ServerStep == ServerNext /\ UNCHANGED <<clientVars, appVars>>

\* The next slot: a prepared one first, else a fresh one.
BuildQuery(rows) ==
  /\ in_flight' = {IF prepared = <<>> THEN FreshSlot ELSE Head(prepared)}
  /\ prepared' = IF prepared = <<>> THEN <<>> ELSE Tail(prepared)
  /\ query' = {[rows |-> rows, epoch |-> cepoch]}
  /\ response' = {}
  /\ outcome' = Returned("Ok")
  /\ UNCHANGED <<serverVars, cseed, chint, cepoch>>

\* answer, by the server, over the cells of its store.
Answer ==
  /\ \E q \in query :
       \/ /\ q.epoch = epoch
          /\ response' = {[epoch |-> epoch, db |-> db]}
          /\ outcome' = Returned("Ok")
       \/ /\ q.epoch # epoch
          /\ outcome' = Returned("StaleEpoch")
          /\ UNCHANGED response
  /\ UNCHANGED <<serverVars, clientVars, query>>

PrecomputeQuery ==
  /\ Len(prepared) < MaxPrepared
  /\ prepared' = Append(prepared, FreshSlot)
  /\ outcome' = Returned("Ok")
  /\ UNCHANGED <<serverVars, cseed, chint, cepoch, in_flight, query, response>>

PrecomputeDecodes ==
  /\ prepared' = [i \in DOMAIN prepared |-> WithC(prepared[i], chint)]
  /\ in_flight' = {WithC(slot, chint) : slot \in in_flight}
  /\ outcome' = Returned("Ok")
  /\ UNCHANGED <<serverVars, cseed, chint, cepoch, query, response>>

\* client_patch_state: the hint, and the decode material of every slot.
WrongPatchState(delta) ==   \* forgets the slot in flight
  /\ chint' = ClientPatch(chint, cseed, delta)
  /\ prepared' = [i \in DOMAIN prepared |-> PatchSlot(prepared[i], cseed, delta)]
  /\ UNCHANGED in_flight

PatchState(delta) ==
  /\ chint' = ClientPatch(chint, cseed, delta)
  /\ prepared' = [i \in DOMAIN prepared |-> PatchSlot(prepared[i], cseed, delta)]
  /\ in_flight' = {PatchSlot(slot, cseed, delta) : slot \in in_flight}

\* A bundle of an earlier epoch than the next, or of a later one.
Ahead(e)      == e > cepoch + 1
Behind(e)     == e < cepoch + 1

RejectDelta(e) ==
  /\ \/ Behind(e) /\ outcome' = Returned("StaleDelta")
     \/ Ahead(e)  /\ outcome' = Returned("FutureDelta")
  /\ UNCHANGED <<serverVars, clientVars, query, response>>

\* What reset_from replaces, with the bundle b: every slot is gone.
WrongReset(b) ==   \* keeps the prepared slots
  /\ cseed' = b.seed
  /\ chint' = b.hint
  /\ cepoch' = b.epoch
  /\ in_flight' = {}
  /\ UNCHANGED <<serverVars, prepared, query, response>>

Reset(b) ==
  /\ cseed' = b.seed
  /\ chint' = b.hint
  /\ cepoch' = b.epoch
  /\ prepared' = <<>>
  /\ in_flight' = {}
  /\ UNCHANGED <<serverVars, query, response>>

ResetFrom(e) ==
  /\ e >= cepoch
  /\ Reset(history[e].bundle)
  /\ outcome' = Returned("Ok")

\* A delta ahead of the client, and the bundle that is fetched then.
Resync(e, fetched) ==
  /\ Ahead(e)
  /\ fetched >= e
  /\ Reset(history[fetched].bundle)
  /\ outcome' = Returned("Resynced")

\* The steps in which the two clients do the same.
CommonNext ==
  \/ ServerStep
  \/ \E rows \in RowChoices : BuildQuery(rows)
  \/ Answer
  \/ PrecomputeQuery
  \/ PrecomputeDecodes
  \/ \E e \in Emitted : RejectDelta(e)

-----------------------------------------------------------------------------
\* The slots a state holds.
AllSlots == in_flight \cup {prepared[i] : i \in DOMAIN prepared}

\* The type invariant of server and client (the two client structs).
TypeOK ==
  /\ ServerTypeOK
  /\ cseed \in Seeds
  /\ chint \in Hints
  /\ cepoch \in 0 .. epoch
  /\ prepared \in Seq(Slots)
  /\ Len(prepared) <= MaxPrepared
  /\ in_flight \subseteq Slots
  /\ query \subseteq Queries
  /\ response \subseteq Responses
  /\ outcome \in Outcomes

\* Decode material computed before a patch, or before collect_garbage, is as
\* good as computed after it (client_patch_state, client_precompute_decodes).
CachedMaterialIsFresh == \A slot \in AllSlots : slot.cached => slot.c = chint

\* A value that decode returns is that of the queried rows at the epoch of
\* the client, whatever happened between query, answer and decode.
DecodeIsExact ==
  outcome.kind = "Value" =>
    \A j \in Segments : outcome.value[j] = history[outcome.epoch].db[<<j, outcome.rows[j]>>]

=============================================================================
