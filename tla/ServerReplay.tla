---------------------------- MODULE ServerReplay ----------------------------
(***************************************************************************)
(* IkpirServer with reset_for_replay, the helper benches and tests call to *)
(* replay mutations against the same epoch-0 snapshot.                     *)
(***************************************************************************)
EXTENDS IkpirServer

\* reset_for_replay, called as its doc says: with a store rebuilt from the
\* cells the server was built from, and the hints of its epoch 0.
ResetForReplay ==
  /\ db' = history[0].db
  /\ hint' = history[0].bundle.hint
  /\ epoch' = 0
  /\ history' = [e \in {0} |-> history[0]]
  /\ UNCHANGED <<seed, material>>

Next == ServerNext \/ ResetForReplay
Spec == ServerInit /\ [][Next]_serverVars

-----------------------------------------------------------------------------
\* reset_for_replay: "they depend only on the seed, which is unchanged - so
\* the post-reset `(seed, A, hints)` triple is identical to the original
\* epoch-0 state".  A full_rebuild in between has changed the seed.
ReplayRestoresEpochZero ==
  epoch = 0 => Setup(epoch, seed, hint) = history[0].bundle

=============================================================================
