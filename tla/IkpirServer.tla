----------------------------- MODULE IkpirServer -----------------------------
(***************************************************************************)
(* IkpirServer<S, B> of crate ikpir-server: the database the store         *)
(* publishes as cells, one hint per segment, the epoch, and what the       *)
(* server hands out: setup bundles, answers and hint-delta bundles.        *)
(*                                                                         *)
(* A successful mutation of the store is any change of the database to     *)
(* another of Databases, or to the same one (an update with the value that *)
(* was there).  One that fails changes nothing here.                       *)
(***************************************************************************)
EXTENDS PirBackend

CONSTANTS
  Databases,  \* the databases mutations lead to
  InitialDb,  \* the database the server is built on
  MaxEpoch    \* bound: the last epoch

ASSUME DatabaseAssumption ==
  /\ Databases \subseteq [Cells -> Plain]
  /\ InitialDb \in Databases
  /\ MaxEpoch \in Nat

NoMaterial == -1

Bundles == [epoch : Nat, seed : Seeds, hint : Hints]

VARIABLES
  db,        \* store.as_cells()
  seed,      \* the seeds in backend_params
  material,  \* backend_hint_material[j]: the seed of its matrix, or NoMaterial
  hint,      \* hints
  epoch,
  history    \* history[e]: the database at epoch e, the setup bundle of that
             \* epoch, and the delta bundle the step to it emitted, if it did

serverVars == <<db, seed, material, hint, epoch, history>>

-----------------------------------------------------------------------------
\* What setup() returns.
Setup(e, s, h) == [epoch |-> e, seed |-> s, hint |-> h]

\* IkpirServer::new on a populated store.
ServerInit ==
  /\ db = InitialDb
  /\ seed = 0
  /\ material = [j \in Segments |-> 0]
  /\ hint = Encode(0, InitialDb)
  /\ epoch = 0
  /\ history = [e \in {0} |-> [db      |-> InitialDb,
                               bundle  |-> Setup(0, 0, Encode(0, InitialDb)),
                               emitted |-> FALSE,
                               delta   |-> ZeroDelta]]

\* The step to epoch' leaves its trace, with the delta it emits if it does.
Publish(emitted, delta) ==
  history' = [e \in 0 .. epoch + 1 |->
                IF e \in DOMAIN history
                  THEN history[e]
                  ELSE [db      |-> db',
                        bundle  |-> Setup(epoch', seed', hint'),
                        emitted |-> emitted,
                        delta   |-> delta]]

(***************************************************************************)
(* insert, update or delete, when the store succeeds: the logged writes,   *)
(* folded into the difference of the databases, patch the hint of every    *)
(* segment they touch, whose matrix is first expanded if it was dropped.   *)
(***************************************************************************)
WrongExpanded(delta) ==   \* remembers the first seed
  [j \in Segments |-> IF j \in Touched(delta) /\ material[j] = NoMaterial THEN 0 ELSE material[j]]

Expanded(delta) ==
  [j \in Segments |-> IF j \in Touched(delta) /\ material[j] = NoMaterial THEN seed ELSE material[j]]

CommitMutations(d) ==
  LET delta == Minus(d, db)
  IN  /\ epoch < MaxEpoch
      /\ db' = d
      /\ material' = Expanded(delta)
      /\ hint' = Patch(hint, material', delta)
      /\ epoch' = epoch + 1
      /\ UNCHANGED seed
      /\ Publish(TRUE, delta)

\* full_rebuild: new seeds, and no delta leads to the new epoch.
WrongFullRebuild ==   \* one that would let clients go on with the old hint
  /\ epoch < MaxEpoch
  /\ seed < MaxSeed
  /\ seed' = seed + 1
  /\ material' = [j \in Segments |-> seed']
  /\ hint' = Encode(seed', db)
  /\ epoch' = epoch + 1
  /\ UNCHANGED db
  /\ Publish(TRUE, ZeroDelta)

FullRebuild ==
  /\ epoch < MaxEpoch
  /\ seed < MaxSeed
  /\ seed' = seed + 1
  /\ material' = [j \in Segments |-> seed']
  /\ hint' = Encode(seed', db)
  /\ epoch' = epoch + 1
  /\ UNCHANGED db
  /\ Publish(FALSE, ZeroDelta)

DropHintMaterial ==
  /\ material' = [j \in Segments |-> NoMaterial]
  /\ UNCHANGED <<db, seed, hint, epoch, history>>

ServerNext ==
  \/ \E d \in Databases : CommitMutations(d)
  \/ FullRebuild
  \/ DropHintMaterial

ServerSpec == ServerInit /\ [][ServerNext]_serverVars

\* The epochs of the delta bundles the server has emitted.
Emitted == {e \in 1 .. epoch : history[e].emitted}

-----------------------------------------------------------------------------
\* The type invariant of the server (struct IkpirServer).
ServerTypeOK ==
  /\ db \in Databases
  /\ seed \in Seeds
  /\ material \in [Segments -> Seeds \cup {NoMaterial}]
  /\ hint \in Hints
  /\ epoch \in 0 .. MaxEpoch
  /\ history \in [0 .. epoch -> [db      : Databases,
                                 bundle  : Bundles,
                                 emitted : BOOLEAN,
                                 delta   : Deltas]]

\* The hints are those a fresh setup of the present database would compute,
\* whatever was dropped, expanded again and rebuilt before (commit_mutations).
HintsEncodeDb == hint = Encode(seed, db)

\* A delta leads from the setup of the epoch before to the setup of its own
\* epoch; where the seeds changed there is none (rebuild_with).
DeltasBridgeSetups ==
  \A e \in Emitted :
    LET before == history[e - 1].bundle
        now    == history[e].bundle
    IN  /\ before.seed = now.seed
        /\ now.hint = ClientPatch(before.hint, now.seed, history[e].delta)

=============================================================================
