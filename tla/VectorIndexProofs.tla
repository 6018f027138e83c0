------------------------- MODULE VectorIndexProofs -------------------------
(***************************************************************************)
(* Proofs about VectorIndex, for any encoders, dimensions, chunk size and  *)
(* bounds, and for users who never return to an earlier encoder.  (When    *)
(* they do, the property does not hold: see the run index_revert.)         *)
(***************************************************************************)
EXTENDS VectorIndex, TLAPS

\* In the initial state there is neither table nor configuration.
LEMMA InitIndexInv == Init => IndexInv
  BY NoEncoderIsNone, DimTyped, BoundsNat
  DEF Init, IndexInv, TypeOK, RebuildInv, IndexServesEncoder, Complete, Bootstrap, Ids, EmptyIndex, Exists

\* Booting with an encoder that is the last one or was never used keeps the
\* invariant: model_config cannot name a new encoder.
LEMMA BootKeeps ==
  ASSUME IndexInv, ~MayReturn, NEW e \in Encoders, Boot(e)
  PROVE  IndexInv'
  <1>1. TypeOK' /\ encoder' \in tried' /\ config' \in tried' \cup {NoEncoder}
    BY DEF Boot, Goto, IndexInv, TypeOK, Bootstrap
  <1>2. config' = encoder' /\ config' # NoEncoder => Complete(config)'
    <2>1. CASE e = encoder
      BY <2>1 DEF Boot, IndexInv, Complete
    <2>2. CASE e \notin tried
      BY <2>2, NoEncoderIsNone DEF Boot, IndexInv
    <2> QED
      BY <2>1, <2>2 DEF Boot
  <1>3. /\ pc' = "plan" /\ encoder' \in Encoders
        /\ ~Exists' => \A i \in Ids : index'[i] = NoEncoder
    BY DEF Boot, Goto, IndexInv, RebuildInv, Exists
  <1> QED
    BY <1>1, <1>2, <1>3 DEF IndexInv, RebuildInv, IndexServesEncoder

\* Every step of a start keeps the invariant.
LEMMA StartKeeps ==
  ASSUME IndexInv, Start
  PROVE  IndexInv'
  <1> USE NoEncoderIsNone, DimTyped, BoundsNat
      DEF Goto, IndexInv, TypeOK, RebuildInv, IndexServesEncoder, Complete, Bootstrap, Ids, Exists
  <1>1. CASE PlanVecTable
    <2>1. \/ pc' = "configure" /\ Complete(encoder)
          \/ pc' = "drop" /\ config # encoder
          \/ pc' = "create" /\ ~Exists /\ config # encoder
      BY <1>1 DEF PlanVecTable, MustRebuild
    <2> QED
      BY <1>1, <2>1 DEF PlanVecTable
  <1>2. CASE DropVecTable
    BY <1>2 DEF DropVecTable, EmptyIndex
  <1>3. CASE CreateVecTable
    BY <1>3 DEF CreateVecTable, Exists
  <1>4. CASE LoadMemories
    BY <1>4 DEF LoadMemories
  <1>5. CASE MigrateChunk
    <2>1. Chunk \subseteq todo
      BY DEF Chunk
    <2>2. \A i \in Ids : index'[i] = IF i \in (1..count) \ todo' THEN encoder ELSE NoEncoder
      BY <1>5, <2>1 DEF MigrateChunk
    <2> QED
      BY <1>5, <2>1, <2>2 DEF MigrateChunk
  <1>6. CASE FinishMigration
    BY <1>6 DEF FinishMigration
  <1>7. CASE UpsertModelConfig
    BY <1>7 DEF UpsertModelConfig
  <1> QED
    BY <1>1, <1>2, <1>3, <1>4, <1>5, <1>6, <1>7 DEF Start

\* So do the steps of a running server and the ways in which it ends.
LEMMA RunningKeeps ==
  ASSUME IndexInv,
         Stop \/ StartFails \/ Crash \/ \E neighbors \in SUBSET Ids : StoreTurn(neighbors)
  PROVE  IndexInv'
  <1> USE NoEncoderIsNone, DimTyped, BoundsNat
      DEF Goto, IndexInv, TypeOK, RebuildInv, IndexServesEncoder, Complete, Bootstrap, Ids, Exists
  <1>1. CASE Stop
    BY <1>1 DEF Stop
  <1>2. CASE StartFails
    BY <1>2 DEF StartFails
  <1>3. CASE Crash
    BY <1>3 DEF Crash
  <1>4. ASSUME NEW neighbors \in SUBSET Ids, StoreTurn(neighbors)
        PROVE  IndexInv'
    BY <1>4 DEF StoreTurn
  <1> QED
    BY <1>1, <1>2, <1>3, <1>4

\* Every step of the specification keeps the invariant.
LEMMA NextIndexInv ==
  ASSUME IndexInv, ~MayReturn, [Next]_vars
  PROVE  IndexInv'
  <1>1. CASE UNCHANGED vars
    BY <1>1 DEF vars, IndexInv, TypeOK, RebuildInv, IndexServesEncoder, Complete, Exists
  <1>2. CASE Next
    BY <1>2, BootKeeps, StartKeeps, RunningKeeps DEF Next
  <1> QED
    BY <1>1, <1>2

\* The inductive invariant holds in every reachable state if no earlier encoder
\* is ever configured again.
THEOREM IndexInvariance ==
  ASSUME ~MayReturn
  PROVE  Spec => []IndexInv
  <1>1. IndexInv /\ [Next]_vars => IndexInv'
    BY NextIndexInv
  <1> QED
    BY InitIndexInv, <1>1, PTL DEF Spec

\* A server that has started has an embedding of every note, made by its own
\* encoder, whatever starts were interrupted before.
THEOREM IndexServesEncoderHolds ==
  ASSUME ~MayReturn
  PROVE  Spec => []IndexServesEncoder
  <1>1. IndexInv => IndexServesEncoder
    BY DEF IndexInv
  <1> QED
    BY IndexInvariance, <1>1, PTL


\* What holds whether or not users return to earlier encoders: a table is dropped
\* only for an encoder other than that of model_config.
DropInv ==
  /\ TypeOK
  /\ pc # "down" => encoder \in Encoders
  /\ pc = "drop" => config # encoder

\* It holds in every reachable state.
LEMMA DropInvariance == Spec => []DropInv
  <1>1. Init => DropInv
    BY BoundsNat DEF Init, DropInv, TypeOK, Bootstrap, Ids, EmptyIndex
  <1>2. DropInv /\ [Next]_vars => DropInv'
    <2> SUFFICES ASSUME DropInv, [Next]_vars PROVE DropInv'
      OBVIOUS
    <2> USE NoEncoderIsNone, DimTyped, BoundsNat DEF DropInv, TypeOK, Goto, Bootstrap, Ids
    <2>1. CASE UNCHANGED vars
      BY <2>1 DEF vars
    <2>2. CASE \E e \in Encoders : Boot(e)
      BY <2>2 DEF Boot
    <2>3. CASE PlanVecTable
      <3>1. pc' = "configure" \/ (pc' = "drop" /\ config # encoder) \/ pc' = "create"
        BY <2>3 DEF PlanVecTable, MustRebuild, Exists
      <3> QED
        BY <2>3, <3>1 DEF PlanVecTable
    <2>4. CASE DropVecTable
      BY <2>4 DEF DropVecTable, EmptyIndex
    <2>5. CASE CreateVecTable
      BY <2>5 DEF CreateVecTable
    <2>6. CASE LoadMemories
      BY <2>6 DEF LoadMemories
    <2>7. CASE MigrateChunk
      BY <2>7 DEF MigrateChunk
    <2>8. CASE FinishMigration \/ UpsertModelConfig
      BY <2>8 DEF FinishMigration, UpsertModelConfig
    <2>9. CASE Stop \/ StartFails \/ Crash
      <3>1. CASE Stop
        BY <3>1 DEF Stop
      <3>2. CASE StartFails
        BY <3>2 DEF StartFails
      <3>3. CASE Crash
        BY <3>3 DEF Crash
      <3> QED
        BY <2>9, <3>1, <3>2, <3>3
    <2>10. ASSUME NEW neighbors \in SUBSET Ids, StoreTurn(neighbors)
           PROVE  DropInv'
      BY <2>10 DEF StoreTurn
    <2> QED
      BY <2>1, <2>2, <2>3, <2>4, <2>5, <2>6, <2>7, <2>8, <2>9, <2>10 DEF Next, Start
  <1> QED
    BY <1>1, <1>2, PTL DEF Spec

\* A start with the encoder of model_config throws no embedding away, whatever was
\* interrupted before and whatever encoders were in use.
THEOREM NoNeedlessRebuildHolds == Spec => NoNeedlessRebuild
  <1>1. ASSUME DropInv, [Next]_vars, Exists, config = encoder,
               NEW i \in Ids, index[i] # NoEncoder
        PROVE  index'[i] # NoEncoder
    <2> USE <1>1, NoEncoderIsNone DEF DropInv, TypeOK, Goto
    <2>1. CASE UNCHANGED vars
      BY <2>1 DEF vars
    <2>2. CASE \E e \in Encoders : Boot(e)
      BY <2>2 DEF Boot
    <2>3. CASE Start
      <3>1. ~DropVecTable
        BY DEF DropVecTable
      <3>2. CASE MigrateChunk
        BY <3>2 DEF MigrateChunk
      <3>3. CASE PlanVecTable \/ CreateVecTable \/ LoadMemories \/ FinishMigration
                 \/ UpsertModelConfig
        BY <3>3 DEF PlanVecTable, CreateVecTable, LoadMemories, FinishMigration,
                    UpsertModelConfig
      <3> QED
        BY <2>3, <3>1, <3>2, <3>3 DEF Start
    <2>4. CASE Stop \/ StartFails \/ Crash
      BY <2>4 DEF Stop, StartFails, Crash
    <2>5. ASSUME NEW neighbors \in SUBSET Ids, StoreTurn(neighbors)
          PROVE  index'[i] # NoEncoder
      BY <2>5 DEF StoreTurn
    <2> QED
      BY <2>1, <2>2, <2>3, <2>4, <2>5 DEF Next
  <1>2. DropInv /\ [Next]_vars =>
          [Exists /\ config = encoder =>
             \A i \in Ids : index[i] # NoEncoder => index'[i] # NoEncoder]_vars
    BY <1>1
  <1> QED
    BY <1>2, DropInvariance, PTL DEF Spec, NoNeedlessRebuild

\* The start-up state file of a server that was killed names no process that
\* runs; every other way out of the rebuild removes the file.
StateFileInv ==
  /\ pc \in Bootstrap \cup {"down", "ready"}
  /\ startup = "mine" <=> pc = "migrate"

\* mb status reports a server that does not answer as reindexing exactly while it
\* re-encodes notes, whatever failed or was killed before.
THEOREM StatusTellsReindexingHolds == Spec => []StatusTellsReindexing
  <1>1. Init => StateFileInv
    BY DEF Init, StateFileInv
  <1>2. StateFileInv /\ [Next]_vars => StateFileInv'
    <2> SUFFICES ASSUME StateFileInv, [Next]_vars PROVE StateFileInv'
      OBVIOUS
    <2> USE DEF StateFileInv, Goto, Bootstrap
    <2>1. CASE UNCHANGED vars
      BY <2>1 DEF vars
    <2>2. CASE \E e \in Encoders : Boot(e)
      BY <2>2 DEF Boot
    <2>3. CASE PlanVecTable
      BY <2>3 DEF PlanVecTable
    <2>4. CASE LoadMemories
      BY <2>4 DEF LoadMemories
    <2>5. CASE FinishMigration
      BY <2>5 DEF FinishMigration
    <2>6. CASE DropVecTable \/ CreateVecTable \/ MigrateChunk \/ UpsertModelConfig
      BY <2>6 DEF DropVecTable, CreateVecTable, MigrateChunk, UpsertModelConfig
    <2>7. CASE Stop \/ StartFails \/ Crash
      BY <2>7 DEF Stop, StartFails, Crash
    <2>8. ASSUME NEW neighbors \in SUBSET Ids, StoreTurn(neighbors)
          PROVE  StateFileInv'
      BY <2>8 DEF StoreTurn
    <2> QED
      BY <2>1, <2>2, <2>3, <2>4, <2>5, <2>6, <2>7, <2>8 DEF Next, Start
  <1>3. StateFileInv => StatusTellsReindexing
    BY DEF StateFileInv, StatusTellsReindexing
  <1> QED
    BY <1>1, <1>2, <1>3, PTL DEF Spec
=============================================================================
