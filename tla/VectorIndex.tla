---------------------------- MODULE VectorIndex ----------------------------
(***************************************************************************)
(* How a server of memory-bank-server brings up the memory database (db.rs,*)
(* lib.rs) and what it keeps of it while it runs.                          *)
(*                                                                         *)
(* Every memory note has an embedding in the table vec_memories, made by   *)
(* the encoder the server is configured for; the dimension of the table is *)
(* that of the encoder that was in use when it was created.  model_config  *)
(* remembers the encoder.  A start compares it with the encoder it was     *)
(* configured with and rebuilds the table from the notes when they differ  *)
(* or the table is missing.  The rebuild is not a transaction: each        *)
(* statement, and each chunk of embeddings, is committed on its own, so    *)
(* that a crash or an encoder that fails leaves what was done so far to    *)
(* the next start, for which the user may have chosen another encoder.     *)
(*                                                                         *)
(* One server runs at a time here.  A definition introduced by "Bug:" is   *)
(* not part of the model: it is the next definition with a plausible       *)
(* mistake, which the properties notice.                                   *)
(***************************************************************************)
EXTENDS Naturals, FiniteSets

CONSTANTS
  Encoders,     \* the encoder models a user may configure
  NoEncoder,    \* no encoder: none configured yet, or a note without embedding
  Dim,          \* Dim[e]: the length of the embeddings of encoder e
  ChunkSize,    \* MIGRATION_CHUNK_SIZE
  MayReturn,    \* whether the user may configure an earlier encoder again
  MaxMemories,  \* bound on the number of notes
  MaxFaults     \* bound on crashes and failures

ASSUME NoEncoderIsNone == NoEncoder \notin Encoders
ASSUME DimTyped == Dim \in [Encoders -> Nat \ {0}]
ASSUME ChunkSizePositive == ChunkSize \in Nat \ {0}
ASSUME MayReturnTyped == MayReturn \in BOOLEAN
ASSUME BoundsNat == MaxMemories \in Nat /\ MaxFaults \in Nat

VARIABLES
  count,      \* the notes in table memories have the ids 1..count
  dimension,  \* the dimension of table vec_memories, 0 while there is none
  index,      \* index[i]: the encoder of the embedding stored for note i
  config,     \* the encoder in table model_config
  startup,    \* the start-up state file: "none", "mine" of this process, "stale"
  pc,         \* how far the server has come; "down" if it does not run
  encoder,    \* the encoder this server, or the last one, was configured with
  todo,       \* the loaded notes that are not yet re-encoded
  tried,      \* history: all the encoders that were ever configured
  faults      \* how many crashes and failures there have been

vars == <<count, dimension, index, config, startup, pc, encoder, todo,
          tried, faults>>

Ids == 1..MaxMemories
Bootstrap == {"plan", "drop", "create", "load", "migrate", "configure"}
EmptyIndex == [i \in Ids |-> NoEncoder]

Init ==
  /\ count = 0
  /\ dimension = 0
  /\ index = EmptyIndex
  /\ config = NoEncoder
  /\ startup = "none"
  /\ pc = "down"
  /\ encoder = NoEncoder
  /\ todo = {}
  /\ tried = {}
  /\ faults = 0

-----------------------------------------------------------------------------
(* A start.                                                                *)

Goto(from, to) == pc = from /\ pc' = to

\* The service manager or the user starts the server with the encoder that is
\* configured now: the same as before, or another.
Boot(e) ==
  /\ Goto("down", "plan")
  /\ MayReturn \/ e = encoder \/ e \notin tried
  /\ encoder' = e
  /\ tried' = tried \cup {e}
  /\ UNCHANGED <<count, dimension, index, config, startup, todo, faults>>

Exists == dimension # 0

\* Bug: the table is rebuilt on every start.
RebuildAlways == TRUE

\* determine_vec_table_mode.
MustRebuild == ~Exists \/ config # encoder

\* VecTablePlan::build reads the configuration and the table, and probes the
\* encoder.  An existing table that need not be rebuilt stays as it is.
PlanVecTable ==
  /\ pc = "plan"
  /\ pc' = CASE ~MustRebuild -> "configure"
             [] MustRebuild /\ Exists -> "drop"
             [] OTHER -> "create"
  /\ UNCHANGED <<count, dimension, index, config, startup, encoder, todo,
                 tried, faults>>

\* Bug: the stale table is not dropped.
DropNothing ==
  /\ Goto("drop", "create")
  /\ UNCHANGED <<count, dimension, index, config, startup, encoder, todo,
                 tried, faults>>

DropVecTable ==
  /\ Goto("drop", "create")
  /\ dimension' = 0
  /\ index' = EmptyIndex
  /\ UNCHANGED <<count, config, startup, encoder, todo, tried, faults>>

\* Bug: the configuration is written before the rebuild.
CreateAndConfigure ==
  /\ Goto("create", "load")
  /\ dimension' = IF Exists THEN dimension ELSE Dim[encoder]
  /\ config' = encoder
  /\ UNCHANGED <<count, index, startup, encoder, todo, tried, faults>>

\* CREATE VIRTUAL TABLE IF NOT EXISTS.
CreateVecTable ==
  /\ Goto("create", "load")
  /\ dimension' = IF Exists THEN dimension ELSE Dim[encoder]
  /\ UNCHANGED <<count, index, config, startup, encoder, todo, tried, faults>>

\* The notes to re-encode; begin_reindex writes the start-up state file if there
\* are any.
LoadMemories ==
  /\ pc = "load"
  /\ todo' = 1..count
  /\ pc' = IF count = 0 THEN "configure" ELSE "migrate"
  /\ startup' = IF count = 0 THEN startup ELSE "mine"
  /\ UNCHANGED <<count, dimension, index, config, encoder, tried, faults>>

\* The next ChunkSize notes.
Chunk == {i \in todo : Cardinality({k \in todo : k < i}) < ChunkSize}

\* One transaction.  INSERT refuses an id that has an embedding, and an embedding
\* of another dimension.
MigrateChunk ==
  /\ pc = "migrate" /\ todo # {}
  /\ dimension = Dim[encoder]
  /\ \A i \in Chunk : index[i] = NoEncoder
  /\ index' = [i \in Ids |-> IF i \in Chunk THEN encoder ELSE index[i]]
  /\ todo' = todo \ Chunk
  /\ UNCHANGED <<count, dimension, config, startup, pc, encoder, tried, faults>>

\* Bug: the guard of the state file is forgotten, not dropped.
KeepStateFile ==
  /\ Goto("migrate", "configure") /\ todo = {}
  /\ UNCHANGED <<count, dimension, index, config, startup, encoder, todo,
                 tried, faults>>

\* The guard of the state file is dropped.
FinishMigration ==
  /\ Goto("migrate", "configure") /\ todo = {}
  /\ startup' = "none"
  /\ UNCHANGED <<count, dimension, index, config, encoder, todo, tried, faults>>

UpsertModelConfig ==
  /\ Goto("configure", "ready")
  /\ config' = encoder
  /\ UNCHANGED <<count, dimension, index, startup, encoder, todo, tried, faults>>

-----------------------------------------------------------------------------
(* A running server, and how it ends.                                      *)

\* The actor stores a note with its embedding and re-encodes some of its nearest
\* neighbours, which are notes that have an embedding.
StoreTurn(neighbors) ==
  /\ pc = "ready" /\ count < MaxMemories
  /\ dimension = Dim[encoder]
  /\ neighbors \subseteq {i \in 1..count : index[i] # NoEncoder}
  /\ count' = count + 1
  /\ index' = [i \in Ids |-> IF i = count + 1 \/ i \in neighbors THEN encoder ELSE index[i]]
  /\ UNCHANGED <<dimension, config, startup, pc, encoder, todo, tried, faults>>

\* The server is stopped, to be started again with the same encoder or another.
Stop ==
  /\ Goto("ready", "down")
  /\ UNCHANGED <<count, dimension, index, config, startup, encoder, todo,
                 tried, faults>>

\* The encoder, the database or the file system fails: the start returns the
\* error, which drops the guard of the state file.
StartFails ==
  /\ pc \in Bootstrap /\ faults < MaxFaults
  /\ pc' = "down"
  /\ faults' = faults + 1
  /\ startup' = IF startup = "mine" THEN "none" ELSE startup
  /\ UNCHANGED <<count, dimension, index, config, encoder, todo, tried>>

Crash ==
  /\ pc # "down" /\ faults < MaxFaults
  /\ pc' = "down"
  /\ faults' = faults + 1
  /\ startup' = IF startup = "mine" THEN "stale" ELSE startup
  /\ UNCHANGED <<count, dimension, index, config, encoder, todo, tried>>

Start ==
  \/ PlanVecTable \/ DropVecTable \/ CreateVecTable \/ LoadMemories
  \/ MigrateChunk \/ FinishMigration \/ UpsertModelConfig

Next ==
  \/ \E e \in Encoders : Boot(e)
  \/ Start
  \/ \E neighbors \in SUBSET Ids : StoreTurn(neighbors)
  \/ Stop \/ StartFails \/ Crash

Spec == Init /\ [][Next]_vars

\* The service manager starts a server that is down, and a start goes on.
Fairness == WF_vars(\E e \in Encoders : Boot(e)) /\ WF_vars(Start)

FairSpec == Spec /\ Fairness

-----------------------------------------------------------------------------
(* Properties.                                                             *)

\* Type invariant.
TypeOK ==
  /\ count \in 0..MaxMemories
  /\ dimension \in Nat
  /\ index \in [Ids -> Encoders \cup {NoEncoder}]
  /\ config \in Encoders \cup {NoEncoder}
  /\ startup \in {"none", "mine", "stale"}
  /\ pc \in Bootstrap \cup {"down", "ready"}
  /\ encoder \in Encoders \cup {NoEncoder}
  /\ todo \subseteq Ids
  /\ tried \subseteq Encoders
  /\ faults \in 0..MaxFaults

\* The table holds an embedding of every note, made by encoder e.
Complete(e) ==
  /\ dimension = Dim[e]
  /\ \A i \in 1..count : index[i] = e

\* A server that has started finds every note: each has an embedding of the
\* encoder the server uses, in a table of its dimension, after any number of
\* changes of encoder, interrupted rebuilds and restarts.
IndexServesEncoder == pc = "ready" => config = encoder /\ Complete(encoder)

\* What the embeddings are while the table is rebuilt.
RebuildInv ==
  /\ pc \in {"drop", "create", "load", "migrate"} => config # encoder
  /\ ~Exists \/ pc = "load" => \A i \in Ids : index[i] = NoEncoder
  /\ pc = "create" => ~Exists
  /\ pc \in {"load", "migrate"} => dimension = Dim[encoder]
  /\ pc = "migrate" =>
       /\ todo \subseteq 1..count
       /\ \A i \in Ids : index[i] = IF i \in (1..count) \ todo THEN encoder ELSE NoEncoder
  /\ pc = "configure" => Complete(encoder)

\* The inductive invariant, for users who never return to an earlier encoder:
\* model_config names either the encoder in use, and then the table is complete,
\* or an encoder that will not be used again, and then the table is rebuilt.
IndexInv ==
  /\ TypeOK
  /\ pc # "down" => encoder \in Encoders
  /\ encoder \in tried \cup {NoEncoder}
  /\ config \in tried \cup {NoEncoder}
  /\ config = encoder /\ config # NoEncoder => Complete(config)
  /\ RebuildInv
  /\ IndexServesEncoder

\* mb status reports a server that runs but does not answer as reindexing exactly
\* while it re-encodes notes: the state file names the process from begin_reindex
\* until the rebuild is left, by success or by an error.
StatusTellsReindexing == pc # "down" => (startup = "mine" <=> pc = "migrate")

\* A start with the encoder of model_config throws no embedding away.
NoNeedlessRebuild ==
  [][Exists /\ config = encoder =>
       \A i \in Ids : index[i] # NoEncoder => index'[i] # NoEncoder]_vars

\* Whatever was interrupted, the server is up again and again.
ServesAgain == []<>(pc = "ready")
=============================================================================
