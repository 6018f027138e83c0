---------------------------- MODULE ServerTasks ----------------------------
(***************************************************************************)
(* The tasks of one memory-bank-server and what they wait for: handlers of *)
(* POST /ingest (http_server.rs), calls of retrieve_memory (mcp_server.rs),*)
(* the dispatcher of the ingest queue (ingest.rs) and the memory actor     *)
(* (actor.rs).  They share the write gate, a semaphore with one permit,    *)
(* and the connections of the pool (db.rs); the mailbox of the actor; and  *)
(* the encoder behind its mutex (encoder.rs).  SQLite has one write lock,  *)
(* which another process may hold.                                         *)
(*                                                                         *)
(* What the tasks write and read is the business of IngestQueue and        *)
(* MemoryGraph.  Here a task is a list of steps still to take, todo, and   *)
(* the question is who waits for whom: when a client goes away, a          *)
(* statement or a model fails, the actor or the encoder panics, another    *)
(* process keeps the database locked, or the server is told to stop.       *)
(*                                                                         *)
(* tokio and sqlx are external: semaphore, pool and mailbox are served in  *)
(* the order of arrival; a transaction that is dropped is rolled back by   *)
(* the thread of its connection, which returns to the pool after that.     *)
(* A definition introduced by "Bug:" is the next one with a mistake in it. *)
(***************************************************************************)
EXTENDS Naturals, Sequences, FiniteSets, SequencesExt

CONSTANTS
  Posts,            \* clients that post fragments, one at a time each
  Queries,          \* calls of retrieve_memory
  Dispatcher,       \* the task of IngestDispatcher::run
  Actor,            \* the task of MemoryActor::run
  NoOne,            \* the actor serves no one
  PoolSize,         \* connections of the pool
  MailboxCapacity,  \* MEMORY_CHANNEL_CAPACITY
  MaxStageRetries,  \* how often a fragment is staged again
  FaultKinds,       \* the failures of the environment that are allowed
  MaxFaults         \* bound on the number of such failures

ASSUME PoolSizePositive == PoolSize \in Nat \ {0}
ASSUME CapacityPositive == MailboxCapacity \in Nat \ {0}
ASSUME BoundsNat == {MaxStageRetries, MaxFaults} \subseteq Nat

Calls == Posts \cup Queries
Callers == Queries \cup {Dispatcher}      \* those who send to the actor
Tasks == Calls \cup {Dispatcher, Actor}

ASSUME TasksDistinct ==
  /\ Posts \cap Queries = {} /\ Dispatcher # Actor
  /\ {Dispatcher, Actor} \cap Calls = {} /\ NoOne \notin Callers
  /\ {"free", "other", "rollback"} \cap Tasks = {}

VARIABLES
  todo,      \* the steps each task has still to take
  doing,     \* what each task is about
  tries,     \* how often each fragment has been staged again
  answer,    \* how each call of retrieve_memory ended
  gate,      \* the holder of the write permit, then those who wait for it
  pool,      \* the holders of connections, then those who wait for one
  lock,      \* the write lock of the database
  mailbox,   \* the callers whose tasks are in the mailbox, then waiting senders
  serving,   \* the caller whose task the actor works on
  alive,     \* the task of the actor has not panicked
  reply,     \* the oneshot of each caller
  poisoned,  \* the mutex of the encoder is poisoned
  server,    \* whether the server accepts requests
  stream,    \* an MCP session has its event stream open
  faults     \* how many failures of the environment have happened

resources == <<gate, pool, lock>>
actorState == <<mailbox, serving, alive, reply, poisoned>>
serverState == <<server, stream>>
vars == <<todo, doing, tries, answer, resources, actorState, serverState, faults>>

-----------------------------------------------------------------------------
(* What the tasks do, step by step.                                        *)

\* Bug: the connection is taken before the permit.
WriteStepsUngated == <<"connection", "permit", "begin", "commit">>

\* acquire_write_permit, then a transaction or a single statement on the pool.
WriteSteps == <<"permit", "connection", "begin", "commit">>

\* A query on the pool.
ReadSteps == <<"connection", "read">>

\* The note, its neighbours, how they evolve, the transaction that stores all.
AddSteps ==
  <<"analyze", "encode", "connection", "nearest", "evolve", "encode">> \o WriteSteps

\* The nearest notes, their links, the notes.
RetrieveSteps == <<"encode", "connection", "nearest", "connection", "links">> \o ReadSteps

CallSteps == <<"send", "answer">>

\* The steps at which a task waits for a model, another task or a timer.
Models == {"analyze", "evolve", "encode"}
Waits == Models \cup {"send", "answer", "sleep", "wait"}
Reads == {"nearest", "links", "read"}
Steps == {"permit", "connection", "begin", "commit"} \cup Reads \cup Waits

Doing(t, step) == todo[t] # <<>> /\ Head(todo[t]) = step

Init ==
  /\ todo = [t \in Tasks |-> IF t = Dispatcher THEN WriteSteps ELSE <<>>]
  /\ doing = [t \in Tasks |-> IF t = Dispatcher THEN "claim" ELSE "idle"]
  /\ tries = [p \in Posts |-> 0]
  /\ answer = [q \in Queries |-> "none"]
  /\ gate = <<>>
  /\ pool = <<>>
  /\ lock = "free"
  /\ mailbox = <<>>
  /\ serving = NoOne
  /\ alive = TRUE
  /\ reply = [c \in Callers |-> "none"]
  /\ poisoned = FALSE
  /\ server = "up"
  /\ stream = FALSE
  /\ faults = 0

Fault(kind) ==
  /\ kind \in FaultKinds
  /\ faults < MaxFaults
  /\ faults' = faults + 1

\* The task goes on to other work.
GoTo(t, goal, steps) ==
  /\ doing' = [doing EXCEPT ![t] = goal]
  /\ todo' = [todo EXCEPT ![t] = steps]

Proceed(t) == GoTo(t, doing[t], Tail(todo[t]))

-----------------------------------------------------------------------------
(* Permit, connections, lock.                                              *)

\* The task has the permit, if it asked for one.
Permitted(t) == t \in ToSet(gate) => gate[1] = t

\* A connection that rolls back is not yet in the pool again.
Connections == IF lock = "rollback" THEN PoolSize - 1 ELSE PoolSize

Connected(t) == \E i \in DOMAIN pool : pool[i] = t /\ i <= Connections

\* A task is in a queue at most once.
Without(queue, t) == RemoveFirst(queue, t)

AskPermit(t) ==
  /\ Doing(t, "permit")
  /\ gate' = Append(gate, t)
  /\ Proceed(t)
  /\ UNCHANGED <<tries, answer, pool, lock, actorState, serverState, faults>>

AskConnection(t) ==
  /\ Doing(t, "connection")
  /\ Permitted(t)
  /\ pool' = Append(pool, t)
  /\ Proceed(t)
  /\ UNCHANGED <<tries, answer, gate, lock, actorState, serverState, faults>>

\* BEGIN IMMEDIATE, or the implicit transaction of a statement.
Begin(t) ==
  /\ Doing(t, "begin")
  /\ Permitted(t) /\ Connected(t)
  /\ lock = "free"
  /\ lock' = t
  /\ Proceed(t)
  /\ UNCHANGED <<tries, answer, gate, pool, actorState, serverState, faults>>

\* The variables of the task go out of scope: first the transaction, then the permit.
Release(t, left) ==
  /\ gate' = Without(gate, t)
  /\ pool' = Without(pool, t)
  /\ lock' = IF lock = t THEN left ELSE lock

\* COMMIT, or the ROLLBACK that is awaited when the fragment is known already.
Commit(t) ==
  /\ Doing(t, "commit")
  /\ Release(t, "free")

\* An error, or the end of the task, in the middle of whatever it does.
Drop(t) == Release(t, "rollback")

RolledBack ==
  /\ lock = "rollback"
  /\ lock' = "free"
  /\ UNCHANGED <<todo, doing, tries, answer, gate, pool, actorState, serverState, faults>>

\* Another process writes to the namespace.
OtherLocks ==
  /\ lock = "free"
  /\ Fault("other")
  /\ lock' = "other"
  /\ UNCHANGED <<todo, doing, tries, answer, gate, pool, actorState, serverState>>

OtherUnlocks ==
  /\ lock = "other"
  /\ lock' = "free"
  /\ UNCHANGED <<todo, doing, tries, answer, gate, pool, actorState, serverState, faults>>

\* busy_timeout passes while another process has the lock.
Busy(t) == Doing(t, "begin") /\ Permitted(t) /\ Connected(t) /\ lock = "other"

\* A statement fails for another reason, or no connection was to be had in time.
StatementFails(t) ==
  /\ \E step \in {"begin", "commit"} \cup Reads : Doing(t, step)
  /\ Fault("database")

DatabaseFails(t) == StatementFails(t) \/ (Busy(t) /\ UNCHANGED faults)

-----------------------------------------------------------------------------
(* POST /ingest.  A request that is not valid is refused before any step.  *)

Post(p) ==
  /\ server = "up"
  /\ todo[p] = <<>>
  /\ GoTo(p, "stage", WriteSteps)
  /\ tries' = [tries EXCEPT ![p] = 0]
  /\ UNCHANGED <<answer, resources, actorState, serverState, faults>>

\* The status is returned; which one depends on how the fragment was staged.
Respond(p) == GoTo(p, "idle", <<>>)

Accepted(p) ==
  /\ Commit(p)
  /\ Respond(p)
  /\ UNCHANGED <<tries, answer, actorState, serverState, faults>>

\* The fragment is one of a turn that is closed.
RefusedByStore(p) ==
  /\ Doing(p, "commit")
  /\ Drop(p)
  /\ Respond(p)
  /\ UNCHANGED <<tries, answer, actorState, serverState, faults>>

\* Bug: the permit is kept until the next attempt.
RetryHoldingPermit(p) ==
  /\ UNCHANGED gate
  /\ pool' = Without(pool, p)
  /\ lock' = IF lock = p THEN "rollback" ELSE lock
  /\ GoTo(p, "stage", <<"sleep">> \o Tail(WriteSteps))

\* stage_fragment_once asks for the permit again.
Retry(p) ==
  /\ Drop(p)
  /\ GoTo(p, "stage", <<"sleep">> \o WriteSteps)

\* stage_retry_strategy.
RetriesLeft(p) == tries[p] < MaxStageRetries

\* Lock contention and violated uniqueness are tried again.
StageAgain(p) ==
  /\ DatabaseFails(p)
  /\ RetriesLeft(p)
  /\ tries' = [tries EXCEPT ![p] = @ + 1]
  /\ Retry(p)
  /\ UNCHANGED <<answer, actorState, serverState>>

\* Other errors are not.
GiveUp(p) ==
  /\ DatabaseFails(p)
  /\ Busy(p) => ~RetriesLeft(p)
  /\ Drop(p)
  /\ Respond(p)
  /\ UNCHANGED <<tries, answer, actorState, serverState>>

StageSleeps(p) ==
  /\ Doing(p, "sleep")
  /\ Proceed(p)
  /\ UNCHANGED <<tries, answer, resources, actorState, serverState, faults>>

\* The client goes away and its handler is dropped.
PostHangsUp(p) ==
  /\ todo[p] # <<>>
  /\ Fault("client")
  /\ Drop(p)
  /\ Respond(p)
  /\ UNCHANGED <<tries, answer, actorState, serverState>>

-----------------------------------------------------------------------------
(* The mailbox of the actor, as its callers see it.                        *)

\* The channel is closed once the actor is gone.
Enqueue(c) ==
  /\ mailbox' = IF alive THEN Append(mailbox, c) ELSE mailbox
  /\ reply' = [reply EXCEPT ![c] = IF alive THEN "none" ELSE "error"]

Send(c) ==
  /\ Doing(c, "send")
  /\ Enqueue(c)
  /\ Proceed(c)
  /\ UNCHANGED <<tries, answer, resources, serving, alive, poisoned, serverState, faults>>

Answered(c) == Doing(c, "answer") /\ reply[c] # "none"

Query(q) ==
  /\ server = "up"
  /\ todo[q] = <<>> /\ answer[q] = "none"
  /\ GoTo(q, "retrieve", CallSteps)
  /\ UNCHANGED <<tries, answer, resources, actorState, serverState, faults>>

\* retrieve_memory returns the notes, or an error.
Finish(q, result) ==
  /\ GoTo(q, "idle", <<>>)
  /\ answer' = [answer EXCEPT ![q] = result]

QueryAnswered(q) ==
  /\ Answered(q)
  /\ Finish(q, reply[q])
  /\ UNCHANGED <<tries, resources, actorState, serverState, faults>>

\* A task that is in the mailbox stays there; one that has not got in does not get in.
LeaveMailbox(q) ==
  mailbox' = IF \E i \in DOMAIN mailbox : mailbox[i] = q /\ i <= MailboxCapacity THEN mailbox
             ELSE Without(mailbox, q)

\* The client goes away, or its stream is cut off when the server is told to stop.
QueryHangsUp(q) ==
  /\ todo[q] # <<>>
  /\ Fault("client") \/ (server = "draining" /\ UNCHANGED faults)
  /\ LeaveMailbox(q)
  /\ Finish(q, "gone")
  /\ UNCHANGED <<tries, resources, serving, alive, reply, poisoned, serverState>>

-----------------------------------------------------------------------------
(* The dispatcher.                                                         *)

\* run_once: a turn is claimed, which may have no attempt left, or there is none.
Claimed ==
  /\ doing[Dispatcher] = "claim"
  /\ Commit(Dispatcher)
  /\ \/ GoTo(Dispatcher, "dispatch", ReadSteps \o CallSteps)
     \/ GoTo(Dispatcher, "settle", WriteSteps)
     \/ GoTo(Dispatcher, "deadline", ReadSteps \o <<"wait">>)
  /\ UNCHANGED <<tries, answer, actorState, serverState, faults>>

DispatcherReads ==
  /\ Doing(Dispatcher, "read") /\ Connected(Dispatcher)
  /\ Release(Dispatcher, "free")
  /\ Proceed(Dispatcher)
  /\ UNCHANGED <<tries, answer, actorState, serverState, faults>>

\* A turn whose window cannot be read has failed.
WindowUnread ==
  /\ doing[Dispatcher] = "dispatch"
  /\ StatementFails(Dispatcher)
  /\ Drop(Dispatcher)
  /\ GoTo(Dispatcher, "settle", WriteSteps)
  /\ UNCHANGED <<tries, answer, actorState, serverState>>

\* The turn is stored, or its verdict has still to be written.
DispatcherAnswered ==
  /\ Answered(Dispatcher)
  /\ IF reply[Dispatcher] = "ok" THEN GoTo(Dispatcher, "claim", WriteSteps)
     ELSE GoTo(Dispatcher, "settle", WriteSteps)
  /\ UNCHANGED <<tries, answer, resources, actorState, serverState, faults>>

Settled ==
  /\ doing[Dispatcher] = "settle"
  /\ Commit(Dispatcher)
  /\ GoTo(Dispatcher, "claim", WriteSteps)
  /\ UNCHANGED <<tries, answer, actorState, serverState, faults>>

\* The arm of run for errors: recover what is processing, then wait.
DispatcherFails ==
  /\ DatabaseFails(Dispatcher)
  /\ doing[Dispatcher] # "dispatch"
  /\ Drop(Dispatcher)
  /\ IF doing[Dispatcher] = "recover" THEN GoTo(Dispatcher, "idle", <<"wait">>)
     ELSE GoTo(Dispatcher, "recover", WriteSteps)
  /\ UNCHANGED <<tries, answer, actorState, serverState>>

Recovered ==
  /\ doing[Dispatcher] = "recover"
  /\ Commit(Dispatcher)
  /\ GoTo(Dispatcher, "idle", <<"wait">>)
  /\ UNCHANGED <<tries, answer, actorState, serverState, faults>>

\* A notification or the deadline.
DispatcherWakes ==
  /\ Doing(Dispatcher, "wait")
  /\ GoTo(Dispatcher, "claim", WriteSteps)
  /\ UNCHANGED <<tries, answer, resources, actorState, serverState, faults>>

-----------------------------------------------------------------------------
(* The memory actor.                                                       *)

Take ==
  /\ alive /\ server # "stopped"
  /\ serving = NoOne
  /\ mailbox # <<>>
  /\ serving' = Head(mailbox)
  /\ mailbox' = Tail(mailbox)
  /\ IF Head(mailbox) = Dispatcher THEN GoTo(Actor, "add", AddSteps)
     ELSE GoTo(Actor, "retrieve", RetrieveSteps)
  /\ UNCHANGED <<tries, answer, resources, alive, reply, poisoned, serverState, faults>>

\* The oneshot is answered; the actor turns to its mailbox.
Deliver(result) ==
  /\ reply' = [reply EXCEPT ![serving] = result]
  /\ serving' = NoOne
  /\ GoTo(Actor, "idle", <<>>)
  /\ UNCHANGED <<tries, answer, mailbox, alive, serverState>>

\* A step that yields something for the next one, if there is a next one.
Continue(steps) ==
  IF steps = <<>> THEN Deliver("ok")
  ELSE /\ GoTo(Actor, doing[Actor], steps)
       /\ UNCHANGED <<tries, answer, mailbox, serving, alive, reply, serverState>>

Analyze ==
  /\ Doing(Actor, "analyze")
  /\ Continue(Tail(todo[Actor]))
  /\ UNCHANGED <<resources, poisoned, faults>>

\* Notes that do not change are not encoded again.
Evolve ==
  /\ Doing(Actor, "evolve")
  /\ \E steps \in {Tail(todo[Actor]), WriteSteps} : Continue(steps)
  /\ UNCHANGED <<resources, poisoned, faults>>

\* The provider fails or does not answer within LLM_TIMEOUT, or the encoder fails.
ModelFails ==
  /\ \E step \in Models : Doing(Actor, step)
  /\ Fault("model")
  /\ Deliver("error")
  /\ UNCHANGED <<resources, poisoned>>

\* encode_blocking locks the model and runs on a thread of its own.
Encode ==
  /\ Doing(Actor, "encode")
  /\ IF poisoned THEN Deliver("error") ELSE Continue(Tail(todo[Actor]))
  /\ UNCHANGED <<resources, poisoned, faults>>

\* A panic poisons the mutex; the join error is an error of this task only.
EncoderPanics ==
  /\ Doing(Actor, "encode") /\ ~poisoned
  /\ Fault("panic")
  /\ poisoned' = TRUE
  /\ Deliver("error")
  /\ UNCHANGED resources

\* Without notes the retrieval ends, and there is nothing to evolve.
AfterNone == IF doing[Actor] = "retrieve" THEN <<>> ELSE WriteSteps

AfterRead ==
  {Tail(todo[Actor])} \cup (IF Doing(Actor, "nearest") THEN {AfterNone} ELSE {})

ActorReads ==
  /\ \E step \in Reads : Doing(Actor, step)
  /\ Connected(Actor)
  /\ Release(Actor, "free")
  /\ \E steps \in AfterRead : Continue(steps)
  /\ UNCHANGED <<poisoned, faults>>

\* Links that cannot be read are left out of the answer.
LinksLeftOut ==
  /\ Doing(Actor, "links")
  /\ StatementFails(Actor)
  /\ Drop(Actor)
  /\ Continue(Tail(todo[Actor]))
  /\ UNCHANGED poisoned

Stored ==
  /\ Commit(Actor)
  /\ Deliver("ok")
  /\ UNCHANGED <<poisoned, faults>>

ActorFails ==
  /\ DatabaseFails(Actor)
  /\ ~Doing(Actor, "links")
  /\ Drop(Actor)
  /\ Deliver("error")
  /\ UNCHANGED poisoned

\* Bug: the oneshots of those who wait are never dropped.
CallersKept(callers) == reply

\* The receiver is dropped with the tasks in it, and so are their oneshots.
CallersDropped(callers) == [c \in Callers |-> IF c \in callers THEN "error" ELSE reply[c]]

\* Nobody watches the task of the actor.
ActorPanics ==
  /\ serving # NoOne
  /\ Fault("panic")
  /\ Drop(Actor)
  /\ GoTo(Actor, "dead", <<>>)
  /\ alive' = FALSE
  /\ serving' = NoOne
  /\ mailbox' = <<>>
  /\ reply' = CallersDropped(ToSet(mailbox) \cup {serving})
  /\ UNCHANGED <<tries, answer, poisoned, serverState>>

-----------------------------------------------------------------------------
(* Stopping.                                                               *)

OpenStream ==
  /\ server = "up" /\ ~stream
  /\ stream' = TRUE
  /\ UNCHANGED <<todo, doing, tries, answer, resources, actorState, server, faults>>

\* Bug: shutdown_signal does not cancel the token of the MCP sessions.
SignalOnly ==
  /\ server = "up"
  /\ server' = "draining"
  /\ UNCHANGED stream

\* Ctrl-C: no request is accepted any more, and the streams of sessions end.
ShutdownSignal ==
  /\ server = "up"
  /\ server' = "draining"
  /\ stream' = FALSE

Signal ==
  /\ ShutdownSignal
  /\ UNCHANGED <<todo, doing, tries, answer, resources, actorState, faults>>

\* HttpServer::run returns when the last request has ended, and all tasks with it.
Stop ==
  /\ server = "draining"
  /\ ~stream
  /\ \A c \in Calls : todo[c] = <<>>
  /\ server' = "stopped"
  /\ todo' = [t \in Tasks |-> <<>>]
  /\ doing' = [t \in Tasks |-> "idle"]
  /\ gate' = <<>>
  /\ pool' = <<>>
  /\ lock' = IF lock = "other" THEN lock ELSE "free"
  /\ mailbox' = <<>>
  /\ serving' = NoOne
  /\ UNCHANGED <<tries, answer, alive, reply, poisoned, stream, faults>>

-----------------------------------------------------------------------------

Shared(t) == AskPermit(t) \/ AskConnection(t) \/ Begin(t)

PostSteps(p) ==
  Shared(p) \/ Accepted(p) \/ RefusedByStore(p) \/ StageAgain(p) \/ GiveUp(p) \/ StageSleeps(p)

QuerySteps(q) == Send(q) \/ QueryAnswered(q)

DispatcherSteps ==
  \/ Shared(Dispatcher) \/ Send(Dispatcher)
  \/ Claimed \/ DispatcherReads \/ WindowUnread \/ DispatcherAnswered \/ Settled
  \/ DispatcherFails \/ Recovered \/ DispatcherWakes

ActorSteps ==
  \/ Shared(Actor) \/ Take
  \/ Analyze \/ Evolve \/ ModelFails \/ Encode \/ EncoderPanics
  \/ ActorReads \/ LinksLeftOut \/ Stored \/ ActorFails

Next ==
  \/ \E p \in Posts : Post(p) \/ PostSteps(p) \/ PostHangsUp(p)
  \/ \E q \in Queries : Query(q) \/ QuerySteps(q) \/ QueryHangsUp(q)
  \/ DispatcherSteps
  \/ ActorSteps \/ ActorPanics
  \/ RolledBack \/ OtherLocks \/ OtherUnlocks
  \/ OpenStream \/ Signal \/ Stop

\* Every task that can go on does; locks of others are given up in the end; the
\* last request is followed by the end of the process.
Fairness ==
  /\ \A p \in Posts : WF_vars(PostSteps(p))
  /\ \A q \in Queries : WF_vars(QuerySteps(q))
  /\ WF_vars(DispatcherSteps)
  /\ WF_vars(ActorSteps)
  /\ WF_vars(RolledBack)
  /\ WF_vars(OtherUnlocks)
  /\ WF_vars(Stop)

Spec == Init /\ [][Next]_vars /\ Fairness

-----------------------------------------------------------------------------
(* Properties.                                                             *)

\* Type invariant: the ranges of the variables.
TypeOK ==
  /\ todo \in [Tasks -> Seq(Steps)]
  /\ doing \in [Tasks -> {"idle", "stage", "retrieve", "claim", "dispatch", "settle",
                          "deadline", "recover", "add", "dead"}]
  /\ tries \in [Posts -> 0..MaxStageRetries]
  /\ answer \in [Queries -> {"none", "ok", "error", "gone"}]
  /\ gate \in Seq(Tasks) /\ pool \in Seq(Tasks) /\ mailbox \in Seq(Callers)
  /\ lock \in Tasks \cup {"free", "other", "rollback"}
  /\ serving \in Callers \cup {NoOne}
  /\ reply \in [Callers -> {"none", "ok", "error"}]
  /\ {alive, poisoned, stream} \subseteq BOOLEAN
  /\ server \in {"up", "draining", "stopped"}
  /\ faults \in 0..MaxFaults

\* At most one of the connections is in the hands of a writer, however many wait
\* to write and however long another process keeps them waiting: a query of the
\* actor finds the other one (the test writer_gate_blocks_writes_but_still_allows_reads).
OneWriterConnected ==
  \A t, u \in Tasks :
    /\ Connected(t) /\ (Doing(t, "begin") \/ Doing(t, "commit"))
    /\ Connected(u) /\ (Doing(u, "begin") \/ Doing(u, "commit"))
    => t = u

\* Nobody has the permit, a connection or the lock while it waits for a model, a
\* task or a timer, after whatever failed: writers wait for transactions only.
HoldsNothingWhileWaiting ==
  \A t \in Tasks : (todo[t] = <<>> \/ \E step \in Waits : Doing(t, step)) =>
    t \notin ToSet(gate) \cup ToSet(pool) \cup {lock}

\* Whoever panics and whatever fails meanwhile, every request ends, and the
\* dispatcher comes to an end with every turn, even if the actor is gone.
EveryWaitEnds ==
  /\ \A c \in Calls : (todo[c] # <<>>) ~> (todo[c] = <<>>)
  /\ doing[Dispatcher] \in {"dispatch", "settle"} ~>
       doing[Dispatcher] \notin {"dispatch", "settle"}

\* A server that is told to stop does, although clients keep their sessions open.
ShutdownEnds == (server = "draining") ~> (server = "stopped")

\* A list of steps in which whoever asks for a permit or a connection goes on to
\* use it: a transaction is the end of a list, a read comes right after its
\* connection.
Orderly(steps) ==
  LET n == Len(steps) IN
  /\ steps \in Seq(Steps)
  /\ \A i \in 1..n :
       /\ steps[i] = "permit" => i + 3 = n /\ steps[i + 1] = "connection" /\ steps[i + 2] = "begin"
       /\ steps[i] = "connection" => i < n /\ steps[i + 1] \in Reads \cup {"begin"}
       /\ steps[i] = "begin" => i + 1 = n /\ steps[i + 1] = "commit"
       /\ steps[i] = "commit" => i = n
       /\ i > 1 => /\ steps[i] \in Reads \cup {"begin"} => steps[i - 1] = "connection"
                   /\ steps[i] = "begin" => i = 2 \/ steps[i - 2] = "permit"
                   /\ steps[i] = "commit" => steps[i - 1] = "begin"

\* The lists of those who have asked for the permit, and for a connection.
HasPermit(steps) ==
  steps \in {<<"connection", "begin", "commit">>, <<"begin", "commit">>, <<"commit">>}

HasConnection(steps) == steps # <<>> /\ steps[1] \in Reads \cup {"begin", "commit"}

\* Each task is in a queue at most once, and those in it are the given ones.
Holders(queue, S) ==
  /\ queue \in Seq(Tasks)
  /\ \A i, j \in 1..Len(queue) : queue[i] = queue[j] => i = j
  /\ ToSet(queue) = S

\* Who has what can be read off the steps that are left; the writers that have a
\* connection are at the head of the gate.
HoldInv ==
  /\ todo \in [Tasks -> Seq(Steps)]
  /\ \A t \in Tasks : Orderly(todo[t])
  /\ Holders(gate, {t \in Tasks : HasPermit(todo[t])})
  /\ Holders(pool, {t \in Tasks : HasConnection(todo[t])})
  /\ lock \in Tasks \cup {"free", "other", "rollback"}
  /\ \A t \in Tasks : lock = t <=> Doing(t, "commit")
  /\ \A t \in Tasks : (Doing(t, "begin") \/ Doing(t, "commit")) => gate[1] = t

\* The inductive invariant.
TasksInv ==
  /\ TypeOK
  /\ HoldInv
  /\ \A q \in Queries : todo[q] \in {<<>>, CallSteps, <<"answer">>}
  /\ serving = NoOne => todo[Actor] = <<>>
=============================================================================
