---------------------------- MODULE IngestQueue ----------------------------
(***************************************************************************)
(* The durable ingest queue of memory-bank-server (ingest.rs), with the    *)
(* part of the memory actor and of the process start-up that changes its   *)
(* tables.                                                                 *)
(*                                                                         *)
(* Hooks post conversation fragments over HTTP.  The store groups them     *)
(* into the turns of their conversation; a fragment with hard terminality  *)
(* finalizes its turn.  A dispatcher task claims finalized turns one at a  *)
(* time, rebuilds the conversation window, hands it to the memory actor    *)
(* and records the verdict.  The actor writes the memory note and marks    *)
(* the turn stored in one transaction.  Start-up, and a dispatcher that    *)
(* hit an unexpected error, put every turn found processing back in the    *)
(* queue.                                                                  *)
(*                                                                         *)
(* The database outlives the processes and nothing stops a second server   *)
(* from opening the same namespace: Servers is a set.  Each statement or   *)
(* transaction on the database is one step, because writers are            *)
(* serialized by the write permit and by BEGIN IMMEDIATE; whatever the     *)
(* code does between two of them can interleave with other tasks and       *)
(* processes.                                                              *)
(*                                                                         *)
(* Time is abstract: next_attempt_at is "due" or "later".  Which of the    *)
(* due turns of different conversations is claimed first (ORDER BY         *)
(* next_attempt_at, id) is left open; within a conversation at most one    *)
(* turn is ever claimable.  The terminality and the projection of a turn   *)
(* that is still open decide nothing and are left out.                     *)
(*                                                                         *)
(* A definition introduced by "Bug:" is not part of the model.  It is the  *)
(* next definition with a plausible mistake in it, kept to show that the   *)
(* properties at the end of the module notice the mistake.                 *)
(***************************************************************************)
EXTENDS Naturals, Sequences, FiniteSets

CONSTANTS
  Servers,        \* the server processes that may open the namespace
  Port,           \* Port[s]: the TCP port server s is configured to listen on
  Envelopes,      \* the fragments that hooks may post, each any number of times
  NoTurn,         \* the turn_id of an envelope that carries none
  NoJob,          \* what a dispatcher holds when it has claimed nothing
  MaxAttempts,    \* server.max_processing_attempts
  HistoryWindow,  \* server.history_window_size, 0 for unlimited
  FaultKinds,     \* the failures of the environment that are allowed
  MaxFaults       \* bound on the number of such failures

Terminalities == {"none", "soft", "hard"}

Conversations == {e.conversation : e \in Envelopes}
Fragments == {e.fragment : e \in Envelopes}
ExternalIds == {e.turn : e \in Envelopes} \cup {NoTurn}

ASSUME MaxAttemptsPositive == MaxAttempts \in Nat \ {0}
ASSUME HistoryWindowNat == HistoryWindow \in Nat
ASSUME MaxFaultsNat == MaxFaults \in Nat
ASSUME EnvelopesTyped ==
  \A e \in Envelopes :
    /\ e.user \in BOOLEAN
    /\ e.terminality \in Terminalities

VARIABLES
  turns,      \* table ingest_turns with its fragments: a sequence per conversation
  memories,   \* table memories, in insertion order
  pc,         \* where the dispatcher of each server is; "down" if not running
  job,        \* the turn each dispatcher has claimed, as it read it
  permit,     \* the stored permit of each server's dispatcher_notify
  timer,      \* whether the waiting dispatcher set a deadline
  listening,  \* whether the server has bound its port
  faults      \* how many failures of the environment have happened

vars == <<turns, memories, pc, job, permit, timer, listening, faults>>

-----------------------------------------------------------------------------
(* The rows of the tables.                                                 *)

Statuses ==
  {"open", "finalized", "processing", "stored", "aborted", "failed", "exhausted"}

\* Bug: a turn that is still open blocks nothing.
BlockingNotOpen == {"finalized", "processing", "failed"}

\* Bug: a turn that waits for a retry blocks nothing.
BlockingNotBackoff == {"open", "processing", "failed"}

\* The statuses of an earlier turn that keep a later one from being claimed.
Blocking == {"open", "finalized", "processing", "failed"}

\* calls is a history variable: how often the turn was handed to the actor,
\* counted up to one more than MaxAttempts.
Turn ==
  [ext : ExternalIds, status : Statuses, frags : SUBSET Fragments,
   attempts : Nat, next : {"none", "later", "due"},
   calls : 0..(MaxAttempts + 1)]

Note == [conversation : Conversations, index : Nat \ {0}, window : SUBSET Nat]

Verdicts == {"none", "retry", "exhausted", "failed"}

Job ==
  [conversation : Conversations, index : Nat \ {0}, attempts : Nat,
   window : SUBSET Nat, verdict : Verdicts]

Holding == {"window", "store", "settle"}
Phases == {"down", "claim", "deadline", "wait", "fault"} \cup Holding

Status(c, i) == turns[c][i].status

StoredBefore(c, j) == {i \in 1..(j - 1) : Status(c, i) = "stored"}

\* The most recent HistoryWindow members of a set of turn indexes.
LastTurns(S) ==
  {i \in S : HistoryWindow = 0 \/ Cardinality({k \in S : k > i}) < HistoryWindow}

\* A finalized turn with no blocking predecessor.
Unblocked(c, i) ==
  /\ Status(c, i) = "finalized"
  /\ \A k \in 1..(i - 1) : Status(c, k) \notin Blocking

Claimable(c, i) == Unblocked(c, i) /\ turns[c][i].next = "due"

Rows == UNION {{<<c, i>> : i \in DOMAIN turns[c]} : c \in Conversations}

SetRow(c, i, row) == turns' = [turns EXCEPT ![c][i] = row]

AtCap(n) == n >= MaxAttempts

\* Bug: an interrupted attempt is not counted.
BumpNothing(n) == n

\* A recovery adds one whatever the cap, so the count of a turn has no bound.
Bump(n) == n + 1

Init ==
  /\ turns = [c \in Conversations |-> <<>>]
  /\ memories = <<>>
  /\ pc = [s \in Servers |-> "down"]
  /\ job = [s \in Servers |-> NoJob]
  /\ permit = [s \in Servers |-> FALSE]
  /\ timer = [s \in Servers |-> FALSE]
  /\ listening = [s \in Servers |-> FALSE]
  /\ faults = 0

-----------------------------------------------------------------------------
(* POST /ingest.  A fragment that names a closed external turn is refused  *)
(* and changes nothing, so it has no action.                               *)

NewTurn(x) ==
  [ext |-> x, status |-> "open", frags |-> {}, attempts |-> 0,
   next |-> "none", calls |-> 0]

\* The row after the fragment is inserted: hard terminality finalizes it and
\* schedules it at once.
WithFragment(row, e) ==
  [row EXCEPT
    !.frags = @ \cup {e.fragment},
    !.status = IF e.terminality = "hard" THEN "finalized" ELSE @,
    !.next = IF e.terminality = "hard" THEN "due" ELSE @]

ExternalTurn(e) == {i \in DOMAIN turns[e.conversation] :
                      turns[e.conversation][i].ext = e.turn}

OpenTurn(e) == {i \in DOMAIN turns[e.conversation] :
                  /\ turns[e.conversation][i].ext = NoTurn
                  /\ Status(e.conversation, i) = "open"}

JoinTurn(e, i) ==
  SetRow(e.conversation, i, WithFragment(turns[e.conversation][i], e))

StartTurn(e) ==
  turns' = [turns EXCEPT ![e.conversation] =
              Append(@, WithFragment(NewTurn(e.turn), e))]

\* Bug: the turn that is replaced stays open.
AbandonAndStartTurn(e, i) ==
  turns' = [turns EXCEPT ![e.conversation] = Append(@, WithFragment(NewTurn(NoTurn), e))]

AbortAndStartTurn(e, i) ==
  turns' = [turns EXCEPT ![e.conversation] =
              Append([@ EXCEPT ![i].status = "aborted"],
                     WithFragment(NewTurn(NoTurn), e))]

StageExternal(e) ==
  /\ e.turn # NoTurn
  /\ \/ ExternalTurn(e) = {} /\ StartTurn(e)
     \/ \E i \in ExternalTurn(e) :
          Status(e.conversation, i) = "open" /\ JoinTurn(e, i)

\* A user message closes the implicit turn that an earlier prompt left open.
StageImplicit(e) ==
  LET Supersedes(i) == e.user /\ turns[e.conversation][i].frags # {}
  IN  /\ e.turn = NoTurn
      /\ \/ OpenTurn(e) = {} /\ StartTurn(e)
         \/ \E i \in OpenTurn(e) :
              \/ ~Supersedes(i) /\ JoinTurn(e, i)
              \/ Supersedes(i) /\ AbortAndStartTurn(e, i)

\* Bug: a fragment is looked up in the open turns only.
KnownOpen(f) == \E c \in Conversations : \E i \in DOMAIN turns[c] :
                  Status(c, i) = "open" /\ f \in turns[c][i].frags

Known(f) == \E c \in Conversations : \E i \in DOMAIN turns[c] :
              f \in turns[c][i].frags

Stage(e) == ~Known(e.fragment) /\ (StageExternal(e) \/ StageImplicit(e))

\* notify_one: leaves a permit that the next wait consumes.
Notify(s) == permit' = [permit EXCEPT ![s] = TRUE]

IngestFragment(s, e) ==
  /\ listening[s]
  /\ Stage(e)
  /\ IF e.terminality = "hard" THEN Notify(s) ELSE UNCHANGED permit
  /\ UNCHANGED <<memories, pc, job, timer, listening, faults>>

\* The client goes away while the transaction commits: the handler is dropped
\* before it reaches notify_one.
IngestCancelled(s, e) ==
  /\ listening[s]
  /\ "disconnect" \in FaultKinds /\ faults < MaxFaults
  /\ e.terminality = "hard"
  /\ Stage(e)
  /\ faults' = faults + 1
  /\ UNCHANGED <<memories, pc, job, permit, timer, listening>>

\* A fragment that is already stored changes no row; it notifies again when
\* its turn has been finalized.
IngestDuplicate(s, e) ==
  /\ listening[s]
  /\ \E c \in Conversations : \E i \in DOMAIN turns[c] :
       /\ e.fragment \in turns[c][i].frags
       /\ Status(c, i) \notin {"open", "aborted"}
  /\ Notify(s)
  /\ UNCHANGED <<turns, memories, pc, job, timer, listening, faults>>

-----------------------------------------------------------------------------
(* The dispatcher task of server s.                                        *)

Goto(s, from, to) == pc[s] = from /\ pc' = [pc EXCEPT ![s] = to]

ClaimNextDueTurn(s) ==
  /\ Goto(s, "claim", "window")
  /\ \E c \in Conversations : \E i \in DOMAIN turns[c] :
       /\ Claimable(c, i)
       /\ SetRow(c, i, [turns[c][i] EXCEPT !.status = "processing"])
       /\ job' = [job EXCEPT ![s] =
            [conversation |-> c, index |-> i, attempts |-> turns[c][i].attempts,
             window |-> {}, verdict |-> "none"]]
  /\ UNCHANGED <<memories, permit, timer, listening, faults>>

ClaimNothing(s) ==
  /\ Goto(s, "claim", "deadline")
  /\ \A r \in Rows : ~Claimable(r[1], r[2])
  /\ UNCHANGED <<turns, memories, job, permit, timer, listening, faults>>

\* Bug: the deadline query sees no turn that is backing off.
DeadlineMissesBackoff(s) ==
  /\ Goto(s, "deadline", "wait")
  /\ timer' = [timer EXCEPT ![s] = \E r \in Rows : Claimable(r[1], r[2])]
  /\ UNCHANGED <<turns, memories, job, permit, listening, faults>>

\* next_due_deadline: a query of its own, after the claim found nothing.  It
\* sees no turn that is blocked.
NextDueDeadline(s) ==
  /\ Goto(s, "deadline", "wait")
  /\ timer' = [timer EXCEPT ![s] = \E r \in Rows : Unblocked(r[1], r[2])]
  /\ UNCHANGED <<turns, memories, job, permit, listening, faults>>

WakeByNotify(s) ==
  /\ Goto(s, "wait", "claim")
  /\ permit[s]
  /\ permit' = [permit EXCEPT ![s] = FALSE]
  /\ timer' = [timer EXCEPT ![s] = FALSE]
  /\ UNCHANGED <<turns, memories, job, listening, faults>>

WakeByTimer(s) ==
  /\ Goto(s, "wait", "claim")
  /\ timer[s]
  /\ timer' = [timer EXCEPT ![s] = FALSE]
  /\ UNCHANGED <<turns, memories, job, permit, listening, faults>>

SetVerdict(s, verdict, attempts) ==
  job' = [job EXCEPT ![s].verdict = verdict, ![s].attempts = attempts]

\* The turn had used up its attempts before it was claimed.
OutOfAttempts(s) ==
  /\ Goto(s, "window", "settle")
  /\ AtCap(job[s].attempts)
  /\ SetVerdict(s, "exhausted", job[s].attempts)
  /\ UNCHANGED <<turns, memories, permit, timer, listening, faults>>

\* build_window, then the Add task in the mailbox of the memory actor.
DispatchTurn(s) ==
  LET c == job[s].conversation  i == job[s].index  calls == turns[c][i].calls
  IN  /\ Goto(s, "window", "store")
      /\ ~AtCap(job[s].attempts)
      /\ job' = [job EXCEPT ![s].window = LastTurns(StoredBefore(c, i))]
      /\ SetRow(c, i, [turns[c][i] EXCEPT
                        !.calls = IF calls > MaxAttempts THEN calls ELSE calls + 1])
      /\ UNCHANGED <<memories, permit, timer, listening, faults>>

\* A window that cannot be read fails the turn, whatever the error was.
BuildWindowFails(s) ==
  /\ Goto(s, "window", "settle")
  /\ ~AtCap(job[s].attempts)
  /\ "database" \in FaultKinds /\ faults < MaxFaults
  /\ faults' = faults + 1
  /\ SetVerdict(s, "failed", job[s].attempts)
  /\ UNCHANGED <<turns, memories, permit, timer, listening>>

\* Bug: the transaction commits whatever the turn has become.
PersistUnguarded(s) ==
  LET c == job[s].conversation  i == job[s].index
  IN  /\ Goto(s, "store", "claim")
      /\ SetRow(c, i, [turns[c][i] EXCEPT !.status = "stored", !.next = "none"])
      /\ memories' = Append(memories,
           [conversation |-> c, index |-> i, window |-> job[s].window])
      /\ job' = [job EXCEPT ![s] = NoJob]
      /\ UNCHANGED <<permit, timer, listening, faults>>

\* The actor's transaction: the note, its links and embeddings, and the turn.
PersistTurn(s) ==
  LET c == job[s].conversation  i == job[s].index
  IN  /\ Goto(s, "store", "claim")
      /\ Status(c, i) = "processing"
      /\ SetRow(c, i, [turns[c][i] EXCEPT !.status = "stored", !.next = "none"])
      /\ memories' = Append(memories,
           [conversation |-> c, index |-> i, window |-> job[s].window])
      /\ job' = [job EXCEPT ![s] = NoJob]
      /\ UNCHANGED <<permit, timer, listening, faults>>

\* The turn is no longer processing: the transaction is dropped.
PersistRefused(s) ==
  /\ Goto(s, "store", "settle")
  /\ Status(job[s].conversation, job[s].index) # "processing"
  /\ SetVerdict(s, "failed", job[s].attempts)
  /\ UNCHANGED <<turns, memories, permit, timer, listening, faults>>

\* The model, the encoder or the database failed or timed out.
ActorRetryable(s) ==
  LET nextAttempt == job[s].attempts + 1
  IN  /\ Goto(s, "store", "settle")
      /\ SetVerdict(s, IF AtCap(nextAttempt) THEN "exhausted" ELSE "retry",
                    nextAttempt)
      /\ UNCHANGED <<turns, memories, permit, timer, listening, faults>>

\* An invariant of the turn's data is violated.
ActorUnrecoverable(s) ==
  /\ Goto(s, "store", "settle")
  /\ SetVerdict(s, "failed", job[s].attempts)
  /\ UNCHANGED <<turns, memories, permit, timer, listening, faults>>

\* mark_retryable_failure, mark_exhausted, mark_failed.
Verdict(row, j) ==
  CASE j.verdict = "retry" ->
         [row EXCEPT !.status = "finalized", !.attempts = j.attempts, !.next = "later"]
    [] j.verdict = "exhausted" ->
         [row EXCEPT !.status = "exhausted", !.attempts = j.attempts, !.next = "none"]
    [] OTHER -> [row EXCEPT !.status = "failed", !.next = "none"]

\* Bug: the verdict is written over whatever the turn has become.
SettleUnguarded(s) ==
  LET c == job[s].conversation  i == job[s].index
  IN  /\ Goto(s, "settle", "claim")
      /\ SetRow(c, i, Verdict(turns[c][i], job[s]))
      /\ job' = [job EXCEPT ![s] = NoJob]
      /\ UNCHANGED <<memories, permit, timer, listening, faults>>

SettleTurn(s) ==
  LET c == job[s].conversation  i == job[s].index
  IN  /\ Goto(s, "settle", "claim")
      /\ Status(c, i) = "processing"
      /\ SetRow(c, i, Verdict(turns[c][i], job[s]))
      /\ job' = [job EXCEPT ![s] = NoJob]
      /\ UNCHANGED <<memories, permit, timer, listening, faults>>

\* No row was updated: somebody else has moved the turn on.
SettleRefused(s) ==
  /\ Goto(s, "settle", "fault")
  /\ Status(job[s].conversation, job[s].index) # "processing"
  /\ job' = [job EXCEPT ![s] = NoJob]
  /\ UNCHANGED <<turns, memories, permit, timer, listening, faults>>

\* A statement of the dispatcher fails and changes nothing.
DispatcherDatabaseError(s) ==
  /\ pc[s] \in {"claim", "deadline", "settle"}
  /\ "database" \in FaultKinds /\ faults < MaxFaults
  /\ faults' = faults + 1
  /\ pc' = [pc EXCEPT ![s] = "fault"]
  /\ job' = [job EXCEPT ![s] = NoJob]
  /\ UNCHANGED <<turns, memories, permit, timer, listening>>

Recovered(row) ==
  IF row.status = "processing"
  THEN [row EXCEPT !.status = "finalized", !.attempts = Bump(@), !.next = "due"]
  ELSE row

\* Bug: recovery forgets the turns.
RecoverNothing == UNCHANGED turns

\* Every processing turn of the database, whoever is working on it.
RecoverProcessingTurns ==
  turns' = [c \in Conversations |-> [i \in DOMAIN turns[c] |-> Recovered(turns[c][i])]]

RecoverAfterError(s) ==
  /\ Goto(s, "fault", "wait")
  /\ RecoverProcessingTurns
  /\ timer' = [timer EXCEPT ![s] = TRUE]
  /\ UNCHANGED <<memories, job, permit, listening, faults>>

\* The recovery fails like the statement before it: it is logged, not retried.
RecoveryFails(s) ==
  /\ Goto(s, "fault", "wait")
  /\ "recovery" \in FaultKinds /\ faults < MaxFaults
  /\ faults' = faults + 1
  /\ timer' = [timer EXCEPT ![s] = TRUE]
  /\ UNCHANGED <<turns, memories, job, permit, listening>>

-----------------------------------------------------------------------------
(* Processes, clock, and the specification.                                *)

\* Start-up recovers before the dispatcher is spawned, and both come before
\* the port is bound.
Boot(s) ==
  /\ Goto(s, "down", "claim")
  /\ RecoverProcessingTurns
  /\ UNCHANGED <<memories, job, permit, timer, listening, faults>>

PortFree(s) == \A t \in Servers : Port[t] = Port[s] => ~listening[t]

Bind(s) ==
  /\ pc[s] # "down"
  /\ ~listening[s]
  /\ PortFree(s)
  /\ listening' = [listening EXCEPT ![s] = TRUE]
  /\ UNCHANGED <<turns, memories, pc, job, permit, timer, faults>>

\* The process goes away with everything it had in memory.
Stop(s) ==
  /\ pc' = [pc EXCEPT ![s] = "down"]
  /\ job' = [job EXCEPT ![s] = NoJob]
  /\ permit' = [permit EXCEPT ![s] = FALSE]
  /\ timer' = [timer EXCEPT ![s] = FALSE]
  /\ listening' = [listening EXCEPT ![s] = FALSE]
  /\ UNCHANGED <<turns, memories>>

BindFails(s) ==
  /\ pc[s] # "down"
  /\ ~listening[s]
  /\ ~PortFree(s)
  /\ Stop(s)
  /\ UNCHANGED faults

Crash(s) ==
  /\ pc[s] # "down"
  /\ "crash" \in FaultKinds /\ faults < MaxFaults
  /\ faults' = faults + 1
  /\ Stop(s)

\* The clock reaches the next_attempt_at of a turn that is backing off.
BackoffElapses(c, i) ==
  /\ Status(c, i) = "finalized"
  /\ turns[c][i].next = "later"
  /\ SetRow(c, i, [turns[c][i] EXCEPT !.next = "due"])
  /\ UNCHANGED <<memories, pc, job, permit, timer, listening, faults>>

Ingest(s, e) == IngestFragment(s, e) \/ IngestCancelled(s, e) \/ IngestDuplicate(s, e)

Schedule(s) ==
  \/ ClaimNextDueTurn(s) \/ ClaimNothing(s) \/ NextDueDeadline(s)
  \/ WakeByNotify(s) \/ WakeByTimer(s)

Process(s) ==
  \/ OutOfAttempts(s) \/ DispatchTurn(s) \/ BuildWindowFails(s)
  \/ PersistTurn(s) \/ PersistRefused(s)
  \/ ActorRetryable(s) \/ ActorUnrecoverable(s)
  \/ SettleTurn(s) \/ SettleRefused(s)

Recover(s) == RecoverAfterError(s) \/ RecoveryFails(s)

Lifecycle(s) == Boot(s) \/ Bind(s) \/ BindFails(s) \/ Crash(s)

Next ==
  \/ \E s \in Servers :
       \/ \E e \in Envelopes : Ingest(s, e)
       \/ Schedule(s)
       \/ Process(s)
       \/ DispatcherDatabaseError(s)
       \/ Recover(s)
       \/ Lifecycle(s)
  \/ \E c \in Conversations : \E i \in DOMAIN turns[c] : BackoffElapses(c, i)

Spec == Init /\ [][Next]_vars

\* The scheduler of the runtime runs a dispatcher that can run, an operating
\* system restarts a server that stopped, and time passes.  Nothing makes a hook
\* post, a failure happen or the model provider answer well.
Fairness ==
  /\ \A s \in Servers :
       /\ WF_vars(Schedule(s))
       /\ WF_vars(Process(s))
       /\ WF_vars(Recover(s))
       /\ WF_vars(Boot(s) \/ Bind(s))
  /\ \A c \in Conversations : \A i \in 1..Cardinality(Fragments) :
       WF_vars(i \in DOMAIN turns[c] /\ BackoffElapses(c, i))

FairSpec == Spec /\ Fairness

-----------------------------------------------------------------------------
(* Properties.                                                             *)

\* Type invariant: the rows, the notes and what the dispatchers hold stay
\* within their ranges (the schema of ingest.rs); attempt_count has no upper one.
TypeOK ==
  /\ turns \in [Conversations -> Seq(Turn)]
  /\ memories \in Seq(Note)
  /\ pc \in [Servers -> Phases]
  /\ job \in [Servers -> Job \cup {NoJob}]
  /\ permit \in [Servers -> BOOLEAN]
  /\ timer \in [Servers -> BOOLEAN]
  /\ listening \in [Servers -> BOOLEAN]
  /\ faults \in 0..MaxFaults

\* A turn the dispatcher has been at: its attempt is running or has ended.
Begun(c, i) ==
  \/ Status(c, i) \in {"processing", "stored", "failed", "exhausted"}
  \/ turns[c][i].attempts > 0

\* A turn that stands in no later turn's way, ever.
Settled(c, i) == Status(c, i) \in {"stored", "aborted", "exhausted"}

\* No overtaking: when a turn is begun, all the earlier turns of its conversation
\* are settled, whatever is retried, recovered, restarted or raced meanwhile.
NoOvertaking ==
  \A c \in Conversations : \A i \in DOMAIN turns[c] :
    Begun(c, i) => \A k \in 1..(i - 1) : Settled(c, k)

\* The memory notes of one conversation are committed in the order of its turns.
StoredInTurnOrder ==
  \A m, n \in DOMAIN memories :
    m < n /\ memories[m].conversation = memories[n].conversation
      => memories[m].index < memories[n].index

\* A turn is stored exactly when it has a note, and it has one note at most: the
\* note and the status are one transaction, and an attempt that was overtaken by
\* a recovery cannot commit a second note.
NotesOf(c, i) == {k \in DOMAIN memories : memories[k].conversation = c /\ memories[k].index = i}

OneNotePerStoredTurn ==
  /\ \A c \in Conversations : \A i \in DOMAIN turns[c] :
       Cardinality(NotesOf(c, i)) = IF Status(c, i) = "stored" THEN 1 ELSE 0
  /\ \A k \in DOMAIN memories : memories[k].index \in DOMAIN turns[memories[k].conversation]

\* The window a note was made from is the most recent stored history of its
\* conversation: no turn stored later belongs in it, even if the window was read
\* long before the note was committed.
HistoryIsComplete ==
  \A k \in DOMAIN memories :
    memories[k].window = LastTurns(StoredBefore(memories[k].conversation, memories[k].index))

\* What a dispatcher holds: a turn it has begun, with attempts left while the
\* actor works on it, and a window that is still the history of that turn however
\* long ago it was read.
JobCurrent(s) ==
  LET j == job[s]
  IN  /\ j \in Job
      /\ j.index \in DOMAIN turns[j.conversation]
      /\ Begun(j.conversation, j.index)
      /\ pc[s] = "store" =>
           /\ j.attempts < MaxAttempts
           /\ j.window = LastTurns(StoredBefore(j.conversation, j.index))
      /\ pc[s] = "settle" /\ j.verdict = "retry" => j.attempts > 0

JobsCurrent == \A s \in Servers : pc[s] \in Holding => JobCurrent(s)

\* The notes are exactly the stored turns.
NotesCurrent ==
  /\ \A k \in DOMAIN memories :
       LET n == memories[k]
       IN  n.index \in DOMAIN turns[n.conversation] /\ Status(n.conversation, n.index) = "stored"
  /\ \A c \in Conversations : \A i \in DOMAIN turns[c] : Status(c, i) = "stored" =>
       \E k \in DOMAIN memories : memories[k].conversation = c /\ memories[k].index = i

\* The inductive invariant from which the safety properties are proved.  Any
\* server may have lost its claim to a recovery, and several may hold one turn.
QueueInv ==
  /\ TypeOK
  /\ JobsCurrent
  /\ NoOvertaking
  /\ StoredInTurnOrder
  /\ NotesCurrent
  /\ HistoryIsComplete

\* A fragment that is posted again, at any time and to any server, belongs to one
\* turn only.
FragmentInOneTurn ==
  \A c, d \in Conversations : \A i \in DOMAIN turns[c] : \A k \in DOMAIN turns[d] :
    turns[c][i].frags \cap turns[d][k].frags # {} => <<c, i>> = <<d, k>>

\* A conversation has one open turn without an external id at most, so that a
\* fragment without a turn id can only join the latest prompt.
OneOpenImplicitTurn ==
  \A c \in Conversations : \A i, k \in DOMAIN turns[c] :
    /\ Status(c, i) = "open" /\ turns[c][i].ext = NoTurn
    /\ Status(c, k) = "open" /\ turns[c][k].ext = NoTurn
    => i = k

\* The columns of a row; calls is none.
Columns(row) == <<row.ext, row.status, row.frags, row.attempts, row.next>>

\* What a turn has become is never taken back: neither a late verdict, a recovery
\* nor a late fragment changes a turn that is stored, aborted, failed or exhausted.
FinalTurnsNeverChange ==
  [][\A c \in Conversations : \A i \in DOMAIN turns[c] :
       Status(c, i) \in {"stored", "aborted", "failed", "exhausted"}
         => Columns(turns'[c][i]) = Columns(turns[c][i])]_vars

\* The retry cap: no turn is handed to the memory actor more often than
\* max_processing_attempts, crashes and restarts included.
RetryBudget ==
  \A c \in Conversations : \A i \in DOMAIN turns[c] : turns[c][i].calls <= MaxAttempts

\* With one server, a turn is processing only while its dispatcher holds it, or
\* while the recovery that will put it back is certain: no server is up, or the
\* dispatcher is about to recover from an error.
NoStrandedTurn ==
  (\E s \in Servers : pc[s] # "down") =>
    \A c \in Conversations : \A i \in DOMAIN turns[c] : Status(c, i) = "processing" =>
      \E s \in Servers :
        \/ pc[s] = "fault"
        \/ pc[s] \in Holding /\ job[s].conversation = c /\ job[s].index = i

\* With one server, a dispatcher that waits without deadline and without a permit
\* has nothing to do: no finalized turn is ready, now or after a delay.
NoSleepOnWork ==
  \A s \in Servers : pc[s] = "wait" /\ ~timer[s] /\ ~permit[s] =>
    \A r \in Rows : ~Unblocked(r[1], r[2])

\* A finalized turn whose predecessors are settled is stored or given up in the
\* end, through retries, crashes and restarts.
EveryTurnConcludes ==
  \A c \in Conversations : \A i \in 1..Cardinality(Fragments) :
    (i \in DOMAIN turns[c] /\ Unblocked(c, i))
      ~> (i \in DOMAIN turns[c] /\ Status(c, i) \in {"stored", "failed", "exhausted"})

-----------------------------------------------------------------------------
(* IngestQueue implements TurnLog.                                         *)

Outcome(status) ==
  CASE status \in {"open", "finalized", "processing"} -> "pending"
    [] status \in {"aborted", "exhausted"} -> "dropped"
    [] OTHER -> status

Log == INSTANCE TurnLog WITH
  outcome <- [c \in Conversations |->
                [i \in DOMAIN turns[c] |-> Outcome(Status(c, i))]],
  notes <- [k \in DOMAIN memories |->
              [conversation |-> memories[k].conversation, index |-> memories[k].index]]

\* Every step of the queue is a step of the turn log or invisible in it: outcomes
\* are final, are reached in turn order, and come with one note each.
ImplementsTurnLog == Log!LogSpec
=============================================================================
