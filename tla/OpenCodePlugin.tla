--------------------------- MODULE OpenCodePlugin ---------------------------
(***************************************************************************)
(* The OpenCode plugin (.opencode/plugins/memory-bank.js) in one session.  *)
(*                                                                         *)
(* A user prompt is passed to memory-bank-hook when it is sent.  The       *)
(* assistant's reply is passed on when the session goes idle: the handler  *)
(* of session.idle lists the messages of the session and takes the latest  *)
(* reply that is completed.  If there is none, or the hook fails, it tries *)
(* again a few times at once, and then leaves the session to a poll timer, *)
(* which does the same until it succeeds or has tried too often.           *)
(*                                                                         *)
(* A handler or poll is a task.  JavaScript runs a task without            *)
(* interruption up to an await, so that each step is what happens between  *)
(* two awaits; at an await any other task, event or timer may run, and the *)
(* host may complete a reply.  A task that polls keeps the session state   *)
(* it began with, even after that was removed from activeSessions and      *)
(* another one was created.                                                *)
(*                                                                         *)
(* The k-th prompt and the k-th reply of the session are named by k.       *)
(* Sessions share only the caches of what was emitted.                     *)
(*                                                                         *)
(* A definition introduced by "Bug:" is not part of the model: it is the   *)
(* next definition with a plausible mistake, which the properties notice.  *)
(***************************************************************************)
EXTENDS Naturals, Sequences, FiniteSets, SequencesExt

CONSTANTS
  Tasks,              \* as many tasks as may run at once
  NoState,            \* the session has no entry in activeSessions
  ImmediateAttempts,  \* IMMEDIATE_ASSISTANT_RETRY_ATTEMPTS
  MaxPolls,           \* ASSISTANT_POLL_MAX_ATTEMPTS
  CacheLimit,         \* DEDUPE_CACHE_LIMIT
  Late,               \* the turns whose reply may be completed after session.idle
  MaxTurns,           \* bound on the turns of the session
  MaxIdles,           \* bound on the session.idle events
  MaxFaults           \* bound on hooks, lists and processes that fail

ASSUME AttemptsPositive ==
  /\ ImmediateAttempts \in Nat \ {0} /\ MaxPolls \in Nat \ {0} /\ CacheLimit \in Nat \ {0}
ASSUME TasksFinite == IsFiniteSet(Tasks)
ASSUME NoStateIsNone == NoState \notin 1..(Cardinality(Tasks) + 1)
ASSUME BoundsNat == MaxTurns \in Nat /\ MaxIdles \in Nat /\ MaxFaults \in Nat

VARIABLES
  replies,    \* the host: for each turn, whether its reply is completed
  idle,       \* the host: the present turn has gone idle
  idles,      \* how many session.idle events there were
  posted,     \* the prompts and replies that memory-bank-hook has delivered
  users,      \* emittedUserMessageIds, oldest first
  assistants, \* emittedAssistantMessageIds, oldest first
  states,     \* the session states, also those that a poll alone still holds
  active,     \* the one that is in activeSessions
  task,       \* what each task is doing
  disposed,   \* the plugin instance was disposed
  gaveUp,     \* history: a task has given up, or was lost, in the present turn
  faults      \* how many failures there were

host == <<replies, idle, idles>>
vars == <<replies, idle, idles, posted, users, assistants, states, active, task,
          disposed, gaveUp, faults>>

\* One state is active, and each polling task holds one at most.
States == 1..(Cardinality(Tasks) + 1)
Turns == 1..MaxTurns

\* What ensureActiveSession creates.
NewState == [attempts |-> 0, timer |-> FALSE, polling |-> FALSE]

Free == [pc |-> "free", poll |-> FALSE, attempt |-> 0, state |-> NoState, next |-> 0, completed |-> {}]

Init ==
  /\ replies = <<>>
  /\ idle = FALSE
  /\ idles = 0
  /\ posted = {}
  /\ users = <<>>
  /\ assistants = <<>>
  /\ states = [s \in States |-> NewState]
  /\ active = NoState
  /\ task = [t \in Tasks |-> Free]
  /\ disposed = FALSE
  /\ gaveUp = FALSE
  /\ faults = 0

Turn == Len(replies)

\* createBoundedIdCache: the oldest id makes room.
Cached(cache, id) ==
  IF id \in ToSet(cache) THEN cache
  ELSE LET all == Append(cache, id)
       IN  IF Len(all) > CacheLimit THEN Tail(all) ELSE all

-----------------------------------------------------------------------------
(* The host and what it tells the plugin.                                  *)

Fault == faults < MaxFaults /\ faults' = faults + 1

\* The hook process runs to its end within one step.  One that fails may yet have
\* delivered the fragment.
HookSucceeds(fragment) == posted' = posted \cup {fragment} /\ UNCHANGED faults
HookFails(fragment) == Fault /\ posted' \in {posted, posted \cup {fragment}}

\* chat.message, for a new prompt or again for the last one.
ChatMessage(k) ==
  /\ IF k \in ToSet(users) THEN UNCHANGED <<posted, users, faults>>
     ELSE \/ HookSucceeds(<<"prompt", k>>) /\ users' = Cached(users, k)
          \/ HookFails(<<"prompt", k>>) /\ UNCHANGED users
  /\ UNCHANGED <<idles, assistants, states, active, task, disposed>>

Prompt ==
  /\ Turn < MaxTurns
  /\ Turn = 0 \/ idle
  /\ replies' = Append(replies, "running")
  /\ idle' = FALSE
  /\ gaveUp' = FALSE
  /\ ChatMessage(Turn + 1)

PromptAgain ==
  /\ Turn > 0
  /\ ChatMessage(Turn)
  /\ UNCHANGED <<replies, idle, gaveUp>>

CompleteReply(k) ==
  /\ k \in DOMAIN replies /\ replies[k] = "running"
  /\ replies' = [replies EXCEPT ![k] = "completed"]
  /\ UNCHANGED <<idle, idles, posted, users, assistants, states, active, task, disposed,
                 gaveUp, faults>>

\* session.idle, whose handler looks at disposed before its first attempt.
SessionIdle(t) ==
  /\ Turn > 0 /\ idles < MaxIdles
  /\ replies[Turn] = "completed" \/ Turn \in Late
  /\ task[t] = Free
  /\ idle' = TRUE
  /\ idles' = idles + 1
  /\ task' = IF disposed THEN task ELSE [task EXCEPT ![t] = [Free EXCEPT !.pc = "list"]]
  /\ UNCHANGED <<replies, posted, users, assistants, states, active, disposed, gaveUp, faults>>

-----------------------------------------------------------------------------
(* activeSessions.                                                         *)

\* The states in use: the active one, and those that a poll holds.
Reachable(now, s) ==
  [i \in States |-> IF i = s \/ \E t \in Tasks : task'[t].state = i THEN now[i] ELSE NewState]

ClearActiveSession == active' = NoState /\ states' = Reachable(states, NoState)

\* Bug: a session state is created for a disposed plugin.
PollAlways(waiting) == ~waiting

\* A poll is scheduled unless there is one or the plugin was disposed.
PollDue(waiting) == ~disposed /\ ~waiting

\* The state of the session, a new one if it has none, with its poll timer set.
\* A state that has used up its attempts is never active between two steps.
ScheduleAssistantPoll(now) ==
  LET unused == CHOOSE s \in States : \A t \in Tasks : task'[t].state # s
      waiting == active # NoState /\ (now[active].timer \/ now[active].polling)
      s == IF active = NoState THEN unused ELSE active
      old == IF active = NoState THEN NewState ELSE now[active]
  IN  IF PollDue(waiting)
      THEN active' = s /\ states' = Reachable([now EXCEPT ![s] = [old EXCEPT !.timer = TRUE]], s)
      ELSE UNCHANGED active /\ states' = Reachable(now, active)

-----------------------------------------------------------------------------
(* One attempt: tryEmitAssistantMessage.                                   *)

\* The listing as the host answers it.
ListMessages(t) ==
  /\ task[t].pc = "list"
  /\ task' = [task EXCEPT ![t].pc = "look", ![t].next = Turn,
                          ![t].completed = {k \in DOMAIN replies : replies[k] = "completed"}]
  /\ UNCHANGED <<host, posted, users, assistants, states, active, disposed, gaveUp, faults>>

\* The listing fails: the handler ends, and a poll takes the session with it.
ListFails(t) ==
  /\ task[t].pc = "list"
  /\ Fault
  /\ gaveUp' = TRUE
  /\ IF task[t].poll
     THEN task' = [task EXCEPT ![t].pc = "close", ![t].state = NoState] /\ ClearActiveSession
     ELSE task' = [task EXCEPT ![t] = Free] /\ UNCHANGED <<active, states>>
  /\ UNCHANGED <<host, posted, users, assistants, disposed>>

\* A reply that is not completed in the listing is fetched once more.
Usable(t, k) == k \in task[t].completed \/ replies[k] = "completed"

\* Otherwise the reply before it is looked at.
SkipReply(t) ==
  /\ task[t].pc = "look" /\ task[t].next > 0
  /\ ~Usable(t, task[t].next)
  /\ task' = [task EXCEPT ![t].next = @ - 1]
  /\ UNCHANGED <<host, posted, users, assistants, states, active, disposed, gaveUp, faults>>

Found(t) == task[t].pc = "look" /\ task[t].next > 0 /\ Usable(t, task[t].next)

\* The reply was emitted before: there is nothing to do for this session.
AlreadyEmitted(t) ==
  /\ Found(t)
  /\ task[t].next \in ToSet(assistants)
  /\ task' = [task EXCEPT ![t] = Free]
  /\ ClearActiveSession
  /\ UNCHANGED <<host, posted, users, assistants, disposed, gaveUp, faults>>

\* Bug: the reply is taken for emitted although the hook failed.
EmitUnchecked(t) ==
  /\ Found(t)
  /\ task[t].next \notin ToSet(assistants)
  /\ HookSucceeds(<<"reply", task[t].next>>) \/ HookFails(<<"reply", task[t].next>>)
  /\ task' = [task EXCEPT ![t].pc = "record", ![t].completed = {}]
  /\ UNCHANGED <<host, users, assistants, states, active, disposed, gaveUp>>

EmitReply(t) ==
  /\ Found(t)
  /\ task[t].next \notin ToSet(assistants)
  /\ HookSucceeds(<<"reply", task[t].next>>)
  /\ task' = [task EXCEPT ![t].pc = "record", ![t].completed = {}]
  /\ UNCHANGED <<host, users, assistants, states, active, disposed, gaveUp>>

RecordReply(t) ==
  /\ task[t].pc = "record"
  /\ assistants' = Cached(assistants, task[t].next)
  /\ task' = [task EXCEPT ![t] = Free]
  /\ ClearActiveSession
  /\ UNCHANGED <<host, posted, users, disposed, gaveUp, faults>>

\* The hook fails and its failure is logged.
EmitFails(t) ==
  /\ Found(t)
  /\ task[t].next \notin ToSet(assistants)
  /\ HookFails(<<"reply", task[t].next>>)
  /\ task' = [task EXCEPT ![t].pc = "failed", ![t].next = 0, ![t].completed = {}]
  /\ UNCHANGED <<host, users, assistants, states, active, disposed, gaveUp>>

\* No reply is completed.
NoReply(t) ==
  /\ task[t].pc = "look" /\ task[t].next = 0
  /\ task' = [task EXCEPT ![t].pc = "failed", ![t].next = 0, ![t].completed = {}]
  /\ UNCHANGED <<host, posted, users, assistants, states, active, disposed, gaveUp, faults>>

-----------------------------------------------------------------------------
(* After an attempt that failed.                                           *)

\* emitAssistantWithImmediateRetry waits before the next attempt.
WaitToRetry(t) ==
  /\ task[t].pc = "failed" /\ ~task[t].poll
  /\ task[t].attempt + 1 < ImmediateAttempts
  /\ task' = [task EXCEPT ![t] = [Free EXCEPT !.pc = "wait", !.attempt = task[t].attempt + 1]]
  /\ UNCHANGED <<host, posted, users, assistants, states, active, disposed, gaveUp, faults>>

RetryNow(t) ==
  /\ task[t].pc = "wait"
  /\ task' = [task EXCEPT ![t] = IF disposed THEN Free ELSE [@ EXCEPT !.pc = "list"]]
  /\ UNCHANGED <<host, posted, users, assistants, states, active, disposed, gaveUp, faults>>

LeaveToPoll(t) ==
  /\ task[t].pc = "failed" /\ ~task[t].poll
  /\ task[t].attempt + 1 >= ImmediateAttempts
  /\ task' = [task EXCEPT ![t] = Free]
  /\ ScheduleAssistantPoll(states)
  /\ UNCHANGED <<host, posted, users, assistants, disposed, gaveUp, faults>>

\* Bug: the attempts of a poll are not counted.
CountNothing(n) == n

CountAttempt(n) == n + 1

\* The last attempt of a poll: the session is given up, also if its state is no
\* longer the one of this poll.
PollTimesOut(t) ==
  LET s == task[t].state
  IN  /\ task[t].pc = "failed" /\ task[t].poll
      /\ CountAttempt(states[s].attempts) >= MaxPolls
      /\ task' = [task EXCEPT ![t].pc = "close", ![t].state = NoState]
      /\ gaveUp' = TRUE
      /\ ClearActiveSession
      /\ UNCHANGED <<host, posted, users, assistants, disposed, faults>>

\* Bug: the flag of a poll is left set.
StillPolling(now) == now

\* The finally block clears the flag of whatever state is active now.
NotPolling(now) == IF active = NoState THEN now ELSE [now EXCEPT ![active].polling = FALSE]

PollAgain(t) ==
  LET s == task[t].state  n == CountAttempt(states[s].attempts)
  IN  /\ task[t].pc = "failed" /\ task[t].poll
      /\ n < MaxPolls
      /\ task' = [task EXCEPT ![t] = Free]
      /\ ScheduleAssistantPoll(NotPolling([states EXCEPT ![s].attempts = n]))
      /\ UNCHANGED <<host, posted, users, assistants, disposed, gaveUp, faults>>

\* The finally block of a poll that has given up, after its warning was logged.
ClosePoll(t) ==
  /\ task[t].pc = "close"
  /\ task' = [task EXCEPT ![t] = Free]
  /\ states' = Reachable(NotPolling(states), active)
  /\ UNCHANGED <<host, posted, users, assistants, active, disposed, gaveUp, faults>>

\* The timer of the active state; a cleared state has none.
TimerFires(t) ==
  /\ task[t] = Free
  /\ active # NoState /\ states[active].timer
  /\ IF states[active].polling
     THEN states' = [states EXCEPT ![active].timer = FALSE] /\ UNCHANGED task
     ELSE /\ states' = [states EXCEPT ![active].timer = FALSE, ![active].polling = TRUE]
          /\ task' = [task EXCEPT ![t] = [Free EXCEPT !.pc = "list", !.poll = TRUE, !.state = active]]
  /\ UNCHANGED <<host, posted, users, assistants, active, disposed, gaveUp, faults>>

\* server.instance.disposed.
Dispose ==
  /\ ~disposed
  /\ disposed' = TRUE
  /\ UNCHANGED <<host, posted, users, assistants, task, gaveUp, faults>>
  /\ ClearActiveSession

\* The host process ends and a new plugin instance starts in the session.
Restart ==
  /\ Fault
  /\ users' = <<>> /\ assistants' = <<>>
  /\ states' = [s \in States |-> NewState]
  /\ active' = NoState
  /\ task' = [t \in Tasks |-> Free]
  /\ disposed' = FALSE
  /\ gaveUp' = TRUE
  /\ UNCHANGED <<host, posted>>

Attempt(t) ==
  \/ ListMessages(t) \/ ListFails(t) \/ SkipReply(t) \/ AlreadyEmitted(t)
  \/ EmitReply(t) \/ RecordReply(t) \/ EmitFails(t) \/ NoReply(t)

AfterAttempt(t) ==
  \/ WaitToRetry(t) \/ RetryNow(t) \/ LeaveToPoll(t)
  \/ PollTimesOut(t) \/ PollAgain(t) \/ ClosePoll(t)

Next ==
  \/ Prompt \/ PromptAgain
  \/ \E k \in Turns : CompleteReply(k)
  \/ \E t \in Tasks : SessionIdle(t) \/ Attempt(t) \/ AfterAttempt(t) \/ TimerFires(t)
  \/ Dispose \/ Restart

Spec == Init /\ [][Next]_vars

\* The event loop runs every task and timer in the end.
Fairness ==
  /\ \A t \in Tasks : WF_vars(Attempt(t) \/ AfterAttempt(t))
  /\ WF_vars(\E t \in Tasks : TimerFires(t))

FairSpec == Spec /\ Fairness

-----------------------------------------------------------------------------
(* Properties.                                                             *)

\* Type invariant.
TypeOK ==
  /\ replies \in BoundedSeq({"running", "completed"}, MaxTurns)
  /\ idle \in BOOLEAN /\ disposed \in BOOLEAN /\ gaveUp \in BOOLEAN
  /\ idles \in 0..MaxIdles /\ faults \in 0..MaxFaults
  /\ posted \subseteq {"prompt", "reply"} \X Turns
  /\ users \in BoundedSeq(Turns, CacheLimit)
  /\ assistants \in BoundedSeq(Turns, CacheLimit)
  /\ states \in [States -> [attempts : 0..(MaxPolls - 1), timer : BOOLEAN, polling : BOOLEAN]]
  /\ active \in States \cup {NoState}
  /\ task \in [Tasks ->
       [pc : {"free", "list", "look", "record", "failed", "wait", "close"}, poll : BOOLEAN,
        attempt : 0..(ImmediateAttempts - 1), state : States \cup {NoState},
        next : 0..MaxTurns, completed : SUBSET Turns]]

\* A disposed plugin keeps no session and no timer, although tasks that were
\* waiting when it was disposed go on.
DisposedIsQuiet == disposed => active = NoState

\* A reply that later events will pass over has been delivered: it was recorded
\* after the hook had succeeded, by whichever task, and through repeated events.
RecordedWasPosted == \A k \in ToSet(assistants) : <<"reply", k>> \in posted

\* A task that is about to record a reply has seen the hook succeed.
RecordingWasPosted ==
  \A t \in Tasks : task[t].pc = "record" => <<"reply", task[t].next>> \in posted

\* The inductive invariant.
PluginInv == TypeOK /\ DisposedIsQuiet /\ RecordedWasPosted /\ RecordingWasPosted

\* Somebody is at work for the session, or will be.
Attended ==
  \/ \E t \in Tasks : task[t] # Free
  \/ active # NoState /\ states[active].timer

\* In the first turn no reply is forgotten: until it is delivered, or a task has
\* given up, one is trying or a poll is due, however events, polls and failures
\* interleave.
FirstReplyAttended ==
  Turn = 1 /\ idle /\ ~disposed /\ ~gaveUp => <<"reply", 1>> \in posted \/ Attended

\* The same in every turn.
EveryReplyAttended ==
  Turn > 0 /\ idle /\ ~disposed /\ ~gaveUp => <<"reply", Turn>> \in posted \/ Attended

\* The plugin comes to rest when nothing happens any more: every session ends, by
\* success or after so many polls, and leaves neither timer nor state behind.
PollingStops == <>[](active = NoState /\ \A t \in Tasks : task[t] = Free)
=============================================================================
