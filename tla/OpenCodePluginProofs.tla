------------------------ MODULE OpenCodePluginProofs ------------------------
(***************************************************************************)
(* Proofs about OpenCodePlugin, for any number of tasks, attempts, polls,  *)
(* turns, events and failures, and caches of any size.                     *)
(***************************************************************************)
EXTENDS OpenCodePlugin, FiniteSetTheorems, SequenceTheorems, TLAPS

TaskRecords ==
  [pc : {"free", "list", "look", "record", "failed", "wait", "close"}, poll : BOOLEAN,
   attempt : 0..(ImmediateAttempts - 1), state : States \cup {NoState},
   next : 0..MaxTurns, completed : SUBSET Turns]

StateRecords == [attempts : 0..(MaxPolls - 1), timer : BOOLEAN, polling : BOOLEAN]

-----------------------------------------------------------------------------
(* Sequences and states.                                                   *)

\* A bounded sequence is a sequence that is not too long.
LEMMA BoundedSeqIsSeq ==
  ASSUME NEW S, NEW n \in Nat, NEW s
  PROVE  s \in BoundedSeq(S, n) <=> s \in Seq(S) /\ Len(s) <= n
  <1>1. s \in BoundedSeq(S, n) <=> \E m \in 0..n : s \in [1..m -> S]
    BY DEF BoundedSeq, SeqOf
  <1>2. ASSUME NEW m \in 0..n, s \in [1..m -> S]
        PROVE  s \in Seq(S) /\ Len(s) <= n
    BY <1>2
  <1>3. ASSUME s \in Seq(S), Len(s) <= n
        PROVE  Len(s) \in 0..n /\ s \in [1..Len(s) -> S]
    BY <1>3
  <1> QED
    BY <1>1, <1>2, <1>3

LEMMA EmptyIsBounded ==
  ASSUME NEW S, NEW n \in Nat
  PROVE  <<>> \in BoundedSeq(S, n)
  <1>1. <<>> \in Seq(S) /\ Len(<<>>) <= n
    OBVIOUS
  <1> QED
    BY <1>1, BoundedSeqIsSeq

\* A cache keeps to its limit, and holds nothing but what it held and what is added.
LEMMA CachedKeeps ==
  ASSUME NEW cache \in BoundedSeq(Turns, CacheLimit), NEW id \in Turns
  PROVE  /\ Cached(cache, id) \in BoundedSeq(Turns, CacheLimit)
         /\ ToSet(Cached(cache, id)) \subseteq ToSet(cache) \cup {id}
  <1> DEFINE all == Append(cache, id)
  <1>0. CacheLimit \in Nat \ {0}
    BY AttemptsPositive
  <1>1. cache \in Seq(Turns) /\ Len(cache) <= CacheLimit
    BY <1>0, BoundedSeqIsSeq
  <1>2. all \in Seq(Turns) /\ Len(all) = Len(cache) + 1
    BY <1>1
  <1>3. \A i \in 1..Len(all) : all[i] = IF i <= Len(cache) THEN cache[i] ELSE id
    BY <1>1, <1>2
  <1>4. ToSet(all) \subseteq ToSet(cache) \cup {id}
    BY <1>1, <1>2, <1>3 DEF ToSet
  <1>5. CASE id \in ToSet(cache)
    BY <1>5 DEF Cached
  <1>6. CASE id \notin ToSet(cache) /\ Len(all) <= CacheLimit
    <2>1. Cached(cache, id) = all
      BY <1>2, <1>6, <1>0, <1>1 DEF Cached
    <2> QED
      BY <2>1, <1>0, <1>2, <1>4, <1>6, BoundedSeqIsSeq
  <1>7. CASE id \notin ToSet(cache) /\ Len(all) > CacheLimit
    <2>1. Cached(cache, id) = Tail(all)
      BY <1>7 DEF Cached
    <2>2. Tail(all) \in Seq(Turns) /\ Len(Tail(all)) = Len(cache)
          /\ \A i \in 1..Len(Tail(all)) : Tail(all)[i] = all[i + 1]
      BY <1>1, <1>2
    <2>3. ToSet(Tail(all)) \subseteq ToSet(all)
      BY <1>1, <1>2, <2>2 DEF ToSet
    <2> QED
      BY <2>1, <2>2, <2>3, <1>0, <1>1, <1>4, BoundedSeqIsSeq
  <1> QED
    BY <1>0, <1>1, <1>2, <1>5, <1>6, <1>7

\* There are more states than tasks, so that a state is free for the session.
LEMMA SomeStateUnused ==
  ASSUME NEW held \in [Tasks -> TaskRecords]
  PROVE  \E s \in States : \A t \in Tasks : held[t].state # s
  <1> DEFINE f == [t \in Tasks |-> held[t].state]
             T == {f[t] : t \in Tasks}
  <1>1. f \in Surjection(Tasks, T)
    BY DEF Surjection
  <1>2. IsFiniteSet(T) /\ Cardinality(T) <= Cardinality(Tasks)
    BY <1>1, TasksFinite, FS_Surjection
  <1>3. Cardinality(Tasks) \in Nat /\ Cardinality(T) \in Nat
    BY <1>2, TasksFinite, FS_CardinalityType
  <1>4. Cardinality(States) = Cardinality(Tasks) + 1
    BY <1>3, FS_Interval DEF States
  <1>5. ~(States \subseteq T)
    BY <1>2, <1>3, <1>4, FS_Subset
  <1> QED
    BY <1>5

\* The conjuncts of the type invariant that the steps of a task and the timer
\* change; the sets of records are named above.
LEMMA TypeOfRecords ==
  TypeOK <=>
    /\ replies \in BoundedSeq({"running", "completed"}, MaxTurns)
    /\ idle \in BOOLEAN /\ disposed \in BOOLEAN /\ gaveUp \in BOOLEAN
    /\ idles \in 0..MaxIdles /\ faults \in 0..MaxFaults
    /\ posted \subseteq {"prompt", "reply"} \X Turns
    /\ users \in BoundedSeq(Turns, CacheLimit)
    /\ assistants \in BoundedSeq(Turns, CacheLimit)
    /\ states \in [States -> StateRecords]
    /\ active \in States \cup {NoState}
    /\ task \in [Tasks -> TaskRecords]
  BY DEF TypeOK, StateRecords, TaskRecords

\* A new state, and a task that is free, are of their types.
LEMMA FreshRecords == NewState \in StateRecords /\ Free \in TaskRecords
  BY AttemptsPositive, BoundsNat DEF NewState, StateRecords, Free, TaskRecords

\* The number of the present turn.
LEMMA TurnTyped ==
  ASSUME TypeOK
  PROVE  /\ replies \in Seq({"running", "completed"})
         /\ Turn \in 0..MaxTurns /\ DOMAIN replies = 1..Turn /\ DOMAIN replies \subseteq Turns
  BY BoundsNat, BoundedSeqIsSeq DEF TypeOK, Turn, Turns

\* Forgetting the states that are not in use keeps their type.
LEMMA ReachableTyped ==
  ASSUME NEW now \in [States -> StateRecords], NEW s
  PROVE  Reachable(now, s) \in [States -> StateRecords]
  BY FreshRecords DEF Reachable

\* So does scheduling a poll.  A disposed plugin gets no session by it.
LEMMA SchedulingTyped ==
  ASSUME NEW now \in [States -> StateRecords], active \in States \cup {NoState},
         task' \in [Tasks -> TaskRecords], ScheduleAssistantPoll(now)
  PROVE  /\ states' \in [States -> StateRecords] /\ active' \in States \cup {NoState}
         /\ disposed => active' = active
  <1> DEFINE unused == CHOOSE s \in States : \A t \in Tasks : task'[t].state # s
             waiting == active # NoState /\ (now[active].timer \/ now[active].polling)
             s == IF active = NoState THEN unused ELSE active
             old == IF active = NoState THEN NewState ELSE now[active]
             scheduled == [now EXCEPT ![s] = [old EXCEPT !.timer = TRUE]]
  <1>1. unused \in States
    BY SomeStateUnused
  <1>2. s \in States /\ old \in StateRecords
    BY <1>1, FreshRecords
  <1>3. [old EXCEPT !.timer = TRUE] \in StateRecords
    BY <1>2 DEF StateRecords
  <1>4. scheduled \in [States -> StateRecords]
    BY <1>2, <1>3
  <1>5. CASE PollDue(waiting)
    <2>1. active' = s /\ states' = Reachable(scheduled, s) /\ ~disposed
      BY <1>5 DEF ScheduleAssistantPoll, PollDue
    <2>2. Reachable(scheduled, s) \in [States -> StateRecords]
      <3> HIDE DEF scheduled, s
      <3> QED
        BY <1>4, ReachableTyped
    <2> QED
      BY <2>1, <2>2, <1>2
  <1>6. CASE ~PollDue(waiting)
    <2>1. active' = active /\ states' = Reachable(now, active)
      BY <1>6 DEF ScheduleAssistantPoll
    <2> QED
      BY <2>1, ReachableTyped
  <1> QED
    BY <1>5, <1>6

\* And clearing the flag of a poll.
LEMMA NotPollingTyped ==
  ASSUME NEW now \in [States -> StateRecords]
  PROVE  NotPolling(now) \in [States -> StateRecords]
  BY DEF NotPolling, StateRecords

LEMMA NotPollingClears ==
  ASSUME NEW now \in [States -> StateRecords], active \in States \cup {NoState}, active # NoState
  PROVE  NotPolling(now)[active].polling = FALSE
  BY DEF NotPolling, StateRecords

\* So does counting the attempt of a poll that goes on.
LEMMA CountedTyped ==
  ASSUME NEW now \in [States -> StateRecords], NEW s, CountAttempt(now[s].attempts) < MaxPolls
  PROVE  [now EXCEPT ![s].attempts = CountAttempt(now[s].attempts)] \in [States -> StateRecords]
  <1>1. CASE s \in States
    <2>1. PICK n : n = CountAttempt(now[s].attempts)
      OBVIOUS
    <2>2. n \in 0..(MaxPolls - 1)
      BY <1>1, <2>1, AttemptsPositive DEF CountAttempt, StateRecords
    <2>3. [now EXCEPT ![s].attempts = n] \in [States -> StateRecords]
      BY <1>1, <2>2 DEF StateRecords
    <2> QED
      BY <2>1, <2>3
  <1>2. CASE s \notin States
    BY <1>2
  <1> QED
    BY <1>1, <1>2

-----------------------------------------------------------------------------
(* The inductive invariant.                                                *)

LEMMA InitPluginInv == Init => PluginInv
  <1> SUFFICES ASSUME Init PROVE PluginInv
    OBVIOUS
  <1>1. /\ replies \in BoundedSeq({"running", "completed"}, MaxTurns)
        /\ users \in BoundedSeq(Turns, CacheLimit) /\ assistants \in BoundedSeq(Turns, CacheLimit)
    BY EmptyIsBounded, AttemptsPositive, BoundsNat DEF Init
  <1>2. /\ states \in [States -> StateRecords] /\ active \in States \cup {NoState}
        /\ task \in [Tasks -> TaskRecords]
    BY FreshRecords DEF Init
  <1>3. TypeOK
    <2>1. idle \in BOOLEAN /\ disposed \in BOOLEAN /\ gaveUp \in BOOLEAN
      BY DEF Init
    <2>2. idles \in 0..MaxIdles /\ faults \in 0..MaxFaults
      BY BoundsNat DEF Init
    <2>3. posted \subseteq {"prompt", "reply"} \X Turns
      BY DEF Init
    <2> QED
      BY <2>1, <2>2, <2>3, <1>1, <1>2, TypeOfRecords
  <1>4. DisposedIsQuiet /\ RecordedWasPosted /\ RecordingWasPosted
    BY DEF Init, DisposedIsQuiet, RecordedWasPosted, RecordingWasPosted, ToSet, Free
  <1> QED
    BY <1>3, <1>4 DEF PluginInv

\* What a step that is not one of the host may do.
LEMMA PluginStep ==
  ASSUME PluginInv, UNCHANGED <<host, users, disposed>>,
         task' \in [Tasks -> TaskRecords], states' \in [States -> StateRecords],
         active' \in States \cup {NoState}, disposed => active' = NoState,
         gaveUp' \in BOOLEAN, faults' \in 0..MaxFaults,
         posted' \subseteq {"prompt", "reply"} \X Turns,
         assistants' \in BoundedSeq(Turns, CacheLimit),
         \A k \in ToSet(assistants') : <<"reply", k>> \in posted',
         \A u \in Tasks : task'[u].pc = "record" => <<"reply", task'[u].next>> \in posted'
  PROVE  PluginInv'
  <1>1. TypeOK'
    BY TypeOfRecords DEF PluginInv, TypeOK, StateRecords, TaskRecords, host
  <1>2. DisposedIsQuiet' /\ RecordedWasPosted' /\ RecordingWasPosted'
    BY DEF DisposedIsQuiet, RecordedWasPosted, RecordingWasPosted
  <1> QED
    BY <1>1, <1>2 DEF PluginInv

\* The same where nothing is delivered or recorded: a task goes on to something
\* other than to record a reply.
LEMMA TaskStep ==
  ASSUME PluginInv, UNCHANGED <<host, posted, users, assistants, disposed>>,
         NEW t \in Tasks, NEW r \in TaskRecords, r.pc # "record", task' = [task EXCEPT ![t] = r],
         states' \in [States -> StateRecords], active' \in States \cup {NoState},
         disposed => active' = NoState, gaveUp' \in BOOLEAN, faults' \in 0..MaxFaults
  PROVE  PluginInv'
  <1>1. task \in [Tasks -> TaskRecords]
    BY TypeOfRecords DEF PluginInv
  <1>2. \A u \in Tasks : task'[u] = IF u = t THEN r ELSE task[u]
    BY <1>1
  <1>3. task' \in [Tasks -> TaskRecords]
    BY <1>1
  <1>4. \A u \in Tasks : task'[u].pc = "record" => <<"reply", task'[u].next>> \in posted'
    BY <1>2 DEF PluginInv, RecordingWasPosted
  <1>5. posted' \subseteq {"prompt", "reply"} \X Turns /\ assistants' \in BoundedSeq(Turns, CacheLimit)
    BY DEF PluginInv, TypeOK
  <1>6. \A k \in ToSet(assistants') : <<"reply", k>> \in posted'
    BY DEF PluginInv, RecordedWasPosted
  <1> QED
    BY <1>3, <1>4, <1>5, <1>6, PluginStep

\* The session ends: whatever is left of the states is typed.
LEMMA ClearingTyped ==
  ASSUME PluginInv, ClearActiveSession
  PROVE  states' \in [States -> StateRecords] /\ active' \in States \cup {NoState} /\ active' = NoState
  BY TypeOfRecords, ReachableTyped DEF ClearActiveSession, PluginInv

-----------------------------------------------------------------------------
(* The steps of a task.                                                    *)

\* What the invariant says, in the form in which the steps use it.
LEMMA Invariant ==
  ASSUME PluginInv
  PROVE  /\ task \in [Tasks -> TaskRecords] /\ states \in [States -> StateRecords]
         /\ active \in States \cup {NoState} /\ (disposed => active = NoState)
         /\ gaveUp \in BOOLEAN /\ faults \in 0..MaxFaults
         /\ posted \subseteq {"prompt", "reply"} \X Turns
         /\ assistants \in BoundedSeq(Turns, CacheLimit)
  BY TypeOfRecords DEF PluginInv, DisposedIsQuiet

LEMMA FaultTyped ==
  ASSUME PluginInv, Fault
  PROVE  faults' \in 0..MaxFaults
  BY BoundsNat DEF PluginInv, TypeOK, Fault

\* A reply that is found is one of the session.
LEMMA FoundTurn ==
  ASSUME PluginInv, NEW t \in Tasks, Found(t)
  PROVE  task[t].next \in Turns
  <1>1. task[t].next \in 0..MaxTurns
    BY Invariant DEF TaskRecords
  <1> QED
    BY <1>1, BoundsNat DEF Found, Turns

\* A task whose attempt has failed forgets what it saw.
LEMMA FailedRecord ==
  ASSUME NEW old \in TaskRecords
  PROVE  LET r == [old EXCEPT !.pc = "failed", !.next = 0, !.completed = {}]
         IN  r \in TaskRecords /\ r.pc = "failed"
  <1>1. ASSUME NEW n \in 0..MaxTurns, NEW seen \in SUBSET Turns
        PROVE  LET r == [old EXCEPT !.pc = "failed", !.next = n, !.completed = seen]
               IN  r \in TaskRecords /\ r.pc = "failed"
    BY DEF TaskRecords
  <1>2. 0 \in 0..MaxTurns /\ {} \in SUBSET Turns
    BY BoundsNat
  <1> QED
    BY <1>1, <1>2

\* The steps of an attempt that deliver nothing.
LEMMA LookingKeeps ==
  ASSUME PluginInv, NEW t \in Tasks,
         ListMessages(t) \/ ListFails(t) \/ SkipReply(t) \/ AlreadyEmitted(t) \/ NoReply(t)
  PROVE  PluginInv'
  <1> USE Invariant, FreshRecords
  <1>1. CASE ListMessages(t)
    <2> DEFINE r == [task[t] EXCEPT !.pc = "look", !.next = Turn,
                       !.completed = {k \in DOMAIN replies : replies[k] = "completed"}]
    <2>1. r \in TaskRecords /\ r.pc # "record"
      BY TurnTyped DEF PluginInv, TaskRecords
    <2>2. task' = [task EXCEPT ![t] = r]
      BY <1>1 DEF ListMessages
    <2> HIDE DEF r
    <2> QED
      BY <1>1, <2>1, <2>2, TaskStep DEF ListMessages
  <1>2. CASE ListFails(t)
    <2>1. faults' \in 0..MaxFaults /\ gaveUp' \in BOOLEAN
      BY <1>2, FaultTyped DEF ListFails
    <2>2. CASE task[t].poll
      <3> DEFINE r == [task[t] EXCEPT !.pc = "close", !.state = NoState]
      <3>1. r \in TaskRecords /\ r.pc # "record"
        BY DEF TaskRecords
      <3>2. task' = [task EXCEPT ![t] = r] /\ ClearActiveSession
        BY <1>2, <2>2 DEF ListFails
      <3> HIDE DEF r
      <3> QED
        BY <1>2, <2>1, <3>1, <3>2, ClearingTyped, TaskStep DEF ListFails
    <2>3. CASE ~task[t].poll
      <3>1. task' = [task EXCEPT ![t] = Free] /\ UNCHANGED <<active, states>>
        BY <1>2, <2>3 DEF ListFails
      <3>2. Free.pc # "record"
        BY DEF Free
      <3> QED
        BY <1>2, <2>1, <3>1, <3>2, TaskStep DEF ListFails
    <2> QED
      BY <2>2, <2>3
  <1>3. CASE SkipReply(t)
    <2> DEFINE r == [task[t] EXCEPT !.next = task[t].next - 1]
    <2>1. r \in TaskRecords /\ r.pc # "record"
      BY <1>3, BoundsNat DEF SkipReply, TaskRecords
    <2>2. task' = [task EXCEPT ![t] = r]
      BY <1>3 DEF SkipReply
    <2> HIDE DEF r
    <2> QED
      BY <1>3, <2>1, <2>2, TaskStep DEF SkipReply
  <1>4. CASE AlreadyEmitted(t)
    <2>1. Free.pc # "record"
      BY DEF Free
    <2> QED
      BY <1>4, <2>1, ClearingTyped, TaskStep DEF AlreadyEmitted
  <1>5. CASE NoReply(t)
    <2> DEFINE r == [task[t] EXCEPT !.pc = "failed", !.next = 0, !.completed = {}]
    <2>1. r \in TaskRecords /\ r.pc # "record"
      BY FailedRecord
    <2>2. task' = [task EXCEPT ![t] = r]
      BY <1>5 DEF NoReply
    <2> HIDE DEF r
    <2> QED
      BY <1>5, <2>1, <2>2, TaskStep DEF NoReply
  <1> QED
    BY <1>1, <1>2, <1>3, <1>4, <1>5

\* The steps that deliver a reply and record it.
LEMMA EmittingKeeps ==
  ASSUME PluginInv, NEW t \in Tasks, EmitReply(t) \/ RecordReply(t) \/ EmitFails(t)
  PROVE  PluginInv'
  <1> USE Invariant, FreshRecords
  <1>1. CASE EmitReply(t)
    <2> DEFINE r == [task[t] EXCEPT !.pc = "record", !.completed = {}]
    <2>0. task[t].next \in Turns
      BY <1>1, FoundTurn DEF EmitReply
    <2>1. posted' = posted \cup {<<"reply", task[t].next>>}
      BY <1>1 DEF EmitReply, HookSucceeds
    <2>2. r \in TaskRecords /\ r.next = task[t].next
      BY DEF TaskRecords
    <2>3. task' = [task EXCEPT ![t] = r] /\ faults' = faults
      BY <1>1 DEF EmitReply, HookSucceeds
    <2> HIDE DEF r
    <2>4. task' \in [Tasks -> TaskRecords]
      BY <2>2, <2>3
    <2>5. \A u \in Tasks : task'[u].pc = "record" => <<"reply", task'[u].next>> \in posted'
      BY <2>1, <2>2, <2>3 DEF PluginInv, RecordingWasPosted
    <2>6. \A k \in ToSet(assistants') : <<"reply", k>> \in posted'
      BY <1>1, <2>1 DEF EmitReply, PluginInv, RecordedWasPosted
    <2> QED
      BY <1>1, <2>0, <2>1, <2>3, <2>4, <2>5, <2>6, PluginStep DEF EmitReply
  <1>2. CASE RecordReply(t)
    <2>1. <<"reply", task[t].next>> \in posted /\ task[t].next \in Turns
      BY <1>2 DEF RecordReply, PluginInv, RecordingWasPosted
    <2>2. /\ assistants' \in BoundedSeq(Turns, CacheLimit)
          /\ ToSet(assistants') \subseteq ToSet(assistants) \cup {task[t].next}
      BY <1>2, <2>1, CachedKeeps DEF RecordReply
    <2>3. \A k \in ToSet(assistants') : <<"reply", k>> \in posted'
      BY <1>2, <2>1, <2>2 DEF RecordReply, PluginInv, RecordedWasPosted
    <2>4. task' = [task EXCEPT ![t] = Free] /\ Free.pc # "record"
      BY <1>2 DEF RecordReply, Free
    <2>5. /\ task' \in [Tasks -> TaskRecords]
          /\ \A u \in Tasks : task'[u].pc = "record" => <<"reply", task'[u].next>> \in posted'
      BY <1>2, <2>4 DEF RecordReply, PluginInv, RecordingWasPosted
    <2>6. states' \in [States -> StateRecords] /\ active' \in States \cup {NoState} /\ active' = NoState
      BY <1>2, ClearingTyped DEF RecordReply
    <2> QED
      BY <1>2, <2>2, <2>3, <2>5, <2>6, PluginStep DEF RecordReply
  <1>3. CASE EmitFails(t)
    <2> DEFINE r == [task[t] EXCEPT !.pc = "failed", !.next = 0, !.completed = {}]
    <2>1. task[t].next \in Turns /\ faults' \in 0..MaxFaults
      BY <1>3, FoundTurn, FaultTyped DEF EmitFails, HookFails
    <2>2. posted' \subseteq {"prompt", "reply"} \X Turns /\ posted \subseteq posted'
      BY <1>3, <2>1 DEF EmitFails, HookFails
    <2>3. r \in TaskRecords /\ r.pc # "record"
      BY FailedRecord
    <2>4. task' = [task EXCEPT ![t] = r]
      BY <1>3 DEF EmitFails
    <2> HIDE DEF r
    <2>5. task' \in [Tasks -> TaskRecords]
      BY <2>3, <2>4
    <2>6. \A u \in Tasks : task'[u].pc = "record" => <<"reply", task'[u].next>> \in posted'
      BY <2>2, <2>3, <2>4 DEF PluginInv, RecordingWasPosted
    <2>7. \A k \in ToSet(assistants') : <<"reply", k>> \in posted'
      BY <1>3, <2>2 DEF EmitFails, PluginInv, RecordedWasPosted
    <2> QED
      BY <1>3, <2>1, <2>2, <2>5, <2>6, <2>7, PluginStep DEF EmitFails
  <1> QED
    BY <1>1, <1>2, <1>3

\* The steps after an attempt that failed, and the timer.
LEMMA AfterAttemptKeeps ==
  ASSUME PluginInv, NEW t \in Tasks, AfterAttempt(t) \/ TimerFires(t)
  PROVE  PluginInv'
  <1> USE Invariant, FreshRecords
  <1>1. Free.pc # "record"
    BY DEF Free
  <1>2. CASE WaitToRetry(t)
    <2> DEFINE r == [Free EXCEPT !.pc = "wait", !.attempt = task[t].attempt + 1]
    <2>1. task[t].attempt + 1 \in 0..(ImmediateAttempts - 1)
      <3>1. task[t].attempt \in 0..(ImmediateAttempts - 1)
        BY DEF TaskRecords
      <3> QED
        BY <1>2, <3>1, AttemptsPositive DEF WaitToRetry
    <2>2. r \in TaskRecords /\ r.pc # "record"
      BY <2>1 DEF TaskRecords
    <2>3. task' = [task EXCEPT ![t] = r]
      BY <1>2 DEF WaitToRetry
    <2> HIDE DEF r
    <2> QED
      BY <1>2, <2>2, <2>3, TaskStep DEF WaitToRetry
  <1>3. CASE RetryNow(t)
    <2> DEFINE r == IF disposed THEN Free ELSE [task[t] EXCEPT !.pc = "list"]
    <2>1. r \in TaskRecords /\ r.pc # "record"
      BY <1>1 DEF TaskRecords
    <2>2. task' = [task EXCEPT ![t] = r]
      BY <1>3 DEF RetryNow
    <2> HIDE DEF r
    <2> QED
      BY <1>3, <2>1, <2>2, TaskStep DEF RetryNow
  <1>4. CASE LeaveToPoll(t)
    <2>1. task' = [task EXCEPT ![t] = Free] /\ ScheduleAssistantPoll(states)
      BY <1>4 DEF LeaveToPoll
    <2>2. task' \in [Tasks -> TaskRecords]
      BY <2>1
    <2>3. /\ states' \in [States -> StateRecords] /\ active' \in States \cup {NoState}
          /\ disposed => active' = NoState
      BY <2>1, <2>2, SchedulingTyped
    <2> QED
      BY <1>1, <1>4, <2>1, <2>3, TaskStep DEF LeaveToPoll
  <1>5. CASE PollTimesOut(t)
    <2> DEFINE r == [task[t] EXCEPT !.pc = "close", !.state = NoState]
    <2>1. r \in TaskRecords /\ r.pc # "record"
      BY DEF TaskRecords
    <2>2. task' = [task EXCEPT ![t] = r] /\ ClearActiveSession
      BY <1>5 DEF PollTimesOut
    <2> HIDE DEF r
    <2> QED
      BY <1>5, <2>1, <2>2, ClearingTyped, TaskStep DEF PollTimesOut
  <1>6. CASE PollAgain(t)
    <2> DEFINE now == [states EXCEPT ![task[t].state].attempts =
                                       CountAttempt(states[task[t].state].attempts)]
    <2>1. now \in [States -> StateRecords]
      BY <1>6, CountedTyped DEF PollAgain
    <2>2. task' = [task EXCEPT ![t] = Free] /\ ScheduleAssistantPoll(NotPolling(now))
      BY <1>6 DEF PollAgain
    <2> HIDE DEF now
    <2>3. task' \in [Tasks -> TaskRecords]
      BY <2>2
    <2>4. NotPolling(now) \in [States -> StateRecords]
      BY <2>1, NotPollingTyped
    <2>5. /\ states' \in [States -> StateRecords] /\ active' \in States \cup {NoState}
          /\ disposed => active' = NoState
      BY <2>2, <2>3, <2>4, SchedulingTyped
    <2> QED
      BY <1>1, <1>6, <2>2, <2>5, TaskStep DEF PollAgain
  <1>7. CASE ClosePoll(t)
    <2>1. states' \in [States -> StateRecords]
      BY <1>7, NotPollingTyped, ReachableTyped DEF ClosePoll
    <2> QED
      BY <1>1, <1>7, <2>1, TaskStep DEF ClosePoll
  <1>8. CASE TimerFires(t)
    <2>1. active \in States /\ (disposed => active' = NoState) /\ UNCHANGED active
      BY <1>8 DEF TimerFires
    <2>2. ASSUME NEW polling \in BOOLEAN,
                 states' = [states EXCEPT ![active].timer = FALSE, ![active].polling = polling]
          PROVE  states' \in [States -> StateRecords]
      <3> DEFINE r == [states[active] EXCEPT !.timer = FALSE, !.polling = polling]
      <3>1. r \in StateRecords
        BY <2>1 DEF StateRecords
      <3>2. states' = [states EXCEPT ![active] = r]
        BY <2>1, <2>2 DEF StateRecords
      <3> HIDE DEF r
      <3> QED
        BY <3>1, <3>2
    <2>3. CASE states[active].polling
      <3>1. task' = [task EXCEPT ![t] = Free]
        BY <1>8, <2>3 DEF TimerFires
      <3>2. states' \in [States -> StateRecords]
        BY <1>8, <2>1, <2>3 DEF TimerFires, StateRecords
      <3> QED
        BY <1>1, <1>8, <2>1, <3>1, <3>2, TaskStep DEF TimerFires
    <2>4. CASE ~states[active].polling
      <3> DEFINE r == [Free EXCEPT !.pc = "list", !.poll = TRUE, !.state = active]
      <3>1. r \in TaskRecords /\ r.pc # "record"
        BY <2>1 DEF TaskRecords
      <3>2. task' = [task EXCEPT ![t] = r]
        BY <1>8, <2>4 DEF TimerFires
      <3>3. states' \in [States -> StateRecords]
        BY <1>8, <2>2, <2>4 DEF TimerFires
      <3> HIDE DEF r
      <3> QED
        BY <1>8, <2>1, <3>1, <3>2, <3>3, TaskStep DEF TimerFires
    <2> QED
      BY <2>3, <2>4
  <1> QED
    BY <1>2, <1>3, <1>4, <1>5, <1>6, <1>7, <1>8 DEF AfterAttempt

-----------------------------------------------------------------------------
(* The steps of the host.                                                  *)

LEMMA ChatMessageKeeps ==
  ASSUME PluginInv, NEW k \in Turns, ChatMessage(k)
  PROVE  /\ users' \in BoundedSeq(Turns, CacheLimit) /\ faults' \in 0..MaxFaults
         /\ posted' \subseteq {"prompt", "reply"} \X Turns /\ posted \subseteq posted'
  <1> USE Invariant
  <1>1. users \in BoundedSeq(Turns, CacheLimit)
    BY DEF PluginInv, TypeOK
  <1>2. CASE HookSucceeds(<<"prompt", k>>) /\ users' = Cached(users, k)
    BY <1>1, <1>2, CachedKeeps DEF HookSucceeds
  <1>3. CASE HookFails(<<"prompt", k>>) /\ UNCHANGED users
    BY <1>1, <1>3, FaultTyped DEF HookFails
  <1>4. CASE UNCHANGED <<posted, users, faults>>
    BY <1>1, <1>4
  <1> QED
    BY <1>2, <1>3, <1>4 DEF ChatMessage

LEMMA HostKeeps ==
  ASSUME PluginInv,
         \/ Prompt \/ PromptAgain \/ Dispose \/ Restart
         \/ \E k \in Turns : CompleteReply(k)
         \/ \E t \in Tasks : SessionIdle(t)
  PROVE  PluginInv'
  <1> USE Invariant, FreshRecords
  <1>1. CASE Prompt
    <2>1. Turn + 1 \in Turns
      BY <1>1, TurnTyped, BoundsNat DEF Prompt, Turns, PluginInv
    <2>2. ChatMessage(Turn + 1)
      BY <1>1 DEF Prompt
    <2>3. /\ users' \in BoundedSeq(Turns, CacheLimit) /\ faults' \in 0..MaxFaults
          /\ posted' \subseteq {"prompt", "reply"} \X Turns /\ posted \subseteq posted'
      BY <2>1, <2>2, ChatMessageKeeps
    <2>4. replies' \in BoundedSeq({"running", "completed"}, MaxTurns)
      <3>1. /\ replies' \in Seq({"running", "completed"}) /\ Len(replies') = Turn + 1
        BY <1>1, TurnTyped DEF Prompt, Turn, PluginInv
      <3> QED
        BY <2>1, <3>1, BoundsNat, BoundedSeqIsSeq DEF Turns
    <2>5. TypeOK'
      BY <1>1, <2>2, <2>3, <2>4 DEF Prompt, ChatMessage, PluginInv, TypeOK
    <2> QED
      BY <1>1, <2>2, <2>3, <2>5
      DEF Prompt, ChatMessage, PluginInv, DisposedIsQuiet, RecordedWasPosted, RecordingWasPosted
  <1>2. CASE PromptAgain
    <2>1. Turn \in Turns /\ ChatMessage(Turn)
      BY <1>2, TurnTyped, BoundsNat DEF PromptAgain, Turns, PluginInv
    <2>2. /\ users' \in BoundedSeq(Turns, CacheLimit) /\ faults' \in 0..MaxFaults
          /\ posted' \subseteq {"prompt", "reply"} \X Turns /\ posted \subseteq posted'
      BY <2>1, ChatMessageKeeps
    <2>3. TypeOK'
      BY <1>2, <2>1, <2>2 DEF PromptAgain, ChatMessage, PluginInv, TypeOK
    <2> QED
      BY <1>2, <2>1, <2>2, <2>3
      DEF PromptAgain, ChatMessage, PluginInv, DisposedIsQuiet, RecordedWasPosted, RecordingWasPosted
  <1>3. ASSUME NEW k \in Turns, CompleteReply(k)
        PROVE  PluginInv'
    <2>1. replies' \in BoundedSeq({"running", "completed"}, MaxTurns)
      <3>1. replies' \in Seq({"running", "completed"}) /\ Len(replies') = Turn
        BY <1>3, TurnTyped DEF CompleteReply, Turn, PluginInv
      <3> QED
        BY <3>1, TurnTyped, BoundsNat, BoundedSeqIsSeq DEF PluginInv
    <2>2. TypeOK'
      BY <1>3, <2>1 DEF CompleteReply, PluginInv, TypeOK
    <2> QED
      BY <1>3, <2>2 DEF CompleteReply, PluginInv, DisposedIsQuiet, RecordedWasPosted, RecordingWasPosted
  <1>4. ASSUME NEW t \in Tasks, SessionIdle(t)
        PROVE  PluginInv'
    <2>1. [Free EXCEPT !.pc = "list"] \in TaskRecords /\ [Free EXCEPT !.pc = "list"].pc # "record"
      BY DEF TaskRecords
    <2>2. /\ task' \in [Tasks -> TaskRecords]
          /\ \A u \in Tasks : task'[u].pc = "record" => task'[u] = task[u]
      BY <1>4, <2>1 DEF SessionIdle
    <2>3. idles' \in 0..MaxIdles /\ idle' \in BOOLEAN
      BY <1>4, BoundsNat DEF SessionIdle, PluginInv, TypeOK
    <2>4. TypeOK'
      BY <1>4, <2>2, <2>3, TypeOfRecords DEF SessionIdle, PluginInv, TypeOK, TaskRecords
    <2> QED
      BY <1>4, <2>2, <2>4
      DEF SessionIdle, PluginInv, DisposedIsQuiet, RecordedWasPosted, RecordingWasPosted
  <1>5. CASE Dispose
    <2>1. states' \in [States -> StateRecords] /\ active' \in States \cup {NoState} /\ active' = NoState
      BY <1>5, ClearingTyped DEF Dispose
    <2>2. TypeOK'
      BY <1>5, <2>1 DEF Dispose, host, PluginInv, TypeOK, StateRecords
    <2> QED
      BY <1>5, <2>1, <2>2
      DEF Dispose, PluginInv, DisposedIsQuiet, RecordedWasPosted, RecordingWasPosted
  <1>6. CASE Restart
    <2>1. <<>> \in BoundedSeq(Turns, CacheLimit)
      BY EmptyIsBounded, AttemptsPositive
    <2>2. faults' \in 0..MaxFaults
      BY <1>6, FaultTyped DEF Restart
    <2>3. states' \in [States -> StateRecords] /\ task' \in [Tasks -> TaskRecords]
      BY <1>6 DEF Restart
    <2>4. TypeOK'
      BY <1>6, <2>1, <2>2, <2>3 DEF Restart, host, PluginInv, TypeOK, StateRecords, TaskRecords
    <2> QED
      BY <1>6, <2>4
      DEF Restart, PluginInv, DisposedIsQuiet, RecordedWasPosted, RecordingWasPosted, ToSet, Free
  <1> QED
    BY <1>1, <1>2, <1>3, <1>4, <1>5, <1>6

-----------------------------------------------------------------------------
(* The theorems.                                                           *)

LEMMA NextPluginInv == PluginInv /\ [Next]_vars => PluginInv'
  <1> SUFFICES ASSUME PluginInv, [Next]_vars
               PROVE  PluginInv'
    OBVIOUS
  <1>1. CASE UNCHANGED vars
    BY <1>1 DEF vars, host, PluginInv, TypeOK, DisposedIsQuiet, RecordedWasPosted, RecordingWasPosted
  <1>2. CASE \/ Prompt \/ PromptAgain \/ Dispose \/ Restart
             \/ \E k \in Turns : CompleteReply(k)
             \/ \E t \in Tasks : SessionIdle(t)
    BY <1>2, HostKeeps
  <1>3. ASSUME NEW t \in Tasks, Attempt(t)
        PROVE  PluginInv'
    BY <1>3, LookingKeeps, EmittingKeeps DEF Attempt
  <1>4. ASSUME NEW t \in Tasks, AfterAttempt(t) \/ TimerFires(t)
        PROVE  PluginInv'
    BY <1>4, AfterAttemptKeeps
  <1> QED
    BY <1>1, <1>2, <1>3, <1>4 DEF Next

\* The inductive invariant holds for any number of tasks and any bounds.
THEOREM PluginInvariance == Spec => []PluginInv
  BY NextPluginInv, InitPluginInv, PTL DEF Spec

\* Type correctness.
THEOREM TypeCorrectness == Spec => []TypeOK
  <1>1. PluginInv => TypeOK
    BY DEF PluginInv
  <1> QED
    BY <1>1, PluginInvariance, PTL

\* A disposed plugin keeps no session and no timer, whatever was still running when
\* it was disposed.
THEOREM DisposedIsQuietHolds == Spec => []DisposedIsQuiet
  <1>1. PluginInv => DisposedIsQuiet
    BY DEF PluginInv
  <1> QED
    BY <1>1, PluginInvariance, PTL

\* A reply that is passed over as emitted has been delivered, however handlers and
\* polls interleave and the hook fails.
THEOREM RecordedWasPostedHolds == Spec => []RecordedWasPosted
  <1>1. PluginInv => RecordedWasPosted
    BY DEF PluginInv
  <1> QED
    BY <1>1, PluginInvariance, PTL

-----------------------------------------------------------------------------
(* The first reply.                                                        *)

Looks == {"list", "look", "record", "failed"}

\* No task looks for a reply of a turn that has not begun.
NextInTurn == \A t \in Tasks : task[t].next <= Turn

\* The flag of the active state is that of a poll which will clear it.
HoldsFlag(r, s) == r.poll /\ r.state = s /\ r.pc \in Looks
FlagIsHeld ==
  active # NoState /\ states[active].polling => \E t \in Tasks : HoldsFlag(task[t], active)

\* A poll that has ended without a reply has given up.
ClosedGaveUp == \A t \in Tasks : Turn = 1 /\ task[t].pc = "close" => gaveUp

QuietBefore == Turn = 0 => active = NoState /\ \A t \in Tasks : task[t] = Free

AttendInv ==
  PluginInv /\ NextInTurn /\ FlagIsHeld /\ ClosedGaveUp /\ QuietBefore /\ FirstReplyAttended

LEMMA InitAttendInv == Init => AttendInv
  <1> SUFFICES ASSUME Init PROVE AttendInv
    OBVIOUS
  <1>1. Turn = 0
    BY DEF Init, Turn
  <1>2. NextInTurn /\ FlagIsHeld /\ ClosedGaveUp /\ QuietBefore /\ FirstReplyAttended
    BY <1>1 DEF Init, Free, NextInTurn, FlagIsHeld, ClosedGaveUp, QuietBefore, FirstReplyAttended
  <1> QED
    BY <1>2, InitPluginInv DEF AttendInv

\* A task or a timer does something: it is still trying, or the reply is delivered,
\* or it has left a timer behind, or somebody else is at work.
LEMMA TaskAttends ==
  ASSUME AttendInv, PluginInv', UNCHANGED <<replies, disposed>>, posted \subseteq posted',
         NEW t \in Tasks, NEW r, task' = [task EXCEPT ![t] = r],
         Turn # 0, r.next <= Turn,
         gaveUp => gaveUp',
         Turn = 1 /\ r.pc = "close" => gaveUp',
         active' # NoState /\ states'[active'].polling =>
           \/ HoldsFlag(r, active')
           \/ active' = active /\ states[active].polling /\ ~HoldsFlag(task[t], active),
         Turn = 1 /\ ~disposed /\ ~gaveUp' =>
           \/ <<"reply", 1>> \in posted' \/ r # Free
           \/ active' # NoState /\ states'[active'].timer
           \/ \E u \in Tasks : u # t /\ task[u] # Free
  PROVE  AttendInv'
  <1>1. /\ task'[t] = r
        /\ \A u \in Tasks : u # t => task'[u] = task[u]
    BY TypeOfRecords DEF AttendInv, PluginInv
  <1>2. Turn' = Turn
    BY DEF Turn
  <1>3. NextInTurn' /\ ClosedGaveUp' /\ QuietBefore'
    BY <1>1, <1>2 DEF AttendInv, NextInTurn, ClosedGaveUp, QuietBefore
  <1>4. FlagIsHeld'
    BY <1>1 DEF AttendInv, FlagIsHeld, HoldsFlag
  <1>5. FirstReplyAttended'
    BY <1>1, <1>2 DEF FirstReplyAttended, Attended
  <1> QED
    BY <1>3, <1>4, <1>5 DEF AttendInv

\* Scheduling a poll leaves a timer behind, or there is a poll.
LEMMA SchedulingAttends ==
  ASSUME NEW now \in [States -> StateRecords], active \in States \cup {NoState},
         task' \in [Tasks -> TaskRecords], ScheduleAssistantPoll(now)
  PROVE  /\ active' # NoState /\ states'[active'].polling => active' = active /\ now[active].polling
         /\ disposed \/ /\ active' # NoState
                        /\ states'[active'].timer \/ (active' = active /\ now[active].polling)
  <1> DEFINE unused == CHOOSE s \in States : \A t \in Tasks : task'[t].state # s
             waiting == active # NoState /\ (now[active].timer \/ now[active].polling)
             s == IF active = NoState THEN unused ELSE active
             old == IF active = NoState THEN NewState ELSE now[active]
             scheduled == [now EXCEPT ![s] = [old EXCEPT !.timer = TRUE]]
  <1>1. unused \in States
    BY SomeStateUnused
  <1>2. s \in States /\ old \in StateRecords /\ s # NoState
    BY <1>1, FreshRecords, NoStateIsNone DEF States
  <1>3. CASE PollDue(waiting)
    <2>1. active' = s /\ states' = Reachable(scheduled, s)
      BY <1>3 DEF ScheduleAssistantPoll
    <2>2. scheduled[s] = [old EXCEPT !.timer = TRUE]
      BY <1>2
    <2>3. states'[active'] = [old EXCEPT !.timer = TRUE]
      BY <1>2, <2>1, <2>2 DEF Reachable
    <2>4. states'[active'].timer = TRUE /\ states'[active'].polling = old.polling
      BY <1>2, <2>3 DEF StateRecords
    <2>5. old.polling => active = s /\ now[active].polling
      BY DEF NewState
    <2>6. active' = s /\ s # NoState
      BY <1>2, <2>1
    <2> HIDE DEF s, old, unused, waiting, scheduled
    <2>7. states'[active'].polling => active' = active /\ now[active].polling
      <3>1. SUFFICES ASSUME states'[active'].polling PROVE active' = active /\ now[active].polling
        OBVIOUS
      <3>2. old.polling
        BY <2>4, <3>1
      <3> QED
        BY <2>5, <2>6, <3>2
    <2>8. states'[active'].timer
      BY <2>4
    <2> QED
      BY <2>6, <2>7, <2>8
  <1>4. CASE ~PollDue(waiting)
    <2>1. active' = active /\ states' = Reachable(now, active)
      BY <1>4 DEF ScheduleAssistantPoll
    <2>2. active # NoState => states'[active'] = now[active]
      BY <2>1 DEF Reachable
    <2>3. disposed \/ waiting
      BY <1>4 DEF PollDue
    <2>4. ASSUME active' # NoState, states'[active'].polling
          PROVE  active' = active /\ now[active].polling
      <3>1. active' = active /\ states'[active] = now[active]
        BY <2>1, <2>2, <2>4
      <3> QED
        BY <2>4, <3>1
    <2>5. ASSUME ~disposed
          PROVE  /\ active' # NoState
                 /\ states'[active'].timer \/ (active' = active /\ now[active].polling)
      <3>1. active # NoState /\ (now[active].timer \/ now[active].polling)
        BY <2>3, <2>5
      <3>2. active' = active /\ states'[active'] = now[active]
        BY <2>1, <2>2, <3>1
      <3> QED
        BY <3>1, <3>2
    <2> QED
      BY <2>4, <2>5
  <1> QED
    BY <1>3, <1>4

\* A busy task belongs to a turn.
LEMMA AtWork ==
  ASSUME AttendInv, NEW t \in Tasks, task[t] # Free
  PROVE  /\ Turn # 0 /\ Turn \in Nat /\ task[t] \in TaskRecords
         /\ task[t].next <= Turn /\ task[t].next \in Nat
  <1>1. Turn \in Nat /\ task[t] \in TaskRecords
    BY Invariant, TurnTyped, BoundsNat DEF AttendInv, PluginInv
  <1>2. task[t].next \in Nat
    BY <1>1, BoundsNat DEF TaskRecords
  <1> QED
    BY <1>1, <1>2 DEF AttendInv, NextInTurn, QuietBefore

\* A task goes on trying, and no session state changes.
LEMMA StillTrying ==
  ASSUME AttendInv, PluginInv', UNCHANGED <<host, states, active, disposed, gaveUp>>,
         posted \subseteq posted',
         NEW t \in Tasks, NEW r, task[t] # Free, task' = [task EXCEPT ![t] = r],
         r.next <= Turn, r.pc \notin {"free", "close"},
         \A s : HoldsFlag(task[t], s) => HoldsFlag(r, s)
  PROVE  AttendInv'
  <1>1. r # Free /\ r.pc # "close"
    BY DEF Free
  <1>2. Turn # 0
    BY AtWork
  <1>3. active' # NoState /\ states'[active'].polling =>
          \/ HoldsFlag(r, active')
          \/ active' = active /\ states[active].polling /\ ~HoldsFlag(task[t], active)
    OBVIOUS
  <1> QED
    BY <1>1, <1>2, <1>3, TaskAttends DEF host

\* A task that clears the active state ends, or has given up.
LEMMA ClearingAttends ==
  ASSUME AttendInv, PluginInv', UNCHANGED <<host, disposed>>, posted \subseteq posted',
         NEW t \in Tasks, NEW r, task[t] # Free, task' = [task EXCEPT ![t] = r],
         active' = NoState, r.next <= Turn, gaveUp => gaveUp',
         gaveUp' \/ (r.pc # "close" /\ (Turn = 1 => <<"reply", 1>> \in posted'))
  PROVE  AttendInv'
  <1>1. Turn # 0
    BY AtWork
  <1> QED
    BY <1>1, TaskAttends DEF host

LEMMA AttemptAttends ==
  ASSUME AttendInv, PluginInv', NEW t \in Tasks, Attempt(t)
  PROVE  AttendInv'
  <1>1. task[t] # Free
    BY DEF Attempt, ListMessages, ListFails, SkipReply, AlreadyEmitted, EmitReply, RecordReply,
           EmitFails, NoReply, Found, Free
  <1>2. /\ Turn # 0 /\ Turn \in Nat /\ task[t] \in TaskRecords
        /\ task[t].next <= Turn /\ task[t].next \in Nat
    BY <1>1, AtWork
  <1>3. Free.next = 0 /\ Free.pc = "free" /\ Free.poll = FALSE
    BY DEF Free
  <1>4. CASE ListMessages(t)
    <2> DEFINE r == [task[t] EXCEPT !.pc = "look", !.next = Turn,
                       !.completed = {k \in DOMAIN replies : replies[k] = "completed"}]
    <2>1. task' = [task EXCEPT ![t] = r]
      BY <1>4 DEF ListMessages
    <2>2. r.pc = "look" /\ r.next = Turn /\ r.poll = task[t].poll /\ r.state = task[t].state
      BY <1>2 DEF TaskRecords
    <2> HIDE DEF r
    <2> QED
      BY <1>1, <1>2, <1>4, <2>1, <2>2, StillTrying DEF ListMessages, HoldsFlag, Looks
  <1>5. CASE SkipReply(t)
    <2> DEFINE r == [task[t] EXCEPT !.next = task[t].next - 1]
    <2>1. task' = [task EXCEPT ![t] = r]
      BY <1>5 DEF SkipReply
    <2>2. /\ r.pc = "look" /\ r.next = task[t].next - 1
          /\ r.poll = task[t].poll /\ r.state = task[t].state
      BY <1>2, <1>5 DEF TaskRecords, SkipReply
    <2> HIDE DEF r
    <2>3. r.next <= Turn
      BY <1>2, <2>2
    <2> QED
      BY <1>1, <1>5, <2>1, <2>2, <2>3, StillTrying DEF SkipReply, HoldsFlag, Looks
  <1>6. CASE EmitReply(t)
    <2> DEFINE r == [task[t] EXCEPT !.pc = "record", !.completed = {}]
    <2>1. task' = [task EXCEPT ![t] = r] /\ posted \subseteq posted'
      BY <1>6 DEF EmitReply, HookSucceeds
    <2>2. /\ r.pc = "record" /\ r.next = task[t].next
          /\ r.poll = task[t].poll /\ r.state = task[t].state
      BY <1>2 DEF TaskRecords
    <2> HIDE DEF r
    <2> QED
      BY <1>1, <1>2, <1>6, <2>1, <2>2, StillTrying DEF EmitReply, HoldsFlag, Looks
  <1>7. CASE EmitFails(t) \/ NoReply(t)
    <2> DEFINE r == [task[t] EXCEPT !.pc = "failed", !.next = 0, !.completed = {}]
    <2>1. /\ task' = [task EXCEPT ![t] = r] /\ posted \subseteq posted'
          /\ UNCHANGED <<host, states, active, disposed, gaveUp>>
      BY <1>7 DEF EmitFails, HookFails, NoReply
    <2>2. /\ r.pc = "failed" /\ r.next = 0
          /\ r.poll = task[t].poll /\ r.state = task[t].state
      BY <1>2 DEF TaskRecords
    <2> HIDE DEF r
    <2>3. r.next <= Turn
      BY <1>2, <2>2
    <2> QED
      BY <1>1, <2>1, <2>2, <2>3, StillTrying DEF HoldsFlag, Looks
  <1>8. CASE AlreadyEmitted(t) \/ RecordReply(t)
    <2>1. <<"reply", task[t].next>> \in posted
      BY <1>8 DEF AttendInv, PluginInv, RecordedWasPosted, RecordingWasPosted, AlreadyEmitted, RecordReply
    <2>2. task[t].next \in Turns
      BY <2>1, Invariant DEF AttendInv
    <2>3. Turn = 1 => task[t].next = 1
      BY <1>2, <2>2 DEF Turns
    <2> QED
      BY <1>1, <1>2, <1>3, <1>8, <2>1, <2>3, ClearingAttends
      DEF AlreadyEmitted, RecordReply, ClearActiveSession
  <1>9. CASE ListFails(t)
    <2>1. CASE task[t].poll
      <3> DEFINE r == [task[t] EXCEPT !.pc = "close", !.state = NoState]
      <3>1. /\ task' = [task EXCEPT ![t] = r] /\ active' = NoState /\ gaveUp'
            /\ UNCHANGED <<host, disposed, posted>>
        BY <1>9, <2>1 DEF ListFails, ClearActiveSession
      <3>2. r.next = task[t].next
        BY <1>2 DEF TaskRecords
      <3> HIDE DEF r
      <3> QED
        BY <1>1, <1>2, <3>1, <3>2, ClearingAttends
    <2>2. CASE ~task[t].poll
      <3>1. /\ task' = [task EXCEPT ![t] = Free] /\ gaveUp'
            /\ UNCHANGED <<host, disposed, posted, active, states>>
        BY <1>9, <2>2 DEF ListFails
      <3>2. ~HoldsFlag(task[t], active)
        BY <2>2 DEF HoldsFlag
      <3>3. Free.next <= Turn /\ Free.pc # "close"
        BY <1>2, <1>3
      <3> QED
        BY <1>2, <3>1, <3>2, <3>3, TaskAttends DEF host
    <2> QED
      BY <2>1, <2>2
  <1> QED
    BY <1>4, <1>5, <1>6, <1>7, <1>8, <1>9 DEF Attempt

LEMMA AfterAttemptAttends ==
  ASSUME AttendInv, PluginInv', NEW t \in Tasks, AfterAttempt(t)
  PROVE  AttendInv'
  <1>1. task[t] # Free
    BY DEF AfterAttempt, WaitToRetry, RetryNow, LeaveToPoll, PollTimesOut, PollAgain, ClosePoll, Free
  <1>2. /\ Turn # 0 /\ Turn \in Nat /\ task[t] \in TaskRecords
        /\ task[t].next <= Turn /\ task[t].next \in Nat
    BY <1>1, AtWork
  <1>3. /\ Free.next <= Turn /\ Free.pc = "free" /\ Free.pc # "close"
        /\ Free.poll = FALSE /\ Free.next = 0
    BY <1>2 DEF Free
  <1>4. states \in [States -> StateRecords] /\ active \in States \cup {NoState}
    BY Invariant DEF AttendInv
  <1>5. task[t] \in TaskRecords /\ task \in [Tasks -> TaskRecords]
    BY Invariant DEF AttendInv
  <1>6. CASE WaitToRetry(t)
    <2> DEFINE r == [Free EXCEPT !.pc = "wait", !.attempt = task[t].attempt + 1]
    <2>1. task' = [task EXCEPT ![t] = r] /\ task[t].poll = FALSE
      BY <1>5, <1>6 DEF WaitToRetry, TaskRecords
    <2>2. r.pc = "wait" /\ r.next = 0
      BY DEF Free
    <2> HIDE DEF r
    <2>3. r.next <= Turn
      BY <1>2, <2>2
    <2> QED
      BY <1>1, <1>6, <2>1, <2>2, <2>3, StillTrying DEF WaitToRetry, HoldsFlag
  <1>7. CASE RetryNow(t)
    <2>1. CASE disposed
      <3>1. active = NoState /\ task' = [task EXCEPT ![t] = Free]
        BY <1>7, <2>1, Invariant DEF AttendInv, RetryNow
      <3> QED
        BY <1>2, <1>3, <1>7, <2>1, <3>1, TaskAttends DEF RetryNow, host
    <2>2. CASE ~disposed
      <3> DEFINE r == [task[t] EXCEPT !.pc = "list"]
      <3>1. task' = [task EXCEPT ![t] = r]
        BY <1>7, <2>2 DEF RetryNow
      <3>2. r.pc = "list" /\ r.next = task[t].next
        BY <1>2 DEF TaskRecords
      <3>3. \A s : ~HoldsFlag(task[t], s)
        BY <1>7 DEF RetryNow, HoldsFlag, Looks
      <3> HIDE DEF r
      <3> QED
        BY <1>1, <1>2, <1>7, <3>1, <3>2, <3>3, StillTrying DEF RetryNow
    <2> QED
      BY <2>1, <2>2
  <1>8. CASE LeaveToPoll(t)
    <2>1. /\ task' = [task EXCEPT ![t] = Free] /\ ScheduleAssistantPoll(states)
          /\ UNCHANGED <<host, posted, disposed, gaveUp>>
      BY <1>8 DEF LeaveToPoll
    <2>2. task' \in [Tasks -> TaskRecords]
      BY <1>5, <2>1, FreshRecords
    <2>3. /\ active' # NoState /\ states'[active'].polling => active' = active /\ states[active].polling
          /\ disposed \/ /\ active' # NoState
                         /\ states'[active'].timer \/ (active' = active /\ states[active].polling)
      BY <1>4, <2>1, <2>2, SchedulingAttends
    <2>4. ~HoldsFlag(task[t], active)
      BY <1>8 DEF LeaveToPoll, HoldsFlag
    <2>5. ASSUME active # NoState, states[active].polling
          PROVE  \E u \in Tasks : u # t /\ task[u] # Free
      <3>1. PICK u \in Tasks : HoldsFlag(task[u], active)
        BY <2>5 DEF AttendInv, FlagIsHeld
      <3>2. u # t /\ task[u] # Free
        BY <2>4, <3>1 DEF HoldsFlag, Free, Looks
      <3> QED
        BY <3>2
    <2>6. ~disposed =>
            \/ active' # NoState /\ states'[active'].timer
            \/ \E u \in Tasks : u # t /\ task[u] # Free
      BY <2>3, <2>5
    <2> QED
      BY <1>2, <1>3, <2>1, <2>3, <2>4, <2>6, TaskAttends DEF host
  <1>9. CASE PollTimesOut(t)
    <2> DEFINE r == [task[t] EXCEPT !.pc = "close", !.state = NoState]
    <2>1. /\ task' = [task EXCEPT ![t] = r] /\ active' = NoState /\ gaveUp'
          /\ UNCHANGED <<host, disposed, posted>>
      BY <1>9 DEF PollTimesOut, ClearActiveSession
    <2>2. r.next = task[t].next
      BY <1>2 DEF TaskRecords
    <2> HIDE DEF r
    <2> QED
      BY <1>1, <1>2, <2>1, <2>2, ClearingAttends
  <1>10. CASE PollAgain(t)
    <2> DEFINE before == [states EXCEPT ![task[t].state].attempts =
                                          CountAttempt(states[task[t].state].attempts)]
               now == NotPolling(before)
    <2>1. /\ task' = [task EXCEPT ![t] = Free] /\ ScheduleAssistantPoll(now)
          /\ UNCHANGED <<host, posted, disposed, gaveUp>>
      BY <1>10 DEF PollAgain
    <2>2. task' \in [Tasks -> TaskRecords]
      BY <1>5, <2>1, FreshRecords
    <2>3. before \in [States -> StateRecords]
      BY <1>4, <1>10, CountedTyped DEF PollAgain
    <2>4. now \in [States -> StateRecords]
      BY <2>3, NotPollingTyped
    <2>5. active # NoState => now[active].polling = FALSE
      BY <1>4, <2>3, NotPollingClears
    <2> HIDE DEF now, before
    <2>6. /\ active' # NoState /\ states'[active'].polling => active' = active /\ now[active].polling
          /\ disposed \/ /\ active' # NoState
                         /\ states'[active'].timer \/ (active' = active /\ now[active].polling)
      BY <1>4, <2>1, <2>2, <2>4, SchedulingAttends
    <2>7. /\ ~(active' # NoState /\ states'[active'].polling)
          /\ disposed \/ (active' # NoState /\ states'[active'].timer)
      BY <2>5, <2>6
    <2> QED
      BY <1>2, <1>3, <2>1, <2>7, TaskAttends DEF host
  <1>11. CASE ClosePoll(t)
    <2>1. /\ task' = [task EXCEPT ![t] = Free] /\ states' = Reachable(NotPolling(states), active)
          /\ UNCHANGED <<host, posted, active, disposed, gaveUp>>
      BY <1>11 DEF ClosePoll
    <2>2. active # NoState => states'[active] = NotPolling(states)[active]
      BY <1>4, <2>1 DEF Reachable
    <2>3. ~(active' # NoState /\ states'[active'].polling)
      BY <1>4, <2>1, <2>2, NotPollingClears
    <2>4. Turn = 1 => gaveUp'
      BY <1>11, <2>1 DEF AttendInv, ClosedGaveUp, ClosePoll
    <2> QED
      BY <1>2, <1>3, <2>1, <2>3, <2>4, TaskAttends DEF host
  <1> QED
    BY <1>6, <1>7, <1>8, <1>9, <1>10, <1>11 DEF AfterAttempt

LEMMA TimerAttends ==
  ASSUME AttendInv, PluginInv', NEW t \in Tasks, TimerFires(t)
  PROVE  AttendInv'
  <1>1. /\ task \in [Tasks -> TaskRecords] /\ states \in [States -> StateRecords]
        /\ active \in States /\ active # NoState /\ Turn \in Nat
    BY Invariant, TurnTyped, BoundsNat DEF AttendInv, PluginInv, TimerFires
  <1>2. Turn # 0
    BY <1>1 DEF AttendInv, QuietBefore
  <1>3. UNCHANGED <<host, posted, active, disposed, gaveUp>> /\ task[t] = Free
    BY DEF TimerFires
  <1>4. ~HoldsFlag(task[t], active)
    BY <1>3 DEF HoldsFlag, Looks, Free
  <1>5. CASE states[active].polling
    <2>1. task' = [task EXCEPT ![t] = Free]
      BY <1>1, <1>3, <1>5 DEF TimerFires
    <2>2. PICK u \in Tasks : HoldsFlag(task[u], active)
      BY <1>1, <1>5 DEF AttendInv, FlagIsHeld
    <2>3. u # t /\ task[u] # Free
      BY <1>4, <2>2 DEF HoldsFlag, Free, Looks
    <2>4. Free.next <= Turn /\ Free.pc # "close"
      BY <1>1 DEF Free
    <2> QED
      BY <1>2, <1>3, <1>4, <1>5, <2>1, <2>3, <2>4, TaskAttends DEF host
  <1>6. CASE ~states[active].polling
    <2> DEFINE r == [Free EXCEPT !.pc = "list", !.poll = TRUE, !.state = active]
    <2>1. task' = [task EXCEPT ![t] = r]
      BY <1>6 DEF TimerFires
    <2>2. r.pc = "list" /\ r.next = 0 /\ r.poll /\ r.state = active
      BY DEF Free
    <2>3. r # Free
      BY <2>2 DEF Free
    <2> HIDE DEF r
    <2>4. r.next <= Turn /\ r.pc # "close" /\ HoldsFlag(r, active')
      BY <1>1, <1>3, <2>2 DEF HoldsFlag, Looks
    <2> QED
      BY <1>2, <1>3, <2>1, <2>3, <2>4, TaskAttends DEF host
  <1> QED
    BY <1>5, <1>6

LEMMA HostAttends ==
  ASSUME AttendInv, PluginInv',
         \/ Prompt \/ PromptAgain \/ Dispose \/ Restart
         \/ \E k \in Turns : CompleteReply(k)
         \/ \E t \in Tasks : SessionIdle(t)
  PROVE  AttendInv'
  <1>1. /\ replies \in Seq({"running", "completed"}) /\ Turn \in Nat /\ Turn' \in Nat
        /\ task \in [Tasks -> TaskRecords]
        /\ \A t \in Tasks : task[t].next \in Nat
    <2>1. replies \in Seq({"running", "completed"}) /\ task \in [Tasks -> TaskRecords]
      BY Invariant, TurnTyped DEF AttendInv, PluginInv
    <2>2. replies' \in Seq({"running", "completed"})
      BY BoundsNat, BoundedSeqIsSeq DEF PluginInv, TypeOK
    <2> QED
      BY <2>1, <2>2, BoundsNat DEF Turn, TaskRecords
  <1>2. Free.next = 0 /\ Free.pc = "free"
    BY DEF Free
  <1>3. CASE Prompt
    <2>1. UNCHANGED <<states, active, task, disposed>> /\ idle' = FALSE
      BY <1>3 DEF Prompt, ChatMessage
    <2>2. Turn' = Turn + 1
      BY <1>1, <1>3 DEF Prompt, Turn
    <2>3. NextInTurn' /\ FlagIsHeld'
      BY <1>1, <2>1, <2>2 DEF AttendInv, NextInTurn, FlagIsHeld
    <2>4. ClosedGaveUp'
      BY <1>1, <1>2, <2>1, <2>2 DEF AttendInv, QuietBefore, ClosedGaveUp
    <2>5. QuietBefore' /\ FirstReplyAttended'
      BY <1>1, <2>1, <2>2 DEF QuietBefore, FirstReplyAttended
    <2> QED
      BY <2>3, <2>4, <2>5 DEF AttendInv
  <1>4. CASE PromptAgain \/ \E k \in Turns : CompleteReply(k)
    <2>1. UNCHANGED <<idle, states, active, task, disposed, gaveUp>>
      BY <1>4 DEF PromptAgain, CompleteReply, ChatMessage
    <2>2. posted \subseteq posted'
      BY <1>4 DEF PromptAgain, CompleteReply, ChatMessage, HookSucceeds, HookFails
    <2>3. Turn' = Turn
      BY <1>1, <1>4 DEF PromptAgain, CompleteReply, Turn
    <2> QED
      BY <2>1, <2>2, <2>3
      DEF AttendInv, NextInTurn, FlagIsHeld, ClosedGaveUp, QuietBefore, FirstReplyAttended, Attended
  <1>5. ASSUME NEW t \in Tasks, SessionIdle(t)
        PROVE  AttendInv'
    <2> DEFINE r == IF disposed THEN Free ELSE [Free EXCEPT !.pc = "list"]
    <2>1. /\ UNCHANGED <<replies, posted, states, active, disposed, gaveUp>>
          /\ task[t] = Free /\ Turn # 0
      BY <1>1, <1>5 DEF SessionIdle
    <2>2. task' = [task EXCEPT ![t] = r]
      BY <1>1, <1>5 DEF SessionIdle
    <2>3. r.next = 0 /\ r.pc # "close" /\ (disposed \/ r # Free)
      BY DEF Free
    <2>4. ~HoldsFlag(task[t], active)
      BY <2>1 DEF HoldsFlag, Looks, Free
    <2> HIDE DEF r
    <2>5. r.next <= Turn
      BY <1>1, <2>3
    <2> QED
      BY <2>1, <2>2, <2>3, <2>4, <2>5, TaskAttends
  <1>6. CASE Dispose
    <2>1. UNCHANGED <<host, posted, task, gaveUp>> /\ active' = NoState /\ disposed'
      BY <1>6 DEF Dispose, ClearActiveSession
    <2>2. Turn' = Turn
      BY <2>1 DEF host, Turn
    <2> QED
      BY <2>1, <2>2
      DEF AttendInv, NextInTurn, FlagIsHeld, ClosedGaveUp, QuietBefore, FirstReplyAttended
  <1>7. CASE Restart
    <2>1. /\ UNCHANGED host /\ active' = NoState /\ gaveUp'
          /\ \A t \in Tasks : task'[t] = Free
      BY <1>7 DEF Restart
    <2> QED
      BY <1>1, <1>2, <2>1
      DEF AttendInv, NextInTurn, FlagIsHeld, ClosedGaveUp, QuietBefore, FirstReplyAttended
  <1> QED
    BY <1>3, <1>4, <1>5, <1>6, <1>7

LEMMA NextAttendInv == AttendInv /\ [Next]_vars => AttendInv'
  <1> SUFFICES ASSUME AttendInv, [Next]_vars
               PROVE  AttendInv'
    OBVIOUS
  <1>1. PluginInv'
    BY NextPluginInv DEF AttendInv
  <1>2. CASE UNCHANGED vars
    BY <1>1, <1>2 DEF vars, AttendInv, NextInTurn, FlagIsHeld, ClosedGaveUp, QuietBefore,
                      FirstReplyAttended, Attended, Turn
  <1>3. CASE \/ Prompt \/ PromptAgain \/ Dispose \/ Restart
             \/ \E k \in Turns : CompleteReply(k)
             \/ \E t \in Tasks : SessionIdle(t)
    BY <1>1, <1>3, HostAttends
  <1>4. ASSUME NEW t \in Tasks, Attempt(t) \/ AfterAttempt(t) \/ TimerFires(t)
        PROVE  AttendInv'
    BY <1>1, <1>4, AttemptAttends, AfterAttemptAttends, TimerAttends
  <1> QED
    BY <1>2, <1>3, <1>4 DEF Next

\* In the first turn no reply is forgotten, for any number of tasks that run at once
\* and any bounds on attempts, polls and failures: until it is delivered, or a task
\* has given up, one is trying or a poll is due.
THEOREM FirstReplyAttendedHolds == Spec => []FirstReplyAttended
  <1>1. AttendInv => FirstReplyAttended
    BY DEF AttendInv
  <1> QED
    BY <1>1, InitAttendInv, NextAttendInv, PTL DEF Spec
=============================================================================
