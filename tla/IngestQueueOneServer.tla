------------------------ MODULE IngestQueueOneServer -----------------------
(***************************************************************************)
(* What holds when one server has the namespace to itself, for all other   *)
(* constants: no turn is handed to the memory actor more often than the    *)
(* cap allows, no turn is left processing, and, unless a client goes away  *)
(* or a conversation mixes turns with and without ids, the dispatcher      *)
(* sleeps on no work.                                                      *)
(*                                                                         *)
(* With two servers the first two do not hold: a recovery of one takes     *)
(* turns from the dispatcher of the other.  Alone, a dispatcher that holds *)
(* a turn is the only one that changes its row (HeldRow), so every call of *)
(* the actor is paid for by attempt_count when the turn goes back into the *)
(* queue, by a verdict or by a recovery (RowBudget).                       *)
(***************************************************************************)
EXTENDS IngestQueueProofs

\* A turn that waits has paid for all its calls; one that is being processed may
\* owe the last one.
RowBudget(row) ==
  /\ row.calls <= MaxAttempts
  /\ row.status \in {"open", "finalized"} => row.calls <= row.attempts
  /\ row.status = "processing" => row.calls <= row.attempts + 1

RowsInBudget == \A c \in Conversations : \A i \in 1..Len(turns[c]) : RowBudget(turns[c][i])

\* The row of the job is as the dispatcher read it, and nobody else's.
HeldRow(s) ==
  pc[s] \in Holding =>
    LET row == turns[job[s].conversation][job[s].index]
    IN  /\ row.status = "processing"
        /\ pc[s] = "window" => row.calls <= row.attempts
        /\ pc[s] \in {"window", "store"} => job[s].attempts = row.attempts
        /\ pc[s] = "settle" /\ job[s].verdict = "retry" => job[s].attempts > row.attempts

\* A processing row is the one the dispatcher holds, unless a recovery is to come.
NoneStranded(s) ==
  "recovery" \notin FaultKinds /\ pc[s] \notin {"down", "fault"} =>
    \A c \in Conversations : \A i \in 1..Len(turns[c]) : turns[c][i].status = "processing" =>
      pc[s] \in Holding /\ job[s].conversation = c /\ job[s].index = i

OneServerInv(s) == RowsInBudget /\ HeldRow(s) /\ NoneStranded(s)

-----------------------------------------------------------------------------
(* Rows.                                                                   *)

\* Every row is as it was, or is one that staging has opened, extended,
\* finalized or aborted.
OnlyOpenRowsChange ==
  /\ TurnsOK'
  /\ \A c \in Conversations :
       /\ Len(turns[c]) <= Len(turns'[c])
       /\ \A k \in 1..Len(turns'[c]) :
            \/ k <= Len(turns[c]) /\ turns'[c][k] = turns[c][k]
            \/ /\ turns'[c][k].status # "processing" /\ RowBudget(turns'[c][k])
               /\ k <= Len(turns[c]) => turns[c][k].status = "open"

LEMMA NewRowBudget ==
  ASSUME NEW e \in Envelopes, NEW x
  PROVE  /\ WithFragment(NewTurn(x), e).status # "processing"
         /\ RowBudget(WithFragment(NewTurn(x), e))
<1> DEFINE row == WithFragment(NewTurn(x), e)
<1>1. row.status \in {"open", "finalized"} /\ row.calls = 0 /\ row.attempts = 0
  BY DEF WithFragment, NewTurn
<1> HIDE DEF row
<1>2. row.status # "processing" /\ RowBudget(row)
  BY <1>1, MaxAttemptsPositive DEF RowBudget
<1> QED
  BY <1>2 DEF row

LEMMA StageChangesOpenRows ==
  ASSUME TurnsOK, RowsInBudget, NEW e \in Envelopes, Stage(e)
  PROVE  OnlyOpenRowsChange
<1>1. PICK c \in Conversations : c = e.conversation
  BY DEF Conversations
<1>2. \A d \in Conversations :
        DOMAIN turns[d] = 1..Len(turns[d]) /\ Len(turns[d]) \in Nat
          /\ \A k \in 1..Len(turns[d]) : turns[d][k] \in Turn
  BY Domains
<1>3. CASE \E i \in DOMAIN turns[c] : Status(c, i) = "open" /\ JoinTurn(e, i)
  <2>1. PICK i \in DOMAIN turns[c] : turns[c][i].status = "open" /\ JoinTurn(e, i)
    BY <1>3 DEF Status
  <2> DEFINE row == WithFragment(turns[c][i], e)
  <2>2. /\ TurnsOK'
        /\ \A d \in Conversations : Len(turns'[d]) = Len(turns[d])
        /\ turns'[c][i] = row
        /\ \A d \in Conversations : \A k \in 1..Len(turns[d]) :
             <<d, k>> # <<c, i>> => turns'[d][k] = turns[d][k]
    BY <1>1, <2>1, RowsAfterJoin
  <2>3. turns[c][i] \in Turn /\ RowBudget(turns[c][i])
    BY <1>2, <2>1 DEF RowsInBudget
  <2>4. /\ row.status \in {"open", "finalized"}
        /\ row.calls = turns[c][i].calls /\ row.attempts = turns[c][i].attempts
    BY <2>1, <2>3 DEF WithFragment, Turn
  <2> HIDE DEF row
  <2>5. row.status # "processing" /\ RowBudget(row)
    BY <2>1, <2>3, <2>4 DEF RowBudget
  <2>6. ASSUME NEW d \in Conversations, NEW k \in 1..Len(turns'[d])
        PROVE  \/ k <= Len(turns[d]) /\ turns'[d][k] = turns[d][k]
               \/ /\ turns'[d][k].status # "processing" /\ RowBudget(turns'[d][k])
                  /\ turns[d][k].status = "open"
    <3>1. CASE <<d, k>> = <<c, i>>
      BY <2>1, <2>2, <2>5, <3>1
    <3>2. CASE <<d, k>> # <<c, i>>
      BY <1>2, <2>2, <3>2
    <3> QED
      BY <3>1, <3>2
  <2> QED
    BY <1>2, <2>2, <2>6 DEF OnlyOpenRowsChange
<1>4. CASE StartTurn(e)
  <2> DEFINE row == WithFragment(NewTurn(e.turn), e)
  <2>1. /\ TurnsOK'
        /\ Len(turns'[c]) = Len(turns[c]) + 1
        /\ \A k \in 1..Len(turns[c]) : turns'[c][k] = turns[c][k]
        /\ turns'[c][Len(turns[c]) + 1] = row
        /\ \A d \in Conversations : d # c => turns'[d] = turns[d]
    BY <1>1, <1>4, RowsAfterStart
  <2>2. row.status # "processing" /\ RowBudget(row)
    BY NewRowBudget
  <2> HIDE DEF row
  <2> QED
    BY <1>2, <2>1, <2>2 DEF OnlyOpenRowsChange
<1>5. CASE \E i \in OpenTurn(e) : AbortAndStartTurn(e, i)
  <2>1. PICK i \in DOMAIN turns[c] : turns[c][i].status = "open" /\ AbortAndStartTurn(e, i)
    BY <1>1, <1>5 DEF OpenTurn, Status
  <2> DEFINE row == WithFragment(NewTurn(NoTurn), e)
             closed == [turns[c][i] EXCEPT !.status = "aborted"]
  <2>2. /\ TurnsOK'
        /\ Len(turns'[c]) = Len(turns[c]) + 1
        /\ \A k \in 1..Len(turns[c]) : turns'[c][k] = IF k = i THEN closed ELSE turns[c][k]
        /\ turns'[c][Len(turns[c]) + 1] = row
        /\ \A d \in Conversations : d # c => turns'[d] = turns[d]
    BY <1>1, <2>1, RowsAfterAbort
  <2>3. row.status # "processing" /\ RowBudget(row)
    BY NewRowBudget
  <2>4. turns[c][i] \in Turn /\ RowBudget(turns[c][i])
    BY <1>2, <2>1 DEF RowsInBudget
  <2>5. closed.status = "aborted" /\ RowBudget(closed)
    BY <2>4 DEF Turn, RowBudget
  <2> HIDE DEF row, closed
  <2>6. ASSUME NEW k \in 1..Len(turns'[c])
        PROVE  \/ k <= Len(turns[c]) /\ turns'[c][k] = turns[c][k]
               \/ /\ turns'[c][k].status # "processing" /\ RowBudget(turns'[c][k])
                  /\ k <= Len(turns[c]) => turns[c][k].status = "open"
    <3>1. CASE k = i
      BY <1>2, <2>1, <2>2, <2>5, <3>1
    <3>2. CASE k # i
      BY <1>2, <2>2, <2>3, <3>2
    <3> QED
      BY <3>1, <3>2
  <2>7. ASSUME NEW d \in Conversations, d # c
        PROVE  turns'[d] = turns[d] /\ Len(turns[d]) \in Nat
    BY <1>2, <2>2, <2>7
  <2>8. \A d \in Conversations : \A k \in 1..Len(turns'[d]) :
          \/ k <= Len(turns[d]) /\ turns'[d][k] = turns[d][k]
          \/ /\ turns'[d][k].status # "processing" /\ RowBudget(turns'[d][k])
             /\ k <= Len(turns[d]) => turns[d][k].status = "open"
    <3> SUFFICES ASSUME NEW d \in Conversations, NEW k \in 1..Len(turns'[d])
                 PROVE  \/ k <= Len(turns[d]) /\ turns'[d][k] = turns[d][k]
                        \/ /\ turns'[d][k].status # "processing" /\ RowBudget(turns'[d][k])
                           /\ k <= Len(turns[d]) => turns[d][k].status = "open"
      OBVIOUS
    <3>1. CASE d = c
      BY <2>6, <3>1
    <3>2. CASE d # c
      <4>1. turns'[d] = turns[d] /\ k \in 1..Len(turns[d]) /\ Len(turns[d]) \in Nat
        BY <2>7, <3>2
      <4> QED
        BY <4>1
    <3> QED
      BY <3>1, <3>2
  <2>9. \A d \in Conversations : Len(turns[d]) <= Len(turns'[d])
    BY <1>2, <2>2, <2>7
  <2> QED
    BY <2>2, <2>8, <2>9 DEF OnlyOpenRowsChange
<1> QED
  BY <1>1, <1>3, <1>4, <1>5, StageCases

LEMMA OpenRowsKeepBudget ==
  ASSUME TurnsOK, RowsInBudget, OnlyOpenRowsChange
  PROVE  RowsInBudget'
<1> SUFFICES ASSUME NEW c \in Conversations, NEW k \in 1..Len(turns'[c])
             PROVE  RowBudget(turns'[c][k])
  BY DEF RowsInBudget
<1>1. Len(turns[c]) \in Nat
  BY Domains
<1> QED
  BY <1>1 DEF OnlyOpenRowsChange, RowsInBudget

LEMMA OneRowBudget ==
  ASSUME TurnsOK, RowsInBudget, NEW c \in Conversations, NEW i \in DOMAIN turns[c],
         NEW row \in Turn, SetRow(c, i, row), RowBudget(row)
  PROVE  /\ RowsInBudget'
         /\ turns'[c][i] = row
         /\ \A d \in Conversations : Len(turns'[d]) = Len(turns[d])
         /\ \A d \in Conversations : \A k \in 1..Len(turns[d]) :
              <<d, k>> # <<c, i>> => turns'[d][k] = turns[d][k]
<1>1. /\ TurnsOK'
      /\ \A d \in Conversations : Len(turns'[d]) = Len(turns[d])
      /\ turns'[c][i] = row
      /\ \A d \in Conversations : \A k \in 1..Len(turns[d]) :
           <<d, k>> # <<c, i>> => turns'[d][k] = turns[d][k]
  BY RowReplaced
<1>2. RowsInBudget'
  BY <1>1 DEF RowsInBudget
<1> QED
  BY <1>1, <1>2

LEMMA UnchangedBudget ==
  ASSUME RowsInBudget, UNCHANGED turns
  PROVE  RowsInBudget'
BY DEF RowsInBudget

-----------------------------------------------------------------------------
(* Steps.                                                                  *)

\* A hook's post: the row of the job is not open, so it stays as it is.
LEMMA IngestOneServer ==
  ASSUME QueueInv, NEW s \in Servers, OneServerInv(s), NEW e \in Envelopes, Ingest(s, e)
  PROVE  OneServerInv(s)'
<1>1. CASE IngestDuplicate(s, e)
  BY <1>1, UnchangedBudget DEF IngestDuplicate, OneServerInv, HeldRow, NoneStranded
<1>2. CASE IngestFragment(s, e) \/ IngestCancelled(s, e)
  <2>1. Stage(e) /\ UNCHANGED <<pc, job>>
    BY <1>2 DEF IngestFragment, IngestCancelled
  <2>2. TurnsOK /\ RowsInBudget /\ HeldRow(s) /\ NoneStranded(s)
    BY InvParts DEF OneServerInv
  <2>3. OnlyOpenRowsChange /\ RowsInBudget'
    BY <2>1, <2>2, StageChangesOpenRows, OpenRowsKeepBudget
  <2>4. HeldRow(s)'
    <3> SUFFICES ASSUME pc[s] \in Holding PROVE HeldRow(s)'
      BY <2>1 DEF HeldRow
    <3>1. PICK c, i : c = job[s].conversation /\ i = job[s].index
      OBVIOUS
    <3>2. c \in Conversations /\ i \in 1..Len(turns[c]) /\ turns[c][i].status = "processing"
      BY <2>2, <3>1, HeldJob DEF HeldRow
    <3>3. Len(turns[c]) \in Nat /\ Len(turns'[c]) \in Nat
      BY <2>2, <2>3, <3>2, LenProperties DEF TurnsOK, OnlyOpenRowsChange
    <3>4. i \in 1..Len(turns'[c])
      BY <2>3, <3>2, <3>3 DEF OnlyOpenRowsChange
    <3>5. turns'[c][i] = turns[c][i]
      BY <2>3, <3>2, <3>3, <3>4 DEF OnlyOpenRowsChange
    <3> QED
      BY <2>1, <2>2, <3>1, <3>5 DEF HeldRow
  <2>5. NoneStranded(s)'
    <3> SUFFICES ASSUME "recovery" \notin FaultKinds, pc[s] \notin {"down", "fault"},
                        NEW c \in Conversations, NEW i \in 1..Len(turns'[c]),
                        turns'[c][i].status = "processing"
                 PROVE  pc[s] \in Holding /\ job[s].conversation = c /\ job[s].index = i
      BY <2>1 DEF NoneStranded
    <3>1. Len(turns[c]) \in Nat
      BY <2>2, Domains
    <3>2. i \in 1..Len(turns[c]) /\ turns[c][i].status = "processing"
      BY <2>3, <3>1 DEF OnlyOpenRowsChange
    <3> QED
      BY <2>2, <3>2 DEF NoneStranded
  <2> QED
    BY <2>3, <2>4, <2>5 DEF OneServerInv
<1> QED
  BY <1>1, <1>2 DEF Ingest

\* Steps of the server that leave the rows alone.
LEMMA IdleOneServer ==
  ASSUME QueueInv, NEW s \in Servers, OneServerInv(s), UNCHANGED <<turns, job>>,
         pc' = pc \/ (pc[s] \in Phases \ (Holding \cup {"down", "fault"})
                        /\ \E to \in {"claim", "deadline", "wait"} : pc' = [pc EXCEPT ![s] = to])
  PROVE  OneServerInv(s)'
<1>1. RowsInBudget'
  BY UnchangedBudget DEF OneServerInv
<1>2. pc \in [Servers -> Phases]
  BY InvParts DEF TypeOK
<1> QED
  BY <1>1, <1>2 DEF OneServerInv, HeldRow, NoneStranded, Holding

LEMMA ClaimOneServer ==
  ASSUME QueueInv, NEW s \in Servers, OneServerInv(s), ClaimNextDueTurn(s)
  PROVE  OneServerInv(s)'
<1>1. TurnsOK /\ pc \in [Servers -> Phases] /\ job \in [Servers -> Job \cup {NoJob}]
  BY InvParts DEF TypeOK
<1>2. PICK c \in Conversations : \E i \in DOMAIN turns[c] :
        /\ Claimable(c, i)
        /\ SetRow(c, i, [turns[c][i] EXCEPT !.status = "processing"])
        /\ job' = [job EXCEPT ![s] =
             [conversation |-> c, index |-> i, attempts |-> turns[c][i].attempts,
              window |-> {}, verdict |-> "none"]]
  BY DEF ClaimNextDueTurn
<1>3. PICK i \in DOMAIN turns[c] :
        /\ Claimable(c, i)
        /\ SetRow(c, i, [turns[c][i] EXCEPT !.status = "processing"])
        /\ job' = [job EXCEPT ![s] =
             [conversation |-> c, index |-> i, attempts |-> turns[c][i].attempts,
              window |-> {}, verdict |-> "none"]]
  BY <1>2
<1> DEFINE row == [turns[c][i] EXCEPT !.status = "processing"]
<1>4. turns[c][i] \in Turn /\ i \in 1..Len(turns[c])
  BY <1>1, Domains
<1>5. turns[c][i].status = "finalized" /\ RowBudget(turns[c][i])
  BY <1>3, <1>4 DEF Claimable, Unblocked, Status, OneServerInv, RowsInBudget
<1>6. /\ row \in Turn /\ row.status = "processing" /\ row.calls = turns[c][i].calls
      /\ row.attempts = turns[c][i].attempts
  BY <1>4 DEF Turn, Statuses
<1>7. SetRow(c, i, row)
  BY <1>3
<1>8. pc[s] = "claim" /\ pc'[s] = "window" /\ job'[s].conversation = c /\ job'[s].index = i
        /\ job'[s].attempts = row.attempts
  BY <1>1, <1>3, <1>6 DEF ClaimNextDueTurn, Goto
<1> HIDE DEF row
<1>9. row.calls <= row.attempts /\ RowBudget(row)
  BY <1>4, <1>5, <1>6 DEF RowBudget, Turn
<1>10. /\ RowsInBudget'
       /\ turns'[c][i] = row
       /\ \A d \in Conversations : Len(turns'[d]) = Len(turns[d])
       /\ \A d \in Conversations : \A k \in 1..Len(turns[d]) :
            <<d, k>> # <<c, i>> => turns'[d][k] = turns[d][k]
  BY <1>1, <1>6, <1>7, <1>9, OneRowBudget DEF OneServerInv
<1>11. HeldRow(s)'
  BY <1>6, <1>8, <1>9, <1>10 DEF HeldRow, Holding
<1>12. NoneStranded(s)'
  BY <1>8, <1>10 DEF OneServerInv, NoneStranded, Holding
<1> QED
  BY <1>10, <1>11, <1>12 DEF OneServerInv

\* The steps that end in a verdict.
LEMMA VerdictOneServer ==
  ASSUME QueueInv, NEW s \in Servers, OneServerInv(s),
         \/ OutOfAttempts(s) \/ BuildWindowFails(s) \/ PersistRefused(s)
         \/ ActorRetryable(s) \/ ActorUnrecoverable(s)
  PROVE  OneServerInv(s)'
<1>1. /\ pc \in [Servers -> Phases] /\ job \in [Servers -> Job \cup {NoJob}]
      /\ RowsInBudget /\ HeldRow(s) /\ NoneStranded(s)
  BY InvParts DEF TypeOK, OneServerInv
<1>2. pc[s] \in {"window", "store"} /\ pc' = [pc EXCEPT ![s] = "settle"] /\ UNCHANGED turns
  BY DEF OutOfAttempts, BuildWindowFails, PersistRefused, ActorRetryable, ActorUnrecoverable, Goto
<1>3. \E verdict, attempts :
        /\ SetVerdict(s, verdict, attempts)
        /\ verdict = "retry" => attempts = job[s].attempts + 1
  <2>1. CASE ActorRetryable(s)
    BY <2>1 DEF ActorRetryable
  <2>2. CASE ~ActorRetryable(s)
    BY <2>2 DEF OutOfAttempts, BuildWindowFails, PersistRefused, ActorUnrecoverable
  <2> QED
    BY <2>1, <2>2
<1>4. job[s] \in Job /\ turns[job[s].conversation][job[s].index] \in Turn
  BY <1>2, HeldJob DEF Holding
<1>5. /\ pc'[s] = "settle"
      /\ job'[s].conversation = job[s].conversation /\ job'[s].index = job[s].index
      /\ job'[s].verdict = "retry" => job'[s].attempts = job[s].attempts + 1
  BY <1>1, <1>2, <1>3, <1>4 DEF SetVerdict, Job
<1>6. HeldRow(s)'
  BY <1>1, <1>2, <1>4, <1>5 DEF HeldRow, Holding, Turn
<1>7. NoneStranded(s)'
  BY <1>1, <1>2, <1>5 DEF NoneStranded, Holding
<1> QED
  BY <1>1, <1>2, <1>6, <1>7, UnchangedBudget DEF OneServerInv

LEMMA DispatchOneServer ==
  ASSUME QueueInv, NEW s \in Servers, OneServerInv(s), DispatchTurn(s)
  PROVE  OneServerInv(s)'
<1>1. /\ pc \in [Servers -> Phases] /\ job \in [Servers -> Job \cup {NoJob}]
      /\ TurnsOK /\ RowsInBudget /\ HeldRow(s) /\ NoneStranded(s)
  BY InvParts DEF TypeOK, OneServerInv
<1>2. PICK c, i : c = job[s].conversation /\ i = job[s].index
  OBVIOUS
<1>3. /\ c \in Conversations /\ i \in DOMAIN turns[c] /\ i \in 1..Len(turns[c])
      /\ turns[c][i] \in Turn /\ job[s] \in Job
  BY <1>2, HeldJob DEF DispatchTurn, Goto, Holding
<1> DEFINE old == turns[c][i]
           row == [old EXCEPT !.calls = IF old.calls > MaxAttempts THEN old.calls ELSE old.calls + 1]
<1>4. /\ pc[s] = "window" /\ pc' = [pc EXCEPT ![s] = "store"]
      /\ SetRow(c, i, row) /\ ~AtCap(job[s].attempts)
      /\ job' = [job EXCEPT ![s].window = LastTurns(StoredBefore(c, i))]
  BY <1>2 DEF DispatchTurn, Goto
<1>5. /\ old.status = "processing" /\ old.calls <= old.attempts
      /\ job[s].attempts = old.attempts /\ RowBudget(old)
  BY <1>1, <1>2, <1>3, <1>4 DEF HeldRow, Holding, RowsInBudget
<1>6. old.attempts < MaxAttempts /\ old.calls \in Nat /\ old.attempts \in Nat
  BY <1>3, <1>4, <1>5, MaxAttemptsPositive DEF AtCap, Turn
<1>7. /\ row \in Turn /\ row.status = "processing" /\ row.calls = old.calls + 1
      /\ row.attempts = old.attempts
  BY <1>3, <1>5, <1>6, MaxAttemptsPositive DEF Turn
<1>8. /\ pc'[s] = "store" /\ job'[s].conversation = c /\ job'[s].index = i
      /\ job'[s].attempts = job[s].attempts
  BY <1>1, <1>2, <1>3, <1>4 DEF Job
<1> HIDE DEF row
<1>9. RowBudget(row)
  BY <1>5, <1>6, <1>7, MaxAttemptsPositive DEF RowBudget
<1>10. /\ RowsInBudget'
       /\ turns'[c][i] = row
       /\ \A d \in Conversations : Len(turns'[d]) = Len(turns[d])
       /\ \A d \in Conversations : \A k \in 1..Len(turns[d]) :
            <<d, k>> # <<c, i>> => turns'[d][k] = turns[d][k]
  BY <1>1, <1>3, <1>4, <1>7, <1>9, OneRowBudget
<1>11. HeldRow(s)'
  BY <1>5, <1>7, <1>8, <1>10 DEF HeldRow
<1>12. NoneStranded(s)'
  BY <1>1, <1>2, <1>4, <1>8, <1>10 DEF NoneStranded, Holding
<1> QED
  BY <1>10, <1>11, <1>12 DEF OneServerInv

\* The held row leaves processing, and no other row is.
LEMMA ConcludeOneServer ==
  ASSUME QueueInv, NEW s \in Servers, OneServerInv(s), PersistTurn(s) \/ SettleTurn(s)
  PROVE  OneServerInv(s)'
<1>1. /\ pc \in [Servers -> Phases]
      /\ TurnsOK /\ RowsInBudget /\ HeldRow(s) /\ NoneStranded(s)
  BY InvParts DEF TypeOK, OneServerInv
<1>2. PICK c, i : c = job[s].conversation /\ i = job[s].index
  OBVIOUS
<1>3. pc[s] \in Holding \ {"window"} /\ pc'[s] = "claim"
  BY <1>1 DEF PersistTurn, SettleTurn, Goto, Holding
<1>4. /\ c \in Conversations /\ i \in DOMAIN turns[c] /\ i \in 1..Len(turns[c])
      /\ turns[c][i] \in Turn /\ job[s] \in Job
  BY <1>2, <1>3, HeldJob
<1>5. RowBudget(turns[c][i]) /\ turns[c][i].status = "processing"
  BY <1>1, <1>2, <1>3, <1>4 DEF RowsInBudget, HeldRow
<1>6. PICK row \in Turn : SetRow(c, i, row) /\ row.status # "processing" /\ RowBudget(row)
  <2>1. CASE PersistTurn(s)
    <3> DEFINE row == [turns[c][i] EXCEPT !.status = "stored", !.next = "none"]
    <3>1. SetRow(c, i, row)
      BY <1>2, <2>1 DEF PersistTurn
    <3>2. row \in Turn /\ row.status = "stored" /\ row.calls = turns[c][i].calls
      BY <1>4 DEF Turn, Statuses
    <3> HIDE DEF row
    <3>3. RowBudget(row)
      BY <1>5, <3>2 DEF RowBudget
    <3> QED
      BY <3>1, <3>2, <3>3
  <2>2. CASE SettleTurn(s)
    <3> DEFINE row == Verdict(turns[c][i], job[s])
    <3>1. SetRow(c, i, row) /\ pc[s] = "settle"
      BY <1>2, <2>2 DEF SettleTurn, Goto
    <3>2. /\ row \in Turn /\ row.status \in {"finalized", "exhausted", "failed"}
          /\ row.calls = turns[c][i].calls
          /\ row.status = "finalized" =>
               job[s].verdict = "retry" /\ row.attempts = job[s].attempts
      BY <1>4 DEF Verdict, Turn, Statuses, Job
    <3>3. job[s].verdict = "retry" => job[s].attempts > turns[c][i].attempts
      BY <1>1, <1>2, <3>1 DEF HeldRow, Holding
    <3>4. job[s].attempts \in Nat /\ turns[c][i].attempts \in Nat /\ turns[c][i].calls \in Nat
      BY <1>4, MaxAttemptsPositive DEF Job, Turn
    <3> HIDE DEF row
    <3>5. RowBudget(row)
      BY <1>5, <3>2, <3>3, <3>4 DEF RowBudget
    <3> QED
      BY <3>1, <3>2, <3>5
  <2> QED
    BY <2>1, <2>2
<1>7. /\ RowsInBudget'
      /\ turns'[c][i] = row
      /\ \A d \in Conversations : Len(turns'[d]) = Len(turns[d])
      /\ \A d \in Conversations : \A k \in 1..Len(turns[d]) :
           <<d, k>> # <<c, i>> => turns'[d][k] = turns[d][k]
  BY <1>1, <1>4, <1>6, OneRowBudget
<1>8. HeldRow(s)'
  BY <1>3 DEF HeldRow, Holding
<1>9. NoneStranded(s)'
  BY <1>1, <1>2, <1>3, <1>6, <1>7 DEF NoneStranded, Holding
<1> QED
  BY <1>7, <1>8, <1>9 DEF OneServerInv

\* The steps that lose the job: the dispatcher goes to recover, or down.
LEMMA LoseOneServer ==
  ASSUME QueueInv, NEW s \in Servers, OneServerInv(s), UNCHANGED turns,
         pc' = [pc EXCEPT ![s] = "fault"] \/ pc' = [pc EXCEPT ![s] = "down"]
  PROVE  OneServerInv(s)'
<1>1. pc'[s] \in {"fault", "down"}
  BY InvParts DEF TypeOK
<1> QED
  BY <1>1, UnchangedBudget DEF OneServerInv, HeldRow, NoneStranded, Holding

\* A recovery counts the interrupted attempts and leaves no row processing.
LEMMA RecoveryOneServer ==
  ASSUME QueueInv, NEW s \in Servers, OneServerInv(s), RecoverProcessingTurns,
         pc'[s] \notin Holding
  PROVE  OneServerInv(s)'
<1>1. TurnsOK /\ TurnsOK'
  BY InvParts, RecoverRows DEF RowsEvolve
<1>2. ASSUME NEW row \in Turn, RowBudget(row)
      PROVE  RowBudget(Recovered(row)) /\ Recovered(row).status # "processing"
  <2>1. row.attempts \in Nat /\ row.calls \in Nat
    BY MaxAttemptsPositive DEF Turn
  <2>2. CASE row.status = "processing"
    <3>1. /\ Recovered(row).status = "finalized" /\ Recovered(row).calls = row.calls
          /\ Recovered(row).attempts = Bump(row.attempts)
      BY <2>2 DEF Recovered, Turn
    <3>2. row.calls <= Bump(row.attempts)
      BY <1>2, <2>1, <2>2, MaxAttemptsPositive DEF Bump, RowBudget
    <3> QED
      BY <1>2, <3>1, <3>2 DEF RowBudget
  <2>3. CASE row.status # "processing"
    BY <1>2, <2>3 DEF Recovered
  <2> QED
    BY <2>2, <2>3
<1>3. ASSUME NEW c \in Conversations
      PROVE  \A i \in 1..Len(turns'[c]) :
               RowBudget(turns'[c][i]) /\ turns'[c][i].status # "processing"
  <2>1. turns'[c] = [i \in 1..Len(turns[c]) |-> Recovered(turns[c][i])]
    BY <1>1, Domains DEF RecoverProcessingTurns
  <2>2. DOMAIN turns'[c] = 1..Len(turns'[c])
    BY <1>1, LenProperties DEF TurnsOK
  <2>3. \A i \in 1..Len(turns[c]) : turns[c][i] \in Turn /\ RowBudget(turns[c][i])
    BY <1>1, Domains DEF OneServerInv, RowsInBudget
  <2> QED
    BY <1>2, <2>1, <2>2, <2>3
<1> QED
  BY <1>3 DEF OneServerInv, RowsInBudget, HeldRow, NoneStranded

LEMMA BackoffOneServer ==
  ASSUME QueueInv, NEW s \in Servers, OneServerInv(s),
         NEW c \in Conversations, NEW i \in DOMAIN turns[c], BackoffElapses(c, i)
  PROVE  OneServerInv(s)'
<1>1. TurnsOK /\ RowsInBudget /\ HeldRow(s) /\ NoneStranded(s) /\ UNCHANGED <<pc, job>>
  BY InvParts DEF OneServerInv, BackoffElapses
<1> DEFINE row == [turns[c][i] EXCEPT !.next = "due"]
<1>2. turns[c][i] \in Turn /\ i \in 1..Len(turns[c]) /\ turns[c][i].status = "finalized"
  BY <1>1, Domains DEF BackoffElapses, Status
<1>3. /\ row \in Turn /\ row.status = "finalized" /\ row.calls = turns[c][i].calls
      /\ row.attempts = turns[c][i].attempts
  BY <1>2 DEF Turn
<1>4. SetRow(c, i, row)
  BY DEF BackoffElapses
<1> HIDE DEF row
<1>5. RowBudget(row)
  BY <1>1, <1>2, <1>3 DEF RowBudget, RowsInBudget
<1>6. /\ RowsInBudget'
      /\ turns'[c][i] = row
      /\ \A d \in Conversations : Len(turns'[d]) = Len(turns[d])
      /\ \A d \in Conversations : \A k \in 1..Len(turns[d]) :
           <<d, k>> # <<c, i>> => turns'[d][k] = turns[d][k]
  BY <1>1, <1>3, <1>4, <1>5, OneRowBudget
<1>7. HeldRow(s)'
  <2> SUFFICES ASSUME pc[s] \in Holding PROVE HeldRow(s)'
    BY <1>1 DEF HeldRow
  <2>1. PICK d, k : d = job[s].conversation /\ k = job[s].index
    OBVIOUS
  <2>2. d \in Conversations /\ k \in 1..Len(turns[d]) /\ turns[d][k].status = "processing"
    BY <1>1, <2>1, HeldJob DEF HeldRow
  <2>3. turns'[d][k] = turns[d][k]
    BY <1>2, <1>6, <2>2
  <2> QED
    BY <1>1, <2>1, <2>3 DEF HeldRow
<1>8. NoneStranded(s)'
  BY <1>1, <1>3, <1>6 DEF NoneStranded
<1> QED
  BY <1>6, <1>7, <1>8 DEF OneServerInv

LEMMA NextOneServer ==
  ASSUME NEW s, Servers = {s}, QueueInv, OneServerInv(s), [Next]_vars
  PROVE  OneServerInv(s)'
<1>0. s \in Servers /\ pc \in [Servers -> Phases]
  BY InvParts DEF TypeOK
<1>1. ASSUME NEW e \in Envelopes, Ingest(s, e) PROVE OneServerInv(s)'
  BY <1>0, <1>1, IngestOneServer
<1>2. CASE Schedule(s)
  <2>1. CASE ClaimNextDueTurn(s)
    BY <1>0, <2>1, ClaimOneServer
  <2>2. CASE ClaimNothing(s) \/ NextDueDeadline(s) \/ WakeByNotify(s) \/ WakeByTimer(s)
    <3>1. /\ UNCHANGED <<turns, job>>
          /\ pc[s] \in Phases \ (Holding \cup {"down", "fault"})
          /\ \E to \in {"claim", "deadline", "wait"} : pc' = [pc EXCEPT ![s] = to]
      BY <2>2 DEF ClaimNothing, NextDueDeadline, WakeByNotify, WakeByTimer, Goto, Phases, Holding
    <3> QED
      BY <1>0, <3>1, IdleOneServer
  <2> QED
    BY <1>2, <2>1, <2>2 DEF Schedule
<1>3. CASE Process(s)
  <2>1. CASE SettleRefused(s)
    BY <1>0, <2>1, LoseOneServer DEF SettleRefused, Goto
  <2>2. CASE ~SettleRefused(s)
    BY <1>0, <1>3, <2>2, VerdictOneServer, DispatchOneServer, ConcludeOneServer DEF Process
  <2> QED
    BY <2>1, <2>2
<1>4. CASE DispatcherDatabaseError(s)
  BY <1>0, <1>4, LoseOneServer DEF DispatcherDatabaseError
<1>5. CASE Recover(s)
  <2>1. pc' = [pc EXCEPT ![s] = "wait"]
    BY <1>5 DEF Recover, RecoverAfterError, RecoveryFails, Goto
  <2>2. pc'[s] \notin Holding
    BY <1>0, <2>1 DEF Holding
  <2>3. CASE RecoverAfterError(s)
    BY <1>0, <2>2, <2>3, RecoveryOneServer DEF RecoverAfterError
  <2>4. CASE RecoveryFails(s)
    <3>1. "recovery" \in FaultKinds /\ UNCHANGED turns
      BY <2>4 DEF RecoveryFails
    <3> QED
      BY <2>2, <3>1, UnchangedBudget DEF OneServerInv, HeldRow, NoneStranded
  <2> QED
    BY <1>5, <2>3, <2>4 DEF Recover
<1>6. CASE Lifecycle(s)
  <2>1. CASE Boot(s)
    <3>1. pc'[s] \notin Holding /\ RecoverProcessingTurns
      BY <1>0, <2>1 DEF Boot, Goto, Holding
    <3> QED
      BY <1>0, <3>1, RecoveryOneServer
  <2>2. CASE Bind(s)
    BY <1>0, <2>2, IdleOneServer DEF Bind
  <2>3. CASE BindFails(s) \/ Crash(s)
    BY <1>0, <2>3, LoseOneServer DEF BindFails, Crash, Stop
  <2> QED
    BY <1>6, <2>1, <2>2, <2>3 DEF Lifecycle
<1>7. ASSUME NEW c \in Conversations, NEW i \in DOMAIN turns[c], BackoffElapses(c, i)
      PROVE  OneServerInv(s)'
  BY <1>0, <1>7, BackoffOneServer
<1>8. CASE UNCHANGED vars
  BY <1>0, <1>8, IdleOneServer DEF vars
<1> QED
  BY <1>1, <1>2, <1>3, <1>4, <1>5, <1>6, <1>7, <1>8 DEF Next

-----------------------------------------------------------------------------
(* Theorems.                                                               *)

\* The invariant of a server that is alone, in every reachable state.
LEMMA OneServerInvariance ==
  ASSUME NEW s, Servers = {s}
  PROVE  Spec => []OneServerInv(s)
<1>1. Init => OneServerInv(s)
  <2> SUFFICES ASSUME Init PROVE OneServerInv(s)
    OBVIOUS
  <2>1. RowsInBudget
    <3>1. \A c \in Conversations : turns[c] = <<>>
      BY DEF Init
    <3>2. \A c \in Conversations : Len(turns[c]) = 0
      BY <3>1, EmptySeq
    <3> QED
      BY <3>2 DEF RowsInBudget
  <2>2. pc[s] = "down"
    BY DEF Init
  <2> QED
    BY <2>1, <2>2 DEF OneServerInv, HeldRow, NoneStranded, Holding
<1>2. QueueInv /\ OneServerInv(s) /\ [Next]_vars => OneServerInv(s)'
  BY NextOneServer
<1> QED
  BY <1>1, <1>2, QueueInvariance, PTL DEF Spec

\* The retry cap, crashes and failures included, for a server that is alone: no
\* turn is handed to the memory actor more than max_processing_attempts times.
THEOREM RetryBudgetHolds ==
  ASSUME NEW s, Servers = {s}
  PROVE  Spec => []RetryBudget
<1>1. QueueInv /\ OneServerInv(s) => RetryBudget
  <2> SUFFICES ASSUME QueueInv, OneServerInv(s) PROVE RetryBudget
    OBVIOUS
  <2>1. TurnsOK
    BY InvParts
  <2> QED
    BY <2>1, Domains DEF OneServerInv, RowsInBudget, RowBudget, RetryBudget
<1> QED
  BY <1>1, OneServerInvariance, QueueInvariance, PTL

\* A server that is alone and whose recoveries do not fail leaves no turn
\* processing that nobody works on.
THEOREM NoStrandedTurnHolds ==
  ASSUME NEW s, Servers = {s}, "recovery" \notin FaultKinds
  PROVE  Spec => []NoStrandedTurn
<1>1. QueueInv /\ OneServerInv(s) => NoStrandedTurn
  <2> SUFFICES ASSUME QueueInv, OneServerInv(s), pc[s] # "down",
                      NEW c \in Conversations, NEW i \in DOMAIN turns[c],
                      Status(c, i) = "processing"
               PROVE  \/ pc[s] = "fault"
                      \/ pc[s] \in Holding /\ job[s].conversation = c /\ job[s].index = i
    BY DEF NoStrandedTurn
  <2>1. i \in 1..Len(turns[c])
    BY InvParts, Domains
  <2> QED
    BY <2>1 DEF OneServerInv, NoneStranded, Status
<1> QED
  BY <1>1, OneServerInvariance, QueueInvariance, PTL

-----------------------------------------------------------------------------
(* A dispatcher that waits.                                                *)

\* The fragments of a conversation all name their turn, or none does.
OneKindOfTurn ==
  \A e, f \in Envelopes : e.conversation = f.conversation /\ e.turn = NoTurn => f.turn = NoTurn

\* A turn without an id is in a conversation without ids, and the last one of it as
\* long as it is open.
OpenIsLast ==
  \A c \in Conversations : \A i \in 1..Len(turns[c]) : turns[c][i].ext = NoTurn =>
    /\ \A e \in Envelopes : e.conversation = c => e.turn = NoTurn
    /\ turns[c][i].status = "open" => i = Len(turns[c])

\* No turn has become ready.
NothingUnblocked ==
  \A c \in Conversations : \A i \in 1..Len(turns'[c]) :
    Unblocked(c, i)' => i \in 1..Len(turns[c]) /\ Unblocked(c, i)

\* Rows that keep their statuses, with rows behind them that are not finalized.
LEMMA SameStatuses ==
  ASSUME \A c \in Conversations :
           /\ Len(turns[c]) \in Nat /\ Len(turns'[c]) \in Nat /\ Len(turns[c]) <= Len(turns'[c])
           /\ \A k \in 1..Len(turns'[c]) :
                \/ k <= Len(turns[c]) /\ turns'[c][k].status = turns[c][k].status
                \/ k >= Len(turns[c]) /\ turns'[c][k].status # "finalized"
  PROVE  NothingUnblocked
<1> SUFFICES ASSUME NEW c \in Conversations, NEW i \in 1..Len(turns'[c]), Unblocked(c, i)'
             PROVE  i \in 1..Len(turns[c]) /\ Unblocked(c, i)
  BY DEF NothingUnblocked
<1>1. turns'[c][i].status = "finalized" /\ \A k \in 1..(i - 1) : turns'[c][k].status \notin Blocking
  BY DEF Unblocked, Status
<1>2. i <= Len(turns[c]) /\ turns'[c][i].status = turns[c][i].status
  BY <1>1
<1>3. \A k \in 1..(i - 1) : turns'[c][k].status = turns[c][k].status
  BY <1>2
<1> QED
  BY <1>1, <1>2, <1>3 DEF Unblocked, Status

\* A row is added behind rows of which only the last may have changed, and none is
\* an open turn without an id.
LEMMA LastRowAdded ==
  ASSUME OpenIsLast, OneKindOfTurn, NEW e \in Envelopes, NEW c \in Conversations, c = e.conversation,
         \A d \in Conversations : Len(turns[d]) \in Nat,
         Len(turns'[c]) = Len(turns[c]) + 1,
         \A d \in Conversations : d # c => turns'[d] = turns[d],
         turns'[c][Len(turns[c]) + 1].ext = e.turn,
         e.terminality # "hard" => turns'[c][Len(turns[c]) + 1].status # "finalized",
         \A k \in 1..Len(turns[c]) :
           /\ turns'[c][k].ext = turns[c][k].ext
           /\ ~(turns'[c][k].ext = NoTurn /\ turns'[c][k].status = "open")
           /\ \/ turns'[c][k].status = turns[c][k].status
              \/ k = Len(turns[c]) /\ turns'[c][k].status = "aborted"
  PROVE  OpenIsLast' /\ (e.terminality # "hard" => NothingUnblocked)
<1>1. OpenIsLast'
  <2> SUFFICES ASSUME NEW d \in Conversations, NEW i \in 1..Len(turns'[d]), turns'[d][i].ext = NoTurn
               PROVE  /\ \A f \in Envelopes : f.conversation = d => f.turn = NoTurn
                      /\ turns'[d][i].status = "open" => i = Len(turns'[d])
    BY DEF OpenIsLast
  <2>1. CASE d # c
    BY <2>1 DEF OpenIsLast
  <2>2. CASE d = c /\ i <= Len(turns[c])
    BY <2>2 DEF OpenIsLast
  <2>3. CASE d = c /\ i = Len(turns[c]) + 1
    BY <2>3 DEF OneKindOfTurn
  <2> QED
    BY <2>1, <2>2, <2>3
<1>2. ASSUME e.terminality # "hard"
      PROVE  NothingUnblocked
  <2>1. ASSUME NEW d \in Conversations
        PROVE  /\ Len(turns[d]) \in Nat /\ Len(turns'[d]) \in Nat /\ Len(turns[d]) <= Len(turns'[d])
               /\ \A k \in 1..Len(turns'[d]) :
                    \/ k <= Len(turns[d]) /\ turns'[d][k].status = turns[d][k].status
                    \/ k >= Len(turns[d]) /\ turns'[d][k].status # "finalized"
    <3>1. CASE d # c
      BY <3>1
    <3>2. CASE d = c
      BY <1>2, <3>2
    <3> QED
      BY <3>1, <3>2
  <2> QED
    BY <2>1, SameStatuses
<1> QED
  BY <1>1, <1>2

\* A post that does not finalize a turn makes none ready: the only turn that it can
\* abort is the last of its conversation.
LEMMA StageInOrder ==
  ASSUME TurnsOK, OpenIsLast, OneKindOfTurn, NEW e \in Envelopes, Stage(e)
  PROVE  OpenIsLast' /\ (e.terminality # "hard" => NothingUnblocked)
<1>1. PICK c \in Conversations : c = e.conversation
  BY DEF Conversations
<1>2. \A d \in Conversations :
        DOMAIN turns[d] = 1..Len(turns[d]) /\ Len(turns[d]) \in Nat
          /\ \A k \in 1..Len(turns[d]) : turns[d][k] \in Turn
  BY Domains
<1>3. CASE \E i \in DOMAIN turns[c] : Status(c, i) = "open" /\ JoinTurn(e, i)
  <2>1. PICK i \in DOMAIN turns[c] : turns[c][i].status = "open" /\ JoinTurn(e, i)
    BY <1>3 DEF Status
  <2>2. /\ \A d \in Conversations : Len(turns'[d]) = Len(turns[d])
        /\ turns'[c][i] = WithFragment(turns[c][i], e)
        /\ \A d \in Conversations : \A k \in 1..Len(turns[d]) :
             <<d, k>> # <<c, i>> => turns'[d][k] = turns[d][k]
    BY <1>1, <2>1, RowsAfterJoin
  <2>3. /\ turns'[c][i].ext = turns[c][i].ext
        /\ e.terminality # "hard" => turns'[c][i].status = turns[c][i].status
    BY <1>2, <2>1, <2>2 DEF WithFragment, Turn
  <2>4. ASSUME NEW d \in Conversations, NEW k \in 1..Len(turns[d])
        PROVE  /\ turns'[d][k].ext = turns[d][k].ext
               /\ turns'[d][k].status = "open" => turns[d][k].status = "open"
               /\ e.terminality # "hard" => turns'[d][k].status = turns[d][k].status
    <3>1. CASE <<d, k>> = <<c, i>>
      BY <2>1, <2>3, <3>1
    <3>2. CASE <<d, k>> # <<c, i>>
      BY <2>2, <3>2
    <3> QED
      BY <3>1, <3>2
  <2>5. OpenIsLast'
    BY <2>2, <2>4 DEF OpenIsLast
  <2>6. e.terminality # "hard" => NothingUnblocked
    BY <1>2, <2>2, <2>4, SameStatuses
  <2> QED
    BY <2>5, <2>6
<1>4. CASE StartTurn(e) /\ (e.turn = NoTurn => OpenTurn(e) = {})
  <2>1. /\ Len(turns'[c]) = Len(turns[c]) + 1
        /\ \A k \in 1..Len(turns[c]) : turns'[c][k] = turns[c][k]
        /\ turns'[c][Len(turns[c]) + 1] = WithFragment(NewTurn(e.turn), e)
        /\ \A d \in Conversations : d # c => turns'[d] = turns[d]
    BY <1>1, <1>4, RowsAfterStart
  <2>2. /\ turns'[c][Len(turns[c]) + 1].ext = e.turn
        /\ e.terminality # "hard" => turns'[c][Len(turns[c]) + 1].status # "finalized"
    BY <2>1 DEF WithFragment, NewTurn
  <2>3. \A k \in 1..Len(turns[c]) : ~(turns[c][k].ext = NoTurn /\ turns[c][k].status = "open")
    BY <1>1, <1>2, <1>4 DEF OpenIsLast, OpenTurn, Status
  <2> QED
    BY <1>1, <1>2, <2>1, <2>2, <2>3, LastRowAdded
<1>5. CASE e.turn = NoTurn /\ \E i \in OpenTurn(e) : AbortAndStartTurn(e, i)
  <2>1. PICK i \in DOMAIN turns[c] :
          turns[c][i].status = "open" /\ turns[c][i].ext = NoTurn /\ AbortAndStartTurn(e, i)
    BY <1>1, <1>5 DEF OpenTurn, Status
  <2>2. i = Len(turns[c])
    BY <1>2, <2>1 DEF OpenIsLast
  <2>3. /\ Len(turns'[c]) = Len(turns[c]) + 1
        /\ \A k \in 1..Len(turns[c]) :
             turns'[c][k] = IF k = i THEN [turns[c][i] EXCEPT !.status = "aborted"] ELSE turns[c][k]
        /\ turns'[c][Len(turns[c]) + 1] = WithFragment(NewTurn(NoTurn), e)
        /\ \A d \in Conversations : d # c => turns'[d] = turns[d]
    BY <1>1, <2>1, RowsAfterAbort
  <2>4. /\ turns'[c][Len(turns[c]) + 1].ext = e.turn
        /\ e.terminality # "hard" => turns'[c][Len(turns[c]) + 1].status # "finalized"
    BY <1>5, <2>3 DEF WithFragment, NewTurn
  <2>5. turns'[c][i].ext = NoTurn /\ turns'[c][i].status = "aborted"
    BY <1>2, <2>1, <2>3 DEF Turn
  <2>6. ASSUME NEW k \in 1..Len(turns[c])
        PROVE  /\ turns'[c][k].ext = turns[c][k].ext
               /\ ~(turns'[c][k].ext = NoTurn /\ turns'[c][k].status = "open")
               /\ \/ turns'[c][k].status = turns[c][k].status
                  \/ k = Len(turns[c]) /\ turns'[c][k].status = "aborted"
    <3>1. CASE k = i
      BY <2>1, <2>2, <2>5, <3>1
    <3>2. CASE k # i
      <4>1. turns'[c][k] = turns[c][k]
        BY <2>3, <3>2
      <4>2. ~(turns[c][k].ext = NoTurn /\ turns[c][k].status = "open")
        BY <2>2, <3>2 DEF OpenIsLast
      <4> QED
        BY <4>1, <4>2
    <3> QED
      BY <3>1, <3>2
  <2> QED
    BY <1>1, <1>2, <2>3, <2>4, <2>6, LastRowAdded
<1> QED
  BY <1>1, <1>3, <1>4, <1>5, StageCases

\* A dispatcher that waits without deadline and permit has nothing to do.
NoSleep(s) == pc[s] = "wait" /\ ~timer[s] /\ ~permit[s] =>
                \A c \in Conversations : \A i \in 1..Len(turns[c]) : ~Unblocked(c, i)

LEMMA BackoffUnblocksNothing ==
  ASSUME TurnsOK, NEW c \in Conversations, NEW i \in DOMAIN turns[c], BackoffElapses(c, i)
  PROVE  NothingUnblocked
<1> DEFINE row == [turns[c][i] EXCEPT !.next = "due"]
<1>1. turns[c][i] \in Turn /\ \A d \in Conversations : Len(turns[d]) \in Nat
  BY Domains
<1>2. row \in Turn /\ row.status = turns[c][i].status
  BY <1>1 DEF Turn
<1>3. SetRow(c, i, row)
  BY DEF BackoffElapses
<1> HIDE DEF row
<1>4. /\ \A d \in Conversations : Len(turns'[d]) = Len(turns[d])
      /\ turns'[c][i] = row
      /\ \A d \in Conversations : \A k \in 1..Len(turns[d]) :
           <<d, k>> # <<c, i>> => turns'[d][k] = turns[d][k]
  BY <1>2, <1>3, RowReplaced
<1>5. ASSUME NEW d \in Conversations, NEW k \in 1..Len(turns[d])
      PROVE  turns'[d][k].status = turns[d][k].status
  <2>1. CASE <<d, k>> = <<c, i>>
    BY <1>2, <1>4, <2>1
  <2>2. CASE <<d, k>> # <<c, i>>
    BY <1>4, <2>2
  <2> QED
    BY <2>1, <2>2
<1> QED
  BY <1>1, <1>4, <1>5, SameStatuses

\* What the wake-up of the dispatcher rests on, step by step: a post that finalizes
\* a turn leaves a permit, and no other step makes a turn ready while it waits.
LEMMA NextSleeps ==
  ASSUME NEW s, Servers = {s}, "disconnect" \notin FaultKinds, OneKindOfTurn
  PROVE  QueueInv /\ OpenIsLast /\ NoSleep(s) /\ [Next]_vars => OpenIsLast' /\ NoSleep(s)'
<1> SUFFICES ASSUME QueueInv, OpenIsLast, NoSleep(s), [Next]_vars
             PROVE  OpenIsLast' /\ NoSleep(s)'
  OBVIOUS
<1>1. TurnsOK /\ \A c \in Conversations : DOMAIN turns[c] = 1..Len(turns[c])
  BY InvParts, Domains
<1>2. OpenIsLast'
  <2>1. CASE GroupsKept
    BY <2>1 DEF GroupsKept, OpenIsLast
  <2> QED
    BY <1>1, <2>1, StagedOrKept, StageInOrder
<1>3. permit[s] \in BOOLEAN /\ s \in Servers
      /\ permit \in [Servers -> BOOLEAN] /\ timer \in [Servers -> BOOLEAN] /\ pc \in [Servers -> Phases]
  BY InvParts DEF QueueInv, TypeOK
<1>4. ASSUME pc'[s] = pc[s], timer'[s] = timer[s], permit'[s] = permit[s], NothingUnblocked
      PROVE  NoSleep(s)'
  BY <1>4 DEF NoSleep, NothingUnblocked
<1>5. ASSUME pc'[s] # "wait" \/ timer'[s] \/ permit'[s]
      PROVE  NoSleep(s)'
  BY <1>5 DEF NoSleep
<1>6. UNCHANGED turns => NothingUnblocked
  BY DEF NothingUnblocked, Unblocked, Status
<1>7. ASSUME NEW e \in Envelopes, Ingest(s, e) PROVE NoSleep(s)'
  <2>1. CASE IngestFragment(s, e) /\ e.terminality # "hard"
    <3>1. NothingUnblocked
      BY <1>1, <2>1, StageInOrder DEF IngestFragment
    <3> QED
      BY <1>4, <2>1, <3>1 DEF IngestFragment
  <2>2. CASE (IngestFragment(s, e) /\ e.terminality = "hard") \/ IngestDuplicate(s, e)
    <3>1. permit'[s] = TRUE
      BY <1>3, <2>2 DEF IngestFragment, IngestDuplicate, Notify
    <3> QED
      BY <1>5, <3>1
  <2> QED
    BY <1>7, <2>1, <2>2 DEF Ingest, IngestCancelled
<1>8. ASSUME Schedule(s) \/ Process(s) \/ DispatcherDatabaseError(s) \/ Recover(s)
      PROVE  NoSleep(s)'
  <2>1. CASE NextDueDeadline(s)
    <3>1. timer'[s] = \E r \in Rows : Unblocked(r[1], r[2])
      BY <1>3, <2>1 DEF NextDueDeadline
    <3>2. UNCHANGED turns
      BY <2>1 DEF NextDueDeadline
    <3>3. SUFFICES ASSUME ~timer'[s], NEW c \in Conversations, NEW i \in 1..Len(turns[c]), Unblocked(c, i)
                   PROVE  FALSE
      BY <3>2 DEF NoSleep, Unblocked, Status
    <3>4. <<c, i>> \in Rows
      BY <1>1 DEF Rows
    <3> QED
      BY <3>1, <3>3, <3>4
  <2>2. CASE Recover(s)
    <3>1. timer'[s] = TRUE
      BY <1>3, <2>2 DEF Recover, RecoverAfterError, RecoveryFails
    <3> QED
      BY <1>5, <3>1
  <2>3. CASE ~NextDueDeadline(s) /\ ~Recover(s)
    <3>1. pc'[s] # "wait"
      BY <1>3, <1>8, <2>3
      DEF Schedule, Process, DispatcherDatabaseError, Goto, ClaimNextDueTurn, ClaimNothing,
          WakeByNotify, WakeByTimer, OutOfAttempts, DispatchTurn, BuildWindowFails, PersistTurn,
          PersistRefused, ActorRetryable, ActorUnrecoverable, SettleTurn, SettleRefused
    <3> QED
      BY <1>5, <3>1
  <2> QED
    BY <2>1, <2>2, <2>3
<1>9. ASSUME Lifecycle(s) PROVE NoSleep(s)'
  <2>1. CASE Bind(s)
    BY <1>4, <1>6, <2>1 DEF Bind
  <2>2. CASE Boot(s) \/ BindFails(s) \/ Crash(s)
    <3>1. pc'[s] # "wait"
      BY <1>3, <2>2 DEF Boot, BindFails, Crash, Stop, Goto
    <3> QED
      BY <1>5, <3>1
  <2> QED
    BY <1>9, <2>1, <2>2 DEF Lifecycle
<1>10. ASSUME NEW c \in Conversations, NEW i \in DOMAIN turns[c], BackoffElapses(c, i)
       PROVE  NoSleep(s)'
  <2>1. UNCHANGED <<pc, timer, permit>> /\ NothingUnblocked
    BY <1>1, <1>10, BackoffUnblocksNothing DEF BackoffElapses
  <2> QED
    BY <1>4, <2>1
<1>11. CASE UNCHANGED vars
  BY <1>2, <1>4, <1>6, <1>11 DEF vars
<1> QED
  BY <1>2, <1>7, <1>8, <1>9, <1>10, <1>11 DEF Next

\* No lost wake-up, for a server that is alone: when its dispatcher waits without
\* deadline and permit, no turn is ready, now or after a delay.  Both conditions are
\* needed: a client that goes away takes the notification with it, and in a
\* conversation of both kinds a post that aborts a turn makes another one ready.
THEOREM NoSleepOnWorkHolds ==
  ASSUME NEW s, Servers = {s}, "disconnect" \notin FaultKinds, OneKindOfTurn
  PROVE  Spec => []NoSleepOnWork
<1>1. Init => OpenIsLast /\ NoSleep(s)
  <2> SUFFICES ASSUME Init PROVE OpenIsLast /\ NoSleep(s)
    OBVIOUS
  <2>1. \A c \in Conversations : \A i \in 1..Len(turns[c]) : FALSE
    <3> SUFFICES ASSUME NEW c \in Conversations, NEW i \in 1..Len(turns[c]) PROVE FALSE
      OBVIOUS
    <3>1. turns[c] = <<>>
      BY DEF Init
    <3>2. Len(turns[c]) = 0
      BY <3>1, EmptySeq
    <3> QED
      BY <3>2
  <2> QED
    BY <2>1 DEF OpenIsLast, NoSleep
<1>2. QueueInv /\ OpenIsLast /\ NoSleep(s) /\ [Next]_vars => OpenIsLast' /\ NoSleep(s)'
  BY NextSleeps
<1>3. QueueInv /\ NoSleep(s) => NoSleepOnWork
  <2> SUFFICES ASSUME QueueInv, NoSleep(s), pc[s] = "wait", ~timer[s], ~permit[s],
                      NEW c \in Conversations, NEW i \in DOMAIN turns[c]
               PROVE  ~Unblocked(c, i)
    BY DEF NoSleepOnWork, Rows
  <2>1. i \in 1..Len(turns[c])
    BY InvParts, Domains
  <2> QED
    BY <2>1 DEF NoSleep
<1> QED
  BY <1>1, <1>2, <1>3, QueueInvariance, PTL DEF Spec
=============================================================================
