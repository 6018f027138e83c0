------------------------- MODULE IngestQueueProofs -------------------------
(***************************************************************************)
(* Theorems about IngestQueue for all values of its constants: any number  *)
(* of servers, conversations and fragments, any retry cap and history      *)
(* window, and any number of failures.                                     *)
(*                                                                         *)
(* The argument has three layers, and the refinement rests on them.        *)
(*  - RowsEvolve says how the rows of ingest_turns may change in one step. *)
(*    Every action obeys it (the lemmas named ...Step).                    *)
(*  - From RowsEvolve alone: a turn that was begun stays begun, a settled  *)
(*    turn keeps its status, NoOvertaking is preserved, and the stored     *)
(*    predecessors of a begun turn never change (lemmas on histories).     *)
(*  - So what a dispatcher read when it claimed a turn is still true when  *)
(*    its note is committed, whoever interfered in between; with the guard *)
(*    of mark_ingest_turn_stored this gives the order, uniqueness and      *)
(*    history of the notes (QueueInv).                                     *)
(***************************************************************************)
EXTENDS IngestQueue, TLAPS, SequenceTheorems, FiniteSetTheorems

TurnsOK == turns \in [Conversations -> Seq(Turn)]

SetRows(c, rows) == turns' = [turns EXCEPT ![c] = rows]

\* How the status of a row that was there before the step may change.
Evolves(c, i) ==
  LET old == turns[c][i]  new == turns'[c][i]
  IN  \/ new.status = old.status /\ new.attempts = old.attempts
      \/ /\ old.status = "open" /\ new.status \in {"finalized", "aborted"}
         /\ new.attempts = old.attempts
      \/ /\ Unblocked(c, i) /\ new.status = "processing"
         /\ new.attempts = old.attempts
      \/ old.status = "processing" /\ new.status \in {"stored", "failed", "exhausted"}
      \/ old.status = "processing" /\ new.status = "finalized" /\ new.attempts > 0

\* A row that has reached its end is left alone.
Frozen(c, i) ==
  Status(c, i) \in {"stored", "aborted", "failed", "exhausted"}
    => Columns(turns'[c][i]) = Columns(turns[c][i])

\* All the rows: old ones evolve, new ones have not been begun.
RowsEvolve ==
  /\ TurnsOK'
  /\ \A c \in Conversations :
       /\ Len(turns[c]) <= Len(turns'[c])
       /\ \A i \in 1..Len(turns[c]) : Evolves(c, i) /\ Frozen(c, i)
       /\ \A i \in 1..Len(turns'[c]) : i > Len(turns[c]) =>
            turns'[c][i].status \in {"open", "finalized"} /\ turns'[c][i].attempts = 0

\* No row becomes stored in the step.
NothingStored ==
  \A c \in Conversations : \A i \in 1..Len(turns[c]) :
    turns'[c][i].status = "stored" => turns[c][i].status = "stored"

-----------------------------------------------------------------------------
(* Sequences of rows.                                                      *)

\* Replacing the row of one turn changes that row only.
LEMMA RowReplaced ==
  ASSUME TurnsOK, NEW c \in Conversations, NEW i \in DOMAIN turns[c], NEW row \in Turn,
         SetRow(c, i, row)
  PROVE  /\ TurnsOK'
         /\ \A d \in Conversations : Len(turns'[d]) = Len(turns[d])
         /\ turns'[c][i] = row
         /\ \A d \in Conversations : \A k \in 1..Len(turns[d]) :
              <<d, k>> # <<c, i>> => turns'[d][k] = turns[d][k]
<1>1. turns[c] \in Seq(Turn)
  BY DEF TurnsOK
<1>2. i \in 1..Len(turns[c])
  BY <1>1, LenProperties
<1>3. turns' = [turns EXCEPT ![c] = [turns[c] EXCEPT ![i] = row]]
  BY DEF SetRow
<1>4. /\ [turns[c] EXCEPT ![i] = row] \in Seq(Turn)
      /\ Len([turns[c] EXCEPT ![i] = row]) = Len(turns[c])
      /\ \A k \in 1..Len(turns[c]) :
           [turns[c] EXCEPT ![i] = row][k] = IF k = i THEN row ELSE turns[c][k]
  BY <1>1, <1>2, ExceptSeq
<1>5. \A d \in Conversations :
        turns'[d] = IF d = c THEN [turns[c] EXCEPT ![i] = row] ELSE turns[d]
  BY <1>3 DEF TurnsOK
<1>6. TurnsOK'
  BY <1>3, <1>4 DEF TurnsOK
<1> QED
  BY <1>2, <1>4, <1>5, <1>6

\* Appending a row to one conversation changes nothing else.
LEMMA RowAppended ==
  ASSUME TurnsOK, NEW c \in Conversations, NEW rows \in Seq(Turn), NEW row \in Turn,
         SetRows(c, Append(rows, row))
  PROVE  /\ TurnsOK'
         /\ Len(turns'[c]) = Len(rows) + 1
         /\ \A k \in 1..Len(rows) : turns'[c][k] = rows[k]
         /\ turns'[c][Len(rows) + 1] = row
         /\ \A d \in Conversations : d # c => turns'[d] = turns[d]
<1>1. /\ Append(rows, row) \in Seq(Turn)
      /\ Len(Append(rows, row)) = Len(rows) + 1
      /\ \A k \in 1..Len(rows) : Append(rows, row)[k] = rows[k]
      /\ Append(rows, row)[Len(rows) + 1] = row
  BY AppendProperties
<1>2. \A d \in Conversations : turns'[d] = IF d = c THEN Append(rows, row) ELSE turns[d]
  BY DEF TurnsOK, SetRows
<1>3. TurnsOK'
  BY <1>1 DEF TurnsOK, SetRows
<1> QED
  BY <1>1, <1>2, <1>3

\* A step that changes one row, and changes it as Evolves allows.
LEMMA OneRowEvolves ==
  ASSUME TurnsOK, NEW c \in Conversations, NEW i \in DOMAIN turns[c], NEW row \in Turn,
         SetRow(c, i, row),
         turns'[c][i] = row => Evolves(c, i) /\ Frozen(c, i)
  PROVE  /\ RowsEvolve
         /\ turns'[c][i] = row
         /\ (row.status = "stored" => turns[c][i].status = "stored") => NothingStored
<1>1. /\ TurnsOK'
      /\ \A d \in Conversations : Len(turns'[d]) = Len(turns[d])
      /\ turns'[c][i] = row
      /\ \A d \in Conversations : \A k \in 1..Len(turns[d]) :
           <<d, k>> # <<c, i>> => turns'[d][k] = turns[d][k]
  BY RowReplaced
<1>2. \A d \in Conversations : Len(turns[d]) \in Nat
  BY LenProperties DEF TurnsOK
<1>3. ASSUME NEW d \in Conversations, NEW k \in 1..Len(turns[d])
      PROVE  Evolves(d, k) /\ Frozen(d, k)
  <2>1. CASE <<d, k>> = <<c, i>>
    BY <1>1, <2>1
  <2>2. CASE <<d, k>> # <<c, i>>
    BY <1>1, <2>2 DEF Evolves, Frozen, Columns
  <2> QED
    BY <2>1, <2>2
<1>4. (row.status = "stored" => turns[c][i].status = "stored") => NothingStored
  BY <1>1 DEF NothingStored
<1> QED
  BY <1>1, <1>2, <1>3, <1>4 DEF RowsEvolve

LEMMA NoRowEvolves ==
  ASSUME TurnsOK, UNCHANGED turns
  PROVE  RowsEvolve /\ NothingStored
<1>1. TurnsOK'
  BY DEF TurnsOK
<1>2. \A c \in Conversations : Len(turns[c]) \in Nat
  BY LenProperties DEF TurnsOK
<1> QED
  BY <1>1, <1>2 DEF RowsEvolve, NothingStored, Evolves, Frozen, Columns

-----------------------------------------------------------------------------
(* Histories: consequences of RowsEvolve alone.                            *)

LEMMA SettledStays ==
  ASSUME RowsEvolve, NEW c \in Conversations, NEW i \in 1..Len(turns[c]), Settled(c, i)
  PROVE  turns'[c][i].status = turns[c][i].status
<1>1. Evolves(c, i)
  BY DEF RowsEvolve
<1> QED
  BY <1>1 DEF Evolves, Settled, Status, Unblocked

LEMMA BegunStays ==
  ASSUME TurnsOK, RowsEvolve, NEW c \in Conversations, NEW i \in 1..Len(turns[c]), Begun(c, i)
  PROVE  Begun(c, i)'
<1>1. Evolves(c, i)
  BY DEF RowsEvolve
<1>2. turns[c][i] \in Turn
  BY ElementOfSeq DEF TurnsOK
<1> QED
  BY <1>1, <1>2 DEF Evolves, Begun, Status, Unblocked, Turn, Statuses

LEMMA BegunBefore ==
  ASSUME TurnsOK, RowsEvolve, NEW c \in Conversations, NEW i \in 1..Len(turns'[c]), Begun(c, i)'
  PROVE  i \in 1..Len(turns[c]) /\ (Begun(c, i) \/ Unblocked(c, i))
<1>1. Len(turns[c]) \in Nat /\ Len(turns'[c]) \in Nat
  BY LenProperties DEF TurnsOK, RowsEvolve
<1>2. i <= Len(turns[c])
  BY <1>1 DEF RowsEvolve, Begun, Status
<1>3. Evolves(c, i)
  BY <1>1, <1>2 DEF RowsEvolve
<1>4. turns[c][i] \in Turn
  BY <1>1, <1>2, ElementOfSeq DEF TurnsOK
<1> QED
  BY <1>1, <1>2, <1>3, <1>4 DEF Evolves, Begun, Status, Turn, Statuses

\* The predecessors of an unblocked turn are settled.
LEMMA UnblockedPredecessors ==
  ASSUME TurnsOK, NEW c \in Conversations, NEW i \in 1..Len(turns[c]), Unblocked(c, i),
         NEW k \in 1..(i - 1)
  PROVE  Settled(c, k)
<1>1. turns[c] \in Seq(Turn) /\ Len(turns[c]) \in Nat
  BY LenProperties DEF TurnsOK
<1>2. k \in 1..Len(turns[c])
  BY <1>1
<1>3. turns[c][k] \in Turn
  BY <1>1, <1>2, ElementOfSeq
<1> QED
  BY <1>3 DEF Unblocked, Blocking, Settled, Status, Turn, Statuses

LEMMA NoOvertakingKept ==
  ASSUME TurnsOK, NoOvertaking, RowsEvolve
  PROVE  NoOvertaking'
<1> SUFFICES ASSUME NEW c \in Conversations, NEW i \in DOMAIN turns'[c], Begun(c, i)',
                    NEW k \in 1..(i - 1)
             PROVE  Settled(c, k)'
  BY DEF NoOvertaking
<1>1. /\ turns[c] \in Seq(Turn) /\ turns'[c] \in Seq(Turn)
      /\ DOMAIN turns[c] = 1..Len(turns[c]) /\ DOMAIN turns'[c] = 1..Len(turns'[c])
      /\ Len(turns[c]) \in Nat
  BY LenProperties DEF TurnsOK, RowsEvolve
<1>2. i \in 1..Len(turns[c]) /\ (Begun(c, i) \/ Unblocked(c, i))
  BY <1>1, BegunBefore
<1>3. Settled(c, k)
  BY <1>1, <1>2, UnblockedPredecessors DEF NoOvertaking
<1>4. turns'[c][k].status = turns[c][k].status
  BY <1>1, <1>2, <1>3, SettledStays
<1> QED
  BY <1>3, <1>4 DEF Settled, Status

\* What a begun turn has for a history never changes.
LEMMA HistoryKept ==
  ASSUME TurnsOK, NoOvertaking, RowsEvolve,
         NEW c \in Conversations, NEW i \in 1..Len(turns[c]), Begun(c, i)
  PROVE  StoredBefore(c, i)' = StoredBefore(c, i)
<1>1. DOMAIN turns[c] = 1..Len(turns[c]) /\ Len(turns[c]) \in Nat
  BY LenProperties DEF TurnsOK
<1>2. ASSUME NEW k \in 1..(i - 1)
      PROVE  Status(c, k)' = Status(c, k)
  <2>1. Settled(c, k)
    BY <1>1 DEF NoOvertaking
  <2>2. turns'[c][k].status = turns[c][k].status
    BY <1>1, <2>1, SettledStays
  <2> QED
    BY <2>2 DEF Status
<1> QED
  BY <1>2 DEF StoredBefore

-----------------------------------------------------------------------------
(* The rows in each action.                                                *)

LEMMA NewTurnTyped ==
  ASSUME NEW x \in ExternalIds
  PROVE  NewTurn(x) \in Turn /\ NewTurn(x).status = "open" /\ NewTurn(x).attempts = 0
BY MaxAttemptsPositive DEF NewTurn, Turn, Statuses

LEMMA WithFragmentTyped ==
  ASSUME NEW row \in Turn, NEW e \in Envelopes
  PROVE  /\ WithFragment(row, e) \in Turn
         /\ WithFragment(row, e).attempts = row.attempts
         /\ WithFragment(row, e).status \in {row.status, "finalized"}
<1>1. e.fragment \in Fragments
  BY DEF Fragments
<1> QED
  BY <1>1 DEF WithFragment, Turn, Statuses

LEMMA JoinTurnRows ==
  ASSUME TurnsOK, NEW e \in Envelopes, NEW i \in DOMAIN turns[e.conversation],
         Status(e.conversation, i) = "open", JoinTurn(e, i)
  PROVE  RowsEvolve /\ NothingStored
<1> DEFINE c == e.conversation
           row == WithFragment(turns[c][i], e)
<1>1. c \in Conversations
  BY DEF Conversations
<1>2. turns[c][i] \in Turn
  BY <1>1, ElementOfSeq, LenProperties DEF TurnsOK
<1>3. row \in Turn /\ row.attempts = turns[c][i].attempts /\ row.status \in {"open", "finalized"}
  BY <1>2, WithFragmentTyped DEF Status
<1>4. turns'[c][i] = row => Evolves(c, i) /\ Frozen(c, i)
  BY <1>3 DEF Evolves, Frozen, Columns, Status
<1>5. SetRow(c, i, row) /\ i \in DOMAIN turns[c]
  BY DEF JoinTurn
<1> HIDE DEF c, row
<1> QED
  BY <1>1, <1>3, <1>4, <1>5, OneRowEvolves

LEMMA StartTurnRows ==
  ASSUME TurnsOK, NEW e \in Envelopes, StartTurn(e)
  PROVE  RowsEvolve /\ NothingStored
<1> DEFINE c == e.conversation
           rows == turns[c]
           row == WithFragment(NewTurn(e.turn), e)
<1>1. c \in Conversations /\ e.turn \in ExternalIds
  BY DEF Conversations, ExternalIds
<1>2. rows \in Seq(Turn)
  BY <1>1 DEF TurnsOK
<1>3. row \in Turn /\ row.attempts = 0 /\ row.status \in {"open", "finalized"}
  BY <1>1, NewTurnTyped, WithFragmentTyped
<1>4. SetRows(c, Append(rows, row))
  BY DEF StartTurn, SetRows
<1>5. \A d \in Conversations : Len(turns[d]) \in Nat
  BY LenProperties DEF TurnsOK
<1>6. rows = turns[c]
  OBVIOUS
<1> HIDE DEF c, rows, row
<1>7. /\ TurnsOK'
      /\ Len(turns'[c]) = Len(rows) + 1
      /\ \A k \in 1..Len(rows) : turns'[c][k] = rows[k]
      /\ turns'[c][Len(rows) + 1] = row
      /\ \A d \in Conversations : d # c => turns'[d] = turns[d]
  BY <1>1, <1>2, <1>3, <1>4, RowAppended
<1>8. \A d \in Conversations : \A k \in 1..Len(turns[d]) : turns'[d][k] = turns[d][k]
  BY <1>6, <1>7
<1> QED
  BY <1>1, <1>3, <1>5, <1>6, <1>7, <1>8 DEF RowsEvolve, NothingStored, Evolves, Frozen, Columns

LEMMA AbortAndStartTurnRows ==
  ASSUME TurnsOK, NEW e \in Envelopes, NEW i \in DOMAIN turns[e.conversation],
         Status(e.conversation, i) = "open", AbortAndStartTurn(e, i)
  PROVE  RowsEvolve /\ NothingStored
<1> DEFINE c == e.conversation
           closed == [turns[c][i] EXCEPT !.status = "aborted"]
           rows == [turns[c] EXCEPT ![i] = closed]
           row == WithFragment(NewTurn(NoTurn), e)
<1>1. c \in Conversations /\ NoTurn \in ExternalIds
  BY DEF Conversations, ExternalIds
<1>2. turns[c] \in Seq(Turn) /\ i \in 1..Len(turns[c])
  BY <1>1, LenProperties DEF TurnsOK
<1>3. turns[c][i] \in Turn
  BY <1>2, ElementOfSeq
<1>4. closed \in Turn /\ closed.attempts = turns[c][i].attempts /\ closed.status = "aborted"
  BY <1>3 DEF Turn, Statuses
<1>5. row \in Turn /\ row.attempts = 0 /\ row.status \in {"open", "finalized"}
  BY <1>1, NewTurnTyped, WithFragmentTyped
<1>6. SetRows(c, Append(rows, row))
  BY DEF AbortAndStartTurn, SetRows
<1>7. \A d \in Conversations : Len(turns[d]) \in Nat
  BY LenProperties DEF TurnsOK
<1>8. Status(c, i) = "open"
  OBVIOUS
<1> HIDE DEF closed
<1>9. /\ rows \in Seq(Turn)
      /\ Len(rows) = Len(turns[c])
      /\ \A k \in 1..Len(turns[c]) : rows[k] = IF k = i THEN closed ELSE turns[c][k]
  BY <1>2, <1>4, ExceptSeq
<1> HIDE DEF c, rows, row
<1>10. /\ TurnsOK'
       /\ Len(turns'[c]) = Len(rows) + 1
       /\ \A k \in 1..Len(rows) : turns'[c][k] = rows[k]
       /\ turns'[c][Len(rows) + 1] = row
       /\ \A d \in Conversations : d # c => turns'[d] = turns[d]
  BY <1>1, <1>5, <1>6, <1>9, RowAppended
<1>11. ASSUME NEW d \in Conversations, NEW k \in 1..Len(turns[d])
       PROVE  /\ Evolves(d, k) /\ Frozen(d, k)
              /\ turns'[d][k].status # "stored" \/ turns'[d][k] = turns[d][k]
  BY <1>4, <1>8, <1>9, <1>10 DEF Evolves, Frozen, Columns, Status
<1>12. ASSUME NEW d \in Conversations
       PROVE  /\ Len(turns[d]) <= Len(turns'[d])
              /\ \A k \in 1..Len(turns'[d]) : k > Len(turns[d]) =>
                   turns'[d][k].status \in {"open", "finalized"} /\ turns'[d][k].attempts = 0
  <2>1. CASE d = c
    <3>1. Len(turns'[c]) = Len(turns[c]) + 1 /\ turns'[c][Len(turns[c]) + 1] = row
      BY <1>9, <1>10
    <3>2. \A k \in 1..Len(turns'[c]) : k > Len(turns[c]) => k = Len(turns[c]) + 1
      BY <1>1, <1>7, <3>1
    <3> QED
      BY <1>1, <1>5, <1>7, <2>1, <3>1, <3>2
  <2>2. CASE d # c
    BY <1>7, <1>10, <2>2
  <2> QED
    BY <2>1, <2>2
<1>13. NothingStored
  BY <1>11 DEF NothingStored
<1> QED
  BY <1>10, <1>11, <1>12, <1>13 DEF RowsEvolve

\* Whatever a hook posts.
LEMMA StageRows ==
  ASSUME TurnsOK, NEW e \in Envelopes, Stage(e)
  PROVE  RowsEvolve /\ NothingStored
<1>1. CASE StartTurn(e)
  BY <1>1, StartTurnRows
<1>2. CASE \E i \in ExternalTurn(e) : Status(e.conversation, i) = "open" /\ JoinTurn(e, i)
  BY <1>2, JoinTurnRows DEF ExternalTurn
<1>3. CASE \E i \in OpenTurn(e) : JoinTurn(e, i) \/ AbortAndStartTurn(e, i)
  BY <1>3, JoinTurnRows, AbortAndStartTurnRows DEF OpenTurn
<1> QED
  BY <1>1, <1>2, <1>3 DEF Stage, StageExternal, StageImplicit

-----------------------------------------------------------------------------
(* What a step that evolves the rows leaves true.                          *)

\* A dispatcher that the step does not touch keeps a current job.
LEMMA JobKept ==
  ASSUME TurnsOK, JobsCurrent, NoOvertaking, RowsEvolve,
         NEW s \in Servers, pc[s] \in Holding, pc'[s] = pc[s], job'[s] = job[s]
  PROVE  JobCurrent(s)'
<1> DEFINE c == job[s].conversation
           i == job[s].index
<1>1. job[s] \in Job /\ c \in Conversations /\ i \in Nat /\ JobCurrent(s)
  BY DEF JobsCurrent, JobCurrent, Job
<1>2. /\ DOMAIN turns[c] = 1..Len(turns[c]) /\ DOMAIN turns'[c] = 1..Len(turns'[c])
      /\ Len(turns[c]) \in Nat /\ Len(turns'[c]) \in Nat /\ Len(turns[c]) <= Len(turns'[c])
  BY <1>1, LenProperties DEF TurnsOK, RowsEvolve
<1>3. i \in 1..Len(turns[c]) /\ Begun(c, i)
  BY <1>1, <1>2 DEF JobCurrent
<1>4. i \in DOMAIN turns'[c] /\ Begun(c, i)'
  BY <1>1, <1>2, <1>3, BegunStays
<1>5. StoredBefore(c, i)' = StoredBefore(c, i)
  BY <1>1, <1>3, HistoryKept
<1>6. LastTurns(StoredBefore(c, i))' = LastTurns(StoredBefore(c, i))
  BY <1>5 DEF LastTurns
<1> QED
  BY <1>1, <1>4, <1>6 DEF JobCurrent

\* All the jobs stay current if that of the acting server does.
LEMMA JobsKept ==
  ASSUME TurnsOK, JobsCurrent, NoOvertaking, RowsEvolve, NEW s \in Servers,
         \A t \in Servers : t # s => pc'[t] = pc[t] /\ job'[t] = job[t],
         pc'[s] \in Holding => JobCurrent(s)'
  PROVE  JobsCurrent'
<1> SUFFICES ASSUME NEW t \in Servers, t # s, pc'[t] \in Holding
             PROVE  JobCurrent(t)'
  BY DEF JobsCurrent
<1> QED
  BY JobKept

\* A note that was there before the step.
LEMMA OldNote ==
  ASSUME TurnsOK, memories \in Seq(Note), NoOvertaking, NotesCurrent, RowsEvolve,
         NEW k \in DOMAIN memories, NEW c, NEW i,
         c = memories[k].conversation, i = memories[k].index
  PROVE  /\ c \in Conversations
         /\ i \in 1..Len(turns[c])
         /\ i \in DOMAIN turns'[c]
         /\ Status(c, i) = "stored"
         /\ Status(c, i)' = "stored"
         /\ StoredBefore(c, i)' = StoredBefore(c, i)
         /\ LastTurns(StoredBefore(c, i))' = LastTurns(StoredBefore(c, i))
<1>1. memories[k] \in Note
  BY ElementOfSeq, LenProperties
<1>2. c \in Conversations
  BY <1>1 DEF Note
<1>3. /\ DOMAIN turns[c] = 1..Len(turns[c]) /\ DOMAIN turns'[c] = 1..Len(turns'[c])
      /\ Len(turns[c]) \in Nat /\ Len(turns'[c]) \in Nat /\ Len(turns[c]) <= Len(turns'[c])
  BY <1>2, LenProperties DEF TurnsOK, RowsEvolve
<1>4. i \in 1..Len(turns[c]) /\ Status(c, i) = "stored"
  BY <1>3 DEF NotesCurrent
<1>5. Settled(c, i) /\ Begun(c, i)
  BY <1>4 DEF Settled, Begun
<1>6. turns'[c][i].status = turns[c][i].status
  BY <1>2, <1>4, <1>5, SettledStays
<1>7. StoredBefore(c, i)' = StoredBefore(c, i)
  BY <1>2, <1>4, <1>5, HistoryKept
<1>8. LastTurns(StoredBefore(c, i))' = LastTurns(StoredBefore(c, i))
  BY <1>7 DEF LastTurns
<1> QED
  BY <1>2, <1>3, <1>4, <1>6, <1>7, <1>8 DEF Status

\* The notes stay right when no turn is stored.
LEMMA NotesKept ==
  ASSUME TurnsOK, memories \in Seq(Note), NoOvertaking, StoredInTurnOrder, NotesCurrent,
         HistoryIsComplete, RowsEvolve, NothingStored, UNCHANGED memories
  PROVE  StoredInTurnOrder' /\ NotesCurrent' /\ HistoryIsComplete'
<1>1. ASSUME NEW k \in DOMAIN memories, NEW c, NEW i,
             c = memories[k].conversation, i = memories[k].index
      PROVE  /\ i \in DOMAIN turns'[c] /\ Status(c, i)' = "stored"
             /\ memories[k].window = LastTurns(StoredBefore(c, i))'
  <2>1. memories[k].window = LastTurns(StoredBefore(c, i))
    BY <1>1 DEF HistoryIsComplete
  <2> QED
    BY <1>1, <2>1, OldNote
<1>2. ASSUME NEW c \in Conversations, NEW i \in DOMAIN turns'[c], Status(c, i)' = "stored"
      PROVE  \E k \in DOMAIN memories : memories[k].conversation = c /\ memories[k].index = i
  <2>1. DOMAIN turns[c] = 1..Len(turns[c]) /\ Len(turns[c]) \in Nat
    BY LenProperties DEF TurnsOK
  <2>2. i \in 1..Len(turns'[c]) /\ Len(turns'[c]) \in Nat /\ turns'[c][i].status = "stored"
    BY <1>2, LenProperties DEF Status, RowsEvolve, TurnsOK
  <2>3. i \in 1..Len(turns[c])
    BY <2>1, <2>2 DEF RowsEvolve
  <2>4. Status(c, i) = "stored"
    BY <2>2, <2>3 DEF NothingStored, Status
  <2> QED
    BY <2>1, <2>3, <2>4 DEF NotesCurrent
<1>3. NotesCurrent'
  BY <1>1, <1>2 DEF NotesCurrent
<1>4. HistoryIsComplete'
  BY <1>1 DEF HistoryIsComplete
<1>5. StoredInTurnOrder'
  BY DEF StoredInTurnOrder
<1> QED
  BY <1>3, <1>4, <1>5

\* A step that commits no note and keeps what each layer needs.
Keeps ==
  TypeOK' /\ RowsEvolve /\ NothingStored /\ UNCHANGED memories /\ JobsCurrent'

LEMMA KeepsInv ==
  ASSUME QueueInv, Keeps
  PROVE  QueueInv' /\ RowsEvolve
<1>1. TurnsOK /\ memories \in Seq(Note)
  BY DEF QueueInv, TypeOK, TurnsOK
<1>2. NoOvertaking'
  BY <1>1, NoOvertakingKept DEF QueueInv, Keeps
<1>3. StoredInTurnOrder' /\ NotesCurrent' /\ HistoryIsComplete'
  BY <1>1, NotesKept DEF QueueInv, Keeps
<1> QED
  BY <1>2, <1>3 DEF QueueInv, Keeps

-----------------------------------------------------------------------------
(* Every action keeps the invariant.                                       *)

\* The parts of QueueInv the steps below start from.
LEMMA InvParts ==
  ASSUME QueueInv
  PROVE  TypeOK /\ TurnsOK /\ JobsCurrent /\ NoOvertaking
BY DEF QueueInv, TypeOK, TurnsOK

\* Steps of the hooks and the clock: no dispatcher moves.
LEMMA PassiveKeeps ==
  ASSUME QueueInv, RowsEvolve, NothingStored, UNCHANGED <<memories, pc, job, timer, listening>>,
         permit' \in [Servers -> BOOLEAN], faults' \in 0..MaxFaults
  PROVE  QueueInv' /\ RowsEvolve
<1>1. JobsCurrent'
  BY InvParts, JobKept DEF JobsCurrent
<1>2. TypeOK'
  BY InvParts DEF TypeOK, RowsEvolve, TurnsOK
<1> QED
  BY <1>1, <1>2, KeepsInv DEF Keeps

LEMMA IngestKeeps ==
  ASSUME QueueInv, NEW s \in Servers, NEW e \in Envelopes, Ingest(s, e)
  PROVE  QueueInv' /\ RowsEvolve
<1> USE InvParts DEF TypeOK, Notify
<1>1. CASE IngestFragment(s, e)
  BY <1>1, StageRows, PassiveKeeps DEF IngestFragment
<1>2. CASE IngestCancelled(s, e)
  <2>1. faults' \in 0..MaxFaults
    BY <1>2, MaxFaultsNat DEF IngestCancelled
  <2> QED
    BY <1>2, <2>1, StageRows, PassiveKeeps DEF IngestCancelled
<1>3. CASE IngestDuplicate(s, e)
  BY <1>3, NoRowEvolves, PassiveKeeps DEF IngestDuplicate
<1> QED
  BY <1>1, <1>2, <1>3 DEF Ingest

LEMMA BackoffElapsesKeeps ==
  ASSUME QueueInv, NEW c \in Conversations, NEW i \in DOMAIN turns[c], BackoffElapses(c, i)
  PROVE  QueueInv' /\ RowsEvolve
<1> DEFINE row == [turns[c][i] EXCEPT !.next = "due"]
<1>1. turns[c][i] \in Turn
  BY InvParts, ElementOfSeq, LenProperties DEF TurnsOK
<1>2. row \in Turn /\ row.status = turns[c][i].status /\ row.attempts = turns[c][i].attempts
  BY <1>1 DEF Turn
<1>3. SetRow(c, i, row)
  BY DEF BackoffElapses
<1>4. turns'[c][i] = row => Evolves(c, i) /\ Frozen(c, i)
  BY <1>2 DEF Evolves, Frozen, Columns, BackoffElapses, Status
<1> HIDE DEF row
<1>5. RowsEvolve /\ NothingStored
  BY <1>2, <1>3, <1>4, InvParts, OneRowEvolves
<1> QED
  BY <1>5, InvParts, PassiveKeeps DEF BackoffElapses, TypeOK

\* Steps of one server that touch no row.
LEMMA ServerKeeps ==
  ASSUME QueueInv, NEW s \in Servers, UNCHANGED <<turns, memories>>,
         pc' \in [Servers -> Phases], job' \in [Servers -> Job \cup {NoJob}],
         \A t \in Servers : t # s => pc'[t] = pc[t] /\ job'[t] = job[t],
         pc'[s] \in Holding => JobCurrent(s)',
         permit' \in [Servers -> BOOLEAN], timer' \in [Servers -> BOOLEAN],
         listening' \in [Servers -> BOOLEAN], faults' \in 0..MaxFaults
  PROVE  QueueInv' /\ RowsEvolve
<1>1. RowsEvolve /\ NothingStored
  BY InvParts, NoRowEvolves
<1>2. JobsCurrent'
  BY <1>1, InvParts, JobsKept
<1>3. TypeOK'
  BY InvParts DEF TypeOK
<1> QED
  BY <1>1, <1>2, <1>3, KeepsInv DEF Keeps

\* The job of a dispatcher that holds one.
LEMMA HeldJob ==
  ASSUME QueueInv, NEW s \in Servers, pc[s] \in Holding
  PROVE  /\ job[s] \in Job /\ JobCurrent(s)
         /\ job[s].conversation \in Conversations
         /\ job[s].index \in DOMAIN turns[job[s].conversation]
         /\ job[s].index \in 1..Len(turns[job[s].conversation])
         /\ turns[job[s].conversation][job[s].index] \in Turn
         /\ Begun(job[s].conversation, job[s].index)
<1>1. /\ job[s] \in Job /\ JobCurrent(s) /\ job[s].conversation \in Conversations
      /\ job[s].index \in DOMAIN turns[job[s].conversation]
      /\ Begun(job[s].conversation, job[s].index)
  BY InvParts DEF JobsCurrent, JobCurrent, Job
<1> QED
  BY <1>1, InvParts, ElementOfSeq, LenProperties DEF TurnsOK

\* A dispatcher that only decides what to write next.
LEMMA VerdictKeeps ==
  ASSUME QueueInv, NEW s \in Servers, pc[s] \in Holding, NEW verdict \in Verdicts,
         NEW attempts \in Nat, verdict = "retry" => attempts > 0,
         pc' = [pc EXCEPT ![s] = "settle"], SetVerdict(s, verdict, attempts),
         UNCHANGED <<turns, memories, permit, timer, listening>>, faults' \in 0..MaxFaults
  PROVE  QueueInv' /\ RowsEvolve
<1>1. job[s] \in Job /\ JobCurrent(s)
  BY HeldJob
<1>2. /\ pc' \in [Servers -> Phases] /\ job' \in [Servers -> Job \cup {NoJob}]
      /\ \A t \in Servers : t # s => pc'[t] = pc[t] /\ job'[t] = job[t]
      /\ pc'[s] = "settle"
      /\ job'[s] = [job[s] EXCEPT !.verdict = verdict, !.attempts = attempts]
  BY <1>1, InvParts DEF TypeOK, SetVerdict, Job, Phases, Holding
<1>3. JobCurrent(s)'
  BY <1>1, <1>2 DEF JobCurrent, Job, Begun, Status
<1> QED
  BY <1>2, <1>3, InvParts, ServerKeeps DEF TypeOK

LEMMA ScheduleKeeps ==
  ASSUME QueueInv, NEW s \in Servers, Schedule(s), ~ClaimNextDueTurn(s)
  PROVE  QueueInv' /\ RowsEvolve
<1>1. /\ \E to \in {"deadline", "wait", "claim"} : pc' = [pc EXCEPT ![s] = to]
      /\ UNCHANGED <<turns, memories, job, listening, faults>>
      /\ permit' \in [Servers -> BOOLEAN]
      /\ timer' \in [Servers -> BOOLEAN]
  BY InvParts DEF Schedule, ClaimNothing, NextDueDeadline, WakeByNotify, WakeByTimer, Goto, TypeOK
<1>2. /\ pc' \in [Servers -> Phases] /\ pc'[s] \notin Holding
      /\ \A t \in Servers : t # s => pc'[t] = pc[t]
  BY <1>1, InvParts DEF TypeOK, Phases, Holding
<1> QED
  BY <1>1, <1>2, InvParts, ServerKeeps DEF TypeOK

LEMMA ClaimKeeps ==
  ASSUME QueueInv, NEW s \in Servers, ClaimNextDueTurn(s)
  PROVE  QueueInv' /\ RowsEvolve
<1>0. PICK c \in Conversations : \E i \in DOMAIN turns[c] :
        /\ Claimable(c, i)
        /\ SetRow(c, i, [turns[c][i] EXCEPT !.status = "processing"])
        /\ job' = [job EXCEPT ![s] =
             [conversation |-> c, index |-> i, attempts |-> turns[c][i].attempts,
              window |-> {}, verdict |-> "none"]]
  BY DEF ClaimNextDueTurn
<1>1. PICK i \in DOMAIN turns[c] :
        /\ Claimable(c, i)
        /\ SetRow(c, i, [turns[c][i] EXCEPT !.status = "processing"])
        /\ job' = [job EXCEPT ![s] =
             [conversation |-> c, index |-> i, attempts |-> turns[c][i].attempts,
              window |-> {}, verdict |-> "none"]]
  BY <1>0
<1> DEFINE row == [turns[c][i] EXCEPT !.status = "processing"]
<1>2. turns[c][i] \in Turn /\ i \in 1..Len(turns[c]) /\ Len(turns[c]) \in Nat
  BY InvParts, ElementOfSeq, LenProperties DEF TurnsOK
<1>3. /\ row \in Turn /\ row.status = "processing" /\ row.attempts = turns[c][i].attempts
      /\ SetRow(c, i, row)
  BY <1>1, <1>2 DEF Turn, Statuses
<1> HIDE DEF row
<1>4. turns'[c][i] = row => Evolves(c, i) /\ Frozen(c, i)
  BY <1>1, <1>3 DEF Evolves, Frozen, Columns, Claimable, Unblocked, Status
<1>5. RowsEvolve /\ NothingStored /\ turns'[c][i] = row
  BY <1>3, <1>4, InvParts, OneRowEvolves
<1>6. /\ job'[s] = [conversation |-> c, index |-> i, attempts |-> turns[c][i].attempts,
                    window |-> {}, verdict |-> "none"]
      /\ job'[s] \in Job
      /\ \A t \in Servers : t # s => job'[t] = job[t]
      /\ job' \in [Servers -> Job \cup {NoJob}]
  BY <1>1, <1>2, InvParts DEF TypeOK, Job, Turn, Verdicts
<1>7. /\ pc' \in [Servers -> Phases] /\ pc'[s] = "window"
      /\ \A t \in Servers : t # s => pc'[t] = pc[t]
      /\ UNCHANGED <<memories, permit, timer, listening, faults>>
  BY InvParts DEF ClaimNextDueTurn, Goto, TypeOK, Phases, Holding
<1>8. i \in DOMAIN turns'[c]
  BY <1>2, <1>5, LenProperties DEF RowsEvolve, TurnsOK
<1>9. JobCurrent(s)'
  BY <1>3, <1>5, <1>6, <1>7, <1>8 DEF JobCurrent, Begun, Status
<1>10. JobsCurrent'
  BY <1>5, <1>6, <1>7, <1>9, InvParts, JobsKept
<1>11. TypeOK'
  BY <1>5, <1>6, <1>7, InvParts DEF TypeOK, RowsEvolve, TurnsOK
<1> QED
  BY <1>5, <1>7, <1>10, <1>11, KeepsInv DEF Keeps

LEMMA VerdictStepsKeep ==
  ASSUME QueueInv, NEW s \in Servers,
         \/ OutOfAttempts(s) \/ BuildWindowFails(s) \/ PersistRefused(s)
         \/ ActorRetryable(s) \/ ActorUnrecoverable(s)
  PROVE  QueueInv' /\ RowsEvolve
<1>1. TypeOK /\ faults \in 0..MaxFaults
  BY InvParts DEF TypeOK
<1>2. pc[s] \in Holding /\ pc' = [pc EXCEPT ![s] = "settle"]
  BY DEF OutOfAttempts, BuildWindowFails, PersistRefused, ActorRetryable, ActorUnrecoverable,
         Goto, Holding
<1>3. job[s].attempts \in Nat /\ (pc[s] = "store" => job[s].attempts < MaxAttempts)
  BY <1>2, HeldJob DEF Job, JobCurrent
<1>4. faults' \in 0..MaxFaults /\ UNCHANGED <<turns, memories, permit, timer, listening>>
  BY <1>1, MaxFaultsNat
  DEF OutOfAttempts, BuildWindowFails, PersistRefused, ActorRetryable, ActorUnrecoverable
<1>5. \E verdict \in Verdicts, attempts \in Nat :
        (verdict = "retry" => attempts > 0) /\ SetVerdict(s, verdict, attempts)
  <2>1. CASE ActorRetryable(s)
    <3>1. pc[s] = "store"
      BY <2>1 DEF ActorRetryable, Goto
    <3>2. job[s].attempts + 1 \in Nat /\ job[s].attempts + 1 > 0
      BY <1>3, <3>1, MaxAttemptsPositive
    <3> QED
      BY <2>1, <3>2 DEF ActorRetryable, Verdicts
  <2>2. CASE OutOfAttempts(s)
    BY <1>3, <2>2 DEF OutOfAttempts, Verdicts
  <2>3. CASE BuildWindowFails(s) \/ PersistRefused(s) \/ ActorUnrecoverable(s)
    BY <1>3, <2>3 DEF BuildWindowFails, PersistRefused, ActorUnrecoverable, Verdicts
  <2> QED
    BY <2>1, <2>2, <2>3
<1> QED
  BY <1>2, <1>4, <1>5, VerdictKeeps

\* build_window reads the history that JobKept then preserves.
LEMMA DispatchTurnKeeps ==
  ASSUME QueueInv, NEW s \in Servers, DispatchTurn(s)
  PROVE  QueueInv' /\ RowsEvolve
<1>0. pc[s] = "window" /\ pc' = [pc EXCEPT ![s] = "store"] /\ job[s].attempts < MaxAttempts
  BY HeldJob, MaxAttemptsPositive DEF DispatchTurn, Goto, AtCap, Holding, Job
<1>1. PICK c, i : c = job[s].conversation /\ i = job[s].index
  OBVIOUS
<1>2. /\ job[s] \in Job /\ JobCurrent(s)
      /\ c \in Conversations /\ i \in DOMAIN turns[c] /\ i \in 1..Len(turns[c])
      /\ turns[c][i] \in Turn /\ Begun(c, i)
  BY <1>0, <1>1, HeldJob DEF Holding
<1> DEFINE calls == turns[c][i].calls
           row == [turns[c][i] EXCEPT !.calls = IF calls > MaxAttempts THEN calls ELSE calls + 1]
<1>3. /\ row \in Turn /\ row.status = turns[c][i].status
      /\ row.attempts = turns[c][i].attempts
      /\ Columns(row) = Columns(turns[c][i])
  BY <1>2, MaxAttemptsPositive DEF Turn, Columns
<1>4. SetRow(c, i, row)
  BY <1>1 DEF DispatchTurn
<1> HIDE DEF row
<1>5. turns'[c][i] = row => Evolves(c, i) /\ Frozen(c, i)
  BY <1>3 DEF Evolves, Frozen, Columns
<1>6. RowsEvolve /\ NothingStored /\ turns'[c][i] = row
  BY <1>2, <1>3, <1>4, <1>5, InvParts, OneRowEvolves
<1>7. StoredBefore(c, i) \subseteq Nat /\ LastTurns(StoredBefore(c, i)) \subseteq Nat
  BY DEF StoredBefore, LastTurns
<1>8. /\ job'[s] = [job[s] EXCEPT !.window = LastTurns(StoredBefore(c, i))]
      /\ job'[s] \in Job
      /\ \A t \in Servers : t # s => job'[t] = job[t]
      /\ job' \in [Servers -> Job \cup {NoJob}]
  BY <1>1, <1>2, <1>7, InvParts DEF DispatchTurn, TypeOK, Job
<1>9. /\ pc' \in [Servers -> Phases] /\ pc'[s] = "store"
      /\ \A t \in Servers : t # s => pc'[t] = pc[t]
      /\ UNCHANGED <<memories, permit, timer, listening, faults>>
  BY <1>0, InvParts DEF DispatchTurn, TypeOK, Phases, Holding
<1>10. LastTurns(StoredBefore(c, i))' = LastTurns(StoredBefore(c, i))
  BY <1>2, <1>6, InvParts, HistoryKept DEF LastTurns
<1>11. i \in DOMAIN turns'[c] /\ Begun(c, i)'
  BY <1>2, <1>3, <1>6, InvParts, LenProperties, BegunStays DEF RowsEvolve, TurnsOK
<1>12. /\ job'[s].conversation = c /\ job'[s].index = i
       /\ job'[s].attempts = job[s].attempts
       /\ job'[s].window = LastTurns(StoredBefore(c, i))
  BY <1>1, <1>2, <1>8 DEF Job
<1>13. JobCurrent(s)'
  BY <1>0, <1>8, <1>9, <1>10, <1>11, <1>12 DEF JobCurrent
<1>14. JobsCurrent'
  BY <1>6, <1>8, <1>9, <1>13, InvParts, JobsKept
<1>15. TypeOK'
  BY <1>6, <1>8, <1>9, InvParts DEF TypeOK, RowsEvolve, TurnsOK
<1> QED
  BY <1>6, <1>9, <1>14, <1>15, KeepsInv DEF Keeps

LEMMA SettleTurnKeeps ==
  ASSUME QueueInv, NEW s \in Servers, SettleTurn(s)
  PROVE  QueueInv' /\ RowsEvolve
<1>0. pc[s] = "settle" /\ pc' = [pc EXCEPT ![s] = "claim"]
  BY DEF SettleTurn, Goto
<1>1. PICK c, i : c = job[s].conversation /\ i = job[s].index
  OBVIOUS
<1>2. /\ job[s] \in Job /\ JobCurrent(s) /\ c \in Conversations
      /\ i \in DOMAIN turns[c] /\ turns[c][i] \in Turn
  BY <1>0, <1>1, HeldJob DEF Holding
<1> DEFINE row == Verdict(turns[c][i], job[s])
<1>3. /\ row \in Turn /\ row.status \in {"finalized", "exhausted", "failed"}
      /\ row.status = "finalized" => row.attempts > 0
  BY <1>0, <1>2 DEF Verdict, Turn, Statuses, Job, JobCurrent
<1>4. SetRow(c, i, row) /\ turns[c][i].status = "processing"
  BY <1>1 DEF SettleTurn, Status
<1> HIDE DEF row
<1>5. turns'[c][i] = row => Evolves(c, i) /\ Frozen(c, i)
  BY <1>3, <1>4 DEF Evolves, Frozen, Columns, Status
<1>6. RowsEvolve /\ NothingStored
  BY <1>2, <1>3, <1>4, <1>5, InvParts, OneRowEvolves
<1>7. /\ job' \in [Servers -> Job \cup {NoJob}] /\ pc' \in [Servers -> Phases]
      /\ pc'[s] \notin Holding
      /\ \A t \in Servers : t # s => pc'[t] = pc[t] /\ job'[t] = job[t]
      /\ UNCHANGED <<memories, permit, timer, listening, faults>>
  BY <1>0, InvParts DEF SettleTurn, TypeOK, Phases, Holding
<1>8. JobsCurrent'
  BY <1>6, <1>7, InvParts, JobsKept
<1>9. TypeOK'
  BY <1>6, <1>7, InvParts DEF TypeOK, RowsEvolve, TurnsOK
<1> QED
  BY <1>6, <1>7, <1>8, <1>9, KeepsInv DEF Keeps

\* The commit of a note.  The guard of mark_ingest_turn_stored, NoOvertaking and
\* the job's unchanged history make it the right note, once and in its turn.
LEMMA PersistTurnKeeps ==
  ASSUME QueueInv, NEW s \in Servers, PersistTurn(s)
  PROVE  QueueInv' /\ RowsEvolve
<1>0. pc[s] = "store" /\ pc' = [pc EXCEPT ![s] = "claim"]
  BY DEF PersistTurn, Goto
<1>1. PICK c, i : c = job[s].conversation /\ i = job[s].index
  OBVIOUS
<1>2. /\ job[s] \in Job /\ c \in Conversations /\ i \in Nat \ {0}
      /\ i \in DOMAIN turns[c] /\ i \in 1..Len(turns[c])
      /\ turns[c][i] \in Turn /\ Begun(c, i)
      /\ job[s].window = LastTurns(StoredBefore(c, i))
  BY <1>0, <1>1, HeldJob DEF Holding, JobCurrent, Job
<1> DEFINE row == [turns[c][i] EXCEPT !.status = "stored", !.next = "none"]
           note == [conversation |-> c, index |-> i, window |-> job[s].window]
<1>3. row \in Turn /\ row.status = "stored"
  BY <1>2 DEF Turn, Statuses
<1>4. SetRow(c, i, row) /\ turns[c][i].status = "processing"
  BY <1>1 DEF PersistTurn, Status
<1>5. /\ note \in Note /\ memories' = Append(memories, note)
      /\ note.conversation = c /\ note.index = i
      /\ note.window = LastTurns(StoredBefore(c, i))
  BY <1>1, <1>2 DEF PersistTurn, Note, Job
<1> HIDE DEF row, note
<1>6. turns'[c][i] = row => Evolves(c, i) /\ Frozen(c, i)
  BY <1>3, <1>4 DEF Evolves, Frozen, Columns, Status
<1>7. RowsEvolve /\ turns'[c][i] = row
  BY <1>2, <1>3, <1>4, <1>6, InvParts, OneRowEvolves
<1>8. \A d \in Conversations :
        /\ Len(turns'[d]) = Len(turns[d])
        /\ DOMAIN turns[d] = 1..Len(turns[d]) /\ DOMAIN turns'[d] = 1..Len(turns'[d])
        /\ \A k \in 1..Len(turns[d]) : <<d, k>> # <<c, i>> => turns'[d][k] = turns[d][k]
  BY <1>2, <1>3, <1>4, <1>7, InvParts, RowReplaced, LenProperties DEF TurnsOK, RowsEvolve
<1>9. /\ memories \in Seq(Note) /\ memories' \in Seq(Note)
      /\ Len(memories) \in Nat /\ Len(memories') = Len(memories) + 1
      /\ DOMAIN memories = 1..Len(memories) /\ DOMAIN memories' = 1..Len(memories')
      /\ \A k \in 1..Len(memories) : memories'[k] = memories[k]
      /\ memories'[Len(memories) + 1] = note
  BY <1>5, InvParts, AppendProperties, LenProperties DEF TypeOK
<1>10. /\ job' \in [Servers -> Job \cup {NoJob}] /\ pc' \in [Servers -> Phases]
       /\ pc'[s] \notin Holding
       /\ \A t \in Servers : t # s => pc'[t] = pc[t] /\ job'[t] = job[t]
       /\ UNCHANGED <<permit, timer, listening, faults>>
  BY <1>0, InvParts DEF PersistTurn, TypeOK, Phases, Holding
<1>11. JobsCurrent'
  BY <1>7, <1>10, InvParts, JobsKept
<1>12. TypeOK'
  BY <1>7, <1>9, <1>10, InvParts DEF TypeOK, RowsEvolve, TurnsOK
<1>13. NoOvertaking'
  BY <1>7, InvParts, NoOvertakingKept
<1>14. LastTurns(StoredBefore(c, i))' = LastTurns(StoredBefore(c, i))
  BY <1>2, <1>7, InvParts, HistoryKept DEF LastTurns
<1>15. ASSUME NEW k \in 1..Len(memories), NEW d, NEW j,
              d = memories[k].conversation, j = memories[k].index
       PROVE  /\ d \in Conversations /\ j \in 1..Len(turns[d]) /\ j \in DOMAIN turns'[d]
              /\ Status(d, j) = "stored" /\ Status(d, j)' = "stored"
              /\ memories[k].window = LastTurns(StoredBefore(d, j))'
  <2>1. k \in DOMAIN memories /\ NotesCurrent
    BY <1>9 DEF QueueInv
  <2>2. memories[k].window = LastTurns(StoredBefore(d, j))
    BY <1>15, <2>1 DEF QueueInv, HistoryIsComplete
  <2> QED
    BY <1>7, <1>9, <1>15, <2>1, <2>2, InvParts, OldNote
<1>16. HistoryIsComplete'
  BY <1>5, <1>9, <1>14, <1>15 DEF HistoryIsComplete
<1>17. NotesCurrent'
  <2>1. ASSUME NEW k \in DOMAIN memories', NEW d, NEW j,
               d = memories'[k].conversation, j = memories'[k].index
        PROVE  j \in DOMAIN turns'[d] /\ Status(d, j)' = "stored"
    <3>1. CASE k \in 1..Len(memories)
      BY <1>9, <1>15, <2>1, <3>1
    <3>2. CASE k = Len(memories) + 1
      BY <1>2, <1>3, <1>5, <1>7, <1>8, <1>9, <2>1, <3>2 DEF Status
    <3> QED
      BY <1>9, <3>1, <3>2
  <2>2. ASSUME NEW d \in Conversations, NEW j \in DOMAIN turns'[d], Status(d, j)' = "stored"
        PROVE  \E k \in DOMAIN memories' :
                 memories'[k].conversation = d /\ memories'[k].index = j
    <3>1. CASE <<d, j>> = <<c, i>>
      BY <1>5, <1>9, <3>1
    <3>2. CASE <<d, j>> # <<c, i>>
      <4>1. j \in DOMAIN turns[d] /\ Status(d, j) = "stored"
        BY <1>8, <2>2, <3>2 DEF Status
      <4>2. PICK k \in DOMAIN memories : memories[k].conversation = d /\ memories[k].index = j
        BY <4>1 DEF QueueInv, NotesCurrent
      <4> QED
        BY <1>9, <4>2
    <3> QED
      BY <3>1, <3>2
  <2> QED
    BY <2>1, <2>2 DEF NotesCurrent
<1>18. StoredInTurnOrder'
  <2> SUFFICES ASSUME NEW m \in DOMAIN memories', NEW n \in DOMAIN memories', m < n,
                      memories'[m].conversation = memories'[n].conversation
               PROVE  memories'[m].index < memories'[n].index
    BY DEF StoredInTurnOrder
  <2>1. CASE n \in 1..Len(memories)
    <3>1. m \in DOMAIN memories /\ n \in DOMAIN memories
      BY <1>9, <2>1
    <3> QED
      BY <1>9, <2>1, <3>1 DEF QueueInv, StoredInTurnOrder
  <2>2. CASE n = Len(memories) + 1
    <3>1. m \in 1..Len(memories) /\ memories'[m] = memories[m] /\ memories[m].conversation = c
      BY <1>5, <1>9, <2>2
    <3>2. PICK j : j = memories[m].index
      OBVIOUS
    <3>3. j \in 1..Len(turns[c]) /\ Status(c, j) = "stored"
      BY <1>15, <3>1, <3>2
    <3>4. Begun(c, j) /\ j # i
      BY <1>4, <3>3 DEF Begun, Status
    <3>5. ~(i < j)
      BY <1>2, <1>4, <1>8, <3>3, <3>4, InvParts DEF NoOvertaking, Settled, Status
    <3> QED
      BY <1>2, <1>5, <1>9, <2>2, <3>1, <3>2, <3>3, <3>4, <3>5
  <2> QED
    BY <1>9, <2>1, <2>2
<1> QED
  BY <1>7, <1>11, <1>12, <1>13, <1>16, <1>17, <1>18 DEF QueueInv

\* Recovery puts back the processing turns, each one attempt older.
LEMMA RecoverRows ==
  ASSUME TurnsOK, RecoverProcessingTurns
  PROVE  RowsEvolve /\ NothingStored
<1>1. ASSUME NEW row \in Turn
      PROVE  /\ Recovered(row) \in Turn
             /\ row.status = "processing" =>
                  Recovered(row).status = "finalized" /\ Recovered(row).attempts > 0
             /\ row.status # "processing" => Recovered(row) = row
  <2>1. row.attempts \in Nat
    BY DEF Turn
  <2>2. Bump(row.attempts) \in Nat /\ Bump(row.attempts) > 0
    BY <2>1, MaxAttemptsPositive DEF Bump
  <2> QED
    BY <2>2 DEF Recovered, Turn, Statuses
<1>2. ASSUME NEW c \in Conversations
      PROVE  /\ turns'[c] \in Seq(Turn) /\ Len(turns'[c]) = Len(turns[c])
             /\ Len(turns[c]) \in Nat
             /\ \A i \in 1..Len(turns[c]) :
                  turns[c][i] \in Turn /\ turns'[c][i] = Recovered(turns[c][i])
  <2>1. /\ turns[c] \in Seq(Turn) /\ Len(turns[c]) \in Nat
        /\ DOMAIN turns[c] = 1..Len(turns[c])
        /\ \A i \in 1..Len(turns[c]) : turns[c][i] \in Turn
    BY LenProperties, ElementOfSeq DEF TurnsOK
  <2>2. turns'[c] = [i \in 1..Len(turns[c]) |-> Recovered(turns[c][i])]
    BY <2>1 DEF RecoverProcessingTurns
  <2>3. turns'[c] \in [1..Len(turns[c]) -> Turn]
    BY <1>1, <2>1, <2>2
  <2>4. turns'[c] \in Seq(Turn)
    BY <2>1, <2>3, SeqDef
  <2>5. Len(turns'[c]) = Len(turns[c])
    BY <2>1, <2>3, <2>4, LenProperties
  <2> QED
    BY <2>1, <2>2, <2>4, <2>5
<1>3. TurnsOK'
  BY <1>2 DEF TurnsOK, RecoverProcessingTurns
<1>4. ASSUME NEW c \in Conversations, NEW i \in 1..Len(turns[c])
      PROVE  /\ Evolves(c, i) /\ Frozen(c, i)
             /\ turns'[c][i].status = "stored" => turns[c][i].status = "stored"
  BY <1>1, <1>2 DEF Evolves, Frozen, Columns, Status
<1> QED
  BY <1>2, <1>3, <1>4 DEF RowsEvolve, NothingStored

\* A dispatcher that recovers, starts, or loses what it held.
LEMMA RecoveryKeeps ==
  ASSUME QueueInv, NEW s \in Servers, RecoverProcessingTurns \/ UNCHANGED turns,
         pc' \in [Servers -> Phases], pc'[s] \notin Holding,
         job' \in [Servers -> Job \cup {NoJob}],
         \A t \in Servers : t # s => pc'[t] = pc[t] /\ job'[t] = job[t],
         permit' \in [Servers -> BOOLEAN], timer' \in [Servers -> BOOLEAN],
         listening' \in [Servers -> BOOLEAN], faults' \in 0..MaxFaults, UNCHANGED memories
  PROVE  QueueInv' /\ RowsEvolve
<1>1. RowsEvolve /\ NothingStored
  BY InvParts, RecoverRows, NoRowEvolves
<1>2. JobsCurrent'
  BY <1>1, InvParts, JobsKept
<1>3. TypeOK'
  BY <1>1, InvParts DEF TypeOK, RowsEvolve, TurnsOK
<1> QED
  BY <1>1, <1>2, <1>3, KeepsInv DEF Keeps

LEMMA FaultStepsKeep ==
  ASSUME QueueInv, NEW s \in Servers,
         \/ SettleRefused(s) \/ DispatcherDatabaseError(s)
         \/ RecoverAfterError(s) \/ RecoveryFails(s)
  PROVE  QueueInv' /\ RowsEvolve
<1>1. TypeOK
  BY InvParts
<1>2. /\ \E to \in {"fault", "wait"} : pc' = [pc EXCEPT ![s] = to]
      /\ job' = [job EXCEPT ![s] = NoJob] \/ job' = job
      /\ RecoverProcessingTurns \/ UNCHANGED turns
      /\ timer' = [timer EXCEPT ![s] = TRUE] \/ timer' = timer
      /\ UNCHANGED <<memories, permit, listening>>
      /\ faults' \in 0..MaxFaults
  BY <1>1, MaxFaultsNat
  DEF SettleRefused, DispatcherDatabaseError, RecoverAfterError, RecoveryFails, Goto, TypeOK
<1>3. /\ pc' \in [Servers -> Phases] /\ pc'[s] \notin Holding
      /\ job' \in [Servers -> Job \cup {NoJob}]
      /\ \A t \in Servers : t # s => pc'[t] = pc[t] /\ job'[t] = job[t]
      /\ permit' \in [Servers -> BOOLEAN] /\ timer' \in [Servers -> BOOLEAN]
      /\ listening' \in [Servers -> BOOLEAN]
  BY <1>1, <1>2 DEF TypeOK, Phases, Holding
<1> QED
  BY <1>2, <1>3, RecoveryKeeps

LEMMA LifecycleKeeps ==
  ASSUME QueueInv, NEW s \in Servers, Lifecycle(s)
  PROVE  QueueInv' /\ RowsEvolve
<1>1. TypeOK
  BY InvParts
<1>2. CASE Boot(s)
  <2>1. /\ RecoverProcessingTurns /\ UNCHANGED <<memories, job, permit, timer, listening, faults>>
        /\ pc' = [pc EXCEPT ![s] = "claim"]
    BY <1>2 DEF Boot, Goto
  <2>2. /\ pc' \in [Servers -> Phases] /\ pc'[s] \notin Holding
        /\ \A t \in Servers : t # s => pc'[t] = pc[t]
    BY <1>1, <2>1 DEF TypeOK, Phases, Holding
  <2> QED
    BY <1>1, <2>1, <2>2, RecoveryKeeps DEF TypeOK
<1>3. CASE Bind(s)
  <2>1. /\ UNCHANGED <<turns, memories, pc, job, permit, timer, faults>>
        /\ listening' \in [Servers -> BOOLEAN]
    BY <1>1, <1>3 DEF Bind, TypeOK
  <2>2. pc'[s] \in Holding => JobCurrent(s)'
    BY <2>1, InvParts DEF JobsCurrent, JobCurrent, Begun, Status, LastTurns, StoredBefore
  <2> QED
    BY <1>1, <2>1, <2>2, ServerKeeps DEF TypeOK
<1>4. CASE BindFails(s) \/ Crash(s)
  <2>1. Stop(s) /\ faults' \in 0..MaxFaults
    BY <1>1, <1>4, MaxFaultsNat DEF BindFails, Crash, TypeOK
  <2>2. /\ pc' \in [Servers -> Phases] /\ pc'[s] \notin Holding
        /\ job' \in [Servers -> Job \cup {NoJob}]
        /\ \A t \in Servers : t # s => pc'[t] = pc[t] /\ job'[t] = job[t]
        /\ permit' \in [Servers -> BOOLEAN] /\ timer' \in [Servers -> BOOLEAN]
        /\ listening' \in [Servers -> BOOLEAN] /\ UNCHANGED <<turns, memories>>
    BY <1>1, <2>1 DEF Stop, TypeOK, Phases, Holding
  <2> QED
    BY <2>1, <2>2, RecoveryKeeps
<1> QED
  BY <1>2, <1>3, <1>4 DEF Lifecycle

-----------------------------------------------------------------------------
(* Theorems.                                                               *)

LEMMA InitInv == Init => QueueInv
<1> SUFFICES ASSUME Init PROVE QueueInv
  OBVIOUS
<1>1. TypeOK
  BY EmptySeq, MaxFaultsNat DEF Init, TypeOK, Phases, Holding
<1> QED
  BY <1>1 DEF Init, QueueInv, JobsCurrent, Holding, NoOvertaking, StoredInTurnOrder,
              NotesCurrent, HistoryIsComplete

LEMMA NextInv == QueueInv /\ [Next]_vars => QueueInv' /\ RowsEvolve
<1> SUFFICES ASSUME QueueInv, [Next]_vars PROVE QueueInv' /\ RowsEvolve
  OBVIOUS
<1>1. ASSUME NEW s \in Servers, NEW e \in Envelopes, Ingest(s, e) PROVE QueueInv' /\ RowsEvolve
  BY <1>1, IngestKeeps
<1>2. ASSUME NEW s \in Servers, Schedule(s) PROVE QueueInv' /\ RowsEvolve
  BY <1>2, ScheduleKeeps, ClaimKeeps
<1>3. ASSUME NEW s \in Servers, Process(s) PROVE QueueInv' /\ RowsEvolve
  BY <1>3, VerdictStepsKeep, DispatchTurnKeeps, PersistTurnKeeps, SettleTurnKeeps, FaultStepsKeep
  DEF Process
<1>4. ASSUME NEW s \in Servers, DispatcherDatabaseError(s) \/ Recover(s) PROVE QueueInv' /\ RowsEvolve
  BY <1>4, FaultStepsKeep DEF Recover
<1>5. ASSUME NEW s \in Servers, Lifecycle(s) PROVE QueueInv' /\ RowsEvolve
  BY <1>5, LifecycleKeeps
<1>6. ASSUME NEW c \in Conversations, NEW i \in DOMAIN turns[c], BackoffElapses(c, i) PROVE QueueInv' /\ RowsEvolve
  BY <1>6, BackoffElapsesKeeps
<1>7. CASE UNCHANGED vars
  BY <1>7, InvParts, NoRowEvolves, PassiveKeeps DEF vars, TypeOK
<1> QED
  BY <1>1, <1>2, <1>3, <1>4, <1>5, <1>6, <1>7 DEF Next

\* The inductive invariant holds in every reachable state.
THEOREM QueueInvariance == Spec => []QueueInv
BY InitInv, NextInv, PTL DEF Spec

\* Type correctness, the bound on attempt_count included.
THEOREM TypeCorrectness == Spec => []TypeOK
BY QueueInvariance, PTL DEF QueueInv

\* No turn is begun before all its predecessors are settled, for any number of
\* servers that share the database and any failures.
THEOREM NoOvertakingHolds == Spec => []NoOvertaking
BY QueueInvariance, PTL DEF QueueInv

\* Notes of a conversation are committed in turn order.
THEOREM StoredInTurnOrderHolds == Spec => []StoredInTurnOrder
BY QueueInvariance, PTL DEF QueueInv

\* Every note was made from the complete stored history of its turn.
THEOREM HistoryIsCompleteHolds == Spec => []HistoryIsComplete
BY QueueInvariance, PTL DEF QueueInv

\* Every stored turn has one note and no other turn has any: QueueInv gives at
\* least one by NotesCurrent and at most one by StoredInTurnOrder.
THEOREM OneNotePerStoredTurnHolds == Spec => []OneNotePerStoredTurn
<1>1. ASSUME QueueInv PROVE OneNotePerStoredTurn
  <2>1. DOMAIN memories = 1..Len(memories) /\ Len(memories) \in Nat
    BY <1>1, LenProperties DEF QueueInv, TypeOK
  <2>2. \A k \in DOMAIN memories : memories[k] \in Note
    BY <1>1, <2>1, ElementOfSeq DEF QueueInv, TypeOK
  <2>3. ASSUME NEW c \in Conversations, NEW i \in DOMAIN turns[c], Status(c, i) = "stored"
        PROVE  Cardinality(NotesOf(c, i)) = 1
    <3>1. PICK k \in DOMAIN memories : memories[k].conversation = c /\ memories[k].index = i
      BY <1>1, <2>3 DEF QueueInv, NotesCurrent
    <3>2. ASSUME NEW m \in DOMAIN memories, memories[m].conversation = c, memories[m].index = i
          PROVE  m = k
      BY <1>1, <2>1, <2>2, <3>1, <3>2 DEF QueueInv, StoredInTurnOrder, Note
    <3>3. NotesOf(c, i) = {k}
      BY <3>1, <3>2 DEF NotesOf
    <3> QED
      BY <3>3, FS_Singleton
  <2>4. ASSUME NEW c \in Conversations, NEW i \in DOMAIN turns[c], Status(c, i) # "stored"
        PROVE  Cardinality(NotesOf(c, i)) = 0
    <3>1. NotesOf(c, i) = {}
      BY <1>1, <2>4 DEF QueueInv, NotesCurrent, NotesOf
    <3> QED
      BY <3>1, FS_EmptySet
  <2> QED
    BY <1>1, <2>3, <2>4 DEF OneNotePerStoredTurn, QueueInv, NotesCurrent
<1> QED
  BY <1>1, QueueInvariance, PTL

\* A turn that is stored, aborted, failed or exhausted stays as it is.
THEOREM FinalTurnsNeverChangeHolds == Spec => FinalTurnsNeverChange
<1>1. QueueInv /\ [Next]_vars =>
        [\A c \in Conversations : \A i \in DOMAIN turns[c] :
           Status(c, i) \in {"stored", "aborted", "failed", "exhausted"}
             => Columns(turns'[c][i]) = Columns(turns[c][i])]_vars
  <2> SUFFICES ASSUME QueueInv, [Next]_vars,
                      NEW c \in Conversations, NEW i \in DOMAIN turns[c]
               PROVE  Frozen(c, i)
    BY DEF Frozen
  <2>1. i \in 1..Len(turns[c])
    BY InvParts, LenProperties DEF TurnsOK
  <2> QED
    BY <2>1, NextInv DEF RowsEvolve
<1> QED
  BY <1>1, QueueInvariance, PTL DEF Spec, FinalTurnsNeverChange

-----------------------------------------------------------------------------
(* How fragments are grouped into turns: a fragment is in one turn only,   *)
(* and a conversation has one open turn without an external id at most.    *)
(*                                                                         *)
(* Only staging touches the groups: it gives a fragment that no row knows  *)
(* to one row, and starts an implicit turn when none is open or in place   *)
(* of the one that it aborts.  Everything the dispatchers, recoveries and  *)
(* the clock do leaves them alone (GroupsKept).                            *)

GroupInv == FragmentInOneTurn /\ OneOpenImplicitTurn

\* No turn is added, opened, renamed or given a fragment.
GroupsKept ==
  /\ TurnsOK'
  /\ \A c \in Conversations :
       /\ Len(turns'[c]) = Len(turns[c])
       /\ \A i \in 1..Len(turns[c]) :
            /\ turns'[c][i].ext = turns[c][i].ext
            /\ turns'[c][i].frags = turns[c][i].frags
            /\ turns'[c][i].status = "open" => turns[c][i].status = "open"

-----------------------------------------------------------------------------
LEMMA Domains ==
  ASSUME TurnsOK, NEW c \in Conversations
  PROVE  /\ turns[c] \in Seq(Turn)
         /\ DOMAIN turns[c] = 1..Len(turns[c])
         /\ Len(turns[c]) \in Nat
         /\ \A i \in 1..Len(turns[c]) : turns[c][i] \in Turn
BY ElementOfSeq, LenProperties DEF TurnsOK

LEMMA KeptGroups ==
  ASSUME TurnsOK, GroupInv, GroupsKept
  PROVE  GroupInv'
<1>1. \A c \in Conversations :
        DOMAIN turns'[c] = 1..Len(turns[c]) /\ DOMAIN turns[c] = 1..Len(turns[c])
  <2> SUFFICES ASSUME NEW c \in Conversations
               PROVE  DOMAIN turns'[c] = 1..Len(turns[c]) /\ DOMAIN turns[c] = 1..Len(turns[c])
    OBVIOUS
  <2>1. DOMAIN turns'[c] = 1..Len(turns'[c])
    BY LenProperties DEF GroupsKept, TurnsOK
  <2> QED
    BY <2>1, Domains DEF GroupsKept
<1>2. \A c \in Conversations : \A i \in DOMAIN turns'[c] :
        /\ i \in DOMAIN turns[c]
        /\ turns'[c][i].ext = turns[c][i].ext
        /\ turns'[c][i].frags = turns[c][i].frags
        /\ turns'[c][i].status = "open" => turns[c][i].status = "open"
  BY <1>1 DEF GroupsKept
<1>3. FragmentInOneTurn'
  BY <1>2 DEF GroupInv, FragmentInOneTurn
<1>4. OneOpenImplicitTurn'
  BY <1>2 DEF GroupInv, OneOpenImplicitTurn, Status
<1> QED
  BY <1>3, <1>4 DEF GroupInv

\* A row that is replaced by one of the same group.
LEMMA RowKeepsGroups ==
  ASSUME TurnsOK, NEW c \in Conversations, NEW i \in DOMAIN turns[c], NEW row \in Turn,
         SetRow(c, i, row), row.ext = turns[c][i].ext, row.frags = turns[c][i].frags,
         row.status = "open" => turns[c][i].status = "open"
  PROVE  GroupsKept
<1>1. /\ TurnsOK'
      /\ \A d \in Conversations : Len(turns'[d]) = Len(turns[d])
      /\ turns'[c][i] = row
      /\ \A d \in Conversations : \A k \in 1..Len(turns[d]) :
           <<d, k>> # <<c, i>> => turns'[d][k] = turns[d][k]
  BY RowReplaced
<1> QED
  BY <1>1 DEF GroupsKept

LEMMA UnchangedKeepsGroups ==
  ASSUME TurnsOK, UNCHANGED turns
  PROVE  GroupsKept
BY DEF GroupsKept, TurnsOK

-----------------------------------------------------------------------------
(* Staging.                                                                *)

\* The rows after a fragment joined an open turn.
LEMMA RowsAfterJoin ==
  ASSUME TurnsOK, NEW e \in Envelopes, NEW c, c = e.conversation,
         NEW i \in DOMAIN turns[c], JoinTurn(e, i)
  PROVE  /\ TurnsOK'
         /\ \A d \in Conversations : Len(turns'[d]) = Len(turns[d])
         /\ turns'[c][i] = WithFragment(turns[c][i], e)
         /\ \A d \in Conversations : \A k \in 1..Len(turns[d]) :
              <<d, k>> # <<c, i>> => turns'[d][k] = turns[d][k]
<1>1. c \in Conversations
  BY DEF Conversations
<1>2. WithFragment(turns[c][i], e) \in Turn
  BY <1>1, Domains, WithFragmentTyped
<1>3. SetRow(c, i, WithFragment(turns[c][i], e))
  BY DEF JoinTurn
<1> QED
  BY <1>1, <1>2, <1>3, RowReplaced

\* The rows after a turn was started.
LEMMA RowsAfterStart ==
  ASSUME TurnsOK, NEW e \in Envelopes, NEW c, c = e.conversation, StartTurn(e)
  PROVE  /\ TurnsOK'
         /\ Len(turns'[c]) = Len(turns[c]) + 1
         /\ \A k \in 1..Len(turns[c]) : turns'[c][k] = turns[c][k]
         /\ turns'[c][Len(turns[c]) + 1] = WithFragment(NewTurn(e.turn), e)
         /\ \A d \in Conversations : d # c => turns'[d] = turns[d]
<1> DEFINE row == WithFragment(NewTurn(e.turn), e)
<1>1. c \in Conversations /\ e.turn \in ExternalIds
  BY DEF Conversations, ExternalIds
<1>2. row \in Turn
  BY <1>1, NewTurnTyped, WithFragmentTyped
<1>3. SetRows(c, Append(turns[c], row)) /\ turns[c] \in Seq(Turn)
  BY <1>1, Domains DEF StartTurn, SetRows
<1> HIDE DEF row
<1>4. /\ TurnsOK'
      /\ Len(turns'[c]) = Len(turns[c]) + 1
      /\ \A k \in 1..Len(turns[c]) : turns'[c][k] = turns[c][k]
      /\ turns'[c][Len(turns[c]) + 1] = row
      /\ \A d \in Conversations : d # c => turns'[d] = turns[d]
  BY <1>1, <1>2, <1>3, RowAppended
<1> QED
  BY <1>4 DEF row

\* The rows after a prompt replaced an open turn.
LEMMA RowsAfterAbort ==
  ASSUME TurnsOK, NEW e \in Envelopes, NEW c, c = e.conversation,
         NEW i \in DOMAIN turns[c], AbortAndStartTurn(e, i)
  PROVE  /\ TurnsOK'
         /\ Len(turns'[c]) = Len(turns[c]) + 1
         /\ \A k \in 1..Len(turns[c]) :
              turns'[c][k] = IF k = i THEN [turns[c][i] EXCEPT !.status = "aborted"] ELSE turns[c][k]
         /\ turns'[c][Len(turns[c]) + 1] = WithFragment(NewTurn(NoTurn), e)
         /\ \A d \in Conversations : d # c => turns'[d] = turns[d]
<1> DEFINE closed == [turns[c][i] EXCEPT !.status = "aborted"]
           rows == [turns[c] EXCEPT ![i] = closed]
           row == WithFragment(NewTurn(NoTurn), e)
<1>1. c \in Conversations /\ NoTurn \in ExternalIds
  BY DEF Conversations, ExternalIds
<1>2. turns[c] \in Seq(Turn) /\ i \in 1..Len(turns[c]) /\ turns[c][i] \in Turn
  BY <1>1, Domains
<1>3. closed \in Turn
  BY <1>2 DEF Turn, Statuses
<1>4. row \in Turn
  BY <1>1, NewTurnTyped, WithFragmentTyped
<1>5. SetRows(c, Append(rows, row))
  BY DEF AbortAndStartTurn, SetRows
<1> HIDE DEF closed, row
<1>6. /\ rows \in Seq(Turn)
      /\ Len(rows) = Len(turns[c])
      /\ \A k \in 1..Len(turns[c]) : rows[k] = IF k = i THEN closed ELSE turns[c][k]
  BY <1>2, <1>3, ExceptSeq
<1> HIDE DEF rows
<1>7. /\ TurnsOK'
      /\ Len(turns'[c]) = Len(rows) + 1
      /\ \A k \in 1..Len(rows) : turns'[c][k] = rows[k]
      /\ turns'[c][Len(rows) + 1] = row
      /\ \A d \in Conversations : d # c => turns'[d] = turns[d]
  BY <1>1, <1>4, <1>5, <1>6, RowAppended
<1> QED
  BY <1>6, <1>7 DEF closed, row

\* The three ways of staging a fragment.
LEMMA StageCases ==
  ASSUME NEW e \in Envelopes, Stage(e)
  PROVE  \/ \E i \in DOMAIN turns[e.conversation] :
              Status(e.conversation, i) = "open" /\ JoinTurn(e, i)
         \/ StartTurn(e) /\ (e.turn = NoTurn => OpenTurn(e) = {})
         \/ e.turn = NoTurn /\ \E i \in OpenTurn(e) : AbortAndStartTurn(e, i)
BY DEF Stage, StageExternal, StageImplicit, ExternalTurn, OpenTurn

\* The fragment goes to row n of its conversation, and nowhere else.
LEMMA StagedOnce ==
  ASSUME TurnsOK, NEW e \in Envelopes, NEW c, c = e.conversation, Stage(e)
  PROVE  /\ TurnsOK'
         /\ Len(turns[c]) <= Len(turns'[c])
         /\ \E n \in 1..Len(turns'[c]) :
              /\ turns'[c][n].frags \subseteq
                   (IF n <= Len(turns[c]) THEN turns[c][n].frags ELSE {}) \cup {e.fragment}
              /\ \A k \in 1..Len(turns'[c]) : k # n =>
                   k <= Len(turns[c]) /\ turns'[c][k].frags = turns[c][k].frags
         /\ \A d \in Conversations : d # c =>
              /\ Len(turns'[d]) = Len(turns[d])
              /\ \A k \in 1..Len(turns[d]) : turns'[d][k].frags = turns[d][k].frags
<1>1. /\ c \in Conversations /\ turns[c] \in Seq(Turn) /\ DOMAIN turns[c] = 1..Len(turns[c])
      /\ Len(turns[c]) \in Nat /\ \A k \in 1..Len(turns[c]) : turns[c][k] \in Turn
  BY Domains DEF Conversations
<1>2. CASE \E i \in DOMAIN turns[c] : JoinTurn(e, i)
  <2>1. PICK i \in 1..Len(turns[c]) : JoinTurn(e, i)
    BY <1>1, <1>2
  <2>2. /\ TurnsOK'
        /\ \A d \in Conversations : Len(turns'[d]) = Len(turns[d])
        /\ turns'[c][i] = WithFragment(turns[c][i], e)
        /\ \A d \in Conversations : \A k \in 1..Len(turns[d]) :
             <<d, k>> # <<c, i>> => turns'[d][k] = turns[d][k]
    BY <1>1, <2>1, RowsAfterJoin
  <2>3. WithFragment(turns[c][i], e).frags = turns[c][i].frags \cup {e.fragment}
    BY <1>1 DEF WithFragment, Turn
  <2>4. /\ i \in 1..Len(turns'[c])
        /\ turns'[c][i].frags \subseteq
             (IF i <= Len(turns[c]) THEN turns[c][i].frags ELSE {}) \cup {e.fragment}
        /\ \A k \in 1..Len(turns'[c]) : k # i =>
             k <= Len(turns[c]) /\ turns'[c][k].frags = turns[c][k].frags
    BY <1>1, <2>2, <2>3
  <2> QED
    BY <1>1, <2>2, <2>4
<1>3. CASE StartTurn(e) \/ \E i \in OpenTurn(e) : AbortAndStartTurn(e, i)
  <2> DEFINE n == Len(turns[c]) + 1
  <2>1. /\ TurnsOK'
        /\ Len(turns'[c]) = n
        /\ \A k \in 1..Len(turns[c]) : turns'[c][k].frags = turns[c][k].frags
        /\ turns'[c][n].frags = {e.fragment}
        /\ \A d \in Conversations : d # c => turns'[d] = turns[d]
    <3>0. \A x : WithFragment(NewTurn(x), e).frags = {e.fragment}
      BY DEF WithFragment, NewTurn
    <3>1. CASE StartTurn(e)
      <4> HIDE DEF n
      <4>1. /\ TurnsOK'
            /\ Len(turns'[c]) = n
            /\ \A k \in 1..Len(turns[c]) : turns'[c][k] = turns[c][k]
            /\ turns'[c][n] = WithFragment(NewTurn(e.turn), e)
            /\ \A d \in Conversations : d # c => turns'[d] = turns[d]
        BY <3>1, RowsAfterStart DEF n
      <4> QED
        BY <3>0, <4>1
    <3>2. CASE \E i \in OpenTurn(e) : AbortAndStartTurn(e, i)
      <4>1. PICK i \in DOMAIN turns[c] : AbortAndStartTurn(e, i)
        BY <3>2 DEF OpenTurn
      <4> DEFINE closed == [turns[c][i] EXCEPT !.status = "aborted"]
      <4> HIDE DEF n
      <4>2. /\ TurnsOK'
            /\ Len(turns'[c]) = n
            /\ \A k \in 1..Len(turns[c]) :
                 turns'[c][k] = IF k = i THEN closed ELSE turns[c][k]
            /\ turns'[c][n] = WithFragment(NewTurn(NoTurn), e)
            /\ \A d \in Conversations : d # c => turns'[d] = turns[d]
        BY <4>1, RowsAfterAbort DEF n
      <4>3. closed.frags = turns[c][i].frags
        BY <1>1, <4>1 DEF Turn
      <4> HIDE DEF closed
      <4> QED
        BY <3>0, <4>2, <4>3
    <3> QED
      BY <1>3, <3>1, <3>2
  <2>2. n \in 1..Len(turns'[c]) /\ ~(n <= Len(turns[c]))
    BY <1>1, <2>1
  <2>3. \A k \in 1..Len(turns'[c]) : k # n =>
          k <= Len(turns[c]) /\ turns'[c][k].frags = turns[c][k].frags
    BY <1>1, <2>1
  <2> HIDE DEF n
  <2>4. turns'[c][n].frags \subseteq
          (IF n <= Len(turns[c]) THEN turns[c][n].frags ELSE {}) \cup {e.fragment}
    BY <2>1, <2>2
  <2>5. Len(turns[c]) <= Len(turns'[c])
    BY <1>1, <2>1 DEF n
  <2> QED
    BY <2>1, <2>2, <2>3, <2>4, <2>5
<1> QED
  BY <1>2, <1>3, StageCases

LEMMA StageKeepsFragments ==
  ASSUME TurnsOK, FragmentInOneTurn, NEW e \in Envelopes, Stage(e)
  PROVE  FragmentInOneTurn'
<1> DEFINE c == e.conversation
           f == e.fragment
<1>1. c \in Conversations
  BY DEF Conversations
<1>2. PICK n \in 1..Len(turns'[c]) :
        /\ turns'[c][n].frags \subseteq
             (IF n <= Len(turns[c]) THEN turns[c][n].frags ELSE {}) \cup {f}
        /\ \A k \in 1..Len(turns'[c]) : k # n =>
             k <= Len(turns[c]) /\ turns'[c][k].frags = turns[c][k].frags
  BY StagedOnce
<1>3. /\ TurnsOK'
      /\ \A d \in Conversations : d # c =>
           /\ Len(turns'[d]) = Len(turns[d])
           /\ \A k \in 1..Len(turns[d]) : turns'[d][k].frags = turns[d][k].frags
  BY StagedOnce
<1>4. \A d \in Conversations :
        /\ DOMAIN turns[d] = 1..Len(turns[d]) /\ DOMAIN turns'[d] = 1..Len(turns'[d])
        /\ Len(turns[d]) \in Nat /\ Len(turns'[d]) \in Nat
  BY <1>3, LenProperties DEF TurnsOK
<1>5. \A d \in Conversations : \A k \in DOMAIN turns[d] : f \notin turns[d][k].frags
  BY DEF Stage, Known
<1> HIDE DEF c, f
\* A fragment of a row that is not new in it was there before, in the same row.
<1>6. ASSUME NEW d \in Conversations, NEW k \in DOMAIN turns'[d], NEW g \in turns'[d][k].frags
      PROVE  \/ g = f /\ d = c /\ k = n
             \/ g # f /\ k \in DOMAIN turns[d] /\ g \in turns[d][k].frags
  <2>1. CASE d # c
    BY <1>3, <1>4, <1>5, <1>6, <2>1
  <2>2. CASE d = c /\ k # n
    BY <1>1, <1>2, <1>4, <1>5, <1>6, <2>2
  <2>3. CASE d = c /\ k = n
    BY <1>1, <1>2, <1>4, <1>5, <1>6, <2>3
  <2> QED
    BY <2>1, <2>2, <2>3
<1> QED
  BY <1>6 DEF FragmentInOneTurn

LEMMA StageKeepsImplicit ==
  ASSUME TurnsOK, OneOpenImplicitTurn, NEW e \in Envelopes, Stage(e)
  PROVE  OneOpenImplicitTurn'
<1> DEFINE c == e.conversation
           Implicit(d, k) == turns[d][k].status = "open" /\ turns[d][k].ext = NoTurn
<1>1. /\ c \in Conversations /\ DOMAIN turns[c] = 1..Len(turns[c]) /\ Len(turns[c]) \in Nat
      /\ \A k \in 1..Len(turns[c]) : turns[c][k] \in Turn
  BY Domains DEF Conversations
<1>2. \A d \in Conversations : DOMAIN turns[d] = 1..Len(turns[d])
  BY Domains
<1> SUFFICES ASSUME NEW d \in Conversations, NEW j \in DOMAIN turns'[d], NEW k \in DOMAIN turns'[d],
                    Implicit(d, j)', Implicit(d, k)'
             PROVE  j = k
  BY DEF OneOpenImplicitTurn, Status
<1>3. \A x, y \in DOMAIN turns[d] : Implicit(d, x) /\ Implicit(d, y) => x = y
  BY DEF OneOpenImplicitTurn, Status
<1>4. CASE \E i \in DOMAIN turns[c] : Status(c, i) = "open" /\ JoinTurn(e, i)
  <2>1. PICK i \in DOMAIN turns[c] : Status(c, i) = "open" /\ JoinTurn(e, i)
    BY <1>4
  <2>2. /\ TurnsOK'
        /\ \A x \in Conversations : Len(turns'[x]) = Len(turns[x])
        /\ turns'[c][i] = WithFragment(turns[c][i], e)
        /\ \A x \in Conversations : \A y \in 1..Len(turns[x]) :
             <<x, y>> # <<c, i>> => turns'[x][y] = turns[x][y]
    BY <2>1, RowsAfterJoin
  <2>3. DOMAIN turns'[d] = 1..Len(turns[d])
    BY <2>2, LenProperties DEF TurnsOK
  <2>4. WithFragment(turns[c][i], e).ext = turns[c][i].ext
    BY <1>1, <2>1 DEF WithFragment, Turn
  <2>5. \A y \in DOMAIN turns'[d] : Implicit(d, y)' => y \in DOMAIN turns[d] /\ Implicit(d, y)
    BY <1>2, <2>1, <2>2, <2>3, <2>4 DEF Status
  <2> QED
    BY <1>3, <2>5
<1>5. CASE StartTurn(e) /\ (e.turn = NoTurn => OpenTurn(e) = {})
  <2>1. /\ TurnsOK'
        /\ Len(turns'[c]) = Len(turns[c]) + 1
        /\ \A y \in 1..Len(turns[c]) : turns'[c][y] = turns[c][y]
        /\ turns'[c][Len(turns[c]) + 1] = WithFragment(NewTurn(e.turn), e)
        /\ \A x \in Conversations : x # c => turns'[x] = turns[x]
    BY <1>5, RowsAfterStart
  <2>2. DOMAIN turns'[d] = 1..Len(turns'[d])
    BY <2>1, LenProperties DEF TurnsOK
  <2>3. WithFragment(NewTurn(e.turn), e).ext = e.turn
    BY DEF WithFragment, NewTurn
  <2>4. e.turn = NoTurn => \A y \in DOMAIN turns[c] : ~Implicit(c, y)
    BY <1>5 DEF OpenTurn, Status
  <2>5. CASE d # c
    BY <1>3, <2>1, <2>5
  <2>6. CASE d = c
    <3>1. ASSUME NEW y \in DOMAIN turns'[d], Implicit(d, y)'
          PROVE  \/ y \in DOMAIN turns[d] /\ Implicit(d, y)
                 \/ y = Len(turns[c]) + 1 /\ e.turn = NoTurn
      <4>1. y \in 1..Len(turns[c]) \/ y = Len(turns[c]) + 1
        BY <1>1, <2>1, <2>2, <2>6
      <4> QED
        BY <1>2, <2>1, <2>3, <2>6, <3>1, <4>1
    <3> QED
      BY <1>3, <2>4, <2>6, <3>1
  <2> QED
    BY <2>5, <2>6
<1>6. CASE e.turn = NoTurn /\ \E i \in OpenTurn(e) : AbortAndStartTurn(e, i)
  <2>1. PICK i \in DOMAIN turns[c] : Implicit(c, i) /\ AbortAndStartTurn(e, i)
    BY <1>6 DEF OpenTurn, Status
  <2>2. /\ TurnsOK'
        /\ Len(turns'[c]) = Len(turns[c]) + 1
        /\ \A y \in 1..Len(turns[c]) :
             turns'[c][y] = IF y = i THEN [turns[c][i] EXCEPT !.status = "aborted"] ELSE turns[c][y]
        /\ \A x \in Conversations : x # c => turns'[x] = turns[x]
    BY <2>1, RowsAfterAbort
  <2>3. DOMAIN turns'[d] = 1..Len(turns'[d])
    BY <2>2, LenProperties DEF TurnsOK
  <2>4. [turns[c][i] EXCEPT !.status = "aborted"].status = "aborted"
    BY <1>1, <2>1 DEF Turn
  <2>5. CASE d # c
    BY <1>3, <2>2, <2>5
  <2>6. CASE d = c
    <3>1. ASSUME NEW y \in DOMAIN turns'[d], Implicit(d, y)'
          PROVE  y = Len(turns[c]) + 1
      <4>1. y \in 1..Len(turns[c]) \/ y = Len(turns[c]) + 1
        BY <1>1, <2>2, <2>3, <2>6
      <4>2. CASE y \in 1..Len(turns[c])
        <5>1. y # i /\ turns'[d][y] = turns[d][y]
          BY <2>2, <2>4, <2>6, <3>1, <4>2
        <5> QED
          BY <1>2, <1>3, <2>1, <2>6, <3>1, <4>2, <5>1
      <4> QED
        BY <4>1, <4>2
    <3> QED
      BY <2>6, <3>1
  <2> QED
    BY <2>5, <2>6
<1> QED
  BY <1>4, <1>5, <1>6, StageCases

LEMMA StageKeepsGroups ==
  ASSUME TurnsOK, GroupInv, NEW e \in Envelopes, Stage(e)
  PROVE  GroupInv'
BY StageKeepsFragments, StageKeepsImplicit DEF GroupInv

-----------------------------------------------------------------------------
(* The other steps.                                                        *)

LEMMA ClaimKeepsGroups ==
  ASSUME TurnsOK, NEW s \in Servers, ClaimNextDueTurn(s)
  PROVE  GroupsKept
<1>1. PICK c \in Conversations : \E i \in DOMAIN turns[c] :
        SetRow(c, i, [turns[c][i] EXCEPT !.status = "processing"])
  BY DEF ClaimNextDueTurn
<1>2. PICK i \in DOMAIN turns[c] : SetRow(c, i, [turns[c][i] EXCEPT !.status = "processing"])
  BY <1>1
<1> DEFINE row == [turns[c][i] EXCEPT !.status = "processing"]
<1>3. turns[c][i] \in Turn
  BY Domains
<1>4. /\ row \in Turn /\ row.ext = turns[c][i].ext /\ row.frags = turns[c][i].frags
      /\ row.status = "processing"
  BY <1>3 DEF Turn, Statuses
<1> HIDE DEF row
<1> QED
  BY <1>2, <1>4, RowKeepsGroups DEF row

\* The steps that change the row a dispatcher holds.
LEMMA HeldKeepsGroups ==
  ASSUME QueueInv, NEW s \in Servers, DispatchTurn(s) \/ PersistTurn(s) \/ SettleTurn(s)
  PROVE  GroupsKept
<1>1. PICK c, i : c = job[s].conversation /\ i = job[s].index
  OBVIOUS
<1>2. c \in Conversations /\ i \in DOMAIN turns[c] /\ turns[c][i] \in Turn /\ job[s] \in Job
  BY <1>1, HeldJob DEF DispatchTurn, PersistTurn, SettleTurn, Goto, Holding
<1> DEFINE old == turns[c][i]
           Same(row) == row \in Turn /\ row.ext = old.ext /\ row.frags = old.frags
                          /\ (row.status = "open" => old.status = "open")
<1>3. CASE DispatchTurn(s)
  <2> DEFINE row == [old EXCEPT !.calls = IF old.calls > MaxAttempts THEN old.calls ELSE old.calls + 1]
  <2>1. SetRow(c, i, row)
    BY <1>1, <1>3 DEF DispatchTurn
  <2>2. Same(row)
    BY <1>2, MaxAttemptsPositive DEF Turn
  <2> HIDE DEF row
  <2> QED
    BY <1>2, <2>1, <2>2, InvParts, RowKeepsGroups
<1>4. CASE PersistTurn(s)
  <2> DEFINE row == [old EXCEPT !.status = "stored", !.next = "none"]
  <2>1. SetRow(c, i, row)
    BY <1>1, <1>4 DEF PersistTurn
  <2>2. Same(row)
    BY <1>2 DEF Turn, Statuses
  <2> HIDE DEF row
  <2> QED
    BY <1>2, <2>1, <2>2, InvParts, RowKeepsGroups
<1>5. CASE SettleTurn(s)
  <2> DEFINE row == Verdict(old, job[s])
  <2>1. SetRow(c, i, row)
    BY <1>1, <1>5 DEF SettleTurn
  <2>2. Same(row)
    BY <1>2 DEF Verdict, Turn, Statuses, Job
  <2> HIDE DEF row
  <2> QED
    BY <1>2, <2>1, <2>2, InvParts, RowKeepsGroups
<1> QED
  BY <1>3, <1>4, <1>5

LEMMA RecoveryKeepsGroups ==
  ASSUME TurnsOK, RecoverProcessingTurns
  PROVE  GroupsKept
<1>1. TurnsOK'
  BY RecoverRows DEF RowsEvolve
<1>2. \A row \in Turn :
        /\ Recovered(row).ext = row.ext /\ Recovered(row).frags = row.frags
        /\ Recovered(row).status = "open" => row.status = "open"
  BY DEF Recovered, Turn, Statuses
<1>3. ASSUME NEW c \in Conversations
      PROVE  /\ Len(turns'[c]) = Len(turns[c])
             /\ \A i \in 1..Len(turns[c]) : turns'[c][i] = Recovered(turns[c][i])
  <2>1. turns'[c] = [i \in 1..Len(turns[c]) |-> Recovered(turns[c][i])]
    BY Domains DEF RecoverProcessingTurns
  <2>2. DOMAIN turns'[c] = 1..Len(turns'[c]) /\ Len(turns'[c]) \in Nat /\ Len(turns[c]) \in Nat
    BY <1>1, LenProperties DEF TurnsOK
  <2>3. 1..Len(turns'[c]) = 1..Len(turns[c])
    BY <2>1, <2>2
  <2> QED
    BY <2>1, <2>2, <2>3
<1> QED
  BY <1>1, <1>2, <1>3, Domains DEF GroupsKept

LEMMA BackoffKeepsGroups ==
  ASSUME TurnsOK, NEW c \in Conversations, NEW i \in DOMAIN turns[c], BackoffElapses(c, i)
  PROVE  GroupsKept
<1> DEFINE row == [turns[c][i] EXCEPT !.next = "due"]
<1>1. turns[c][i] \in Turn
  BY Domains
<1>2. /\ row \in Turn /\ row.ext = turns[c][i].ext /\ row.frags = turns[c][i].frags
      /\ row.status = turns[c][i].status
  BY <1>1 DEF Turn
<1>3. SetRow(c, i, row)
  BY DEF BackoffElapses
<1> HIDE DEF row
<1> QED
  BY <1>2, <1>3, RowKeepsGroups

\* Only a hook's post adds, opens, renames or extends a turn.
LEMMA StagedOrKept == QueueInv /\ [Next]_vars => GroupsKept \/ \E e \in Envelopes : Stage(e)
<1> SUFFICES ASSUME QueueInv, [Next]_vars PROVE GroupsKept \/ \E e \in Envelopes : Stage(e)
  OBVIOUS
<1>0. TurnsOK
  BY InvParts
<1>1. ASSUME NEW s \in Servers, NEW e \in Envelopes, Ingest(s, e) PROVE Stage(e) \/ GroupsKept
  BY <1>0, <1>1, UnchangedKeepsGroups
  DEF Ingest, IngestFragment, IngestCancelled, IngestDuplicate
<1>2. ASSUME NEW s \in Servers, Schedule(s) PROVE GroupsKept
  BY <1>0, <1>2, ClaimKeepsGroups, UnchangedKeepsGroups
  DEF Schedule, ClaimNothing, NextDueDeadline, WakeByNotify, WakeByTimer
<1>3. ASSUME NEW s \in Servers, Process(s) PROVE GroupsKept
  BY <1>0, <1>3, HeldKeepsGroups, UnchangedKeepsGroups
  DEF Process, OutOfAttempts, BuildWindowFails, PersistRefused, ActorRetryable,
      ActorUnrecoverable, SettleRefused
<1>4. ASSUME NEW s \in Servers, DispatcherDatabaseError(s) \/ Recover(s) PROVE GroupsKept
  BY <1>0, <1>4, RecoveryKeepsGroups, UnchangedKeepsGroups
  DEF DispatcherDatabaseError, Recover, RecoverAfterError, RecoveryFails
<1>5. ASSUME NEW s \in Servers, Lifecycle(s) PROVE GroupsKept
  BY <1>0, <1>5, RecoveryKeepsGroups, UnchangedKeepsGroups
  DEF Lifecycle, Boot, Bind, BindFails, Crash, Stop
<1>6. ASSUME NEW c \in Conversations, NEW i \in DOMAIN turns[c], BackoffElapses(c, i) PROVE GroupsKept
  BY <1>0, <1>6, BackoffKeepsGroups
<1>7. CASE UNCHANGED vars
  BY <1>0, <1>7, UnchangedKeepsGroups DEF vars
<1> QED
  BY <1>1, <1>2, <1>3, <1>4, <1>5, <1>6, <1>7 DEF Next

LEMMA NextKeepsGroups == QueueInv /\ GroupInv /\ [Next]_vars => GroupInv'
BY InvParts, StagedOrKept, StageKeepsGroups, KeptGroups

\* The groups are sound in every reachable state.
LEMMA GroupInvariance == Spec => []GroupInv
<1>1. Init => GroupInv
  BY DEF Init, GroupInv, FragmentInOneTurn, OneOpenImplicitTurn
<1> QED
  BY <1>1, NextKeepsGroups, QueueInvariance, PTL DEF Spec

\* A fragment belongs to one turn, however often and to whichever server it is
\* posted, with or without a turn id.
THEOREM FragmentInOneTurnHolds == Spec => []FragmentInOneTurn
BY GroupInvariance, PTL DEF GroupInv

\* A conversation has one open turn without an external id at most.
THEOREM OneOpenImplicitTurnHolds == Spec => []OneOpenImplicitTurn
BY GroupInvariance, PTL DEF GroupInv

-----------------------------------------------------------------------------
(* The refinement of TurnLog.                                              *)
(*                                                                         *)
(* A step of the queue starts a turn (Accept), replaces an open one        *)
(* (Supersede), ends a processing one (Store, Drop, Fail), or changes the  *)
(* outcome of no turn and writes no note.  The guards of the first two are *)
(* those of the code.  The guard of the others, that no earlier turn is    *)
(* pending or failed, is nowhere in the code that stores a turn: it is     *)
(* NoOvertaking, which the claim query establishes and which the invariant *)
(* carries to the commit.                                                  *)

\* The state of the turn log, as Log substitutes it.
LogOutcome ==
  [c \in Conversations |-> [i \in DOMAIN turns[c] |-> Outcome(Status(c, i))]]

LogNotes ==
  [k \in DOMAIN memories |->
     [conversation |-> memories[k].conversation, index |-> memories[k].index]]

LogStep == [Log!LogNext]_(Log!logVars)

\* No turn is added and no outcome changes.
OutcomesKept ==
  \A c \in Conversations :
    /\ Len(turns'[c]) = Len(turns[c])
    /\ \A i \in 1..Len(turns[c]) : Outcome(turns'[c][i].status) = Outcome(turns[c][i].status)

-----------------------------------------------------------------------------
(* The mapped state.                                                       *)

LEMMA OutcomeTyped ==
  ASSUME NEW row \in Turn
  PROVE  Outcome(row.status) \in {"pending", "stored", "dropped", "failed"}
BY DEF Outcome, Turn, Statuses

\* The log of one conversation is a sequence as long as its rows.
LEMMA LogOfConversation ==
  ASSUME TurnsOK, NEW c \in Conversations
  PROVE  /\ LogOutcome[c] \in Seq({"pending", "stored", "dropped", "failed"})
         /\ Len(LogOutcome[c]) = Len(turns[c])
         /\ DOMAIN LogOutcome[c] = 1..Len(turns[c])
         /\ \A i \in 1..Len(turns[c]) : LogOutcome[c][i] = Outcome(turns[c][i].status)
<1> DEFINE n == Len(turns[c])
           log == [i \in 1..n |-> Outcome(turns[c][i].status)]
<1>1. n \in Nat /\ DOMAIN turns[c] = 1..n /\ \A i \in 1..n : turns[c][i] \in Turn
  BY Domains
<1>2. LogOutcome[c] = log
  BY <1>1 DEF LogOutcome, Status
<1>3. \A i \in 1..n : Outcome(turns[c][i].status) \in {"pending", "stored", "dropped", "failed"}
  BY <1>1, OutcomeTyped
<1> HIDE DEF n
<1>4. log \in Seq({"pending", "stored", "dropped", "failed"})
  BY <1>1, <1>3, IsASeq
<1>5. Len(log) = n /\ DOMAIN log = 1..n
  BY <1>1, <1>4, LenProperties
<1> QED
  BY <1>2, <1>4, <1>5 DEF n

\* A step that keeps the outcomes and the notes is invisible.
LEMMA Invisible ==
  ASSUME TurnsOK, TurnsOK', OutcomesKept, UNCHANGED memories
  PROVE  LogStep
<1>1. ASSUME NEW c \in Conversations
      PROVE  [i \in DOMAIN turns[c] |-> Outcome(Status(c, i))]'
               = [i \in DOMAIN turns[c] |-> Outcome(Status(c, i))]
  <2>1. DOMAIN turns[c] = 1..Len(turns[c]) /\ DOMAIN turns'[c] = 1..Len(turns'[c])
    BY LenProperties DEF TurnsOK
  <2> QED
    BY <2>1 DEF OutcomesKept, Status
<1>2. LogOutcome' = LogOutcome
  BY <1>1 DEF LogOutcome
<1>3. LogNotes' = LogNotes
  BY DEF LogNotes
<1> QED
  BY <1>2, <1>3 DEF LogStep, Log!logVars, LogOutcome, LogNotes

\* Replacing one row changes at most the outcome of its turn.
LEMMA OneOutcome ==
  ASSUME TurnsOK, NEW c \in Conversations, NEW i \in DOMAIN turns[c], NEW row \in Turn,
         SetRow(c, i, row)
  PROVE  /\ TurnsOK'
         /\ LogOutcome' = [LogOutcome EXCEPT ![c][i] = Outcome(row.status)]
         /\ Outcome(row.status) = Outcome(turns[c][i].status) => OutcomesKept
<1>1. /\ TurnsOK'
      /\ \A d \in Conversations : Len(turns'[d]) = Len(turns[d])
      /\ turns'[c][i] = row
      /\ \A d \in Conversations : \A k \in 1..Len(turns[d]) :
           <<d, k>> # <<c, i>> => turns'[d][k] = turns[d][k]
  BY RowReplaced
<1>2. \A d \in Conversations : DOMAIN turns[d] = 1..Len(turns[d]) /\ DOMAIN turns'[d] = 1..Len(turns'[d])
  BY <1>1, LenProperties DEF TurnsOK
<1>3. ASSUME NEW d \in Conversations
      PROVE  [k \in DOMAIN turns'[d] |-> Outcome(turns'[d][k].status)]
               = [LogOutcome EXCEPT ![c][i] = Outcome(row.status)][d]
  <2>1. CASE d = c
    BY <1>1, <1>2, <2>1 DEF LogOutcome, Status
  <2>2. CASE d # c
    BY <1>1, <1>2, <2>2 DEF LogOutcome, Status
  <2> QED
    BY <2>1, <2>2
<1>4. LogOutcome' = [LogOutcome EXCEPT ![c][i] = Outcome(row.status)]
  BY <1>3 DEF LogOutcome, Status
<1>5. Outcome(row.status) = Outcome(turns[c][i].status) => OutcomesKept
  BY <1>1 DEF OutcomesKept
<1> QED
  BY <1>1, <1>4, <1>5

LEMMA OneRowInvisible ==
  ASSUME TurnsOK, NEW c \in Conversations, NEW i \in DOMAIN turns[c], NEW row \in Turn,
         SetRow(c, i, row), Outcome(row.status) = Outcome(turns[c][i].status),
         UNCHANGED memories
  PROVE  LogStep
BY OneOutcome, Invisible

LEMMA NothingChanges ==
  ASSUME TurnsOK, UNCHANGED <<turns, memories>>
  PROVE  LogStep
BY Invisible DEF TurnsOK, OutcomesKept

-----------------------------------------------------------------------------
(* New turns.                                                              *)

\* A row is appended to a sequence that agrees with the rows of a conversation
\* except that turn i, if any, has been given outcome v.
LEMMA OutcomeAppended ==
  ASSUME TurnsOK, NEW c \in Conversations, NEW rows \in Seq(Turn), NEW row \in Turn,
         SetRows(c, Append(rows, row)), row.status \in {"open", "finalized"},
         NEW log \in Seq({"pending", "stored", "dropped", "failed"}),
         Len(log) = Len(rows),
         \A k \in 1..Len(rows) : log[k] = Outcome(rows[k].status)
  PROVE  TurnsOK' /\ LogOutcome' = [LogOutcome EXCEPT ![c] = Append(log, "pending")]
<1> DEFINE Out == {"pending", "stored", "dropped", "failed"}
           n == Len(rows)
<1>1. /\ TurnsOK'
      /\ Len(turns'[c]) = n + 1
      /\ \A k \in 1..n : turns'[c][k] = rows[k]
      /\ turns'[c][n + 1] = row
      /\ \A d \in Conversations : d # c => turns'[d] = turns[d]
  BY RowAppended
<1>2. n \in Nat
  BY LenProperties
<1>3. /\ Append(log, "pending") \in Seq(Out)
      /\ Len(Append(log, "pending")) = n + 1
      /\ \A k \in 1..n : Append(log, "pending")[k] = log[k]
      /\ Append(log, "pending")[n + 1] = "pending"
  BY AppendProperties
<1>4. /\ LogOutcome'[c] \in Seq(Out)
      /\ Len(LogOutcome'[c]) = n + 1
      /\ \A k \in 1..(n + 1) : LogOutcome'[c][k] = Outcome(turns'[c][k].status)
  <2>1. \A d \in Conversations :
          /\ DOMAIN turns'[d] = 1..Len(turns'[d]) /\ Len(turns'[d]) \in Nat
          /\ \A k \in 1..Len(turns'[d]) : turns'[d][k] \in Turn
    BY <1>1, ElementOfSeq, LenProperties DEF TurnsOK
  <2>2. LogOutcome'[c] = [k \in 1..(n + 1) |-> Outcome(turns'[c][k].status)]
    BY <1>1, <2>1 DEF LogOutcome, Status
  <2>3. \A k \in 1..(n + 1) : Outcome(turns'[c][k].status) \in Out
    BY <1>1, <2>1, OutcomeTyped
  <2> HIDE DEF n, Out
  <2>4. [k \in 1..(n + 1) |-> Outcome(turns'[c][k].status)] \in Seq(Out)
    BY <1>2, <2>3, IsASeq
  <2>5. Len(LogOutcome'[c]) = n + 1
    BY <1>2, <2>2, <2>4, LenProperties
  <2> QED
    BY <2>2, <2>4, <2>5
<1>5. Outcome(row.status) = "pending"
  BY DEF Outcome
<1>6. \A k \in 1..(n + 1) : LogOutcome'[c][k] = Append(log, "pending")[k]
  BY <1>1, <1>2, <1>3, <1>4, <1>5
<1> HIDE DEF Out, n
<1>7. LogOutcome'[c] = Append(log, "pending")
  BY <1>2, <1>3, <1>4, <1>6, SeqEqual
<1>8. \A d \in Conversations : d # c => LogOutcome'[d] = LogOutcome[d]
  BY <1>1 DEF LogOutcome, Status
<1> QED
  BY <1>1, <1>7, <1>8 DEF LogOutcome

LEMMA StartTurnLog ==
  ASSUME TurnsOK, NEW e \in Envelopes, StartTurn(e), UNCHANGED memories
  PROVE  LogStep
<1> DEFINE c == e.conversation
           row == WithFragment(NewTurn(e.turn), e)
<1>1. c \in Conversations /\ e.turn \in ExternalIds
  BY DEF Conversations, ExternalIds
<1>2. row \in Turn /\ row.status \in {"open", "finalized"}
  BY <1>1, NewTurnTyped, WithFragmentTyped
<1>3. SetRows(c, Append(turns[c], row))
  BY DEF StartTurn, SetRows
<1> HIDE DEF c, row
<1>4. LogOutcome' = [LogOutcome EXCEPT ![c] = Append(LogOutcome[c], "pending")]
  BY <1>1, <1>2, <1>3, Domains, LogOfConversation, OutcomeAppended
<1>5. LogNotes' = LogNotes
  BY DEF LogNotes
<1>6. Log!Accept(c)
  BY <1>4, <1>5 DEF Log!Accept, LogOutcome, LogNotes
<1> QED
  BY <1>1, <1>6 DEF LogStep, Log!LogNext

LEMMA AbortAndStartTurnLog ==
  ASSUME TurnsOK, NEW e \in Envelopes, NEW i \in DOMAIN turns[e.conversation],
         Status(e.conversation, i) = "open", AbortAndStartTurn(e, i), UNCHANGED memories
  PROVE  LogStep
<1> DEFINE Out == {"pending", "stored", "dropped", "failed"}
           c == e.conversation
           closed == [turns[c][i] EXCEPT !.status = "aborted"]
           rows == [turns[c] EXCEPT ![i] = closed]
           log == [LogOutcome[c] EXCEPT ![i] = "dropped"]
           row == WithFragment(NewTurn(NoTurn), e)
<1>1. c \in Conversations /\ NoTurn \in ExternalIds
  BY DEF Conversations, ExternalIds
<1>2. turns[c] \in Seq(Turn) /\ i \in 1..Len(turns[c]) /\ turns[c][i] \in Turn
  BY <1>1, Domains
<1>3. closed \in Turn /\ closed.status = "aborted"
  BY <1>2 DEF Turn, Statuses
<1>4. row \in Turn /\ row.status \in {"open", "finalized"}
  BY <1>1, NewTurnTyped, WithFragmentTyped
<1>5. SetRows(c, Append(rows, row))
  BY DEF AbortAndStartTurn, SetRows
<1>6. turns[c][i].status = "open"
  BY DEF Status
<1> HIDE DEF c, closed, row, Out
<1>7. /\ rows \in Seq(Turn)
      /\ Len(rows) = Len(turns[c])
      /\ \A k \in 1..Len(turns[c]) : rows[k] = IF k = i THEN closed ELSE turns[c][k]
  BY <1>2, <1>3, ExceptSeq
<1>8. /\ LogOutcome[c] \in Seq(Out)
      /\ Len(LogOutcome[c]) = Len(turns[c])
      /\ DOMAIN LogOutcome[c] = 1..Len(turns[c])
      /\ \A k \in 1..Len(turns[c]) : LogOutcome[c][k] = Outcome(turns[c][k].status)
  BY <1>1, LogOfConversation DEF Out
<1>9. "dropped" \in Out
  BY DEF Out
<1>10. /\ log \in Seq(Out)
       /\ Len(log) = Len(turns[c])
       /\ \A k \in 1..Len(turns[c]) : log[k] = IF k = i THEN "dropped" ELSE LogOutcome[c][k]
  BY <1>2, <1>8, <1>9, ExceptSeq
<1>11. Outcome("aborted") = "dropped" /\ Outcome("open") = "pending"
  BY DEF Outcome
<1>12. \A k \in 1..Len(rows) : log[k] = Outcome(rows[k].status)
  BY <1>3, <1>7, <1>8, <1>10, <1>11
<1> HIDE DEF rows, log
<1>13. LogOutcome' = [LogOutcome EXCEPT ![c] = Append(log, "pending")]
  BY <1>1, <1>4, <1>5, <1>7, <1>10, <1>12, OutcomeAppended DEF Out
<1>14. LogOutcome[c][i] = "pending" /\ i \in DOMAIN LogOutcome[c] /\ LogNotes' = LogNotes
  BY <1>2, <1>6, <1>8, <1>11 DEF LogNotes
<1>15. Log!Supersede(c, i)
  BY <1>13, <1>14 DEF Log!Supersede, LogOutcome, LogNotes, log
<1> QED
  BY <1>1, <1>14, <1>15 DEF LogStep, Log!LogNext, LogOutcome

LEMMA StageLog ==
  ASSUME TurnsOK, NEW e \in Envelopes, Stage(e), UNCHANGED memories
  PROVE  LogStep
<1>1. CASE StartTurn(e)
  BY <1>1, StartTurnLog
<1>2. CASE \E i \in DOMAIN turns[e.conversation] : Status(e.conversation, i) = "open" /\ JoinTurn(e, i)
  <2>1. PICK i \in DOMAIN turns[e.conversation] :
          Status(e.conversation, i) = "open" /\ JoinTurn(e, i)
    BY <1>2
  <2> DEFINE row == WithFragment(turns[e.conversation][i], e)
  <2>2. e.conversation \in Conversations
    BY DEF Conversations
  <2>3. row \in Turn /\ row.status \in {"open", "finalized"}
    BY <2>1, <2>2, Domains, WithFragmentTyped DEF Status
  <2>4. Outcome(row.status) = Outcome(turns[e.conversation][i].status)
    BY <2>1, <2>3 DEF Outcome, Status
  <2>5. SetRow(e.conversation, i, row)
    BY <2>1 DEF JoinTurn
  <2> HIDE DEF row
  <2> QED
    BY <2>2, <2>3, <2>4, <2>5, OneRowInvisible
<1>3. CASE \E i \in DOMAIN turns[e.conversation] :
             Status(e.conversation, i) = "open" /\ AbortAndStartTurn(e, i)
  BY <1>3, AbortAndStartTurnLog
<1> QED
  BY <1>1, <1>2, <1>3 DEF Stage, StageExternal, StageImplicit, ExternalTurn, OpenTurn

-----------------------------------------------------------------------------
(* The end of a turn.                                                      *)

\* What the abstract guards ask of a processing turn.
LEMMA ProcessingInTurn ==
  ASSUME QueueInv, NEW c \in Conversations, NEW i \in DOMAIN turns[c],
         Status(c, i) = "processing"
  PROVE  i \in DOMAIN LogOutcome[c] /\ LogOutcome[c][i] = "pending" /\ Log!Unobstructed(c, i)
<1>1. DOMAIN turns[c] = 1..Len(turns[c]) /\ Len(turns[c]) \in Nat
  BY InvParts, Domains
<1>2. /\ DOMAIN LogOutcome[c] = 1..Len(turns[c])
      /\ \A k \in 1..Len(turns[c]) : LogOutcome[c][k] = Outcome(turns[c][k].status)
  BY InvParts, LogOfConversation
<1>3. \A k \in 1..(i - 1) : k \in 1..Len(turns[c]) /\ Settled(c, k)
  BY <1>1, InvParts DEF NoOvertaking, Begun
<1>4. \A k \in 1..(i - 1) : LogOutcome[c][k] \in {"stored", "dropped"}
  BY <1>2, <1>3 DEF Settled, Outcome, Status
<1>5. LogOutcome[c][i] = "pending"
  BY <1>1, <1>2 DEF Outcome, Status
<1> QED
  BY <1>1, <1>2, <1>4, <1>5 DEF Log!Unobstructed, LogOutcome

LEMMA SettleTurnLog ==
  ASSUME QueueInv, NEW s \in Servers, SettleTurn(s)
  PROVE  LogStep
<1>1. PICK c, i : c = job[s].conversation /\ i = job[s].index
  OBVIOUS
<1>2. c \in Conversations /\ i \in DOMAIN turns[c] /\ turns[c][i] \in Turn /\ job[s] \in Job
  BY <1>1, HeldJob DEF SettleTurn, Goto, Holding
<1> DEFINE row == Verdict(turns[c][i], job[s])
<1>3. row \in Turn /\ row.status \in {"finalized", "exhausted", "failed"}
  BY <1>2 DEF Verdict, Turn, Statuses, Job
<1>4. SetRow(c, i, row) /\ Status(c, i) = "processing" /\ UNCHANGED memories
  BY <1>1 DEF SettleTurn
<1> HIDE DEF row
<1>5. /\ i \in DOMAIN LogOutcome[c] /\ LogOutcome[c][i] = "pending" /\ Log!Unobstructed(c, i)
      /\ LogOutcome' = [LogOutcome EXCEPT ![c][i] = Outcome(row.status)]
      /\ LogNotes' = LogNotes
  BY <1>2, <1>3, <1>4, InvParts, ProcessingInTurn, OneOutcome DEF LogNotes
<1>6. CASE row.status = "finalized"
  <2>1. Outcome(row.status) = Outcome(turns[c][i].status)
    BY <1>4, <1>6 DEF Outcome, Status
  <2> QED
    BY <1>2, <1>3, <1>4, <2>1, InvParts, OneRowInvisible
<1>7. CASE row.status = "exhausted"
  <2>1. Outcome(row.status) = "dropped"
    BY <1>7 DEF Outcome
  <2>2. Log!Drop(c, i)
    BY <1>5, <2>1 DEF Log!Drop, LogOutcome, LogNotes
  <2> QED
    BY <1>2, <1>5, <2>2 DEF LogStep, Log!LogNext, LogOutcome
<1>8. CASE row.status = "failed"
  <2>1. Outcome(row.status) = "failed"
    BY <1>8 DEF Outcome
  <2>2. Log!Fail(c, i)
    BY <1>5, <2>1 DEF Log!Fail, LogOutcome, LogNotes
  <2> QED
    BY <1>2, <1>5, <2>2 DEF LogStep, Log!LogNext, LogOutcome
<1> QED
  BY <1>3, <1>6, <1>7, <1>8

\* The notes of the log when a note is appended.
LEMMA NotesAppended ==
  ASSUME memories \in Seq(Note), NEW note \in Note, memories' = Append(memories, note),
         NEW c, NEW i, c = note.conversation, i = note.index
  PROVE  LogNotes' = Append(LogNotes, [conversation |-> c, index |-> i])
<1> DEFINE Entry == [conversation : Conversations, index : Nat \ {0}]
           n == Len(memories)
           entry == [conversation |-> c, index |-> i]
<1>1. entry \in Entry
  BY DEF Note
<1>2. /\ memories' \in Seq(Note) /\ Len(memories') = n + 1 /\ memories'[n + 1] = note
      /\ \A k \in 1..n : memories'[k] = memories[k]
  BY AppendProperties
<1>3. /\ n \in Nat /\ DOMAIN memories = 1..n /\ DOMAIN memories' = 1..(n + 1)
      /\ \A k \in 1..n : memories[k] \in Note
  BY <1>2, ElementOfSeq, LenProperties
<1>4. LogNotes = [k \in 1..n |-> [conversation |-> memories[k].conversation,
                                  index |-> memories[k].index]]
  BY <1>3 DEF LogNotes
<1>5. LogNotes' = [k \in 1..(n + 1) |-> IF k = n + 1 THEN entry ELSE LogNotes[k]]
  BY <1>2, <1>3, <1>4 DEF LogNotes
<1>6. \A k \in 1..n : LogNotes[k] \in Entry
  BY <1>3, <1>4 DEF Note
<1> HIDE DEF n, entry, Entry
<1>7. LogNotes \in Seq(Entry) /\ Len(LogNotes) = n
  <2>1. LogNotes = [k \in 1..n |-> LogNotes[k]]
    BY <1>4
  <2>2. [k \in 1..n |-> LogNotes[k]] \in Seq(Entry)
    BY <1>3, <1>6, IsASeq
  <2>3. LogNotes \in Seq(Entry) /\ DOMAIN LogNotes = 1..n
    BY <1>4, <2>1, <2>2
  <2> QED
    BY <1>3, <2>3, LenProperties
<1>8. /\ Append(LogNotes, entry) \in Seq(Entry)
      /\ Len(Append(LogNotes, entry)) = n + 1
      /\ \A k \in 1..n : Append(LogNotes, entry)[k] = LogNotes[k]
      /\ Append(LogNotes, entry)[n + 1] = entry
  BY <1>1, <1>7, AppendProperties
<1>9. DOMAIN Append(LogNotes, entry) = 1..(n + 1)
  BY <1>8, LenProperties
<1>10. LogNotes' = Append(LogNotes, entry)
  <2> DEFINE N == [k \in 1..(n + 1) |-> IF k = n + 1 THEN entry ELSE LogNotes[k]]
  <2>1. \A k \in 1..(n + 1) : N[k] = Append(LogNotes, entry)[k] /\ N[k] \in Entry
    BY <1>1, <1>3, <1>6, <1>8
  <2>2. N \in Seq(Entry) /\ Len(N) = n + 1
    <3>1. \A k \in 1..(n + 1) : (IF k = n + 1 THEN entry ELSE LogNotes[k]) \in Entry
      BY <1>1, <1>3, <1>6
    <3>2. N \in Seq(Entry)
      BY <1>3, <3>1, IsASeq
    <3> QED
      BY <1>3, <3>2, LenProperties
  <2> HIDE DEF N
  <2>3. N = Append(LogNotes, entry)
    BY <1>8, <2>1, <2>2, SeqEqual
  <2> QED
    BY <1>5, <2>3 DEF N
<1> QED
  BY <1>10 DEF entry

LEMMA PersistTurnLog ==
  ASSUME QueueInv, NEW s \in Servers, PersistTurn(s)
  PROVE  LogStep
<1>1. PICK c, i : c = job[s].conversation /\ i = job[s].index
  OBVIOUS
<1>2. /\ c \in Conversations /\ i \in DOMAIN turns[c] /\ i \in Nat \ {0}
      /\ turns[c][i] \in Turn /\ job[s] \in Job
  BY <1>1, HeldJob DEF PersistTurn, Goto, Holding, Job
<1> DEFINE row == [turns[c][i] EXCEPT !.status = "stored", !.next = "none"]
           note == [conversation |-> c, index |-> i, window |-> job[s].window]
           entry == [conversation |-> c, index |-> i]
<1>3. row \in Turn /\ Outcome(row.status) = "stored"
  BY <1>2 DEF Turn, Statuses, Outcome
<1>4. /\ SetRow(c, i, row) /\ Status(c, i) = "processing"
      /\ memories' = Append(memories, note) /\ note \in Note
  BY <1>1, <1>2 DEF PersistTurn, Note, Job
<1>5. note.conversation = c /\ note.index = i
  OBVIOUS
<1> HIDE DEF row, note
<1>6. /\ i \in DOMAIN LogOutcome[c] /\ LogOutcome[c][i] = "pending" /\ Log!Unobstructed(c, i)
      /\ LogOutcome' = [LogOutcome EXCEPT ![c][i] = "stored"]
  BY <1>2, <1>3, <1>4, InvParts, ProcessingInTurn, OneOutcome
<1>7. LogNotes' = Append(LogNotes, entry)
  BY <1>2, <1>4, <1>5, InvParts, NotesAppended DEF TypeOK
<1>8. Log!Store(c, i)
  BY <1>6, <1>7 DEF Log!Store, LogOutcome, LogNotes
<1> QED
  BY <1>2, <1>6, <1>8 DEF LogStep, Log!LogNext, LogOutcome

-----------------------------------------------------------------------------
(* Every step.                                                             *)

LEMMA ClaimLog ==
  ASSUME TurnsOK, NEW s \in Servers, ClaimNextDueTurn(s)
  PROVE  LogStep
<1>1. PICK c \in Conversations : \E i \in DOMAIN turns[c] :
        Claimable(c, i) /\ SetRow(c, i, [turns[c][i] EXCEPT !.status = "processing"])
  BY DEF ClaimNextDueTurn
<1>2. PICK i \in DOMAIN turns[c] :
        Claimable(c, i) /\ SetRow(c, i, [turns[c][i] EXCEPT !.status = "processing"])
  BY <1>1
<1> DEFINE row == [turns[c][i] EXCEPT !.status = "processing"]
<1>0. turns[c][i] \in Turn
  BY Domains
<1>3. row \in Turn /\ row.status = "processing"
  BY <1>0 DEF Turn, Statuses
<1>4. Outcome(row.status) = Outcome(turns[c][i].status)
  BY <1>2, <1>3 DEF Claimable, Unblocked, Outcome, Status
<1> HIDE DEF row
<1> QED
  BY <1>2, <1>3, <1>4, OneRowInvisible DEF row, ClaimNextDueTurn

LEMMA DispatchTurnLog ==
  ASSUME QueueInv, NEW s \in Servers, DispatchTurn(s)
  PROVE  LogStep
<1>1. PICK c, i : c = job[s].conversation /\ i = job[s].index
  OBVIOUS
<1>2. c \in Conversations /\ i \in DOMAIN turns[c] /\ turns[c][i] \in Turn
  BY <1>1, HeldJob DEF DispatchTurn, Goto, Holding
<1> DEFINE calls == turns[c][i].calls
           row == [turns[c][i] EXCEPT !.calls = IF calls > MaxAttempts THEN calls ELSE calls + 1]
<1>3. row \in Turn /\ row.status = turns[c][i].status
  BY <1>2, MaxAttemptsPositive DEF Turn
<1>4. SetRow(c, i, row) /\ UNCHANGED memories
  BY <1>1 DEF DispatchTurn
<1> HIDE DEF row
<1> QED
  BY <1>2, <1>3, <1>4, InvParts, OneRowInvisible

LEMMA RecoveryLog ==
  ASSUME TurnsOK, RecoverProcessingTurns, UNCHANGED memories
  PROVE  LogStep
<1>1. TurnsOK'
  BY RecoverRows DEF RowsEvolve
<1>2. ASSUME NEW c \in Conversations
      PROVE  /\ Len(turns'[c]) = Len(turns[c])
             /\ \A i \in 1..Len(turns[c]) : turns'[c][i] = Recovered(turns[c][i])
  <2>1. turns'[c] = [i \in 1..Len(turns[c]) |-> Recovered(turns[c][i])]
    BY Domains DEF RecoverProcessingTurns
  <2>2. DOMAIN turns'[c] = 1..Len(turns'[c]) /\ Len(turns'[c]) \in Nat /\ Len(turns[c]) \in Nat
    BY <1>1, LenProperties DEF TurnsOK
  <2>3. 1..Len(turns'[c]) = 1..Len(turns[c])
    BY <2>1, <2>2
  <2> QED
    BY <2>1, <2>2, <2>3
<1>3. \A row \in Turn : Outcome(Recovered(row).status) = Outcome(row.status)
  BY DEF Turn, Recovered, Outcome
<1>4. OutcomesKept
  BY <1>2, <1>3, Domains DEF OutcomesKept
<1> QED
  BY <1>1, <1>4, Invisible

LEMMA BackoffElapsesLog ==
  ASSUME TurnsOK, NEW c \in Conversations, NEW i \in DOMAIN turns[c], BackoffElapses(c, i)
  PROVE  LogStep
<1> DEFINE row == [turns[c][i] EXCEPT !.next = "due"]
<1>0. turns[c][i] \in Turn
  BY Domains
<1>1. row \in Turn /\ row.status = turns[c][i].status
  BY <1>0 DEF Turn
<1>2. SetRow(c, i, row) /\ UNCHANGED memories
  BY DEF BackoffElapses
<1> HIDE DEF row
<1> QED
  BY <1>1, <1>2, OneRowInvisible

LEMMA InitLog == Init => Log!LogInit
BY DEF Init, Log!LogInit

LEMMA NextLog == QueueInv /\ [Next]_vars => LogStep
<1> SUFFICES ASSUME QueueInv, [Next]_vars PROVE LogStep
  OBVIOUS
<1>0. TurnsOK
  BY InvParts
<1>1. ASSUME NEW s \in Servers, NEW e \in Envelopes, Ingest(s, e) PROVE LogStep
  BY <1>0, <1>1, StageLog, NothingChanges
  DEF Ingest, IngestFragment, IngestCancelled, IngestDuplicate
<1>2. ASSUME NEW s \in Servers, Schedule(s) PROVE LogStep
  BY <1>0, <1>2, ClaimLog, NothingChanges
  DEF Schedule, ClaimNothing, NextDueDeadline, WakeByNotify, WakeByTimer
<1>3. ASSUME NEW s \in Servers, Process(s) PROVE LogStep
  BY <1>0, <1>3, DispatchTurnLog, PersistTurnLog, SettleTurnLog, NothingChanges
  DEF Process, OutOfAttempts, BuildWindowFails, PersistRefused, ActorRetryable,
      ActorUnrecoverable, SettleRefused
<1>4. ASSUME NEW s \in Servers, DispatcherDatabaseError(s) \/ Recover(s) PROVE LogStep
  BY <1>0, <1>4, RecoveryLog, NothingChanges
  DEF DispatcherDatabaseError, Recover, RecoverAfterError, RecoveryFails
<1>5. ASSUME NEW s \in Servers, Lifecycle(s) PROVE LogStep
  BY <1>0, <1>5, RecoveryLog, NothingChanges DEF Lifecycle, Boot, Bind, BindFails, Crash, Stop
<1>6. ASSUME NEW c \in Conversations, NEW i \in DOMAIN turns[c], BackoffElapses(c, i) PROVE LogStep
  BY <1>0, <1>6, BackoffElapsesLog
<1>7. CASE UNCHANGED vars
  BY <1>0, <1>7, NothingChanges DEF vars
<1> QED
  BY <1>1, <1>2, <1>3, <1>4, <1>5, <1>6, <1>7 DEF Next

\* The ingest queue implements the turn log: outcomes are final, are reached in
\* the order of the turns, and a turn is stored together with its one note,
\* for any number of servers on one database, any failures and any retry cap.
THEOREM ImplementsTurnLogHolds == Spec => ImplementsTurnLog
<1>1. QueueInv /\ [Next]_vars => [Log!LogNext]_(Log!logVars)
  BY NextLog DEF LogStep
<1> QED
  BY <1>1, InitLog, QueueInvariance, PTL DEF Spec, ImplementsTurnLog, Log!LogSpec
=============================================================================
