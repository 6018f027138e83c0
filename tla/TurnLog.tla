------------------------------ MODULE TurnLog ------------------------------
(***************************************************************************)
(* What the durable ingest queue promises, without saying how.             *)
(*                                                                         *)
(* Every conversation is an append-only log of turns.  A turn is pending   *)
(* until it is stored as one memory note, dropped (superseded before it    *)
(* was complete, or out of attempts) or failed.  An outcome is final, and  *)
(* no turn is stored, dropped for want of attempts, or failed before all   *)
(* the earlier turns of its conversation have been stored or dropped, so   *)
(* the notes of a conversation are written in the order of its turns.      *)
(*                                                                         *)
(* Fragments, attempts, timers, the dispatcher, the memory actor, crashes  *)
(* and competing server processes are all invisible here; IngestQueue      *)
(* implements this specification.                                          *)
(***************************************************************************)
EXTENDS Naturals, Sequences

CONSTANT Conversations

VARIABLES
  outcome,    \* outcome[c][i]: what became of the i-th turn of conversation c
  notes       \* the memory notes, in the order they were committed

logVars == <<outcome, notes>>

Outcomes == {"pending", "stored", "dropped", "failed"}

LogTypeOK ==
  /\ outcome \in [Conversations -> Seq(Outcomes)]
  /\ notes \in Seq([conversation : Conversations, index : Nat \ {0}])

LogInit ==
  /\ outcome = [c \in Conversations |-> <<>>]
  /\ notes = <<>>

\* No earlier turn of the conversation still stands in the way of turn i.
Unobstructed(c, i) ==
  \A k \in 1..(i - 1) : outcome[c][k] \in {"stored", "dropped"}

Accept(c) ==
  /\ outcome' = [outcome EXCEPT ![c] = Append(@, "pending")]
  /\ UNCHANGED notes

\* A new turn replaces one that will never be complete.
Supersede(c, i) ==
  /\ outcome[c][i] = "pending"
  /\ outcome' = [outcome EXCEPT
       ![c] = Append([@ EXCEPT ![i] = "dropped"], "pending")]
  /\ UNCHANGED notes

Store(c, i) ==
  /\ outcome[c][i] = "pending"
  /\ Unobstructed(c, i)
  /\ outcome' = [outcome EXCEPT ![c][i] = "stored"]
  /\ notes' = Append(notes, [conversation |-> c, index |-> i])

Drop(c, i) ==
  /\ outcome[c][i] = "pending"
  /\ Unobstructed(c, i)
  /\ outcome' = [outcome EXCEPT ![c][i] = "dropped"]
  /\ UNCHANGED notes

Fail(c, i) ==
  /\ outcome[c][i] = "pending"
  /\ Unobstructed(c, i)
  /\ outcome' = [outcome EXCEPT ![c][i] = "failed"]
  /\ UNCHANGED notes

LogNext ==
  \E c \in Conversations :
    \/ Accept(c)
    \/ \E i \in DOMAIN outcome[c] :
         Supersede(c, i) \/ Store(c, i) \/ Drop(c, i) \/ Fail(c, i)

LogSpec == LogInit /\ [][LogNext]_logVars
=============================================================================
