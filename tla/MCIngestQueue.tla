--------------------------- MODULE MCIngestQueue ---------------------------
(***************************************************************************)
(* Instances of IngestQueue for TLC: which fragments the hooks post, and   *)
(* where the servers listen.                                               *)
(***************************************************************************)
EXTENDS IngestQueue, TLC

CONSTANTS s1, s2,              \* servers
          c1, c2,              \* conversations
          f1, f2, f3, f4, f5,  \* fragments
          x1                   \* an external turn id

Prompt(f, c, x) ==
  [fragment |-> f, conversation |-> c, turn |-> x, user |-> TRUE, terminality |-> "none"]

Reply(f, c, x) ==
  [fragment |-> f, conversation |-> c, turn |-> x, user |-> FALSE, terminality |-> "hard"]

\* Two turns of one conversation, with and without an id; either may come first,
\* and the one with the id without a prompt.
ShortTurns == {Prompt(f1, c1, NoTurn), Reply(f2, c1, x1), Reply(f3, c1, NoTurn)}

\* A conversation whose fragments carry an id only now and then; one fragment is
\* posted with and without it.
MixedTurns ==
  {Prompt(f1, c1, NoTurn), Reply(f2, c1, x1), Reply(f2, c1, NoTurn),
   Prompt(f3, c1, NoTurn), Reply(f4, c1, NoTurn)}

\* Two conversations, the turns of one with ids and of the other without; a prompt
\* of the other may supersede the one before it.
TwoConversations ==
  {Prompt(f1, c1, x1), Reply(f2, c1, x1),
   Prompt(f3, c2, NoTurn), Reply(f4, c2, NoTurn), Prompt(f5, c2, NoTurn)}

\* The servers of one namespace on one port.
SamePort == [s \in Servers |-> 1]

\* An attempt_count is only compared with the cap, and no bound keeps two servers
\* that restart each other's turns from counting on.  TLC tells states apart by
\* their counts up to the cap alone.
Counted(n) == IF AtCap(n) THEN MaxAttempts ELSE n

CountsUpToCap ==
  <<[c \in Conversations |->
       [i \in DOMAIN turns[c] |-> [turns[c][i] EXCEPT !.attempts = Counted(@)]]],
    [s \in Servers |->
       IF job[s] = NoJob THEN NoJob ELSE [job[s] EXCEPT !.attempts = Counted(@)]],
    memories, pc, permit, timer, listening, faults>>

ServerSymmetry == Permutations({s1, s2})
=============================================================================
