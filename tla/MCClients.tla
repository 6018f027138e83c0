----------------------------- MODULE MCClients -----------------------------
(* An instance of Clients for TLC. *)
EXTENDS Clients

\* A payload with everything, and what may be missing or different in one.
Whole == [session |-> "s1", turn |-> "t1", named |-> "own", text |-> "yes", alt |-> Absent,
          worthy |-> TRUE, tool |-> "sh", data |-> "d1", use |-> "u1", active |-> FALSE,
          messages |-> <<>>]
Event(role, p) == [role |-> role, payload |-> p]

\* The last message of the assistant is a call of a tool, without a text.
Message(role, text, id) == [role |-> role, text |-> text, id |-> id]
Spoken == <<Message("assistant", "yes", "u1"), Message("user", "go", Absent),
            Message("assistant", Absent, "u2")>>

\* A prompt, the use of a tool, the end of a turn.
Common == {Event("prompt", Whole), Event("call", Whole), Event("reply", Whole)}

\* What one agent in particular may leave out, or say twice.
Odd(a) ==
  CASE a = "claude-code" -> {Event("call", [Whole EXCEPT !.use = "u2"]),
                             Event("reply", [Whole EXCEPT !.text = Absent, !.active = TRUE]),
                             Event("reply", [Whole EXCEPT !.text = Blank]),
                             Event("result", [Whole EXCEPT !.data = Absent]),
                             Event("other", Whole)}
    [] a = "codex" -> {Event("call", [Whole EXCEPT !.use = "u2"]),
                       Event("reply", [Whole EXCEPT !.text = Absent]),
                       Event("call", [Whole EXCEPT !.data = Absent]),
                       Event("prompt", [Whole EXCEPT !.turn = Absent]),
                       Event("prompt", [Whole EXCEPT !.named = Absent])}
    [] a = "gemini-cli" -> {Event("reply", [Whole EXCEPT !.text = Absent]),
                            Event("prompt", [Whole EXCEPT !.named = "another"])}
    [] a = "opencode" -> {Event("result", [Whole EXCEPT !.data = Absent]),
                          Event("prompt", [Whole EXCEPT !.text = Blank, !.alt = "parts"]),
                          Event("prompt", [Whole EXCEPT !.worthy = FALSE])}
    [] a = "openclaw" -> {Event("build", Whole), Event("call", [Whole EXCEPT !.tool = Blank]),
                          Event("reply", [Whole EXCEPT !.text = Absent, !.use = Absent,
                                                       !.messages = Spoken])}

MCInputs ==
  [a \in HookAgents |->
    Odd(a) \cup IF a = "openclaw" THEN Common \ {Event("reply", Whole)} ELSE Common]
=============================================================================
