---------------------------- MODULE HookFragments ----------------------------
(***************************************************************************)
(* What memory-bank-hook makes of the payload that an agent gives it on    *)
(* its standard input (normalize/*.rs): a fragment to post, nothing, or an *)
(* error.  Each of the five agents has a parser of its own, with another   *)
(* idea of what may be missing.                                            *)
(*                                                                         *)
(* An event is named by its role in the conversation: "prompt" and "reply" *)
(* begin and end a turn, "call" and "result" are of a tool, "build" is the *)
(* second hook of OpenClaw for one prompt, "other" an event that no parser *)
(* knows.  A payload is a record; a field is a value, Absent or Blank.     *)
(*   session, turn   the conversation and the turn, or the run             *)
(*   named           the event it says it is about: "own", "another"       *)
(*   text, alt       the prompt or the reply, and where else it may be     *)
(*   worthy          an OpenCode message of the user, no summary, not      *)
(*                   reverted                                              *)
(*   tool, data      the name of a tool, and its arguments or its output   *)
(*   use             the id of the tool call, or of the message            *)
(*   active          stop_hook_active                                      *)
(*   stamp           what else tells one payload from another              *)
(***************************************************************************)
EXTENDS Naturals

CONSTANTS Absent, Blank

HookAgents == {"claude-code", "codex", "gemini-cli", "opencode", "openclaw"}

Missing(value) == value \in {Absent, Blank}
NonEmpty(value) == IF Missing(value) THEN Absent ELSE value
Or(value, other) == IF value = Absent THEN other ELSE value

Error == [kind |-> "error"]
Skip == [kind |-> "skip"]

\* Bug: the payload itself is not hashed.
FragmentIdOfKey(agent, session, turn, key, role, p) == <<agent, session, turn, key, role>>

\* A hash of the agent, what it knows of the event, and the payload as a whole.
FragmentId(agent, session, turn, key, role, p) == <<agent, session, turn, key, role, p>>

\* IngestEnvelope::validate.
Valid(f) ==
  /\ ~Missing(f.conversation[2])
  /\ f.turn # Blank
  /\ f.body.kind \in {"user_message", "assistant_message"} => ~Missing(f.body.text)
  /\ f.body.kind \in {"tool_call", "tool_result"} => ~Missing(f.body.name) /\ ~Missing(f.body.data)

Envelope(agent, session, turn, key, role, p, part) ==
  LET fragment == [kind |-> "fragment", conversation |-> <<agent, session>>, turn |-> turn,
                   id |-> FragmentId(agent, session, turn, key, role, p),
                   terminality |-> part.terminality, body |-> part.body] IN
  IF Valid(fragment) THEN fragment ELSE Error

\* The part of an envelope that says what has happened.
Part(terminality, body) == [kind |-> "part", terminality |-> terminality, body |-> body]
Prompt(text) == Part("none", [kind |-> "user_message", text |-> text])
Reply(terminality, text) == Part(terminality, [kind |-> "assistant_message", text |-> text])
Tool(role, name, data, use) ==
  Part("none", [kind |-> IF role = "call" THEN "tool_call" ELSE "tool_result",
                name |-> name, data |-> data, use |-> use])
Other(terminality, label, p) == Part(terminality, [kind |-> "other", label |-> label, payload |-> p])

\* A hook that runs because a stop hook asked the agent to go on is not the end.
Ended(p) == IF p.active THEN "soft" ELSE "hard"

-----------------------------------------------------------------------------
(* Claude Code: any event is passed on, an absent reply is replaced.       *)

ClaudeResolves(p) == p.named \in {Absent, "own"}

\* The session is the one field that must be there for the payload to parse.
ClaudeReads(p) == p.session # Absent

ClaudeText(p) == Or(p.text, p.alt)

\* Without arguments or output the tool has "{}" or "null".
ClaudeTool(role, p) ==
  IF Missing(p.tool) THEN Error ELSE Tool(role, p.tool, Or(p.data, Or(p.alt, "nothing")), p.use)

ClaudePart(role, p) ==
  CASE role = "prompt" -> IF Missing(ClaudeText(p)) THEN Error ELSE Prompt(ClaudeText(p))
    [] role \in {"call", "result"} -> ClaudeTool(role, p)
    [] role = "reply" -> Reply(Ended(p), Or(p.text, "unavailable"))
    [] OTHER -> Other("none", role, p)

ClaudeEnvelope(role, p, part) ==
  Envelope("claude-code", p.session, Absent, Absent, role, p, part)

ParseClaude(role, p) ==
  IF ~ClaudeReads(p) \/ ~ClaudeResolves(p) \/ ClaudePart(role, p) = Error THEN Error
  ELSE ClaudeEnvelope(role, p, ClaudePart(role, p))

-----------------------------------------------------------------------------
(* Codex: what lacks something is passed over, but the end of a turn never.*)

CodexResolves(role, p) == p.named = "own" /\ role \in {"prompt", "call", "result", "reply"}

CodexPart(role, p) ==
  CASE role = "prompt" -> IF Missing(p.text) THEN Skip ELSE Prompt(p.text)
    [] role \in {"call", "result"} ->
         IF Missing(p.tool) \/ p.data = Absent THEN Skip
         ELSE Tool(role, p.tool, p.data, NonEmpty(p.use))
    [] role = "reply" -> IF Missing(p.text) THEN Other(Ended(p), role, p)
                         ELSE Reply(Ended(p), p.text)

\* Codex alone tells the server which turn it is.
CodexEnvelope(role, p, part) ==
  Envelope("codex", p.session, NonEmpty(p.turn), NonEmpty(p.use), role, p, part)

ParseCodex(role, p) ==
  IF ~CodexResolves(role, p) THEN Error
  ELSE IF CodexPart(role, p) = Skip THEN Skip
  ELSE CodexEnvelope(role, p, CodexPart(role, p))

-----------------------------------------------------------------------------
(* Gemini: everything has to be there.                                     *)

GeminiResolves(role, p) == p.named = "own" /\ role \in {"prompt", "call", "result", "reply"}

GeminiPart(role, p) ==
  CASE role = "prompt" -> IF Missing(p.text) THEN Error ELSE Prompt(p.text)
    [] role \in {"call", "result"} ->
         IF Missing(p.tool) \/ p.data = Absent THEN Error ELSE Tool(role, p.tool, p.data, Absent)
    [] role = "reply" -> IF Missing(p.text) THEN Error ELSE Reply(Ended(p), p.text)

GeminiEnvelope(role, p, part) ==
  Envelope("gemini-cli", p.session, Absent, Absent, role, p, part)

ParseGemini(role, p) ==
  IF ~GeminiResolves(role, p) \/ GeminiPart(role, p) = Error THEN Error
  ELSE GeminiEnvelope(role, p, GeminiPart(role, p))

-----------------------------------------------------------------------------
(* OpenCode: messages that are not the user's, or have no text, are passed *)
(* over.                                                                   *)

OpenCodeResolves(role, p) ==
  p.named \in {Absent, "own"} /\ role \in {"prompt", "call", "result", "reply"}

\* The text of a message, or else of its parts.
OpenCodeText(p) == IF Missing(p.text) THEN p.alt ELSE p.text

OpenCodePart(role, p) ==
  CASE role = "prompt" -> IF ~p.worthy \/ Missing(OpenCodeText(p)) THEN Skip
                          ELSE Prompt(OpenCodeText(p))
    [] role \in {"call", "result"} ->
         IF Missing(p.tool) THEN Error ELSE Tool(role, p.tool, Or(p.data, "nothing"), p.use)
    [] role = "reply" -> IF Missing(p.text) THEN Skip ELSE Reply("hard", p.text)

OpenCodeEnvelope(role, p, part) ==
  Envelope("opencode", p.session, Absent, Or(p.use, "raw"), role, p, part)

ParseOpenCode(role, p) ==
  IF ~OpenCodeResolves(role, p) THEN Error
  ELSE IF OpenCodePart(role, p) \in {Skip, Error} THEN OpenCodePart(role, p)
  ELSE OpenCodeEnvelope(role, p, OpenCodePart(role, p))

-----------------------------------------------------------------------------
(* OpenClaw: like OpenCode, and the run stands in for the session.         *)

OpenClawResolves(role, p) == p.named \in {Absent, "own"} /\ role # "other"

OpenClawPart(role, p) ==
  CASE role \in {"prompt", "build"} -> IF Missing(p.text) THEN Skip ELSE Prompt(p.text)
    [] role \in {"call", "result"} ->
         IF Missing(p.tool) THEN Error
         ELSE Tool(role, p.tool, Or(p.data, "nothing"), NonEmpty(p.use))
    [] role = "reply" -> IF Missing(p.text) THEN Skip ELSE Reply("hard", p.text)

OpenClawSession(p) == NonEmpty(Or(p.session, p.turn))

OpenClawEnvelope(role, p, part) ==
  Envelope("openclaw", OpenClawSession(p), Absent, Or(p.use, Or(p.turn, "raw")), role, p, part)

ParseOpenClaw(role, p) ==
  IF ~OpenClawResolves(role, p) THEN Error
  ELSE IF OpenClawPart(role, p) \in {Skip, Error} THEN OpenClawPart(role, p)
  ELSE OpenClawEnvelope(role, p, OpenClawPart(role, p))

-----------------------------------------------------------------------------
\* EnvelopeParser::parse.
Parse(agent, role, p) ==
  CASE agent = "claude-code" -> ParseClaude(role, p)
    [] agent = "codex" -> ParseCodex(role, p)
    [] agent = "gemini-cli" -> ParseGemini(role, p)
    [] agent = "opencode" -> ParseOpenCode(role, p)
    [] agent = "openclaw" -> ParseOpenClaw(role, p)
=============================================================================
