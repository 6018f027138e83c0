--------------------------- MODULE ClientsProofs ---------------------------
(***************************************************************************)
(* Proofs about Clients, for any number of requests at the same time,      *)
(* starts of the server, failures, events and inputs of an agent.          *)
(*                                                                         *)
(* The MCP proxy has one client, and a mutex around it. A request that is  *)
(* between its two attempts holds the mutex, so nobody else has replaced   *)
(* the client since it did; and a server that went down in the meantime    *)
(* has made the request a disturbed one.                                   *)
(*                                                                         *)
(* The events of the agent only grow, and each goes through its outcomes.  *)
(* The id of a fragment tells the event and the payload it was made of, so *)
(* two events with one id are one payload.                                 *)
(*                                                                         *)
(* That the plugin drops what was accepted, and nothing else, rests on its *)
(* cache: an entry is of an accepted event; a prompt or a reply that was   *)
(* accepted is remembered until as many other keys have come as the cache  *)
(* holds, for only the keys of later events come after its own; and while  *)
(* its entry is there, one of the same key is dropped until the window is  *)
(* over. That needs the order in which OpenClaw calls the plugin: a prompt *)
(* or a reply is remembered before anything else happens.                  *)
(***************************************************************************)
EXTENDS Clients, SequenceTheorems, FiniteSetTheorems, TLAPS

Serves == {"first", "reconnect", "second"}
CallPhases == {"idle", "waiting", "done"} \cup Serves

Request == [phase : CallPhases, quiet : BOOLEAN, ok : BOOLEAN]

ProxyTyped ==
  /\ starts \in Nat /\ server \in {0, starts}
  /\ calls \in [Callers -> Request]

\* At most one request uses the client: the one that holds the lock.
OneUsesClient == \A c \in Callers : calls[c].phase \in Serves => lock = c

\* An undisturbed request has a server; its second attempt is with a session of
\* the server that runs; and it ends well.
QuietIsServed ==
  \A c \in Callers : calls[c].quiet =>
    /\ InFlight(c) => server # 0
    /\ calls[c].phase = "second" => client = server
    /\ calls[c].phase = "done" => calls[c].ok

ProxyInv == ProxyTyped /\ OneUsesClient /\ QuietIsServed

-----------------------------------------------------------------------------
LEMMA InitProxyInv == Init => ProxyInv
  BY DEF Init, Idle, ProxyInv, ProxyTyped, OneUsesClient, QuietIsServed, InFlight,
         Request, CallPhases, Serves

\* A request is changed, and the others are not.
LEMMA OneRequest ==
  ASSUME ProxyTyped, NEW c \in Callers, NEW r \in Request, calls' = [calls EXCEPT ![c] = r]
  PROVE  /\ calls' \in [Callers -> Request]
         /\ calls'[c] = r
         /\ \A d \in Callers : d # c => calls'[d] = calls[d]
  BY DEF ProxyTyped

\* A request goes from one phase to another under the rules of the invariant; who
\* else is between two attempts does not change, nor the server.
LEMMA RequestKeeps ==
  ASSUME ProxyInv, NEW c \in Callers, NEW r \in Request, calls' = [calls EXCEPT ![c] = r],
         UNCHANGED <<server, starts>>,
         lock' = lock \/ (lock = Nobody /\ lock' = c) \/ (lock = c /\ lock' = Nobody),
         client' = client \/ (lock = c /\ lock' \in {c, Nobody}),
         r.phase \in Serves => lock' = c,
         r.quiet =>
           /\ r.phase \notin {"idle", "done"} => server # 0
           /\ r.phase = "second" => client' = server
           /\ r.phase = "done" => r.ok
  PROVE  ProxyInv'
  <1>1. /\ ProxyTyped /\ calls' \in [Callers -> Request]
        /\ calls'[c] = r
        /\ \A d \in Callers : d # c => calls'[d] = calls[d]
    BY OneRequest DEF ProxyInv
  <1>2. OneUsesClient'
    BY <1>1, NobodyIsNone DEF ProxyInv, OneUsesClient
  <1>3. QuietIsServed'
    <2> SUFFICES ASSUME NEW d \in Callers, calls'[d].quiet
                 PROVE  /\ InFlight(d)' => server # 0
                        /\ calls'[d].phase = "second" => client' = server
                        /\ calls'[d].phase = "done" => calls'[d].ok
      BY DEF QuietIsServed
    <2>1. CASE d = c
      BY <1>1, <2>1 DEF InFlight
    <2>2. CASE d # c
      <3>1. calls'[d] = calls[d]
        BY <1>1, <2>2
      <3>2. calls[d].phase = "second" => client' = client
        BY <2>2 DEF ProxyInv, OneUsesClient, Serves
      <3> QED
        BY <3>1, <3>2 DEF ProxyInv, QuietIsServed, InFlight
    <2> QED
      BY <2>1, <2>2
  <1> QED
    BY <1>1, <1>2, <1>3 DEF ProxyInv, ProxyTyped

\* Steps of the others.
LEMMA ElsewhereKeeps ==
  ASSUME ProxyInv, UNCHANGED <<server, starts, client, lock, calls>>
  PROVE  ProxyInv'
  BY DEF ProxyInv, ProxyTyped, OneUsesClient, QuietIsServed, InFlight

\* The server goes down: no request that is under way is undisturbed any more.
LEMMA DownKeeps ==
  ASSUME ProxyInv, Down
  PROVE  ProxyInv'
  <1>1. \A c \in Callers :
          calls'[c] = IF InFlight(c) THEN [calls[c] EXCEPT !.quiet = FALSE] ELSE calls[c]
    BY DEF Down
  <1>2. \A c \in Callers : calls[c] \in Request
    BY DEF ProxyInv, ProxyTyped
  <1>3. \A c \in Callers :
          /\ calls'[c] \in Request
          /\ calls'[c].phase = calls[c].phase /\ calls'[c].ok = calls[c].ok
          /\ calls'[c].quiet => calls[c].quiet /\ ~InFlight(c)
    BY <1>1, <1>2 DEF Request
  <1>4. ProxyTyped'
    BY <1>3 DEF Down, ProxyInv, ProxyTyped
  <1>5. OneUsesClient'
    BY <1>3 DEF Down, ProxyInv, OneUsesClient
  <1>6. QuietIsServed'
    BY <1>3 DEF ProxyInv, QuietIsServed, InFlight
  <1> QED
    BY <1>4, <1>5, <1>6 DEF ProxyInv

\* A server that comes up finds no undisturbed request under way.
LEMMA UpKeeps ==
  ASSUME ProxyInv, Up
  PROVE  ProxyInv'
  BY DEF Up, proxy, ProxyInv, ProxyTyped, OneUsesClient, QuietIsServed, InFlight

\* The first connection: no request is under way with a session yet.
LEMMA ConnectKeeps ==
  ASSUME ProxyInv, Connect
  PROVE  ProxyInv'
  BY DEF Connect, ProxyInv, ProxyTyped, OneUsesClient, QuietIsServed, InFlight

LEMMA CallKeeps ==
  ASSUME ProxyInv, NEW c \in Callers, Call(c)
  PROVE  ProxyInv'
  <1> DEFINE r == [Idle EXCEPT !.phase = "waiting", !.quiet = server # 0]
  <1>1. r \in Request /\ r.phase = "waiting" /\ (r.quiet => server # 0)
    BY DEF Idle, Request, CallPhases, Serves
  <1>2. calls' = [calls EXCEPT ![c] = r] /\ UNCHANGED <<server, starts, client, lock>>
    BY DEF Call
  <1> HIDE DEF r
  <1>3. r.phase \notin Serves /\ r.phase # "second" /\ r.phase # "done"
    BY <1>1 DEF Serves
  <1> QED
    BY <1>1, <1>2, <1>3, RequestKeeps

\* The request holds the lock and has been served by nobody else.
LEMMA HoldingRequest ==
  ASSUME ProxyInv, NEW c \in Callers
  PROVE  /\ calls[c] \in Request
         /\ calls[c].quiet /\ InFlight(c) => server # 0
         /\ calls[c].quiet /\ calls[c].phase = "second" => client = server
  BY DEF ProxyInv, ProxyTyped, QuietIsServed

LEMMA AcquireKeeps ==
  ASSUME ProxyInv, NEW c \in Callers, Acquire(c)
  PROVE  ProxyInv'
  <1> DEFINE r == [calls[c] EXCEPT !.phase = "first"]
  <1>1. calls[c] \in Request /\ (calls[c].quiet => server # 0)
    BY HoldingRequest DEF Acquire, InFlight
  <1>2. r \in Request /\ r.phase = "first" /\ r.quiet = calls[c].quiet
    BY <1>1 DEF Request, CallPhases, Serves
  <1>3. calls' = [calls EXCEPT ![c] = r] /\ lock = Nobody /\ lock' = c
        /\ UNCHANGED <<server, starts, client>>
    BY DEF Acquire
  <1> HIDE DEF r
  <1> QED
    BY <1>1, <1>2, <1>3, RequestKeeps

\* The answer to a request that holds the lock.
LEMMA AnswerKeeps ==
  ASSUME ProxyInv, NEW c \in Callers, NEW ok \in BOOLEAN, lock = c, Answer(c, ok),
         calls[c].quiet => ok, UNCHANGED <<server, starts>>
  PROVE  ProxyInv'
  <1> DEFINE r == [calls[c] EXCEPT !.phase = "done", !.ok = ok]
  <1>1. calls[c] \in Request
    BY HoldingRequest
  <1>2. r \in Request /\ r.phase = "done" /\ r.quiet = calls[c].quiet /\ r.ok = ok
    BY <1>1 DEF Request, CallPhases, Serves
  <1>3. calls' = [calls EXCEPT ![c] = r] /\ lock' = Nobody
    BY DEF Answer
  <1> HIDE DEF r
  <1>4. r.phase \notin Serves
    BY <1>2 DEF Serves
  <1> QED
    BY <1>2, <1>3, <1>4, RequestKeeps

\* A request that goes on to its next phase with the lock.
LEMMA GoesOnKeeps ==
  ASSUME ProxyInv, NEW c \in Callers, NEW phase \in Serves, lock = c,
         calls' = [calls EXCEPT ![c].phase = phase],
         calls[c].quiet => server # 0, calls[c].quiet /\ phase = "second" => client' = server,
         UNCHANGED <<server, starts, lock>>
  PROVE  ProxyInv'
  <1> DEFINE r == [calls[c] EXCEPT !.phase = phase]
  <1>1. calls[c] \in Request
    BY HoldingRequest
  <1>2. r \in Request /\ r.phase = phase /\ r.quiet = calls[c].quiet
    BY <1>1 DEF Request, CallPhases
  <1>3. calls' = [calls EXCEPT ![c] = r] /\ phase # "done"
    BY DEF Serves
  <1> HIDE DEF r
  <1> QED
    BY <1>2, <1>3, RequestKeeps

LEMMA CallUpstreamKeeps ==
  ASSUME ProxyInv, NEW c \in Callers, CallUpstream(c)
  PROVE  ProxyInv'
  <1>1. /\ calls[c].phase \in {"first", "second"} /\ lock = c
        /\ UNCHANGED <<server, starts, client>>
    BY DEF CallUpstream
  <1>2. /\ calls[c].quiet => server # 0
        /\ calls[c].quiet /\ calls[c].phase = "second" => client = server
    BY <1>1, HoldingRequest DEF InFlight
  <1>3. CASE client = server
    BY <1>1, <1>3, AnswerKeeps DEF CallUpstream
  <1>4. CASE client # server /\ calls[c].phase = "second"
    BY <1>1, <1>2, <1>4, AnswerKeeps DEF CallUpstream, FailedCall
  <1>5. CASE client # server /\ calls[c].phase = "first"
    BY <1>1, <1>2, <1>5, GoesOnKeeps DEF CallUpstream, FailedCall, Serves
  <1> QED
    BY <1>1, <1>3, <1>4, <1>5

\* A tool that fails makes the request a disturbed one.
LEMMA ToolErrorKeeps ==
  ASSUME ProxyInv, NEW c \in Callers, ToolError(c)
  PROVE  ProxyInv'
  <1>1. calls[c] \in Request /\ lock = c /\ UNCHANGED <<server, starts, client>>
    BY HoldingRequest DEF ToolError
  <1>2. CASE calls[c].phase = "second"
    <2> DEFINE r == [phase |-> "done", quiet |-> FALSE, ok |-> FALSE]
    <2>1. r \in Request /\ r.phase = "done" /\ ~r.quiet /\ r.phase \notin Serves
      BY DEF Request, CallPhases, Serves
    <2>2. calls' = [calls EXCEPT ![c] = r] /\ lock' = Nobody
      BY <1>2 DEF ToolError
    <2> HIDE DEF r
    <2> QED
      BY <1>1, <2>1, <2>2, RequestKeeps
  <1>3. CASE calls[c].phase = "first"
    <2> DEFINE r == [calls[c] EXCEPT !.phase = "reconnect", !.quiet = FALSE]
    <2>1. r \in Request /\ ~r.quiet
      BY <1>1 DEF Request, CallPhases, Serves
    <2>2. calls' = [calls EXCEPT ![c] = r] /\ lock' = lock
      BY <1>3 DEF ToolError
    <2> HIDE DEF r
    <2> QED
      BY <1>1, <2>1, <2>2, RequestKeeps
  <1> QED
    BY <1>2, <1>3 DEF ToolError

LEMMA ReconnectKeeps ==
  ASSUME ProxyInv, NEW c \in Callers, Reconnect(c)
  PROVE  ProxyInv'
  <1>1. calls[c].phase = "reconnect" /\ lock = c /\ UNCHANGED <<server, starts>>
    BY DEF Reconnect
  <1>2. calls[c].quiet => server # 0
    BY <1>1, HoldingRequest DEF InFlight
  <1>3. CASE server # 0
    BY <1>1, <1>2, <1>3, GoesOnKeeps DEF Reconnect, Serves
  <1>4. CASE server = 0
    BY <1>1, <1>2, <1>4, AnswerKeeps DEF Reconnect
  <1> QED
    BY <1>3, <1>4

LEMMA NextProxyInv == ProxyInv /\ [Next]_vars => ProxyInv'
  <1> SUFFICES ASSUME ProxyInv, [Next]_vars PROVE ProxyInv'
    OBVIOUS
  <1>1. CASE Down \/ Up \/ Connect
    BY <1>1, DownKeeps, UpKeeps, ConnectKeeps
  <1>2. CASE Tick \/ HookEvent \/ PluginEvent
    <2>1. UNCHANGED <<server, starts, client, lock, calls>>
      BY <1>2 DEF Tick, HookEvent, PluginEvent, proxy
    <2> QED
      BY <2>1, ElsewhereKeeps
  <1>3. ASSUME NEW i \in DOMAIN events,
               Accept(i) \/ AnswerLost(i) \/ Unreachable(i) \/ Remember(i)
        PROVE  ProxyInv'
    <2>1. UNCHANGED <<server, starts, client, lock, calls>>
      BY <1>3 DEF Accept, AnswerLost, Unreachable, Remember, proxy
    <2> QED
      BY <2>1, ElsewhereKeeps
  <1>4. ASSUME NEW c \in Callers, Call(c) \/ ToolError(c) \/ Serving(c)
        PROVE  ProxyInv'
    BY <1>4, CallKeeps, ToolErrorKeeps, AcquireKeeps, CallUpstreamKeeps, ReconnectKeeps DEF Serving
  <1>5. CASE UNCHANGED vars
    BY <1>5, ElsewhereKeeps DEF vars, proxy
  <1> QED
    BY <1>1, <1>2, <1>3, <1>4, <1>5 DEF Next

-----------------------------------------------------------------------------
\* The proxy's requests use its one client one at a time, and what is between
\* the two attempts of a request is known to it.
THEOREM ProxyInvariance == Spec => []ProxyInv
  BY InitProxyInv, NextProxyInv, PTL DEF Spec

\* A request that finds a server running, which goes on running and whose tool
\* does not fail, is answered without an error, however often the server was
\* restarted before and however many requests wait for the client.
THEOREM QuietCallSucceedsHolds == Spec => []QuietCallSucceeds
  <1>1. ProxyInv => QuietCallSucceeds
    BY DEF ProxyInv, QuietIsServed, QuietCallSucceeds
  <1> QED
    BY <1>1, ProxyInvariance, PTL

-----------------------------------------------------------------------------
(* Events.                                                                 *)

Handed == {"posted", "accepted", "failed"}
EventFields == {"role", "payload", "outcome", "key", "time", "settled"}
Registered == {"prompt", "build", "call", "result", "reply"}

\* What is told of an event when it happens, and never changed.
Told(e) ==
  /\ DOMAIN e = EventFields
  /\ e.time \in Nat
  /\ agent = "openclaw" /\ e.key # Absent =>
       e.outcome # "rejected" /\ e.outcome # "skipped"
  /\ agent = "openclaw" /\ e.outcome \in Handed \cup {"dropped"} =>
       e.key = EmitKey(e.role, e.payload) /\ e.role \in Registered
  /\ e.outcome \in Handed => Parse(agent, e.role, e.payload).kind = "fragment"
  /\ e.outcome \in Handed \cup {"dropped", "rejected", "skipped"}
  /\ e.settled \in BOOLEAN /\ (e.settled => e.outcome = "accepted" /\ agent = "openclaw")
  /\ e.outcome = "dropped" => agent = "openclaw"

EventsInv ==
  /\ agent \in DOMAIN Inputs
  /\ events \in Seq(ToSet(events))
  /\ \A i \in DOMAIN events : Told(events[i])
  /\ stored \subseteq {i \in DOMAIN events : events[i].outcome \in {"accepted", "failed"}}
  /\ AcceptedIsKept

\* A sequence is one of its own elements.
LEMMA OwnElements ==
  ASSUME NEW S, NEW s \in Seq(S)
  PROVE  s \in Seq(ToSet(s))
<1> DEFINE n == Len(s)
<1>1. n \in Nat /\ s \in [1..n -> S] /\ DOMAIN s = 1..n
  BY LenProperties
<1>2. s \in [1..n -> ToSet(s)]
  BY <1>1 DEF ToSet
<1> QED
  BY <1>1, <1>2, SeqDef

\* An event is added.
Added(e) ==
  /\ Len(events') = Len(events) + 1 /\ DOMAIN events' = 1..(Len(events) + 1)
  /\ \A i \in DOMAIN events : i \in DOMAIN events' /\ events'[i] = events[i]
  /\ events'[Len(events) + 1] = e

LEMMA Appended ==
  ASSUME events \in Seq(ToSet(events)), NEW e, events' = Append(events, e)
  PROVE  Added(e) /\ events' \in Seq(ToSet(events'))
<1> DEFINE S == ToSet(events) \cup {e}
<1>1. events \in Seq(S) /\ e \in S
  BY SeqMonotonic DEF ToSet
<1>2. Added(e) /\ events' \in Seq(S)
  BY <1>1, AppendProperties, LenProperties DEF Added
<1> QED
  BY <1>2 DEF ToSet

\* One of the fields that may change is changed.
LEMMA Changed ==
  ASSUME events \in Seq(ToSet(events)), \A i \in DOMAIN events : DOMAIN events[i] = EventFields,
         NEW i \in DOMAIN events, NEW x,
         NEW field \in {"outcome", "settled"},
         events' = [events EXCEPT ![i] = [events[i] EXCEPT ![field] = x]]
  PROVE  /\ Len(events') = Len(events) /\ DOMAIN events' = DOMAIN events
         /\ events' \in Seq(ToSet(events'))
         /\ \A j \in DOMAIN events :
              /\ DOMAIN events'[j] = EventFields
              /\ \A other \in EventFields :
                   events'[j][other] = IF j = i /\ other = field THEN x ELSE events[j][other]
<1> DEFINE e == [events[i] EXCEPT ![field] = x]
           S == ToSet(events) \cup {e}
<1>1. events \in Seq(S) /\ e \in S /\ DOMAIN events = 1..Len(events)
  BY SeqMonotonic, LenProperties DEF ToSet
<1>2. events' = [events EXCEPT ![i] = e]
  OBVIOUS
<1>3. /\ DOMAIN e = EventFields
      /\ \A other \in EventFields : e[other] = IF other = field THEN x ELSE events[i][other]
  BY DEF EventFields
<1> HIDE DEF e
<1> HIDE DEF S
<1>4. /\ [events EXCEPT ![i] = e] \in Seq(S) /\ Len([events EXCEPT ![i] = e]) = Len(events)
      /\ \A j \in 1..Len(events) : [events EXCEPT ![i] = e][j] = IF j = i THEN e ELSE events[j]
  BY <1>1, ExceptSeq
<1>5. DOMAIN events' = DOMAIN events
  BY <1>2
<1>6. events' \in Seq(ToSet(events'))
  BY <1>2, <1>4, OwnElements
<1> QED
  BY <1>1, <1>2, <1>3, <1>4, <1>5, <1>6

\* The id of a fragment tells the event and the payload.
LEMMA EnvelopeTells ==
  ASSUME NEW a, NEW session, NEW turn, NEW key, NEW role, NEW p, NEW part
  PROVE  /\ Envelope(a, session, turn, key, role, p, part).kind \in {"fragment", "error"}
         /\ Envelope(a, session, turn, key, role, p, part).kind = "fragment" =>
              /\ Envelope(a, session, turn, key, role, p, part).id[5] = role
              /\ Envelope(a, session, turn, key, role, p, part).id[6] = p
BY DEF Envelope, FragmentId, Error

LEMMA ParseTells ==
  ASSUME NEW a \in HookAgents, NEW role, NEW p
  PROVE  /\ Parse(a, role, p).kind \in {"fragment", "error", "skip"}
         /\ Parse(a, role, p).kind = "fragment" =>
              Parse(a, role, p).id[5] = role /\ Parse(a, role, p).id[6] = p
<1> USE DEF Error, Skip
<1>1. CASE a = "claude-code"
  BY <1>1, EnvelopeTells DEF Parse, ParseClaude, ClaudeEnvelope
<1>2. CASE a = "codex"
  BY <1>2, EnvelopeTells DEF Parse, ParseCodex, CodexEnvelope
<1>3. CASE a = "gemini-cli"
  BY <1>3, EnvelopeTells DEF Parse, ParseGemini, GeminiEnvelope
<1>4. CASE a = "opencode"
  BY <1>4, EnvelopeTells DEF Parse, ParseOpenCode, OpenCodeEnvelope
<1>5. CASE a = "openclaw"
  BY <1>5, EnvelopeTells DEF Parse, ParseOpenClaw, OpenClawEnvelope
<1> QED
  BY <1>1, <1>2, <1>3, <1>4, <1>5 DEF HookAgents

\* What the plugin hands over has all that the parser asks for.
LEMMA HandedIsParsed ==
  ASSUME NEW role \in Registered, NEW p, ~PluginSkips(role, p), p.named = "own",
         p.turn # Blank, role \in Tools => p.data # Blank
  PROVE  Parse("openclaw", role, p).kind = "fragment"
<1> DEFINE part == OpenClawPart(role, p)
           f == OpenClawEnvelope(role, p, part)
<1>1. OpenClawResolves(role, p)
  BY DEF OpenClawResolves, Registered
<1>2. OpenClawSession(p) = p.session /\ ~Missing(p.session)
  BY PluginInputs DEF OpenClawSession, PluginSkips, NonEmpty, Or, Missing
<1>3. CASE role \in Tools
  <2>1. ~Missing(p.tool) /\ ~Missing(Or(p.data, "nothing"))
    BY <1>3, PluginInputs DEF PluginSkips, Missing, Or
  <2>2. part = Tool(role, p.tool, Or(p.data, "nothing"), NonEmpty(p.use))
    BY <1>3, <2>1 DEF OpenClawPart, Tools
  <2>3. part \notin {Skip, Error}
    BY <2>2 DEF Tool, Part, Skip, Error
  <2>4. f.kind = "fragment"
    BY <1>2, <2>1, <2>2, PluginInputs DEF OpenClawEnvelope, Envelope, Valid, Tool, Part
  <2> QED
    BY <1>1, <2>3, <2>4 DEF Parse, ParseOpenClaw
<1>4. CASE role \notin Tools
  <2>1. ~Missing(p.text)
    BY <1>4 DEF PluginSkips
  <2>2. part = Prompt(p.text) \/ part = Reply("hard", p.text)
    BY <1>4, <2>1 DEF OpenClawPart, Tools, Registered
  <2>3. part \notin {Skip, Error}
    BY <2>2 DEF Prompt, Reply, Part, Skip, Error
  <2>4. f.kind = "fragment"
    BY <1>2, <2>1, <2>2, PluginInputs DEF OpenClawEnvelope, Envelope, Valid, Prompt, Reply, Part
  <2> QED
    BY <1>1, <2>3, <2>4 DEF Parse, ParseOpenClaw
<1> QED
  BY <1>3, <1>4

LEMMA PluginPayloadFields ==
  ASSUME NEW role, NEW e
  PROVE  /\ PluginPayload(role, e).named = "own"
         /\ PluginPayload(role, e).turn = FirstNonEmpty(<<e.turn>>)
         /\ role \in Tools => PluginPayload(role, e).data = ResolveData(role, e)
<1> DEFINE q == Stamped(e)
<1>1. /\ DOMAIN q = {"session", "turn", "named", "text", "alt", "worthy", "tool", "data", "use",
                     "active", "stamp"}
      /\ q.turn = e.turn
  BY DEF Stamped
<1> HIDE DEF q
<1> QED
  BY <1>1 DEF PluginPayload, q

LEMMA PluginHandsOver ==
  ASSUME "openclaw" \in DOMAIN Inputs, NEW input \in Inputs["openclaw"],
         ~PluginSkips(input.role, PluginPayload(input.role, input.payload))
  PROVE  Parse("openclaw", input.role, PluginPayload(input.role, input.payload)).kind = "fragment"
<1> DEFINE role == input.role
           e == input.payload
           p == PluginPayload(role, e)
<1>1. role \in Registered /\ e.data # Blank
  BY PluginInputs DEF Registered
<1>2. FirstNonEmpty(<<e.turn>>) # Blank
  <2>1. CASE Missing(e.turn)
    <3>1. ~\E i \in DOMAIN <<e.turn>> : ~Missing(<<e.turn>>[i])
      BY <2>1
    <3> QED
      BY <3>1, PluginInputs DEF FirstNonEmpty
  <2>2. CASE ~Missing(e.turn)
    <3>1. \E i \in DOMAIN <<e.turn>> : ~Missing(<<e.turn>>[i])
      BY <2>2
    <3>2. (CHOOSE i \in DOMAIN <<e.turn>> : ~Missing(<<e.turn>>[i])
                     /\ \A j \in 1..(i - 1) : Missing(<<e.turn>>[j])) = 1
      BY <2>2
    <3>3. FirstNonEmpty(<<e.turn>>) = e.turn
      BY <3>1, <3>2 DEF FirstNonEmpty
    <3> QED
      BY <2>2, <3>3 DEF Missing
  <2> QED
    BY <2>1, <2>2
<1>3. ResolveData(role, e) # Blank
  BY <1>1, PluginInputs DEF ResolveData, Or
<1>4. p.named = "own" /\ p.turn # Blank /\ (role \in Tools => p.data # Blank)
  BY <1>2, <1>3, PluginPayloadFields
<1> HIDE DEF p
<1>5. ~PluginSkips(role, p)
  BY DEF p
<1> QED
  BY <1>1, <1>4, <1>5, HandedIsParsed DEF p

\* What a step does to the events: nothing, or an event happens, or one that was
\* posted is decided, or the plugin goes on after one.
Undisturbed == UNCHANGED <<agent, stored, events, cache>> /\ clock' \in Nat /\ clock' >= clock

Happens(e) ==
  /\ Added(e) /\ events' \in Seq(ToSet(events')) /\ Told(e)
  /\ e.outcome \notin {"accepted", "failed"} /\ ~e.settled /\ e.time = clock
  /\ agent = "openclaw" =>
       /\ ThreadFree(e.role)
       /\ e.outcome = "dropped" => EmittedRecently(e.key)
       /\ e.outcome \in Handed => ~EmittedRecently(e.key)
  /\ UNCHANGED <<agent, stored, cache, clock>>

Keeps(i, field, x) ==
  /\ i \in DOMAIN events
  /\ Len(events') = Len(events) /\ DOMAIN events' = DOMAIN events
  /\ events' \in Seq(ToSet(events'))
  /\ \A j \in DOMAIN events :
       /\ DOMAIN events'[j] = EventFields
       /\ \A other \in EventFields :
            events'[j][other] = IF j = i /\ other = field THEN x ELSE events[j][other]

Decided(i, outcome) ==
  /\ Keeps(i, "outcome", outcome)
  /\ events[i].outcome = "posted" /\ outcome \in {"accepted", "failed"}
  /\ (stored' = stored /\ outcome = "failed") \/ Store(i)
  /\ UNCHANGED <<agent, cache, clock>>

GoneOn(i) ==
  /\ Keeps(i, "settled", TRUE)
  /\ agent = "openclaw" /\ events[i].outcome = "accepted" /\ ~events[i].settled
  /\ cache' = Remembered(events[i].key, events[i].time)
  /\ UNCHANGED <<agent, stored, clock>>

LEMMA HookHappens ==
  ASSUME EventsInv, clock \in Nat, HookEvent
  PROVE  \E e : Happens(e)
<1>1. PICK input \in Inputs[agent] : HookEvent!(input)
  BY DEF HookEvent
<1> DEFINE role == input.role
           p == Stamped(input.payload)
           o == Outcome(Parse(agent, role, p))
           e == [role |-> role, payload |-> p, outcome |-> o, key |-> Absent, time |-> clock,
                 settled |-> FALSE]
<1>2. agent # "openclaw" /\ events' = Append(events, e) /\ UNCHANGED <<agent, stored, cache, clock>>
  BY <1>1 DEF NewEvent
<1>3. agent \in HookAgents
  BY AgentsKnown DEF EventsInv
<1>4. /\ o \in {"rejected", "skipped", "posted"}
      /\ o = "posted" => Parse(agent, role, p).kind = "fragment"
  BY <1>3, ParseTells DEF Outcome
<1>5. /\ DOMAIN e = EventFields /\ e.role = role /\ e.payload = p /\ e.outcome = o
      /\ e.time = clock /\ e.settled = FALSE
  BY DEF EventFields
<1> HIDE DEF o, p, e, role
<1>6. Added(e) /\ events' \in Seq(ToSet(events'))
  BY <1>2, Appended DEF EventsInv
<1>7. Told(e)
  BY <1>2, <1>4, <1>5 DEF Told, Handed
<1> QED
  BY <1>2, <1>4, <1>5, <1>6, <1>7 DEF Happens

LEMMA PluginHappens ==
  ASSUME EventsInv, clock \in Nat, PluginEvent
  PROVE  \E e : Happens(e)
<1>1. PICK input \in Inputs[agent] : PluginEvent!(input)
  BY DEF PluginEvent
<1> DEFINE role == input.role
           p == PluginPayload(role, input.payload)
           skips == PluginSkips(role, p)
           key == IF skips THEN Absent ELSE EmitKey(role, p)
           o == IF skips THEN "skipped"
                ELSE IF EmittedRecently(EmitKey(role, p)) THEN "dropped"
                ELSE Outcome(Parse(agent, role, p))
           e == [role |-> role, payload |-> p, outcome |-> o, key |-> key, time |-> clock,
                 settled |-> FALSE]
<1>2. /\ agent = "openclaw" /\ events' = Append(events, e) /\ ThreadFree(role)
      /\ UNCHANGED <<agent, stored, cache, clock>>
  BY <1>1 DEF NewEvent
<1>3. "openclaw" \in DOMAIN Inputs /\ input \in Inputs["openclaw"]
  BY <1>2 DEF EventsInv
<1>4. role \in Registered
  BY <1>3, PluginInputs DEF Registered
<1>5. ~skips => Parse(agent, role, p).kind = "fragment" /\ Outcome(Parse(agent, role, p)) = "posted"
  BY <1>2, <1>3, PluginHandsOver DEF Outcome
<1>6. /\ o \in {"skipped", "dropped", "posted"}
      /\ skips <=> o = "skipped"
      /\ o = "posted" => ~EmittedRecently(EmitKey(role, p)) /\ Parse(agent, role, p).kind = "fragment"
      /\ o = "dropped" => EmittedRecently(EmitKey(role, p))
  BY <1>5
<1>7. /\ DOMAIN e = EventFields /\ e.role = role /\ e.payload = p /\ e.outcome = o
      /\ e.time = clock /\ e.settled = FALSE /\ e.key = key
  BY DEF EventFields
<1>8. skips => key = Absent
  OBVIOUS
<1>9. ~skips => key = EmitKey(role, p)
  OBVIOUS
<1> HIDE DEF o, p, e, role, key, skips
<1>10. Added(e) /\ events' \in Seq(ToSet(events'))
  BY <1>2, Appended DEF EventsInv
<1>11. Told(e)
  BY <1>2, <1>4, <1>6, <1>7, <1>8, <1>9 DEF Told, Handed
<1> QED
  BY <1>2, <1>6, <1>7, <1>9, <1>10, <1>11 DEF Happens, Handed

LEMMA PostDecided ==
  ASSUME EventsInv, NEW i \in DOMAIN events, Accept(i) \/ AnswerLost(i) \/ Unreachable(i)
  PROVE  \E outcome : Decided(i, outcome)
<1>1. PICK outcome \in {"accepted", "failed"} :
        /\ Settle(i, outcome)
        /\ (stored' = stored /\ outcome = "failed") \/ Store(i)
  BY DEF Accept, AnswerLost, Unreachable
<1>2. events[i].outcome = "posted" /\ UNCHANGED <<agent, cache, clock>>
  BY DEF Accept, AnswerLost, Unreachable
<1>3. events' = [events EXCEPT ![i] = [events[i] EXCEPT !["outcome"] = outcome]]
  BY <1>1 DEF Settle
<1>4. Keeps(i, "outcome", outcome)
  <2>1. events \in Seq(ToSet(events)) /\ \A j \in DOMAIN events : DOMAIN events[j] = EventFields
    BY DEF EventsInv, Told
  <2> QED
    BY <1>3, <2>1, Changed DEF Keeps
<1> QED
  BY <1>1, <1>2, <1>4 DEF Decided

LEMMA RememberGoesOn ==
  ASSUME EventsInv, NEW i \in DOMAIN events, Remember(i)
  PROVE  GoneOn(i)
<1>1. events' = [events EXCEPT ![i] = [events[i] EXCEPT !["settled"] = TRUE]]
  BY DEF Remember
<1>2. Keeps(i, "settled", TRUE)
  <2>1. events \in Seq(ToSet(events)) /\ \A j \in DOMAIN events : DOMAIN events[j] = EventFields
    BY DEF EventsInv, Told
  <2> QED
    BY <1>1, <2>1, Changed DEF Keeps
<1> QED
  BY <1>2 DEF Remember, RememberedOutcomes, GoneOn

LEMMA Deliveries ==
  ASSUME EventsInv, clock \in Nat, [Next]_vars
  PROVE  \/ Undisturbed
         \/ \E e : Happens(e)
         \/ \E i, outcome : Decided(i, outcome)
         \/ \E i : GoneOn(i)
<1>1. CASE HookEvent
  BY <1>1, HookHappens
<1>2. CASE PluginEvent
  BY <1>2, PluginHappens
<1>3. ASSUME NEW i \in DOMAIN events, Accept(i) \/ AnswerLost(i) \/ Unreachable(i) \/ Remember(i)
      PROVE  (\E k, outcome : Decided(k, outcome)) \/ \E k : GoneOn(k)
  BY <1>3, PostDecided, RememberGoesOn
<1>4. CASE Down \/ Up \/ Tick \/ Connect
  BY <1>4 DEF Down, Up, Tick, Connect, delivery, Undisturbed
<1>5. ASSUME NEW c \in Callers, Call(c) \/ ToolError(c) \/ Serving(c)
      PROVE  Undisturbed
  <2>1. UNCHANGED <<agent, delivery, clock>>
    <3>1. CASE Call(c)
      BY <3>1 DEF Call
    <3>2. CASE ToolError(c)
      BY <3>2 DEF ToolError
    <3>3. CASE Serving(c)
      BY <3>3 DEF Serving, Acquire, CallUpstream, Reconnect
    <3> QED
      BY <1>5, <3>1, <3>2, <3>3
  <2> QED
    BY <2>1 DEF delivery, Undisturbed
<1>6. CASE UNCHANGED vars
  BY <1>6 DEF vars, delivery, Undisturbed
<1> QED
  BY <1>1, <1>2, <1>3, <1>4, <1>5, <1>6 DEF Next

-----------------------------------------------------------------------------
(* Types.                                                                  *)

StateTyped ==
  /\ ProxyInv
  /\ starts \in 1..MaxStarts /\ client \in 0..starts
  /\ lock \in Callers \cup {Nobody}
  /\ clock \in 0..MaxClock /\ faults \in 0..MaxFaults

LEMMA InitStateTyped == Init => StateTyped
  BY InitProxyInv, BoundsNat DEF Init, StateTyped

LEMMA NextStateTyped == StateTyped /\ [Next]_vars => StateTyped'
<1> SUFFICES ASSUME StateTyped, [Next]_vars PROVE StateTyped'
  OBVIOUS
<1> USE BoundsNat DEF StateTyped
<1>1. ProxyInv'
  BY NextProxyInv
<1>2. server \in {0, starts} /\ starts \in Nat
  BY DEF ProxyInv, ProxyTyped
<1>3. CASE Down \/ Up \/ Tick \/ Connect
  BY <1>1, <1>2, <1>3 DEF Down, Up, Tick, Connect, proxy
<1>4. CASE HookEvent \/ PluginEvent
  <2>1. UNCHANGED <<starts, client, lock, clock, faults>>
    BY <1>4 DEF HookEvent, PluginEvent, proxy
  <2> QED
    BY <1>1, <2>1
<1>5. ASSUME NEW i \in DOMAIN events, Accept(i) \/ AnswerLost(i) \/ Unreachable(i) \/ Remember(i)
      PROVE  StateTyped'
  <2>1. UNCHANGED <<starts, client, lock, clock>> /\ (faults' = faults \/ Fault)
    BY <1>5 DEF Accept, AnswerLost, Unreachable, Remember, proxy
  <2> QED
    BY <1>1, <2>1 DEF Fault
<1>6. ASSUME NEW c \in Callers, Call(c) \/ ToolError(c) \/ Serving(c)
      PROVE  StateTyped'
  <2>1. /\ UNCHANGED <<starts, clock>>
        /\ client' \in {client, server}
        /\ lock' \in {lock, c, Nobody}
        /\ faults' = faults \/ Fault
    <3>1. CASE Call(c)
      BY <3>1 DEF Call
    <3>2. CASE ToolError(c)
      BY <3>2 DEF ToolError
    <3>3. CASE Serving(c)
      BY <3>3 DEF Serving, Acquire, CallUpstream, Reconnect, Answer, FailedCall
    <3> QED
      BY <1>6, <3>1, <3>2, <3>3
  <2> QED
    BY <1>1, <1>2, <2>1 DEF Fault
<1>7. CASE UNCHANGED vars
  BY <1>1, <1>7 DEF vars, proxy
<1> QED
  BY <1>3, <1>4, <1>5, <1>6, <1>7 DEF Next

-----------------------------------------------------------------------------
(* What is told of the events stays true of them.                          *)

LEMMA InitEventsInv == Init => EventsInv
<1> SUFFICES ASSUME Init PROVE EventsInv
  OBVIOUS
<1>1. events = <<>> /\ stored = {} /\ agent \in DOMAIN Inputs /\ DOMAIN events = {}
  BY DEF Init
<1> QED
  BY <1>1 DEF EventsInv, AcceptedIsKept

LEMMA HappensKeepsEvents ==
  ASSUME EventsInv, NEW e, Happens(e)
  PROVE  EventsInv'
<1>1. /\ agent' = agent /\ stored' = stored /\ Len(events) \in Nat /\ DOMAIN events = 1..Len(events)
      /\ events' \in Seq(ToSet(events'))
  BY LenProperties DEF Happens, EventsInv
<1>2. \A i \in DOMAIN events' : IF i \in DOMAIN events THEN events'[i] = events[i] ELSE events'[i] = e
  BY <1>1 DEF Happens, Added
<1>3. DOMAIN events \subseteq DOMAIN events'
  BY DEF Happens, Added
<1>4. e.outcome # "accepted"
  BY DEF Happens
<1>5. \A i \in DOMAIN events' : Told(events[i])'
  BY <1>1, <1>2 DEF EventsInv, Happens, Told
<1>6. stored' \subseteq {i \in DOMAIN events' : events'[i].outcome \in {"accepted", "failed"}}
  BY <1>1, <1>2, <1>3 DEF EventsInv
<1>7. AcceptedIsKept'
  BY <1>1, <1>2, <1>3, <1>4 DEF EventsInv, AcceptedIsKept
<1> QED
  BY <1>1, <1>5, <1>6, <1>7 DEF EventsInv

LEMMA DecidedFields ==
  ASSUME NEW i, NEW outcome, Decided(i, outcome)
  PROVE  \A j \in DOMAIN events :
           /\ DOMAIN events'[j] = EventFields
           /\ events'[j].role = events[j].role /\ events'[j].payload = events[j].payload
           /\ events'[j].key = events[j].key /\ events'[j].time = events[j].time
           /\ events'[j].settled = events[j].settled
           /\ events'[j].outcome = IF j = i THEN outcome ELSE events[j].outcome
BY DEF Decided, Keeps, EventFields

LEMMA GoneOnFields ==
  ASSUME NEW i, GoneOn(i)
  PROVE  \A j \in DOMAIN events :
           /\ DOMAIN events'[j] = EventFields
           /\ events'[j].role = events[j].role /\ events'[j].payload = events[j].payload
           /\ events'[j].key = events[j].key /\ events'[j].time = events[j].time
           /\ events'[j].settled = IF j = i THEN TRUE ELSE events[j].settled
           /\ events'[j].outcome = events[j].outcome
BY DEF GoneOn, Keeps, EventFields

\* The answer to a post: the fragments of its id are this event's, or those of
\* an event that brought the very same payload.
LEMMA DecidedKeepsEvents ==
  ASSUME EventsInv, NEW i, NEW outcome, Decided(i, outcome)
  PROVE  EventsInv'
<1>1. /\ agent' = agent /\ i \in DOMAIN events /\ DOMAIN events' = DOMAIN events
      /\ events' \in Seq(ToSet(events'))
      /\ events[i].outcome = "posted" /\ outcome \in {"accepted", "failed"}
  BY DEF Decided, Keeps
<1>2. \A j \in DOMAIN events :
        /\ DOMAIN events'[j] = EventFields
        /\ events'[j].role = events[j].role /\ events'[j].payload = events[j].payload
        /\ events'[j].key = events[j].key /\ events'[j].time = events[j].time
        /\ events'[j].settled = events[j].settled
        /\ events'[j].outcome = IF j = i THEN outcome ELSE events[j].outcome
  BY DecidedFields
<1>3. \A j \in DOMAIN events : Told(events[j])
  BY DEF EventsInv
<1>4. \A j \in DOMAIN events : Told(events[j])'
  BY <1>1, <1>2, <1>3 DEF Told, Handed
<1>5. stored \subseteq stored' /\ stored' \subseteq stored \cup {i}
  BY DEF Decided, Store
<1>6. stored' \subseteq {j \in DOMAIN events' : events'[j].outcome \in {"accepted", "failed"}}
  BY <1>1, <1>2, <1>5 DEF EventsInv
<1>7. outcome = "accepted" /\ i \notin stored' =>
        \E j \in DOMAIN events \ {i} : events[j].role = events[i].role
                                       /\ events[j].payload = events[i].payload
  <2> SUFFICES ASSUME outcome = "accepted", i \notin stored'
               PROVE  \E j \in DOMAIN events \ {i} : events[j].role = events[i].role
                                                     /\ events[j].payload = events[i].payload
    OBVIOUS
  <2>1. PICK j \in stored : IdOf(j) = IdOf(i)
    BY DEF Decided, Store
  <2>2. j \in DOMAIN events \ {i} /\ events[j].outcome \in Handed /\ events[i].outcome \in Handed
    BY <1>1, <2>1 DEF EventsInv, Handed
  <2>3. agent \in HookAgents
    BY AgentsKnown DEF EventsInv
  <2>4. /\ Parse(agent, events[j].role, events[j].payload).kind = "fragment"
        /\ Parse(agent, events[i].role, events[i].payload).kind = "fragment"
    BY <1>1, <1>3, <2>2 DEF Told
  <2>5. /\ IdOf(j)[5] = events[j].role /\ IdOf(j)[6] = events[j].payload
        /\ IdOf(i)[5] = events[i].role /\ IdOf(i)[6] = events[i].payload
    BY <2>3, <2>4, ParseTells DEF IdOf
  <2> QED
    BY <2>1, <2>2, <2>5
<1>8. AcceptedIsKept'
  <2> SUFFICES ASSUME NEW k \in DOMAIN events, events'[k].outcome = "accepted", k \notin stored'
               PROVE  \E j \in DOMAIN events \ {k} : events'[j].role = events'[k].role
                                                     /\ events'[j].payload = events'[k].payload
    BY <1>1 DEF AcceptedIsKept
  <2>1. \E j \in DOMAIN events \ {k} : events[j].role = events[k].role
                                       /\ events[j].payload = events[k].payload
    BY <1>2, <1>5, <1>7 DEF EventsInv, AcceptedIsKept
  <2> QED
    BY <1>2, <2>1
<1> QED
  BY <1>1, <1>4, <1>6, <1>8 DEF EventsInv

LEMMA GoneOnKeepsEvents ==
  ASSUME EventsInv, NEW i, GoneOn(i)
  PROVE  EventsInv'
<1>1. /\ agent' = agent /\ stored' = stored /\ DOMAIN events' = DOMAIN events
      /\ events' \in Seq(ToSet(events'))
      /\ events[i].outcome = "accepted" /\ agent = "openclaw"
  BY DEF GoneOn, Keeps
<1>2. \A j \in DOMAIN events :
        /\ DOMAIN events'[j] = EventFields
        /\ events'[j].role = events[j].role /\ events'[j].payload = events[j].payload
        /\ events'[j].key = events[j].key /\ events'[j].time = events[j].time
        /\ events'[j].settled = IF j = i THEN TRUE ELSE events[j].settled
        /\ events'[j].outcome = events[j].outcome
  BY GoneOnFields
<1>3. \A j \in DOMAIN events : Told(events[j])
  BY DEF EventsInv
<1>4. ASSUME NEW j \in DOMAIN events PROVE Told(events[j])'
  <2>1. events'[j].settled \in BOOLEAN /\ (events'[j].settled => j = i \/ events[j].settled)
    BY <1>2, <1>3, Zenon DEF Told
  <2> QED
    BY <1>1, <1>2, <1>3, <2>1 DEF Told, Handed
<1>5. stored' \subseteq {j \in DOMAIN events' : events'[j].outcome \in {"accepted", "failed"}}
  BY <1>1, <1>2 DEF EventsInv
<1>6. AcceptedIsKept'
  <2> SUFFICES ASSUME NEW k \in DOMAIN events, events'[k].outcome = "accepted", k \notin stored'
               PROVE  \E j \in DOMAIN events \ {k} : events'[j].role = events'[k].role
                                                     /\ events'[j].payload = events'[k].payload
    BY <1>1 DEF AcceptedIsKept
  <2>1. \E j \in DOMAIN events \ {k} : events[j].role = events[k].role
                                       /\ events[j].payload = events[k].payload
    BY <1>1, <1>2 DEF EventsInv, AcceptedIsKept
  <2> QED
    BY <1>2, <2>1
<1> QED
  BY <1>1, <1>4, <1>5, <1>6 DEF EventsInv

LEMMA NextEventsInv == EventsInv /\ clock \in Nat /\ [Next]_vars => EventsInv'
<1>1. EventsInv /\ Undisturbed => EventsInv'
  BY DEF Undisturbed, EventsInv, Told, AcceptedIsKept
<1> QED
  BY <1>1, Deliveries, HappensKeepsEvents, DecidedKeepsEvents, GoneOnKeepsEvents

-----------------------------------------------------------------------------
(* Repetitions.                                                            *)

\* The keys of the events that come after the i-th, up to the n-th, but its own.
KeysAfter(s, i, n) == {s[k].key : k \in (i + 1)..n} \ {s[i].key}

LEMMA SameKeysAfter ==
  ASSUME NEW s, NEW t, NEW i \in Nat, NEW n \in Nat,
         s[i].key = t[i].key, \A k \in (i + 1)..n : s[k].key = t[k].key
  PROVE  KeysAfter(s, i, n) = KeysAfter(t, i, n)
BY DEF KeysAfter

LEMMA KeysAfterFinite ==
  ASSUME NEW s, NEW i \in Nat, NEW n \in Nat
  PROVE  IsFiniteSet(KeysAfter(s, i, n)) /\ Cardinality(KeysAfter(s, i, n)) \in Nat
<1> DEFINE K == {s[k].key : k \in (i + 1)..n}
           f == [k \in (i + 1)..n |-> s[k].key]
<1>1. f \in Surjection((i + 1)..n, K)
  BY DEF Surjection
<1>2. IsFiniteSet((i + 1)..n)
  BY FS_Interval
<1> HIDE DEF f
<1>3. IsFiniteSet(K)
  BY <1>1, <1>2, FS_Surjection
<1>4. KeysAfter(s, i, n) \in SUBSET K
  BY DEF KeysAfter
<1> HIDE DEF K
<1>5. IsFiniteSet(KeysAfter(s, i, n))
  BY <1>3, <1>4, FS_Subset
<1> QED
  BY <1>5, FS_CardinalityType

LEMMA KeysAfterGrow ==
  ASSUME NEW s, NEW i \in Nat, NEW m \in Nat, NEW n \in Nat, m <= n,
         Cardinality(KeysAfter(s, i, m)) >= Limit
  PROVE  Cardinality(KeysAfter(s, i, n)) >= Limit
<1>1. KeysAfter(s, i, m) \in SUBSET KeysAfter(s, i, n)
  BY DEF KeysAfter
<1>2. Cardinality(KeysAfter(s, i, m)) <= Cardinality(KeysAfter(s, i, n))
  BY <1>1, KeysAfterFinite, FS_Subset
<1> QED
  BY <1>2, KeysAfterFinite, LimitPositive

\* As many entries as the cache holds, of different keys, are as many keys.
LEMMA ManyKeys ==
  ASSUME NEW s, NEW i \in Nat, NEW n \in Nat, NEW c,
         \A x \in 1..Limit : c[x].key \in KeysAfter(s, i, n),
         \A x, y \in 1..Limit : c[x].key = c[y].key => x = y
  PROVE  Cardinality(KeysAfter(s, i, n)) >= Limit
<1> DEFINE K == KeysAfter(s, i, n)
           D == 1..Limit
           f == [x \in D |-> c[x].key]
<1>1. f \in [D -> K] /\ \A x, y \in D : f[x] = f[y] => x = y
  OBVIOUS
<1>2. IsFiniteSet(D) /\ Cardinality(D) = Limit
  BY LimitPositive, FS_Interval
<1>3. IsFiniteSet(K) /\ Cardinality(K) \in Nat
  BY KeysAfterFinite
<1> HIDE DEF K, D, f
<1>4. ~(Cardinality(K) < Cardinality(D))
  <2> SUFFICES ASSUME Cardinality(K) < Cardinality(D) PROVE FALSE
    OBVIOUS
  <2>1. \E x, y \in D : x # y /\ f[x] = f[y]
    BY <1>1, <1>2, <1>3, FS_PigeonHole
  <2> QED
    BY <1>1, <2>1
<1>5. Cardinality(K) >= Limit
  BY <1>2, <1>3, <1>4, LimitPositive
<1> QED
  BY <1>5 DEF K

\* A key tells the events of tools from the others.
LEMMA KeyTellsRole ==
  ASSUME NEW r \in Registered, NEW q \in Registered, NEW p, NEW o, EmitKey(r, p) = EmitKey(q, o)
  PROVE  r \in Tools <=> q \in Tools
<1>1. EmitKey(r, p)[1] \in {"prompt", "reply"} <=> r \notin Tools
  BY DEF EmitKey, Registered, Tools
<1>2. EmitKey(q, o)[1] \in {"prompt", "reply"} <=> q \notin Tools
  BY DEF EmitKey, Registered, Tools
<1> QED
  BY <1>1, <1>2

\* The entry of a key in the cache, if it has one, goes to the end; d entries
\* are forgotten.
Was(r, d, x) == IF x + d < r THEN x + d ELSE x + d + 1

Shifted(old, new, entry, r, d) ==
  /\ Len(old) \in Nat /\ Len(new) \in 1..Limit
  /\ r \in 1..(Len(old) + 1) /\ d \in {0, 1}
  /\ \A x \in 1..Len(old) : old[x].key = entry.key <=> x = r
  /\ Len(new) = Len(old) + (IF r > Len(old) THEN 1 ELSE 0) - d
  /\ d = 1 => Len(new) = Limit /\ r > Len(old)
  /\ \A x \in 1..(Len(new) - 1) : new[x] = old[Was(r, d, x)]
  /\ new[Len(new)] = entry

CacheTyped ==
  /\ cache \in Seq(ToSet(cache)) /\ Len(cache) <= Limit
  /\ \A x, y \in DOMAIN cache : cache[x].key = cache[y].key => x = y

LEMMA WithoutShifts ==
  ASSUME CacheTyped, NEW key
  PROVE  /\ Without(key) \in Seq(ToSet(cache))
         /\ \E r \in 1..(Len(cache) + 1) :
              /\ \A x \in 1..Len(cache) : cache[x].key = key <=> x = r
              /\ Len(Without(key)) = Len(cache) - (IF r > Len(cache) THEN 0 ELSE 1)
              /\ \A x \in 1..Len(Without(key)) : Without(key)[x] = cache[Was(r, 0, x)]
<1> DEFINE found == {i \in DOMAIN cache : cache[i].key = key}
           n == Len(cache)
<1>1. n \in Nat /\ DOMAIN cache = 1..n /\ \A x \in 1..n : cache[x] \in ToSet(cache)
  BY LenProperties DEF CacheTyped, ToSet
<1>2. CASE found = {}
  <2>1. Without(key) = cache
    BY <1>2 DEF Without
  <2>2. \A x \in 1..n : cache[x].key # key
    BY <1>1, <1>2
  <2> HIDE DEF n
  <2>3. n + 1 \in 1..(n + 1) /\ n - (IF n + 1 > n THEN 0 ELSE 1) = n
    BY <1>1
  <2>4. ASSUME NEW x \in 1..n
        PROVE  (cache[x].key = key <=> x = n + 1) /\ Was(n + 1, 0, x) = x
    BY <1>1, <2>2 DEF Was
  <2>5. Without(key) \in Seq(ToSet(cache))
    BY <2>1 DEF CacheTyped
  <2>6. \E r \in 1..(n + 1) :
          /\ \A x \in 1..n : cache[x].key = key <=> x = r
          /\ Len(Without(key)) = n - (IF r > n THEN 0 ELSE 1)
          /\ \A x \in 1..Len(Without(key)) : Without(key)[x] = cache[Was(r, 0, x)]
    <3>1. Len(Without(key)) = n
      BY <2>1 DEF n
    <3> QED
      BY <2>1, <2>3, <2>4, <3>1
  <2> QED
    BY <2>5, <2>6 DEF n
<1>3. CASE found # {}
  <2> DEFINE r == CHOOSE i \in found : TRUE
             s == SubSeq(cache, 1, r - 1)
             t == SubSeq(cache, r + 1, n)
  <2>1. r \in found
    BY <1>3
  <2>2. Without(key) = s \o t
    BY <1>3 DEF Without, RemoveAt
  <2>3. r \in 1..n /\ cache[r].key = key
    BY <1>1, <2>1
  <2>4. \A x \in 1..n : cache[x].key = key <=> x = r
    BY <1>1, <2>3 DEF CacheTyped
  <2> HIDE DEF r
  <2>5. s \in Seq(ToSet(cache)) /\ Len(s) = r - 1 /\ \A x \in 1..(r - 1) : s[x] = cache[x]
    <3>1. \A x \in 1..(r - 1) : cache[x] \in ToSet(cache)
      BY <1>1, <2>3
    <3> QED
      BY <1>1, <2>3, <3>1, SubSeqProperties
  <2>6. t \in Seq(ToSet(cache)) /\ Len(t) = n - r /\ \A x \in 1..(n - r) : t[x] = cache[r + x]
    <3>1. \A x \in (r + 1)..n : cache[x] \in ToSet(cache)
      BY <1>1, <2>3
    <3>2. r + 1 \in Int /\ n \in Int
      BY <1>1, <2>3
    <3>3. /\ t \in Seq(ToSet(cache)) /\ Len(t) = IF r + 1 <= n THEN n - (r + 1) + 1 ELSE 0
          /\ \A x \in 1..(n - (r + 1) + 1) : t[x] = cache[(r + 1) + x - 1]
      BY <3>1, <3>2, SubSeqProperties
    <3> HIDE DEF t
    <3> HIDE DEF n
    <3>4. Len(t) = n - r
      <4>1. CASE r = n
        BY <1>1, <2>3, <3>3, <4>1
      <4>2. CASE r < n
        BY <1>1, <2>3, <3>3, <4>2
      <4> QED
        BY <1>1, <2>3, <4>1, <4>2
    <3>5. ASSUME NEW x \in 1..(n - r) PROVE t[x] = cache[r + x]
      <4>1. x \in 1..(n - (r + 1) + 1) /\ (r + 1) + x - 1 = r + x
        BY <1>1, <2>3
      <4> QED
        BY <3>3, <4>1
    <3> QED
      BY <3>3, <3>4, <3>5
  <2> HIDE DEF s, t
  <2>7. /\ s \o t \in Seq(ToSet(cache)) /\ Len(s \o t) = n - 1
        /\ \A x \in 1..(n - 1) : (s \o t)[x] = IF x <= r - 1 THEN s[x] ELSE t[x - (r - 1)]
    <3>1. /\ s \o t \in Seq(ToSet(cache)) /\ Len(s \o t) = Len(s) + Len(t)
          /\ \A x \in 1..(Len(s) + Len(t)) :
               (s \o t)[x] = IF x <= Len(s) THEN s[x] ELSE t[x - Len(s)]
      BY <2>5, <2>6, ConcatProperties
    <3>2. Len(s) + Len(t) = n - 1 /\ Len(s) = r - 1
      BY <1>1, <2>3, <2>5, <2>6
    <3> QED
      BY <3>1, <3>2
  <2>8. \A x \in 1..(n - 1) : (s \o t)[x] = cache[Was(r, 0, x)]
    BY <1>1, <2>3, <2>5, <2>6, <2>7 DEF Was
  <2>9. r \in 1..(n + 1) /\ n - 1 = n - (IF r > n THEN 0 ELSE 1)
    BY <1>1, <2>3
  <2> QED
    BY <2>2, <2>4, <2>7, <2>8, <2>9
<1> QED
  BY <1>2, <1>3

LEMMA RememberedShifts ==
  ASSUME CacheTyped, NEW key, NEW time, NEW new, new = Remembered(key, time)
  PROVE  /\ new \in Seq(ToSet(new))
         /\ \E r, d : Shifted(cache, new, [key |-> key, time |-> time], r, d)
<1> DEFINE entry == [key |-> key, time |-> time]
           S == ToSet(cache) \cup {entry}
           w == Without(key)
           all == Append(w, entry)
           n == Len(cache)
<1>1. PICK r \in 1..(n + 1) :
        /\ \A x \in 1..n : cache[x].key = key <=> x = r
        /\ Len(w) = n - (IF r > n THEN 0 ELSE 1)
        /\ \A x \in 1..Len(w) : w[x] = cache[Was(r, 0, x)]
  BY WithoutShifts
<1>2. n \in Nat /\ n <= Limit
  BY LenProperties DEF CacheTyped
<1>3. w \in Seq(S) /\ entry \in S
  BY WithoutShifts, SeqMonotonic
<1>4. entry.key = key
  OBVIOUS
<1>5. new = IF Len(all) <= Limit THEN all ELSE Tail(all)
  BY DEF Remembered
<1> HIDE DEF w, entry, S
<1>6. /\ all \in Seq(S) /\ Len(all) = Len(w) + 1
      /\ \A x \in 1..Len(w) : all[x] = w[x]
      /\ all[Len(w) + 1] = entry
  BY <1>3, AppendProperties
<1> HIDE DEF all
<1>7. CASE Len(all) <= Limit
  <2>1. Shifted(cache, new, entry, r, 0)
    BY <1>1, <1>2, <1>4, <1>5, <1>6, <1>7, LimitPositive DEF Shifted, Was
  <2>2. new \in Seq(ToSet(new))
    BY <1>5, <1>6, <1>7, OwnElements
  <2> QED
    BY <2>1, <2>2 DEF entry
<1>8. CASE ~(Len(all) <= Limit)
  <2>1. Len(all) = Limit + 1 /\ r > n /\ Len(w) = Limit /\ n = Limit
    BY <1>1, <1>2, <1>6, <1>8, LimitPositive
  <2>2. all # <<>>
    BY <2>1, LimitPositive
  <2>3. /\ Tail(all) \in Seq(S) /\ Len(Tail(all)) = Limit
        /\ \A x \in 1..Limit : Tail(all)[x] = all[x + 1]
    BY <1>6, <2>1, <2>2, HeadTailProperties, LimitPositive
  <2>4. new = Tail(all)
    BY <1>5, <1>8
  <2>5. \A x \in 1..(Limit - 1) : new[x] = cache[Was(r, 1, x)]
    BY <1>1, <1>6, <2>1, <2>3, <2>4, LimitPositive DEF Was
  <2>6. new[Limit] = entry
    BY <1>6, <2>1, <2>3, <2>4, LimitPositive
  <2>7. Shifted(cache, new, entry, r, 1)
    BY <1>1, <1>2, <1>4, <2>1, <2>3, <2>4, <2>5, <2>6, LimitPositive DEF Shifted
  <2>8. new \in Seq(ToSet(new))
    BY <2>3, <2>4, OwnElements
  <2> QED
    BY <2>7, <2>8 DEF entry
<1> QED
  BY <1>7, <1>8

\* What was at another place than r is still there, with what came later still
\* coming later, or it was forgotten, and all that is left came later.
LEMMA ShiftedOrder ==
  ASSUME NEW old, NEW new, NEW entry, NEW r, NEW d, Shifted(old, new, entry, r, d)
  PROVE  /\ \A x \in 1..(Len(new) - 1) : Was(r, d, x) \in 1..Len(old) /\ Was(r, d, x) # r
         /\ \A x, y \in 1..(Len(new) - 1) : x < y => Was(r, d, x) < Was(r, d, y)
         /\ \A x \in 1..Len(old) : x # r =>
              \/ \E z \in 1..(Len(new) - 1) : Was(r, d, z) = x
              \/ Len(new) = Limit /\ \A y \in 1..(Len(new) - 1) : x < Was(r, d, y)
<1>1. \A x \in 1..(Len(new) - 1) : Was(r, d, x) \in 1..Len(old) /\ Was(r, d, x) # r
  BY LimitPositive DEF Shifted, Was
<1>2. \A x, y \in 1..(Len(new) - 1) : x < y => Was(r, d, x) < Was(r, d, y)
  BY LimitPositive DEF Shifted, Was
<1>3. ASSUME NEW x \in 1..Len(old), x # r
      PROVE  \/ \E z \in 1..(Len(new) - 1) : Was(r, d, z) = x
             \/ Len(new) = Limit /\ \A y \in 1..(Len(new) - 1) : x < Was(r, d, y)
  <2> DEFINE z == (IF x < r THEN x ELSE x - 1) - d
  <2>1. CASE z >= 1
    <3>1. z \in 1..(Len(new) - 1) /\ Was(r, d, z) = x
      BY <1>3, <2>1, LimitPositive DEF Shifted, Was
    <3> QED
      BY <3>1
  <2>2. CASE z < 1
    BY <1>3, <2>2, LimitPositive DEF Shifted, Was
  <2> QED
    BY <2>1, <2>2 DEF Shifted
<1> QED
  BY <1>1, <1>2, <1>3

\* OpenClaw waits for the hook of a prompt or a reply, and for the handler that
\* called it, before anything else happens.
OneThread ==
  \A a, b \in DOMAIN events :
    a < b /\ agent = "openclaw" /\ ~(events[a].role \in Tools /\ events[b].role \in Tools)
    => events[a].outcome # "posted" /\ (events[a].outcome = "accepted" => events[a].settled)

InTime ==
  \A a, b \in DOMAIN events :
    events[a].time <= clock /\ (a <= b => events[a].time <= events[b].time)

\* What is in the cache was accepted.
CacheTrue ==
  \A x \in DOMAIN cache : cache[x].time \in Nat /\
    \E k \in DOMAIN events : events[k].settled /\ events[k].key = cache[x].key

\* An entry of the event's key, or of a later event with its key, that only later
\* keys have come after.
RememberedAt(i, x) ==
  /\ cache[x].key = events[i].key /\ cache[x].time >= events[i].time
  /\ \A y \in DOMAIN cache : y > x =>
       \E k \in DOMAIN events : k > i /\ events[k].key = cache[y].key

\* A prompt or reply that was accepted is remembered until as many other keys
\* have come as the cache holds.
AcceptedRemembered ==
  \A i \in DOMAIN events : events[i].settled /\ events[i].role \notin Tools =>
    \/ \E x \in DOMAIN cache : RememberedAt(i, x)
    \/ Cardinality(KeysAfter(events, i, Len(events))) >= Limit

Apart(i, j) ==
  \/ events[j].time - events[i].time > Window
  \/ Cardinality(KeysAfter(events, i, j - 1)) >= Limit

HandedApart ==
  \A i, j \in DOMAIN events :
    i < j /\ agent = "openclaw" /\ events[i].outcome = "accepted" /\ events[j].outcome \in Handed
    /\ events[j].role \notin Tools /\ events[i].key = events[j].key
    => Apart(i, j)

DroppedRepeats ==
  \A j \in DOMAIN events : events[j].outcome = "dropped" =>
    \E k \in 1..(j - 1) : events[k].outcome = "accepted" /\ events[k].key = events[j].key

RepetitionInv ==
  /\ EventsInv /\ clock \in Nat
  /\ OneThread /\ InTime
  /\ CacheTyped /\ CacheTrue /\ AcceptedRemembered
  /\ HandedApart /\ DroppedRepeats

LEMMA InitRepetitionInv == Init => RepetitionInv
<1> SUFFICES ASSUME Init PROVE RepetitionInv
  OBVIOUS
<1>1. events = <<>> /\ DOMAIN events = {} /\ cache = <<>> /\ DOMAIN cache = {} /\ clock = 0
      /\ Len(cache) = 0
  BY DEF Init
<1> QED
  BY <1>1, InitEventsInv, LimitPositive
     DEF RepetitionInv, OneThread, InTime, CacheTyped, CacheTrue, AcceptedRemembered, HandedApart,
         DroppedRepeats

\* The fields that an event is found by are its own for ever.
LEMMA EventFacts ==
  ASSUME EventsInv
  PROVE  /\ Len(events) \in Nat /\ DOMAIN events = 1..Len(events)
         /\ \A i \in DOMAIN events :
              /\ events[i].time \in Nat /\ events[i].settled \in BOOLEAN
              /\ events[i].settled => events[i].outcome = "accepted" /\ agent = "openclaw"
              /\ events[i].outcome = "dropped" => agent = "openclaw"
         /\ \A i, j \in DOMAIN events :
              agent = "openclaw" /\ events[i].key = events[j].key
              /\ events[i].outcome \in Handed \cup {"dropped"}
              /\ events[j].outcome \in Handed \cup {"dropped"}
              => (events[i].role \in Tools <=> events[j].role \in Tools)
<1>1. Len(events) \in Nat /\ DOMAIN events = 1..Len(events)
  BY LenProperties DEF EventsInv
<1>2. \A i \in DOMAIN events :
        /\ events[i].time \in Nat /\ events[i].settled \in BOOLEAN
        /\ events[i].settled => events[i].outcome = "accepted" /\ agent = "openclaw"
        /\ events[i].outcome = "dropped" => agent = "openclaw"
  BY DEF EventsInv, Told
<1>3. ASSUME NEW i \in DOMAIN events, NEW j \in DOMAIN events,
             agent = "openclaw", events[i].key = events[j].key,
             events[i].outcome \in Handed \cup {"dropped"},
             events[j].outcome \in Handed \cup {"dropped"}
      PROVE  events[i].role \in Tools <=> events[j].role \in Tools
  <2>1. /\ events[i].key = EmitKey(events[i].role, events[i].payload)
        /\ events[j].key = EmitKey(events[j].role, events[j].payload)
        /\ events[i].role \in Registered /\ events[j].role \in Registered
    BY <1>3 DEF EventsInv, Told
  <2> QED
    BY <1>3, <2>1, KeyTellsRole
<1> QED
  BY <1>1, <1>2, <1>3

\* What is decided or settled of an event does not change its key or its time.
SameEvents ==
  /\ DOMAIN events \subseteq DOMAIN events'
  /\ \A k \in DOMAIN events :
       /\ events'[k].key = events[k].key /\ events'[k].time = events[k].time
       /\ events'[k].role = events[k].role

LEMMA ApartStays ==
  ASSUME EventsInv, SameEvents, NEW i \in DOMAIN events, NEW j \in DOMAIN events, i < j, Apart(i, j)
  PROVE  Apart(i, j)'
<1>1. DOMAIN events = 1..Len(events) /\ Len(events) \in Nat
  BY EventFacts
<1>2. KeysAfter(events', i, j - 1) = KeysAfter(events, i, j - 1)
  <2>1. i \in Nat /\ j - 1 \in Nat /\ \A k \in (i + 1)..(j - 1) : k \in DOMAIN events
    BY <1>1
  <2> QED
    BY <2>1, SameKeysAfter DEF SameEvents
<1> QED
  BY <1>2 DEF Apart, SameEvents

LEMMA UndisturbedKeepsRepetition ==
  ASSUME RepetitionInv, Undisturbed
  PROVE  RepetitionInv'
<1>1. EventsInv'
  BY DEF RepetitionInv, Undisturbed, EventsInv, Told, AcceptedIsKept
<1>2. /\ agent' = agent /\ events' = events /\ cache' = cache
      /\ clock' \in Nat /\ clock' >= clock /\ clock \in Nat
  BY DEF Undisturbed, RepetitionInv
<1>3. InTime'
  BY <1>2, EventFacts DEF RepetitionInv, InTime
<1>4. OneThread' /\ CacheTyped' /\ CacheTrue' /\ DroppedRepeats'
  BY <1>2 DEF RepetitionInv, OneThread, CacheTyped, CacheTrue, DroppedRepeats
<1>5. AcceptedRemembered' /\ HandedApart'
  BY <1>2 DEF RepetitionInv, AcceptedRemembered, RememberedAt, HandedApart, Apart
<1> QED
  BY <1>1, <1>2, <1>3, <1>4, <1>5 DEF RepetitionInv

LEMMA HappensKeepsRepetition ==
  ASSUME RepetitionInv, NEW e, Happens(e)
  PROVE  RepetitionInv'
<1> DEFINE n == Len(events)
<1> USE DEF RepetitionInv
<1>1. EventsInv'
  BY HappensKeepsEvents
<1>2. /\ agent' = agent /\ cache' = cache /\ clock' = clock /\ clock \in Nat
      /\ e.outcome \notin {"accepted", "failed"} /\ ~e.settled /\ e.time = clock
  BY DEF Happens
<1>3. /\ n \in Nat /\ DOMAIN events = 1..n
      /\ DOMAIN events' = 1..(n + 1) /\ Len(events') = n + 1
      /\ \A i \in DOMAIN events : events'[i] = events[i]
      /\ events'[n + 1] = e
  BY EventFacts DEF Happens, Added
<1>4. SameEvents
  BY <1>3 DEF SameEvents
<1>5. /\ agent = "openclaw" =>
           /\ ThreadFree(e.role)
           /\ e.outcome = "dropped" => EmittedRecently(e.key)
           /\ e.outcome \in Handed => ~EmittedRecently(e.key)
      /\ e.outcome = "dropped" => agent = "openclaw"
  BY DEF Happens, Told
<1> HIDE DEF n
<1>6. OneThread'
  <2> SUFFICES ASSUME NEW a \in DOMAIN events', NEW b \in DOMAIN events', a < b, agent = "openclaw",
                      ~(events'[a].role \in Tools /\ events'[b].role \in Tools)
               PROVE  events'[a].outcome # "posted"
                      /\ (events'[a].outcome = "accepted" => events'[a].settled)
    BY <1>2 DEF OneThread
  <2>1. a \in DOMAIN events /\ events'[a] = events[a]
    BY <1>3
  <2>2. CASE b \in DOMAIN events
    BY <1>3, <2>1, <2>2 DEF OneThread
  <2>3. CASE b \notin DOMAIN events
    <3>1. events'[b] = e
      BY <1>3, <2>3
    <3> QED
      BY <1>5, <2>1, <3>1 DEF ThreadFree
  <2> QED
    BY <2>2, <2>3
<1>7. InTime'
  <2> SUFFICES ASSUME NEW a \in DOMAIN events', NEW b \in DOMAIN events'
               PROVE  events'[a].time <= clock /\ (a <= b => events'[a].time <= events'[b].time)
    BY <1>2 DEF InTime
  <2>1. CASE a \in DOMAIN events /\ b \in DOMAIN events
    BY <1>3, <2>1 DEF InTime
  <2>2. CASE a \notin DOMAIN events
    BY <1>2, <1>3, <2>2
  <2>3. CASE a \in DOMAIN events /\ b \notin DOMAIN events
    <3>1. events'[b] = e /\ events'[a] = events[a] /\ events[a].time <= clock
      BY <1>3, <2>3 DEF InTime
    <3> QED
      BY <1>2, <3>1
  <2> QED
    BY <2>1, <2>2, <2>3
<1>8. CacheTyped' /\ CacheTrue'
  BY <1>2, <1>3 DEF CacheTyped, CacheTrue
<1>9. AcceptedRemembered'
  <2> SUFFICES ASSUME NEW i \in DOMAIN events', events'[i].settled, events'[i].role \notin Tools
               PROVE  \/ \E x \in DOMAIN cache' : RememberedAt(i, x)'
                      \/ Cardinality(KeysAfter(events', i, Len(events'))) >= Limit
    BY DEF AcceptedRemembered
  <2>1. i \in DOMAIN events /\ events'[i] = events[i]
    BY <1>2, <1>3
  <2>2. ASSUME NEW x \in DOMAIN cache, RememberedAt(i, x) PROVE RememberedAt(i, x)'
    BY <1>2, <1>3, <2>1, <2>2 DEF RememberedAt
  <2>3. CASE Cardinality(KeysAfter(events, i, n)) >= Limit
    <3>1. i \in Nat /\ n + 1 \in Nat /\ n <= n + 1 /\ \A k \in (i + 1)..n : k \in DOMAIN events
      BY <1>3, <2>1
    <3>2. KeysAfter(events', i, n) = KeysAfter(events, i, n)
      BY <1>3, <2>1, <3>1, SameKeysAfter
    <3> QED
      BY <1>3, <2>3, <3>1, <3>2, KeysAfterGrow
  <2> QED
    BY <1>2, <2>1, <2>2, <2>3 DEF AcceptedRemembered, n
<1>10. HandedApart'
  <2> SUFFICES ASSUME NEW i \in DOMAIN events', NEW j \in DOMAIN events', i < j, agent = "openclaw",
                      events'[i].outcome = "accepted", events'[j].outcome \in Handed,
                      events'[j].role \notin Tools, events'[i].key = events'[j].key
               PROVE  Apart(i, j)'
    BY <1>2 DEF HandedApart
  <2>1. i \in DOMAIN events /\ events'[i] = events[i]
    BY <1>3
  <2>2. CASE j \in DOMAIN events
    BY <1>3, <1>4, <2>1, <2>2, ApartStays DEF HandedApart
  <2>3. CASE j \notin DOMAIN events
    <3>1. j = n + 1 /\ events'[j] = e
      BY <1>3, <2>3
    <3>2. events'[i].role \notin Tools
      <4>1. /\ events[i].key = EmitKey(events[i].role, events[i].payload)
            /\ events[i].role \in Registered
        BY <2>1 DEF EventsInv, Told, Handed
      <4>2. e.key = EmitKey(e.role, e.payload) /\ e.role \in Registered
        BY <3>1 DEF Happens, Told
      <4>3. events[i].role \in Tools <=> e.role \in Tools
        BY <2>1, <3>1, <4>1, <4>2, KeyTellsRole
      <4> QED
        BY <2>1, <3>1, <4>3
    <3>3. events[i].settled
      BY <1>5, <2>1, <3>1, <3>2 DEF ThreadFree
    <3>4. CASE \E x \in DOMAIN cache : RememberedAt(i, x)
      <4>1. PICK x \in DOMAIN cache : RememberedAt(i, x)
        BY <3>4
      <4>2. cache[x].key = e.key /\ cache[x].time >= events[i].time /\ cache[x].time \in Nat
        BY <2>1, <3>1, <4>1 DEF RememberedAt, CacheTrue
      <4>3. ~(clock - cache[x].time <= Window)
        BY <1>5, <3>1, <4>2 DEF EmittedRecently
      <4>4. e.time - events[i].time > Window
        BY <1>2, <2>1, <4>2, <4>3, EventFacts, BoundsNat
      <4> QED
        BY <2>1, <3>1, <4>4 DEF Apart
    <3>5. CASE Cardinality(KeysAfter(events, i, n)) >= Limit
      <4>1. i \in Nat /\ \A k \in (i + 1)..n : k \in DOMAIN events
        BY <1>3, <2>1
      <4>2. KeysAfter(events', i, n) = KeysAfter(events, i, n)
        BY <1>3, <2>1, <4>1, SameKeysAfter
      <4>3. j - 1 = n
        BY <1>3, <3>1
      <4> QED
        BY <3>5, <4>2, <4>3 DEF Apart
    <3> QED
      BY <2>1, <3>2, <3>3, <3>4, <3>5 DEF AcceptedRemembered, n
  <2> QED
    BY <2>2, <2>3
<1>11. DroppedRepeats'
  <2> SUFFICES ASSUME NEW j \in DOMAIN events', events'[j].outcome = "dropped"
               PROVE  \E k \in 1..(j - 1) : events'[k].outcome = "accepted" /\ events'[k].key = events'[j].key
    BY DEF DroppedRepeats
  <2>1. CASE j \in DOMAIN events
    <3>1. \A k \in 1..(j - 1) : k \in DOMAIN events
      BY <1>3, <2>1
    <3> QED
      BY <1>3, <2>1, <3>1 DEF DroppedRepeats
  <2>2. CASE j \notin DOMAIN events
    <3>1. j = n + 1 /\ events'[j] = e
      BY <1>3, <2>2
    <3>2. PICK x \in DOMAIN cache : cache[x].key = e.key
      BY <1>5, <3>1 DEF EmittedRecently
    <3>3. PICK k \in DOMAIN events : events[k].settled /\ events[k].key = e.key
      BY <3>2 DEF CacheTrue
    <3>4. k \in 1..(j - 1) /\ events'[k] = events[k] /\ events[k].outcome = "accepted"
      BY <1>3, <3>1, <3>3, EventFacts
    <3> QED
      BY <3>1, <3>3, <3>4
  <2> QED
    BY <2>1, <2>2
<1> QED
  BY <1>1, <1>2, <1>6, <1>7, <1>8, <1>9, <1>10, <1>11

LEMMA DecidedKeepsRepetition ==
  ASSUME RepetitionInv, NEW d, NEW outcome, Decided(d, outcome)
  PROVE  RepetitionInv'
<1> DEFINE n == Len(events)
<1> USE DEF RepetitionInv
<1>1. EventsInv'
  BY DecidedKeepsEvents
<1>2. /\ agent' = agent /\ cache' = cache /\ clock' = clock /\ clock \in Nat
      /\ d \in DOMAIN events /\ events[d].outcome = "posted" /\ outcome \in {"accepted", "failed"}
      /\ DOMAIN events' = DOMAIN events /\ Len(events') = n
  BY DEF Decided, Keeps
<1>3. \A j \in DOMAIN events :
        /\ events'[j].role = events[j].role
        /\ events'[j].key = events[j].key /\ events'[j].time = events[j].time
        /\ events'[j].settled = events[j].settled
        /\ events'[j].outcome = IF j = d THEN outcome ELSE events[j].outcome
  BY DecidedFields
<1>4. SameEvents
  BY <1>2, <1>3 DEF SameEvents
<1>5. n \in Nat /\ DOMAIN events = 1..n
  BY EventFacts
<1> HIDE DEF n
<1>6. OneThread'
  <2> SUFFICES ASSUME NEW a \in DOMAIN events, NEW b \in DOMAIN events, a < b, agent = "openclaw",
                      ~(events[a].role \in Tools /\ events[b].role \in Tools)
               PROVE  events'[a].outcome # "posted"
                      /\ (events'[a].outcome = "accepted" => events'[a].settled)
    BY <1>2, <1>3 DEF OneThread
  <2>1. a # d
    BY <1>2 DEF OneThread
  <2> QED
    BY <1>3, <2>1 DEF OneThread
<1>7. InTime'
  BY <1>2, <1>3 DEF InTime
<1>8. CacheTyped' /\ CacheTrue'
  BY <1>2, <1>3 DEF CacheTyped, CacheTrue
<1>9. AcceptedRemembered'
  <2> SUFFICES ASSUME NEW i \in DOMAIN events, events[i].settled, events[i].role \notin Tools
               PROVE  \/ \E x \in DOMAIN cache : RememberedAt(i, x)'
                      \/ Cardinality(KeysAfter(events', i, n)) >= Limit
    BY <1>2, <1>3 DEF AcceptedRemembered
  <2>1. ASSUME NEW x \in DOMAIN cache, RememberedAt(i, x) PROVE RememberedAt(i, x)'
    BY <1>2, <1>3, <2>1 DEF RememberedAt
  <2>2. i \in Nat /\ \A k \in (i + 1)..n : k \in DOMAIN events
    BY <1>5
  <2>3. KeysAfter(events', i, n) = KeysAfter(events, i, n)
    BY <1>4, <1>5, <2>2, SameKeysAfter DEF SameEvents
  <2> QED
    BY <2>1, <2>3 DEF AcceptedRemembered, n
<1>10. HandedApart'
  <2> SUFFICES ASSUME NEW i \in DOMAIN events, NEW j \in DOMAIN events, i < j, agent = "openclaw",
                      events'[i].outcome = "accepted", events'[j].outcome \in Handed,
                      events[j].role \notin Tools, events[i].key = events[j].key
               PROVE  Apart(i, j)'
    BY <1>2, <1>3 DEF HandedApart
  <2>1. events[i].outcome = "accepted"
    BY <1>2, <1>3 DEF OneThread
  <2>2. events[j].outcome \in Handed
    BY <1>2, <1>3 DEF Handed
  <2> QED
    BY <1>4, <2>1, <2>2, ApartStays DEF HandedApart
<1>11. DroppedRepeats'
  <2> SUFFICES ASSUME NEW j \in DOMAIN events, events[j].outcome = "dropped"
               PROVE  \E k \in 1..(j - 1) : events'[k].outcome = "accepted" /\ events'[k].key = events'[j].key
    BY <1>2, <1>3 DEF DroppedRepeats
  <2>1. PICK k \in 1..(j - 1) : events[k].outcome = "accepted" /\ events[k].key = events[j].key
    BY DEF DroppedRepeats
  <2>2. k \in DOMAIN events /\ k # d
    BY <1>2, <1>5, <2>1
  <2> QED
    BY <1>3, <2>1, <2>2
<1> QED
  BY <1>1, <1>2, <1>6, <1>7, <1>8, <1>9, <1>10, <1>11

\* The key of an event goes to the end of the cache: so do the keys of later
\* events only, and what is forgotten leaves as many others behind.
LEMMA GoneOnKeepsRepetition ==
  ASSUME RepetitionInv, NEW m, GoneOn(m)
  PROVE  RepetitionInv'
<1> DEFINE entry == [key |-> events[m].key, time |-> events[m].time]
           n == Len(events)
<1> USE DEF RepetitionInv
<1>1. EventsInv'
  BY GoneOnKeepsEvents
<1>2. /\ agent' = agent /\ clock' = clock /\ clock \in Nat /\ agent = "openclaw"
      /\ m \in DOMAIN events /\ events[m].outcome = "accepted" /\ ~events[m].settled
      /\ DOMAIN events' = DOMAIN events /\ Len(events') = Len(events)
  BY DEF GoneOn, Keeps
<1>3. \A j \in DOMAIN events :
        /\ events'[j].role = events[j].role
        /\ events'[j].key = events[j].key /\ events'[j].time = events[j].time
        /\ events'[j].outcome = events[j].outcome
  BY GoneOnFields
<1>4. SameEvents
  BY <1>2, <1>3 DEF SameEvents
<1>5. n \in Nat /\ DOMAIN events = 1..n
  BY EventFacts
<1>6. events'[m].settled /\ \A j \in DOMAIN events : j # m => events'[j].settled = events[j].settled
  BY <1>2, GoneOnFields, Zenon
<1>7. OneThread'
  BY <1>2, <1>3, <1>6 DEF OneThread
<1>8. InTime'
  BY <1>2, <1>3 DEF InTime
<1>9. HandedApart'
  BY <1>2, <1>3, <1>4, ApartStays DEF HandedApart
<1>10. DroppedRepeats'
  <2> SUFFICES ASSUME NEW j \in DOMAIN events, events[j].outcome = "dropped"
               PROVE  \E k \in 1..(j - 1) : events'[k].outcome = "accepted" /\ events'[k].key = events'[j].key
    BY <1>2, <1>3 DEF DroppedRepeats
  <2>1. PICK k \in 1..(j - 1) : events[k].outcome = "accepted" /\ events[k].key = events[j].key
    BY DEF DroppedRepeats
  <2>2. k \in DOMAIN events
    BY <1>5, <2>1
  <2> QED
    BY <1>3, <2>1, <2>2
<1>11. /\ cache' \in Seq(ToSet(cache'))
       /\ \E r, d : Shifted(cache, cache', entry, r, d)
  BY RememberedShifts DEF GoneOn
<1>12. PICK r, d : Shifted(cache, cache', entry, r, d)
  BY <1>11
<1>13. PICK last : last = Len(cache')
  OBVIOUS
<1>14. /\ \A x \in 1..(last - 1) : Was(r, d, x) \in 1..Len(cache) /\ Was(r, d, x) # r
       /\ \A x, y \in 1..(last - 1) : x < y => Was(r, d, x) < Was(r, d, y)
       /\ \A x \in 1..Len(cache) : x # r =>
            \/ \E z \in 1..(last - 1) : Was(r, d, z) = x
            \/ last = Limit /\ \A y \in 1..(last - 1) : x < Was(r, d, y)
  BY <1>12, <1>13, ShiftedOrder
<1>15. entry.key = events[m].key /\ entry.time = events[m].time
  OBVIOUS
<1> HIDE DEF entry
<1>16. /\ last \in 1..Limit /\ Len(cache) \in Nat
       /\ \A x \in 1..Len(cache) : cache[x].key = events[m].key <=> x = r
       /\ \A x \in 1..(last - 1) : cache'[x] = cache[Was(r, d, x)]
       /\ cache'[last] = entry
  BY <1>12, <1>13, <1>15 DEF Shifted
<1>17. DOMAIN cache = 1..Len(cache) /\ DOMAIN cache' = 1..last
  BY <1>11, <1>13, LenProperties DEF CacheTyped
<1>18. \A x, y \in 1..last : cache'[x].key = cache'[y].key => x = y
  <2>1. \A x \in 1..(last - 1) : cache'[x].key # cache'[last].key
    BY <1>14, <1>15, <1>16
  <2>2. \A x, y \in 1..(last - 1) : x < y => cache'[x].key # cache'[y].key
    <3> SUFFICES ASSUME NEW x \in 1..(last - 1), NEW y \in 1..(last - 1), x < y,
                        cache'[x].key = cache'[y].key
                 PROVE  FALSE
      OBVIOUS
    <3>1. Was(r, d, x) \in DOMAIN cache /\ Was(r, d, y) \in DOMAIN cache
          /\ Was(r, d, x) < Was(r, d, y)
      BY <1>14, <1>17
    <3>2. cache[Was(r, d, x)].key = cache[Was(r, d, y)].key
      BY <1>16
    <3>3. Was(r, d, x) = Was(r, d, y)
      BY <3>1, <3>2 DEF CacheTyped
    <3> QED
      BY <1>17, <3>1, <3>3
  <2> QED
    BY <1>16, <2>1, <2>2
<1>19. CacheTyped'
  BY <1>11, <1>16, <1>17, <1>18, <1>13, LimitPositive DEF CacheTyped
<1>20. CacheTrue'
  <2> SUFFICES ASSUME NEW x \in 1..last
               PROVE  cache'[x].time \in Nat /\
                      \E k \in DOMAIN events : events'[k].settled /\ events'[k].key = cache'[x].key
    BY <1>2, <1>17 DEF CacheTrue
  <2>1. CASE x = last
    <3>1. cache'[x] = entry /\ entry.time \in Nat
      BY <1>2, <1>15, <1>16, <2>1, EventFacts
    <3> QED
      BY <1>2, <1>3, <1>6, <1>15, <3>1
  <2>2. CASE x # last
    <3>1. x \in 1..(last - 1)
      BY <1>16, <2>2
    <3>2. Was(r, d, x) \in DOMAIN cache /\ cache'[x] = cache[Was(r, d, x)]
      BY <1>14, <1>16, <1>17, <3>1
    <3>3. PICK k \in DOMAIN events : events[k].settled /\ events[k].key = cache'[x].key
      BY <3>2 DEF CacheTrue
    <3>4. cache'[x].time \in Nat
      BY <3>2 DEF CacheTrue
    <3> QED
      BY <1>2, <1>3, <1>6, <3>3, <3>4
  <2> QED
    BY <2>1, <2>2
<1>21. AcceptedRemembered'
  <2> SUFFICES ASSUME NEW i \in DOMAIN events, events'[i].settled, events[i].role \notin Tools
               PROVE  \/ \E x \in 1..last : RememberedAt(i, x)'
                      \/ Cardinality(KeysAfter(events', i, n)) >= Limit
    BY <1>2, <1>3, <1>17 DEF AcceptedRemembered
  <2>1. CASE events[i].key = events[m].key
    <3>1. events[i].time <= events[m].time
      <4>1. i = m \/ events[i].settled
        BY <1>6
      <4>2. events[i].outcome = "accepted"
        BY <1>2, <4>1, EventFacts
      <4>3. events[m].role \notin Tools
        BY <1>2, <2>1, <4>2, EventFacts DEF Handed
      <4>4. ~(m < i)
        BY <1>2, <4>3 DEF OneThread
      <4> QED
        BY <1>2, <1>5, <4>4 DEF InTime
    <3>2. RememberedAt(i, last)'
      BY <1>2, <1>3, <1>15, <1>16, <1>17, <2>1, <3>1 DEF RememberedAt
    <3> QED
      BY <1>16, <3>2
  <2>2. CASE events[i].key # events[m].key
    <3>1. events[i].settled /\ i # m
      BY <1>6, <2>2
    <3>2. m > i
      BY <1>2, <1>5, <3>1 DEF OneThread
    <3>3. CASE Cardinality(KeysAfter(events, i, n)) >= Limit
      <4>1. i \in Nat /\ \A k \in (i + 1)..n : k \in DOMAIN events
        BY <1>5
      <4>2. KeysAfter(events', i, n) = KeysAfter(events, i, n)
        BY <1>3, <1>5, <4>1, SameKeysAfter
      <4> QED
        BY <3>3, <4>2
    <3>4. ASSUME NEW x \in DOMAIN cache, RememberedAt(i, x)
          PROVE  \/ \E z \in 1..last : RememberedAt(i, z)'
                 \/ Cardinality(KeysAfter(events', i, n)) >= Limit
      <4>1. x \in 1..Len(cache) /\ x # r /\ cache[x].key = events[i].key
            /\ cache[x].time >= events[i].time
        BY <1>16, <1>17, <2>2, <3>4 DEF RememberedAt
      <4>2. ASSUME NEW y \in 1..last, y < last => x < Was(r, d, y)
            PROVE  \E k \in DOMAIN events : k > i /\ events[k].key = cache'[y].key
        <5>1. CASE y = last
          BY <1>2, <1>15, <1>16, <3>2, <5>1
        <5>2. CASE y # last
          <6>1. y \in 1..(last - 1) /\ x < Was(r, d, y)
            BY <1>16, <4>2, <5>2
          <6>2. Was(r, d, y) \in DOMAIN cache /\ cache'[y] = cache[Was(r, d, y)]
            BY <1>14, <1>16, <1>17, <6>1
          <6> QED
            BY <3>4, <6>1, <6>2 DEF RememberedAt
        <5> QED
          BY <5>1, <5>2
      <4>3. ASSUME NEW z \in 1..(last - 1), Was(r, d, z) = x
            PROVE  RememberedAt(i, z)'
        <5>1. cache'[z] = cache[x]
          BY <1>16, <4>3
        <5>2. ASSUME NEW y \in 1..last, y > z
              PROVE  \E k \in DOMAIN events : k > i /\ events'[k].key = cache'[y].key
          <6>1. y < last => x < Was(r, d, y)
            <7> SUFFICES ASSUME y < last PROVE x < Was(r, d, y)
              OBVIOUS
            <7>1. y \in 1..(last - 1) /\ z \in 1..(last - 1) /\ z < y
              BY <1>16, <4>3, <5>2
            <7>2. Was(r, d, z) < Was(r, d, y)
              BY <1>14, <7>1
            <7> QED
              BY <4>3, <7>2
          <6> QED
            BY <1>3, <4>2, <6>1
        <5> QED
          BY <1>2, <1>3, <1>17, <4>1, <5>1, <5>2 DEF RememberedAt
      <4>4. ASSUME last = Limit, \A y \in 1..(last - 1) : x < Was(r, d, y)
            PROVE  Cardinality(KeysAfter(events', i, n)) >= Limit
        <5>1. ASSUME NEW y \in 1..Limit
              PROVE  cache'[y].key \in KeysAfter(events', i, n)
          <6>1. y \in 1..last /\ (y < last => y \in 1..(last - 1))
            BY <1>16, <4>4
          <6>2. y < last => x < Was(r, d, y)
            BY <4>4, <6>1
          <6>3. PICK k \in DOMAIN events : k > i /\ events[k].key = cache'[y].key
            BY <4>2, <6>1, <6>2
          <6>4. k \in (i + 1)..n /\ events'[k].key = cache'[y].key
            <7>1. i \in 1..n /\ k \in 1..n
              BY <1>5
            <7>2. k \in (i + 1)..n
              BY <1>5, <6>3, <7>1
            <7> QED
              BY <1>3, <6>3, <7>2
          <6>5. cache'[y].key # events'[i].key
            <7>1. CASE y = last
              BY <1>3, <1>15, <1>16, <2>2, <7>1
            <7>2. CASE y # last
              <8>1. y \in 1..(last - 1) /\ x < Was(r, d, y) /\ Was(r, d, y) \in DOMAIN cache
                BY <1>14, <1>16, <1>17, <4>4, <6>1, <7>2
              <8>2. cache[Was(r, d, y)].key # cache[x].key
                BY <1>17, <4>1, <8>1 DEF CacheTyped
              <8> QED
                BY <1>3, <1>16, <4>1, <8>1, <8>2
            <7> QED
              BY <7>1, <7>2
          <6> QED
            BY <6>4, <6>5 DEF KeysAfter
        <5>2. \A y, z \in 1..Limit : cache'[y].key = cache'[z].key => y = z
          BY <1>18, <4>4
        <5>3. i \in Nat
          BY <1>5
        <5> QED
          BY <1>5, <5>1, <5>2, <5>3, ManyKeys
      <4>5. \A z \in 1..(last - 1) : z \in 1..last
        BY <1>16
      <4> QED
        BY <1>14, <4>1, <4>3, <4>4, <4>5
    <3> QED
      BY <3>1, <3>3, <3>4 DEF AcceptedRemembered
  <2> QED
    BY <2>1, <2>2
<1> QED
  BY <1>1, <1>2, <1>7, <1>8, <1>9, <1>10, <1>19, <1>20, <1>21

LEMMA NextRepetitionInv == RepetitionInv /\ [Next]_vars => RepetitionInv'
  BY Deliveries, UndisturbedKeepsRepetition, HappensKeepsRepetition, DecidedKeepsRepetition,
     GoneOnKeepsRepetition DEF RepetitionInv

-----------------------------------------------------------------------------
(* What holds of the whole.                                                *)

\* The proxy, the clock and the bounds, whatever the others do.
THEOREM StateInvariance == Spec => []StateTyped
  BY InitStateTyped, NextStateTyped, PTL DEF Spec

\* What happened to the events of the agent, on the way to the server and back.
THEOREM RepetitionInvariance == Spec => []RepetitionInv
  BY InitRepetitionInv, NextRepetitionInv, PTL DEF Spec

\* The state stays in its types.
THEOREM TypeOKHolds == Spec => []TypeOK
  <1>1. StateTyped /\ RepetitionInv => TypeOK
    <2> SUFFICES ASSUME StateTyped, RepetitionInv PROVE TypeOK
      OBVIOUS
    <2>1. \A c \in Callers :
            calls[c].phase \in {"idle", "waiting", "first", "reconnect", "second", "done"}
      BY DEF StateTyped, ProxyInv, ProxyTyped, Request, CallPhases, Serves
    <2>2. \A i \in DOMAIN events : events[i].outcome \in
            {"rejected", "skipped", "dropped", "posted", "accepted", "failed"}
      BY DEF RepetitionInv, EventsInv, Told, Handed
    <2> QED
      BY <2>1, <2>2 DEF StateTyped, ProxyInv, ProxyTyped, RepetitionInv, EventsInv, CacheTyped, TypeOK
  <1> QED
    BY <1>1, StateInvariance, RepetitionInvariance, PTL

\* An event that the server has accepted is kept as itself, for the id that each
\* of the five parsers builds tells the event and its payload.
THEOREM AcceptedIsKeptHolds == Spec => []AcceptedIsKept
  <1>1. RepetitionInv => AcceptedIsKept
    BY DEF RepetitionInv, EventsInv
  <1> QED
    BY <1>1, RepetitionInvariance, PTL

\* What the plugin hands over is what the parser takes.
THEOREM EmittedIsParsedHolds == Spec => []EmittedIsParsed
  <1>1. RepetitionInv => EmittedIsParsed
    BY DEF RepetitionInv, EventsInv, Told, EmittedIsParsed
  <1> QED
    BY <1>1, RepetitionInvariance, PTL

\* What is dropped was accepted before, and what is accepted twice under one key
\* is a window apart, or as many other keys as the cache holds.
THEOREM RepetitionsDroppedHolds == Spec => []RepetitionsDropped
  <1>1. RepetitionInv => RepetitionsDropped
    <2> SUFFICES ASSUME RepetitionInv, NEW i \in DOMAIN events, NEW j \in DOMAIN events
                 PROVE  RepetitionsDropped!(i, j)
      BY DEF RepetitionsDropped
    <2>1. events[j].outcome = "dropped" =>
            \E k \in 1..(j - 1) : events[k].outcome = "accepted" /\ events[k].key = events[j].key
      BY DEF RepetitionInv, DroppedRepeats
    <2>2. i < j /\ agent = "openclaw"
          /\ events[i].outcome = "accepted" /\ events[j].outcome = "accepted"
          /\ events[j].role \notin Tools /\ events[i].key = events[j].key
          => Apart(i, j)
      BY DEF RepetitionInv, HandedApart, Handed
    <2> QED
      BY <2>1, <2>2 DEF Apart, KeysAfter
  <1> QED
    BY <1>1, RepetitionInvariance, PTL
=============================================================================
