------------------------------ MODULE Clients ------------------------------
(***************************************************************************)
(* The programs that stand between an agent and the server: the hook that  *)
(* an agent runs for an event (memory-bank-hook), the OpenClaw plugin that *)
(* runs it and drops what it takes for a repetition                        *)
(* (.openclaw/extensions/memory-bank/index.js), and the MCP proxy that     *)
(* OpenClaw asks for memories (memory-bank-mcp-proxy).                     *)
(*                                                                         *)
(* One agent is at work.  It has an event or asks for memories, at most    *)
(* MaxWork times in all.  The server stops and starts at any moment; a     *)
(* start is numbered, and an MCP session is one of a start.                *)
(*                                                                         *)
(* Agents, the server's store and the MCP library are external.  A store   *)
(* keeps the first fragment of an id, as IngestQueue shows of the server.  *)
(* A definition introduced by "Bug:" is the next one with a mistake in it. *)
(***************************************************************************)
EXTENDS HookFragments, Sequences, SequencesExt

CONSTANTS
  Inputs,      \* the events of each agent to consider: [role, payload], the
               \* stamp of the payload left open
  Callers,     \* requests for memories
  Nobody,      \* nobody holds the lock of the proxy's client
  Window,      \* DUPLICATE_WINDOW_MS, in ticks
  Limit,       \* DEDUPE_CACHE_LIMIT
  MaxWork,     \* bound on events and requests
  MaxStarts,   \* bound on starts of the server
  MaxFaults,   \* bound on answers that are lost and calls that fail
  MaxClock     \* bound on time

ASSUME AgentsKnown == DOMAIN Inputs \subseteq HookAgents
ASSUME LimitPositive == Limit \in Nat \ {0}
ASSUME NobodyIsNone == Nobody \notin Callers
ASSUME BoundsNat == {Window, MaxFaults, MaxClock} \subseteq Nat /\ MaxStarts \in Nat \ {0}

\* The plugin registers five hooks and no other, and what a tool is called with
\* and returns is rendered, which leaves no blank.
ASSUME PluginInputs ==
  /\ Absent # Blank /\ "nothing" \notin {Absent, Blank}
  /\ "openclaw" \in DOMAIN Inputs =>
       \A input \in Inputs["openclaw"] :
         /\ input.role \in {"prompt", "build", "call", "result", "reply"}
         /\ input.payload.data # Blank

VARIABLES
  agent,    \* the agent at work
  server,   \* the number of the start that is running, or 0
  starts,   \* the number of starts
  stored,   \* the events whose fragments the server keeps
  events,   \* what the agent's events have become
  clock,
  cache,    \* state.emitted of the plugin: keys and times, the oldest first
  client,   \* the start that the proxy's MCP session belongs to, 0 before
  lock,     \* who holds the client
  calls,    \* the state of every request
  faults

delivery == <<stored, events, cache>>
proxy == <<client, lock, calls>>
vars == <<agent, server, starts, delivery, clock, proxy, faults>>

Idle == [phase |-> "idle", quiet |-> FALSE, ok |-> FALSE]

Init ==
  /\ agent \in DOMAIN Inputs
  /\ server = 1 /\ starts = 1
  /\ stored = {} /\ events = <<>> /\ cache = <<>>
  /\ clock = 0
  /\ client = 0 /\ lock = Nobody
  /\ calls = [c \in Callers |-> Idle]
  /\ faults = 0

Working == Len(events) + Cardinality({c \in Callers : calls[c] # Idle}) < MaxWork
Fault == faults < MaxFaults /\ faults' = faults + 1

-----------------------------------------------------------------------------
(* The server and the time.                                                *)

InFlight(c) == calls[c].phase \notin {"idle", "done"}

Down ==
  /\ server # 0
  /\ server' = 0
  /\ calls' = [c \in Callers |-> IF InFlight(c) THEN [calls[c] EXCEPT !.quiet = FALSE] ELSE calls[c]]
  /\ UNCHANGED <<agent, starts, delivery, clock, client, lock, faults>>

Up ==
  /\ server = 0 /\ starts < MaxStarts
  /\ starts' = starts + 1
  /\ server' = starts + 1
  /\ UNCHANGED <<agent, delivery, clock, proxy, faults>>

\* Only the plugin looks at the time, and only at what it has emitted.
Tick ==
  /\ agent = "openclaw" /\ events # <<>>
  /\ clock < MaxClock
  /\ clock' = clock + 1
  /\ UNCHANGED <<agent, server, starts, delivery, proxy, faults>>

-----------------------------------------------------------------------------
(* The hook.                                                               *)

Tools == {"call", "result"}

\* Gemini, OpenCode and OpenClaw date their payloads or number their messages.
Stamped(p) ==
  [session |-> p.session, turn |-> p.turn, named |-> p.named, text |-> p.text, alt |-> p.alt,
   worthy |-> p.worthy, tool |-> p.tool, data |-> p.data, use |-> p.use, active |-> p.active,
   stamp |-> IF agent \in {"claude-code", "codex"} THEN Absent ELSE Len(events)]

Outcome(fragment) ==
  CASE fragment.kind = "error" -> "rejected"
    [] fragment.kind = "skip" -> "skipped"
    [] fragment.kind = "fragment" -> "posted"

NewEvent(role, p, outcome, key) ==
  events' = Append(events, [role |-> role, payload |-> p, outcome |-> outcome, key |-> key,
                            time |-> clock, settled |-> FALSE])

\* An agent waits for the hooks of its prompts and replies; hooks of tools
\* that run side by side are not waited for.
HookEvent ==
  \E input \in Inputs[agent] :
    LET role == input.role
        p == Stamped(input.payload) IN
    /\ agent # "openclaw"
    /\ Working
    /\ \A i \in DOMAIN events : events[i].outcome = "posted" =>
         events[i].role \in Tools /\ role \in Tools
    /\ NewEvent(role, p, Outcome(Parse(agent, role, p)), Absent)
    /\ UNCHANGED <<agent, server, starts, stored, cache, clock, proxy, faults>>

Settle(i, outcome) == events' = [events EXCEPT ![i].outcome = outcome]

IdOf(i) == Parse(agent, events[i].role, events[i].payload).id

Store(i) ==
  stored' = IF \E j \in stored : IdOf(j) = IdOf(i) THEN stored ELSE stored \cup {i}

\* The one attempt of post_ingest.
Accept(i) ==
  /\ events[i].outcome = "posted"
  /\ server # 0
  /\ Store(i)
  /\ Settle(i, "accepted")
  /\ UNCHANGED <<agent, server, starts, cache, clock, proxy, faults>>

AnswerLost(i) ==
  /\ events[i].outcome = "posted"
  /\ server # 0
  /\ Fault
  /\ Store(i)
  /\ Settle(i, "failed")
  /\ UNCHANGED <<agent, server, starts, cache, clock, proxy>>

Unreachable(i) ==
  /\ events[i].outcome = "posted"
  /\ server = 0
  /\ Settle(i, "failed")
  /\ UNCHANGED <<agent, server, starts, stored, cache, clock, proxy, faults>>

-----------------------------------------------------------------------------
(* The OpenClaw plugin.                                                    *)

\* The first value that is there, a blank one being none.
FirstNonEmpty(values) ==
  IF \E i \in DOMAIN values : ~Missing(values[i])
  THEN values[CHOOSE i \in DOMAIN values :
                ~Missing(values[i]) /\ \A j \in 1..(i - 1) : Missing(values[j])]
  ELSE Absent

\* The last message of the role that has this field, whatever comes after it.
LastMessage(messages, role, field) ==
  FirstNonEmpty(Reverse([i \in DOMAIN messages |->
    IF messages[i].role = role THEN messages[i][field] ELSE Absent]))

\* OpenClaw says what it has to say in the event, or in the messages so far.
ResolvePrompt(e) == FirstNonEmpty(<<e.text, e.alt, LastMessage(e.messages, "user", "text")>>)
ResolveReply(e) == FirstNonEmpty(<<e.text, e.alt, LastMessage(e.messages, "assistant", "text")>>)
ResolveReplyId(e) == FirstNonEmpty(<<e.use, LastMessage(e.messages, "assistant", "id")>>)

\* Arguments default to an empty object; an output may be null.
ResolveData(role, e) == IF role = "call" THEN Or(e.data, "nothing") ELSE e.data

\* What the plugin hands to the hook, the event being named as it was registered.
PluginPayload(role, e) ==
  LET tool == role \in Tools IN
  [Stamped(e) EXCEPT
     !.session = FirstNonEmpty(<<@>>), !.turn = FirstNonEmpty(<<@>>), !.named = "own",
     !.text = IF tool THEN Absent ELSE IF role = "reply" THEN ResolveReply(e) ELSE ResolvePrompt(e),
     !.alt = Absent,
     !.tool = IF tool THEN FirstNonEmpty(<<@>>) ELSE Absent,
     !.data = IF tool THEN ResolveData(role, e) ELSE Absent,
     !.use = IF tool THEN FirstNonEmpty(<<@>>) ELSE IF role = "reply" THEN ResolveReplyId(e) ELSE Absent]

\* Bug: the name of the tool is not looked at.
PluginSkipsText(role, p) ==
  \/ Missing(p.session)
  \/ role \notin Tools /\ Missing(p.text)

\* Without a session, or without what the event is about, there is nothing to do.
PluginSkips(role, p) ==
  \/ Missing(p.session)
  \/ role \in Tools /\ Missing(p.tool)
  \/ role \notin Tools /\ Missing(p.text)

\* Both hooks of a prompt have the key of the run; a reply that of its message.
EmitKey(role, p) ==
  CASE role \in {"prompt", "build"} ->
         <<"prompt", p.session, IF Missing(p.turn) THEN p.text ELSE p.turn>>
    [] role \in Tools ->
         <<role, p.session, p.turn, IF Missing(p.use) THEN <<p.tool, p.data>> ELSE p.use>>
    [] role = "reply" -> <<"reply", p.session, IF Missing(p.use) THEN p.text ELSE p.use>>

EmittedRecently(key) ==
  \E i \in DOMAIN cache : cache[i].key = key /\ clock - cache[i].time <= Window

\* Map.delete: a key is there at most once.
Without(key) ==
  LET found == {i \in DOMAIN cache : cache[i].key = key} IN
  IF found = {} THEN cache ELSE RemoveAt(cache, CHOOSE i \in found : TRUE)

\* Map.set puts the key last, and the oldest goes when there are too many.
Remembered(key, time) ==
  LET all == Append(Without(key), [key |-> key, time |-> time]) IN
  IF Len(all) <= Limit THEN all ELSE Tail(all)

\* The hook is run by spawnSync: until it ends the plugin does nothing else.
\* OpenClaw waits for the handlers of a prompt and of a reply, and calls those
\* of tools that run side by side.
ThreadFree(role) ==
  \A i \in DOMAIN events :
    /\ events[i].outcome # "posted"
    /\ events[i].outcome = "accepted" /\ ~events[i].settled =>
         events[i].role \in Tools /\ role \in Tools

PluginEvent ==
  \E input \in Inputs[agent] :
    LET role == input.role
        p == PluginPayload(role, input.payload) IN
    /\ agent = "openclaw"
    /\ Working
    /\ ThreadFree(role)
    /\ IF PluginSkips(role, p) THEN NewEvent(role, p, "skipped", Absent)
       ELSE NewEvent(role, p, IF EmittedRecently(EmitKey(role, p)) THEN "dropped"
                              ELSE Outcome(Parse(agent, role, p)), EmitKey(role, p))
    /\ UNCHANGED <<agent, server, starts, stored, cache, clock, proxy, faults>>

\* Bug: the key is remembered whether the hook succeeded or not.
SettledOutcomes == {"accepted", "failed"}

\* The outcomes after which emitOnce remembers the key.
RememberedOutcomes == {"accepted"}

\* After the hook has ended the handler goes on, when it is its turn again.
Remember(i) ==
  /\ agent = "openclaw"
  /\ events[i].outcome \in RememberedOutcomes
  /\ ~events[i].settled
  /\ \A j \in DOMAIN events : events[j].outcome # "posted"
  /\ cache' = Remembered(events[i].key, events[i].time)
  /\ events' = [events EXCEPT ![i].settled = TRUE]
  /\ UNCHANGED <<agent, server, starts, stored, clock, proxy, faults>>

-----------------------------------------------------------------------------
(* The MCP proxy.                                                          *)

\* The proxy does not start without a server.
Connect ==
  /\ agent = "openclaw"
  /\ client = 0 /\ server # 0
  /\ client' = server
  /\ UNCHANGED <<agent, server, starts, delivery, clock, lock, calls, faults>>

Call(c) ==
  /\ client # 0
  /\ calls[c] = Idle
  /\ Working
  /\ calls' = [calls EXCEPT ![c] = [Idle EXCEPT !.phase = "waiting", !.quiet = server # 0]]
  /\ UNCHANGED <<agent, server, starts, delivery, clock, client, lock, faults>>

Acquire(c) ==
  /\ calls[c].phase = "waiting"
  /\ lock = Nobody
  /\ lock' = c
  /\ calls' = [calls EXCEPT ![c].phase = "first"]
  /\ UNCHANGED <<agent, server, starts, delivery, clock, client, faults>>

\* Bug: the client is not given back with an error.
AnswerKeepingLock(c, ok) ==
  /\ calls' = [calls EXCEPT ![c].phase = "done", ![c].ok = ok]
  /\ lock' = IF ok THEN Nobody ELSE lock

Answer(c, ok) ==
  /\ calls' = [calls EXCEPT ![c].phase = "done", ![c].ok = ok]
  /\ lock' = Nobody

\* The error of a call with the second client is the answer.
FailedCall(c) ==
  IF calls[c].phase = "second" THEN Answer(c, FALSE)
  ELSE calls' = [calls EXCEPT ![c].phase = "reconnect"] /\ UNCHANGED lock

\* call_upstream succeeds with a session of the server that is running, unless
\* the tool reports an error.
CallUpstream(c) ==
  /\ calls[c].phase \in {"first", "second"}
  /\ lock = c
  /\ IF client = server THEN Answer(c, TRUE) ELSE FailedCall(c)
  /\ UNCHANGED <<agent, server, starts, delivery, clock, client, faults>>

ToolError(c) ==
  /\ calls[c].phase \in {"first", "second"}
  /\ lock = c
  /\ client = server
  /\ Fault
  /\ IF calls[c].phase = "second"
     THEN /\ calls' = [calls EXCEPT ![c] = [phase |-> "done", quiet |-> FALSE, ok |-> FALSE]]
          /\ lock' = Nobody
     ELSE calls' = [calls EXCEPT ![c].phase = "reconnect", ![c].quiet = FALSE] /\ UNCHANGED lock
  /\ UNCHANGED <<agent, server, starts, delivery, clock, client>>

\* Bug: the call is answered with the first error after the client is replaced.
ReconnectOnly(c) ==
  /\ calls[c].phase = "reconnect"
  /\ lock = c
  /\ client' = IF server # 0 THEN server ELSE client
  /\ Answer(c, FALSE)
  /\ UNCHANGED <<agent, server, starts, delivery, clock, faults>>

\* A client that could be connected replaces the old one, which is kept if not.
Reconnect(c) ==
  /\ calls[c].phase = "reconnect"
  /\ lock = c
  /\ IF server # 0
     THEN client' = server /\ calls' = [calls EXCEPT ![c].phase = "second"] /\ UNCHANGED lock
     ELSE Answer(c, FALSE) /\ UNCHANGED client
  /\ UNCHANGED <<agent, server, starts, delivery, clock, faults>>

-----------------------------------------------------------------------------
Serving(c) == Acquire(c) \/ CallUpstream(c) \/ Reconnect(c)

Next ==
  \/ Down \/ Up \/ Tick
  \/ HookEvent \/ PluginEvent
  \/ \E i \in DOMAIN events : Accept(i) \/ AnswerLost(i) \/ Unreachable(i) \/ Remember(i)
  \/ Connect
  \/ \E c \in Callers : Call(c) \/ ToolError(c) \/ Serving(c)

\* The proxy is a process that is scheduled; its mutex is fair, and every
\* request to the server ends, with an error if the server is not there.
Fairness == \A c \in Callers : WF_vars(Serving(c))

Spec == Init /\ [][Next]_vars /\ Fairness

-----------------------------------------------------------------------------
(* Properties.                                                             *)

\* The state stays in its types; a posted fragment is one that a parser made.
TypeOK ==
  /\ agent \in DOMAIN Inputs
  /\ server \in {0, starts} /\ starts \in 1..MaxStarts
  /\ client \in 0..starts
  /\ lock \in Callers \cup {Nobody}
  /\ \A c \in Callers : calls[c].phase \in {"idle", "waiting", "first", "reconnect", "second", "done"}
  /\ \A i \in DOMAIN events : events[i].outcome \in
       {"rejected", "skipped", "dropped", "posted", "accepted", "failed"}
  /\ stored \subseteq DOMAIN events
  /\ Len(cache) <= Limit
  /\ clock \in 0..MaxClock /\ faults \in 0..MaxFaults

\* An event that the server has accepted is kept as itself: its id is not that of
\* another event, unless an earlier one brought the very same payload (the ids
\* that the five parsers build, for which no counter or clock is available).
AcceptedIsKept ==
  \A i \in DOMAIN events : events[i].outcome = "accepted" =>
    \/ i \in stored
    \/ \E j \in DOMAIN events \ {i} : events[j].role = events[i].role
                                      /\ events[j].payload = events[i].payload

\* The plugin and the hook agree on what an event must have: nothing that the
\* plugin hands over is refused or passed over by the parser, whose answer the
\* plugin would take for a delivery (index.js and normalize/openclaw.rs).
EmittedIsParsed ==
  \A i \in DOMAIN events : agent = "openclaw" /\ events[i].key # Absent =>
    events[i].outcome \notin {"rejected", "skipped"}

\* What the plugin drops as a repetition was accepted by the server under the
\* same key, for a failed attempt is made good by the next hook of the same
\* prompt; and a prompt or a reply is accepted twice under one key only if the
\* window lies between the two, or so many other keys that the first was
\* forgotten (emitOnce and rememberKey).
RepetitionsDropped ==
  \A i, j \in DOMAIN events :
    /\ events[j].outcome = "dropped" =>
         \E k \in 1..(j - 1) : events[k].outcome = "accepted" /\ events[k].key = events[j].key
    /\ i < j /\ agent = "openclaw"
       /\ events[i].outcome = "accepted" /\ events[j].outcome = "accepted"
       /\ events[j].role \notin Tools /\ events[i].key = events[j].key
       => \/ events[j].time - events[i].time > Window
          \/ Cardinality({events[k].key : k \in (i + 1)..(j - 1)} \ {events[i].key}) >= Limit

\* A request that finds a server running, which goes on running until the answer
\* and whose tool does not fail, is answered without an error, although the
\* server was restarted since the proxy connected (call_retrieve reconnects and
\* calls again, with other requests waiting for the client).
QuietCallSucceeds ==
  \A c \in Callers : calls[c].phase = "done" /\ calls[c].quiet => calls[c].ok

\* Every request is answered, whatever the server does: the client is given back
\* on every path (call_retrieve).
EveryCallAnswered == \A c \in Callers : InFlight(c) ~> calls[c].phase = "done"
=============================================================================
