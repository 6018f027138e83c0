# A verification of Memory Bank

Memory Bank gives coding agents a long-term memory. Hooks in the agents post
fragments of conversations to a local HTTP service; the service assembles
fragments into turns, asks a language model to condense each finished turn into
a memory note, keeps the notes with their embeddings and links in SQLite, and
answers `retrieve_memory` over MCP. This directory holds TLA+ specifications of
the parts of it that are hard to test, the TLC runs that check them, and TLAPS
proofs of what matters most. Paths below are relative to the repository; `ingest.rs`,
`actor.rs`, `db.rs`, `lib.rs`, `http_server.rs`, `mcp_server.rs`, `encoder.rs` and `startup_state.rs` are those of
`memory-bank-server/src`.

Run a check with `tlc -config <run>.cfg <module>.tla`, a proof with
`tlapm <module>.tla`, for the modules of theorems named below.

## Inventory

| Part | State it keeps | Operations | Talks to |
|---|---|---|---|
| Durable ingest queue, `ingest.rs` | tables `ingest_turns`, `ingest_fragments`; per process: the notification permit, the deadline | `ingest` (stage a fragment: join, start, supersede a turn), claim, next deadline, build window, verdicts (retry, fail, exhaust), recovery | HTTP handler above, memory actor below |
| Memory actor, `actor.rs`, `memory_window.rs` | one mailbox (capacity 100), one task at a time | `Add`: analyse, find neighbours, evolve, re-encode, commit; `Retrieve` | database, language model, encoder; answers the dispatcher by a oneshot |
| Database and vector index, `db.rs`, `startup_state.rs` | tables `memories`, `vec_memories`, `memory_links`, `model_config`; one write permit; the start-up state file | open: decide whether to rebuild, drop, create, migrate in chunks, remember the models; searches; statements of a note's transaction | every other part of the server |
| HTTP server and MCP tool, `http_server.rs`, `mcp_server.rs` | the listening port, the sessions of MCP clients | `POST /ingest`, `GET /healthz`, `/mcp` | queue, actor |
| Server start-up, `lib.rs`, `main.rs` | none of its own | settings, log, database, index, actor, queue with recovery, bind, serve | all the above |
| Model clients, `llm.rs`, `encoder.rs` | a connection, a local model behind a mutex | analyse, evolve, encode | providers |
| Hook binary, `memory-bank-hook` | none | normalise an agent's event to a fragment with id, turn id and terminality; post it once | agents, `POST /ingest` |
| OpenCode plugin, `.opencode/plugins/memory-bank.js` | sets and maps of seen messages, timers per session | events, polls, emit the final message, dispose | hook binary |
| OpenClaw plugin, `.openclaw/extensions/memory-bank/index.js` | recent keys with their times, at most 512, for five seconds | prompts, tool events, ends of runs; emit once | hook binary |
| MCP proxy, `memory-bank-mcp-proxy` | one upstream session behind a lock | forward a call, reconnect and repeat it once | `/mcp` |
| Settings, `memory-bank-app` | `settings.toml`, `secrets.env` | load, validate, save | launcher, server, command line, plugins |
| Setup and agents' files, `memory-bank-cli/src/{setup,agents}` | the files of five agents, their backups | questions, plan, six steps without rollback | all files, service |
| Shell exposure, `assets.rs` | installed programs, a launcher or a block in the shell's start-up files | install, expose, inspect | `mb setup`, `bootstrap`, `doctor` |
| Service control, `service.rs`, `service/*` | the service definition | install, start, stop, restart, wait, doctor; build the server's arguments and environment | launchd or systemd, `/healthz` |
| Protocol, `memory-bank-protocol` | none | envelope types | hook and server |

What is hard in it:

* **Concurrency.** Staging, the dispatcher and the actor are tasks of one process;
  writers take turns (`acquire_write_permit`, `BEGIN IMMEDIATE`), and everything
  between two transactions interleaves. Provider calls of up to minutes lie between
  reading the window or the neighbours and the commit.
* **More than one process.** Nothing stops a second server from opening a
  namespace. Recovery and the dispatcher start before the port is bound
  (`lib.rs:95-122`), so even a second server that is bound to fail
  puts back the turn the first is working on, and may claim turns itself.
  `http_server.rs:157` reckons with "another process".
* **Failure.** Crashes between any two transactions, statements that fail,
  clients that go away half way through a request, a recovery that itself fails,
  a rebuild of the index that is interrupted.
* **Ordering.** Notes of a conversation must be written in the order of its turns
  with complete history; retrieved notes must stay in order of relevance.
* **Shared resources.** One write permit, two connections, one mailbox and one encoder serve
  every request; whoever waits with one of them in hand, or for a task that is gone, stops the others.
* **Time.** Retry backoff, a deadline computed by a query of its own, wake-ups
  by a one-permit `Notify`.

What makes each part correct:

* queue: a fragment is in one turn; a turn is stored at most once, in order, made
  from the whole history; final turns stay final; attempts stay within the cap;
  a turn that can be processed will be;
* actor: embedding and note agree; links are symmetric and lead to notes; an
  answer has every note once, most relevant first;
* tasks of the server: a writer that waits leaves a connection to readers; nobody waits for a model, a timer
  or an answer with permit, connection or lock in hand; every request and every turn ends, whoever panics;
  a server that is told to stop does;
* index: a server that serves has an embedding of its own encoder for every note,
  after any interrupted rebuild; nothing is rebuilt without need; the state file
  tells `mb status` the truth;
* hooks and plugins: what the server accepts is kept apart from every other event;
  plugin and hook agree on what an event must have; only repetitions are dropped, and
  an event whose delivery failed is none;
* proxy: a call survives a restart of the server, and every call is answered;
* settings: what is saved, what the launcher passes on and what the server resolves are
  the same, whatever the shell's environment says; a secret is read as it was written;
* setup and service control: success means that what was announced is so; the server that is
  waited for is the one that was started, with the settings that were chosen; a clean report of the doctor
  means that the service can be launched; a rerun or an interruption costs the user none of their own lines, unless it
  breaks off the overwriting of a start-up file of the shell, and then lines of that file only.

## Modules

| Module | Models |
|---|---|
| `IngestQueue` | the queue of any number of servers on one namespace, with the parts of actor, start-up and HTTP server that change its tables |
| `TurnLog` | the abstract specification: what the queue promises about outcomes and notes |
| `IngestQueueProofs` | theorems about `IngestQueue`: types, order, complete history, one note per turn, the grouping of fragments into turns, and that it implements `TurnLog` |
| `IngestQueueOneServer` | theorems about a server that has the namespace to itself |
| `VectorIndex` | opening the database, the rebuild of the vector index, model changes, the state file |
| `VectorIndexProofs` | theorems about `VectorIndex` |
| `MemoryGraph` | notes, embeddings and links as the actors of several servers write and query them |
| `MemoryGraphProofs` | theorems about `MemoryGraph` |
| `ServerTasks` | requests, dispatcher and actor of one server, and what they wait for: write gate, pool, lock, mailbox, encoder; the shutdown |
| `ServerTasksProofs` | theorems about `ServerTasks`: who holds permit, connections and lock |
| `OpenCodePlugin` | the OpenCode plugin in one session: prompts, idle events, retries, polls, disposal |
| `OpenCodePluginProofs` | theorems about `OpenCodePlugin` |
| `HookFragments` | what each of the five parsers of the hook makes of an event |
| `Clients` | events through hook and OpenClaw plugin to the server, and requests through the MCP proxy |
| `ClientsProofs` | theorems about `Clients`: the proxy, and what becomes of an event |
| `SecretFile` | how a secret is escaped and read back |
| `Settings` | settings and secrets, `mb config set`, the launcher's environment and the server's resolution of both |
| `SetupWizard` | the questions of `mb setup` and the plan they end in |
| `PluginSettings` | `settings.toml` as the two plugins read it |
| `Lists` | sequences of which some places are kept, in a form that proofs can follow |
| `AgentConfig` | the edits of the five agents' files |
| `CliExposure` | the edits of the shell's start-up files |
| `Installation` | the commands over all of these, with the service manager and the server it runs |
| `InstallationProofs` | theorems about `Installation` |
| `MCIngestQueue`, `MCVectorIndex`, `MCMemoryGraph`, `MCServerTasks`, `MCOpenCodePlugin`, `MCClients`, `MCInstallation` | instances for TLC |

`SecretFile`, `Settings`, `SetupWizard`, `PluginSettings`, `Lists`, `AgentConfig`, `CliExposure` and
`HookFragments` are operators without state, which translate pure functions of the code; `Installation` and `Clients`
extend them and give them the states the program meets.

In each module, a definition that is introduced by `Bug:` is a plausible mistake
in the definition that follows it. It is no part of the model; with it in place
of that definition TLC refutes the property named with the pair in
`PROJECT.json`, which shows that the property depends on the code.

### IngestQueue

State. `turns[c]` is the sequence of rows of conversation `c` in the order of
their ids: external turn id, status, fragment ids, `attempt_count` and
`next_attempt_at`. `memories` is the sequence of notes, each with the turn it
came from and the turns in its window. `pc[s]` is where the dispatcher of
server `s` is, `job[s]` the row as it was read at the claim, `permit[s]` the
stored permit of `dispatcher_notify`, `timer[s]` whether it waits with a deadline,
`listening[s]` the port. `calls` in a row is a history variable.

Actions. One statement or transaction of the code is one action:

| Actions | Code |
|---|---|
| `IngestFragment` (with `StageExternal`, `StageImplicit`), `IngestDuplicate`, `IngestCancelled` | `IngestService::ingest`, `stage_fragment_once`, `resolve_turn`; a handler dropped after the commit |
| `ClaimNextDueTurn`, `ClaimNothing`, `NextDueDeadline`, `WakeByNotify`, `WakeByTimer` | `run_once`, `wait_for_work` and their queries |
| `OutOfAttempts`, `DispatchTurn`, `BuildWindowFails`, `PersistTurn`, `PersistRefused`, `ActorRetryable`, `ActorUnrecoverable` | `process_claimed_turn`, `persist_prepared_turn` |
| `SettleTurn`, `SettleRefused` | `mark_retryable_failure`, `mark_failed`, `mark_exhausted` |
| `DispatcherDatabaseError`, `RecoverAfterError`, `RecoveryFails` | the error arm of `IngestDispatcher::run` |
| `Boot`, `Bind`, `BindFails`, `Crash` | `lib.rs` and the operating system |
| `BackoffElapses` | the clock |

Abstractions. Time is `due` or `later`: how long a backoff lasts, and which of the due turns
of different conversations goes first, decides no property. The terminality and the
projected text of an open turn are left out, as nothing branches on them.
A fragment is an element of `Envelopes` with its conversation, turn id, terminality
and whether it is a user message. A staged fragment that meets a busy database
is answered with an error and changes nothing, so it has no action.

### VectorIndex

State. `count` notes, the `dimension` of `vec_memories` (0 while it does not exist),
the encoder each embedding was made with, the encoder in `model_config`, the state file, and how far
a start has come. One statement or chunk is one action: `PlanVecTable`,
`DropVecTable`, `CreateVecTable`, `LoadMemories`, `MigrateChunk`,
`FinishMigration`, `UpsertModelConfig`; then `StoreTurn`, `Stop`; `StartFails` and
`Crash` at any point. `Boot(e)` starts the server with encoder `e`. The constant `MayReturn`
says whether the user may configure an encoder again that was replaced before.
One server runs at a time in this module.

### MemoryGraph

State. `notes` and `index` have one entry per note: the value of its changing columns
(context and tags), and the value its embedding was made from. `links` is
the table of links. `add[s]` and `query[s]` are what the actor of server `s` has read and
prepared. An addition is `FindNeighbors`, `EvolveGraph` (or `TooManyUpdates`), `PersistNote`,
with `AddFails` between; a query is `FindNearest`, `ReadLinks` (or `ReadLinksFails`),
`FetchNotes`, `Answer`. Which notes are nearest is left open, which stands for
every possible distance, and so is what the language model answers: connections
to any ids, updates of any ids in any order.

### ServerTasks

`IngestQueue` and `MemoryGraph` say what the tasks of a server write; `ServerTasks` says whom they wait for.

State. `todo[t]` is the list of steps that task `t` has still to take, `doing[t]` what it is about. `gate` and `pool` are
the holders of the write permit and of connections, then those who wait for one, in order of arrival; `lock` is SQLite's write lock, which another process may
hold, or a transaction that was dropped and is not yet rolled back. `mailbox` holds the callers whose tasks are in the channel, then the senders
that wait for room; `serving` and `alive` belong to the actor, `reply` is the oneshot of each caller, `poisoned` the mutex of the encoder;
`server` and `stream` say how far a shutdown is and whether an MCP session is open.

| Actions | Code |
|---|---|
| `AskPermit`, `AskConnection`, `Begin`, `Commit` (in `Accepted`, `Claimed`, `Settled`, `Recovered`, `Stored`) | `acquire_write_permit`, `begin_immediate`, a statement on the pool, the end of its scope |
| `Post`, `Accepted`, `RefusedByStore`, `StageAgain`, `GiveUp`, `StageSleeps`, `PostHangsUp` | `handle_ingest`, `stage_fragment` with its retries |
| `Query`, `Send`, `QueryAnswered`, `QueryHangsUp` | `retrieve_memory`, `MemoryHandle` |
| `Claimed`, `DispatcherReads`, `WindowUnread`, `DispatcherAnswered`, `Settled`, `DispatcherFails`, `Recovered`, `DispatcherWakes` | `IngestDispatcher` |
| `Take`, `Analyze`, `Evolve`, `Encode`, `ActorReads`, `LinksLeftOut`, `Stored`, `ModelFails`, `ActorFails`, `EncoderPanics`, `ActorPanics` | `MemoryActor`, the model clients |
| `OpenStream`, `Signal`, `Stop` | `shutdown_signal`, `HttpServer::run` |
| `RolledBack`, `OtherLocks`, `OtherUnlocks` | sqlx and SQLite |

Abstractions. What is read or written is left open, and so is which outcome it has: a claim finds a turn, one without attempts, or none. One
`encode` after `evolve` stands for that of the note and of its neighbours. Semaphore, pool and channel of tokio and sqlx are external; they serve in order of
arrival. A fragment that meets a lock is tried again `MaxStageRetries` times, and every other failure may be tried again or not.

### OpenCodePlugin

State. `replies` is the session as OpenCode keeps it: one reply for each turn, running or completed. `users` and
`assistants` are the two caches of emitted ids, `active` the entry of the session in `activeSessions`,
`states` the state objects (attempts, timer, flag), of which a poll may hold one
that is no longer active. A running handler of `session.idle` and a running poll are tasks: `task[t].pc` says at which
`await` it waits, `next` which reply it looks at next, `completed` what the listing said. `posted` is what the hook has delivered, `gaveUp`
a history variable.

| Actions | Code |
|---|---|
| `Prompt`, `PromptAgain` | `handleChatMessage` |
| `SessionIdle`, `WaitToRetry`, `RetryNow`, `LeaveToPoll` | `handleSessionIdleEvent`, `emitAssistantWithImmediateRetry` |
| `ListMessages`, `ListFails`, `SkipReply`, `AlreadyEmitted`, `EmitReply`, `RecordReply`, `EmitFails`, `NoReply` | `tryEmitAssistantMessage` and `findLatestAssistantMessage` |
| `TimerFires`, `PollAgain`, `PollTimesOut`, `ClosePoll` | `scheduleAssistantPoll`, `pollForAssistantMessage` with its `finally` |
| `Dispose` | `disposeRuntime` |
| `CompleteReply`, `Restart` | OpenCode |

Each action is what JavaScript runs between two `await`s. The hook is run by `spawnSync` and so
ends within one step; the microtask after it is a step of its own (`RecordReply`). A
listing is taken at one moment; a reply that is not completed in it is fetched again.

### HookFragments and Clients

`HookFragments` is the function each parser computes: `Parse(agent, role, payload)` is `Error` (the hook
ends with an error), `Skip` (nothing to post) or an envelope with conversation, turn, body,
terminality and fragment id. A payload is a record of the fields that decide: which texts, ids and names are there, blank or missing. The id is
not a hash but the tuple of what is hashed, so that two ids are equal when the code
makes them equal.

State of `Clients`. `events` is what became of each event, in order (rejected, skipped, dropped by the plugin, posted, accepted,
failed), `stored` those whose fragment the server keeps, `cache` the plugin's keys with their times, oldest first;
`client` the start of the server that the proxy's session belongs to, `lock` who holds it, `calls` the requests.

| Actions | Code |
|---|---|
| `HookEvent`, `Accept`, `AnswerLost`, `Unreachable` | `main.rs` and `client.rs` of the hook; one attempt, whose request or answer may be lost |
| `PluginEvent`, `Remember` | `capturePromptEvent`, `handleToolLifecycle`, `handleAgentEnd`, `emitOnce`, `rememberKey` |
| `Connect`, `Call`, `ToolError`, `Serving` (with `Acquire`, `Answer`, `FailedCall`, `Reconnect`) | `UpstreamClient` of the proxy |
| `Down`, `Up`, `Tick` | the server's process, the clock |

Abstractions. One agent and one session; a text is there, blank or missing; the plugin's hook is run by `spawnSync`, so no two of
its emissions overlap (`ThreadFree`). `QuietCallSucceeds` speaks of requests during which the server stays up: those are the
ones the reconnect can save.

### Installation and what it extends

State. `settings`, `secrets`, `configured` (the agents `settings.toml` lists), `artifacts`, `agents` (per agent the port of its
MCP entry, its hooks for one event, its plugin's port, whether the file is whole and was backed up), `definition`, `home`; the service manager with `loaded`,
`server`, `kicked`, `failed`; `foreign`, a server started by hand; and the command `cli` with the steps it has left, what its polls have seen, and its result.

| Actions | Code |
|---|---|
| `GiveSetup`, `GiveCommand`, `GiveUse`, `ConfigSet` | the commands of `mb`; `CollectSetupPlan` and `SecretChoices` are the questions of `setup/prompts.rs` |
| `EditSettings` | the user, who changes a value in `settings.toml` between two commands |
| `InstallArtifacts`, `BreakOffExposure`, `NextAgent`, `WriteAgentFile`, `TearAgentFile`, `WriteSettings`, `WriteSecrets`, `InstallService` | the steps of `apply_setup_plan`; every agent's files are steps of their own, and the error of one agent is a warning |
| `StartService`, `AwaitActive`, `AwaitHealth`, `AwaitFinalHealth`, `RestartService`, `AwaitRestart`, `StopService`, `AwaitInactive`, `Apply` | `service.rs`; a poll may be repeated, and its deadline may pass at any time |
| `Repair`, `Revive`, `Report` | `mb doctor --fix` |
| `Interrupt` | a failing step, or the user |
| `Kick`, `Respawn`, `Crash`, `Launch`, `Configure`, `Bind`, `StartByHand` | the service manager and the server: the launcher reads the settings and becomes the server, which reads them again |

Abstractions. A value is a name; how it was typed is its `spelling`. One sequence of hooks stands for the events of an agent, which are
written in one go. A line of a start-up file or of `settings.toml` is a string or a record; a character of a secret is the name of its class. Files that are
replaced by a rename (`write_text_file`, the JSON files) change in one step; those that are overwritten in
place may be torn: Codex's `config.toml` (`TearAgentFile`) and, with the launcher and `env.sh` before them, the shell's start-up files
(`BreakOffExposure`). A start-up file is torn between two lines, and `home.torn` remembers which ones were. A torn launcher is taken for
a foreign program.

What is in `settings.toml` was saved by `mb` or is one of `Edits`, made by hand between two commands: any key may get any value, an encoder
that does not exist, a count or a port of zero, or a base URL that cannot be normalised (`Malformed`) among them. Only the file has to go on parsing, and no text in it is
blank. `Launchable` is every refusal of `build_server_launch_spec`, `DoctorIssues` every
search of `collect_doctor_issues`. They differ, and `NoIssuesMeansLaunchable` says in what: the doctor does not look for the two counts
(`launch.rs:76`, `85`) nor for an unknown encoder name (`launch.rs:49`), which is `Unnoticed`. It does not look for a port of zero either (`launch.rs:24-30`), but
asks for `/healthz` there and gets no answer. An unknown name of a provider is refused by neither, for `llm_provider_value` has turned
it into the default before it is validated. A configuration that the server itself refuses ends it (`Resolved`).

`VisibleSecretsKept` in `SecretFile`, evaluated before every run of `installation`, checks all
secrets of at most four visible characters against `unescape_env_value`; `SecretsKept` proves it of all.

## Runs

| Run | Expect | What it shows |
|---|---|---|
| `two_servers` | pass | Two servers for the same port and namespace, handlers that are dropped, a conversation that mixes turns with and without id. The server that cannot bind still recovers, claims and processes before it exits, again and again; recovery may fail. Fragments stay in one turn, no turn overtakes another; one note per stored turn, order, complete history, finality, and the refinement of `TurnLog` hold. |
| `progress` | pass | One server, crashes and database errors, fairness: one implicit turn is open, attempts stay within the cap, no turn stays processing, the dispatcher never sleeps on work, and what can be processed is concluded. |
| `index_upgrade` | pass | Three encoders, two with embeddings of equal length, at most three crashes or failures at any statement: the index serves the encoder, the state file is right, nothing is rebuilt needlessly, the server serves again and again. |
| `memory_graph` | pass | Two actors update one graph and answer queries of three steps; the model may name unknown notes, the new note, and one neighbour twice. |
| `server_tasks` | pass | A post, a query, dispatcher and actor, one failure of any kind, fairness: a writer that waits leaves a connection to readers, nobody waits with something in hand, every request ends, the dispatcher comes to an end with every turn, and a shutdown ends. |
| `opencode_plugin` | pass | Two tasks of a session interleave at every `await` while replies come late, hook or listing fails once, and the plugin is disposed or restarted. |
| `clients` | pass | Events of the five agents, complete ones and ones that lack what the parsers ask for, over a server that stops and starts; two requests through the proxy. |
| `installation` | pass | Up to three commands or edits of `settings.toml` on three machines, with launchd and systemd, while one thing fails: success means what it announces, the server runs what is saved, a clean report means a launchable service, and the user's lines survive where they can. |
| `lost_wakeup` | violation | A prompt that supersedes an open turn frees the finalized turn behind it without waking the dispatcher. |
| `index_revert` | violation | An interrupted rebuild followed by a return to the encoder of `model_config`: the server serves with an incomplete index. |
| `opencode_late` | violation | A reply of a later turn that is completed after `session.idle` is never looked for again, because the reply before it is found and was emitted. |
| `claude_rehook` | violation | A second `mb setup` adds a second hook of its own to every event of Claude Code. |

The last four refute a statement of the repository's README or documentation; the findings in
`PROJECT.json` quote it. The violated properties are stated for the
circumstances in which the documentation makes its promise; where the same property is expected to hold, it
is checked in a passing run: `EveryTurnConcludes`
for conversations that use turn ids always or never, `IndexServesEncoder` for users who
never return to an encoder; the passing `FirstReplyAttended` is `EveryReplyAttended` for the first turn, and
`UserConfigKept` says of Codex and Gemini CLI that they get no second hook, what `OneHookPerEvent` says of Claude Code too.

Bounds, and why they are enough. In the queue, three or four fragments make up to three turns
of one conversation (`ShortTurns`, `MixedTurns`), which is
what it takes for a turn to have a predecessor and a successor, or a turn with an id and up to three without in two
conversations (`TwoConversations`). Two servers are enough for every race over one turn: the
properties relate at most two holders of it. A cap of two attempts has a first retry and a last;
a window of one cuts history off, a window of 0 does not. Two faults are a crash
during the recovery from another. In `VectorIndex`, three notes in chunks of two make a full and a
partial chunk; three faults interrupt a rebuild, its repetition, and the one after. In
`MemoryGraph`, three notes with two neighbours have a neighbour left out, and two updates
can name one neighbour twice, and a link can lead out of the nearest. In `ServerTasks`, a post, the dispatcher and the
actor are three writers for one permit and two connections; the query is the reader that must not starve; a mailbox for one task
makes the other caller wait for room; one failure is enough to drop a transaction, poison the encoder, end the actor, or let another process
keep the lock until the retries of a fragment are used up. In `OpenCodePlugin`, two turns and a cache of one id make the cache
forget; two idle events and two tasks make two handlers, or a handler and a poll, overlap, and a poll outlive
its session; two immediate attempts and two polls have a first and a last of each. In `Clients`, three events make a
failed one, its repetition and the one after; a cache of one key forgets, a window of one tick ends between two
events; two starts of the server make a session stale once, two callers make one wait for the lock. In
`Installation`, three commands are a first setup, a change and the command that meets it; the sessions change
choose provider and autostart, or provider, port and an address with an input that is rejected; the three machines
are a new one, one with the files of an earlier version and of the user, and one where `mb` is
another program; three edits by hand put in a malformed base URL, which the doctor finds, a port of zero, where nothing answers, and a count of zero,
which it does not find; one fault is an interruption, a torn file, a crash or a server started by hand. In the queue `attempt_count` is a number
without a bound, as in the code; two servers with their recoveries can count past the cap, and since a count is only ever compared with the
cap (`AtCap`), the view of the run tells counts apart up to there. `MaxTurns`, `MaxIdles`, `MaxFaults`, `MaxStageRetries`, `MaxMemories`, `MaxNotes`, `MaxUpdates`, `MaxWork`, `MaxStarts`, `MaxClock`,
`MaxCommands` and the sets `Envelopes`, `Inputs`, `Sessions`, `Changes`, `Edits`, `Entries`, `Shells` and `Machines` are the only bounds. Servers are interchangeable in the runs that use `SYMMETRY`, none of
which checks liveness. `CHECK_DEADLOCK FALSE` is set throughout: a system may come to rest with all
fragments posted, all notes stored, the user done or the fault budget spent.

## Fairness

`IngestQueue!Fairness`: a dispatcher that can take a step does (the tokio runtime schedules
it, and every provider call is bounded by a timeout), error recovery runs, a server
that is down is started again (the generated service definitions ask for it) and then binds,
and time passes. Weak fairness of `Process` only says that an attempt ends, in whatever way.
Nothing makes a hook post, a fault happen or a provider succeed; faults are finitely many, as
with infinitely many crashes nothing can be promised. `VectorIndex!Fairness`: a server that is
down is started and a start goes on; nothing makes it stop, fail or store a note.
`ServerTasks!Fairness`: every handler, the dispatcher and the actor go on when they can (tokio schedules them; a model call ends by `LLM_TIMEOUT` or its
client, a statement by `busy_timeout`), a dropped transaction is rolled back, another process gives its lock up in the end, and `axum::serve` returns when the last
request has ended; nobody need post, ask, fail, panic or send the signal.
`OpenCodePlugin!Fairness`: the event loop runs every task that can go on and every timer that is set; it forces no event of the host.
`Clients!Fairness`: a request that holds or can get the lock of the proxy goes on (tokio schedules the task, its mutex is
fair, and a request to the server ends, if only with an error); the server need never come back. `Installation` has no liveness
property: every poll of `service.rs` has a deadline, so what matters is what may be claimed when it has passed.

## What is proved

For every value of the constants that meets the named assumptions:

* `IngestQueueProofs`. `QueueInvariance`: `QueueInv` is invariant for any set of
  servers, ports, fragments, cap, window and faults. `TypeCorrectness`, `NoOvertakingHolds`,
  `StoredInTurnOrderHolds`, `HistoryIsCompleteHolds`, `OneNotePerStoredTurnHolds`
  and `FinalTurnsNeverChangeHolds` follow from it.

  Why it is inductive: a job can be out of date in every way (its turn
  recovered, claimed again, retried, stored by somebody else), so nothing can be
  said about its row but that it was begun (`JobsCurrent`). That is enough. A begun turn has only settled
  predecessors (`NoOvertaking`), settled turns never change, and so the window a job has
  read is still the stored history before its turn, however late it commits. The
  commit tests that the row is processing, which a turn with a note never is again
  (`NotesCurrent`). Every step changes the rows of one conversation in one of three ways: a row
  changes as `RowsEvolve` allows, one is appended, or one is aborted and
  another appended; the lemmas `RowReplaced`, `RowAppended` and `AbortAndStartTurnRows`
  reduce each action to these.

  `FragmentInOneTurnHolds` and `OneOpenImplicitTurnHolds` are inductive together (`GroupInv`). Only staging touches the
  groups: every other step changes neither fragments nor ids of rows and opens none (`StagedOrKept`), which is enough.
  A staged fragment is one that no row has, and an implicit turn is started only where none is open,
  or in the step that aborts the one that is.

  `ImplementsTurnLogHolds`: the property that `two_servers` checks on a small
  instance. The initial states map to initial ones, and each step is one of `TurnLog` or does not show there.
  `TurnLog` ends a turn only when no earlier one of its conversation could still
  end, a guard that the commit and the verdicts of the code do not have: it is `NoOvertaking`, which the claim establishes and
  `QueueInv` carries to the commit.

* `IngestQueueOneServer`. `RetryBudgetHolds` assumes that there is one server, `NoStrandedTurnHolds`
  also that a recovery does not fail; with two servers neither property is true. Alone, a dispatcher that holds a turn is the only one that
  changes its row (`HeldRow`), so that each call of the actor has been paid for by the
  attempt count when the turn is back in the queue (`RowBudget`), and a row that is processing is that turn or is
  about to be recovered (`NoneStranded`).

  `NoSleepOnWorkHolds` also assumes that no client goes away (`"disconnect" \notin FaultKinds`) and that
  each conversation carries turn ids always or never (`OneKindOfTurn`); `lost_wakeup` shows that it needs the second. Then
  an implicit turn that is open is the last of its conversation (`OpenIsLast`), so that the post which aborts it makes no other
  turn ready, and every post that does make one ready finalizes it and leaves a permit.

* `VectorIndexProofs`. `IndexInvariance` and `IndexServesEncoderHolds` assume `~MayReturn`,
  and `index_revert` shows that they need it: `model_config` names the encoder in use,
  and then the table is complete, or one that will never be used again. `NoNeedlessRebuildHolds` needs
  no such assumption; it rests on an invariant of its own (`DropInv`): the table is only
  dropped while the configured encoder differs. `StatusTellsReindexingHolds` needs no assumption either: its
  invariant (`StateFileInv`) follows the file through every state of the start-up, those after a failure or a crash included.

* `MemoryGraphProofs`. `GraphInvariance`, `EmbeddingMatchesNoteHolds`, `LinksSoundHolds`, for
  any number of servers and any answer of the model. The invariant says of an addition in
  progress that the notes it will link and update exist and that its embedding is that of
  its note (`AdditionSound`); since notes are never deleted, commits of others cannot break it. The new note's id is one
  no row has, which is why it cannot be among the neighbours the model may name.

  `AnswerInOrderHolds`, for any number of notes and links. The invariant says of a query that what it found exists
  (`QuerySound`), again because notes are never deleted; the rest is about `OrderedRetrievalIds`, a recursive function. Induction on
  the nearest notes that have been gone through shows that the ids so far are these notes and all that the first of them link to, once each
  and in order (`ExtendedSound`), since what is added was linked to by none before (`FirstFrom`). That finite
  sets of ids can be sorted at all (`SortedExists`), that `Ascending` therefore sorts, and that sorting rows that all exist changes nothing
  (`SortRetrievalRowsKeeps`) are lemmas by the same induction, over the set of the numbers that have the property (`NumberInduction`).

* `ServerTasksProofs`. `TypeCorrectness`, `OneWriterConnectedHolds` and `HoldsNothingWhileWaitingHolds`, for any number of requests and failures and any sizes of
  pool and mailbox. A task is the list of steps it has still to take, and what it has in hand can be read off that list
  (`HoldInv`): the permit from the connection of a write to its commit, a connection while it reads or writes, the lock at its commit.
  It is inductive because every list a task may turn to is one that needs nothing yet (`Fresh`), so that a step either asks for one
  thing more or gives back what it had; a failure, a deadline or a dropped request ends a list by the steps that give back. From this,
  the writers that have a connection are at the head of the gate, which is one task, and a list that begins with a wait has nothing in hand.
  `TasksDistinct` says that requests, dispatcher, actor and the values for nobody are not each other.

* `OpenCodePluginProofs`. `PluginInvariance`, `TypeCorrectness`, `DisposedIsQuietHolds` and
  `RecordedWasPostedHolds`, for any number of tasks and all bounds. The invariant adds
  `RecordingWasPosted`: between the success of the hook and the entry in the cache the reply is known
  to be delivered. Nothing else that tasks hold needs to be up to date. `SomeStateUnused` is the pigeonhole argument that a new
  session always finds a state which no poll holds.

  `FirstReplyAttendedHolds` needs more (`AttendInv`): a timer that fires while the flag `polling` is set does nothing, so
  whenever the flag of the active state is set there must be a poll that holds this state and is still looking
  (`FlagIsHeld`); a poll that is only closing has given up (`ClosedGaveUp`), and no task looks for a reply of a turn
  that has not begun (`NextInTurn`). Every step then leaves a task at work, a timer, or the reply delivered (`TaskAttends`). It
  assumes that the value for no state is none of the states (`NoStateIsNone`).

* `ClientsProofs`. `ProxyInvariance` and `QuietCallSucceedsHolds`, for any number of requests, starts of the server and failures.
  A request between its two attempts holds the lock (`OneUsesClient`), so the client it made is still the one it uses; what a
  server that goes down could break is only promised to requests it did not disturb (`QuietIsServed`). `NobodyIsNone` is assumed: the value for
  a free lock is no request.

  `AcceptedIsKeptHolds`, `EmittedIsParsedHolds`, `RepetitionsDroppedHolds` and `TypeOKHolds`, for any events, sizes of window and cache,
  and order of failures. The ids of the five parsers tell agent, event and payload apart, so a stored fragment
  is that of one event (`AcceptedIsKept`). For the deduplication of the OpenClaw plugin (`RepetitionInv`), every key
  in the cache is that of an event that was accepted at the time noted there, and an event that was
  accepted stays in the cache until as many other keys were remembered as the cache holds: the cache is a
  sequence without repetitions, so a key that was pushed out had that many others behind it (`FS_PigeonHole`). Assumed are
  that bounds are numbers (`BoundsNat`, `LimitPositive`) and that agents and events are those the parsers know (`AgentsKnown`, `PluginInputs`).

* `InstallationProofs`. `ServerRunsSavedHolds`, `ReadyServesPlanHolds`, `RestartReachesNewServerHolds`,
  `NoIssuesMeansLaunchableHolds`, `StaysStoppedHolds`, `UserConfigKeptHolds`, `ReadyMeansInstalledHolds` and `TypesHold`, for any sessions, changes, edits by hand, machines and number of commands and faults.
  A command is a list of things left to do (`TodoOf`), and each proof follows what is known at each place of the list. What a
  server resolves from the launcher's environment is what the settings say (`LaunchFaithful`), since every value that can be
  saved is sound (`Sound`) and survives the launcher and the command line; a server that is waited for is one that was started
  after the command had begun (`Fresh`), which is why an answer of it, and no other, may be announced.
  That the doctor's clean report means a launchable service takes one invariant beside what both look for: no server answers at port zero (`PortInv`).
  What the user has written survives for any hooks, TOML files and start-up files (`KeptInv`): a start-up file is the one
  there was, or that with the block (`HomeKept`), or one whose overwriting broke off, of which there is never more than one for each fault
  (`TornInv`), and every edit of an agent's file keeps its list of what is the user's
  (`HooksUpserted`, `TomlUpserted`, `BlockPut`). The merges keep some places of a sequence and rewrite others, so `Picked`
  of `Lists` is a recursive function over the places, and its lemmas (`PickedThrough`, `PickedConcat`, `PickedTwice`) are inductions over the
  set of numbers for which they hold (`NumberInduction`).
  That success of `mb setup` means what it announces is an invariant of the steps (`ReadyInv`): each leaves something in place that no later
  step and nothing outside undoes before the next command (`StepsInv`), an agent that the command is through with stays ready even when
  it is picked again, and before its hooks are written its MCP entry is (`LastInv`). This rests on what the files say when they are
  read: the hook is among those of Memory Bank (`HookThere`), Codex's file says what it should exactly once (`TomlSet`), the doctor finds
  `mb` exposed (`ExposedThen`), a secret comes back as it was typed (`SecretsKept`, an induction that shows that the JSON reader has read the
  first characters when it has gone through what was written for them), and the plugins find the port (`PortRead`).
  `SecretsVisible` says that secrets, typed or taken from the shell, have no characters that do not show (see the observations),
  `NoSecretIsNoText` that the mark for a missing secret is no secret.
  `EditsOfKeys` says that what is edited by hand is a key, `PortZeroIsOne` that zero is a port one can write.
  `UnsetIsNoValue` and `UnsetIsNoVariable` say that the mark for a missing entry is no entry; `SessionsAnswered`, `ChangesParsed`
  and `MachinesSupported` say that the inputs are such as the program can meet, and `AgentsKnown` that the agents are the five. `MachinesReadable`
  says what an `mb` on the PATH can be, that the TOML file defines no table of Memory Bank's twice, which TOML forbids, and that a block between Memory Bank's markers
  holds its own lines: what a user writes between them is lost (see the observations). `NoFileIsNoList` says that the mark for a missing file is no file.

The type invariants and `PluginInv`, which these theorems establish, are not repeated in the runs; the other invariants of the runs that
are proved are checked there too.

The `ASSUME`s of the modules (positive caps and sizes, typed envelopes) are evaluated by TLC in
every run.

## What is only model-checked

Liveness (`EveryTurnConcludes`, `ServesAgain`, `PollingStops`, `EveryCallAnswered`, `EveryWaitEnds`, `ShutdownEnds`), because TLAPS as used here has no rule for
fairness. Every invariant and every other action property of a run that passes is proved.

## Observations

What came to light while modelling and is not one of the findings, because nothing the repository says is refuted by it, or only
in circumstances it does not speak of. A later change of the code should know them.

* With two servers, a verdict stores the attempt count it read at the claim over one that a recovery has raised (`ingest.rs:966`, 1616); TLC finds a turn
  handed to the provider three times with a cap of two.
* An open turn with an external id whose last fragment never comes holds up its conversation for good (`ingest.rs:415`).
* `mb setup` over an active systemd service ends with `systemctl start`, which does nothing: the old server goes on with the old settings
  (`service.rs:224`). `ReadyServesPlan` therefore speaks of a service that was not active. On launchd `install` rewrites the plist while the definition that is loaded stays.
* `mb service stop` while systemd waits between two attempts to start a failing service looks inactive and is not stopped (`service.rs:253`); `StaysStopped` leaves this case out.
* A change of the port reaches the agents only by `mb setup`, and only those that are ticked; OpenCode's plugin alone reads the settings.
* `claude mcp add` may fail after `mcp remove` has succeeded, which leaves no entry although the agent stays listed as configured (`agents/claude.rs:74-102`).
* Assets that are installed are never refreshed (`assets.rs:163-166`), and `mb doctor` does not look for them.
* A `settings.toml` that has `nearest_neighbor_count` or `max_processing_attempts` set to 0 by hand, or an encoder that does not exist, gets a clean report from `mb doctor`
  while a server from before still runs, and cannot be launched (`service/launch.rs:49`, `76`, `85`, none of them in `collect_doctor_issues`).
* A base URL of OpenAI that was malformed by hand makes `mb setup` panic before it has done anything, if OpenAI is kept and the advanced questions are declined
  (`setup/plan.rs:161`, called at `setup.rs:42`).
* `mb setup` offers to start at login unless it is saved that it should not (`setup/prompts.rs:405`), although a missing `autostart` means that it does not everywhere else.
* The start-up files of the shell are overwritten in place and without a copy (`assets.rs:469`): a write that breaks off loses lines of the user. A launcher that is torn the
  same way (`assets.rs:371`) is no longer recognised, and every later run calls it a foreign `mb`. A start marker without an end, followed by an older block, makes
  the merge drop the user's lines between them (`assets.rs:483-511`).
* Codex's merge does not know `[mcp_servers."memory-bank"]`, subtables, or dotted keys at the top, and drops an inline `features = {...}` (`agents/codex.rs:127-179`).
* A character that does not show is written into `secrets.env` in Rust's notation, which JSON does not read back (`memory-bank-app/src/lib.rs:523-545`).
* OpenClaw: an end of a run has no run id in its key, so an equal reply within five seconds is dropped (`index.js:231`); text and id of a reply
  are looked up apart, so the text of one reply can go under the id of another (`index.js:655-762`), as `AcceptedIsKept` does not exclude.
* Nobody watches the task of the actor (`lib.rs:95`): after a panic every request ends with an error and every turn runs out of attempts, while `/healthz` still answers `ok`.
  The same holds of an encoder that has panicked once (`encoder.rs:174`).
* Two events of Claude Code or Codex with equal payloads have equal ids and become one fragment (`normalize/claude_code.rs:140`); `AcceptedIsKept` excepts them.

## What is not modelled

* A commit whose outcome the client cannot know, and the loss of the
  write-ahead log in a power cut: SQLite's own promises are taken for granted.
* Two processes that open one database with different encoders at once. `VectorIndex` has one process.
* The sessions of the MCP transport and the log streams they carry (`mcp_server.rs:65-127`, `logging.rs`).
* In the plugins, tool events of OpenCode (they keep no state) and several sessions at once, which share only the caches.
* Two commands of `mb` at once. The files have no lock, and the later one to save wins.
* How the clients of providers and encoders are built, and what they answer (`llm.rs`, `encoder.rs`): every outcome of a request is allowed.
* The text of windows, prompts, status reports and help, the model catalog, the formatting of log lines, evaluations, the installer script: no state that
  evolves, or none that a property is about.

## Plan

1. Done: all the modules above, with the proofs listed.
2. `IndexSharing`: two processes on one index, which composes `VectorIndex` with the start-up
   of `IngestQueue`.
3. Two commands of `mb` at once in `Installation`.
