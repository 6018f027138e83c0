---------------------------- MODULE AgentConfig ----------------------------
(***************************************************************************)
(* What `mb setup` writes into the configuration of the agents (agents.rs  *)
(* and agents/*.rs of the command line tool).                              *)
(*                                                                         *)
(* An agent's configuration is a record: the port its MCP entry points to, *)
(* the hooks registered for an event, the port its plugin or extension     *)
(* posts to, whether the file is well formed, and whether a backup of it   *)
(* was made.  All the events of an agent are treated alike and written in  *)
(* one go, so one sequence of hooks stands for each of them.               *)
(*                                                                         *)
(* A hook is the user's own or one of Memory Bank's; a command of Memory   *)
(* Bank names the agent and the event either quoted, as build_hook_command *)
(* renders it, or plain, as a version before it or the user wrote it.      *)
(***************************************************************************)
EXTENDS PluginSettings, Lists

CONSTANT NoPort   \* an entry that is not there

AgentKinds == {"claude-code", "codex", "gemini-cli", "opencode", "openclaw"}
HookAgents == {"claude-code", "codex", "gemini-cli"}

UserHook == [owner |-> "user", style |-> "plain", port |-> NoPort]
OurHook(style, port) == [owner |-> "memory-bank", style |-> style, port |-> port]

\* build_hook_command: every argument is quoted.
HookCommand(port) == OurHook("quoted", port)

IsOurs(hook) == hook.owner = "memory-bank"

Ours(hooks) == {i \in DOMAIN hooks : IsOurs(hooks[i])}
OurHooks(hooks) == Picked(hooks, Ours(hooks))
UserHooks(hooks) == Picked(hooks, DOMAIN hooks \ Ours(hooks))

\* Replaces the first of the hooks that were found, or adds one at the end.
ReplaceFirst(hooks, found, hook) ==
  IF found = {} THEN Append(hooks, hook)
  ELSE [hooks EXCEPT ![CHOOSE i \in found : \A j \in found : i <= j] = hook]

\* Claude: the marker that is looked for is the plain one.
UpsertClaudeHook(hooks, port) ==
  ReplaceFirst(hooks, {i \in Ours(hooks) : hooks[i].style = "plain"}, HookCommand(port))

\* Gemini: the hook is found by its name.
UpsertGeminiHook(hooks, port) == ReplaceFirst(hooks, Ours(hooks), HookCommand(port))

\* Bug: the hooks of an earlier setup are left in place.
AddCodexHook(hooks, port) == Append(hooks, HookCommand(port))

\* Codex: all the hooks of Memory Bank are removed, and one is added.
UpsertCodexHook(hooks, port) == Append(UserHooks(hooks), HookCommand(port))

UpsertHook(agent, hooks, port) ==
  CASE agent = "claude-code" -> UpsertClaudeHook(hooks, port)
    [] agent = "codex" -> UpsertCodexHook(hooks, port)
    [] agent = "gemini-cli" -> UpsertGeminiHook(hooks, port)

-----------------------------------------------------------------------------
(* The TOML file of Codex is merged section by section.  A section is its  *)
(* header, "" for the lines before the first, and its assignments; what    *)
(* the merge does not know is the user's.                                  *)

Assign(key, value) == [key |-> key, value |-> value]
Section(header, lines) == [header |-> header, lines |-> lines]

\* A file that is made of them.
IsToml(sections) ==
  /\ IsList(sections)
  /\ \A i \in DOMAIN sections :
       /\ sections[i] = Section(sections[i].header, sections[i].lines)
       /\ IsList(sections[i].lines)

HooksOn == Assign("codex_hooks", "true")
MemoryBankMcp == "mcp_servers.memory-bank"
ManagedHeaders == {"features", MemoryBankMcp}
ManagedKeys == {"features", "mcp_servers", "codex_hooks"}

WithoutKeys(lines, keys) == Picked(lines, {i \in DOMAIN lines : lines[i].key \notin keys})

\* The first codex_hooks becomes true, any other goes.
UpsertFeatures(lines) ==
  LET set == {i \in DOMAIN lines : lines[i].key = "codex_hooks"}
      on == [i \in DOMAIN lines |-> IF i \in set THEN HooksOn ELSE lines[i]] IN
  IF set = {} THEN Append(lines, HooksOn)
  ELSE Picked(on, {i \in DOMAIN lines : i \in set => \A j \in set : i <= j})

McpLines(port) == <<Assign("url", port), Assign("enabled", "true")>>

Rewritten(section, port) ==
  [section EXCEPT !.lines =
     CASE section.header = "" -> WithoutKeys(@, {"features", "mcp_servers"})
       [] section.header = "features" -> UpsertFeatures(@)
       [] section.header = MemoryBankMcp -> McpLines(port)
       [] OTHER -> @]

HasSection(sections, header) == \E i \in DOMAIN sections : sections[i].header = header

\* A managed section that comes again is dropped.
Firsts(sections) ==
  {i \in DOMAIN sections : sections[i].header \in ManagedHeaders =>
                             \A j \in 1..(i - 1) : sections[j].header # sections[i].header}

\* A managed section that is missing is added.
WithSection(sections, header, port) ==
  IF HasSection(sections, header) THEN sections
  ELSE Append(sections, Rewritten(Section(header, <<>>), port))

UpsertToml(sections, port) ==
  LET merged == Picked([i \in DOMAIN sections |-> Rewritten(sections[i], port)], Firsts(sections)) IN
  WithSection(WithSection(merged, "features", port), MemoryBankMcp, port)

\* The assignments of a section that are the user's.
UserSection(section) ==
  [section EXCEPT !.lines = IF section.header = MemoryBankMcp THEN <<>> ELSE WithoutKeys(@, ManagedKeys)]

\* The assignments that are the user's, by section.
UserAssignments(sections) ==
  LET users == [i \in DOMAIN sections |-> UserSection(sections[i])] IN
  Picked(users, {i \in DOMAIN users : users[i].lines # <<>>})

\* The file says what Memory Bank needs, and says it once.
TomlWired(sections, port) ==
  \E i, j \in DOMAIN sections :
    /\ sections[i] = Section(MemoryBankMcp, McpLines(port))
    /\ sections[j].header = "features"
    /\ \E k \in DOMAIN sections[j].lines :
         /\ sections[j].lines[k] = HooksOn
         /\ \A l \in DOMAIN sections[j].lines \ {k} : sections[j].lines[l].key # "codex_hooks"
    /\ \A k \in DOMAIN sections \ {i, j} : sections[k].header \notin ManagedHeaders

-----------------------------------------------------------------------------
(* The other files, and the order in which the files of an agent are       *)
(* written.                                                                *)

\* Claude keeps its MCP entries itself; one of a project cannot be replaced.
\* The command line tool of the agent may fail to add one, which leaves none.
ClaudeMcpOutcomes(config, port) ==
  IF config.scope = "project" THEN {[entry |-> config.mcp, ok |-> FALSE]}
  ELSE IF config.mcp = port THEN {[entry |-> port, ok |-> TRUE]}
  ELSE {[entry |-> port, ok |-> TRUE], [entry |-> NoPort, ok |-> FALSE]}
         \cup (IF config.mcp # NoPort THEN {[entry |-> config.mcp, ok |-> FALSE]} ELSE {})

FileSteps(agent) ==
  CASE agent = "claude-code" -> <<"mcp", "hooks">>
    [] agent = "codex" -> <<"mcp", "hooks">>
    [] agent = "gemini-cli" -> <<"both">>
    [] agent = "opencode" -> <<"plugin", "mcp">>
    [] agent = "openclaw" -> <<"both">>

\* What the last write of each file of the agent leaves in it.
WithMcp(config, port) == [config EXCEPT !.mcp = port]
WithToml(config, port) == [config EXCEPT !.mcp = port, !.toml = UpsertToml(@, port)]
WithHooks(agent, config, port) == [config EXCEPT !.hooks = UpsertHook(agent, @, port)]
WithPlugin(config, port) == [config EXCEPT !.plugin = port]

Written(agent, file, config, port) ==
  CASE file = "mcp" /\ agent = "codex" -> WithToml(config, port)
    [] file = "mcp" /\ agent # "codex" -> WithMcp(config, port)
    [] file = "hooks" -> WithHooks(agent, config, port)
    [] file = "plugin" -> config
    [] file = "both" /\ agent = "gemini-cli" -> WithMcp(WithHooks(agent, config, port), port)
    [] file = "both" /\ agent = "openclaw" -> WithMcp(WithPlugin(config, port), port)

\* The ports that the events of the agent are posted to.
PostsTo(agent, config, lines) ==
  CASE agent \in HookAgents -> {hook.port : hook \in ToSet(OurHooks(config.hooks))}
    [] agent = "opencode" -> {PluginPort(Unset, lines)}
    [] agent = "openclaw" -> {PluginPort(IF config.plugin = NoPort THEN Unset ELSE config.plugin, lines)}

\* The agent asks and posts to the port, the settings being these lines.
Wired(agent, config, lines, port) ==
  /\ config.mcp = port
  /\ port \in PostsTo(agent, config, lines)
  /\ agent = "codex" => TomlWired(config.toml, port)
=============================================================================
