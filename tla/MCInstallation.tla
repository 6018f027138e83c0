--------------------------- MODULE MCInstallation ---------------------------
(* Instances of Installation for TLC. *)
EXTENDS Installation

Exact(value) == [value |-> value, spelling |-> "exact"]

\* OpenAI without autostart and everything else as it is offered, or Ollama at
\* another port, with an input that is rejected.
MCSessions ==
  {[typed |-> [key \in {"server.llm_provider", "service.autostart"} |->
                 Exact(IF key = "server.llm_provider" THEN "open-ai" ELSE "false")],
    advanced |-> FALSE, picked |-> <<"gemini-cli">>],
   [typed |-> [key \in {"server.llm_provider", "server.ollama_url", "service.port",
                        "server.nearest_neighbor_count"} |->
                 Exact(CASE key = "service.port" -> "4000"
                         [] key = "server.ollama_url" -> "my-ollama"
                         [] key = "server.nearest_neighbor_count" -> "0"
                         [] key = "server.llm_provider" -> "ollama")],
    advanced |-> TRUE,
    picked |-> <<"claude-code", "codex", "gemini-cli", "opencode", "openclaw">>]}
ClaudeAlone == {[typed |-> <<>>, advanced |-> FALSE, picked |-> <<"claude-code">>]}

\* It makes the settings impossible to launch.
MCChanges == {<<"server.encoder_provider", [value |-> "local-api", spelling |-> "decorated"]>>}
\* What the doctor finds, and what it does not.
MCEdits == {<<"server.openai_url", Malformed>>, <<"service.port", "0">>,
            <<"server.nearest_neighbor_count", "0">>}
NoChanges == {}

\* A shell without any of the variables, and one with all of them.
NoVariables == [variable \in AllVariables |-> Unset]
MCShells == {NoVariables,
             [variable \in AllVariables |->
               IF variable \in SecretKeys THEN <<"a", "dq", "nl", " ">> ELSE "shell"]}
OneShell == {NoVariables}
MCEntries == {<<"a", "bs", "n">>}

Rc(texts) == [file \in RcFiles |-> IF file \in DOMAIN texts THEN texts[file] ELSE NoFile]
Home(shell, onPath, localBin, texts) ==
  [shell |-> shell, onPath |-> onPath, binDir |-> FALSE, localBin |-> localBin,
   envFile |-> FALSE, rc |-> Rc(texts), torn |-> {}]

\* A new Mac with a directory for launchers; a Linux machine with the hook of an
\* earlier version, an MCP entry in a project, a block of an earlier version in
\* .bashrc, an unfinished one in .profile and settings for Codex; and one where
\* `mb` is another program.
Mac == [platform |-> "launchd", scope |-> "user", hooks |-> <<UserHook>>,
        toml |-> <<Section("", <<>>)>>, home |-> Home("zsh", "none", "free", <<>>)]
Linux ==
  [platform |-> "systemd", scope |-> "project", hooks |-> <<OurHook("plain", "3737"), UserHook>>,
   toml |-> <<Section("", <<Assign("model", "x"), Assign("features", "inline")>>),
              Section("features", <<Assign("codex_hooks", "false"), Assign("web", "true"),
                                    Assign("codex_hooks", "true")>>),
              Section("mcp_servers.memory-bank", <<Assign("url", "3000")>>),
              Section("mcp_servers.other", <<Assign("url", "9")>>),
              Section("features", <<>>)>>,
   home |-> Home("bash", "none", "off",
                 [file \in {".profile", ".bashrc"} |->
                   IF file = ".profile" THEN <<"a", Start, "b">>
                   ELSE <<"a", Start, "old line", End, "b">>])]
Taken == [platform |-> "systemd", scope |-> "user", hooks |-> <<UserHook>>,
          toml |-> <<Section("", <<>>)>>, home |-> Home("zsh", "foreign", "off", <<>>)]
MCMachines == {Mac, Linux, Taken}
MacOnly == {Mac}
=============================================================================
