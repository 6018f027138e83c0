---------------------------- MODULE Installation ----------------------------
(***************************************************************************)
(* The installation of Memory Bank on a machine: what `mb setup`, `mb      *)
(* service`, `mb namespace use`, `mb doctor --fix` and `mb config set` do  *)
(* to the files under the home directory and to the service manager, and   *)
(* what the service manager and the server it runs do meanwhile.           *)
(*                                                                         *)
(* One command runs at a time.  A command is a list of steps, todo; the    *)
(* service manager, the server and the user's shell interleave with them,  *)
(* every step may fail, and a command may be interrupted between any two.  *)
(* A poll is one step that may be taken any number of times; a deadline    *)
(* may pass at any poll.                                                   *)
(*                                                                         *)
(* The service manager is launchd or systemd.  It is external: modelled    *)
(* from the commands that service.rs gives it and what it waits for after. *)
(* A definition introduced by "Bug:" is the next one with a mistake in it. *)
(***************************************************************************)
EXTENDS SetupWizard, AgentConfig, CliExposure

CONSTANTS
  Machines,        \* the machines to consider: the service manager, the user's
                   \* home, and what the agents' files contain
  Agents,          \* the agents that are installed
  Sessions,        \* the answers the user may give to the questions of `mb setup`
  Entries,         \* the secrets the user may type
  Changes,         \* the <<key, input>> of `mb config set`
  Edits,           \* the <<key, value>> the user may write into settings.toml
  Namespaces,      \* the namespaces of `mb namespace use`
  Shells,          \* the environments the launcher and `mb setup` may inherit
  Commands,        \* the commands the user gives
  NoServer,        \* no process of the service
  MaxCommands,     \* bound on the number of commands
  MaxStarts,       \* bound on the number of processes of the service
  MaxFaults        \* bound on failures, interruptions and crashes

ASSUME SessionsAnswered ==
  \A answers \in Sessions :
    /\ answers.picked \in Seq(Agents)
    /\ \A key \in DOMAIN answers.typed : Parsed(key, answers.typed[key].value)
ASSUME ChangesParsed ==
  \A change \in Changes :
    /\ change[1] \in Keys
    /\ ~Refused(change[1], change[2]) => Parsed(change[1], change[2].value)
ASSUME EditsOfKeys == \A edit \in Edits : edit[1] \in Keys
ASSUME PortZeroIsOne == NoPort # "0"
ASSUME AgentsKnown == Agents \subseteq AgentKinds
\* Characters that do not show are not read back as they were written.
ASSUME SecretsVisible ==
  /\ Entries \subseteq Seq(Visible)
  /\ \A shell \in Shells, key \in SecretKeys : shell[key] # Unset => shell[key] \in Seq(Visible)
ASSUME MachinesSupported == \A m \in Machines : m.platform \in {"launchd", "systemd"}
\* What the agents and the shell can read: a table of a TOML file is defined once, so
\* where its header comes again there is nothing of the user's below it; and a
\* block of Memory Bank in a start-up file holds its own lines.
ASSUME MachinesReadable ==
  \A m \in Machines :
    /\ DOMAIN m.home = {"shell", "onPath", "binDir", "localBin", "envFile", "rc", "torn"}
    /\ m.home.torn = {}
    /\ m.home.onPath \in {"none", "ours", "foreign"}
    /\ IsList(m.hooks)
    /\ IsToml(m.toml) /\ \A i \in DOMAIN m.toml \ Firsts(m.toml) : UserSection(m.toml[i]).lines = <<>>
    /\ m.home.rc \in [RcFiles -> Seq(AnyLine) \cup {NoFile}]
    /\ \A file \in RcFiles : OwnBlock(Lines(m.home.rc[file]))
ASSUME BoundsNat == {MaxCommands, MaxStarts, MaxFaults} \subseteq Nat

VARIABLES
  settings,    \* settings.toml
  secrets,     \* secrets.env
  configured,  \* the agents that settings.toml lists as integrated
  artifacts,   \* which groups of files are in place
  agents,      \* the configuration of each agent
  definition,  \* the installed service definition: "none", "manual" or "auto"
  machine,     \* the machine as it was before
  home,        \* the user's PATH and the start-up files of the shell
  loaded,      \* the definition the service manager works with
  server,      \* the process of the service
  kicked,      \* launchd is about to replace the process
  failed,      \* the last process ended by itself
  foreign,     \* the port of a server that was started by hand
  cli,         \* the command that is running, or the last one
  commands, starts, faults

files == <<settings, secrets, configured, artifacts, home, agents, definition>>
manager == <<loaded, server, kicked, failed, starts>>
vars == <<files, manager, machine, foreign, cli, commands, faults>>

platform == machine.platform

Groups == {"settings", "binaries", "assets"}
NoProcess == 0   \* the pid of nobody, and of a server started by hand
NoAnswer == <<>> \* nothing answered on /healthz: a record of nothing

Idle == [cmd |-> "none", todo |-> <<>>, s |-> DefaultSettings, secret |-> NotChanged,
         picked |-> <<>>, wired |-> {}, agent |-> Unset, left |-> <<>>,
         active |-> FALSE, pid |-> NoProcess, inactive |-> FALSE, again |-> FALSE,
         late |-> FALSE, answer |-> NoAnswer, issues |-> {}, result |-> "none"]

Init ==
  /\ settings = DefaultSettings
  /\ secrets = [key \in SecretKeys |-> NoSecret]
  /\ artifacts = {}
  /\ configured = {}
  /\ machine \in Machines
  /\ home = machine.home
  /\ agents = [a \in Agents |->
       [mcp |-> NoPort, hooks |-> IF a \in HookAgents THEN machine.hooks ELSE <<>>,
        toml |-> IF a = "codex" THEN machine.toml ELSE <<>>,
        plugin |-> NoPort, scope |-> machine.scope, whole |-> TRUE, backup |-> FALSE]]
  /\ definition = "none"
  /\ loaded = "none"
  /\ server = NoServer
  /\ kicked = FALSE
  /\ failed = FALSE
  /\ foreign = NoPort
  /\ cli = Idle
  /\ commands = 0
  /\ starts = 0
  /\ faults = 0

-----------------------------------------------------------------------------
(* The service manager and its process.                                    *)

Process(pid) == [pid |-> pid, phase |-> "spawned"]

\* The manager replaces whatever process there is by a new one.
Spawn ==
  /\ starts < MaxStarts
  /\ starts' = starts + 1
  /\ server' = Process(starts + 1)
  /\ failed' = FALSE

\* launchctl print succeeds for a loaded job, systemctl is-active for a process.
Active == IF platform = "launchd" THEN loaded # "none" ELSE server # NoServer

Pid == IF server = NoServer THEN NoProcess ELSE server.pid

\* launchctl kickstart -k returns before the process has been replaced.
Kick ==
  /\ kicked
  /\ kicked' = FALSE
  /\ Spawn
  /\ UNCHANGED <<files, machine, loaded, foreign, cli, commands, faults>>

\* KeepAlive of launchd, Restart=on-failure of systemd.
Respawn ==
  /\ server = NoServer /\ failed /\ ~kicked
  /\ platform = "launchd" => loaded = "auto"
  /\ Spawn
  /\ UNCHANGED <<files, machine, loaded, kicked, foreign, cli, commands, faults>>

\* The process ends by itself.
Exit ==
  /\ server' = NoServer
  /\ failed' = TRUE
  /\ UNCHANGED <<files, machine, loaded, kicked, foreign, cli, commands, starts>>

Crash == server # NoServer /\ faults < MaxFaults /\ faults' = faults + 1 /\ Exit

\* mb internal run-server: builds the specification and becomes the server.
Launch ==
  /\ server # NoServer
  /\ server.phase = "spawned"
  /\ IF Launchable(settings, secrets) /\ "binaries" \in artifacts
     THEN \E shell \in Shells :
       /\ server' = [pid |-> server.pid, phase |-> "launched",
                     args |-> LaunchArguments(settings),
                     env |-> LaunchEnvironment(settings, secrets, shell),
                     from |-> Shown(settings, secrets)]
       /\ UNCHANGED <<files, machine, loaded, kicked, failed, starts,
                      foreign, cli, commands, faults>>
     ELSE Exit /\ UNCHANGED faults

\* The server resolves its configuration, reading the settings once more.
\* It ends if they have become such that it cannot.
\* calm records that they are still what the launcher read.
Configure ==
  /\ server # NoServer
  /\ server.phase = "launched"
  /\ LET config == ServerConfig(server.args, server.env, settings) IN
     IF Resolved(config)
     THEN /\ server' = [pid |-> server.pid, phase |-> "configured", config |-> config,
                        from |-> server.from,
                        calm |-> Shown(settings, secrets) = server.from]
          /\ UNCHANGED <<files, machine, loaded, kicked, failed, starts,
                         foreign, cli, commands, faults>>
     ELSE Exit /\ UNCHANGED faults

\* The server binds its port, or ends because the port is taken.
Bind ==
  /\ server # NoServer
  /\ server.phase = "configured"
  /\ IF foreign = server.config.port THEN Exit /\ UNCHANGED faults
     ELSE /\ server' = [server EXCEPT !.phase = "up"]
          /\ UNCHANGED <<files, machine, loaded, kicked, failed, starts,
                         foreign, cli, commands, faults>>

\* The user starts a server by hand.
StartByHand ==
  /\ foreign = NoPort
  /\ faults < MaxFaults
  /\ faults' = faults + 1
  /\ foreign' = Value(settings, "service.port") /\ foreign' # "0"
  /\ ~(server # NoServer /\ server.phase = "up" /\ server.config.port = foreign')
  /\ UNCHANGED <<files, manager, machine, cli, commands>>

\* What answers on /healthz of a port.
Answers(port) ==
  (IF server # NoServer /\ server.phase = "up" /\ server.config.port = port
   THEN {[pid |-> server.pid, config |-> server.config]} ELSE {})
  \cup (IF foreign = port THEN {[pid |-> NoProcess]} ELSE {})

-----------------------------------------------------------------------------
(* Giving a command.                                                       *)

\* Bug: the service is started before the settings are written.
StepsStartFirst(cmd) ==
  CASE cmd = "setup" ->
         <<"artifacts", "agents", "install", "start", "active", "health",
           "settings", "secrets", "final">>
    [] cmd = "stop" -> <<"stop", "inactive">>
    [] OTHER -> <<"artifacts", "start", "active", "health">>

Steps(cmd) ==
  CASE cmd = "setup" ->
         <<"artifacts", "agents", "settings", "secrets", "install",
           "start", "active", "health", "final">>
    [] cmd = "bootstrap" -> <<"artifacts">>
    [] cmd = "install" -> <<"artifacts", "install">>
    [] cmd = "start" -> <<"artifacts", "start", "active", "health">>
    [] cmd = "restart" -> <<"artifacts", "restart", "changed", "health">>
    [] cmd = "stop" -> <<"stop", "inactive">>
    [] cmd = "use" -> <<"settings", "apply">>
    [] cmd = "doctor" -> <<"artifacts", "repair", "revive", "report">>

Finished == cli.todo = <<>>

Give(command) ==
  /\ Finished
  /\ commands < MaxCommands
  /\ commands' = commands + 1
  /\ cli' = command
  /\ UNCHANGED <<manager, machine, foreign, faults>>

GiveCommand ==
  \E cmd \in Commands \cap {"bootstrap", "install", "start", "restart", "stop", "doctor"} :
    /\ Give([Idle EXCEPT !.cmd = cmd, !.todo = Steps(cmd), !.s = settings])
    /\ UNCHANGED files

\* The user has answered the questions and confirmed the plan.
GiveSetup ==
  \E answers \in Sessions, shell \in Shells :
    LET plan == CollectSetupPlan(settings, answers)
        s == PlanSettings(settings, plan) IN
    \E secret \in SecretChoices(ProviderOf(s), secrets, shell, Entries) :
      /\ "setup" \in Commands
      /\ Confirmable(plan, answers)
      /\ Give([Idle EXCEPT !.cmd = "setup", !.todo = Steps("setup"), !.s = s,
                           !.picked = answers.picked, !.secret = secret])
      /\ UNCHANGED files

GiveUse ==
  \E namespace \in Namespaces :
    /\ "use" \in Commands
    /\ Give([Idle EXCEPT !.cmd = "use", !.todo = Steps("use"),
                         !.s = SetConfig(settings, "active_namespace",
                                         [value |-> namespace, spelling |-> "exact"])])
    /\ UNCHANGED files

\* mb config set loads, changes and saves the settings, and does nothing else.
ConfigSet ==
  \E change \in Changes :
    /\ ~Refused(change[1], change[2])
    /\ Give([Idle EXCEPT !.cmd = "set"])
    /\ settings' = SetConfig(settings, change[1], change[2])
    /\ artifacts' = artifacts \cup {"settings"}
    /\ UNCHANGED <<secrets, configured, home, agents, definition>>

\* The user edits settings.toml by hand.
EditSettings ==
  \E edit \in Edits :
    /\ Give([Idle EXCEPT !.cmd = "edit"])
    /\ settings' = [settings EXCEPT ![edit[1]] = edit[2]]
    /\ artifacts' = artifacts \cup {"settings"}
    /\ UNCHANGED <<secrets, configured, home, agents, definition>>

Doing(step) == ~Finished /\ cli.todo[1] = step

\* The command goes on with these steps.
Follow(c, steps) ==
  cli' = [c EXCEPT !.todo = steps, !.result = IF steps = <<>> THEN "ok" ELSE @]
Proceed(c) == Follow(c, Tail(c.todo))

\* The command ends with an error.
Fail == cli' = [cli EXCEPT !.todo = <<>>, !.result = "failed"]

OnlyFiles == UNCHANGED <<manager, machine, foreign, commands, faults>>
OnlyCommand == UNCHANGED files /\ OnlyFiles

\* A step fails, or the user interrupts the command, between two changes.
Interrupt ==
  /\ ~Finished
  /\ faults < MaxFaults
  /\ faults' = faults + 1
  /\ Fail
  /\ UNCHANGED <<files, manager, machine, foreign, commands>>

-----------------------------------------------------------------------------
(* The steps that write files.                                             *)

\* The commands that see to it that `mb` can be called.
Exposes == cli.cmd \in {"bootstrap", "setup", "doctor"}

\* Programs and assets, then the way to call `mb`; an `mb` of another origin
\* is an error after the former are there.
InstallArtifacts ==
  /\ Doing("artifacts")
  /\ artifacts' = artifacts \cup {"binaries", "assets"}
  /\ home' = IF Exposes THEN EnsureCliExposure(home) ELSE home
  /\ IF Exposes /\ CliCollides(home) THEN Fail ELSE Proceed(cli)
  /\ UNCHANGED <<settings, secrets, configured, agents, definition>>
  /\ OnlyFiles

\* The launcher, env.sh and the start-up files are written in place, one after the
\* other; a write may break off with an error, or because the command is killed.
BreakOffExposure ==
  /\ Doing("artifacts") /\ Exposes
  /\ faults < MaxFaults
  /\ faults' = faults + 1
  /\ artifacts' = artifacts \cup {"binaries", "assets"}
  /\ home' \in BrokenExposures(home)
  /\ Fail
  /\ UNCHANGED <<settings, secrets, configured, agents, definition>>
  /\ UNCHANGED <<manager, machine, foreign, commands>>

\* The port that the agents are told: the one of the plan.
PlannedPort == Value(cli.s, "service.port")

NextAgent ==
  /\ Doing("agents")
  /\ cli.agent = Unset
  /\ IF cli.picked = <<>> THEN Proceed(cli)
     ELSE cli' = [cli EXCEPT !.agent = Head(cli.picked), !.picked = Tail(@),
                             !.left = FileSteps(Head(cli.picked))]
  /\ OnlyCommand

\* Bug: an agent that could not be configured counts as configured.
GiveUpAgentAsDone(config) ==
  /\ agents' = [agents EXCEPT ![cli.agent] = config]
  /\ cli' = [cli EXCEPT !.agent = Unset, !.left = <<>>, !.wired = @ \cup {cli.agent}]

\* The error of one agent becomes a warning; the others are still configured.
GiveUpAgent(config) ==
  /\ agents' = [agents EXCEPT ![cli.agent] = config]
  /\ cli' = [cli EXCEPT !.agent = Unset, !.left = <<>>]

FileDone(config) ==
  /\ agents' = [agents EXCEPT ![cli.agent] = config]
  /\ cli' = IF Len(cli.left) = 1
            THEN [cli EXCEPT !.agent = Unset, !.left = <<>>, !.wired = @ \cup {cli.agent}]
            ELSE [cli EXCEPT !.left = Tail(@)]

\* Bug: a file is overwritten in place, without a copy.
NoBackup(config) == config

Backup(config) == [config EXCEPT !.backup = TRUE]

WriteAgentFile ==
  LET config == agents[cli.agent]
      file == cli.left[1] IN
  /\ Doing("agents")
  /\ cli.agent # Unset
  /\ IF cli.agent = "claude-code" /\ file = "mcp"
     THEN \E outcome \in ClaudeMcpOutcomes(config, PlannedPort) :
            IF outcome.ok THEN FileDone(WithMcp(config, outcome.entry))
            ELSE GiveUpAgent(WithMcp(config, outcome.entry))
     ELSE \/ FileDone(Written(cli.agent, file, Backup(config), PlannedPort))
          \/ ~config.whole /\ GiveUpAgent(config)   \* it does not parse
  /\ UNCHANGED <<settings, secrets, configured, artifacts, home, definition>>
  /\ OnlyFiles

\* Of the agents' files only the TOML file of Codex is written in place; the write
\* may break off with an error, or because the command is killed.
TearAgentFile ==
  /\ Doing("agents")
  /\ cli.agent = "codex" /\ cli.left[1] = "mcp"
  /\ faults < MaxFaults
  /\ faults' = faults + 1
  /\ LET torn == [Backup(agents["codex"]) EXCEPT !.whole = FALSE] IN
       \/ GiveUpAgent(torn)
       \/ agents' = [agents EXCEPT !["codex"] = torn] /\ Fail
  /\ UNCHANGED <<settings, secrets, configured, artifacts, home, definition>>
  /\ UNCHANGED <<manager, machine, foreign, commands>>

WriteSettings ==
  /\ Doing("settings")
  /\ settings' = cli.s
  /\ configured' = configured \cup cli.wired
  /\ artifacts' = artifacts \cup {"settings"}
  /\ Proceed(cli)
  /\ UNCHANGED <<secrets, home, agents, definition>>
  /\ OnlyFiles

WriteSecrets ==
  /\ Doing("secrets")
  /\ secrets' = ApplySecretChoice(secrets, cli.secret)
  /\ Proceed(cli)
  /\ UNCHANGED <<settings, configured, artifacts, home, agents, definition>>
  /\ OnlyFiles

Chosen(s) == IF Value(s, "service.autostart") = "true" THEN "auto" ELSE "manual"

InstallService ==
  /\ Doing("install")
  /\ definition' = Chosen(cli.s)
  /\ Proceed(cli)
  /\ UNCHANGED <<settings, secrets, configured, artifacts, home, agents>>
  /\ OnlyFiles

\* mb doctor --fix installs the service only if it is not.
Repair ==
  /\ Doing("repair")
  /\ definition' = IF definition = "none" THEN Chosen(cli.s) ELSE definition
  /\ Proceed(cli)
  /\ UNCHANGED <<settings, secrets, configured, artifacts, home, agents>>
  /\ OnlyFiles

-----------------------------------------------------------------------------
(* The steps that talk to the service manager, and the polls after them.   *)

NotManager == UNCHANGED <<settings, secrets, configured, artifacts, home, agents>>
              /\ UNCHANGED <<machine, foreign, commands, faults>>

\* systemctl start does nothing when there is a process; launchctl replaces it.
StartService ==
  /\ Doing("start")
  /\ Proceed([cli EXCEPT !.active = Active])
  /\ definition' = IF definition = "none" THEN Chosen(cli.s) ELSE definition
  /\ CASE platform = "systemd" ->
            /\ IF server = NoServer THEN Spawn ELSE UNCHANGED <<server, failed, starts>>
            /\ UNCHANGED <<loaded, kicked>>
       [] platform = "launchd" ->
            /\ kicked' = TRUE
            /\ loaded' = IF loaded = "none" THEN definition' ELSE loaded
            /\ IF loaded = "none" /\ definition' = "auto" THEN Spawn
               ELSE UNCHANGED <<server, failed, starts>>
  /\ NotManager

\* Without an active service its health is not waited for.
SkipHealth(c) == Follow(c, Tail(Tail(c.todo)))

AwaitActive ==
  /\ Doing("active")
  /\ IF Active THEN Proceed(cli) ELSE SkipHealth(cli)
  /\ OnlyCommand

AwaitHealth ==
  /\ Doing("health")
  /\ \/ \E answer \in Answers(PlannedPort) : Proceed([cli EXCEPT !.answer = answer])
     \/ Answers(PlannedPort) = {} /\ Proceed([cli EXCEPT !.answer = NoAnswer])
  /\ OnlyCommand

\* mb setup waits once more, and fails without an answer.
AwaitFinalHealth ==
  /\ Doing("final")
  /\ \/ \E answer \in Answers(PlannedPort) : Proceed([cli EXCEPT !.answer = answer])
     \/ Answers(PlannedPort) = {} /\ Fail
  /\ OnlyCommand

\* The pid may be looked up in vain.
SeenPids == {Pid, NoProcess}

\* What is ahead of a service that is to be started, or restarted.
StartSteps == <<"start", "active", "health">>
RestartSteps == <<"restart", "changed", "health">>

RestartService ==
  /\ Doing("restart")
  /\ IF Active /\ (platform = "systemd" => definition # "none")
     THEN /\ \E pid \in SeenPids : Proceed([cli EXCEPT !.active = TRUE, !.pid = pid])
          /\ IF platform = "systemd" THEN Spawn /\ UNCHANGED kicked
             ELSE kicked' = TRUE /\ UNCHANGED <<server, failed, starts>>
     ELSE Follow(cli, StartSteps) /\ UNCHANGED <<server, failed, kicked, starts>>
  /\ UNCHANGED <<definition, loaded>>
  /\ NotManager

\* Bug: an active service is taken for a restarted one.
RestartSeenAtOnce(c, pid) == TRUE

\* The restart shows in an inactive service, in another pid, or, when the
\* pid before it is not known, in a second poll.
RestartSeen(c, pid) ==
  \/ c.inactive
  \/ c.pid # NoProcess /\ pid # NoProcess /\ pid # c.pid
  \/ c.pid = NoProcess /\ c.again

AwaitRestart ==
  /\ Doing("changed")
  /\ \/ \E pid \in SeenPids :
          /\ Active
          /\ IF RestartSeen(cli, pid) THEN Proceed(cli) ELSE cli' = [cli EXCEPT !.again = TRUE]
     \/ ~Active /\ cli' = [cli EXCEPT !.inactive = TRUE, !.again = TRUE]
     \/ LET late == [cli EXCEPT !.late = TRUE] IN
          IF Active THEN Proceed(late) ELSE SkipHealth(late)
  /\ OnlyCommand

\* Bug: the service is only stopped when it has a process.
StopsIfRunning == definition # "none" /\ server # NoServer

StopsService == definition # "none" /\ Active

StopService ==
  /\ Doing("stop")
  /\ Proceed([cli EXCEPT !.active = Active])
  /\ IF StopsService
     THEN /\ server' = NoServer
          /\ failed' = FALSE
          /\ kicked' = FALSE
          /\ loaded' = "none"
     ELSE UNCHANGED <<server, failed, kicked, loaded>>
  /\ UNCHANGED <<definition, starts>>
  /\ NotManager

AwaitInactive ==
  /\ Doing("inactive")
  /\ Proceed([cli EXCEPT !.late = Active])
  /\ OnlyCommand

\* mb namespace use applies the namespace to an installed service.
Apply ==
  /\ Doing("apply")
  /\ IF definition = "none" THEN Proceed(cli)
     ELSE Follow(cli, IF Active THEN RestartSteps ELSE StartSteps)
  /\ OnlyCommand

\* mb doctor --fix starts a service that can be started and is not active.
Revive ==
  /\ Doing("revive")
  /\ IF ~Active /\ Launchable(settings, secrets) /\ "binaries" \in artifacts
     THEN Follow(cli, <<"start", "active", "health", "report">>) ELSE Proceed(cli)
  /\ OnlyCommand

\* Bug: the address of the encoder is not looked for.
EncoderSecretIssues ==
  IF EncoderOf(settings) = "remote-api" /\ Secret(secrets, RemoteKey) = NoSecret
  THEN {"encoder secret"} ELSE {}

\* What the encoder lacks, which is looked for apart from the launcher; one of an
\* unknown name lacks nothing.
EncoderIssues ==
  LET encoder == EncoderOf(settings) IN
  (IF encoder # "fast-embed" /\ settings[EncoderKey(encoder)] = Unset
   THEN {"encoder url"} ELSE {})
  \cup EncoderSecretIssues

\* collect_doctor_issues.
DoctorIssues ==
  LET key == SecretKey(ProviderOf(settings)) IN
  {<<"missing", group>> : group \in {"settings", "binaries"} \ artifacts}
    \cup (IF CliExposed(home) THEN {} ELSE {<<"missing", "exposure">>})
    \cup (IF key # Unset /\ Secret(secrets, key) = NoSecret THEN {<<"secret", key>>} ELSE {})
    \cup (IF UsableUrl(settings) THEN {} ELSE {<<"provider", "url">>})
    \cup {<<"encoder", issue>> : issue \in EncoderIssues}
    \cup (IF definition = "none" THEN {<<"service", "not installed">>}
          ELSE IF ~Active THEN {<<"service", "not active">>} ELSE {})
    \cup (IF Answers(Value(settings, "service.port")) = {} THEN {<<"service", "health">>} ELSE {})

Report ==
  /\ Doing("report")
  /\ Proceed([cli EXCEPT !.issues = DoctorIssues])
  /\ OnlyCommand

-----------------------------------------------------------------------------
Manager == Kick \/ Respawn \/ Crash \/ Launch \/ Configure \/ Bind \/ StartByHand

Commanded == GiveCommand \/ GiveSetup \/ GiveUse \/ ConfigSet \/ EditSettings \/ Interrupt

FileStep == \/ InstallArtifacts \/ BreakOffExposure \/ NextAgent \/ WriteAgentFile \/ TearAgentFile
            \/ WriteSettings \/ WriteSecrets \/ InstallService \/ Repair

ServiceStep == \/ StartService \/ AwaitActive \/ AwaitHealth \/ AwaitFinalHealth
               \/ RestartService \/ AwaitRestart \/ StopService \/ AwaitInactive
               \/ Apply \/ Revive \/ Report

Next == Manager \/ Commanded \/ FileStep \/ ServiceStep

Spec == Init /\ [][Next]_vars

-----------------------------------------------------------------------------
(* Properties.                                                             *)

\* The state stays in its types, whatever order commands, faults and the
\* service manager take (AppSettings, SecretStore and service.rs).
TypeOK ==
  /\ DOMAIN settings = Keys /\ DOMAIN secrets = SecretKeys
  /\ configured \subseteq Agents
  /\ artifacts \subseteq Groups
  /\ DOMAIN agents = Agents
  /\ definition \in {"none", "manual", "auto"}
  /\ loaded \in {"none", "manual", "auto"}
  /\ platform = "systemd" => loaded = "none" /\ ~kicked
  /\ server = NoServer \/ server.pid \in 1..starts
  /\ failed => server = NoServer
  /\ starts \in 0..MaxStarts /\ commands \in 0..MaxCommands /\ faults \in 0..MaxFaults
  /\ cli.pid \in 0..starts
  /\ cli.wired \cup ToSet(cli.picked) \subseteq Agents
  /\ cli.result \in {"none", "ok", "failed"}
  /\ cli.left # <<>> => cli.agent \in Agents

\* A server runs with the settings and secrets as they were saved when it was
\* launched, nothing of the shell that started it leaks in, unless the settings
\* change between the two times that they are read (launch.rs, server config.rs).
ServerRunsSaved ==
  server # NoServer /\ server.phase \in {"configured", "up"} /\ server.calm =>
    server.config = server.from

Succeeded(cmds) == Finished /\ cli.result = "ok" /\ cli.cmd \in cmds

\* When `mb setup` reports success, everything it announces is in place: the
\* plan is saved, the definition installed is the one of the plan, the agents it
\* did not warn about ask and post to the port, the plugins reading the settings in
\* their own way, and a server answers there (setup.rs).
ReadyMeansInstalled ==
  Succeeded({"setup"}) =>
    /\ settings = cli.s
    /\ artifacts = Groups /\ CliExposed(home)
    /\ cli.secret[1] # Unset => Secret(secrets, cli.secret[1]) = cli.secret[2]
    /\ definition = Chosen(settings)
    /\ cli.wired \subseteq configured
    /\ \A a \in cli.wired : Wired(a, agents[a], SettingsText(settings), PlannedPort)
    /\ cli.answer # NoAnswer

\* If the service was not active before `mb setup` started it, and the answer is
\* the service's, that server runs with what the user has just decided, the
\* secret included (the order of the steps in apply_setup_plan).
ReadyServesPlan ==
  Succeeded({"setup"}) /\ ~cli.active /\ cli.answer # NoAnswer /\ cli.answer.pid # NoProcess =>
    cli.answer.config = Shown(settings, secrets)

\* A restart that was seen by a known pid is answered by another process, which
\* runs with the saved settings (wait_for_service_restart).
RestartReachesNewServer ==
  /\ Succeeded({"restart", "use"})
  /\ cli.pid # NoProcess /\ ~cli.late
  /\ cli.answer # NoAnswer /\ cli.answer.pid # NoProcess
  => /\ cli.answer.pid # cli.pid
     /\ cli.answer.config = Shown(settings, secrets)

\* Once `mb service stop` has succeeded no process of the service appears until
\* the next command, unless systemd was between two attempts to start it
\* (stop_service; the status is only looked at once before).
StaysStopped ==
  [][Succeeded({"stop"}) /\ (platform = "launchd" \/ cli.active) /\ cli' = cli /\ definition # "none"
       => server' = NoServer]_vars

\* What the launcher refuses and the doctor does not look for; `mb` never saves it.
Unnoticed(s) ==
  \/ s["server.encoder_provider"] \notin Encoders \cup {Unset}
  \/ \E key \in Positive \ {"service.port"} : Value(s, key) = "0"

\* When `mb doctor --fix` finds nothing wrong, the service could be started again
\* from what is saved, even if a server that still runs from before hides what is
\* missing: the doctor looks, in code of its own, for whatever the launcher refuses,
\* except for the name of an encoder that does not exist and for a count of zero,
\* written into settings.toml by hand; a port of zero shows, for nothing answers
\* there (collect_doctor_issues and build_server_launch_spec).
NoIssuesMeansLaunchable ==
  Succeeded({"doctor"}) /\ cli.issues = {} =>
    /\ definition # "none"
    /\ Launchable(settings, secrets) \/ Unnoticed(settings)

\* However often setup runs and whatever breaks it off, what the user has written
\* is still there, in order: in an agent's file or its backup, among the hooks, in
\* the sections of Codex's TOML file, and in the start-up files of the shell, except
\* in one whose overwriting broke off, of which a fault spoils no more than one; and
\* Codex and Gemini have no second hook of Memory Bank that was not there before
\* (agents/*.rs, assets.rs; Claude Code's hooks are OneHookPerEvent).
UserConfigKept ==
  /\ \A a \in Agents : agents[a].whole \/ agents[a].backup
  /\ \A a \in Agents \cap HookAgents : UserHooks(agents[a].hooks) = UserHooks(machine.hooks)
  /\ \A a \in Agents \cap {"codex", "gemini-cli"} :
       \/ Len(OurHooks(agents[a].hooks)) <= 1
       \/ Len(OurHooks(agents[a].hooks)) <= Len(OurHooks(machine.hooks))
  /\ "codex" \in Agents =>
       UserAssignments(agents["codex"].toml) = UserAssignments(machine.toml)
  /\ \A file \in RcFiles \ home.torn :
       UserLines(home.rc[file]) = UserLines(machine.home.rc[file])
  /\ Cardinality(home.torn) <= faults

\* The tests say that setting an agent up is idempotent across reruns: every
\* event has at most one hook of Memory Bank, for every agent.
OneHookPerEvent ==
  \A a \in Agents \cap HookAgents : Len(OurHooks(agents[a].hooks)) <= 1
=============================================================================
