------------------------- MODULE InstallationProofs -------------------------
(***************************************************************************)
(* Theorems about Installation for all values of its constants: every      *)
(* machine, every answer to the questions of `mb setup`, every environment *)
(* the launcher may inherit, any number of processes, faults and commands. *)
(*                                                                         *)
(* The argument has several parts.  The environment that the launcher      *)
(* makes says what the settings say (LaunchFaithful), whatever is written  *)
(* there, and the server resolves it to them (FaithfulResolves).  A        *)
(* command has only certain lists of steps ahead (TodoOf), so what it has  *)
(* seen so far is known from the step it is at.  And for each kind of      *)
(* command the process of the service is Fresh, given what is saved now,   *)
(* from the step that starts or replaces it on: the inductive invariant    *)
(* InstallInv says so for setup, restart and stop, with PortInv, that      *)
(* nothing answers at port 0.  What the user has written stays in order    *)
(* under every edit of a file (KeptInv), and only a fault tears a start-up *)
(* file (TornInv).  And each step of a setup leaves something behind that  *)
(* no later one disturbs, up to its success (ReadyInv); that what was      *)
(* written is read as it was meant is shown of hooks, TOML sections,       *)
(* secrets and the port of the plugins apart (HookThere, TomlSet,          *)
(* SecretsKept, PortRead).                                                 *)
(***************************************************************************)
EXTENDS Installation, TLAPS, FiniteSetTheorems, SequenceTheorems, WellFoundedInduction

-----------------------------------------------------------------------------
(* Settings.                                                               *)

\* Settings have a value for every key, or Unset.
Sound(s) == DOMAIN s = Keys

LEMMA KeyIsKey ==
  /\ {"server.llm_provider", "server.encoder_provider", "service.port"} \subseteq Keys
  /\ Texts \subseteq Keys
BY DEF Keys, Numbers, Enumerated, Texts

LEMMA SoundDefault == Sound(DefaultSettings)
BY DEF Sound, DefaultSettings

\* Whatever is written in the file, a provider and an encoder come of it.
LEMMA Resolves ==
  ASSUME NEW s
  PROVE  ProviderOf(s) \in Providers /\ EncoderOf(s) \in Encoders
BY DEF ProviderOf, Providers, EncoderOf, Encoders

\* The other keys have the value that is written, or the default.
LEMMA PlainValue ==
  ASSUME NEW s, NEW key, key \notin {"server.llm_provider", "server.encoder_provider"}
  PROVE  Value(s, key) = IF s[key] = Unset THEN Default(key, ProviderOf(s)) ELSE s[key]
BY DEF Value

LEMMA SetConfigSound ==
  ASSUME NEW s, Sound(s), NEW key, NEW input
  PROVE  Sound(SetConfig(s, key, input))
BY DEF Sound, SetConfig, SetKey

LEMMA PlanSound ==
  ASSUME NEW s, NEW plan
  PROVE  Sound(PlanSettings(s, plan))
BY DEF Sound, PlanSettings

-----------------------------------------------------------------------------
(* What the launcher hands to the server.                                  *)

\* The arguments and the environment say what the settings say that the
\* launcher read; a variable of a text is theirs or is not set.
Faithful(args, env, from) ==
  /\ args.provider \in Providers /\ args.encoder \in Encoders
  /\ from.port = args.port /\ from.namespace = args.namespace
  /\ from.provider = args.provider /\ from.encoder = args.encoder
  /\ from.window = Window(args.provider, args.window)
  /\ from.neighbors = args.neighbors /\ from.attempts = args.attempts
  /\ env[Variable("server.llm_model", args.provider)] \in {Unset, from.model}
  /\ env[Variable(EncoderKey(args.encoder), args.provider)] \in {Unset, from.target}
  /\ IF args.provider \in {"ollama", "open-ai"}
     THEN env[Variable(UrlKey(args.provider), args.provider)] \in {Unset, from.url}
     ELSE from.url = Unset
  /\ from.secret = IF SecretKey(args.provider) = Unset THEN Unset
                   ELSE env[SecretKey(args.provider)]

\* Two texts have different variables, and none has the variable of a secret.
LEMMA VariablesDiffer ==
  ASSUME NEW p, NEW key \in ServerTexts
  PROVE  /\ Variable(key, p) \notin SecretKeys
         /\ \A other \in ServerTexts : Variable(other, p) = Variable(key, p) => other = key
<1>1. ServerTexts = {"server.llm_model", "server.ollama_url", "server.openai_url",
        "server.fastembed_model", "server.local_encoder_url", "server.remote_encoder_url"}
  BY DEF ServerTexts, Texts
<1>2. /\ Variable("server.llm_model", p) \in {"MEMORY_BANK_OLLAMA_MODEL", "MEMORY_BANK_LLM_MODEL"}
      /\ Variable("server.ollama_url", p) = "MEMORY_BANK_OLLAMA_URL"
      /\ Variable("server.openai_url", p) = "OPENAI_BASE_URL"
      /\ Variable("server.fastembed_model", p) = "MEMORY_BANK_FASTEMBED_MODEL"
      /\ Variable("server.local_encoder_url", p) = "MEMORY_BANK_LOCAL_ENCODER_URL"
      /\ Variable("server.remote_encoder_url", p) = "MEMORY_BANK_REMOTE_ENCODER_URL"
  BY DEF Variable
<1> QED
  BY <1>1, <1>2 DEF SecretKeys, RemoteKey

\* The environment of the server does not depend on the launcher's.
LEMMA TextVariable ==
  ASSUME NEW s, NEW secs, NEW shell, NEW key \in ServerTexts,
         ProviderOf(s) \in OwnedBy(key)
  PROVE  LaunchEnvironment(s, secs, shell)[Variable(key, ProviderOf(s))] = s[key]
<1> DEFINE p == ProviderOf(s)
           v == Variable(key, p)
<1>1. p \in Providers
  BY Resolves
<1>2. v \in AllVariables
  BY <1>1 DEF AllVariables
<1>3. NeededSecrets(s) \subseteq SecretKeys
  BY <1>1 DEF NeededSecrets, SecretKeys, SecretKey, RemoteKey, Providers
<1>4. v \notin NeededSecrets(s)
  BY <1>3, VariablesDiffer
<1>5. Sources(s, v) = IF s[key] # Unset THEN {key} ELSE {}
  BY VariablesDiffer DEF Sources
<1>6. CASE s[key] # Unset
  <2>1. (CHOOSE k \in Sources(s, v) : TRUE) = key
    BY <1>5, <1>6
  <2> QED
    BY <1>2, <1>4, <1>5, <1>6, <2>1 DEF LaunchEnvironment
<1>7. CASE s[key] = Unset
  BY <1>2, <1>4, <1>5, <1>7 DEF LaunchEnvironment, RemovedVariables
<1> QED
  BY <1>6, <1>7

LEMMA LaunchFaithful ==
  ASSUME NEW s, NEW secs, NEW shell
  PROVE  Faithful(LaunchArguments(s), LaunchEnvironment(s, secs, shell), Shown(s, secs))
<1> DEFINE p == ProviderOf(s)
           e == EncoderOf(s)
           env == LaunchEnvironment(s, secs, shell)
<1>1. p \in Providers /\ e \in Encoders
  BY Resolves
<1>2. EncoderKey(e) \in ServerTexts \ {"server.openai_url", "server.ollama_url"}
  BY <1>1 DEF EncoderKey, Encoders, ServerTexts, Texts
<1>3. "server.llm_model" \in ServerTexts /\ p \in OwnedBy("server.llm_model")
      /\ p \in OwnedBy(EncoderKey(e))
  BY <1>1, <1>2 DEF OwnedBy, ServerTexts, Texts
<1>0. \A key \in ServerTexts : s[key] \in {Unset, Value(s, key)}
  BY PlainValue DEF ServerTexts, Texts
<1>4. env[Variable("server.llm_model", p)] \in {Unset, Value(s, "server.llm_model")}
  BY <1>0, <1>3, TextVariable
<1>5. env[Variable(EncoderKey(e), p)] \in {Unset, Value(s, EncoderKey(e))}
  BY <1>0, <1>2, <1>3, TextVariable
<1>6. p \in {"ollama", "open-ai"} =>
        env[Variable(UrlKey(p), p)] \in {Unset, Value(s, UrlKey(p))}
  <2>1. p \in {"ollama", "open-ai"} => UrlKey(p) \in ServerTexts /\ p \in OwnedBy(UrlKey(p))
    BY DEF UrlKey, ServerTexts, Texts, OwnedBy
  <2> QED
    BY <1>0, <2>1, TextVariable
<1>7. SecretKey(p) # Unset => env[SecretKey(p)] = Secret(secs, SecretKey(p))
  <2>1. SecretKey(p) # Unset => SecretKey(p) \in NeededSecrets(s)
    BY DEF NeededSecrets
  <2>2. SecretKey(p) # Unset => SecretKey(p) \in AllVariables
    BY <1>1 DEF AllVariables, SecretKeys, SecretKey, Providers
  <2> QED
    BY <2>1, <2>2 DEF LaunchEnvironment
<1>8. Window(p, Window(p, Value(s, "server.history_window_size")))
        = Window(p, Value(s, "server.history_window_size"))
  BY DEF Window
<1> HIDE DEF env
<1> QED
  BY <1>1, <1>4, <1>5, <1>6, <1>7, <1>8 DEF Faithful, LaunchArguments, Shown, env

\* So the server resolves what was shown, if the settings it reads in its turn
\* still say the same.
LEMMA FaithfulResolves ==
  ASSUME NEW s, NEW secs, NEW args, NEW env, NEW from, Faithful(args, env, from),
         from = Shown(s, secs)
  PROVE  ServerConfig(args, env, s) = from
<1> DEFINE p == args.provider
           e == args.encoder
<1>1. p = ProviderOf(s) /\ e = EncoderOf(s) /\ p \in Providers /\ e \in Encoders
  BY Resolves DEF Faithful, Shown
<1>2. \A key \in ServerTexts : EnvOrSetting(env, s, key, p) =
        IF env[Variable(key, p)] # Unset THEN env[Variable(key, p)] ELSE Value(s, key)
  <2>1. \A key \in ServerTexts : key \notin {"server.llm_provider", "server.encoder_provider"}
    BY DEF ServerTexts, Texts
  <2> QED
    BY <1>1, <2>1, PlainValue DEF EnvOrSetting
<1>3. EnvOrSetting(env, s, "server.llm_model", p) = from.model
  <2>1. "server.llm_model" \in ServerTexts
    BY DEF ServerTexts, Texts
  <2> QED
    BY <1>1, <1>2, <2>1 DEF Faithful, Shown
<1>4. EnvOrSetting(env, s, EncoderKey(e), p) = from.target
  <2>1. EncoderKey(e) \in ServerTexts
    BY <1>1 DEF EncoderKey, Encoders, ServerTexts, Texts
  <2> QED
    BY <1>1, <1>2, <2>1 DEF Faithful, Shown
<1>5. p \in {"ollama", "open-ai"} => EnvOrSetting(env, s, UrlKey(p), p) = from.url
  <2>1. UrlKey(p) \in ServerTexts
    BY DEF UrlKey, ServerTexts, Texts
  <2> QED
    BY <1>1, <1>2, <2>1 DEF Faithful, Shown
<1> QED
  BY <1>1, <1>3, <1>4, <1>5 DEF Faithful, ServerConfig, Shown

-----------------------------------------------------------------------------
(* Commands.                                                               *)

\* What may be ahead of a command.
StartTodos ==
  {<<"start", "active", "health">>, <<"active", "health">>, <<"health">>, <<>>}
RestartTodos ==
  {<<"restart", "changed", "health">>, <<"changed", "health">>, <<"health">>, <<>>}
SetupTodos ==
  {<<"artifacts", "agents", "settings", "secrets", "install", "start", "active", "health", "final">>,
   <<"agents", "settings", "secrets", "install", "start", "active", "health", "final">>,
   <<"settings", "secrets", "install", "start", "active", "health", "final">>,
   <<"secrets", "install", "start", "active", "health", "final">>,
   <<"install", "start", "active", "health", "final">>,
   <<"start", "active", "health", "final">>, <<"active", "health", "final">>,
   <<"health", "final">>, <<"final">>, <<>>}
DoctorTodos ==
  {<<"artifacts", "repair", "revive", "report">>, <<"repair", "revive", "report">>,
   <<"revive", "report">>, <<"start", "active", "health", "report">>,
   <<"active", "health", "report">>, <<"health", "report">>, <<"report">>, <<>>}
StopTodos ==
  {<<"stop", "inactive">>, <<"inactive">>, <<>>}
FileTodos ==
  {<<"artifacts", "install">>, <<"install">>, <<>>}

TodoOf(cmd, todo) ==
  \/ todo = <<>>
  \/ cmd = "setup" /\ todo \in SetupTodos
  \/ cmd = "bootstrap" /\ todo = <<"artifacts">>
  \/ cmd = "install" /\ todo \in FileTodos
  \/ cmd = "start" /\ todo \in {<<"artifacts", "start", "active", "health">>} \cup StartTodos
  \/ cmd = "restart" /\ todo \in {<<"artifacts", "restart", "changed", "health">>}
                                  \cup StartTodos \cup RestartTodos
  \/ cmd = "stop" /\ todo \in StopTodos
  \/ cmd = "use" /\ todo \in {<<"settings", "apply">>, <<"apply">>}
                              \cup StartTodos \cup RestartTodos
  \/ cmd = "doctor" /\ todo \in DoctorTodos

CommandInv ==
  /\ DOMAIN cli = DOMAIN Idle
  /\ TodoOf(cli.cmd, cli.todo)
  /\ cli.todo # <<>> => cli.result = "none"

\* The steps behind the first.
Behind(todo) == Tail(todo)

\* Those of every list that occurs.
LEMMA Tails ==
  /\ Behind(<<"artifacts", "agents", "settings", "secrets", "install", "start", "active", "health", "final">>)
       = <<"agents", "settings", "secrets", "install", "start", "active", "health", "final">>
  /\ Behind(<<"agents", "settings", "secrets", "install", "start", "active", "health", "final">>)
       = <<"settings", "secrets", "install", "start", "active", "health", "final">>
  /\ Behind(<<"settings", "secrets", "install", "start", "active", "health", "final">>)
       = <<"secrets", "install", "start", "active", "health", "final">>
  /\ Behind(<<"secrets", "install", "start", "active", "health", "final">>)
       = <<"install", "start", "active", "health", "final">>
  /\ Behind(<<"install", "start", "active", "health", "final">>)
       = <<"start", "active", "health", "final">>
  /\ Behind(<<"start", "active", "health", "final">>) = <<"active", "health", "final">>
  /\ Behind(<<"artifacts", "repair", "revive", "report">>) = <<"repair", "revive", "report">>
  /\ Behind(<<"start", "active", "health", "report">>) = <<"active", "health", "report">>
  /\ Behind(<<"artifacts", "start", "active", "health">>) = <<"start", "active", "health">>
  /\ Behind(<<"artifacts", "restart", "changed", "health">>)
       = <<"restart", "changed", "health">>
  /\ Behind(<<"start", "active", "health">>) = <<"active", "health">>
  /\ Behind(<<"restart", "changed", "health">>) = <<"changed", "health">>
  /\ Behind(<<"active", "health", "final">>) = <<"health", "final">>
  /\ Behind(<<"repair", "revive", "report">>) = <<"revive", "report">>
  /\ Behind(<<"active", "health", "report">>) = <<"health", "report">>
  /\ Behind(<<"active", "health">>) = <<"health">>
  /\ Behind(<<"changed", "health">>) = <<"health">>
  /\ Behind(<<"health", "final">>) = <<"final">>
  /\ Behind(<<"revive", "report">>) = <<"report">>
  /\ Behind(<<"health", "report">>) = <<"report">>
  /\ Behind(<<"stop", "inactive">>) = <<"inactive">>
  /\ Behind(<<"artifacts", "install">>) = <<"install">>
  /\ Behind(<<"settings", "apply">>) = <<"apply">>
  /\ Behind(<<"health">>) = <<>>
  /\ Behind(<<"final">>) = <<>>
  /\ Behind(<<"report">>) = <<>>
  /\ Behind(<<"inactive">>) = <<>>
  /\ Behind(<<"install">>) = <<>>
  /\ Behind(<<"apply">>) = <<>>
  /\ Behind(<<"artifacts">>) = <<>>
BY DEF Behind

\* A command goes on with what it may have ahead.
LEMMA TodoTail ==
  ASSUME NEW cmd, NEW todo, TodoOf(cmd, todo), todo # <<>>
  PROVE  /\ TodoOf(cmd, Behind(todo))
         /\ todo[1] \in {"active", "changed"} => TodoOf(cmd, Behind(Behind(todo)))
<1>1. CASE cmd = "setup"
  <2>1. TodoOf(cmd, Behind(todo))
    BY <1>1, Tails, Zenon DEF TodoOf, SetupTodos
  <2>2. todo[1] \in {"active", "changed"} => todo \in {<<"active", "health", "final">>}
    BY <1>1 DEF TodoOf, SetupTodos
  <2> QED
    BY <1>1, <2>1, <2>2, Tails, Zenon DEF TodoOf, SetupTodos
<1>2. CASE cmd \in {"bootstrap", "install", "stop"}
  <2>1. TodoOf(cmd, Behind(todo))
    BY <1>2, Tails, Zenon DEF TodoOf, FileTodos, StopTodos
  <2>2. todo[1] \notin {"active", "changed"}
    BY <1>2 DEF TodoOf, FileTodos, StopTodos
  <2> QED
    BY <2>1, <2>2
<1>3. CASE cmd = "start"
  <2>1. TodoOf(cmd, Behind(todo))
    BY <1>3, Tails, Zenon DEF TodoOf, StartTodos
  <2>2. todo[1] \in {"active", "changed"} => todo \in {<<"active", "health">>}
    BY <1>3 DEF TodoOf, StartTodos
  <2> QED
    BY <1>3, <2>1, <2>2, Tails, Zenon DEF TodoOf, StartTodos
<1>4. CASE cmd = "restart"
  <2>1. TodoOf(cmd, Behind(todo))
    BY <1>4, Tails, Zenon DEF TodoOf, StartTodos, RestartTodos
  <2>2. todo[1] \in {"active", "changed"} => todo \in {<<"active", "health">>, <<"changed", "health">>}
    BY <1>4 DEF TodoOf, StartTodos, RestartTodos
  <2> QED
    BY <1>4, <2>1, <2>2, Tails, Zenon DEF TodoOf, StartTodos, RestartTodos
<1>5. CASE cmd = "use"
  <2>1. TodoOf(cmd, Behind(todo))
    BY <1>5, Tails, Zenon DEF TodoOf, StartTodos, RestartTodos
  <2>2. todo[1] \in {"active", "changed"} => todo \in {<<"active", "health">>, <<"changed", "health">>}
    BY <1>5 DEF TodoOf, StartTodos, RestartTodos
  <2> QED
    BY <1>5, <2>1, <2>2, Tails, Zenon DEF TodoOf, StartTodos, RestartTodos
<1>6. CASE cmd = "doctor"
  <2>1. TodoOf(cmd, Behind(todo))
    BY <1>6, Tails, Zenon DEF TodoOf, DoctorTodos
  <2>2. todo[1] \in {"active", "changed"} => todo \in {<<"active", "health", "report">>}
    BY <1>6 DEF TodoOf, DoctorTodos
  <2> QED
    BY <1>6, <2>1, <2>2, Tails, Zenon DEF TodoOf, DoctorTodos
<1> QED
  BY <1>1, <1>2, <1>3, <1>4, <1>5, <1>6 DEF TodoOf

LEMMA FollowFields ==
  ASSUME NEW c, DOMAIN c = DOMAIN Idle, NEW steps, Follow(c, steps)
  PROVE  /\ DOMAIN cli' = DOMAIN Idle
         /\ cli'.todo = steps
         /\ cli'.result = IF steps = <<>> THEN "ok" ELSE c.result
         /\ cli'.cmd = c.cmd /\ cli'.s = c.s /\ cli'.secret = c.secret
         /\ cli'.picked = c.picked /\ cli'.wired = c.wired
         /\ cli'.agent = c.agent /\ cli'.left = c.left
         /\ cli'.active = c.active /\ cli'.pid = c.pid /\ cli'.inactive = c.inactive
         /\ cli'.again = c.again /\ cli'.late = c.late
         /\ cli'.answer = c.answer /\ cli'.issues = c.issues
BY DEF Follow, Idle

-----------------------------------------------------------------------------
(* The inductive invariant.                                                *)

SettingsInv == Sound(settings) /\ Sound(cli.s)

\* What the process of the service has been told, and has made of it.
ServerInv ==
  server # NoServer =>
    /\ server.phase = "launched" => Faithful(server.args, server.env, server.from)
    /\ server.phase \in {"configured", "up"} =>
         /\ DOMAIN server = {"pid", "phase", "config", "from", "calm"}
         /\ server.calm => server.config = server.from

\* A service that is stopped on launchd has neither process nor order to start one.
ManagerInv ==
  /\ platform \in {"launchd", "systemd"}
  /\ definition \in {"none", "manual", "auto"} /\ loaded \in {"none", "manual", "auto"}
  /\ starts \in Nat
  /\ server # NoServer => server.pid \in 1..starts
  /\ failed => server = NoServer
  /\ platform = "systemd" => loaded = "none" /\ ~kicked
  /\ platform = "launchd" /\ loaded = "none" => server = NoServer /\ ~kicked

\* What a command that has not got so far has seen.
FlagsInv ==
  /\ cli.pid \in 0..starts
  /\ cli.todo \notin {<<>>, <<"final">>, <<"report">>} => cli.answer = NoAnswer
  /\ cli.todo \notin {<<"changed", "health">>, <<"health">>, <<>>} =>
       cli.pid = NoProcess /\ ~cli.inactive /\ ~cli.late

\* The process has been given what is saved.
Fresh ==
  /\ server.phase = "launched" => server.from = Shown(settings, secrets)
  /\ server.phase \in {"configured", "up"} => server.config = Shown(settings, secrets)

ByService(answer) == answer # NoAnswer /\ answer.pid # NoProcess

PlanInv ==
  /\ cli.cmd = "setup" /\ ~cli.active /\ cli.result # "failed"
  /\ cli.todo \in {<<"active", "health", "final">>, <<"health", "final">>, <<"final">>, <<>>}
  => /\ server # NoServer => Fresh
     /\ ByService(cli.answer) => cli.answer.config = Shown(settings, secrets)

\* A restarted service: which process answers, and what it has been given.
RestartInv ==
  cli.cmd \in {"restart", "use"} /\ cli.pid # NoProcess /\ cli.result # "failed" =>
    /\ cli.todo \in {<<"changed", "health">>, <<"health">>, <<>>}
    /\ server # NoServer /\ server.pid # cli.pid => Fresh
    /\ platform = "systemd" => server = NoServer \/ server.pid # cli.pid
    /\ platform = "launchd" => loaded # "none" /\ ~cli.inactive
    /\ cli.todo # <<"changed", "health">> /\ ~cli.late =>
         /\ server = NoServer \/ server.pid # cli.pid
         /\ ByService(cli.answer) => /\ cli.answer.pid # cli.pid
                                     /\ cli.answer.config = Shown(settings, secrets)

\* There is no process, and nothing will start one.
Stopped == /\ server = NoServer /\ ~kicked
           /\ IF platform = "launchd" THEN loaded = "none" ELSE ~failed

StopInv ==
  /\ cli.cmd = "stop" /\ cli.todo # <<"stop", "inactive">> /\ cli.result # "failed"
  /\ definition # "none" /\ (platform = "launchd" \/ cli.active)
  => Stopped

DoctorInv ==
  cli.cmd = "doctor" /\ cli.todo = <<>> /\ cli.result = "ok" /\ cli.issues = {} =>
    definition # "none" /\ (Launchable(settings, secrets) \/ Unnoticed(settings))

InstallInv == /\ SettingsInv /\ ServerInv /\ ManagerInv /\ CommandInv /\ FlagsInv
              /\ PlanInv /\ RestartInv /\ StopInv /\ DoctorInv

\* Nobody serves port 0.
PortInv ==
  /\ foreign # "0"
  /\ server # NoServer =>
       /\ server.phase = "launched" => server.args.port # "0"
       /\ server.phase \in {"configured", "up"} => server.config.port # "0"

-----------------------------------------------------------------------------
(* What the steps do to the command.                                       *)

\* What a step of the files leaves as it is.
FileFields ==
  /\ cli'.cmd = cli.cmd /\ cli'.s = cli.s /\ cli'.secret = cli.secret
  /\ cli'.active = cli.active /\ cli'.pid = cli.pid /\ cli'.inactive = cli.inactive
  /\ cli'.late = cli.late /\ cli'.answer = cli.answer /\ cli'.issues = cli.issues

Stays == cli'.todo = cli.todo /\ cli'.result = cli.result
GoesTo(todo) == cli'.todo = todo /\ cli'.result = IF todo = <<>> THEN "ok" ELSE cli.result
Ends == cli'.todo = <<>> /\ cli'.result = "failed"

LEMMA FailFields ==
  ASSUME CommandInv, Fail
  PROVE  DOMAIN cli' = DOMAIN Idle /\ FileFields /\ Ends
BY DEF CommandInv, Fail, Idle, FileFields, Ends

LEMMA ProceedFields ==
  ASSUME CommandInv, Proceed(cli)
  PROVE  DOMAIN cli' = DOMAIN Idle /\ FileFields /\ GoesTo(Behind(cli.todo))
BY FollowFields DEF CommandInv, Proceed, FileFields, GoesTo, Behind

FileFirst == {"artifacts", "agents", "settings", "secrets", "install", "repair"}

LEMMA FileStepCommand ==
  ASSUME CommandInv, FileStep
  PROVE  /\ cli.todo # <<>> /\ cli.todo[1] \in FileFirst
         /\ DOMAIN cli' = DOMAIN Idle /\ FileFields
         /\ (Stays /\ cli.todo[1] = "agents") \/ GoesTo(Behind(cli.todo)) \/ Ends
<1> USE DEF FileFirst, Doing, Finished
<1>1. ASSUME InstallArtifacts PROVE cli.todo # <<>> /\ cli.todo[1] = "artifacts" /\ (Fail \/ Proceed(cli))
  BY <1>1 DEF InstallArtifacts
<1>8. ASSUME BreakOffExposure PROVE cli.todo # <<>> /\ cli.todo[1] = "artifacts" /\ Fail
  BY <1>8 DEF BreakOffExposure
<1>2. ASSUME NextAgent
      PROVE  /\ cli.todo # <<>> /\ cli.todo[1] = "agents"
             /\ Proceed(cli) \/ (DOMAIN cli' = DOMAIN Idle /\ FileFields /\ Stays)
  <2>1. ASSUME NEW a, NEW p, NEW l, cli' = [cli EXCEPT !.agent = a, !.picked = p, !.left = l]
        PROVE  DOMAIN cli' = DOMAIN Idle /\ FileFields /\ Stays
    BY <2>1 DEF CommandInv, Idle, FileFields, Stays
  <2>2. CASE cli.picked = <<>>
    BY <1>2, <2>2 DEF NextAgent
  <2>3. CASE cli.picked # <<>>
    <3>1. cli' = [cli EXCEPT !.agent = Head(cli.picked), !.picked = Tail(cli.picked),
                             !.left = FileSteps(Head(cli.picked))]
      BY <1>2, <2>3 DEF NextAgent
    <3> QED
      BY <1>2, <2>1, <3>1 DEF NextAgent
  <2> QED
    BY <2>2, <2>3
<1>3. ASSUME NEW config, FileDone(config) PROVE DOMAIN cli' = DOMAIN Idle /\ FileFields /\ Stays
  BY <1>3 DEF FileDone, CommandInv, Idle, FileFields, Stays
<1>4. ASSUME NEW config, GiveUpAgent(config) PROVE DOMAIN cli' = DOMAIN Idle /\ FileFields /\ Stays
  BY <1>4 DEF GiveUpAgent, CommandInv, Idle, FileFields, Stays
<1>5. ASSUME WriteAgentFile
      PROVE  /\ cli.todo # <<>> /\ cli.todo[1] = "agents"
             /\ DOMAIN cli' = DOMAIN Idle /\ FileFields /\ Stays
  BY <1>3, <1>4, <1>5 DEF WriteAgentFile
<1>6. ASSUME TearAgentFile
      PROVE  /\ cli.todo # <<>> /\ cli.todo[1] = "agents"
             /\ Fail \/ (DOMAIN cli' = DOMAIN Idle /\ FileFields /\ Stays)
  <2>1. Fail \/ GiveUpAgent([Backup(agents["codex"]) EXCEPT !.whole = FALSE])
    BY <1>6 DEF TearAgentFile
  <2>2. cli.todo # <<>> /\ cli.todo[1] = "agents"
    BY <1>6 DEF TearAgentFile
  <2> QED
    BY <1>4, <2>1, <2>2
<1>7. ASSUME WriteSettings \/ WriteSecrets \/ InstallService \/ Repair
      PROVE  cli.todo # <<>> /\ cli.todo[1] \in FileFirst /\ Proceed(cli)
  BY <1>7 DEF WriteSettings, WriteSecrets, InstallService, Repair
<1> QED
  BY <1>1, <1>2, <1>5, <1>6, <1>7, <1>8, FailFields, ProceedFields DEF FileStep

\* What comes after a step of the files.
LEMMA AfterFileStep ==
  ASSUME NEW cmd, NEW todo, TodoOf(cmd, todo), todo # <<>>, todo[1] \in FileFirst
  PROVE  /\ Behind(todo) \notin {<<"active", "health", "final">>, <<"health", "final">>, <<"final">>,
                                 <<"changed", "health">>, <<"health">>, <<"report">>}
         /\ cmd # "stop"
         /\ cmd \in {"setup", "use", "restart", "doctor"} => Behind(todo) # <<>>
         /\ todo \notin {<<"final">>, <<"report">>, <<"changed", "health">>, <<"health">>, <<>>}
<1> USE DEF FileFirst
<1>1. CASE cmd = "setup"
  <2>1. todo \in {<<"artifacts", "agents", "settings", "secrets", "install", "start", "active", "health", "final">>,
              <<"agents", "settings", "secrets", "install", "start", "active", "health", "final">>,
              <<"settings", "secrets", "install", "start", "active", "health", "final">>,
              <<"secrets", "install", "start", "active", "health", "final">>,
              <<"install", "start", "active", "health", "final">>}
    BY <1>1 DEF TodoOf, SetupTodos
  <2>2. Behind(todo) \in {<<"agents", "settings", "secrets", "install", "start", "active", "health", "final">>,
                      <<"settings", "secrets", "install", "start", "active", "health", "final">>,
                      <<"secrets", "install", "start", "active", "health", "final">>,
                      <<"install", "start", "active", "health", "final">>,
                      <<"start", "active", "health", "final">>}
    BY <2>1, Tails, Zenon
  <2>3. Behind(todo) # <<>> /\ Behind(todo)[1] \in {"agents", "settings", "secrets", "install", "start"}
    BY <2>2
  <2>4. todo # <<>> /\ todo[1] \in {"artifacts", "agents", "settings", "secrets", "install"}
    BY <2>1
  <2> QED
    BY <1>1, <2>3, <2>4
<1>2. CASE cmd = "bootstrap"
  <2>1. todo \in {<<"artifacts">>}
    BY <1>2 DEF TodoOf
  <2>2. Behind(todo) \in {<<>>}
    BY <2>1, Tails, Zenon
  <2> QED
    BY <1>2, <2>1, <2>2
<1>3. CASE cmd = "install"
  <2>1. todo \in {<<"artifacts", "install">>, <<"install">>}
    BY <1>3 DEF TodoOf, FileTodos
  <2>2. Behind(todo) \in {<<"install">>, <<>>}
    BY <2>1, Tails, Zenon
  <2> QED
    BY <1>3, <2>1, <2>2
<1>4. CASE cmd = "start"
  <2>1. todo \in {<<"artifacts", "start", "active", "health">>}
    BY <1>4 DEF TodoOf, StartTodos
  <2>2. Behind(todo) \in {<<"start", "active", "health">>}
    BY <2>1, Tails, Zenon
  <2> QED
    BY <1>4, <2>1, <2>2
<1>5. CASE cmd = "restart"
  <2>1. todo \in {<<"artifacts", "restart", "changed", "health">>}
    BY <1>5 DEF TodoOf, StartTodos, RestartTodos
  <2>2. Behind(todo) \in {<<"restart", "changed", "health">>}
    BY <2>1, Tails, Zenon
  <2> QED
    BY <1>5, <2>1, <2>2
<1>6. CASE cmd = "use"
  <2>1. todo \in {<<"settings", "apply">>}
    BY <1>6 DEF TodoOf, StartTodos, RestartTodos
  <2>2. Behind(todo) \in {<<"apply">>}
    BY <2>1, Tails, Zenon
  <2> QED
    BY <1>6, <2>1, <2>2
<1>7. CASE cmd = "doctor"
  <2>1. todo \in {<<"artifacts", "repair", "revive", "report">>,
              <<"repair", "revive", "report">>}
    BY <1>7 DEF TodoOf, DoctorTodos
  <2>2. Behind(todo) \in {<<"repair", "revive", "report">>, <<"revive", "report">>}
    BY <2>1, Tails, Zenon
  <2> QED
    BY <1>7, <2>1, <2>2
<1>8. cmd # "stop"
  BY DEF TodoOf, StopTodos
<1> QED
  BY <1>1, <1>2, <1>3, <1>4, <1>5, <1>6, <1>7, <1>8 DEF TodoOf

LEMMA FileStepFrame ==
  ASSUME FileStep, Sound(settings), Sound(cli.s), definition \in {"none", "manual", "auto"}
  PROVE  /\ UNCHANGED <<loaded, server, kicked, failed, starts, machine>>
         /\ Sound(settings') /\ definition' \in {"none", "manual", "auto"}
<1>1. ASSUME NEW s PROVE Chosen(s) \in {"manual", "auto"}
  BY DEF Chosen
<1> QED
  BY <1>1 DEF FileStep, InstallArtifacts, BreakOffExposure, NextAgent, WriteAgentFile,
     TearAgentFile, WriteSettings, WriteSecrets, InstallService, Repair, OnlyCommand, OnlyFiles, files, manager

LEMMA FileStepKeeps ==
  ASSUME InstallInv, FileStep
  PROVE  InstallInv'
<1> DEFINE todo == cli.todo
<1>1. /\ todo # <<>> /\ todo[1] \in FileFirst
      /\ DOMAIN cli' = DOMAIN Idle /\ FileFields
      /\ (Stays /\ todo[1] = "agents") \/ GoesTo(Behind(todo)) \/ Ends
  BY FileStepCommand DEF InstallInv
<1>2. /\ UNCHANGED <<loaded, server, kicked, failed, starts, machine>>
      /\ Sound(settings') /\ definition' \in {"none", "manual", "auto"}
  BY FileStepFrame DEF InstallInv, SettingsInv, ManagerInv
<1>3. TodoOf(cli.cmd, todo) /\ cli.result = "none"
  BY <1>1 DEF InstallInv, CommandInv
<1>4. /\ Behind(todo) \notin {<<"active", "health", "final">>, <<"health", "final">>, <<"final">>,
                              <<"changed", "health">>, <<"health">>, <<"report">>}
      /\ cli.cmd # "stop"
      /\ cli.cmd \in {"setup", "use", "restart", "doctor"} => Behind(todo) # <<>>
      /\ todo \notin {<<"final">>, <<"report">>, <<"changed", "health">>, <<"health">>, <<>>}
  BY <1>1, <1>3, AfterFileStep
<1>5. TodoOf(cli.cmd, Behind(todo)) /\ TodoOf(cli.cmd, <<>>)
  BY <1>1, <1>3, TodoTail DEF TodoOf
<1>6. todo \notin {<<"active", "health", "final">>, <<"health", "final">>, <<"final">>, <<>>}
  BY <1>1 DEF FileFirst
<1>7. cli'.todo # <<>> => cli'.todo \in {todo, Behind(todo)} /\ cli'.result = "none"
  BY <1>1, <1>3 DEF Stays, GoesTo, Ends
<1>8. cli'.todo = <<>> /\ cli'.result # "failed" => Behind(todo) = <<>>
  BY <1>1 DEF Stays, GoesTo, Ends
<1>9. SettingsInv' /\ ServerInv' /\ ManagerInv'
  BY <1>1, <1>2 DEF InstallInv, SettingsInv, ServerInv, ManagerInv, FileFields, platform
<1>10. CommandInv'
  BY <1>1, <1>3, <1>5, <1>7 DEF CommandInv, FileFields
<1>11. FlagsInv'
  BY <1>1, <1>2, <1>4 DEF InstallInv, FlagsInv, FileFields
<1>12. PlanInv'
  BY <1>1, <1>4, <1>6, <1>7, <1>8 DEF PlanInv, FileFields
<1>13. RestartInv'
  BY <1>1, <1>4 DEF RestartInv, FileFields, InstallInv, FlagsInv
<1>14. StopInv' /\ DoctorInv'
  BY <1>1, <1>4, <1>8 DEF StopInv, DoctorInv, FileFields
<1> QED
  BY <1>9, <1>10, <1>11, <1>12, <1>13, <1>14 DEF InstallInv

-----------------------------------------------------------------------------
(* The service manager and the server.                                     *)

LEMMA ManagerFrame ==
  ASSUME Manager
  PROVE  UNCHANGED <<settings, secrets, definition, machine, cli, loaded>>
BY DEF Manager, Kick, Respawn, Crash, Exit, Launch, Configure, Bind, StartByHand, files, manager

\* What the manager and the server do to the process.
LEMMA ManagerServes ==
  ASSUME Manager, ManagerInv, ServerInv, SettingsInv
  PROVE  /\ ServerInv' /\ ManagerInv'
         /\ starts' >= starts
         /\ server' # NoServer =>
              /\ (server # NoServer => Fresh) => Fresh'
              /\ \/ server # NoServer /\ server'.pid = server.pid
                 \/ Fresh' /\ server'.pid > starts
         /\ Stopped => Stopped'
<1>0. UNCHANGED <<settings, secrets, definition, machine, cli, loaded>>
  BY ManagerFrame
<1>1. CASE Kick
  BY <1>0, <1>1 DEF Kick, Spawn, Process, ManagerInv, ServerInv, Fresh, Stopped, platform
<1>2. CASE Respawn
  BY <1>0, <1>2 DEF Respawn, Spawn, Process, ManagerInv, ServerInv, Fresh, Stopped, platform
<1>3. CASE Exit /\ server # NoServer
  BY <1>0, <1>3 DEF Exit, ManagerInv, ServerInv, Fresh, Stopped, platform
<1>4. CASE Launch
  <2>1. CASE Exit
    BY <1>3, <1>4, <2>1 DEF Launch
  <2>2. CASE ~Exit
    <3>1. PICK shell \in Shells :
            server' = [pid |-> server.pid, phase |-> "launched",
                       args |-> LaunchArguments(settings),
                       env |-> LaunchEnvironment(settings, secrets, shell),
                       from |-> Shown(settings, secrets)]
      BY <1>4, <2>2 DEF Launch
    <3>2. UNCHANGED <<failed, starts, kicked>> /\ server # NoServer
      BY <1>4, <2>2 DEF Launch
    <3>3. /\ server'.pid = server.pid /\ server'.phase = "launched"
          /\ server'.args = LaunchArguments(settings)
          /\ server'.env = LaunchEnvironment(settings, secrets, shell)
          /\ server'.from = Shown(settings, secrets)
      BY <3>1
    <3>4. Faithful(server'.args, server'.env, server'.from)
      BY <3>3, LaunchFaithful
    <3>5. ServerInv' /\ Fresh'
      BY <1>0, <3>3, <3>4 DEF ServerInv, Fresh
    <3>6. ManagerInv'
      BY <1>0, <3>2, <3>3 DEF ManagerInv, platform
    <3> QED
      BY <3>2, <3>3, <3>5, <3>6 DEF ManagerInv, Stopped
  <2> QED
    BY <2>1, <2>2
<1>5. CASE Configure /\ ~Exit
  <2>1. /\ server # NoServer /\ server.phase = "launched"
        /\ UNCHANGED <<failed, starts, kicked>>
    BY <1>5 DEF Configure
  <2>0. server' = [pid |-> server.pid, phase |-> "configured",
                   config |-> ServerConfig(server.args, server.env, settings),
                   from |-> server.from,
                   calm |-> Shown(settings, secrets) = server.from]
    BY <1>5 DEF Configure
  <2>2. /\ server'.pid = server.pid /\ server'.phase = "configured"
        /\ server'.config = ServerConfig(server.args, server.env, settings)
        /\ server'.from = server.from
        /\ server'.calm = (Shown(settings, secrets) = server.from)
        /\ DOMAIN server' = {"pid", "phase", "config", "from", "calm"}
    BY <2>0
  <2>3. Shown(settings, secrets) = server.from => server'.config = server.from
    BY <2>1, <2>2, FaithfulResolves DEF ServerInv
  <2>4. ServerInv'
    BY <2>2, <2>3 DEF ServerInv
  <2>5. Fresh => Fresh'
    BY <1>0, <2>1, <2>2, <2>3 DEF Fresh
  <2>6. ManagerInv'
    BY <1>0, <2>1, <2>2 DEF ManagerInv, platform
  <2> QED
    BY <2>1, <2>2, <2>4, <2>5, <2>6 DEF ManagerInv, Stopped
<1>6. CASE Bind
  BY <1>0, <1>3, <1>6 DEF Bind, ManagerInv, ServerInv, Fresh, Stopped, platform
<1>7. CASE StartByHand
  BY <1>0, <1>7 DEF StartByHand, ManagerInv, ServerInv, Fresh, Stopped, platform, manager
<1> QED
  BY <1>1, <1>2, <1>3, <1>4, <1>5, <1>6, <1>7 DEF Manager, Crash, Configure

LEMMA ManagerKeeps ==
  ASSUME InstallInv, Manager
  PROVE  InstallInv'
<1>1. UNCHANGED <<settings, secrets, definition, machine, cli, loaded>>
  BY ManagerFrame
<1>2. /\ ServerInv' /\ ManagerInv'
      /\ starts' >= starts
      /\ server' # NoServer =>
           /\ (server # NoServer => Fresh) => Fresh'
           /\ \/ server # NoServer /\ server'.pid = server.pid
              \/ Fresh' /\ server'.pid > starts
      /\ Stopped => Stopped'
  BY ManagerServes DEF InstallInv
<1>3. starts \in Nat /\ starts' \in Nat /\ cli.pid \in 0..starts
  BY <1>2 DEF InstallInv, ManagerInv, FlagsInv
<1>4. SettingsInv' /\ CommandInv' /\ DoctorInv'
  BY <1>1 DEF InstallInv, SettingsInv, CommandInv, DoctorInv
<1>5. FlagsInv'
  BY <1>1, <1>2, <1>3 DEF InstallInv, FlagsInv
<1>6. PlanInv'
  BY <1>1, <1>2 DEF InstallInv, PlanInv
<1>7. server' # NoServer =>
        \/ server # NoServer /\ server'.pid = server.pid
        \/ Fresh' /\ server'.pid # cli.pid
  <2>1. server' # NoServer => server'.pid \in 1..starts'
    BY <1>2 DEF ManagerInv
  <2> QED
    BY <1>2, <1>3, <2>1
<1>8. RestartInv'
  BY <1>1, <1>2, <1>7 DEF InstallInv, RestartInv, platform
<1>9. StopInv'
  BY <1>1, <1>2 DEF InstallInv, StopInv, platform
<1> QED
  BY <1>2, <1>4, <1>5, <1>6, <1>8, <1>9 DEF InstallInv

-----------------------------------------------------------------------------
(* The commands that are given, and their interruption.                    *)

\* A command that has not begun has nothing to answer for.
LEMMA NewCommandKeeps ==
  ASSUME InstallInv, Sound(settings'), Sound(cli'.s),
         UNCHANGED <<loaded, server, kicked, failed, starts, machine, definition>>,
         DOMAIN cli' = DOMAIN Idle, TodoOf(cli'.cmd, cli'.todo), cli'.result = "none",
         cli'.cmd \notin {"set", "edit"} => cli'.todo[1] \in {"artifacts", "stop", "settings"} /\ cli'.todo # <<>>,
         cli'.pid = NoProcess, cli'.answer = NoAnswer, ~cli'.inactive, ~cli'.late
  PROVE  InstallInv'
<1>1. SettingsInv' /\ ServerInv' /\ ManagerInv' /\ CommandInv'
  BY DEF InstallInv, SettingsInv, ServerInv, ManagerInv, CommandInv, platform
<1>2. FlagsInv' /\ RestartInv'
  BY DEF InstallInv, ManagerInv, FlagsInv, RestartInv, NoProcess
<1>3. PlanInv'
  <2>1. cli'.cmd = "setup" => cli'.todo # <<>> /\ cli'.todo[1] \in {"artifacts", "stop", "settings"}
    OBVIOUS
  <2>2. cli'.cmd = "setup" =>
          cli'.todo \notin {<<"active", "health", "final">>, <<"health", "final">>, <<"final">>, <<>>}
    BY <2>1
  <2> QED
    BY <2>2 DEF PlanInv
<1>4. StopInv'
  <2>1. cli'.cmd = "stop" => cli'.todo = <<"stop", "inactive">>
    BY DEF TodoOf, StopTodos
  <2> QED
    BY <2>1 DEF StopInv
<1>5. DoctorInv'
  BY DEF DoctorInv
<1> QED
  BY <1>1, <1>2, <1>3, <1>4, <1>5 DEF InstallInv

\* The steps of a command, as a whole.
LEMMA StepsAhead ==
  ASSUME NEW cmd \in {"setup", "bootstrap", "install", "start", "restart", "stop", "use", "doctor"}
  PROVE  /\ TodoOf(cmd, Steps(cmd))
         /\ Steps(cmd) # <<>> /\ Steps(cmd)[1] \in {"artifacts", "stop", "settings"}
<1>1. CASE cmd = "setup"
  BY <1>1 DEF Steps, TodoOf, SetupTodos
<1>2. CASE cmd \in {"bootstrap", "install", "start", "restart"}
  BY <1>2 DEF Steps, TodoOf, FileTodos
<1>3. CASE cmd \in {"stop", "use", "doctor"}
  BY <1>3 DEF Steps, TodoOf, StopTodos, DoctorTodos
<1> QED
  BY <1>1, <1>2, <1>3

\* A command has the fields of Idle but for those that are given.
Begins(cmd, todo, s) ==
  /\ DOMAIN cli' = DOMAIN Idle
  /\ cli'.cmd = cmd /\ cli'.todo = todo /\ cli'.s = s /\ cli'.result = "none"
  /\ cli'.pid = NoProcess /\ cli'.answer = NoAnswer /\ cli'.inactive = FALSE /\ cli'.late = FALSE

LEMMA BeginsPlain ==
  ASSUME NEW cmd, NEW todo, NEW s, cli' = [Idle EXCEPT !.cmd = cmd, !.todo = todo, !.s = s]
  PROVE  Begins(cmd, todo, s)
BY DEF Idle, Begins

LEMMA BeginsSetup ==
  ASSUME NEW cmd, NEW todo, NEW s, NEW picked, NEW secret,
         cli' = [Idle EXCEPT !.cmd = cmd, !.todo = todo, !.s = s, !.picked = picked, !.secret = secret]
  PROVE  Begins(cmd, todo, s)
BY DEF Idle, Begins

LEMMA BeginsSet ==
  ASSUME NEW cmd, cli' = [Idle EXCEPT !.cmd = cmd]
  PROVE  Begins(cmd, <<>>, DefaultSettings)
BY DEF Idle, Begins

LEMMA BeginsKeeps ==
  ASSUME InstallInv, NEW cmd, NEW s, NEW todo, Begins(cmd, todo, s), Sound(settings'), Sound(s),
         UNCHANGED <<loaded, server, kicked, failed, starts, machine, definition>>,
         \/ cmd \in {"set", "edit"} /\ todo = <<>>
         \/ cmd \in {"setup", "bootstrap", "install", "start", "restart", "stop", "use", "doctor"}
            /\ todo = Steps(cmd)
  PROVE  InstallInv'
<1>1. TodoOf(cmd, todo)
  BY StepsAhead DEF TodoOf
<1>2. cmd \notin {"set", "edit"} => todo # <<>> /\ todo[1] \in {"artifacts", "stop", "settings"}
  BY StepsAhead
<1> HIDE DEF Idle
<1> QED
  BY <1>1, <1>2, NewCommandKeeps DEF Begins

LEMMA CommandedKeeps ==
  ASSUME InstallInv, Commanded
  PROVE  InstallInv'
<1>1. Sound(settings) /\ Sound(cli.s)
  BY DEF InstallInv, SettingsInv
<1>2. CASE GiveCommand
  <2>1. PICK cmd \in Commands \cap {"bootstrap", "install", "start", "restart", "stop", "doctor"} :
          Give([Idle EXCEPT !.cmd = cmd, !.todo = Steps(cmd), !.s = settings]) /\ UNCHANGED files
    BY <1>2 DEF GiveCommand
  <2>2. Begins(cmd, Steps(cmd), settings)
    BY <2>1, BeginsPlain DEF Give
  <2>3. UNCHANGED <<settings, loaded, server, kicked, failed, starts, machine, definition>>
    BY <2>1 DEF Give, files, manager
  <2> QED
    BY <1>1, <2>2, <2>3, BeginsKeeps
<1>3. CASE GiveSetup
  <2>1. PICK answers \in Sessions, shell \in Shells :
          LET s == PlanSettings(settings, CollectSetupPlan(settings, answers)) IN
          \E secret \in SecretChoices(ProviderOf(s), secrets, shell, Entries) :
            /\ Give([Idle EXCEPT !.cmd = "setup", !.todo = Steps("setup"), !.s = s,
                                 !.picked = answers.picked, !.secret = secret])
            /\ UNCHANGED files
    BY <1>3, Zenon DEF GiveSetup
  <2> DEFINE s == PlanSettings(settings, CollectSetupPlan(settings, answers))
  <2>2. PICK secret \in SecretChoices(ProviderOf(s), secrets, shell, Entries) :
            /\ Give([Idle EXCEPT !.cmd = "setup", !.todo = Steps("setup"), !.s = s,
                                 !.picked = answers.picked, !.secret = secret])
            /\ UNCHANGED files
    BY <2>1
  <2>3. Sound(s)
    BY <1>1, PlanSound
  <2>4. UNCHANGED <<settings, loaded, server, kicked, failed, starts, machine, definition>>
    BY <2>2 DEF Give, files, manager
  <2>5. Begins("setup", Steps("setup"), s)
    BY <2>2, BeginsSetup DEF Give
  <2> HIDE DEF s
  <2> QED
    BY <1>1, <2>3, <2>4, <2>5, BeginsKeeps
<1>4. CASE GiveUse
  <2>1. PICK namespace \in Namespaces :
          /\ Give([Idle EXCEPT !.cmd = "use", !.todo = Steps("use"),
                         !.s = SetConfig(settings, "active_namespace",
                                         [value |-> namespace, spelling |-> "exact"])])
          /\ UNCHANGED files
    BY <1>4 DEF GiveUse
  <2> DEFINE input == [value |-> namespace, spelling |-> "exact"]
             s == SetConfig(settings, "active_namespace", input)
  <2>3. Sound(s)
    BY <1>1, SetConfigSound
  <2>4. UNCHANGED <<settings, loaded, server, kicked, failed, starts, machine, definition>>
    BY <2>1 DEF Give, files, manager
  <2>5. Begins("use", Steps("use"), s)
    BY <2>1, BeginsPlain DEF Give
  <2> HIDE DEF s
  <2> QED
    BY <1>1, <2>3, <2>4, <2>5, BeginsKeeps
<1>5. CASE ConfigSet
  <2>1. PICK change \in Changes :
          /\ Give([Idle EXCEPT !.cmd = "set"])
          /\ settings' = SetConfig(settings, change[1], change[2])
    BY <1>5 DEF ConfigSet
  <2>2. Sound(settings')
    BY <1>1, <2>1, SetConfigSound
  <2>3. UNCHANGED <<loaded, server, kicked, failed, starts, machine, definition>>
    BY <1>5 DEF ConfigSet, Give, manager
  <2>4. Begins("set", <<>>, DefaultSettings)
    BY <2>1, BeginsSet DEF Give
  <2> QED
    BY <2>2, <2>3, <2>4, SoundDefault, BeginsKeeps
<1>7. CASE EditSettings
  <2>1. PICK edit \in Edits :
          /\ Give([Idle EXCEPT !.cmd = "edit"])
          /\ settings' = [settings EXCEPT ![edit[1]] = edit[2]]
    BY <1>7 DEF EditSettings
  <2>2. Sound(settings')
    BY <1>1, <2>1 DEF Sound
  <2>3. UNCHANGED <<loaded, server, kicked, failed, starts, machine, definition>>
    BY <1>7 DEF EditSettings, Give, manager
  <2>4. Begins("edit", <<>>, DefaultSettings)
    BY <2>1, BeginsSet DEF Give
  <2> QED
    BY <2>2, <2>3, <2>4, SoundDefault, BeginsKeeps
<1>6. CASE Interrupt
  <2>1. DOMAIN cli' = DOMAIN Idle /\ FileFields /\ Ends
    BY <1>6, FailFields DEF Interrupt, InstallInv
  <2>2. UNCHANGED <<settings, loaded, server, kicked, failed, starts, machine, definition>>
    BY <1>6 DEF Interrupt, files, manager
  <2>3. SettingsInv' /\ ServerInv' /\ ManagerInv' /\ CommandInv'
    BY <2>1, <2>2 DEF InstallInv, SettingsInv, ServerInv, ManagerInv, CommandInv, TodoOf,
       FileFields, Ends, platform
  <2>4. FlagsInv' /\ PlanInv' /\ RestartInv' /\ StopInv' /\ DoctorInv'
    BY <2>1, <2>2 DEF InstallInv, FlagsInv, PlanInv, RestartInv, StopInv, DoctorInv, FileFields, Ends
  <2> QED
    BY <2>3, <2>4 DEF InstallInv
<1> QED
  BY <1>2, <1>3, <1>4, <1>5, <1>6, <1>7 DEF Commanded

-----------------------------------------------------------------------------
(* The steps that talk to the service manager.                             *)

\* The command keeps its fields but for those named here.
Same(active, pid, inactive, late, answer, issues) ==
  /\ DOMAIN cli' = DOMAIN Idle /\ cli'.cmd = cli.cmd /\ cli'.s = cli.s
  /\ cli'.active = active /\ cli'.pid = pid /\ cli'.inactive = inactive
  /\ cli'.late = late /\ cli'.answer = answer /\ cli'.issues = issues

LEMMA FollowPlain ==
  ASSUME CommandInv, NEW steps, Follow(cli, steps)
  PROVE  /\ Same(cli.active, cli.pid, cli.inactive, cli.late, cli.answer, cli.issues)
         /\ GoesTo(steps)
BY FollowFields DEF CommandInv, Same, GoesTo

LEMMA FollowActive ==
  ASSUME CommandInv, NEW x, NEW p, NEW steps, Follow([cli EXCEPT !.active = x, !.pid = p], steps)
  PROVE  Same(x, p, cli.inactive, cli.late, cli.answer, cli.issues) /\ GoesTo(steps)
<1> DEFINE c == [cli EXCEPT !.active = x, !.pid = p]
<1>1. /\ DOMAIN c = DOMAIN Idle /\ c.cmd = cli.cmd /\ c.s = cli.s /\ c.result = cli.result
      /\ c.active = x /\ c.pid = p /\ c.inactive = cli.inactive /\ c.late = cli.late
      /\ c.answer = cli.answer /\ c.issues = cli.issues
  BY DEF CommandInv, Idle
<1> HIDE DEF c
<1> QED
  BY <1>1, FollowFields, ZenonT(30) DEF Same, GoesTo, c

LEMMA FollowSeen ==
  ASSUME CommandInv, NEW x, NEW steps, Follow([cli EXCEPT !.active = x], steps)
  PROVE  Same(x, cli.pid, cli.inactive, cli.late, cli.answer, cli.issues) /\ GoesTo(steps)
<1> DEFINE c == [cli EXCEPT !.active = x]
<1>1. /\ DOMAIN c = DOMAIN Idle /\ c.cmd = cli.cmd /\ c.s = cli.s /\ c.result = cli.result
      /\ c.active = x /\ c.pid = cli.pid /\ c.inactive = cli.inactive /\ c.late = cli.late
      /\ c.answer = cli.answer /\ c.issues = cli.issues
  BY DEF CommandInv, Idle
<1> HIDE DEF c
<1> QED
  BY <1>1, FollowFields, ZenonT(30) DEF Same, GoesTo, c

LEMMA FollowAnswer ==
  ASSUME CommandInv, NEW x, NEW steps, Follow([cli EXCEPT !.answer = x], steps)
  PROVE  Same(cli.active, cli.pid, cli.inactive, cli.late, x, cli.issues) /\ GoesTo(steps)
<1> DEFINE c == [cli EXCEPT !.answer = x]
<1>1. /\ DOMAIN c = DOMAIN Idle /\ c.cmd = cli.cmd /\ c.s = cli.s /\ c.result = cli.result
      /\ c.active = cli.active /\ c.pid = cli.pid /\ c.inactive = cli.inactive /\ c.late = cli.late
      /\ c.answer = x /\ c.issues = cli.issues
  BY DEF CommandInv, Idle
<1> HIDE DEF c
<1> QED
  BY <1>1, FollowFields, ZenonT(30) DEF Same, GoesTo, c

LEMMA FollowLate ==
  ASSUME CommandInv, NEW x, NEW steps, Follow([cli EXCEPT !.late = x], steps)
  PROVE  Same(cli.active, cli.pid, cli.inactive, x, cli.answer, cli.issues) /\ GoesTo(steps)
<1> DEFINE c == [cli EXCEPT !.late = x]
<1>1. /\ DOMAIN c = DOMAIN Idle /\ c.cmd = cli.cmd /\ c.s = cli.s /\ c.result = cli.result
      /\ c.active = cli.active /\ c.pid = cli.pid /\ c.inactive = cli.inactive /\ c.late = x
      /\ c.answer = cli.answer /\ c.issues = cli.issues
  BY DEF CommandInv, Idle
<1> HIDE DEF c
<1> QED
  BY <1>1, FollowFields, ZenonT(30) DEF Same, GoesTo, c

LEMMA FollowIssues ==
  ASSUME CommandInv, NEW x, NEW steps, Follow([cli EXCEPT !.issues = x], steps)
  PROVE  Same(cli.active, cli.pid, cli.inactive, cli.late, cli.answer, x) /\ GoesTo(steps)
<1> DEFINE c == [cli EXCEPT !.issues = x]
<1>1. /\ DOMAIN c = DOMAIN Idle /\ c.cmd = cli.cmd /\ c.s = cli.s /\ c.result = cli.result
      /\ c.active = cli.active /\ c.pid = cli.pid /\ c.inactive = cli.inactive /\ c.late = cli.late
      /\ c.answer = cli.answer /\ c.issues = x
  BY DEF CommandInv, Idle
<1> HIDE DEF c
<1> QED
  BY <1>1, FollowFields, ZenonT(30) DEF Same, GoesTo, c

LEMMA Polls ==
  ASSUME CommandInv, NEW inactive,
         cli' = [cli EXCEPT !.inactive = inactive, !.again = TRUE]
  PROVE  Same(cli.active, cli.pid, inactive, cli.late, cli.answer, cli.issues) /\ Stays
BY DEF CommandInv, Idle, Same, Stays

\* Where a command is, told by its next step.
LEMMA WhereItIs ==
  ASSUME NEW cmd, NEW todo, TodoOf(cmd, todo), todo # <<>>
  PROVE  /\ todo[1] = "start" =>
              \/ cmd = "setup" /\ todo = <<"start", "active", "health", "final">>
              \/ cmd \in {"start", "restart", "use"} /\ todo = <<"start", "active", "health">>
              \/ cmd = "doctor" /\ todo = <<"start", "active", "health", "report">>
         /\ todo[1] = "active" =>
              \/ cmd = "setup" /\ todo = <<"active", "health", "final">>
              \/ cmd \in {"start", "restart", "use"} /\ todo = <<"active", "health">>
              \/ cmd = "doctor" /\ todo = <<"active", "health", "report">>
         /\ todo[1] = "health" =>
              \/ cmd = "setup" /\ todo = <<"health", "final">>
              \/ cmd \in {"start", "restart", "use"} /\ todo = <<"health">>
              \/ cmd = "doctor" /\ todo = <<"health", "report">>
         /\ todo[1] = "final" => cmd = "setup" /\ todo = <<"final">>
         /\ todo[1] = "restart" => cmd \in {"restart", "use"} /\ todo = <<"restart", "changed", "health">>
         /\ todo[1] = "changed" => cmd \in {"restart", "use"} /\ todo = <<"changed", "health">>
         /\ todo[1] = "stop" => cmd = "stop" /\ todo = <<"stop", "inactive">>
         /\ todo[1] = "inactive" => cmd = "stop" /\ todo = <<"inactive">>
         /\ todo[1] = "apply" => cmd = "use" /\ todo = <<"apply">>
         /\ todo[1] = "revive" => cmd = "doctor" /\ todo = <<"revive", "report">>
         /\ todo[1] = "report" => cmd = "doctor" /\ todo = <<"report">>
<1>1. CASE cmd = "setup" BY <1>1 DEF TodoOf, SetupTodos
<1>2. CASE cmd \in {"bootstrap", "install", "stop"} BY <1>2 DEF TodoOf, FileTodos, StopTodos
<1>3. CASE cmd \in {"start", "restart", "use"}
  BY <1>3 DEF TodoOf, StartTodos, RestartTodos
<1>4. CASE cmd = "doctor" BY <1>4 DEF TodoOf, DoctorTodos
<1> QED
  BY <1>1, <1>2, <1>3, <1>4 DEF TodoOf

LEMMA ServiceFrame ==
  ASSUME ServiceStep
  PROVE  UNCHANGED <<settings, secrets, machine>>
BY DEF ServiceStep, StartService, AwaitActive, AwaitHealth, AwaitFinalHealth, RestartService,
   AwaitRestart, StopService, AwaitInactive, Apply, Revive, Report, OnlyCommand, OnlyFiles,
   NotManager, files

\* Before its polls and its answer a command has seen nothing.
LEMMA UnseenYet ==
  ASSUME FlagsInv, cli.todo # <<>>
  PROVE  /\ cli.todo[1] \notin {"final", "report"} => cli.answer = NoAnswer
         /\ cli.todo[1] \notin {"changed", "health"} => cli.pid = NoProcess /\ ~cli.inactive /\ ~cli.late
<1>1. ASSUME NEW todo, todo # <<>>
      PROVE  /\ todo[1] \notin {"final", "report"} => todo \notin {<<>>, <<"final">>, <<"report">>}
             /\ todo[1] \notin {"changed", "health"} =>
                  todo \notin {<<"changed", "health">>, <<"health">>, <<>>}
  BY <1>1
<1> QED
  BY <1>1, Zenon DEF FlagsInv

LEMMA StartKeeps ==
  ASSUME InstallInv, StartService
  PROVE  InstallInv'
<1> DEFINE todo == cli.todo
<1>1. CommandInv /\ ManagerInv /\ FlagsInv
  BY DEF InstallInv
<1>2. todo # <<>> /\ todo[1] = "start" /\ TodoOf(cli.cmd, todo) /\ cli.result = "none"
  BY <1>1 DEF StartService, Doing, Finished, CommandInv
<1>3. Same(Active, cli.pid, cli.inactive, cli.late, cli.answer, cli.issues) /\ GoesTo(Behind(todo))
  <2>1. Follow([cli EXCEPT !.active = Active], Behind([cli EXCEPT !.active = Active].todo))
    BY DEF StartService, Proceed, Behind
  <2>2. [cli EXCEPT !.active = Active].todo = todo
    BY <1>1 DEF CommandInv, Idle
  <2> QED
    BY <1>1, <2>1, <2>2, FollowSeen
<1>4. \/ cli.cmd = "setup" /\ Behind(todo) = <<"active", "health", "final">>
      \/ cli.cmd \in {"start", "restart", "use"} /\ Behind(todo) = <<"active", "health">>
      \/ cli.cmd = "doctor" /\ Behind(todo) = <<"active", "health", "report">>
  <2>1. \/ cli.cmd = "setup" /\ todo = <<"start", "active", "health", "final">>
        \/ cli.cmd \in {"start", "restart", "use"} /\ todo = <<"start", "active", "health">>
        \/ cli.cmd = "doctor" /\ todo = <<"start", "active", "health", "report">>
    BY <1>2, WhereItIs
  <2> QED
    BY <2>1, Tails, Zenon
<1>5. Behind(todo) # <<>> /\ cli'.result = "none" /\ cli'.todo = Behind(todo)
  <2>1. Behind(todo) # <<>>
    BY <1>4
  <2> QED
    BY <1>2, <1>3, <2>1, Zenon DEF GoesTo
<1>6. cli.answer = NoAnswer /\ cli.pid = NoProcess /\ ~cli.inactive /\ ~cli.late
  BY <1>1, <1>2, UnseenYet
<1>7. UNCHANGED <<settings, secrets, machine>>
  BY ServiceFrame DEF ServiceStep
<1>8. definition' \in {"manual", "auto"}
  BY <1>1 DEF StartService, Chosen, ManagerInv
<1>9. /\ ManagerInv'
      /\ starts' >= starts /\ starts' \in Nat
      /\ server' = server \/ server'.phase = "spawned"
      /\ ~Active => server' = NoServer \/ server'.phase = "spawned"
  <2>1. CASE platform = "systemd"
    BY <1>1, <1>7, <1>8, <2>1 DEF StartService, Spawn, Process, ManagerInv, platform, Active
  <2>2. CASE platform = "launchd"
    <3>1. /\ kicked' = TRUE
          /\ loaded' = IF loaded = "none" THEN definition' ELSE loaded
          /\ \/ loaded = "none" /\ Spawn
             \/ UNCHANGED <<server, failed, starts>>
      BY <2>2 DEF StartService
    <3> QED
      BY <1>1, <1>7, <1>8, <2>2, <3>1 DEF Spawn, Process, ManagerInv, platform, Active
  <2> QED
    BY <1>1, <2>1, <2>2 DEF ManagerInv
<1>10. SettingsInv' /\ ServerInv'
  BY <1>3, <1>7, <1>9 DEF InstallInv, SettingsInv, ServerInv, Same
<1>11. CommandInv'
  BY <1>2, <1>3, <1>5, TodoTail DEF CommandInv, Same
<1>12. FlagsInv'
  BY <1>1, <1>3, <1>6, <1>9 DEF FlagsInv, Same, NoProcess, ManagerInv
<1>13. PlanInv'
  <2>1. ~ByService(cli'.answer) /\ cli'.active = Active
    BY <1>3, <1>6 DEF Same, ByService
  <2>2. ~Active => server' = NoServer \/ Fresh'
    BY <1>9 DEF Fresh
  <2> QED
    BY <2>1, <2>2 DEF PlanInv
<1>14. RestartInv' /\ DoctorInv'
  BY <1>3, <1>5, <1>6 DEF RestartInv, DoctorInv, Same
<1>15. StopInv'
  BY <1>3, <1>4 DEF StopInv, Same
<1> QED
  BY <1>9, <1>10, <1>11, <1>12, <1>13, <1>14, <1>15 DEF InstallInv

\* The steps that only look.
LEMMA LookKeeps ==
  ASSUME InstallInv, OnlyCommand, Sound(cli'.s), CommandInv', FlagsInv', PlanInv', RestartInv',
         StopInv', DoctorInv'
  PROVE  InstallInv'
BY DEF InstallInv, OnlyCommand, OnlyFiles, files, manager, SettingsInv, ServerInv, ManagerInv, platform

LEMMA AwaitActiveKeeps ==
  ASSUME InstallInv, AwaitActive
  PROVE  InstallInv'
<1> DEFINE todo == cli.todo
<1>1. CommandInv /\ FlagsInv /\ OnlyCommand
  BY DEF InstallInv, AwaitActive
<1>2. todo # <<>> /\ todo[1] = "active" /\ TodoOf(cli.cmd, todo) /\ cli.result = "none"
  BY <1>1 DEF AwaitActive, Doing, Finished, CommandInv
<1>3. /\ Same(cli.active, cli.pid, cli.inactive, cli.late, cli.answer, cli.issues)
      /\ GoesTo(Behind(todo)) \/ GoesTo(Behind(Behind(todo)))
  BY <1>1, FollowPlain DEF AwaitActive, Proceed, SkipHealth, Behind
<1>4. cli.answer = NoAnswer /\ cli.pid = NoProcess /\ ~cli.inactive /\ ~cli.late
  BY <1>1, <1>2, UnseenYet
<1>5. \/ cli.cmd = "setup" /\ todo = <<"active", "health", "final">>
      \/ cli.cmd \in {"start", "restart", "use"} /\ todo = <<"active", "health">>
      \/ cli.cmd = "doctor" /\ todo = <<"active", "health", "report">>
  BY <1>2, WhereItIs
<1>6. cli.cmd = "doctor" => Behind(todo) = <<"health", "report">> /\ Behind(Behind(todo)) = <<"report">>
  BY <1>5, Tails, Zenon
<1>7. CommandInv'
  BY <1>2, <1>3, TodoTail DEF CommandInv, Same, GoesTo
<1>8. FlagsInv'
  BY <1>1, <1>3, <1>4 DEF FlagsInv, Same, OnlyCommand, OnlyFiles, manager
<1>9. UNCHANGED <<settings, secrets, server, machine>>
  BY <1>1 DEF OnlyCommand, OnlyFiles, files, manager
<1>10. cli.cmd = "setup" => todo = <<"active", "health", "final">>
  BY <1>5
<1>11. PlanInv'
  BY <1>2, <1>3, <1>9, <1>10 DEF InstallInv, PlanInv, Same, Fresh
<1>12. RestartInv'
  BY <1>3, <1>4 DEF RestartInv, Same
<1>13. StopInv'
  BY <1>3, <1>5 DEF StopInv, Same
<1>14. DoctorInv'
  <2>1. cli.cmd = "doctor" => Behind(todo) # <<>> /\ Behind(Behind(todo)) # <<>>
    BY <1>6
  <2> QED
    BY <1>3, <2>1 DEF DoctorInv, Same, GoesTo
<1> QED
  BY <1>1, <1>3, <1>7, <1>8, <1>11, <1>12, <1>13, <1>14, LookKeeps DEF Same, InstallInv, SettingsInv

\* Whoever answers for the service has been given what its process has.
LEMMA Answering ==
  ASSUME NEW port, NEW answer \in Answers(port), ByService(answer)
  PROVE  /\ server # NoServer /\ server.phase = "up"
         /\ answer.pid = server.pid /\ answer.config = server.config
BY DEF Answers, ByService

LEMMA HealthKeeps ==
  ASSUME InstallInv, AwaitHealth \/ AwaitFinalHealth
  PROVE  InstallInv'
<1> DEFINE todo == cli.todo
<1>1. CommandInv /\ FlagsInv /\ OnlyCommand
  BY DEF InstallInv, AwaitHealth, AwaitFinalHealth
<1>2. /\ todo # <<>> /\ todo[1] \in {"health", "final"}
      /\ TodoOf(cli.cmd, todo) /\ cli.result = "none"
  BY <1>1 DEF AwaitHealth, AwaitFinalHealth, Doing, Finished, CommandInv
<1>3. \/ Fail
      \/ \E answer : /\ answer = NoAnswer \/ answer \in Answers(PlannedPort)
                     /\ Proceed([cli EXCEPT !.answer = answer])
  BY DEF AwaitHealth, AwaitFinalHealth
<1>4. CASE Fail
  <2>1. DOMAIN cli' = DOMAIN Idle /\ FileFields /\ Ends
    BY <1>1, <1>4, FailFields
  <2>2. CommandInv' /\ FlagsInv'
    BY <1>1, <2>1 DEF CommandInv, FlagsInv, TodoOf, FileFields, Ends, OnlyCommand, OnlyFiles, manager
  <2>3. PlanInv' /\ RestartInv' /\ StopInv' /\ DoctorInv'
    BY <2>1 DEF PlanInv, RestartInv, StopInv, DoctorInv, FileFields, Ends
  <2> QED
    BY <1>1, <2>1, <2>2, <2>3, LookKeeps DEF FileFields, InstallInv, SettingsInv
<1>5. ASSUME NEW answer, answer = NoAnswer \/ answer \in Answers(PlannedPort),
             Proceed([cli EXCEPT !.answer = answer])
      PROVE  InstallInv'
  <2>1. /\ Same(cli.active, cli.pid, cli.inactive, cli.late, answer, cli.issues)
        /\ GoesTo(Behind(todo))
    <3>1. [cli EXCEPT !.answer = answer].todo = todo
      BY <1>1 DEF CommandInv, Idle
    <3> QED
      BY <1>1, <1>5, <3>1, FollowAnswer DEF Proceed, Behind
  <2>2. \/ cli.cmd = "setup" /\ todo \in {<<"health", "final">>, <<"final">>}
        \/ cli.cmd \in {"start", "restart", "use"} /\ todo = <<"health">>
        \/ cli.cmd = "doctor" /\ todo = <<"health", "report">>
    BY <1>2, WhereItIs
  <2>3. \/ cli.cmd = "setup" /\ Behind(todo) \in {<<"final">>, <<>>}
        \/ cli.cmd \in {"start", "restart", "use"} /\ Behind(todo) = <<>>
        \/ cli.cmd = "doctor" /\ Behind(todo) = <<"report">>
    BY <2>2, Tails, Zenon
  <2>4. UNCHANGED <<settings, secrets, server, machine, loaded, starts>>
    BY <1>1 DEF OnlyCommand, OnlyFiles, files, manager
  <2>5. CommandInv'
    BY <1>2, <2>1, TodoTail DEF CommandInv, Same, GoesTo
  <2>6. FlagsInv'
    <3>1. cli'.todo \in {<<"final">>, <<"report">>, <<>>}
      BY <2>1, <2>3 DEF GoesTo
    <3>2. cli'.todo # <<>> => cli.pid = NoProcess /\ ~cli.inactive /\ ~cli.late
      <4>1. cli'.todo # <<>> => todo \in {<<"health", "final">>, <<"health", "report">>}
        BY <2>1, <2>2, Tails, Zenon DEF GoesTo
      <4>2. \A t \in {<<"health", "final">>, <<"health", "report">>} :
              t \notin {<<"changed", "health">>, <<"health">>, <<>>}
        OBVIOUS
      <4> QED
        BY <1>1, <4>1, <4>2, Zenon DEF FlagsInv
    <3> QED
      BY <1>1, <2>1, <2>4, <3>1, <3>2 DEF FlagsInv, Same
  <2>7. ByService(answer) => /\ server # NoServer /\ answer.pid = server.pid
                             /\ Fresh => answer.config = Shown(settings, secrets)
    BY <1>5, Answering DEF ByService, Fresh
  <2>8. PlanInv'
    <3>1. cli.cmd = "setup" => todo \in {<<"health", "final">>, <<"final">>}
      BY <2>2
    <3> QED
      BY <1>2, <2>1, <2>4, <2>7, <3>1 DEF InstallInv, PlanInv, Same, Fresh
  <2>9. RestartInv'
    <3>1. cli.cmd \in {"restart", "use"} => todo = <<"health">> /\ cli'.todo = <<>>
      BY <2>1, <2>2, <2>3 DEF GoesTo
    <3>2. <<"health">> # <<"changed", "health">> /\ <<>> # <<"changed", "health">>
      OBVIOUS
    <3> QED
      BY <1>2, <2>1, <2>4, <2>7, <3>1, <3>2 DEF InstallInv, RestartInv, Same, Fresh, platform
  <2>10. StopInv' /\ DoctorInv'
    <3>1. cli.cmd = "doctor" => Behind(todo) # <<>>
      BY <2>3
    <3>2. cli.cmd # "stop"
      BY <2>2
    <3> QED
      BY <2>1, <3>1, <3>2 DEF StopInv, DoctorInv, Same, GoesTo
  <2> QED
    BY <1>1, <2>1, <2>5, <2>6, <2>8, <2>9, <2>10, LookKeeps DEF Same, InstallInv, SettingsInv
<1> QED
  BY <1>3, <1>4, <1>5

\* The old process is known by its pid, and every process after it is given
\* what is saved now.
LEMMA RestartKeeps ==
  ASSUME InstallInv, RestartService
  PROVE  InstallInv'
<1> DEFINE todo == cli.todo
<1>1. CommandInv /\ FlagsInv /\ ManagerInv
  BY DEF InstallInv
<1>2. todo # <<>> /\ todo[1] = "restart" /\ TodoOf(cli.cmd, todo) /\ cli.result = "none"
  BY <1>1 DEF RestartService, Doing, Finished, CommandInv
<1>3. cli.answer = NoAnswer /\ cli.pid = NoProcess /\ ~cli.inactive /\ ~cli.late
  BY <1>1, <1>2, UnseenYet
<1>4. cli.cmd \in {"restart", "use"} /\ todo = <<"restart", "changed", "health">>
  BY <1>2, WhereItIs
<1>5. Behind(todo) = <<"changed", "health">>
  BY <1>4, Tails, Zenon
<1>6. UNCHANGED <<settings, secrets, machine, definition, loaded>>
  BY ServiceFrame DEF ServiceStep, RestartService
<1>7. CASE Active /\ (platform = "systemd" => definition # "none")
  <2>1. PICK pid \in SeenPids : Proceed([cli EXCEPT !.active = TRUE, !.pid = pid])
    BY <1>7 DEF RestartService
  <2>2. Same(TRUE, pid, cli.inactive, cli.late, cli.answer, cli.issues) /\ GoesTo(Behind(todo))
    <3>1. [cli EXCEPT !.active = TRUE, !.pid = pid].todo = todo
      BY <1>1 DEF CommandInv, Idle
    <3> QED
      BY <1>1, <2>1, <3>1, FollowActive DEF Proceed, Behind
  <2>3. cli'.todo = <<"changed", "health">> /\ cli'.result = "none"
    <3>1. <<"changed", "health">> # <<>>
      OBVIOUS
    <3> QED
      BY <1>2, <1>5, <2>2, <3>1, Zenon DEF GoesTo
  <2>4. pid \in 0..starts /\ (pid # NoProcess => server # NoServer /\ pid = server.pid)
    BY <1>1 DEF SeenPids, Pid, ManagerInv, NoProcess
  <2>5. /\ ManagerInv' /\ starts' >= starts /\ starts' \in Nat
        /\ server' = server \/ server'.phase = "spawned"
        /\ platform = "launchd" => loaded # "none" /\ server' = server
        /\ platform = "systemd" => server'.pid = starts + 1 /\ server'.phase = "spawned"
    <3>1. CASE platform = "systemd"
      <4>1. Spawn /\ UNCHANGED kicked
        BY <1>7, <3>1 DEF RestartService
      <4> QED
        BY <1>1, <1>6, <3>1, <4>1 DEF Spawn, Process, ManagerInv, platform
    <3>2. CASE platform = "launchd"
      <4>1. kicked' = TRUE /\ UNCHANGED <<server, failed, starts>>
        BY <1>7, <3>2 DEF RestartService
      <4>2. loaded # "none"
        BY <1>7, <3>2 DEF Active
      <4> QED
        BY <1>1, <1>6, <3>2, <4>1, <4>2 DEF ManagerInv, platform
    <3> QED
      BY <1>1, <3>1, <3>2 DEF ManagerInv
  <2>6. SettingsInv' /\ ServerInv'
    BY <1>6, <2>2, <2>5 DEF InstallInv, SettingsInv, ServerInv, Same
  <2>7. CommandInv'
    <3>1. TodoOf(cli.cmd, Behind(todo))
      BY <1>2, TodoTail
    <3> QED
      BY <2>2, <2>3, <3>1 DEF CommandInv, Same, GoesTo
  <2>8. FlagsInv'
    <3>1. pid \in 0..starts'
      BY <1>1, <2>4, <2>5 DEF ManagerInv
    <3> QED
      BY <1>3, <2>2, <2>3, <3>1 DEF FlagsInv, Same
  <2>9. PlanInv' /\ StopInv' /\ DoctorInv'
    BY <1>4, <2>2, <2>3 DEF PlanInv, StopInv, DoctorInv, Same
  <2>10. RestartInv'
    <3>1. server' # NoServer /\ server'.pid # pid /\ pid # NoProcess => Fresh'
      BY <2>4, <2>5 DEF Fresh
    <3>2. platform = "systemd" => server'.pid # pid
      BY <1>1, <2>4, <2>5 DEF ManagerInv
    <3> QED
      BY <1>1, <1>3, <1>6, <2>2, <2>3, <2>5, <3>1, <3>2 DEF RestartInv, Same, platform, ManagerInv
  <2> QED
    BY <2>5, <2>6, <2>7, <2>8, <2>9, <2>10 DEF InstallInv
<1>8. CASE ~(Active /\ (platform = "systemd" => definition # "none"))
  <2>1. Follow(cli, StartSteps) /\ UNCHANGED <<server, failed, kicked, starts>>
    BY <1>8 DEF RestartService
  <2>2. /\ Same(cli.active, cli.pid, cli.inactive, cli.late, cli.answer, cli.issues)
        /\ GoesTo(StartSteps)
    BY <1>1, <2>1, FollowPlain
  <2>3. cli'.todo # <<>> /\ cli'.result = "none" /\ TodoOf(cli.cmd, cli'.todo)
    <3>1. StartSteps # <<>> /\ StartSteps \in StartTodos
      BY DEF StartSteps, StartTodos
    <3>2. TodoOf(cli.cmd, StartSteps)
      BY <1>4, <3>1, Zenon DEF TodoOf
    <3> QED
      BY <1>2, <2>2, <3>1, <3>2, Zenon DEF GoesTo
  <2>4. SettingsInv' /\ ServerInv' /\ ManagerInv' /\ CommandInv'
    BY <1>1, <1>6, <2>1, <2>2, <2>3 DEF InstallInv, SettingsInv, ServerInv, ManagerInv, CommandInv,
       Same, platform
  <2>5. FlagsInv' /\ RestartInv'
    BY <1>1, <1>3, <2>1, <2>2 DEF FlagsInv, RestartInv, Same
  <2>6. PlanInv' /\ StopInv' /\ DoctorInv'
    BY <1>4, <2>2, <2>3 DEF PlanInv, StopInv, DoctorInv, Same
  <2> QED
    BY <2>4, <2>5, <2>6 DEF InstallInv
<1> QED
  BY <1>7, <1>8

\* A poll that sees the known pid replaced, or nothing, sees the new process.
LEMMA AwaitRestartKeeps ==
  ASSUME InstallInv, AwaitRestart
  PROVE  InstallInv'
<1> DEFINE todo == cli.todo
<1>1. CommandInv /\ FlagsInv /\ ManagerInv /\ OnlyCommand
  BY DEF InstallInv, AwaitRestart
<1>2. todo # <<>> /\ todo[1] = "changed" /\ TodoOf(cli.cmd, todo) /\ cli.result = "none"
  BY <1>1 DEF AwaitRestart, Doing, Finished, CommandInv
<1>3. cli.cmd \in {"restart", "use"} /\ todo = <<"changed", "health">>
  BY <1>2, WhereItIs
<1>4. Behind(todo) = <<"health">> /\ Behind(Behind(todo)) = <<>>
  BY <1>3, Tails, Zenon
<1>5. todo \notin {<<>>, <<"final">>, <<"report">>}
  BY <1>3
<1>6. cli.answer = NoAnswer
  BY <1>1, <1>5 DEF FlagsInv
<1>7. UNCHANGED <<settings, secrets, server, machine, loaded, starts>>
  BY <1>1 DEF OnlyCommand, OnlyFiles, files, manager
<1>8. \/ /\ \E pid \in SeenPids : RestartSeen(cli, pid)
         /\ Same(cli.active, cli.pid, cli.inactive, cli.late, cli.answer, cli.issues)
         /\ GoesTo(Behind(todo))
      \/ Same(cli.active, cli.pid, cli.inactive, cli.late, cli.answer, cli.issues) /\ Stays
      \/ ~Active /\ Same(cli.active, cli.pid, TRUE, cli.late, cli.answer, cli.issues) /\ Stays
      \/ /\ Same(cli.active, cli.pid, cli.inactive, TRUE, cli.answer, cli.issues)
         /\ GoesTo(Behind(todo)) \/ GoesTo(Behind(Behind(todo)))
  <2>1. CASE \E pid \in SeenPids : RestartSeen(cli, pid) /\ Proceed(cli)
    BY <1>1, <2>1, FollowPlain DEF Proceed, Behind
  <2>2. CASE cli' = [cli EXCEPT !.again = TRUE]
    BY <1>1, <2>2 DEF CommandInv, Idle, Same, Stays
  <2>3. CASE ~Active /\ cli' = [cli EXCEPT !.inactive = TRUE, !.again = TRUE]
    BY <1>1, <2>3, Polls
  <2>4. CASE LET late == [cli EXCEPT !.late = TRUE] IN Proceed(late) \/ SkipHealth(late)
    <3>1. [cli EXCEPT !.late = TRUE].todo = todo
      BY <1>1 DEF CommandInv, Idle
    <3> QED
      BY <1>1, <2>4, <3>1, FollowLate DEF Proceed, SkipHealth, Behind
  <2>5. \/ \E pid \in SeenPids : RestartSeen(cli, pid) /\ Proceed(cli)
        \/ cli' = [cli EXCEPT !.again = TRUE]
        \/ ~Active /\ cli' = [cli EXCEPT !.inactive = TRUE, !.again = TRUE]
        \/ LET late == [cli EXCEPT !.late = TRUE] IN Proceed(late) \/ SkipHealth(late)
    BY DEF AwaitRestart
  <2> QED
    BY <2>1, <2>2, <2>3, <2>4, <2>5
<1>9. /\ DOMAIN cli' = DOMAIN Idle /\ cli'.cmd = cli.cmd /\ cli'.s = cli.s
      /\ cli'.pid = cli.pid /\ cli'.answer = NoAnswer
      /\ cli'.inactive => cli.inactive \/ ~Active
      /\ \/ cli'.todo = todo /\ cli'.result = "none"
         \/ cli'.todo = <<"health">> /\ cli'.result = "none"
         \/ cli'.todo = <<>> /\ cli'.late
  <2>1. <<"health">> # <<>>
    OBVIOUS
  <2> QED
    BY <1>2, <1>4, <1>6, <1>8, <2>1, Zenon DEF Same, Stays, GoesTo
<1>10. TodoOf(cli.cmd, <<"health">>) /\ TodoOf(cli.cmd, <<>>)
  BY <1>2, <1>4, TodoTail, ZenonT(30) DEF TodoOf
<1>11. CommandInv'
  BY <1>2, <1>9, <1>10 DEF CommandInv
<1>12. FlagsInv'
  BY <1>1, <1>3, <1>7, <1>9 DEF FlagsInv
<1>13. PlanInv' /\ StopInv' /\ DoctorInv'
  BY <1>3, <1>9 DEF PlanInv, StopInv, DoctorInv
<1>14. RestartInv'
  <2> SUFFICES ASSUME cli.pid # NoProcess PROVE RestartInv'
    BY <1>9 DEF RestartInv
  <2>1. /\ server # NoServer /\ server.pid # cli.pid => Fresh
        /\ platform = "systemd" => server = NoServer \/ server.pid # cli.pid
        /\ platform = "launchd" => loaded # "none" /\ ~cli.inactive
    BY <1>2, <1>3 DEF InstallInv, RestartInv
  <2>2. platform = "launchd" => ~cli'.inactive
    BY <1>9, <2>1 DEF Active
  <2>3. cli'.todo # <<"changed", "health">> /\ ~cli'.late => server = NoServer \/ server.pid # cli.pid
    <3>1. cli'.todo # <<"changed", "health">> /\ ~cli'.late =>
            \E pid \in SeenPids : RestartSeen(cli, pid)
      BY <1>3, <1>8 DEF Same, Stays
    <3>2. ASSUME NEW pid \in SeenPids, RestartSeen(cli, pid)
          PROVE  server = NoServer \/ server.pid # cli.pid
      <4>1. CASE platform = "systemd"
        BY <2>1, <4>1
      <4>2. CASE platform = "launchd"
        BY <2>1, <3>2, <4>2 DEF RestartSeen, SeenPids, Pid
      <4> QED
        BY <1>1, <4>1, <4>2 DEF ManagerInv
    <3> QED
      BY <3>1, <3>2
  <2>4. cli'.todo \in {<<"changed", "health">>, <<"health">>, <<>>} /\ ~ByService(cli'.answer)
    BY <1>3, <1>9 DEF ByService
  <2> QED
    BY <1>7, <1>9, <2>1, <2>2, <2>3, <2>4 DEF RestartInv, Fresh, platform
<1> QED
  BY <1>1, <1>9, <1>11, <1>12, <1>13, <1>14, LookKeeps DEF InstallInv, SettingsInv

\* A stop leaves no process, if the service was there to be stopped.
LEMMA StopKeeps ==
  ASSUME InstallInv, StopService
  PROVE  InstallInv'
<1> DEFINE todo == cli.todo
<1>1. CommandInv /\ FlagsInv /\ ManagerInv
  BY DEF InstallInv
<1>2. todo # <<>> /\ todo[1] = "stop" /\ TodoOf(cli.cmd, todo) /\ cli.result = "none"
  BY <1>1 DEF StopService, Doing, Finished, CommandInv
<1>3. cli.cmd = "stop" /\ todo = <<"stop", "inactive">>
  BY <1>2, WhereItIs
<1>4. Behind(todo) = <<"inactive">>
  BY <1>3, Tails, Zenon
<1>5. Same(Active, cli.pid, cli.inactive, cli.late, cli.answer, cli.issues) /\ GoesTo(Behind(todo))
  <2>1. Follow([cli EXCEPT !.active = Active], Behind([cli EXCEPT !.active = Active].todo))
    BY DEF StopService, Proceed, Behind
  <2>2. [cli EXCEPT !.active = Active].todo = todo
    BY <1>1 DEF CommandInv, Idle
  <2> QED
    BY <1>1, <2>1, <2>2, FollowSeen
<1>6. cli.answer = NoAnswer /\ cli.pid = NoProcess /\ ~cli.inactive /\ ~cli.late
  BY <1>1, <1>2, UnseenYet
<1>7. UNCHANGED <<settings, secrets, machine, definition, starts>>
  BY ServiceFrame DEF ServiceStep, StopService
<1>8. \/ StopsService /\ server' = NoServer /\ ~failed' /\ ~kicked' /\ loaded' = "none"
      \/ ~StopsService /\ UNCHANGED <<server, failed, kicked, loaded>>
  BY DEF StopService
<1>9. ManagerInv' /\ ServerInv'
  BY <1>1, <1>7, <1>8 DEF InstallInv, ManagerInv, ServerInv, platform
<1>10. cli'.todo = <<"inactive">> /\ cli'.result = "none"
  <2>1. <<"inactive">> # <<>>
    OBVIOUS
  <2> QED
    BY <1>2, <1>4, <1>5, <2>1, Zenon DEF GoesTo
<1>11. SettingsInv' /\ CommandInv'
  <2>1. TodoOf(cli.cmd, Behind(todo))
    BY <1>2, TodoTail
  <2> QED
    BY <1>4, <1>5, <1>7, <1>10, <2>1 DEF InstallInv, SettingsInv, CommandInv, Same
<1>12. FlagsInv' /\ PlanInv' /\ RestartInv' /\ DoctorInv'
  BY <1>1, <1>3, <1>5, <1>6, <1>7 DEF FlagsInv, PlanInv, RestartInv, DoctorInv, Same
<1>13. StopInv'
  <2>1. StopsService => Stopped'
    BY <1>7, <1>8 DEF Stopped, platform
  <2>2. ~StopsService /\ definition # "none" => ~Active
    BY DEF StopsService
  <2>3. ~Active /\ platform = "launchd" => loaded = "none" /\ server = NoServer /\ ~kicked
    BY <1>1 DEF Active, ManagerInv
  <2>4. ~StopsService /\ ~Active /\ platform = "launchd" => Stopped'
    BY <1>7, <1>8, <2>3 DEF Stopped, platform
  <2> QED
    BY <1>5, <1>7, <2>1, <2>2, <2>4 DEF StopInv, Same, platform
<1> QED
  BY <1>9, <1>11, <1>12, <1>13 DEF InstallInv

LEMMA AwaitInactiveKeeps ==
  ASSUME InstallInv, AwaitInactive
  PROVE  InstallInv'
<1> DEFINE todo == cli.todo
<1>1. CommandInv /\ FlagsInv /\ ManagerInv /\ OnlyCommand
  BY DEF InstallInv, AwaitInactive
<1>2. todo # <<>> /\ todo[1] = "inactive" /\ TodoOf(cli.cmd, todo) /\ cli.result = "none"
  BY <1>1 DEF AwaitInactive, Doing, Finished, CommandInv
<1>3. cli.cmd = "stop" /\ todo = <<"inactive">>
  BY <1>2, WhereItIs
<1>4. Behind(todo) = <<>>
  BY <1>3, Tails, Zenon
<1>5. Same(cli.active, cli.pid, cli.inactive, Active, cli.answer, cli.issues) /\ GoesTo(Behind(todo))
  <2>1. Follow([cli EXCEPT !.late = Active], Behind([cli EXCEPT !.late = Active].todo))
    BY DEF AwaitInactive, Proceed, Behind
  <2>2. [cli EXCEPT !.late = Active].todo = todo
    BY <1>1 DEF CommandInv, Idle
  <2> QED
    BY <1>1, <2>1, <2>2, FollowLate
<1>6. UNCHANGED <<settings, secrets, server, machine, definition, loaded, kicked, failed, starts>>
  BY <1>1 DEF OnlyCommand, OnlyFiles, files, manager
<1>7. CommandInv'
  BY <1>4, <1>5 DEF CommandInv, Same, GoesTo, TodoOf
<1>8. FlagsInv' /\ PlanInv' /\ RestartInv' /\ DoctorInv'
  <2>1. cli.pid = NoProcess
    BY <1>1, <1>2, UnseenYet
  <2> QED
    BY <1>1, <1>3, <1>4, <1>5, <1>6, <2>1 DEF FlagsInv, PlanInv, RestartInv, DoctorInv, Same, GoesTo
<1>9. StopInv'
  <2>1. todo # <<"stop", "inactive">>
    BY <1>3
  <2> QED
    BY <1>2, <1>3, <1>5, <1>6, <2>1 DEF InstallInv, StopInv, Same, Stopped, platform
<1> QED
  BY <1>1, <1>5, <1>7, <1>8, <1>9, LookKeeps DEF Same, InstallInv, SettingsInv

\* The service is restarted when it is active, and started when it is not.
LEMMA ApplyKeeps ==
  ASSUME InstallInv, Apply
  PROVE  InstallInv'
<1> DEFINE todo == cli.todo
<1>1. CommandInv /\ FlagsInv /\ ManagerInv /\ OnlyCommand
  BY DEF InstallInv, Apply
<1>2. todo # <<>> /\ todo[1] = "apply" /\ TodoOf(cli.cmd, todo) /\ cli.result = "none"
  BY <1>1 DEF Apply, Doing, Finished, CommandInv
<1>3. cli.cmd = "use" /\ todo = <<"apply">>
  BY <1>2, WhereItIs
<1>4. Behind(todo) = <<>>
  BY <1>3, Tails, Zenon
<1>5. PICK steps \in {<<>>, RestartSteps, StartSteps} : Follow(cli, steps)
  <2>1. CASE definition = "none"
    BY <1>4, <2>1 DEF Apply, Proceed, Behind
  <2>2. CASE definition # "none"
    BY <2>2 DEF Apply
  <2> QED
    BY <2>1, <2>2
<1>6. Same(cli.active, cli.pid, cli.inactive, cli.late, cli.answer, cli.issues) /\ GoesTo(steps)
  BY <1>1, <1>5, FollowPlain
<1>7. TodoOf(cli.cmd, steps)
  <2>1. StartSteps \in StartTodos /\ RestartSteps \in RestartTodos
    BY DEF StartSteps, StartTodos, RestartSteps, RestartTodos
  <2> QED
    BY <1>3, <1>5, <2>1, Zenon DEF TodoOf
<1>8. cli.answer = NoAnswer /\ cli.pid = NoProcess /\ ~cli.inactive /\ ~cli.late
  BY <1>1, <1>2, UnseenYet
<1>9. UNCHANGED starts
  BY <1>1 DEF OnlyCommand, OnlyFiles, manager
<1>10. CommandInv'
  BY <1>2, <1>6, <1>7 DEF CommandInv, Same, GoesTo
<1>11. FlagsInv' /\ PlanInv' /\ RestartInv' /\ StopInv' /\ DoctorInv'
  BY <1>1, <1>3, <1>6, <1>8, <1>9 DEF FlagsInv, PlanInv, RestartInv, StopInv, DoctorInv, Same
<1> QED
  BY <1>1, <1>6, <1>10, <1>11, LookKeeps DEF Same, InstallInv, SettingsInv

LEMMA ReviveKeeps ==
  ASSUME InstallInv, Revive
  PROVE  InstallInv'
<1> DEFINE todo == cli.todo
<1>1. CommandInv /\ FlagsInv /\ ManagerInv /\ OnlyCommand
  BY DEF InstallInv, Revive
<1>2. todo # <<>> /\ todo[1] = "revive" /\ TodoOf(cli.cmd, todo) /\ cli.result = "none"
  BY <1>1 DEF Revive, Doing, Finished, CommandInv
<1>3. cli.cmd = "doctor" /\ todo = <<"revive", "report">>
  BY <1>2, WhereItIs
<1>4. Behind(todo) = <<"report">>
  BY <1>3, Tails, Zenon
<1>5. PICK steps \in {<<"report">>, <<"start", "active", "health", "report">>} : Follow(cli, steps)
  BY <1>4 DEF Revive, Proceed, Behind
<1>6. Same(cli.active, cli.pid, cli.inactive, cli.late, cli.answer, cli.issues) /\ GoesTo(steps)
  BY <1>1, <1>5, FollowPlain
<1>7. TodoOf(cli.cmd, steps) /\ steps # <<>>
  <2>1. steps \in DoctorTodos
    BY <1>5 DEF DoctorTodos
  <2>2. steps # <<>>
    BY <1>5
  <2> QED
    BY <1>3, <2>1, <2>2, Zenon DEF TodoOf
<1>8. cli.answer = NoAnswer /\ cli.pid = NoProcess /\ ~cli.inactive /\ ~cli.late
  BY <1>1, <1>2, UnseenYet
<1>9. UNCHANGED starts
  BY <1>1 DEF OnlyCommand, OnlyFiles, manager
<1>10. CommandInv'
  BY <1>2, <1>6, <1>7 DEF CommandInv, Same, GoesTo
<1>11. FlagsInv' /\ PlanInv' /\ RestartInv' /\ StopInv' /\ DoctorInv'
  BY <1>1, <1>3, <1>6, <1>7, <1>8, <1>9 DEF FlagsInv, PlanInv, RestartInv, StopInv, DoctorInv, Same, GoesTo
<1> QED
  BY <1>1, <1>6, <1>10, <1>11, LookKeeps DEF Same, InstallInv, SettingsInv

\* So nothing answers there.
LEMMA NoAnswerAtZero == PortInv => Answers("0") = {}
BY DEF PortInv, Answers

\* The doctor looks for whatever the launcher needs, with exceptions.
LEMMA NothingMissing ==
  ASSUME PortInv, DoctorIssues = {}
  PROVE  definition # "none" /\ (Launchable(settings, secrets) \/ Unnoticed(settings))
<1> DEFINE key == SecretKey(ProviderOf(settings))
           encoder == EncoderOf(settings)
<1>1. ~(key # Unset /\ Secret(secrets, key) = NoSecret)
  BY DEF DoctorIssues
<1>2. definition # "none"
  BY DEF DoctorIssues
<1>3. EncoderIssues = {}
  BY DEF DoctorIssues
<1>4. /\ encoder # "fast-embed" => settings[EncoderKey(encoder)] # Unset
      /\ encoder = "remote-api" => Secret(secrets, RemoteKey) # NoSecret
  BY <1>3 DEF EncoderIssues, EncoderSecretIssues
<1>5. /\ EncoderKey("local-api") = "server.local_encoder_url"
      /\ EncoderKey("remote-api") = "server.remote_encoder_url"
  BY DEF EncoderKey
<1>6. Value(settings, "service.port") # "0"
  <2>1. Answers(Value(settings, "service.port")) # {}
    BY DEF DoctorIssues
  <2> QED
    BY <2>1, NoAnswerAtZero
<1>7. UsableUrl(settings)
  BY DEF DoctorIssues
<1>8. ASSUME ~Unnoticed(settings)
      PROVE  /\ settings["server.encoder_provider"] \in Encoders \cup {Unset}
             /\ \A k \in Positive : Value(settings, k) # "0"
  BY <1>6, <1>8 DEF Unnoticed
<1>9. \A k \in NeededSecrets(settings) : Secret(secrets, k) # NoSecret
  BY <1>1, <1>4 DEF NeededSecrets
<1> QED
  BY <1>2, <1>4, <1>5, <1>7, <1>8, <1>9 DEF Launchable

LEMMA ReportKeeps ==
  ASSUME InstallInv, PortInv, Report
  PROVE  InstallInv'
<1> DEFINE todo == cli.todo
<1>1. CommandInv /\ FlagsInv /\ ManagerInv /\ OnlyCommand
  BY DEF InstallInv, Report
<1>2. todo # <<>> /\ todo[1] = "report" /\ TodoOf(cli.cmd, todo) /\ cli.result = "none"
  BY <1>1 DEF Report, Doing, Finished, CommandInv
<1>3. cli.cmd = "doctor" /\ todo = <<"report">>
  BY <1>2, WhereItIs
<1>4. Behind(todo) = <<>>
  BY <1>3, Tails, Zenon
<1>5. Same(cli.active, cli.pid, cli.inactive, cli.late, cli.answer, DoctorIssues) /\ GoesTo(Behind(todo))
  <2>1. Follow([cli EXCEPT !.issues = DoctorIssues], Behind([cli EXCEPT !.issues = DoctorIssues].todo))
    BY DEF Report, Proceed, Behind
  <2>2. [cli EXCEPT !.issues = DoctorIssues].todo = todo
    BY <1>1 DEF CommandInv, Idle
  <2> QED
    BY <1>1, <2>1, <2>2, FollowIssues
<1>6. UNCHANGED <<settings, secrets, definition, starts>>
  BY <1>1 DEF OnlyCommand, OnlyFiles, files, manager
<1>7. cli.pid = NoProcess /\ ~cli.inactive /\ ~cli.late
  BY <1>1, <1>2, UnseenYet
<1>8. CommandInv'
  BY <1>4, <1>5 DEF CommandInv, Same, GoesTo, TodoOf
<1>9. FlagsInv' /\ PlanInv' /\ RestartInv' /\ StopInv'
  BY <1>1, <1>3, <1>4, <1>5, <1>6, <1>7 DEF FlagsInv, PlanInv, RestartInv, StopInv, Same, GoesTo
<1>10. DoctorInv'
  <2>1. /\ Launchable(settings', secrets') = Launchable(settings, secrets)
        /\ Unnoticed(settings') = Unnoticed(settings)
    BY <1>6
  <2>2. cli'.issues = DoctorIssues /\ definition' = definition
    BY <1>5, <1>6 DEF Same
  <2>3. DoctorIssues = {} =>
          definition # "none" /\ (Launchable(settings, secrets) \/ Unnoticed(settings))
    BY NothingMissing
  <2> QED
    BY <2>1, <2>2, <2>3 DEF DoctorInv
<1> QED
  BY <1>1, <1>5, <1>8, <1>9, <1>10, LookKeeps DEF Same, InstallInv, SettingsInv

-----------------------------------------------------------------------------
(* The invariant, and what it says of a command that has ended.            *)

LEMMA InstallInvInit == Init => InstallInv
<1> SUFFICES ASSUME Init PROVE InstallInv
  OBVIOUS
<1>1. /\ DOMAIN cli = DOMAIN Idle /\ cli.cmd = "none" /\ cli.todo = <<>> /\ cli.s = DefaultSettings
      /\ cli.result = "none" /\ cli.pid = NoProcess /\ cli.answer = NoAnswer
  BY DEF Init, Idle
<1>2. SettingsInv /\ ServerInv /\ CommandInv
  BY <1>1, SoundDefault DEF Init, SettingsInv, ServerInv, CommandInv, TodoOf
<1>3. ManagerInv
  BY MachinesSupported DEF Init, ManagerInv, platform
<1>4. FlagsInv /\ PlanInv /\ RestartInv /\ StopInv /\ DoctorInv
  BY <1>1 DEF Init, FlagsInv, PlanInv, RestartInv, StopInv, DoctorInv, NoProcess
<1> QED
  BY <1>2, <1>3, <1>4 DEF InstallInv

\* A launched server has a port that the launcher let through.
LEMMA PortInvNext == InstallInv /\ PortInv /\ [Next]_vars => PortInv'
<1> SUFFICES ASSUME InstallInv, PortInv, [Next]_vars PROVE PortInv'
  OBVIOUS
<1>1. ASSUME UNCHANGED <<foreign, server>> PROVE PortInv'
  BY <1>1 DEF PortInv
<1>2. ASSUME foreign' = foreign, Spawn PROVE PortInv'
  BY <1>2 DEF PortInv, Spawn, Process
<1>3. ASSUME foreign' = foreign, server' = NoServer PROVE PortInv'
  BY <1>3 DEF PortInv
<1>4. CASE Kick \/ Respawn
  BY <1>2, <1>4 DEF Kick, Respawn
<1>5. CASE Exit
  BY <1>3, <1>5 DEF Exit
<1>6. CASE Launch /\ ~Exit
  <2>1. PICK env : server' = [pid |-> server.pid, phase |-> "launched",
                              args |-> LaunchArguments(settings), env |-> env,
                              from |-> Shown(settings, secrets)]
    BY <1>6 DEF Launch
  <2>2. server'.phase = "launched" /\ server'.args.port = Value(settings, "service.port")
    BY <2>1 DEF LaunchArguments
  <2>3. Value(settings, "service.port") # "0"
    BY <1>6 DEF Launch, Launchable, Positive, Numbers
  <2> QED
    BY <1>6, <2>2, <2>3 DEF Launch, PortInv
<1>7. CASE Configure /\ ~Exit
  <2>1. PICK calm : server' = [pid |-> server.pid, phase |-> "configured",
                               config |-> ServerConfig(server.args, server.env, settings),
                               from |-> server.from, calm |-> calm]
    BY <1>7 DEF Configure
  <2>2. server'.phase = "configured" /\ server'.config.port = server.args.port
    BY <2>1 DEF ServerConfig
  <2>3. server # NoServer /\ server.phase = "launched" /\ foreign' = foreign
    BY <1>7 DEF Configure
  <2> QED
    BY <2>2, <2>3 DEF PortInv
<1>8. CASE Bind /\ ~Exit
  <2>1. server # NoServer /\ server.phase = "configured" /\ foreign' = foreign
        /\ server' = [server EXCEPT !.phase = "up"]
    BY <1>8 DEF Bind
  <2>2. server'.phase = "up" /\ server'.config = server.config
    BY <2>1 DEF InstallInv, ServerInv
  <2>3. server.config.port # "0"
    BY <2>1 DEF PortInv
  <2> QED
    BY <2>1, <2>2, <2>3 DEF PortInv
<1>9. CASE StartByHand
  BY <1>9 DEF StartByHand, PortInv, manager
<1>10. CASE Commanded
  BY <1>1, <1>10 DEF Commanded, GiveCommand, GiveSetup, GiveUse, ConfigSet, EditSettings, Give, Interrupt, manager
<1>11. CASE FileStep
  BY <1>1, <1>11 DEF FileStep, InstallArtifacts, BreakOffExposure, NextAgent, WriteAgentFile,
     TearAgentFile, WriteSettings, WriteSecrets, InstallService, Repair, OnlyCommand, OnlyFiles, manager
<1>12. CASE ServiceStep
  <2>1. foreign' = foreign
    BY <1>12 DEF ServiceStep, StartService, AwaitActive, AwaitHealth, AwaitFinalHealth,
       RestartService, AwaitRestart, StopService, AwaitInactive, Apply, Revive, Report,
       OnlyCommand, OnlyFiles, NotManager
  <2>2. CASE StartService
    <3>1. platform \in {"launchd", "systemd"}
      BY DEF InstallInv, ManagerInv
    <3>2. CASE platform = "systemd"
      BY <1>1, <1>2, <2>1, <2>2, <3>2 DEF StartService
    <3>3. CASE platform = "launchd"
      BY <1>1, <1>2, <2>1, <2>2, <3>3 DEF StartService
    <3> QED
      BY <3>1, <3>2, <3>3
  <2>3. CASE RestartService
    BY <1>1, <1>2, <2>1, <2>3 DEF RestartService
  <2>4. CASE StopService
    BY <1>1, <1>3, <2>1, <2>4 DEF StopService
  <2>5. CASE ~StartService /\ ~RestartService /\ ~StopService
    BY <1>1, <1>12, <2>1, <2>5 DEF ServiceStep, AwaitActive, AwaitHealth, AwaitFinalHealth,
       AwaitRestart, AwaitInactive, Apply, Revive, Report, OnlyCommand, OnlyFiles, manager
  <2> QED
    BY <2>2, <2>3, <2>4, <2>5
<1>13. CASE UNCHANGED vars
  BY <1>1, <1>13 DEF vars, manager
<1> QED
  BY <1>4, <1>5, <1>6, <1>7, <1>8, <1>9, <1>10, <1>11, <1>12, <1>13 DEF Next, Manager, Crash

LEMMA InstallInvNext == InstallInv /\ PortInv /\ [Next]_vars => InstallInv'
<1> SUFFICES ASSUME InstallInv, PortInv, [Next]_vars PROVE InstallInv'
  OBVIOUS
<1>1. CASE Manager
  BY <1>1, ManagerKeeps
<1>2. CASE Commanded
  BY <1>2, CommandedKeeps
<1>3. CASE FileStep
  BY <1>3, FileStepKeeps
<1>4. CASE ServiceStep
  BY <1>4, StartKeeps, AwaitActiveKeeps, HealthKeeps, RestartKeeps, AwaitRestartKeeps, StopKeeps,
     AwaitInactiveKeeps, ApplyKeeps, ReviveKeeps, ReportKeeps DEF ServiceStep
<1>5. CASE UNCHANGED vars
  <2>1. UNCHANGED <<settings, secrets, definition, machine, loaded, server, kicked, failed, starts, cli>>
    BY <1>5 DEF vars, files, manager
  <2>2. SettingsInv' /\ ServerInv' /\ ManagerInv' /\ CommandInv' /\ FlagsInv'
    BY <2>1 DEF InstallInv, SettingsInv, ServerInv, ManagerInv, CommandInv, FlagsInv, platform
  <2>3. PlanInv' /\ RestartInv' /\ StopInv' /\ DoctorInv'
    BY <2>1 DEF InstallInv, PlanInv, RestartInv, StopInv, DoctorInv, Fresh, Stopped, platform
  <2> QED
    BY <2>2, <2>3 DEF InstallInv
<1> QED
  BY <1>1, <1>2, <1>3, <1>4, <1>5 DEF Next

LEMMA InstallInvariance == Spec => [](InstallInv /\ PortInv)
<1>1. Init => PortInv
  BY PortZeroIsOne DEF Init, PortInv
<1> QED
  BY <1>1, InstallInvInit, InstallInvNext, PortInvNext, PTL DEF Spec

\* Whatever the settings, the secrets and the environment of the user's shell: a
\* server that has read its configuration while the settings did not change runs
\* with the settings and the secrets as they were saved when it was launched
\* (build_server_launch_spec, the server's resolution of its configuration).
THEOREM ServerRunsSavedHolds == Spec => []ServerRunsSaved
<1>1. InstallInv => ServerRunsSaved
  BY DEF InstallInv, ServerInv, ServerRunsSaved
<1> QED
  BY <1>1, InstallInvariance, PTL

\* However often the process is replaced while `mb setup` waits for it: a service
\* that was not active before answers with what the user has just decided
\* (apply_setup_plan writes before it starts).
THEOREM ReadyServesPlanHolds == Spec => []ReadyServesPlan
<1>1. InstallInv => ReadyServesPlan
  BY DEF InstallInv, PlanInv, ReadyServesPlan, Succeeded, Finished, ByService
<1> QED
  BY <1>1, InstallInvariance, PTL

\* A restart whose known pid was seen to go is answered by a later process, which
\* runs with the saved settings, on launchd, where the process is replaced some
\* time after the command, and on systemd (wait_for_service_restart).
THEOREM RestartReachesNewServerHolds == Spec => []RestartReachesNewServer
<1>1. <<>> # <<"changed", "health">>
  OBVIOUS
<1>2. InstallInv => RestartReachesNewServer
  BY <1>1 DEF InstallInv, RestartInv, RestartReachesNewServer, Succeeded, Finished, ByService
<1> QED
  BY <1>2, InstallInvariance, PTL

\* What the doctor looks for is all that the launcher needs, for every provider,
\* every encoder and whatever settings.toml has been made to say by hand, but for
\* the two things it is known not to notice; a port of zero is noticed because
\* nothing serves it, ever (collect_doctor_issues and build_server_launch_spec).
THEOREM NoIssuesMeansLaunchableHolds == Spec => []NoIssuesMeansLaunchable
<1>1. InstallInv => NoIssuesMeansLaunchable
  BY DEF InstallInv, DoctorInv, NoIssuesMeansLaunchable, Succeeded, Finished
<1> QED
  BY <1>1, InstallInvariance, PTL

\* After a stop that was successful no process appears before the next command
\* (stop_service).
THEOREM StaysStoppedHolds == Spec => StaysStopped
<1> DEFINE Quiet == Succeeded({"stop"}) /\ (platform = "launchd" \/ cli.active) /\ cli' = cli
                    /\ definition # "none"
<1>1. InstallInv /\ [Next]_vars => [Quiet => server' = NoServer]_vars
  <2> SUFFICES ASSUME InstallInv, Next, Quiet PROVE server' = NoServer
    BY Zenon
  <2>1. cli.todo = <<>> /\ cli.cmd = "stop" /\ cli.result = "ok"
    BY DEF Succeeded, Finished
  <2>2. Stopped
    <3>1. <<>> # <<"stop", "inactive">>
      OBVIOUS
    <3> QED
      BY <2>1, <3>1 DEF InstallInv, StopInv
  <2>3. CASE Manager
    BY <2>2, <2>3, ManagerServes DEF InstallInv, Stopped
  <2>4. CASE Commanded
    BY <2>2, <2>4 DEF Commanded, GiveCommand, GiveSetup, GiveUse, ConfigSet, EditSettings, Give,
       Interrupt, manager, Stopped
  <2>5. CASE FileStep \/ ServiceStep
    BY <2>1, <2>5 DEF Finished, Doing, FileStep, InstallArtifacts, BreakOffExposure, NextAgent,
       WriteAgentFile, TearAgentFile, WriteSettings, WriteSecrets, InstallService, Repair, ServiceStep, StartService, AwaitActive,
       AwaitHealth, AwaitFinalHealth, RestartService, AwaitRestart, StopService, AwaitInactive,
       Apply, Revive, Report
  <2> QED
    BY <2>3, <2>4, <2>5 DEF Next
<1> QED
  BY <1>1, InstallInvariance, PTL DEF StaysStopped, Spec

-----------------------------------------------------------------------------
(* Types.                                                                  *)

Results == {"none", "ok", "failed"}

\* The agents that a command is about.
AgentsInv ==
  /\ DOMAIN secrets = SecretKeys
  /\ configured \subseteq Agents /\ DOMAIN agents = Agents /\ artifacts \subseteq Groups
  /\ cli.picked \in Seq(Agents) /\ cli.wired \subseteq Agents
  /\ cli.agent \in Agents \cup {Unset} /\ (cli.left # <<>> => cli.agent \in Agents)
  /\ cli.result \in Results

BoundsInv == starts \in 0..MaxStarts /\ commands \in 0..MaxCommands /\ faults \in 0..MaxFaults

\* What a command goes on with, if it is not at the agents.
AgentFields(c) ==
  /\ DOMAIN c = DOMAIN Idle /\ c.result = cli.result
  /\ c.picked = cli.picked /\ c.wired = cli.wired /\ c.agent = cli.agent /\ c.left = cli.left
  /\ c.cmd = cli.cmd /\ c.s = cli.s /\ c.secret = cli.secret

LEMMA AgentFieldsKept ==
  ASSUME CommandInv, NEW x, NEW y
  PROVE  /\ AgentFields(cli)
         /\ AgentFields([cli EXCEPT !.active = x]) /\ AgentFields([cli EXCEPT !.active = x, !.pid = y])
         /\ AgentFields([cli EXCEPT !.answer = x]) /\ AgentFields([cli EXCEPT !.late = x])
         /\ AgentFields([cli EXCEPT !.issues = x]) /\ AgentFields([cli EXCEPT !.again = x])
         /\ AgentFields([cli EXCEPT !.inactive = x, !.again = y])
BY DEF CommandInv, AgentFields, Idle

\* A step that is not about the agents.
AgentsLeft ==
  /\ UNCHANGED <<cli.cmd, cli.s, cli.secret, cli.picked, cli.wired, cli.agent, cli.left>>
  /\ cli'.result \in Results

LEMMA AgentsAside ==
  ASSUME CommandInv, AgentsInv,
         \/ Fail
         \/ \E c : AgentFields(c) /\ (cli' = c \/ \E steps : Follow(c, steps))
  PROVE  AgentsLeft
<1>1. CASE Fail
  BY <1>1 DEF Fail, CommandInv, Idle, AgentsLeft, Results
<1>2. ASSUME NEW c, AgentFields(c), cli' = c PROVE AgentsLeft
  BY <1>2 DEF AgentFields, AgentsLeft, AgentsInv
<1>3. ASSUME NEW c, AgentFields(c), NEW steps, Follow(c, steps) PROVE AgentsLeft
  BY <1>3, FollowFields DEF AgentFields, AgentsLeft, AgentsInv, Results
<1> QED
  BY <1>1, <1>2, <1>3

LEMMA ServiceAside ==
  ASSUME CommandInv, AgentsInv, ServiceStep
  PROVE  AgentsLeft /\ UNCHANGED <<secrets, configured, agents, artifacts>>
<1>1. UNCHANGED <<secrets, configured, agents, artifacts>>
  BY DEF ServiceStep, StartService, AwaitActive, AwaitHealth, AwaitFinalHealth, RestartService,
     AwaitRestart, StopService, AwaitInactive, Apply, Revive, Report, OnlyCommand, files, NotManager
<1>2. ASSUME NEW c, AgentFields(c), NEW steps, Follow(c, steps) PROVE AgentsLeft
  BY <1>2, AgentsAside
<1>3. ASSUME NEW c, AgentFields(c), cli' = c PROVE AgentsLeft
  BY <1>3, AgentsAside
<1>4. ASSUME NEW c, AgentFields(c), Proceed(c) \/ SkipHealth(c) PROVE AgentsLeft
  BY <1>2, <1>4 DEF Proceed, SkipHealth
<1>5. CASE AwaitRestart
  <2>1. \/ Proceed(cli) \/ Proceed([cli EXCEPT !.late = TRUE]) \/ SkipHealth([cli EXCEPT !.late = TRUE])
        \/ cli' = [cli EXCEPT !.again = TRUE] \/ cli' = [cli EXCEPT !.inactive = TRUE, !.again = TRUE]
    BY <1>5 DEF AwaitRestart
  <2>2. /\ AgentFields(cli) /\ AgentFields([cli EXCEPT !.late = TRUE])
        /\ AgentFields([cli EXCEPT !.again = TRUE])
        /\ AgentFields([cli EXCEPT !.inactive = TRUE, !.again = TRUE])
    BY AgentFieldsKept
  <2> QED
    BY <1>1, <1>3, <1>4, <2>1, <2>2, Zenon
<1>6. CASE AwaitHealth \/ AwaitFinalHealth
  <2>1. Fail \/ \E x : Proceed([cli EXCEPT !.answer = x])
    BY <1>6 DEF AwaitHealth, AwaitFinalHealth
  <2>2. \A x : AgentFields([cli EXCEPT !.answer = x])
    BY AgentFieldsKept
  <2> QED
    BY <1>1, <1>4, <2>1, <2>2, AgentsAside
<1>7. CASE RestartService
  <2>1. Follow(cli, StartSteps) \/ \E pid : Proceed([cli EXCEPT !.active = TRUE, !.pid = pid])
    BY <1>7 DEF RestartService
  <2>2. AgentFields(cli) /\ \A pid : AgentFields([cli EXCEPT !.active = TRUE, !.pid = pid])
    BY AgentFieldsKept
  <2> QED
    BY <1>1, <1>2, <1>4, <2>1, <2>2, Zenon
<1>8. CASE StartService \/ StopService \/ AwaitInactive \/ Report
  <2>1. \/ Proceed([cli EXCEPT !.active = Active]) \/ Proceed([cli EXCEPT !.late = Active])
        \/ Proceed([cli EXCEPT !.issues = DoctorIssues])
    BY <1>8 DEF StartService, StopService, AwaitInactive, Report
  <2>2. /\ AgentFields([cli EXCEPT !.active = Active]) /\ AgentFields([cli EXCEPT !.late = Active])
        /\ AgentFields([cli EXCEPT !.issues = DoctorIssues])
    BY AgentFieldsKept
  <2> QED
    BY <1>1, <1>4, <2>1, <2>2, Zenon
<1>9. CASE AwaitActive \/ Apply \/ Revive
  <2>1. Proceed(cli) \/ SkipHealth(cli) \/ \E steps : Follow(cli, steps)
    BY <1>9 DEF AwaitActive, Apply, Revive
  <2>2. AgentFields(cli)
    BY AgentFieldsKept
  <2> QED
    BY <1>1, <1>2, <1>4, <2>1, <2>2, Zenon
<1> QED
  BY <1>1, <1>5, <1>6, <1>7, <1>8, <1>9 DEF ServiceStep

LEMMA AgentsLeftKeeps ==
  ASSUME AgentsInv, AgentsLeft, UNCHANGED configured, DOMAIN agents' = Agents,
         DOMAIN secrets' = SecretKeys, artifacts' \subseteq Groups
  PROVE  AgentsInv'
BY DEF AgentsInv, AgentsLeft

\* One agent after the other leaves those to come, and joins those that are done.
LEMMA FileStepAgents ==
  ASSUME CommandInv, AgentsInv, FileStep
  PROVE  AgentsInv'
<1>1. CASE InstallArtifacts
  <2>1. AgentsLeft
    BY <1>1, AgentFieldsKept, AgentsAside DEF InstallArtifacts, Proceed
  <2>2. UNCHANGED <<secrets, configured, agents>> /\ artifacts' = artifacts \cup {"binaries", "assets"}
    BY <1>1 DEF InstallArtifacts
  <2> QED
    BY <2>1, <2>2, AgentsLeftKeeps DEF AgentsInv, Groups
<1>2. CASE NextAgent
  <2>1. UNCHANGED <<secrets, configured, agents, artifacts>>
    BY <1>2 DEF NextAgent, OnlyCommand, files
  <2>2. CASE cli.picked = <<>>
    <3>1. AgentsLeft
      BY <1>2, <2>2, AgentFieldsKept, AgentsAside DEF NextAgent, Proceed
    <3> QED
      BY <2>1, <3>1, AgentsLeftKeeps DEF AgentsInv
  <2>3. CASE cli.picked # <<>>
    <3>1. cli' = [cli EXCEPT !.agent = Head(cli.picked), !.picked = Tail(cli.picked),
                             !.left = FileSteps(Head(cli.picked))]
      BY <1>2, <2>3 DEF NextAgent
    <3>2. Head(cli.picked) \in Agents /\ Tail(cli.picked) \in Seq(Agents)
      BY <2>3 DEF AgentsInv
    <3>3. /\ cli'.agent = Head(cli.picked) /\ cli'.picked = Tail(cli.picked)
          /\ cli'.wired = cli.wired /\ cli'.result = cli.result
      BY <3>1 DEF CommandInv, Idle
    <3> QED
      BY <2>1, <3>2, <3>3 DEF AgentsInv
  <2> QED
    BY <2>2, <2>3
<1>3. ASSUME NEW config, FileDone(config), cli.agent # Unset,
             UNCHANGED <<secrets, configured, artifacts>>
      PROVE  AgentsInv'
  <2>1. /\ cli'.picked = cli.picked /\ cli'.result = cli.result
        /\ cli'.wired \subseteq cli.wired \cup {cli.agent}
        /\ cli'.agent = cli.agent \/ (cli'.agent = Unset /\ cli'.left = <<>>)
    BY <1>3 DEF FileDone, CommandInv, Idle
  <2>2. DOMAIN agents' = DOMAIN agents
    BY <1>3 DEF FileDone
  <2> QED
    BY <1>3, <2>1, <2>2 DEF AgentsInv
<1>4. ASSUME NEW config, GiveUpAgent(config), UNCHANGED <<secrets, configured, artifacts>>
      PROVE  AgentsInv'
  <2>1. /\ cli'.picked = cli.picked /\ cli'.result = cli.result /\ cli'.wired = cli.wired
        /\ cli'.agent = Unset /\ cli'.left = <<>>
    BY <1>4 DEF GiveUpAgent, CommandInv, Idle
  <2>2. DOMAIN agents' = DOMAIN agents
    BY <1>4 DEF GiveUpAgent
  <2> QED
    BY <1>4, <2>1, <2>2 DEF AgentsInv
<1>5. CASE WriteAgentFile
  BY <1>3, <1>4, <1>5 DEF WriteAgentFile
<1>6. CASE TearAgentFile
  <2>1. UNCHANGED <<secrets, configured, artifacts>>
    BY <1>6 DEF TearAgentFile
  <2>2. CASE GiveUpAgent([Backup(agents["codex"]) EXCEPT !.whole = FALSE])
    BY <1>4, <2>1, <2>2
  <2>3. CASE Fail /\ agents' = [agents EXCEPT !["codex"] = [Backup(agents["codex"]) EXCEPT !.whole = FALSE]]
    BY <2>1, <2>3, AgentsAside, AgentsLeftKeeps DEF AgentsInv
  <2> QED
    BY <1>6, <2>2, <2>3 DEF TearAgentFile
<1>7. CASE WriteSettings
  <2>1. AgentsLeft
    BY <1>7, AgentFieldsKept, AgentsAside DEF WriteSettings, Proceed
  <2>2. /\ UNCHANGED <<secrets, agents>> /\ configured' = configured \cup cli.wired
        /\ artifacts' = artifacts \cup {"settings"}
    BY <1>7 DEF WriteSettings
  <2> QED
    BY <2>1, <2>2 DEF AgentsInv, AgentsLeft, Groups
<1>8. CASE WriteSecrets
  <2>1. AgentsLeft
    BY <1>8, AgentFieldsKept, AgentsAside DEF WriteSecrets, Proceed
  <2>2. UNCHANGED <<configured, artifacts, agents>> /\ DOMAIN secrets' = SecretKeys
    BY <1>8 DEF WriteSecrets, ApplySecretChoice
  <2> QED
    BY <2>1, <2>2, AgentsLeftKeeps DEF AgentsInv
<1>9. CASE InstallService \/ Repair
  <2>1. AgentsLeft
    BY <1>9, AgentFieldsKept, AgentsAside DEF InstallService, Repair, Proceed
  <2>2. UNCHANGED <<secrets, configured, artifacts, agents>>
    BY <1>9 DEF InstallService, Repair
  <2> QED
    BY <2>1, <2>2, AgentsLeftKeeps DEF AgentsInv
<1>10. CASE BreakOffExposure
  <2>1. AgentsLeft
    BY <1>10, AgentsAside DEF BreakOffExposure
  <2>2. UNCHANGED <<secrets, configured, agents>> /\ artifacts' = artifacts \cup {"binaries", "assets"}
    BY <1>10 DEF BreakOffExposure
  <2> QED
    BY <2>1, <2>2, AgentsLeftKeeps DEF AgentsInv, Groups
<1> QED
  BY <1>1, <1>2, <1>5, <1>6, <1>7, <1>8, <1>9, <1>10 DEF FileStep

\* A command begins with the agents that were picked, and none done.
LEMMA CommandedAgents ==
  ASSUME CommandInv, AgentsInv, Commanded
  PROVE  AgentsInv'
<1>1. UNCHANGED <<secrets, configured, agents>> /\ artifacts' \subseteq artifacts \cup {"settings"}
  BY DEF Commanded, GiveCommand, GiveSetup, GiveUse, ConfigSet, EditSettings, Interrupt, Give, files
<1>2. ASSUME /\ cli'.picked \in Seq(Agents) /\ cli'.wired = {} /\ cli'.agent = Unset /\ cli'.left = <<>>
             /\ cli'.result = "none"
      PROVE  AgentsInv'
  BY <1>1, <1>2 DEF AgentsInv, Results, Groups
<1>3. <<>> \in Seq(Agents)
  OBVIOUS
<1>4. ASSUME NEW cmd, NEW todo, NEW s, cli' = [Idle EXCEPT !.cmd = cmd, !.todo = todo, !.s = s]
      PROVE  AgentsInv'
  BY <1>2, <1>3, <1>4 DEF Idle
<1>5. CASE GiveCommand \/ GiveUse
  BY <1>4, <1>5 DEF GiveCommand, GiveUse, Give
<1>6. CASE GiveSetup
  <2>1. PICK answers \in Sessions : \E s, secret :
          cli' = [Idle EXCEPT !.cmd = "setup", !.todo = Steps("setup"), !.s = s,
                              !.picked = answers.picked, !.secret = secret]
    BY <1>6 DEF GiveSetup, Give
  <2>2. /\ cli'.picked = answers.picked /\ cli'.wired = {} /\ cli'.agent = Unset /\ cli'.left = <<>>
        /\ cli'.result = "none"
    BY <2>1 DEF Idle
  <2> QED
    BY <1>2, <2>2, SessionsAnswered
<1>7. CASE ConfigSet
  <2>1. cli' = [Idle EXCEPT !.cmd = "set"]
    BY <1>7 DEF ConfigSet, EditSettings, Give
  <2> QED
    BY <1>2, <1>3, <2>1 DEF Idle
<1>8. CASE Interrupt
  BY <1>1, <1>8, AgentsAside, AgentsLeftKeeps DEF Interrupt, AgentsInv, Groups
<1>9. CASE EditSettings
  <2>1. cli' = [Idle EXCEPT !.cmd = "edit"]
    BY <1>9 DEF EditSettings, Give
  <2> QED
    BY <1>2, <1>3, <2>1 DEF Idle
<1> QED
  BY <1>5, <1>6, <1>7, <1>8, <1>9 DEF Commanded

LEMMA BoundsNext ==
  ASSUME ManagerInv, BoundsInv, [Next]_vars
  PROVE  BoundsInv'
<1> USE DEF BoundsInv
<1>0. MaxCommands \in Nat /\ MaxStarts \in Nat /\ MaxFaults \in Nat
  BY BoundsNat
<1>1. CASE Manager
  BY <1>0, <1>1 DEF Manager, Kick, Respawn, Crash, Exit, Launch, Configure, Bind, StartByHand, Spawn, manager
<1>2. CASE Commanded
  <2>1. /\ UNCHANGED starts
        /\ UNCHANGED commands \/ (commands < MaxCommands /\ commands' = commands + 1)
        /\ UNCHANGED faults \/ (faults < MaxFaults /\ faults' = faults + 1)
    BY <1>2 DEF Commanded, GiveCommand, GiveSetup, GiveUse, ConfigSet, EditSettings, Interrupt, Give, manager
  <2> QED
    BY <1>0, <2>1
<1>3. CASE FileStep
  BY <1>0, <1>3 DEF FileStep, InstallArtifacts, BreakOffExposure, NextAgent, WriteAgentFile, TearAgentFile, WriteSettings,
     WriteSecrets, InstallService, Repair, OnlyCommand, OnlyFiles, files, manager
<1>4. CASE ServiceStep
  <2>1. UNCHANGED <<commands, faults>>
    BY <1>4 DEF ServiceStep, StartService, AwaitActive, AwaitHealth, AwaitFinalHealth, RestartService,
       AwaitRestart, StopService, AwaitInactive, Apply, Revive, Report, OnlyCommand, OnlyFiles, NotManager
  <2>2. ASSUME StartService PROVE UNCHANGED starts \/ Spawn
    <3>1. CASE platform = "systemd"
      BY <2>2, <3>1 DEF StartService
    <3>2. CASE platform = "launchd"
      BY <2>2, <3>2 DEF StartService
    <3> QED
      BY <3>1, <3>2 DEF ManagerInv
  <2>3. ASSUME RestartService PROVE UNCHANGED starts \/ Spawn
    BY <2>3 DEF RestartService
  <2>4. ASSUME ~StartService, ~RestartService PROVE UNCHANGED starts \/ Spawn
    BY <1>4, <2>4 DEF ServiceStep, AwaitActive, AwaitHealth, AwaitFinalHealth,
       AwaitRestart, StopService, AwaitInactive, Apply, Revive, Report, OnlyCommand, OnlyFiles, manager
  <2>5. UNCHANGED starts \/ Spawn
    BY <2>2, <2>3, <2>4
  <2> QED
    BY <1>0, <2>1, <2>5 DEF Spawn
<1>5. CASE UNCHANGED vars
  BY <1>5 DEF vars, manager
<1> QED
  BY <1>1, <1>2, <1>3, <1>4, <1>5 DEF Next

LEMMA TypesInvariance == Spec => [](InstallInv /\ PortInv /\ AgentsInv /\ BoundsInv)
<1>1. Init => AgentsInv /\ BoundsInv
  <2> SUFFICES ASSUME Init PROVE AgentsInv /\ BoundsInv
    OBVIOUS
  <2>1. <<>> \in Seq(Agents)
    OBVIOUS
  <2>2. AgentsInv
    BY <2>1 DEF Init, AgentsInv, Idle, Results
  <2>3. BoundsInv
    BY BoundsNat DEF Init, BoundsInv
  <2> QED
    BY <2>2, <2>3
<1>2. InstallInv /\ AgentsInv /\ [Next]_vars => AgentsInv'
  <2> SUFFICES ASSUME CommandInv, AgentsInv, [Next]_vars PROVE AgentsInv'
    BY DEF InstallInv
  <2>1. CASE Manager
    BY <2>1 DEF Manager, Kick, Respawn, Crash, Exit, Launch, Configure, Bind, StartByHand, files, AgentsInv
  <2>2. CASE Commanded
    BY <2>2, CommandedAgents
  <2>3. CASE FileStep
    BY <2>3, FileStepAgents
  <2>4. CASE ServiceStep
    BY <2>4, ServiceAside, AgentsLeftKeeps DEF AgentsInv
  <2>5. CASE UNCHANGED vars
    BY <2>5 DEF vars, files, AgentsInv
  <2> QED
    BY <2>1, <2>2, <2>3, <2>4, <2>5 DEF Next
<1>3. InstallInv /\ BoundsInv /\ [Next]_vars => BoundsInv'
  BY BoundsNext DEF InstallInv
<1> QED
  BY <1>1, <1>2, <1>3, InstallInvariance, PTL DEF Spec

\* The state stays in its types: a command names no agent that is not installed,
\* the service manager keeps no definition that it was not given, and a pid is that
\* of a process there has been (AppSettings, SecretStore, setup.rs, service.rs).
THEOREM TypesHold == Spec => []TypeOK
<1>1. InstallInv /\ AgentsInv /\ BoundsInv => TypeOK
  <2> SUFFICES ASSUME InstallInv, AgentsInv, BoundsInv PROVE TypeOK
    OBVIOUS
  <2>1. ToSet(cli.picked) \subseteq Agents
    BY DEF ToSet, AgentsInv
  <2> QED
    BY <2>1 DEF TypeOK, InstallInv, SettingsInv, Sound, ManagerInv, FlagsInv, AgentsInv, BoundsInv, Results
<1> QED
  BY <1>1, TypesInvariance, PTL

-----------------------------------------------------------------------------
(* Numbers, and sequences of which some places are kept.                   *)

\* A set of natural numbers that is not empty has a least member.
LEMMA LeastMember ==
  ASSUME NEW T, T \subseteq Nat, T # {}
  PROVE  \E x \in T : \A y \in T : ~(y < x)
<1> DEFINE R == {p \in Nat \X Nat : p[1] < p[2]}
<1>1. IsWellFoundedOn(R, Nat)
  BY NatLessThanWellFounded DEF OpToRel
<1>2. \E x \in T : \A y \in T : <<y, x>> \notin R
  <2> HIDE DEF R
  <2> QED
    BY <1>1, WFMin
<1> QED
  BY <1>2

\* Induction, over the set of the numbers that have a property.
LEMMA NumberInduction ==
  ASSUME NEW T, 0 \in T, \A n \in Nat : n \in T => n + 1 \in T
  PROVE  Nat \subseteq T
<1> DEFINE B == Nat \ T
<1> SUFFICES ASSUME B # {} PROVE FALSE
  OBVIOUS
<1>1. PICK x \in B : \A y \in B : ~(y < x)
  BY LeastMember
<1>2. x # 0 /\ x - 1 \in Nat /\ x - 1 \in T
  BY <1>1
<1> QED
  BY <1>1, <1>2

\* Kept goes through the places one by one.
LEMMA KeptSteps ==
  ASSUME NEW U, NEW q \in Seq(U), NEW I
  PROVE  /\ Kept(q, I)[0] = <<>>
         /\ \A i \in 1..Len(q) :
              Kept(q, I)[i] = IF i \in I THEN Append(Kept(q, I)[i - 1], q[i]) ELSE Kept(q, I)[i - 1]
<1> DEFINE Grown(i, k) == IF i \in I THEN Append(k, q[i]) ELSE k
           Is(K, m) == K = [i \in 0..m |-> IF i = 0 THEN <<>> ELSE Grown(i, K[i - 1])]
           T == {m \in Nat : \E K : Is(K, m)}
           All == CHOOSE K : Is(K, Len(q))
<1>0. Len(q) \in Nat
  BY LenProperties
<1>1. Kept(q, I) = All
  BY Zenon DEF Kept
<1> HIDE DEF Grown
<1>2. 0 \in T
  <2>1. Is([i \in 0..0 |-> <<>>], 0)
    OBVIOUS
  <2> HIDE DEF Is
  <2> QED
    BY <2>1
<1>3. ASSUME NEW m \in Nat, m \in T PROVE m + 1 \in T
  <2>1. PICK K : Is(K, m)
    <3> HIDE DEF Is
    <3> QED
      BY <1>3
  <2> DEFINE F == [i \in 0..(m + 1) |-> IF i = m + 1 THEN Grown(m + 1, K[m]) ELSE K[i]]
  <2>2. \A i \in 0..(m + 1) : F[i] = IF i = 0 THEN <<>> ELSE Grown(i, F[i - 1])
    BY <2>1
  <2>3. Is(F, m + 1)
    BY <2>2
  <2> HIDE DEF Is
  <2> QED
    BY <2>3
<1>4. Len(q) \in T
  <2> HIDE DEF T
  <2> QED
    BY <1>0, <1>2, <1>3, NumberInduction
<1>5. Is(All, Len(q))
  <2> HIDE DEF Is
  <2> QED
    BY <1>4
<1> HIDE DEF All
<1>6. All[0] = <<>> /\ \A i \in 1..Len(q) : All[i] = Grown(i, All[i - 1])
  BY <1>0, <1>5
<1> QED
  BY <1>1, <1>6 DEF Grown

\* What is kept, and where it comes from.
LEMMA KeptFrom ==
  ASSUME NEW U, NEW q \in Seq(U), NEW I, NEW m \in 0..Len(q)
  PROVE  /\ Kept(q, I)[m] \in Seq(U)
         /\ \A k \in DOMAIN Kept(q, I)[m] : \E i \in 1..m : i \in I /\ Kept(q, I)[m][k] = q[i]
<1> DEFINE K == Kept(q, I)
           From(s, n) == s \in Seq(U) /\ \A k \in DOMAIN s : \E i \in 1..n : i \in I /\ s[k] = q[i]
           T == {n \in Nat : n <= Len(q) => From(K[n], n)}
<1>0. Len(q) \in Nat
  BY LenProperties
<1>1. K[0] = <<>> /\ \A i \in 1..Len(q) : K[i] = IF i \in I THEN Append(K[i - 1], q[i]) ELSE K[i - 1]
  BY KeptSteps
<1> HIDE DEF K
<1>2. 0 \in T
  <2>1. From(<<>>, 0)
    OBVIOUS
  <2> HIDE DEF From
  <2> QED
    BY <1>1, <2>1
<1>3. ASSUME NEW n \in Nat, n \in T PROVE n + 1 \in T
  <2> SUFFICES ASSUME n + 1 <= Len(q) PROVE From(K[n + 1], n + 1)
    OBVIOUS
  <2>0. From(K[n], n)
    <3> HIDE DEF From
    <3> QED
      BY <1>0, <1>3
  <2>1. From(K[n], n) /\ n + 1 \in 1..Len(q) /\ (n + 1) - 1 = n
    BY <1>0, <2>0
  <2>2. CASE n + 1 \notin I
    <3>1. K[n + 1] = K[n]
      BY <1>1, <2>1, <2>2
    <3> QED
      BY <2>1, <3>1
  <2>3. CASE n + 1 \in I
    <3> DEFINE s == K[n]  x == q[n + 1]
    <3>1. K[n + 1] = Append(s, x) /\ s \in Seq(U) /\ x \in U
      BY <1>0, <1>1, <2>1, <2>3, ElementOfSeq
    <3>2. /\ Append(s, x) \in Seq(U) /\ DOMAIN Append(s, x) = 1..(Len(s) + 1)
          /\ DOMAIN s = 1..Len(s) /\ Len(s) \in Nat
          /\ \A k \in 1..Len(s) : Append(s, x)[k] = s[k]
          /\ Append(s, x)[Len(s) + 1] = x
      BY <3>1, AppendProperties, LenProperties
    <3>3. \A k \in DOMAIN s : \E i \in 1..n : i \in I /\ s[k] = q[i]
      BY <2>1
    <3>4. x = q[n + 1] /\ n + 1 \in 1..(n + 1) /\ 1..n \subseteq 1..(n + 1)
      OBVIOUS
    <3> HIDE DEF s, x
    <3>5. ASSUME NEW k \in 1..(Len(s) + 1)
          PROVE  \E i \in 1..(n + 1) : i \in I /\ Append(s, x)[k] = q[i]
      <4>1. CASE k = Len(s) + 1
        BY <2>3, <3>2, <3>4, <4>1
      <4>2. CASE k # Len(s) + 1
        <5>1. k \in 1..Len(s)
          BY <3>2, <4>2
        <5> QED
          BY <3>2, <3>3, <3>4, <5>1
      <4> QED
        BY <4>1, <4>2
    <3> QED
      BY <3>1, <3>2, <3>5
  <2> QED
    BY <2>2, <2>3
<1>4. m \in T
  <2> HIDE DEF T
  <2> QED
    BY <1>0, <1>2, <1>3, NumberInduction
<1>5. From(K[m], m)
  <2> HIDE DEF From
  <2> QED
    BY <1>0, <1>4
<1> QED
  BY <1>5 DEF K

\* The same members at the same places give the same.
LEMMA KeptSame ==
  ASSUME NEW U, NEW q \in Seq(U), NEW I, NEW V, NEW r \in Seq(V), NEW J,
         NEW m \in Nat, m <= Len(q), m <= Len(r),
         \A i \in 1..m : (i \in I <=> i \in J) /\ (i \in I => q[i] = r[i])
  PROVE  Kept(q, I)[m] = Kept(r, J)[m]
<1> DEFINE K == Kept(q, I)
           L == Kept(r, J)
           T == {n \in Nat : n <= m => K[n] = L[n]}
<1>0. Len(q) \in Nat /\ Len(r) \in Nat
  BY LenProperties
<1>1. /\ K[0] = <<>> /\ \A i \in 1..Len(q) : K[i] = IF i \in I THEN Append(K[i - 1], q[i]) ELSE K[i - 1]
      /\ L[0] = <<>> /\ \A i \in 1..Len(r) : L[i] = IF i \in J THEN Append(L[i - 1], r[i]) ELSE L[i - 1]
  BY KeptSteps
<1> HIDE DEF K, L
<1>2. 0 \in T
  BY <1>1
<1>3. ASSUME NEW n \in Nat, n \in T PROVE n + 1 \in T
  <2> SUFFICES ASSUME n + 1 <= m PROVE K[n + 1] = L[n + 1]
    OBVIOUS
  <2>1. K[n] = L[n] /\ n + 1 \in 1..m /\ n + 1 \in 1..Len(q) /\ n + 1 \in 1..Len(r) /\ (n + 1) - 1 = n
    BY <1>0, <1>3
  <2> QED
    BY <1>1, <2>1
<1>4. m \in T
  <2> HIDE DEF T
  <2> QED
    BY <1>2, <1>3, NumberInduction
<1> QED
  BY <1>4 DEF K, L

LEMMA PickedFrom ==
  ASSUME NEW U, NEW q \in Seq(U), NEW I
  PROVE  /\ Picked(q, I) \in Seq(U)
         /\ \A k \in DOMAIN Picked(q, I) : \E i \in DOMAIN q : i \in I /\ Picked(q, I)[k] = q[i]
<1>1. Len(q) \in Nat /\ DOMAIN q = 1..Len(q) /\ Len(q) \in 0..Len(q)
  BY LenProperties
<1>2. ASSUME NEW m \in 0..Len(q)
      PROVE  /\ Kept(q, I)[m] \in Seq(U)
             /\ \A k \in DOMAIN Kept(q, I)[m] : \E i \in 1..m : i \in I /\ Kept(q, I)[m][k] = q[i]
  BY KeptFrom
<1>3. /\ Kept(q, I)[Len(q)] \in Seq(U)
      /\ \A k \in DOMAIN Kept(q, I)[Len(q)] : \E i \in 1..Len(q) : i \in I /\ Kept(q, I)[Len(q)][k] = q[i]
  BY <1>1, <1>2, Zenon
<1> QED
  BY <1>1, <1>3 DEF Picked

LEMMA PickedSame ==
  ASSUME NEW U, NEW q \in Seq(U), NEW I, NEW V, NEW r \in Seq(V), NEW J, Len(q) = Len(r),
         \A i \in DOMAIN q : (i \in I <=> i \in J) /\ (i \in I => q[i] = r[i])
  PROVE  Picked(q, I) = Picked(r, J)
<1>1. Len(q) \in Nat /\ DOMAIN q = 1..Len(q) /\ Len(q) <= Len(q)
  BY LenProperties
<1> QED
  BY <1>1, KeptSame DEF Picked

LEMMA PickedNone ==
  ASSUME NEW U, NEW q \in Seq(U), NEW I, \A i \in DOMAIN q : i \notin I
  PROVE  Picked(q, I) = <<>>
<1>1. Picked(q, I) \in Seq(U) /\ \A k \in DOMAIN Picked(q, I) : FALSE
  BY PickedFrom
<1> DEFINE p == Picked(q, I)
<1>2. Len(p) \in Nat /\ DOMAIN p = 1..Len(p)
  BY <1>1, LenProperties
<1>3. p # <<>> => Len(p) \in Nat \ {0}
  BY <1>1, EmptySeq
<1>4. \A k \in DOMAIN p : FALSE
  BY <1>1
<1> HIDE DEF p
<1>5. p = <<>>
  <2>1. p # <<>> => 1 \in 1..Len(p)
    BY <1>3
  <2>2. 1 \notin DOMAIN p
    BY <1>4
  <2> QED
    BY <1>2, <2>1, <2>2
<1> QED
  BY <1>5 DEF p

\* One more member.
LEMMA PickedAppend ==
  ASSUME NEW U, NEW q \in Seq(U), NEW x \in U, NEW I
  PROVE  Picked(Append(q, x), I) = IF Len(q) + 1 \in I THEN Append(Picked(q, I), x) ELSE Picked(q, I)
<1> DEFINE r == Append(q, x)  n == Len(q)
<1>1. /\ n \in Nat /\ r \in Seq(U) /\ Len(r) = n + 1 /\ r[n + 1] = x
      /\ \A i \in 1..n : r[i] = q[i]
  BY LenProperties, AppendProperties
<1> HIDE DEF r, n
<1>2. n + 1 \in 1..Len(r) /\ (n + 1) - 1 = n /\ n <= Len(r) /\ n <= n
  BY <1>1
<1>3. Kept(r, I)[n] = Kept(q, I)[n]
  BY <1>1, <1>2, KeptSame DEF n
<1>4. Kept(r, I)[n + 1] = IF n + 1 \in I THEN Append(Kept(r, I)[n], x) ELSE Kept(r, I)[n]
  BY <1>1, <1>2, KeptSteps
<1> QED
  BY <1>1, <1>3, <1>4 DEF Picked, r, n

\* The members of a sequence, each replaced by what F makes of it, and the places of
\* those that are in W.
Mapped(F, q) == [i \in DOMAIN q |-> F[q[i]]]
Places(q, W) == {i \in DOMAIN q : q[i] \in W}

\* What is kept of a sequence, read through a function, is what is kept of the
\* sequence that the function makes.
LEMMA PickedThrough ==
  ASSUME NEW U, NEW q \in Seq(U), NEW I, NEW F, NEW W
  PROVE  Picked(Mapped(F, Picked(q, I)), Places(Picked(q, I), W))
           = Picked(Mapped(F, q), I \cap Places(q, W))
<1> DEFINE V == {F[x] : x \in U}
           Through(p) == Picked([k \in DOMAIN p |-> F[p[k]]], {k \in DOMAIN p : p[k] \in W})
           K == Kept(q, I)
           r == [i \in DOMAIN q |-> F[q[i]]]
           J == I \cap Places(q, W)
           L == Kept(r, J)
           T == {n \in Nat : n <= Len(q) => Through(K[n]) = L[n]}
<1>0. /\ Len(q) \in Nat /\ DOMAIN q = 1..Len(q) /\ \A i \in 1..Len(q) : q[i] \in U
      /\ \A i \in 1..Len(q) : i \in J <=> i \in I /\ q[i] \in W
  BY LenProperties, ElementOfSeq DEF Places
<1>1. r \in Seq(V) /\ Len(r) = Len(q) /\ \A i \in 1..Len(q) : r[i] = F[q[i]]
  BY <1>0
<1>1a. \A x \in U : F[x] \in V
  OBVIOUS
<1> HIDE DEF r, V
<1>2. /\ K[0] = <<>> /\ \A i \in 1..Len(q) : K[i] = IF i \in I THEN Append(K[i - 1], q[i]) ELSE K[i - 1]
      /\ L[0] = <<>> /\ \A i \in 1..Len(q) : L[i] = IF i \in J THEN Append(L[i - 1], r[i]) ELSE L[i - 1]
  BY <1>1, KeptSteps
<1>3. \A n \in 0..Len(q) : K[n] \in Seq(U)
  BY KeptFrom
<1> HIDE DEF K, L, J
<1>4. Through(<<>>) = <<>>
  <2> DEFINE e == [k \in DOMAIN <<>> |-> F[<<>>[k]]]
             S == {k \in DOMAIN <<>> : <<>>[k] \in W}
  <2>1. e \in Seq(V) /\ \A k \in DOMAIN e : k \notin S
    OBVIOUS
  <2> HIDE DEF e, S
  <2>2. Picked(e, S) = <<>>
    BY <2>1, PickedNone
  <2> QED
    BY <2>2 DEF e, S
\* One more member.
<1>5. ASSUME NEW s \in Seq(U), NEW x \in U
      PROVE  Through(Append(s, x)) = IF x \in W THEN Append(Through(s), F[x]) ELSE Through(s)
  <2> DEFINE t == Append(s, x)
             st == [k \in DOMAIN s |-> F[s[k]]]
             tt == [k \in DOMAIN t |-> F[t[k]]]
             S == {k \in DOMAIN s : s[k] \in W}
             R == {k \in DOMAIN t : t[k] \in W}
             n == Len(s)
  <2>1. /\ n \in Nat /\ DOMAIN s = 1..n /\ t \in Seq(U) /\ Len(t) = n + 1 /\ DOMAIN t = 1..(n + 1)
        /\ t[n + 1] = x /\ \A k \in 1..n : t[k] = s[k]
    BY LenProperties, AppendProperties
  <2>2. \A k \in 1..n : s[k] \in U
    BY ElementOfSeq
  <2> HIDE DEF n, t
  <2>3. st \in Seq(V) /\ Len(st) = n /\ \A k \in 1..n : st[k] = F[s[k]]
    BY <1>1a, <2>1, <2>2
  <2>4. tt \in Seq(V) /\ Len(tt) = n + 1 /\ F[x] \in V
        /\ \A k \in 1..(n + 1) : tt[k] = F[t[k]]
    BY <1>1a, <2>1, <2>2
  <2> HIDE DEF st, tt
  <2>5. tt = Append(st, F[x])
    <3>1. /\ Append(st, F[x]) \in Seq(V) /\ Len(Append(st, F[x])) = n + 1
          /\ Append(st, F[x])[n + 1] = F[x] /\ \A k \in 1..n : Append(st, F[x])[k] = st[k]
      BY <2>3, <2>4, AppendProperties
    <3>2. \A k \in 1..(n + 1) : tt[k] = Append(st, F[x])[k]
      BY <2>1, <2>3, <2>4, <3>1
    <3> QED
      BY <2>4, <3>1, <3>2, SeqEqual
  <2>6. Picked(tt, R) = IF n + 1 \in R THEN Append(Picked(st, R), F[x]) ELSE Picked(st, R)
    BY <2>3, <2>4, <2>5, PickedAppend, ZenonT(30)
  <2>7. Picked(st, R) = Picked(st, S)
    <3>1. DOMAIN st = 1..n /\ \A k \in 1..n : k \in R <=> k \in S
      BY <2>1, <2>3, LenProperties
    <3> QED
      BY <2>3, <3>1, PickedSame
  <2>8. n + 1 \in R <=> x \in W
    BY <2>1
  <2> QED
    BY <2>6, <2>7, <2>8 DEF t, st, tt
<1>6. 0 \in T
  <2> HIDE DEF Through
  <2> QED
    BY <1>2, <1>4
<1>7. ASSUME NEW n \in Nat, n \in T PROVE n + 1 \in T
  <2> HIDE DEF Through
  <2> SUFFICES ASSUME n + 1 <= Len(q) PROVE Through(K[n + 1]) = L[n + 1]
    OBVIOUS
  <2>1. /\ Through(K[n]) = L[n] /\ n + 1 \in 1..Len(q) /\ n \in 0..Len(q) /\ (n + 1) - 1 = n
    BY <1>0, <1>7
  <2>2. K[n] \in Seq(U) /\ q[n + 1] \in U /\ r[n + 1] = F[q[n + 1]]
    BY <1>0, <1>1, <1>3, <2>1
  <2>3. CASE n + 1 \in I
    <3>1. K[n + 1] = Append(K[n], q[n + 1])
      BY <1>2, <2>1, <2>3
    <3>2. Through(K[n + 1]) = IF q[n + 1] \in W THEN Append(L[n], F[q[n + 1]]) ELSE L[n]
      BY <1>5, <2>1, <2>2, <3>1
    <3>3. L[n + 1] = IF q[n + 1] \in W THEN Append(L[n], r[n + 1]) ELSE L[n]
      BY <1>0, <1>2, <2>1, <2>3
    <3> QED
      BY <2>2, <3>2, <3>3
  <2>4. CASE n + 1 \notin I
    BY <1>0, <1>2, <2>1, <2>4
  <2> QED
    BY <2>3, <2>4
<1>8. Len(q) \in T
  <2> HIDE DEF T
  <2> QED
    BY <1>0, <1>6, <1>7, NumberInduction
<1>9. Through(K[Len(q)]) = L[Len(r)]
  <2> HIDE DEF Through
  <2> QED
    BY <1>0, <1>1, <1>8
<1> QED
  BY <1>9 DEF Picked, K, L, J, r, Mapped, Places

\* What is kept of what has been kept.
LEMMA PickedTwice ==
  ASSUME NEW U, NEW q \in Seq(U), NEW I, NEW W
  PROVE  Picked(Picked(q, I), Places(Picked(q, I), W)) = Picked(q, I \cap Places(q, W))
<1> DEFINE F == [x \in U |-> x]
<1>1. \A p \in Seq(U) : Mapped(F, p) = p
  <2> TAKE p \in Seq(U)
  <2>1. p = [i \in DOMAIN p |-> p[i]] /\ \A i \in DOMAIN p : p[i] \in U
    BY LenProperties
  <2> QED
    BY <2>1 DEF Mapped
<1> HIDE DEF F
<1>2. Picked(q, I) \in Seq(U)
  BY PickedFrom
<1>3. Picked(Mapped(F, Picked(q, I)), Places(Picked(q, I), W)) = Picked(Mapped(F, q), I \cap Places(q, W))
  BY PickedThrough
<1> QED
  BY <1>1, <1>2, <1>3

LEMMA IsListSeq ==
  ASSUME NEW U, NEW q \in Seq(U)
  PROVE  IsList(q) /\ ToSet(q) \subseteq U
<1>1. Len(q) \in Nat /\ DOMAIN q = 1..Len(q) /\ \A i \in 1..Len(q) : q[i] \in U
  BY LenProperties, ElementOfSeq
<1>2. q \in [1..Len(q) -> ToSet(q)]
  BY <1>1 DEF ToSet
<1>3. q \in Seq(ToSet(q))
  <2>1. q \in UNION {[1..n -> ToSet(q)] : n \in Nat}
    BY <1>1, <1>2, Zenon
  <2> QED
    BY <2>1, SeqDef
<1> QED
  BY <1>1, <1>3 DEF IsList, ToSet

\* A part and what follows it.
LEMMA PickedConcat ==
  ASSUME NEW U, NEW q \in Seq(U), NEW r \in Seq(U), NEW W
  PROVE  Picked(q \o r, Places(q \o r, W)) = Picked(q, Places(q, W)) \o Picked(r, Places(r, W))
<1> DEFINE qr == q \o r  n == Len(q)
           A == Places(q, W)
           B == Places(r, W)
           C == Places(qr, W)
           p == Picked(q, A)
           K == Kept(qr, C)
           L == Kept(r, B)
           T == {m \in Nat : m <= Len(r) => K[n + m] = p \o L[m]}
<1>1. /\ n \in Nat /\ DOMAIN q = 1..n /\ Len(r) \in Nat /\ DOMAIN r = 1..Len(r)
      /\ \A i \in 1..Len(r) : r[i] \in U
  BY LenProperties, ElementOfSeq
<1>2. /\ qr \in Seq(U) /\ Len(qr) = Len(q) + Len(r)
      /\ \A i \in 1..(Len(q) + Len(r)) : qr[i] = IF i <= Len(q) THEN q[i] ELSE r[i - Len(q)]
  BY ConcatProperties
<1>3. Len(qr) = n + Len(r) /\ DOMAIN qr = 1..(n + Len(r))
  BY <1>2, LenProperties
<1> HIDE DEF qr, n
<1>4. /\ \A i \in 1..n : i \in C <=> i \in A
      /\ \A i \in 1..n : qr[i] = q[i]
      /\ \A m \in 1..Len(r) : qr[n + m] = r[m] /\ (n + m \in C <=> m \in B)
  <2>1. \A i \in 1..n : i \in 1..(n + Len(r)) /\ i <= Len(q)
    BY <1>1 DEF n
  <2>2. \A m \in 1..Len(r) : n + m \in 1..(n + Len(r)) /\ ~(n + m <= Len(q)) /\ (n + m) - Len(q) = m
    BY <1>1 DEF n
  <2>3. \A m \in 1..Len(r) : qr[n + m] = r[m]
    BY <1>2, <2>2 DEF n
  <2>4. \A i \in 1..n : qr[i] = q[i]
    BY <1>2, <2>1 DEF n
  <2> QED
    BY <1>1, <1>3, <2>1, <2>2, <2>3, <2>4 DEF Places
<1>5. \A i \in 1..Len(qr) : K[i] = IF i \in C THEN Append(K[i - 1], qr[i]) ELSE K[i - 1]
  <2> HIDE DEF C
  <2> QED
    BY <1>2, KeptSteps
<1>6. L[0] = <<>> /\ \A i \in 1..Len(r) : L[i] = IF i \in B THEN Append(L[i - 1], r[i]) ELSE L[i - 1]
  BY KeptSteps
<1>7. p \in Seq(U) /\ \A m \in 0..Len(r) : L[m] \in Seq(U)
  BY PickedFrom, KeptFrom
<1>8. K[n] = p
  <2>1. Kept(qr, C)[n] = Kept(q, A)[n]
    <3>1. n <= Len(qr) /\ n <= Len(q)
      BY <1>1, <1>2 DEF n
    <3> HIDE DEF A, C
    <3> QED
      BY <1>1, <1>2, <1>4, <3>1, KeptSame
  <2> QED
    BY <2>1 DEF Picked, n
<1> HIDE DEF p, K, L, B, C
<1>9. 0 \in T
  <2>1. p \o <<>> = p
    BY <1>7, ConcatEmptySeq
  <2>2. n + 0 = n
    BY <1>1
  <2> QED
    BY <1>1, <1>6, <1>8, <2>1, <2>2
<1>10. ASSUME NEW m \in Nat, m \in T PROVE m + 1 \in T
  <2> SUFFICES ASSUME m + 1 <= Len(r) PROVE K[n + (m + 1)] = p \o L[m + 1]
    OBVIOUS
  <2>1. /\ K[n + m] = p \o L[m] /\ m + 1 \in 1..Len(r) /\ m \in 0..Len(r) /\ (m + 1) - 1 = m
        /\ n + (m + 1) \in 1..Len(qr) /\ (n + (m + 1)) - 1 = n + m
    BY <1>1, <1>3, <1>10
  <2>2. r[m + 1] \in U /\ L[m] \in Seq(U) /\ qr[n + (m + 1)] = r[m + 1]
        /\ (n + (m + 1) \in C <=> m + 1 \in B)
    BY <1>1, <1>4, <1>7, <2>1
  <2>3. CASE m + 1 \in B
    <3>1. K[n + (m + 1)] = Append(p \o L[m], r[m + 1]) /\ L[m + 1] = Append(L[m], r[m + 1])
      BY <1>5, <1>6, <2>1, <2>2, <2>3
    <3>2. ASSUME NEW a \in Seq(U), NEW b \in Seq(U), NEW x \in U
          PROVE  Append(a \o b, x) = a \o Append(b, x)
      <4>1. a \o b \in Seq(U) /\ <<x>> \in Seq(U)
        BY ConcatProperties
      <4>2. Append(a \o b, x) = (a \o b) \o <<x>> /\ Append(b, x) = b \o <<x>>
        BY <4>1, AppendIsConcat
      <4>3. (a \o b) \o <<x>> = a \o (b \o <<x>>)
        BY <4>1, ConcatAssociative, SMTT(20)
      <4> QED
        BY <4>2, <4>3, Zenon
    <3>3. Append(p \o L[m], r[m + 1]) = p \o Append(L[m], r[m + 1])
      BY <1>7, <2>2, <3>2
    <3> QED
      BY <2>1, <3>1, <3>3
  <2>4. CASE m + 1 \notin B
    BY <1>5, <1>6, <2>1, <2>2, <2>4
  <2> QED
    BY <2>3, <2>4
<1>11. Len(r) \in T
  <2> HIDE DEF T
  <2> QED
    BY <1>1, <1>9, <1>10, NumberInduction
<1>12. K[Len(qr)] = p \o L[Len(r)]
  BY <1>1, <1>3, <1>11
<1> QED
  BY <1>12 DEF Picked, p, K, L, B, C, qr

\* As many places, as many members.
LEMMA PickedLength ==
  ASSUME NEW U, NEW q \in Seq(U), NEW I, NEW V, NEW r \in Seq(V), NEW J, Len(q) = Len(r),
         \A i \in DOMAIN q : i \in I <=> i \in J
  PROVE  Len(Picked(q, I)) = Len(Picked(r, J))
<1> DEFINE K == Kept(q, I)
           L == Kept(r, J)
           T == {n \in Nat : n <= Len(q) => Len(K[n]) = Len(L[n])}
<1>0. /\ Len(q) \in Nat /\ DOMAIN q = 1..Len(q) /\ \A i \in 1..Len(q) : q[i] \in U
      /\ \A i \in 1..Len(r) : r[i] \in V
  BY LenProperties, ElementOfSeq
<1>1. /\ K[0] = <<>> /\ \A i \in 1..Len(q) : K[i] = IF i \in I THEN Append(K[i - 1], q[i]) ELSE K[i - 1]
      /\ L[0] = <<>> /\ \A i \in 1..Len(r) : L[i] = IF i \in J THEN Append(L[i - 1], r[i]) ELSE L[i - 1]
  BY KeptSteps
<1>2. \A n \in 0..Len(q) : K[n] \in Seq(U) /\ L[n] \in Seq(V)
  BY KeptFrom
<1> HIDE DEF K, L
<1>3. 0 \in T
  BY <1>1
<1>4. ASSUME NEW n \in Nat, n \in T PROVE n + 1 \in T
  <2> SUFFICES ASSUME n + 1 <= Len(q) PROVE Len(K[n + 1]) = Len(L[n + 1])
    OBVIOUS
  <2>1. /\ Len(K[n]) = Len(L[n]) /\ n + 1 \in 1..Len(q) /\ n + 1 \in 1..Len(r) /\ (n + 1) - 1 = n
        /\ n \in 0..Len(q)
    BY <1>0, <1>4
  <2>2. CASE n + 1 \in I
    <3>1. K[n + 1] = Append(K[n], q[n + 1]) /\ L[n + 1] = Append(L[n], r[n + 1])
      BY <1>0, <1>1, <2>1, <2>2
    <3>2. Len(Append(K[n], q[n + 1])) = Len(K[n]) + 1 /\ Len(Append(L[n], r[n + 1])) = Len(L[n]) + 1
      BY <1>0, <1>2, <2>1, AppendProperties
    <3> QED
      BY <2>1, <3>1, <3>2
  <2>3. CASE n + 1 \notin I
    BY <1>0, <1>1, <2>1, <2>3
  <2> QED
    BY <2>2, <2>3
<1>5. Len(q) \in T
  <2> HIDE DEF T
  <2> QED
    BY <1>0, <1>3, <1>4, NumberInduction
<1> QED
  BY <1>5 DEF Picked, K, L

\* The members that are kept stay in order.
LEMMA PickedOrder ==
  ASSUME NEW U, NEW q \in Seq(U), NEW I
  PROVE  LET p == Picked(q, I) IN
         \A a, b \in DOMAIN p : a < b =>
           \E i, j \in I \cap DOMAIN q : i < j /\ p[a] = q[i] /\ p[b] = q[j]
<1> DEFINE K == Kept(q, I)
           Ordered(s, n) == \A a, b \in DOMAIN s : a < b =>
                              \E i, j \in I \cap (1..n) : i < j /\ s[a] = q[i] /\ s[b] = q[j]
           T == {n \in Nat : n <= Len(q) => Ordered(K[n], n)}
<1>0. Len(q) \in Nat /\ DOMAIN q = 1..Len(q) /\ \A i \in 1..Len(q) : q[i] \in U
  BY LenProperties, ElementOfSeq
<1>1. K[0] = <<>> /\ \A i \in 1..Len(q) : K[i] = IF i \in I THEN Append(K[i - 1], q[i]) ELSE K[i - 1]
  BY KeptSteps
<1>2. \A n \in 0..Len(q) : /\ K[n] \in Seq(U)
                            /\ \A a \in DOMAIN K[n] : \E i \in 1..n : i \in I /\ K[n][a] = q[i]
  BY KeptFrom
<1> HIDE DEF K
<1>3. 0 \in T
  <2>1. Ordered(<<>>, 0)
    OBVIOUS
  <2> HIDE DEF Ordered
  <2> QED
    BY <1>1, <2>1
<1>4. ASSUME NEW n \in Nat, n \in T PROVE n + 1 \in T
  <2> SUFFICES ASSUME n + 1 <= Len(q) PROVE Ordered(K[n + 1], n + 1)
    OBVIOUS
  <2>0. Ordered(K[n], n)
    <3> HIDE DEF Ordered
    <3> QED
      BY <1>0, <1>4
  <2>1. n + 1 \in 1..Len(q) /\ (n + 1) - 1 = n /\ n \in 0..Len(q) /\ 1..n \subseteq 1..(n + 1)
    BY <1>0
  <2>2. CASE n + 1 \notin I
    <3>1. K[n + 1] = K[n]
      BY <1>1, <2>1, <2>2
    <3> QED
      BY <2>0, <2>1, <3>1
  <2>3. CASE n + 1 \in I
    <3> DEFINE s == K[n]  x == q[n + 1]  t == Append(s, x)
    <3>1. K[n + 1] = t /\ s \in Seq(U) /\ x \in U
      BY <1>0, <1>1, <1>2, <2>1, <2>3
    <3>2. /\ DOMAIN t = 1..(Len(s) + 1) /\ DOMAIN s = 1..Len(s) /\ Len(s) \in Nat
          /\ \A k \in 1..Len(s) : t[k] = s[k]
          /\ t[Len(s) + 1] = x
      BY <3>1, AppendProperties, LenProperties
    <3>3. \A a \in DOMAIN s : \E i \in 1..n : i \in I /\ s[a] = q[i]
      BY <1>2, <2>1
    <3>4. \A a, b \in DOMAIN s : a < b =>
            \E i, j \in I \cap (1..n) : i < j /\ s[a] = q[i] /\ s[b] = q[j]
      BY <2>0
    <3>5. x = q[n + 1] /\ n + 1 \in I \cap (1..(n + 1))
      BY <2>3
    <3> HIDE DEF s, x, t
    <3>6. ASSUME NEW a \in 1..(Len(s) + 1), NEW b \in 1..(Len(s) + 1), a < b
          PROVE  \E i, j \in I \cap (1..(n + 1)) : i < j /\ t[a] = q[i] /\ t[b] = q[j]
      <4>1. a \in 1..Len(s) /\ t[a] = s[a]
        BY <3>2, <3>6
      <4>2. CASE b \in 1..Len(s)
        <5>1. PICK i, j \in I \cap (1..n) : i < j /\ s[a] = q[i] /\ s[b] = q[j]
          BY <3>2, <3>4, <3>6, <4>1, <4>2, ZenonT(30)
        <5> QED
          BY <2>1, <3>2, <4>1, <4>2, <5>1
      <4>3. CASE b \notin 1..Len(s)
        <5>1. t[b] = x
          <6>1. b = Len(s) + 1
            BY <3>2, <4>3
          <6> QED
            BY <3>2, <6>1
        <5>2. PICK i \in 1..n : i \in I /\ s[a] = q[i]
          BY <3>2, <3>3, <4>1
        <5>3. i < n + 1 /\ i \in I \cap (1..(n + 1))
          BY <5>2
        <5> QED
          BY <3>5, <4>1, <5>1, <5>2, <5>3
      <4> QED
        BY <4>2, <4>3
    <3>7. Ordered(t, n + 1)
      BY <3>2, <3>6
    <3> HIDE DEF Ordered
    <3> QED
      BY <3>1, <3>7
  <2> QED
    BY <2>2, <2>3
<1>5. Len(q) \in T
  <2> HIDE DEF T
  <2> QED
    BY <1>0, <1>3, <1>4, NumberInduction
<1>6. Ordered(K[Len(q)], Len(q))
  <2> HIDE DEF Ordered
  <2> QED
    BY <1>0, <1>5
<1> QED
  BY <1>0, <1>6 DEF Picked, K

-----------------------------------------------------------------------------
(* The hooks of an agent.                                                  *)

\* The least of some places.
LEMMA LeastPlace ==
  ASSUME NEW n \in Nat, NEW S, S \subseteq 1..n, S # {}
  PROVE  LET i == CHOOSE x \in S : \A y \in S : x <= y IN i \in S /\ \A y \in S : i <= y
<1>1. S \subseteq Nat
  OBVIOUS
<1>2. \E x \in S : \A y \in S : ~(y < x)
  BY <1>1, LeastMember
<1>3. \E x \in S : \A y \in S : x <= y
  BY <1>1, <1>2
<1> QED
  BY <1>3

\* Which hooks are whose does not change when some are left out.
LEMMA HooksAppended ==
  ASSUME NEW U, NEW hooks \in Seq(U), NEW hook \in U, IsOurs(hook)
  PROVE  /\ UserHooks(Append(hooks, hook)) = UserHooks(hooks)
         /\ OurHooks(Append(hooks, hook)) = Append(OurHooks(hooks), hook)
<1> DEFINE new == Append(hooks, hook)  n == Len(hooks)
           O == Ours(new)  R == DOMAIN new \ Ours(new)
           S == DOMAIN hooks \ Ours(hooks)
<1>1. /\ n \in Nat /\ DOMAIN hooks = 1..n /\ new \in Seq(U) /\ Len(new) = n + 1 /\ DOMAIN new = 1..(n + 1)
      /\ new[n + 1] = hook /\ \A i \in 1..n : new[i] = hooks[i]
  BY LenProperties, AppendProperties
<1> HIDE DEF n, new
<1>2. /\ n + 1 \in O /\ n + 1 \notin R
      /\ \A i \in DOMAIN hooks : (i \in O <=> i \in Ours(hooks)) /\ (i \in R <=> i \in S)
  BY <1>1 DEF Ours
<1> HIDE DEF O, R, S
<1>3. Picked(hooks, O) = Picked(hooks, Ours(hooks)) /\ Picked(hooks, R) = Picked(hooks, S)
  BY <1>2, PickedSame
<1>4. /\ Picked(new, R) = IF n + 1 \in R THEN Append(Picked(hooks, R), hook) ELSE Picked(hooks, R)
      /\ Picked(new, O) = IF n + 1 \in O THEN Append(Picked(hooks, O), hook) ELSE Picked(hooks, O)
  BY PickedAppend DEF n, new
<1> QED
  BY <1>2, <1>3, <1>4 DEF UserHooks, OurHooks, O, R, S, new

LEMMA FirstReplaced ==
  ASSUME NEW U, NEW hooks \in Seq(U), NEW hook \in U, IsOurs(hook), NEW found, found \subseteq Ours(hooks)
  PROVE  LET new == ReplaceFirst(hooks, found, hook) IN
         /\ new \in Seq(U)
         /\ UserHooks(new) = UserHooks(hooks)
         /\ IF found = {} THEN OurHooks(new) = Append(OurHooks(hooks), hook)
                          ELSE Len(OurHooks(new)) = Len(OurHooks(hooks))
<1>1. CASE found = {}
  <2>1. ReplaceFirst(hooks, found, hook) = Append(hooks, hook)
    BY <1>1 DEF ReplaceFirst
  <2>2. /\ UserHooks(Append(hooks, hook)) = UserHooks(hooks)
        /\ OurHooks(Append(hooks, hook)) = Append(OurHooks(hooks), hook)
    BY HooksAppended
  <2>3. Append(hooks, hook) \in Seq(U)
    BY AppendProperties
  <2> QED
    BY <1>1, <2>1, <2>2, <2>3
<1>2. CASE found # {}
  <2> DEFINE first == CHOOSE i \in found : \A j \in found : i <= j
             new == [hooks EXCEPT ![first] = hook]
             n == Len(hooks)
  <2>1. n \in Nat /\ DOMAIN hooks = 1..n /\ \A i \in 1..n : hooks[i] \in U
    BY LenProperties, ElementOfSeq
  <2>2. found \subseteq 1..n
    BY <2>1 DEF Ours
  <2>3. first \in Ours(hooks)
    BY <1>2, <2>1, <2>2, LeastPlace
  <2> HIDE DEF first
  <2>4. /\ DOMAIN new = 1..n /\ \A i \in 1..n : new[i] = IF i = first THEN hook ELSE hooks[i]
        /\ new \in Seq(U) /\ Len(new) = n
    <3>1. DOMAIN new = 1..n /\ \A i \in 1..n : new[i] = IF i = first THEN hook ELSE hooks[i]
      <4> HIDE DEF n
      <4> QED
        BY <2>1
    <3>2. new \in [1..n -> U]
      <4> HIDE DEF n
      <4> QED
        BY <2>1
    <3> HIDE DEF new, n
    <3>3. new \in Seq(U) /\ Len(new) = n
      BY <2>1, <3>2
    <3> QED
      BY <3>1, <3>3
  <2>5. ReplaceFirst(hooks, found, hook) = new
    BY <1>2 DEF ReplaceFirst, first
  <2> HIDE DEF new, n
  <2>6. \A i \in 1..n : i \in Ours(new) <=> i \in Ours(hooks)
    BY <2>1, <2>3, <2>4 DEF Ours
  <2> DEFINE R == DOMAIN new \ Ours(new)
             S == DOMAIN hooks \ Ours(hooks)
  <2>7. \A i \in DOMAIN hooks : (i \in S <=> i \in R) /\ (i \in S => hooks[i] = new[i])
    BY <2>1, <2>3, <2>4, <2>6
  <2>8. UserHooks(hooks) = UserHooks(new)
    <3> HIDE DEF R, S
    <3>1. Picked(hooks, S) = Picked(new, R)
      BY <2>4, <2>7, PickedSame DEF n
    <3> QED
      BY <3>1 DEF UserHooks, R, S
  <2>9. Len(OurHooks(hooks)) = Len(OurHooks(new))
    BY <2>1, <2>4, <2>6, PickedLength DEF OurHooks, n
  <2> QED
    BY <1>2, <2>4, <2>5, <2>8, <2>9
<1> QED
  BY <1>1, <1>2

LEMMA UserHooksAlone ==
  ASSUME NEW U, NEW hooks \in Seq(U)
  PROVE  LET users == UserHooks(hooks) IN
         users \in Seq(U) /\ UserHooks(users) = users /\ OurHooks(users) = <<>>
<1> DEFINE I == DOMAIN hooks \ Ours(hooks)
           users == Picked(hooks, I)
           W == {x \in U : ~IsOurs(x)}
<1> HIDE DEF I, W
<1>1. /\ users \in Seq(U)
      /\ \A k \in DOMAIN users : \E i \in DOMAIN hooks : i \in I /\ users[k] = hooks[i]
  BY PickedFrom
<1>2. Picked(users, Places(users, W)) = Picked(hooks, I \cap Places(hooks, W))
  BY PickedTwice
<1> HIDE DEF users
<1>3. \A k \in DOMAIN users : ~IsOurs(users[k])
  BY <1>1 DEF Ours, I
<1>4. I \cap Places(hooks, W) = I
  BY LenProperties DEF I, Places, W, Ours
<1>5. Places(users, W) = DOMAIN users \ Ours(users)
  BY <1>1, <1>3, LenProperties DEF Places, W, Ours
<1>6. Picked(users, DOMAIN users \ Ours(users)) = users
  BY <1>2, <1>4, <1>5 DEF users
<1>7. \A k \in DOMAIN users : k \notin Ours(users)
  BY <1>3 DEF Ours
<1>8. Picked(users, Ours(users)) = <<>>
  BY <1>1, <1>7, PickedNone
<1> QED
  BY <1>1, <1>6, <1>8 DEF UserHooks, OurHooks, users, I

\* The user's hooks stay as they are, and there is no second one of Memory Bank's
\* in the files of Codex and Gemini unless there was one before.
LEMMA HooksUpserted ==
  ASSUME NEW U, NEW hooks \in Seq(U), NEW port, HookCommand(port) \in U, NEW agent \in HookAgents
  PROVE  LET new == UpsertHook(agent, hooks, port) IN
         /\ new \in Seq(U)
         /\ UserHooks(new) = UserHooks(hooks)
         /\ agent \in {"codex", "gemini-cli"} =>
              Len(OurHooks(new)) <= 1 \/ Len(OurHooks(new)) <= Len(OurHooks(hooks))
<1> DEFINE hook == HookCommand(port)
<1>1. IsOurs(hook)
  BY DEF IsOurs, HookCommand, OurHook
<1>2. Len(<<>>) = 0 /\ Append(<<>>, hook) = <<hook>> /\ Len(<<hook>>) = 1
  OBVIOUS
<1> HIDE DEF hook
<1>3. CASE agent = "claude-code"
  <2>1. UpsertHook(agent, hooks, port) = ReplaceFirst(hooks, {i \in Ours(hooks) : hooks[i].style = "plain"}, hook)
    BY <1>3 DEF UpsertHook, UpsertClaudeHook, hook
  <2>2. {i \in Ours(hooks) : hooks[i].style = "plain"} \subseteq Ours(hooks)
    OBVIOUS
  <2> QED
    BY <1>1, <1>3, <2>1, <2>2, FirstReplaced DEF hook
<1>4. CASE agent = "gemini-cli"
  <2> DEFINE new == ReplaceFirst(hooks, Ours(hooks), hook)
  <2>1. UpsertHook(agent, hooks, port) = new
    BY <1>4 DEF UpsertHook, UpsertGeminiHook, hook
  <2>2. /\ new \in Seq(U) /\ UserHooks(new) = UserHooks(hooks)
        /\ IF Ours(hooks) = {} THEN OurHooks(new) = Append(OurHooks(hooks), hook)
                               ELSE Len(OurHooks(new)) = Len(OurHooks(hooks))
    BY <1>1, FirstReplaced DEF hook
  <2>3. Ours(hooks) = {} => OurHooks(hooks) = <<>>
    BY PickedNone DEF OurHooks
  <2>4. OurHooks(hooks) \in Seq(U) /\ Len(OurHooks(hooks)) \in Nat
    BY PickedFrom, LenProperties DEF OurHooks
  <2> HIDE DEF new
  <2> QED
    BY <1>2, <2>1, <2>2, <2>3, <2>4
<1>5. CASE agent = "codex"
  <2> DEFINE users == UserHooks(hooks)
             new == Append(users, hook)
  <2>1. UpsertHook(agent, hooks, port) = new
    BY <1>5 DEF UpsertHook, UpsertCodexHook, hook
  <2>2. users \in Seq(U) /\ UserHooks(users) = users /\ OurHooks(users) = <<>>
    BY UserHooksAlone
  <2> HIDE DEF users
  <2>3. new \in Seq(U) /\ UserHooks(new) = UserHooks(users) /\ OurHooks(new) = Append(OurHooks(users), hook)
    BY <1>1, <2>2, HooksAppended, AppendProperties DEF hook
  <2>4. Len(OurHooks(new)) <= 1
    BY <1>2, <2>2, <2>3
  <2> QED
    BY <2>1, <2>2, <2>3, <2>4 DEF users
<1> QED
  BY <1>3, <1>4, <1>5 DEF HookAgents

-----------------------------------------------------------------------------
(* The TOML file of Codex.                                                 *)

LEMMA WithoutKeysPlaces ==
  ASSUME NEW U, NEW lines \in Seq(U), NEW keys
  PROVE  /\ WithoutKeys(lines, keys) = Picked(lines, Places(lines, {x \in U : x.key \notin keys}))
         /\ WithoutKeys(lines, keys) \in Seq(U)
<1>1. {i \in DOMAIN lines : lines[i].key \notin keys} = Places(lines, {x \in U : x.key \notin keys})
  BY LenProperties DEF Places
<1> QED
  BY <1>1, PickedFrom DEF WithoutKeys

\* Removing fewer keys before does not show.
LEMMA WithoutKeysTwice ==
  ASSUME NEW U, NEW lines \in Seq(U), NEW some, NEW keys, some \subseteq keys
  PROVE  WithoutKeys(WithoutKeys(lines, some), keys) = WithoutKeys(lines, keys)
<1> DEFINE W(k) == {x \in U : x.key \notin k}
<1>1. \A q \in Seq(U) : WithoutKeys(q, keys) = Picked(q, Places(q, W(keys)))
  BY WithoutKeysPlaces
<1>2. /\ WithoutKeys(lines, some) = Picked(lines, Places(lines, W(some)))
      /\ WithoutKeys(lines, some) \in Seq(U)
  BY WithoutKeysPlaces
<1>3. Places(lines, W(some)) \cap Places(lines, W(keys)) = Places(lines, W(keys))
  BY DEF Places
<1> HIDE DEF W
<1>4. Picked(Picked(lines, Places(lines, W(some))), Places(Picked(lines, Places(lines, W(some))), W(keys)))
        = Picked(lines, Places(lines, W(some)) \cap Places(lines, W(keys)))
  BY PickedTwice
<1> QED
  BY <1>1, <1>2, <1>3, <1>4

\* The switch for the hooks is Memory Bank's.
LEMMA FeaturesKept ==
  ASSUME NEW lines, IsList(lines)
  PROVE  /\ IsList(UpsertFeatures(lines))
         /\ WithoutKeys(UpsertFeatures(lines), ManagedKeys) = WithoutKeys(lines, ManagedKeys)
<1> DEFINE U == ToSet(lines) \cup {HooksOn}
           n == Len(lines)
           W == {x \in U : x.key \notin ManagedKeys}
           set == {i \in DOMAIN lines : lines[i].key = "codex_hooks"}
           on == [i \in DOMAIN lines |-> IF i \in set THEN HooksOn ELSE lines[i]]
           J == {i \in DOMAIN lines : i \in set => \A j \in set : i <= j}
<1>0. lines \in Seq(ToSet(lines))
  BY DEF IsList
<1>1. n \in Nat /\ DOMAIN lines = 1..n /\ \A i \in 1..n : lines[i] \in U
  BY <1>0, LenProperties, ElementOfSeq
<1>2. lines \in Seq(U) /\ HooksOn \in U
  <2>1. lines \in [1..n -> U]
    BY <1>0, <1>1, LenProperties
  <2>2. lines \in UNION {[1..m -> U] : m \in Nat}
    BY <1>1, <2>1, Zenon
  <2>3. lines \in Seq(U)
    <3> HIDE DEF U
    <3> QED
      BY <2>2, SeqDef
  <2> QED
    BY <2>3
<1>3. HooksOn.key \in ManagedKeys /\ "codex_hooks" \in ManagedKeys
  BY DEF HooksOn, Assign, ManagedKeys
<1> HIDE DEF U, n
<1>4. \A q \in Seq(U) : WithoutKeys(q, ManagedKeys) = Picked(q, Places(q, W))
  BY WithoutKeysPlaces
<1>5. CASE set = {}
  <2> DEFINE new == Append(lines, HooksOn)
  <2>1. UpsertFeatures(lines) = new
    BY <1>5 DEF UpsertFeatures
  <2>2. /\ new \in Seq(U) /\ DOMAIN new = 1..(n + 1) /\ new[n + 1] = HooksOn
        /\ \A i \in 1..n : new[i] = lines[i]
    BY <1>1, <1>2, AppendProperties, LenProperties DEF n
  <2> HIDE DEF new
  <2>3. n + 1 \notin Places(new, W) /\ \A i \in DOMAIN lines : i \in Places(new, W) <=> i \in Places(lines, W)
    BY <1>1, <1>3, <2>2 DEF Places
  <2>4. Picked(new, Places(new, W)) = Picked(lines, Places(new, W))
    BY <1>2, <2>3, PickedAppend DEF new, n
  <2>5. Picked(lines, Places(new, W)) = Picked(lines, Places(lines, W))
    <3> HIDE DEF W
    <3> QED
      BY <1>2, <2>3, PickedSame
  <2> QED
    BY <1>2, <1>4, <2>1, <2>2, <2>4, <2>5, IsListSeq
<1>6. CASE set # {}
  <2>1. UpsertFeatures(lines) = Picked(on, J)
    BY <1>6 DEF UpsertFeatures
  <2>2. /\ on \in Seq(U) /\ Len(on) = n /\ DOMAIN on = 1..n
        /\ \A i \in 1..n : on[i] = IF lines[i].key = "codex_hooks" THEN HooksOn ELSE lines[i]
    <3>1. on \in [1..n -> U]
      BY <1>1, <1>2
    <3>2. \A i \in 1..n : on[i] = IF lines[i].key = "codex_hooks" THEN HooksOn ELSE lines[i]
      BY <1>1
    <3> HIDE DEF on
    <3> QED
      BY <1>1, <3>1, <3>2
  <2>3. \A i \in 1..n : lines[i].key # "codex_hooks" => i \in J
    BY <1>1
  <2> HIDE DEF on, J
  <2> DEFINE A == J \cap Places(on, W)
             B == Places(lines, W)
  <2>4. \A i \in DOMAIN on : (i \in A <=> i \in B) /\ (i \in A => on[i] = lines[i])
    BY <1>1, <1>3, <2>2, <2>3 DEF Places
  <2> HIDE DEF W
  <2>5. Picked(on, J \cap Places(on, W)) = Picked(lines, Places(lines, W))
    <3> HIDE DEF A, B
    <3>2. Picked(on, A) = Picked(lines, B)
      BY <1>2, <2>2, <2>4, PickedSame DEF n
    <3> QED
      BY <3>2 DEF A, B
  <2>6. Picked(Picked(on, J), Places(Picked(on, J), W)) = Picked(on, J \cap Places(on, W))
    BY <2>2, PickedTwice
  <2>7. Picked(on, J) \in Seq(U)
    BY <2>2, PickedFrom
  <2> QED
    BY <1>2, <1>4, <2>1, <2>5, <2>6, <2>7, IsListSeq
<1> QED
  BY <1>5, <1>6

IsSection(x) == x = Section(x.header, x.lines) /\ IsList(x.lines)

\* A section keeps its header, and what is the user's in it.
LEMMA SectionKept ==
  ASSUME NEW x, IsSection(x), NEW port
  PROVE  LET new == Rewritten(x, port) IN
         /\ IsSection(new) /\ new.header = x.header
         /\ UserSection(new) = UserSection(x)
<1>0. x = Section(x.header, x.lines) /\ IsList(x.lines)
  BY DEF IsSection
<1>1. \A a, b : Section(a, b).header = a /\ Section(a, b).lines = b
  BY DEF Section
<1>2. ASSUME NEW lines, IsList(lines), Rewritten(x, port) = Section(x.header, lines),
             x.header # MemoryBankMcp => WithoutKeys(lines, ManagedKeys) = WithoutKeys(x.lines, ManagedKeys)
      PROVE  LET new == Rewritten(x, port) IN
             /\ IsSection(new) /\ new.header = x.header
             /\ UserSection(new) = UserSection(x)
  <2>1. \A a, b : UserSection(Section(a, b))
                    = Section(a, IF a = MemoryBankMcp THEN <<>> ELSE WithoutKeys(b, ManagedKeys))
    BY DEF UserSection, Section
  <2>2. UserSection(Section(x.header, lines)) = UserSection(Section(x.header, x.lines))
    BY <1>2, <2>1
  <2> QED
    BY <1>0, <1>1, <1>2, <2>2 DEF IsSection
<1>3. \A a, b, c : [Section(a, b) EXCEPT !.lines = c] = Section(a, c)
  BY DEF Section
<1>4. CASE x.header = ""
  <2> DEFINE lines == WithoutKeys(x.lines, {"features", "mcp_servers"})
  <2>1. Rewritten(x, port) = [x EXCEPT !.lines = lines]
    BY <1>4 DEF Rewritten, MemoryBankMcp
  <2>2. lines \in Seq(ToSet(x.lines)) /\ {"features", "mcp_servers"} \subseteq ManagedKeys
    BY <1>0, WithoutKeysPlaces DEF IsList, ManagedKeys
  <2>3. WithoutKeys(lines, ManagedKeys) = WithoutKeys(x.lines, ManagedKeys)
    BY <1>0, <2>2, WithoutKeysTwice DEF IsList
  <2>4. IsList(lines)
    BY <2>2, IsListSeq
  <2> HIDE DEF lines
  <2>5. Rewritten(x, port) = Section(x.header, lines)
    BY <1>0, <1>3, <2>1
  <2> QED
    BY <1>2, <2>3, <2>4, <2>5
<1>5. CASE x.header = "features"
  <2> DEFINE lines == UpsertFeatures(x.lines)
  <2>1. Rewritten(x, port) = [x EXCEPT !.lines = lines]
    BY <1>5 DEF Rewritten, MemoryBankMcp
  <2>2. IsList(lines) /\ WithoutKeys(lines, ManagedKeys) = WithoutKeys(x.lines, ManagedKeys)
    BY <1>0, FeaturesKept
  <2> HIDE DEF lines
  <2>3. Rewritten(x, port) = Section(x.header, lines)
    BY <1>0, <1>3, <2>1
  <2> QED
    BY <1>2, <2>2, <2>3
<1>6. CASE x.header = MemoryBankMcp
  <2> DEFINE lines == McpLines(port)
  <2>1. Rewritten(x, port) = [x EXCEPT !.lines = lines]
    BY <1>6 DEF Rewritten, MemoryBankMcp
  <2>2. IsList(lines)
    <3>1. lines \in Seq({Assign("url", port), Assign("enabled", "true")})
      BY DEF McpLines
    <3> QED
      BY <3>1, IsListSeq
  <2> HIDE DEF lines
  <2>3. Rewritten(x, port) = Section(x.header, lines)
    BY <1>0, <1>3, <2>1
  <2> QED
    BY <1>2, <1>6, <2>2, <2>3
<1>7. CASE x.header \notin {"", "features", MemoryBankMcp}
  <2>1. Rewritten(x, port) = [x EXCEPT !.lines = x.lines]
    BY <1>7 DEF Rewritten
  <2>2. Rewritten(x, port) = Section(x.header, x.lines)
    BY <1>0, <1>3, <2>1
  <2> QED
    BY <1>0, <1>2, <2>2
<1> QED
  BY <1>4, <1>5, <1>6, <1>7

\* A managed section has one place: below its header, where that comes again, there
\* is nothing of the user's.
OncePlaced(sections) ==
  \A i \in DOMAIN sections \ Firsts(sections) : UserSection(sections[i]).lines = <<>>

LEMMA AssignmentsThrough ==
  ASSUME NEW U, NEW sections \in Seq(U)
  PROVE  UserAssignments(sections)
           = Picked(Mapped([x \in U |-> UserSection(x)], sections),
                    Places(sections, {x \in U : UserSection(x).lines # <<>>}))
<1> DEFINE F == [x \in U |-> UserSection(x)]
           W == {x \in U : UserSection(x).lines # <<>>}
           users == [i \in DOMAIN sections |-> UserSection(sections[i])]
<1>1. \A i \in DOMAIN sections : sections[i] \in U
  BY LenProperties
<1>2. users = Mapped(F, sections)
  BY <1>1 DEF Mapped
<1>3. {i \in DOMAIN users : users[i].lines # <<>>} = Places(sections, W)
  BY <1>1 DEF Places
<1> QED
  BY <1>2, <1>3, Zenon DEF UserAssignments

\* A section without anything of the user's can be added.
LEMMA SectionAdded ==
  ASSUME NEW U, NEW sections \in Seq(U), NEW x \in U, UserSection(x).lines = <<>>
  PROVE  UserAssignments(Append(sections, x)) = UserAssignments(sections)
<1> DEFINE F == [y \in U |-> UserSection(y)]
           W == {y \in U : UserSection(y).lines # <<>>}
           V == {UserSection(y) : y \in U}
           n == Len(sections)
           new == Append(sections, x)
           r == Mapped(F, sections)
           s == Mapped(F, new)
           P == Places(sections, W)
           Q == Places(new, W)
<1>1. /\ n \in Nat /\ DOMAIN sections = 1..n /\ \A i \in 1..n : sections[i] \in U
      /\ new \in Seq(U) /\ Len(new) = n + 1 /\ DOMAIN new = 1..(n + 1) /\ new[n + 1] = x
      /\ \A i \in 1..n : new[i] = sections[i]
  BY LenProperties, AppendProperties, ElementOfSeq
<1>2. UserAssignments(sections) = Picked(r, P) /\ UserAssignments(new) = Picked(s, Q)
  BY <1>1, AssignmentsThrough
<1>3. \A y \in U : F[y] = UserSection(y) /\ F[y] \in V
  OBVIOUS
<1> HIDE DEF n, new, F, V
<1>4. r \in Seq(V) /\ Len(r) = n /\ DOMAIN r = 1..n /\ \A i \in 1..n : r[i] = F[sections[i]]
  BY <1>1, <1>3 DEF Mapped
<1>5. s \in Seq(V) /\ Len(s) = n + 1 /\ \A i \in 1..(n + 1) : s[i] = F[new[i]]
  BY <1>1, <1>3 DEF Mapped
<1>6. n + 1 \notin Q /\ \A i \in 1..n : i \in Q <=> i \in P
  BY <1>1 DEF Places
<1> HIDE DEF r, s, P, Q
<1>7. s = Append(r, F[x])
  <2>1. /\ Append(r, F[x]) \in Seq(V) /\ Len(Append(r, F[x])) = n + 1
        /\ Append(r, F[x])[n + 1] = F[x] /\ \A k \in 1..n : Append(r, F[x])[k] = r[k]
    BY <1>3, <1>4, AppendProperties
  <2>2. \A k \in 1..(n + 1) : s[k] = Append(r, F[x])[k]
    BY <1>1, <1>4, <1>5, <2>1
  <2> QED
    BY <1>5, <2>1, <2>2, SeqEqual
<1>8. Picked(s, Q) = Picked(r, Q)
  BY <1>3, <1>4, <1>6, <1>7, PickedAppend
<1>9. Picked(r, Q) = Picked(r, P)
  BY <1>4, <1>6, PickedSame
<1> QED
  BY <1>2, <1>8, <1>9 DEF new

\* The sections as they are rewritten, without those that come again.
LEMMA SectionsMerged ==
  ASSUME NEW sections, IsToml(sections), OncePlaced(sections), NEW port
  PROVE  LET merged == Picked([i \in DOMAIN sections |-> Rewritten(sections[i], port)], Firsts(sections)) IN
         /\ IsToml(merged)
         /\ UserAssignments(merged) = UserAssignments(sections)
         /\ Firsts(merged) = DOMAIN merged
<1> DEFINE U == ToSet(sections)
           r == [i \in DOMAIN sections |-> Rewritten(sections[i], port)]
           V == {Rewritten(x, port) : x \in U}
           I == Firsts(sections)
           m == Picked(r, I)
           n == Len(sections)
<1>1. /\ sections \in Seq(U) /\ n \in Nat /\ DOMAIN sections = 1..n
      /\ \A i \in 1..n : sections[i] \in U /\ IsSection(sections[i])
  BY LenProperties DEF IsToml, IsList, IsSection, ToSet
<1>2. /\ r \in Seq(V) /\ Len(r) = n /\ DOMAIN r = 1..n
      /\ \A i \in 1..n : r[i] = Rewritten(sections[i], port)
  <2> HIDE DEF n
  <2>1. \A i \in 1..n : Rewritten(sections[i], port) \in V
    BY <1>1
  <2>2. r \in [1..n -> V] /\ \A i \in 1..n : r[i] = Rewritten(sections[i], port)
    <3> HIDE DEF V, U
    <3> QED
      BY <1>1, <2>1
  <2> HIDE DEF r, V
  <2> QED
    BY <1>1, <2>2
<1>3. \A i \in 1..n : /\ IsSection(r[i]) /\ r[i].header = sections[i].header
                      /\ UserSection(r[i]) = UserSection(sections[i])
  <2> HIDE DEF r, n
  <2> QED
    BY <1>1, <1>2, SectionKept
<1> HIDE DEF r, n, U, V, I
<1>4. m \in Seq(V) /\ \A k \in DOMAIN m : \E i \in 1..n : i \in I /\ m[k] = r[i]
  BY <1>2, PickedFrom
<1>5. \A a, b \in DOMAIN m : a < b => \E i, j \in I \cap (1..n) : i < j /\ m[a] = r[i] /\ m[b] = r[j]
  BY <1>2, PickedOrder
<1>6. IsToml(m)
  <2> HIDE DEF m
  <2>1. \A k \in DOMAIN m : IsSection(m[k])
    BY <1>3, <1>4
  <2> QED
    BY <1>4, <2>1, IsListSeq DEF IsToml, IsSection
<1>7. Firsts(m) = DOMAIN m
  <2> HIDE DEF m
  <2>1. Len(m) \in Nat /\ DOMAIN m = 1..Len(m)
    BY <1>4, LenProperties
  <2>2. ASSUME NEW b \in DOMAIN m, m[b].header \in ManagedHeaders, NEW a \in 1..(b - 1)
        PROVE  m[a].header # m[b].header
    <3>1. a \in DOMAIN m /\ a < b
      BY <2>1
    <3>2. PICK i, j \in I \cap (1..n) : i < j /\ m[a] = r[i] /\ m[b] = r[j]
      BY <1>5, <3>1
    <3>3. sections[j].header \in ManagedHeaders /\ i \in 1..(j - 1)
      BY <1>3, <2>2, <3>2
    <3>4. sections[i].header # sections[j].header
      BY <3>2, <3>3 DEF I, Firsts
    <3> QED
      BY <1>3, <3>2, <3>4
  <2> QED
    BY <2>2 DEF Firsts
<1>8. UserAssignments(m) = UserAssignments(sections)
  <2> DEFINE FV == [x \in V |-> UserSection(x)]
             WV == {x \in V : UserSection(x).lines # <<>>}
             FU == [x \in U |-> UserSection(x)]
             WU == {x \in U : UserSection(x).lines # <<>>}
             A == I \cap Places(r, WV)
             B == Places(sections, WU)
             X == {UserSection(x) : x \in V}
             Y == {UserSection(x) : x \in U}
  <2>1. UserAssignments(m) = Picked(Mapped(FV, m), Places(m, WV))
    BY <1>4, AssignmentsThrough
  <2>2. UserAssignments(sections) = Picked(Mapped(FU, sections), B)
    BY <1>1, AssignmentsThrough
  <2>3. \A i \in 1..n : r[i] \in V
    BY <1>2
  <2>4. \A i \in DOMAIN r : i \in A <=> i \in B
    <3>1. \A i \in 1..n : i \in A <=> i \in I /\ UserSection(sections[i]).lines # <<>>
      BY <1>2, <1>3, <2>3 DEF Places
    <3>2. \A i \in 1..n : i \in B <=> UserSection(sections[i]).lines # <<>>
      BY <1>1 DEF Places
    <3>3. \A i \in 1..n : i \notin I => UserSection(sections[i]).lines = <<>>
      BY <1>1 DEF OncePlaced, I
    <3> QED
      BY <1>2, <3>1, <3>2, <3>3
  <2>5. /\ \A x \in V : FV[x] = UserSection(x) /\ FV[x] \in X
        /\ \A x \in U : FU[x] = UserSection(x) /\ FU[x] \in Y
    OBVIOUS
  <2> HIDE DEF WV, WU, FV, FU, A, B, X, Y
  <2>6. Picked(Mapped(FV, m), Places(m, WV)) = Picked(Mapped(FV, r), A)
    BY <1>2, PickedThrough DEF A
  <2> HIDE DEF m
  <2> DEFINE p == Mapped(FV, r)
             q == Mapped(FU, sections)
  <2>7. p \in Seq(X) /\ Len(p) = n /\ DOMAIN p = 1..n /\ \A i \in 1..n : p[i] = UserSection(r[i])
    BY <1>1, <1>2, <2>3, <2>5 DEF Mapped
  <2>8. q \in Seq(Y) /\ Len(q) = n /\ \A i \in 1..n : q[i] = UserSection(sections[i])
    BY <1>1, <2>5 DEF Mapped
  <2> HIDE DEF p, q
  <2>9. Picked(p, A) = Picked(q, B)
    <3>1. \A i \in DOMAIN p : (i \in A <=> i \in B) /\ (i \in A => p[i] = q[i])
      BY <1>2, <1>3, <2>4, <2>7, <2>8
    <3> QED
      BY <2>7, <2>8, <3>1, PickedSame
  <2> QED
    BY <2>1, <2>2, <2>6, <2>9 DEF p, q
<1> QED
  BY <1>6, <1>7, <1>8 DEF m, r, I

LEMMA SectionPut ==
  ASSUME NEW sections, IsToml(sections), Firsts(sections) = DOMAIN sections,
         NEW header \in {"features", MemoryBankMcp}, NEW port
  PROVE  LET new == WithSection(sections, header, port) IN
         /\ IsToml(new)
         /\ UserAssignments(new) = UserAssignments(sections)
         /\ Firsts(new) = DOMAIN new
<1>1. CASE HasSection(sections, header)
  BY <1>1 DEF WithSection
<1>2. CASE ~HasSection(sections, header)
  <2> DEFINE old == Section(header, <<>>)
             x == Rewritten(old, port)
             U == ToSet(sections) \cup {x}
             new == Append(sections, x)
             n == Len(sections)
  <2>1. IsSection(old) /\ old.header = header /\ old.lines = <<>>
    <3>1. IsList(<<>>)
      BY EmptySeq, IsListSeq
    <3> QED
      BY <3>1 DEF IsSection, Section
  <2>2. UserSection(old).lines = <<>>
    <3>1. WithoutKeys(<<>>, ManagedKeys) = <<>>
      <4>1. <<>> \in Seq({}) /\ \A i \in DOMAIN <<>> : FALSE
        OBVIOUS
      <4>2. \A I : Picked(<<>>, I) = <<>>
        BY <4>1, PickedNone
      <4> QED
        BY <4>2 DEF WithoutKeys
    <3>2. \A a, b : UserSection(Section(a, b)).lines
                      = IF a = MemoryBankMcp THEN <<>> ELSE WithoutKeys(b, ManagedKeys)
      BY DEF UserSection, Section
    <3> QED
      BY <3>1, <3>2
  <2> HIDE DEF old
  <2>3. IsSection(x) /\ x.header = header /\ UserSection(x).lines = <<>>
    BY <2>1, <2>2, SectionKept
  <2> HIDE DEF x
  <2>4. /\ sections \in Seq(U) /\ n \in Nat /\ DOMAIN sections = 1..n
        /\ \A i \in 1..n : IsSection(sections[i])
    <3>1. sections \in Seq(ToSet(sections))
      BY DEF IsToml, IsList
    <3>2. n \in Nat /\ DOMAIN sections = 1..n /\ sections \in [1..n -> ToSet(sections)]
      BY <3>1, LenProperties
    <3>3. sections \in UNION {[1..k -> U] : k \in Nat}
      <4>1. sections \in [1..n -> U]
        BY <3>2
      <4> QED
        BY <3>2, <4>1, Zenon
    <3>4. sections \in Seq(U)
      <4> HIDE DEF U
      <4> QED
        BY <3>3, SeqDef
    <3> QED
      BY <3>2, <3>4 DEF IsToml, IsSection
  <2>5. /\ new \in Seq(U) /\ Len(new) = n + 1 /\ DOMAIN new = 1..(n + 1) /\ new[n + 1] = x
        /\ \A i \in 1..n : new[i] = sections[i]
    BY <2>4, AppendProperties, LenProperties
  <2>6. x \in U
    OBVIOUS
  <2>7. UserAssignments(new) = UserAssignments(sections)
    <3> HIDE DEF U
    <3> QED
      BY <2>3, <2>4, <2>6, SectionAdded
  <2> HIDE DEF new, n
  <2>8. IsToml(new)
    <3>1. \A i \in 1..(n + 1) : IsSection(new[i])
      BY <2>3, <2>4, <2>5
    <3>2. IsList(new)
      BY <2>5, IsListSeq
    <3> QED
      BY <2>5, <3>1, <3>2 DEF IsToml, IsSection
  <2>9. Firsts(new) = DOMAIN new
    <3>1. ASSUME NEW i \in 1..(n + 1), new[i].header \in ManagedHeaders, NEW j \in 1..(i - 1)
          PROVE  new[j].header # new[i].header
      <4>1. j \in 1..n /\ new[j] = sections[j]
        BY <2>4, <2>5
      <4>2. CASE i = n + 1
        BY <1>2, <2>3, <2>4, <2>5, <4>1, <4>2 DEF HasSection
      <4>3. CASE i # n + 1
        <5>1. i \in 1..n /\ new[i] = sections[i]
          BY <2>4, <2>5, <4>3
        <5>2. i \in Firsts(sections)
          BY <2>4, <5>1
        <5> QED
          BY <3>1, <4>1, <5>1, <5>2 DEF Firsts
      <4> QED
        BY <4>2, <4>3
    <3> QED
      BY <2>5, <3>1 DEF Firsts
  <2> QED
    BY <1>2, <2>7, <2>8, <2>9 DEF WithSection, new, x, old
<1> QED
  BY <1>1, <1>2

\* The user's assignments stay as they are, and a managed section has one place.
LEMMA TomlUpserted ==
  ASSUME NEW sections, IsToml(sections), OncePlaced(sections), NEW port
  PROVE  LET new == UpsertToml(sections, port) IN
         /\ IsToml(new) /\ OncePlaced(new)
         /\ UserAssignments(new) = UserAssignments(sections)
<1> DEFINE merged == Picked([i \in DOMAIN sections |-> Rewritten(sections[i], port)], Firsts(sections))
           one == WithSection(merged, "features", port)
           two == WithSection(one, MemoryBankMcp, port)
<1>1. UpsertToml(sections, port) = two
  BY DEF UpsertToml
<1>2. IsToml(merged) /\ UserAssignments(merged) = UserAssignments(sections) /\ Firsts(merged) = DOMAIN merged
  BY SectionsMerged
<1> HIDE DEF merged
<1>3. IsToml(one) /\ UserAssignments(one) = UserAssignments(merged) /\ Firsts(one) = DOMAIN one
  BY <1>2, SectionPut
<1> HIDE DEF one
<1>4. IsToml(two) /\ UserAssignments(two) = UserAssignments(one) /\ Firsts(two) = DOMAIN two
  BY <1>3, SectionPut
<1> HIDE DEF two
<1> QED
  BY <1>1, <1>2, <1>3, <1>4 DEF OncePlaced

-----------------------------------------------------------------------------
(* The start-up files of the shell.                                        *)

LinesKept(lines) == Picked(lines, Places(lines, AnyLine \ OurLines))

LEMMA UserLinesKept ==
  ASSUME NEW file, Lines(file) \in Seq(AnyLine)
  PROVE  UserLines(file) = LinesKept(Lines(file))
<1>1. {i \in DOMAIN Lines(file) : Lines(file)[i] \notin OurLines} = Places(Lines(file), AnyLine \ OurLines)
  BY LenProperties DEF Places
<1> QED
  BY <1>1 DEF UserLines, LinesKept

LEMMA OurLinesDropped ==
  ASSUME NEW lines \in Seq(AnyLine), \A i \in 1..Len(lines) : lines[i] \in OurLines
  PROVE  LinesKept(lines) = <<>>
<1>1. \A i \in DOMAIN lines : i \notin Places(lines, AnyLine \ OurLines)
  BY LenProperties DEF Places
<1> QED
  BY <1>1, PickedNone DEF LinesKept

LEMMA LinesKeptConcat ==
  ASSUME NEW a \in Seq(AnyLine), NEW b \in Seq(AnyLine)
  PROVE  a \o b \in Seq(AnyLine) /\ LinesKept(a \o b) = LinesKept(a) \o LinesKept(b)
BY PickedConcat, ConcatProperties DEF LinesKept

LEMMA BlockLines ==
  /\ Block \in Seq(AnyLine) /\ Len(Block) = 3 /\ \A i \in 1..3 : Block[i] \in OurLines
  /\ LinesKept(Block) = <<>>
<1>1. Block \in Seq(AnyLine) /\ Len(Block) = 3 /\ \A i \in 1..3 : Block[i] \in OurLines
  <2>1. Start \in AnyLine \cap OurLines /\ End \in AnyLine \cap OurLines /\ "source env.sh" \in AnyLine \cap OurLines
    BY DEF Start, End, OurLines, AnyLine
  <2>2. ASSUME NEW a \in AnyLine \cap OurLines, NEW b \in AnyLine \cap OurLines, NEW c \in AnyLine \cap OurLines
        PROVE  /\ <<a, b, c>> \in Seq(AnyLine) /\ Len(<<a, b, c>>) = 3
               /\ \A i \in 1..3 : <<a, b, c>>[i] \in OurLines
    <3>1. <<a, b, c>>[1] \in OurLines /\ <<a, b, c>>[2] \in OurLines /\ <<a, b, c>>[3] \in OurLines
      OBVIOUS
    <3> QED
      BY <3>1
  <2> QED
    BY <2>1, <2>2 DEF Block
<1> QED
  BY <1>1, OurLinesDropped

LEMMA BlockIsThere ==
  ASSUME NEW a \in Seq(AnyLine), NEW b \in Seq(AnyLine)
  PROVE  /\ (a \o Block) \o b \in Seq(AnyLine)
         /\ HasBlock((a \o Block) \o b)
<1> DEFINE ab == a \o Block
           new == ab \o b
           n == Len(a)
<1>1. n \in Nat /\ Len(b) \in Nat /\ Block \in Seq(AnyLine) /\ Len(Block) = 3
  BY BlockLines, LenProperties
<1>2. /\ ab \in Seq(AnyLine) /\ Len(ab) = Len(a) + Len(Block)
      /\ \A i \in 1..(Len(a) + Len(Block)) : ab[i] = IF i <= Len(a) THEN a[i] ELSE Block[i - Len(a)]
  BY <1>1, ConcatProperties
<1> HIDE DEF ab
<1>3. /\ new \in Seq(AnyLine) /\ Len(new) = Len(ab) + Len(b)
      /\ \A i \in 1..(Len(ab) + Len(b)) : new[i] = IF i <= Len(ab) THEN ab[i] ELSE b[i - Len(ab)]
  <2>1. ASSUME NEW c \in Seq(AnyLine)
        PROVE  /\ c \o b \in Seq(AnyLine) /\ Len(c \o b) = Len(c) + Len(b)
               /\ \A i \in 1..(Len(c) + Len(b)) : (c \o b)[i] = IF i <= Len(c) THEN c[i] ELSE b[i - Len(c)]
    BY ConcatProperties
  <2> QED
    BY <1>2, <2>1
<1> HIDE DEF new, n
<1>4. Len(ab) = n + 3 /\ Len(new) = n + 3 + Len(b)
  BY <1>1, <1>2, <1>3 DEF n
<1>5. \A k \in 1..3 : new[n + k] = Block[k]
  <2> TAKE k \in 1..3
  <2>1. n + k \in 1..(Len(a) + Len(Block)) /\ ~(n + k <= Len(a)) /\ (n + k) - Len(a) = k
    BY <1>1 DEF n
  <2>2. n + k \in 1..(Len(ab) + Len(b)) /\ n + k <= Len(ab)
    BY <1>1, <1>4
  <2>3. new[n + k] = ab[n + k]
    BY <1>3, <2>2
  <2>4. ab[n + k] = Block[(n + k) - Len(a)]
    BY <1>2, <2>1
  <2> QED
    BY <2>1, <2>3, <2>4
<1> DEFINE part == SubSeq(new, n + 1, (n + 1) + 2)
<1>6. part = Block
  <2>1. n + 1 \in Int /\ (n + 1) + 2 \in Int /\ \A i \in (n + 1)..((n + 1) + 2) : i \in 1..Len(new)
    BY <1>1, <1>4
  <2>2. \A i \in (n + 1)..((n + 1) + 2) : new[i] \in AnyLine
    BY <1>3, <2>1, ElementOfSeq
  <2>3. /\ part \in Seq(AnyLine)
        /\ Len(part) = IF n + 1 <= (n + 1) + 2 THEN ((n + 1) + 2) - (n + 1) + 1 ELSE 0
        /\ \A i \in 1..(((n + 1) + 2) - (n + 1) + 1) : part[i] = new[(n + 1) + i - 1]
    BY <2>1, <2>2, SubSeqProperties
  <2> HIDE DEF part
  <2>4. Len(part) = 3
    BY <1>1, <2>3
  <2>5. \A k \in 1..3 : part[k] = Block[k]
    <3> TAKE k \in 1..3
    <3>1. k \in 1..(((n + 1) + 2) - (n + 1) + 1) /\ (n + 1) + k - 1 = n + k
      BY <1>1
    <3> QED
      BY <1>5, <2>3, <3>1
  <2> QED
    BY <1>1, <2>3, <2>4, <2>5, SeqEqual
<1>7. new # NoFile
  BY <1>3, NoFileIsNoList
<1>8. n + 1 \in 1..(Len(new) - 2)
  BY <1>1, <1>4
<1> QED
  BY <1>3, <1>6, <1>7, <1>8 DEF HasBlock, Lines, new, ab

\* Two parts, the second from some place on.
LEMMA SplitAt ==
  ASSUME NEW U, NEW q \in Seq(U), NEW k \in 0..Len(q)
  PROVE  /\ SubSeq(q, 1, k) \in Seq(U) /\ SubSeq(q, k + 1, Len(q)) \in Seq(U)
         /\ Len(SubSeq(q, 1, k)) = k /\ Len(SubSeq(q, k + 1, Len(q))) = Len(q) - k
         /\ \A i \in 1..k : SubSeq(q, 1, k)[i] = q[i]
         /\ \A i \in 1..(Len(q) - k) : SubSeq(q, k + 1, Len(q))[i] = q[k + i]
         /\ q = SubSeq(q, 1, k) \o SubSeq(q, k + 1, Len(q))
<1> DEFINE n == Len(q)  a == SubSeq(q, 1, k)  b == SubSeq(q, k + 1, n)  ab == a \o b
<1>1. n \in Nat /\ k \in Nat /\ k <= n /\ \A i \in 1..n : q[i] \in U
  BY LenProperties, ElementOfSeq
<1> HIDE DEF n
<1>2. /\ a \in Seq(U) /\ Len(a) = IF 1 <= k THEN k - 1 + 1 ELSE 0
      /\ \A i \in 1..(k - 1 + 1) : a[i] = q[1 + i - 1]
  <2>1. 1 \in Int /\ k \in Int /\ \A i \in 1..k : q[i] \in U
    BY <1>1
  <2> QED
    BY <2>1, SubSeqProperties
<1>3. /\ b \in Seq(U) /\ Len(b) = IF k + 1 <= n THEN n - (k + 1) + 1 ELSE 0
      /\ \A i \in 1..(n - (k + 1) + 1) : b[i] = q[(k + 1) + i - 1]
  <2>1. k + 1 \in Int /\ n \in Int /\ \A i \in (k + 1)..n : q[i] \in U
    BY <1>1
  <2> QED
    BY <2>1, SubSeqProperties
<1> HIDE DEF a, b
<1>4. Len(a) = k /\ Len(b) = n - k
  BY <1>1, <1>2, <1>3
<1>5. \A i \in 1..k : a[i] = q[i]
  <2> TAKE i \in 1..k
  <2>1. i \in 1..(k - 1 + 1) /\ 1 + i - 1 = i
    BY <1>1
  <2> QED
    BY <1>2, <2>1
<1>6. \A i \in 1..(n - k) : b[i] = q[k + i]
  <2> TAKE i \in 1..(n - k)
  <2>1. i \in 1..(n - (k + 1) + 1) /\ (k + 1) + i - 1 = k + i
    BY <1>1
  <2> QED
    BY <1>3, <2>1
<1>7. /\ ab \in Seq(U) /\ Len(ab) = Len(a) + Len(b)
      /\ \A i \in 1..(Len(a) + Len(b)) : ab[i] = IF i <= Len(a) THEN a[i] ELSE b[i - Len(a)]
  BY <1>2, <1>3, ConcatProperties
<1> HIDE DEF ab
<1>8. Len(ab) = n /\ \A i \in 1..n : ab[i] = q[i]
  <2>1. Len(ab) = n /\ Len(a) + Len(b) = n
    BY <1>1, <1>4, <1>7
  <2>2. ASSUME NEW i \in 1..n PROVE ab[i] = q[i]
    <3>1. CASE i <= k
      BY <1>1, <1>4, <1>5, <1>7, <2>1, <3>1
    <3>2. CASE ~(i <= k)
      <4>1. i - k \in 1..(n - k) /\ k + (i - k) = i
        BY <1>1, <3>2
      <4> QED
        BY <1>4, <1>6, <1>7, <2>1, <3>2, <4>1
    <3> QED
      BY <3>1, <3>2
  <2> QED
    BY <2>1, <2>2
<1>9. q = ab
  BY <1>7, <1>8, SeqEqual DEF n
<1> QED
  BY <1>2, <1>3, <1>4, <1>5, <1>6, <1>9 DEF n, a, b, ab

\* The block is put in, whatever the lines are.
LEMMA BlockAdded ==
  ASSUME NEW lines \in Seq(AnyLine)
  PROVE  LET new == ReplaceOrAppendBlock(lines) IN new \in Seq(AnyLine) /\ HasBlock(new)
<1> DEFINE n == Len(lines)
           begins == {i \in DOMAIN lines : lines[i] = Start}
           first == CHOOSE i \in begins : \A j \in begins : i <= j
           ends == {i \in DOMAIN lines : lines[i] = End /\ i > first}
           last == CHOOSE i \in ends : \A j \in ends : i <= j
           new == ReplaceOrAppendBlock(lines)
<1>1. n \in Nat /\ DOMAIN lines = 1..n
  BY LenProperties
<1>2. new = IF begins = {} \/ ends = {} THEN lines \o Block
            ELSE SubSeq(lines, 1, first - 1) \o Block \o SubSeq(lines, last + 1, Len(lines))
  BY DEF ReplaceOrAppendBlock
<1>3. CASE begins = {} \/ ends = {}
  <2>1. new = lines \o Block /\ lines \o Block \in Seq(AnyLine) /\ <<>> \in Seq(AnyLine)
    BY <1>2, <1>3, BlockLines, ConcatProperties, EmptySeq
  <2>2. new = (lines \o Block) \o <<>>
    BY <2>1, ConcatEmptySeq
  <2> HIDE DEF new
  <2> QED
    BY <2>1, <2>2, BlockIsThere DEF new
<1>4. CASE ~(begins = {} \/ ends = {})
  <2> DEFINE a == SubSeq(lines, 1, first - 1)
             b == SubSeq(lines, last + 1, Len(lines))
  <2>0. new = (a \o Block) \o b
    BY <1>2, <1>4
  <2> HIDE DEF new
  <2>1. first \in begins
    <3> HIDE DEF n
    <3>1. begins \subseteq 1..n
      BY <1>1
    <3> QED
      BY <1>1, <1>4, <3>1, LeastPlace
  <2> HIDE DEF first
  <2>2. last \in ends
    <3> HIDE DEF n
    <3>1. ends \subseteq 1..n
      BY <1>1
    <3> HIDE DEF ends
    <3> QED
      BY <1>1, <1>4, <3>1, LeastPlace
  <2> HIDE DEF last
  <2>3. first - 1 \in 0..n /\ last \in 0..n
    BY <1>1, <2>1, <2>2
  <2> HIDE DEF n
  <2>4. \A k \in 0..Len(lines) : SubSeq(lines, 1, k) \in Seq(AnyLine) /\ SubSeq(lines, k + 1, Len(lines)) \in Seq(AnyLine)
    BY SplitAt
  <2>5. a \in Seq(AnyLine) /\ b \in Seq(AnyLine)
    BY <2>3, <2>4 DEF n
  <2> HIDE DEF a, b
  <2> QED
    BY <2>0, <2>5, BlockIsThere DEF new
<1> QED
  BY <1>3, <1>4

\* Where a block goes, the user's lines before it and after it stay.
LEMMA BlockPut ==
  ASSUME NEW lines \in Seq(AnyLine), OwnBlock(lines)
  PROVE  LET new == ReplaceOrAppendBlock(lines) IN
         LinesKept(new) = LinesKept(lines)
<1> DEFINE n == Len(lines)
           begins == {i \in DOMAIN lines : lines[i] = Start}
           first == CHOOSE i \in begins : \A j \in begins : i <= j
           ends == {i \in DOMAIN lines : lines[i] = End /\ i > first}
           last == CHOOSE i \in ends : \A j \in ends : i <= j
           new == ReplaceOrAppendBlock(lines)
<1>1. n \in Nat /\ DOMAIN lines = 1..n /\ \A i \in 1..n : lines[i] \in AnyLine
  BY LenProperties, ElementOfSeq
<1>2. new = IF begins = {} \/ ends = {} THEN lines \o Block
            ELSE SubSeq(lines, 1, first - 1) \o Block \o SubSeq(lines, last + 1, Len(lines))
  BY DEF ReplaceOrAppendBlock
<1>3. \A q \in Seq(AnyLine) : q \o <<>> = q /\ <<>> \in Seq(AnyLine) /\ LinesKept(q) \in Seq(AnyLine)
  BY ConcatEmptySeq, EmptySeq, PickedFrom DEF LinesKept
<1>4. CASE begins = {} \/ ends = {}
  <2>1. new = lines \o Block /\ lines \o Block \in Seq(AnyLine)
    BY <1>2, <1>4, BlockLines, ConcatProperties
  <2>2. LinesKept(lines \o Block) = LinesKept(lines) \o <<>>
    BY BlockLines, LinesKeptConcat
  <2> QED
    BY <1>3, <2>1, <2>2
<1>5. CASE ~(begins = {} \/ ends = {})
  <2> DEFINE a == SubSeq(lines, 1, first - 1)
             rest == SubSeq(lines, first, n)
             c == SubSeq(lines, 1, last)
             b == SubSeq(lines, last + 1, n)
  <2>0. new = a \o Block \o b
    BY <1>2, <1>5
  <2> HIDE DEF new
  <2>1. first \in begins /\ \A j \in begins : first <= j
    <3> HIDE DEF n
    <3>1. begins \subseteq 1..n
      BY <1>1
    <3> QED
      BY <1>1, <1>5, <3>1, LeastPlace
  <2> HIDE DEF first
  <2>2. last \in ends /\ \A j \in ends : last <= j
    <3> HIDE DEF n
    <3>1. ends \subseteq 1..n
      BY <1>1
    <3> HIDE DEF ends
    <3> QED
      BY <1>1, <1>5, <3>1, LeastPlace
  <2> HIDE DEF last, n
  <2>3. /\ first \in 1..n /\ lines[first] = Start /\ last \in 1..n /\ lines[last] = End /\ first < last
        /\ \A j \in 1..(first - 1) : lines[j] # Start
        /\ \A j \in first..(last - 1) : lines[j] # End
    <3>1. first \in 1..n /\ lines[first] = Start /\ last \in 1..n /\ lines[last] = End /\ first < last
      BY <1>1, <2>1, <2>2
    <3>2. \A j \in 1..(first - 1) : lines[j] # Start
      BY <1>1, <2>1, <3>1
    <3>3. Start # End
      BY DEF Start, End
    <3>4. \A j \in first..(last - 1) : lines[j] # End
      BY <1>1, <2>2, <3>1, <3>3
    <3> QED
      BY <3>1, <3>2, <3>4
  <2>4. \A j \in first..last : lines[j] \in OurLines
    BY <1>1, <2>3 DEF OwnBlock
  <2>5. /\ c \in Seq(AnyLine) /\ b \in Seq(AnyLine) /\ lines = c \o b /\ Len(c) = last
        /\ \A i \in 1..last : c[i] = lines[i]
    <3>1. last \in 0..n
      BY <1>1, <2>3
    <3> QED
      BY <3>1, SplitAt, ZenonT(30) DEF n
  <2> HIDE DEF b, c, a
  <2> DEFINE d == SubSeq(c, 1, first - 1)
             e == SubSeq(c, first, last)
  <2>6. /\ d \in Seq(AnyLine) /\ e \in Seq(AnyLine) /\ c = d \o e /\ Len(d) = first - 1
        /\ Len(e) = last - (first - 1)
        /\ \A i \in 1..(first - 1) : d[i] = c[i]
        /\ \A i \in 1..(last - (first - 1)) : e[i] = c[(first - 1) + i]
    <3>1. first - 1 \in 0..Len(c) /\ (first - 1) + 1 = first
      BY <1>1, <2>3, <2>5
    <3>2. ASSUME NEW k \in 0..Len(c)
          PROVE  /\ SubSeq(c, 1, k) \in Seq(AnyLine) /\ SubSeq(c, k + 1, Len(c)) \in Seq(AnyLine)
                 /\ Len(SubSeq(c, 1, k)) = k /\ Len(SubSeq(c, k + 1, Len(c))) = Len(c) - k
                 /\ \A i \in 1..k : SubSeq(c, 1, k)[i] = c[i]
                 /\ \A i \in 1..(Len(c) - k) : SubSeq(c, k + 1, Len(c))[i] = c[k + i]
                 /\ c = SubSeq(c, 1, k) \o SubSeq(c, k + 1, Len(c))
      BY <2>5, SplitAt
    <3> DEFINE k == first - 1
    <3>3. k \in 0..Len(c) /\ k + 1 = first /\ Len(c) = last
      BY <2>5, <3>1
    <3> HIDE DEF k
    <3>4. /\ SubSeq(c, 1, k) \in Seq(AnyLine) /\ SubSeq(c, k + 1, Len(c)) \in Seq(AnyLine)
          /\ Len(SubSeq(c, 1, k)) = k /\ Len(SubSeq(c, k + 1, Len(c))) = Len(c) - k
          /\ \A i \in 1..k : SubSeq(c, 1, k)[i] = c[i]
          /\ \A i \in 1..(Len(c) - k) : SubSeq(c, k + 1, Len(c))[i] = c[k + i]
          /\ c = SubSeq(c, 1, k) \o SubSeq(c, k + 1, Len(c))
      BY <3>2, <3>3
    <3> QED
      BY <3>3, <3>4 DEF k
  <2> HIDE DEF d, e
  <2>7. \A i \in 1..Len(e) : e[i] \in OurLines
    <3> TAKE i \in 1..Len(e)
    <3>1. i \in 1..(last - (first - 1)) /\ (first - 1) + i \in first..last /\ (first - 1) + i \in 1..last
      BY <1>1, <2>3, <2>6
    <3> QED
      BY <2>4, <2>5, <2>6, <3>1
  <2>8. a = d
    <3>1. first - 1 \in 0..n
      BY <1>1, <2>3
    <3>2. a \in Seq(AnyLine) /\ Len(a) = first - 1 /\ \A i \in 1..(first - 1) : a[i] = lines[i]
      BY <3>1, SplitAt DEF a, n
    <3>3. \A i \in 1..(first - 1) : a[i] = d[i]
      <4> TAKE i \in 1..(first - 1)
      <4>1. i \in 1..last
        BY <1>1, <2>3
      <4> QED
        BY <2>5, <2>6, <3>2, <4>1
    <3> QED
      BY <2>6, <3>2, <3>3, SeqEqual
  <2>9. LinesKept(e) = <<>>
    BY <2>6, <2>7, OurLinesDropped
  <2>10. LinesKept(lines) = LinesKept(d) \o LinesKept(b)
    <3>1. LinesKept(d \o e) = LinesKept(d) \o LinesKept(e) /\ d \o e \in Seq(AnyLine)
      BY <2>6, LinesKeptConcat
    <3>2. LinesKept(c) = LinesKept(d)
      BY <1>3, <2>6, <2>9, <3>1
    <3> QED
      BY <2>5, <3>2, LinesKeptConcat
  <2>11. LinesKept((d \o Block) \o b) = LinesKept(d) \o LinesKept(b)
    <3>1. LinesKept(d \o Block) = LinesKept(d) \o LinesKept(Block) /\ d \o Block \in Seq(AnyLine)
      BY <2>6, BlockLines, LinesKeptConcat
    <3>2. LinesKept(d \o Block) = LinesKept(d)
      BY <1>3, <2>6, <3>1, BlockLines
    <3> QED
      BY <2>5, <3>1, <3>2, LinesKeptConcat
  <2>12. new = (d \o Block) \o b
    BY <2>0, <2>8 DEF b
  <2> QED
    BY <2>10, <2>11, <2>12 DEF new
<1> QED
  BY <1>4, <1>5

\* A start-up file that was given the block has it.
LEMMA BlockStays ==
  ASSUME NEW file \in Seq(AnyLine) \cup {NoFile}
  PROVE  HasBlock(WithBlock(file)) /\ WithBlock(file) # NoFile /\ WithBlock(file) \in Seq(AnyLine)
<1>1. Lines(file) \in Seq(AnyLine)
  BY EmptySeq DEF Lines
<1>2. CASE HasBlock(file)
  <2>1. ~HasBlock(NoFile)
    <3>1. Lines(NoFile) = <<>> /\ Len(<<>>) = 0
      BY DEF Lines
    <3>2. 1..(Len(Lines(NoFile)) - 2) = {}
      BY <3>1
    <3> QED
      BY <3>2 DEF HasBlock
  <2> QED
    BY <1>2, <2>1 DEF WithBlock
<1>3. CASE ~HasBlock(file)
  <2> DEFINE new == ReplaceOrAppendBlock(Lines(file))
  <2>1. new \in Seq(AnyLine) /\ HasBlock(new)
    BY <1>1, BlockAdded
  <2>2. WithBlock(file) = new
    BY <1>3 DEF WithBlock
  <2> HIDE DEF new
  <2> QED
    BY <2>1, <2>2, NoFileIsNoList
<1> QED
  BY <1>2, <1>3

\* A file that has the block stays as it is; any other gets it, and keeps the lines
\* of the user.
LEMMA FileWithBlock ==
  ASSUME NEW file \in Seq(AnyLine) \cup {NoFile}, OwnBlock(Lines(file))
  PROVE  /\ WithBlock(WithBlock(file)) = WithBlock(file)
         /\ UserLines(WithBlock(file)) = UserLines(file)
<1>1. Lines(file) \in Seq(AnyLine)
  BY EmptySeq DEF Lines
<1>2. CASE HasBlock(file)
  BY <1>2 DEF WithBlock
<1>3. CASE ~HasBlock(file)
  <2> DEFINE new == ReplaceOrAppendBlock(Lines(file))
  <2>1. WithBlock(file) = new
    BY <1>3 DEF WithBlock
  <2>2. new \in Seq(AnyLine) /\ HasBlock(new) /\ LinesKept(new) = LinesKept(Lines(file))
    BY <1>1, BlockAdded, BlockPut
  <2> HIDE DEF new
  <2>3. Lines(new) = new
    BY <2>2, NoFileIsNoList DEF Lines
  <2>4. UserLines(new) = LinesKept(new) /\ UserLines(file) = LinesKept(Lines(file))
    BY <1>1, <2>2, <2>3, UserLinesKept
  <2>5. WithBlock(new) = new
    BY <2>2 DEF WithBlock
  <2> QED
    BY <2>1, <2>2, <2>4, <2>5
<1> QED
  BY <1>2, <1>3

-----------------------------------------------------------------------------
(* What the user has written is kept.                                      *)

\* A start-up file is as it was, or has the block on top of that, unless it is torn.
HomeSound(h) ==
  /\ DOMAIN h = DOMAIN machine.home /\ DOMAIN h.rc = RcFiles
  /\ \A file \in RcFiles : h.rc[file] \in Seq(AnyLine) \cup {NoFile}
  /\ \A file \in RcFiles \ h.torn :
       h.rc[file] \in {machine.home.rc[file], WithBlock(machine.home.rc[file])}

HomeKept == machine \in Machines /\ HomeSound(home)

\* What an exposure, even one that breaks off, leaves of a start-up file.
LEMMA RcWritten ==
  ASSUME machine \in Machines, NEW h, HomeSound(h), NEW file \in RcFiles
  PROVE  /\ WithBlock(h.rc[file]) \in Seq(AnyLine)
         /\ HasBlock(WithBlock(h.rc[file])) /\ WithBlock(h.rc[file]) # NoFile
         /\ file \notin h.torn =>
              WithBlock(h.rc[file]) \in {machine.home.rc[file], WithBlock(machine.home.rc[file])}
<1> DEFINE before == machine.home.rc[file]
<1>1. before \in Seq(AnyLine) \cup {NoFile} /\ OwnBlock(Lines(before))
  BY MachinesReadable
<1>2. WithBlock(WithBlock(before)) = WithBlock(before)
  BY <1>1, FileWithBlock
<1>3. h.rc[file] \in Seq(AnyLine) \cup {NoFile}
  BY DEF HomeSound
<1>4. /\ WithBlock(h.rc[file]) \in Seq(AnyLine)
      /\ HasBlock(WithBlock(h.rc[file])) /\ WithBlock(h.rc[file]) # NoFile
  BY <1>3, BlockStays
<1>5. file \notin h.torn => h.rc[file] \in {before, WithBlock(before)}
  BY DEF HomeSound
<1> QED
  BY <1>2, <1>4, <1>5

LEMMA HomeSourced ==
  ASSUME machine \in Machines, NEW h, HomeSound(h), NEW done
  PROVE  LET new == Sourced(h, done) IN
         HomeSound(new) /\ new.torn = h.torn /\ new.onPath = h.onPath
<1> DEFINE new == Sourced(h, done)
           merged == [file \in RcFiles |-> IF file \in done THEN WithBlock(h.rc[file]) ELSE h.rc[file]]
<1>1. DOMAIN h = {"shell", "onPath", "binDir", "localBin", "envFile", "rc", "torn"}
  BY MachinesReadable DEF HomeSound
<1>2. new = [h EXCEPT !.envFile = TRUE, !.rc = merged]
  BY DEF Sourced
<1>3. DOMAIN merged = RcFiles
  OBVIOUS
<1>4. \A file \in RcFiles : merged[file] = IF file \in done THEN WithBlock(h.rc[file]) ELSE h.rc[file]
  OBVIOUS
<1> HIDE DEF merged, new
<1>5. DOMAIN new = DOMAIN h /\ new.rc = merged /\ new.torn = h.torn /\ new.onPath = h.onPath
  BY <1>1, <1>2
<1>6. \A file \in RcFiles : merged[file] \in Seq(AnyLine) \cup {NoFile}
  BY <1>4, RcWritten DEF HomeSound
<1>7. \A file \in RcFiles \ h.torn :
        merged[file] \in {machine.home.rc[file], WithBlock(machine.home.rc[file])}
  BY <1>4, RcWritten DEF HomeSound
<1>8. HomeSound(new)
  BY <1>3, <1>5, <1>6, <1>7 DEF HomeSound
<1> QED
  BY <1>5, <1>8 DEF new

\* A field of the home that is not a start-up file.
LEMMA HomeField ==
  ASSUME machine \in Machines, HomeSound(home), NEW x
  PROVE  /\ HomeSound([home EXCEPT !.onPath = x]) /\ [home EXCEPT !.onPath = x].torn = home.torn
         /\ [home EXCEPT !.onPath = x].onPath = x
         /\ HomeSound([home EXCEPT !.localBin = x]) /\ [home EXCEPT !.localBin = x].torn = home.torn
         /\ [home EXCEPT !.localBin = x].onPath = home.onPath
         /\ HomeSound([home EXCEPT !.envFile = x]) /\ [home EXCEPT !.envFile = x].torn = home.torn
         /\ [home EXCEPT !.envFile = x].onPath = home.onPath
<1>1. DOMAIN home = {"shell", "onPath", "binDir", "localBin", "envFile", "rc", "torn"}
  BY MachinesReadable DEF HomeSound
<1>2. ASSUME NEW new, DOMAIN new = DOMAIN home, new.rc = home.rc, new.torn = home.torn PROVE HomeSound(new)
  BY <1>2 DEF HomeSound
<1> QED
  BY <1>1, <1>2

LEMMA HomeExposed ==
  ASSUME HomeKept
  PROVE  HomeSound(EnsureCliExposure(home)) /\ EnsureCliExposure(home).torn = home.torn
BY HomeSourced, HomeField DEF HomeKept, EnsureCliExposure

\* A file that is torn counts as torn, and the others are as they were or done.
LEMMA HomeTorn ==
  ASSUME machine \in Machines, HomeSound(home), NEW file \in RcFiles,
         NEW lines \in 0..(Len(WithBlock(home.rc[file])) - 1)
  PROVE  LET new == TornFile(home, file, lines) IN
         HomeSound(new) /\ new.torn = home.torn \cup {file} /\ new.onPath = home.onPath
<1> DEFINE part == SubSeq(WithBlock(home.rc[file]), 1, lines)
           h == Sourced(home, {LoginFile(home)} \ {file})
           new == TornFile(home, file, lines)
<1>1. HomeSound(h) /\ h.torn = home.torn /\ h.onPath = home.onPath
  BY HomeSourced
<1>2. part \in Seq(AnyLine)
  <2> DEFINE q == WithBlock(home.rc[file])
  <2>1. q \in Seq(AnyLine)
    BY RcWritten
  <2> HIDE DEF q
  <2>2. lines \in 0..Len(q)
    BY <2>1, LenProperties DEF q
  <2> QED
    BY <2>1, <2>2, SplitAt DEF q
<1>3. new = [h EXCEPT !.rc[file] = part, !.torn = @ \cup {file}]
  BY DEF TornFile
<1> HIDE DEF part, h, new
<1>4. DOMAIN h = {"shell", "onPath", "binDir", "localBin", "envFile", "rc", "torn"} /\ DOMAIN h.rc = RcFiles
  BY <1>1, MachinesReadable DEF HomeSound
<1>5. /\ DOMAIN new = DOMAIN h /\ new.rc = [h.rc EXCEPT ![file] = part]
      /\ new.torn = h.torn \cup {file} /\ new.onPath = h.onPath
  BY <1>3, <1>4
<1>6. \A f \in RcFiles : new.rc[f] = IF f = file THEN part ELSE h.rc[f]
  BY <1>4, <1>5
<1>7. HomeSound(new)
  BY <1>1, <1>2, <1>4, <1>5, <1>6 DEF HomeSound
<1> QED
  BY <1>1, <1>5, <1>7 DEF new

LEMMA HomeBroken ==
  ASSUME HomeKept, NEW new \in BrokenExposures(home)
  PROVE  /\ HomeSound(new) /\ new.onPath = home.onPath
         /\ new.torn = home.torn \/ \E file : new.torn = home.torn \cup {file}
<1>0. machine \in Machines /\ HomeSound(home)
  BY DEF HomeKept
<1>1. CASE new = [home EXCEPT !.localBin = "kept"]
  <2>1. \A x : /\ HomeSound([home EXCEPT !.localBin = x]) /\ [home EXCEPT !.localBin = x].torn = home.torn
               /\ [home EXCEPT !.localBin = x].onPath = home.onPath
    BY <1>0, HomeField
  <2> QED
    BY <1>1, <2>1, Zenon
<1>2. CASE new = [home EXCEPT !.envFile = FALSE]
  <2>1. \A x : /\ HomeSound([home EXCEPT !.envFile = x]) /\ [home EXCEPT !.envFile = x].torn = home.torn
               /\ [home EXCEPT !.envFile = x].onPath = home.onPath
    BY <1>0, HomeField
  <2> QED
    BY <1>2, <2>1, Zenon
<1>3. CASE \E done : new = Sourced(home, done)
  <2>1. \A done : /\ HomeSound(Sourced(home, done)) /\ Sourced(home, done).torn = home.torn
                  /\ Sourced(home, done).onPath = home.onPath
    BY <1>0, HomeSourced
  <2> QED
    BY <1>3, <2>1, Zenon
<1>4. CASE \E file \in Targets(home) : \E lines \in 0..(Len(WithBlock(home.rc[file])) - 1) :
             new = TornFile(home, file, lines)
  <2>1. Targets(home) \subseteq RcFiles
    BY DEF Targets, LoginFile, BashLoginFile, RcFiles
  <2>2. ASSUME NEW file \in RcFiles, NEW lines \in 0..(Len(WithBlock(home.rc[file])) - 1)
        PROVE  /\ HomeSound(TornFile(home, file, lines))
               /\ TornFile(home, file, lines).torn = home.torn \cup {file}
               /\ TornFile(home, file, lines).onPath = home.onPath
    BY <1>0, HomeTorn
  <2>3. PICK file \in RcFiles : \E lines \in 0..(Len(WithBlock(home.rc[file])) - 1) :
          new = TornFile(home, file, lines)
    BY <1>4, <2>1
  <2>4. PICK lines \in 0..(Len(WithBlock(home.rc[file])) - 1) : new = TornFile(home, file, lines)
    BY <2>3
  <2> QED
    BY <2>2, <2>4
<1> QED
  BY <1>1, <1>2, <1>3, <1>4, ZenonT(30) DEF BrokenExposures

\* The configuration of an agent has what the user had in it on this machine.
ConfigKept(config, agent, m) ==
  /\ DOMAIN config = {"mcp", "hooks", "toml", "plugin", "scope", "whole", "backup"}
  /\ config.whole \/ config.backup
  /\ agent \in HookAgents => IsList(config.hooks) /\ UserHooks(config.hooks) = UserHooks(m.hooks)
  /\ agent \in {"codex", "gemini-cli"} =>
       \/ Len(OurHooks(config.hooks)) <= 1
       \/ Len(OurHooks(config.hooks)) <= Len(OurHooks(m.hooks))
  /\ agent = "codex" =>
       /\ IsToml(config.toml) /\ OncePlaced(config.toml)
       /\ UserAssignments(config.toml) = UserAssignments(m.toml)

\* The files of an agent that are still to be written.
LeftOf(agent) ==
  CASE agent \in {"claude-code", "codex"} -> {<<"mcp", "hooks">>, <<"hooks">>}
    [] agent \in {"gemini-cli", "openclaw"} -> {<<"both">>}
    [] agent = "opencode" -> {<<"plugin", "mcp">>, <<"mcp">>}

LEMMA LeftSteps ==
  ASSUME NEW agent \in AgentKinds
  PROVE  /\ FileSteps(agent) \in LeftOf(agent)
         /\ \A left \in LeftOf(agent) :
              /\ \/ left[1] = "mcp"
                 \/ left[1] = "hooks" /\ agent \in {"claude-code", "codex"}
                 \/ left[1] = "both" /\ agent \in {"gemini-cli", "openclaw"}
                 \/ left[1] = "plugin" /\ agent = "opencode"
              /\ Len(left) # 1 => Tail(left) \in LeftOf(agent)
<1>1. /\ Tail(<<"mcp", "hooks">>) = <<"hooks">> /\ Tail(<<"plugin", "mcp">>) = <<"mcp">>
      /\ Len(<<"hooks">>) = 1 /\ Len(<<"mcp">>) = 1 /\ Len(<<"both">>) = 1
  OBVIOUS
<1>2. CASE agent \in {"claude-code", "codex"}
  <2>1. LeftOf(agent) = {<<"mcp", "hooks">>, <<"hooks">>} /\ FileSteps(agent) = <<"mcp", "hooks">>
    BY <1>2 DEF LeftOf, FileSteps
  <2> QED
    BY <1>1, <1>2, <2>1
<1>3. CASE agent \in {"gemini-cli", "openclaw"}
  <2>1. LeftOf(agent) = {<<"both">>} /\ FileSteps(agent) = <<"both">>
    BY <1>3 DEF LeftOf, FileSteps
  <2> QED
    BY <1>1, <1>3, <2>1
<1>4. CASE agent = "opencode"
  <2>1. LeftOf(agent) = {<<"plugin", "mcp">>, <<"mcp">>} /\ FileSteps(agent) = <<"plugin", "mcp">>
    BY <1>4 DEF LeftOf, FileSteps
  <2>2. <<"plugin", "mcp">>[1] = "plugin" /\ <<"mcp">>[1] = "mcp"
    OBVIOUS
  <2>3. /\ FileSteps(agent) \in LeftOf(agent) /\ Tail(<<"plugin", "mcp">>) \in LeftOf(agent)
        /\ Len(<<"mcp">>) = 1
    BY <1>1, <2>1
  <2> QED
    BY <1>4, <2>1, <2>2, <2>3, Zenon
<1> QED
  BY <1>2, <1>3, <1>4 DEF AgentKinds

\* The hooks of an agent after another one of Memory Bank's.
LEMMA HooksKept ==
  ASSUME NEW m, NEW hooks, IsList(hooks), NEW agent \in HookAgents, NEW port,
         UserHooks(hooks) = UserHooks(m.hooks),
         agent \in {"codex", "gemini-cli"} =>
           Len(OurHooks(hooks)) <= 1 \/ Len(OurHooks(hooks)) <= Len(OurHooks(m.hooks)),
         IsList(m.hooks)
  PROVE  LET new == UpsertHook(agent, hooks, port) IN
         /\ IsList(new) /\ UserHooks(new) = UserHooks(m.hooks)
         /\ agent \in {"codex", "gemini-cli"} =>
              Len(OurHooks(new)) <= 1 \/ Len(OurHooks(new)) <= Len(OurHooks(m.hooks))
<1> DEFINE hook == HookCommand(port)
           U == ToSet(hooks) \cup {hook}
           new == UpsertHook(agent, hooks, port)
<1>1. hooks \in Seq(U) /\ hook \in U
  <2>1. hooks \in Seq(ToSet(hooks)) /\ ToSet(hooks) \subseteq U
    BY DEF IsList
  <2> HIDE DEF U, hook
  <2> QED
    BY <2>1 DEF U
<1> HIDE DEF U
<1>2. /\ new \in Seq(U) /\ UserHooks(new) = UserHooks(hooks)
      /\ agent \in {"codex", "gemini-cli"} =>
           Len(OurHooks(new)) <= 1 \/ Len(OurHooks(new)) <= Len(OurHooks(hooks))
  BY <1>1, HooksUpserted
<1> HIDE DEF new
<1>3. IsList(new)
  BY <1>2, IsListSeq
<1>4. \A q : IsList(q) => Len(OurHooks(q)) \in Nat
  <2> SUFFICES ASSUME NEW q, IsList(q) PROVE Len(OurHooks(q)) \in Nat
    OBVIOUS
  <2>1. OurHooks(q) \in Seq(ToSet(q))
    BY PickedFrom DEF IsList, OurHooks
  <2> QED
    BY <2>1, LenProperties
<1>5. Len(OurHooks(new)) \in Nat /\ Len(OurHooks(hooks)) \in Nat /\ Len(OurHooks(m.hooks)) \in Nat
  BY <1>3, <1>4
<1> QED
  BY <1>2, <1>3, <1>5 DEF new

LEMMA FieldsKept ==
  ASSUME NEW config, NEW agent, NEW m, ConfigKept(config, agent, m), NEW x
  PROVE  /\ ConfigKept(Backup(config), agent, m)
         /\ ConfigKept([Backup(config) EXCEPT !.whole = FALSE], agent, m)
         /\ ConfigKept(WithMcp(config, x), agent, m) /\ ConfigKept(WithPlugin(config, x), agent, m)
BY DEF ConfigKept, Backup, WithMcp, WithPlugin

LEMMA HooksWritten ==
  ASSUME NEW m \in Machines, NEW agent \in HookAgents, NEW config, ConfigKept(config, agent, m), NEW port
  PROVE  ConfigKept(WithHooks(agent, config, port), agent, m)
<1> DEFINE hooks == UpsertHook(agent, config.hooks, port)
           new == WithHooks(agent, config, port)
<1>1. /\ IsList(hooks) /\ UserHooks(hooks) = UserHooks(m.hooks)
      /\ agent \in {"codex", "gemini-cli"} =>
           Len(OurHooks(hooks)) <= 1 \/ Len(OurHooks(hooks)) <= Len(OurHooks(m.hooks))
  BY HooksKept, MachinesReadable DEF ConfigKept
<1>2. new = [config EXCEPT !.hooks = hooks]
  BY DEF WithHooks
<1> HIDE DEF hooks, new
<1>3. DOMAIN config = {"mcp", "hooks", "toml", "plugin", "scope", "whole", "backup"}
  BY DEF ConfigKept
<1>4. /\ DOMAIN new = DOMAIN config /\ new.hooks = hooks
      /\ new.whole = config.whole /\ new.backup = config.backup /\ new.toml = config.toml
  BY <1>2, <1>3
<1> QED
  BY <1>1, <1>4 DEF ConfigKept, new

LEMMA TomlWritten ==
  ASSUME NEW m, NEW config, ConfigKept(config, "codex", m), NEW port
  PROVE  ConfigKept(WithToml(config, port), "codex", m)
<1> DEFINE toml == UpsertToml(config.toml, port)
           new == WithToml(config, port)
<1>1. IsToml(toml) /\ OncePlaced(toml) /\ UserAssignments(toml) = UserAssignments(m.toml)
  BY TomlUpserted DEF ConfigKept
<1>2. new = [config EXCEPT !.mcp = port, !.toml = toml]
  BY DEF WithToml
<1> HIDE DEF toml, new
<1>3. DOMAIN config = {"mcp", "hooks", "toml", "plugin", "scope", "whole", "backup"}
  BY DEF ConfigKept
<1>4. /\ DOMAIN new = DOMAIN config /\ new.toml = toml
      /\ new.whole = config.whole /\ new.backup = config.backup /\ new.hooks = config.hooks
  BY <1>2, <1>3
<1> QED
  BY <1>1, <1>4 DEF ConfigKept, new

\* Whatever file of an agent is written next.
LEMMA FileWritten ==
  ASSUME NEW m \in Machines, NEW agent \in AgentKinds, NEW left \in LeftOf(agent),
         NEW config, ConfigKept(config, agent, m), NEW port
  PROVE  ConfigKept(Written(agent, left[1], config, port), agent, m)
<1>1. CASE left[1] = "mcp" /\ agent = "codex"
  <2>1. Written(agent, left[1], config, port) = WithToml(config, port)
    BY <1>1 DEF Written
  <2> QED
    BY <1>1, <2>1, TomlWritten
<1>2. CASE left[1] = "mcp" /\ agent # "codex"
  <2>1. Written(agent, left[1], config, port) = WithMcp(config, port)
    BY <1>2 DEF Written
  <2> QED
    BY <2>1, FieldsKept
<1>3. CASE left[1] = "hooks" /\ agent \in {"claude-code", "codex"}
  <2>1. Written(agent, left[1], config, port) = WithHooks(agent, config, port) /\ agent \in HookAgents
    BY <1>3 DEF Written, HookAgents
  <2> QED
    BY <2>1, HooksWritten
<1>4. CASE left[1] = "both" /\ agent = "gemini-cli"
  <2>1. /\ Written(agent, left[1], config, port) = WithMcp(WithHooks(agent, config, port), port)
        /\ agent \in HookAgents
    BY <1>4 DEF Written, HookAgents
  <2> QED
    BY <2>1, HooksWritten, FieldsKept
<1>5. CASE left[1] = "both" /\ agent = "openclaw"
  <2>1. Written(agent, left[1], config, port) = WithMcp(WithPlugin(config, port), port)
    BY <1>5 DEF Written
  <2> QED
    BY <2>1, FieldsKept
<1>6. CASE left[1] = "plugin"
  BY <1>6 DEF Written
<1> QED
  BY <1>1, <1>2, <1>3, <1>4, <1>5, <1>6, LeftSteps

-----------------------------------------------------------------------------

AgentsKept == \A agent \in Agents : ConfigKept(agents[agent], agent, machine)

LeftKept == cli.agent # Unset => cli.left \in LeftOf(cli.agent)

KeptInv == HomeKept /\ AgentsKept /\ LeftKept

LEMMA KeptInit ==
  ASSUME Init
  PROVE  KeptInv
<1>1. machine \in Machines /\ home = machine.home
  BY DEF Init
<1>2. HomeKept
  BY <1>1, MachinesReadable DEF HomeKept, HomeSound
<1>3. AgentsKept
  <2> SUFFICES ASSUME NEW agent \in Agents PROVE ConfigKept(agents[agent], agent, machine)
    BY DEF AgentsKept
  <2>1. /\ agents[agent].whole = TRUE
        /\ DOMAIN agents[agent] = {"mcp", "hooks", "toml", "plugin", "scope", "whole", "backup"}
        /\ agents[agent].hooks = IF agent \in HookAgents THEN machine.hooks ELSE <<>>
        /\ agents[agent].toml = IF agent = "codex" THEN machine.toml ELSE <<>>
    BY DEF Init
  <2>2. IsList(machine.hooks) /\ IsToml(machine.toml) /\ OncePlaced(machine.toml)
    BY <1>1, MachinesReadable DEF OncePlaced
  <2>3. OurHooks(machine.hooks) \in Seq(ToSet(machine.hooks))
    BY <2>2, PickedFrom DEF OurHooks, IsList
  <2>4. Len(OurHooks(machine.hooks)) \in Nat
    BY <2>3, LenProperties
  <2>5. agent \in {"codex", "gemini-cli"} => agent \in HookAgents
    BY DEF HookAgents
  <2> QED
    BY <2>1, <2>2, <2>4, <2>5 DEF ConfigKept
<1>4. LeftKept
  BY DEF Init, Idle, LeftKept
<1> QED
  BY <1>2, <1>3, <1>4 DEF KeptInv

LEMMA KeptAside ==
  ASSUME KeptInv, UNCHANGED <<home, agents, machine>>, LeftKept'
  PROVE  KeptInv'
BY DEF KeptInv, HomeKept, HomeSound, AgentsKept

LEMMA LeftAside ==
  ASSUME LeftKept, AgentsLeft
  PROVE  LeftKept'
BY DEF LeftKept, AgentsLeft

\* One agent gets another configuration, and the command goes on or gives it up.
LEMMA AgentWritten ==
  ASSUME CommandInv, AgentsInv, KeptInv, UNCHANGED <<home, machine>>,
         NEW config, cli.agent # Unset, ConfigKept(config, cli.agent, machine),
         FileDone(config) \/ GiveUpAgent(config)
  PROVE  KeptInv'
<1>1. cli.agent \in Agents /\ cli.agent \in AgentKinds /\ DOMAIN agents = Agents
  BY AgentsKnown DEF AgentsInv
<1>2. agents' = [agents EXCEPT ![cli.agent] = config]
  BY DEF FileDone, GiveUpAgent
<1>3. AgentsKept'
  BY <1>1, <1>2 DEF AgentsKept, KeptInv
<1>4. LeftKept'
  <2>1. CASE cli'.agent = Unset
    BY <2>1 DEF LeftKept
  <2>2. CASE cli'.agent # Unset
    <3>1. cli' = [cli EXCEPT !.left = Tail(@)] /\ Len(cli.left) # 1
      BY <2>2 DEF FileDone, GiveUpAgent, CommandInv, Idle
    <3>2. cli'.agent = cli.agent /\ cli'.left = Tail(cli.left)
      BY <3>1 DEF CommandInv, Idle
    <3>3. cli.left \in LeftOf(cli.agent)
      BY DEF KeptInv, LeftKept
    <3> QED
      BY <1>1, <3>1, <3>2, <3>3, LeftSteps DEF LeftKept
  <2> QED
    BY <2>1, <2>2
<1> QED
  BY <1>3, <1>4 DEF KeptInv, HomeKept, HomeSound

LEMMA FileStepKept ==
  ASSUME CommandInv, AgentsInv, KeptInv, FileStep, UNCHANGED machine
  PROVE  KeptInv'
<1>0. HomeKept /\ AgentsKept /\ LeftKept
  BY DEF KeptInv
<1>1. CASE InstallArtifacts
  <2>1. AgentsLeft
    BY <1>1, AgentFieldsKept, AgentsAside DEF InstallArtifacts, Proceed
  <2>2. home' \in {home, EnsureCliExposure(home)} /\ UNCHANGED agents
    BY <1>1 DEF InstallArtifacts
  <2>3. HomeKept'
    BY <1>0, <2>2, HomeExposed DEF HomeKept, HomeSound
  <2> QED
    BY <1>0, <2>1, <2>2, <2>3, LeftAside DEF KeptInv, AgentsKept
<1>2. CASE NextAgent
  <2>1. UNCHANGED <<home, agents>>
    BY <1>2 DEF NextAgent, OnlyCommand, files
  <2>2. CASE cli.picked = <<>>
    <3>1. AgentsLeft
      BY <1>2, <2>2, AgentFieldsKept, AgentsAside DEF NextAgent, Proceed
    <3> QED
      BY <1>0, <2>1, <3>1, LeftAside, KeptAside
  <2>3. CASE cli.picked # <<>>
    <3>1. cli' = [cli EXCEPT !.agent = Head(cli.picked), !.picked = Tail(cli.picked),
                             !.left = FileSteps(Head(cli.picked))]
      BY <1>2, <2>3 DEF NextAgent
    <3>2. Head(cli.picked) \in AgentKinds
      BY <2>3, AgentsKnown DEF AgentsInv
    <3>3. cli'.agent = Head(cli.picked) /\ cli'.left = FileSteps(Head(cli.picked))
      BY <3>1 DEF CommandInv, Idle
    <3>4. LeftKept'
      BY <3>2, <3>3, LeftSteps DEF LeftKept
    <3> QED
      BY <2>1, <3>4, KeptAside
  <2> QED
    BY <2>2, <2>3
<1>3. ASSUME cli.agent # Unset
      PROVE  /\ cli.agent \in AgentKinds /\ machine \in Machines /\ cli.left \in LeftOf(cli.agent)
             /\ ConfigKept(agents[cli.agent], cli.agent, machine)
  BY <1>0, <1>3, AgentsKnown DEF AgentsInv, HomeKept, AgentsKept, LeftKept
<1>4. CASE WriteAgentFile
  <2> DEFINE config == agents[cli.agent]
  <2>1. cli.agent # Unset /\ UNCHANGED home
    BY <1>4 DEF WriteAgentFile
  <2>2. CASE \E entry : FileDone(WithMcp(config, entry)) \/ GiveUpAgent(WithMcp(config, entry))
    <3>1. PICK entry : FileDone(WithMcp(config, entry)) \/ GiveUpAgent(WithMcp(config, entry))
      BY <2>2
    <3>2. ConfigKept(WithMcp(config, entry), cli.agent, machine)
      BY <1>3, <2>1, FieldsKept
    <3> QED
      BY <2>1, <3>1, <3>2, AgentWritten
  <2>3. CASE FileDone(Written(cli.agent, cli.left[1], Backup(config), PlannedPort))
    <3>1. ConfigKept(Backup(config), cli.agent, machine)
      BY <1>3, <2>1, FieldsKept
    <3>2. ConfigKept(Written(cli.agent, cli.left[1], Backup(config), PlannedPort), cli.agent, machine)
      BY <1>3, <2>1, <3>1, FileWritten
    <3> QED
      BY <2>1, <2>3, <3>2, AgentWritten
  <2>4. CASE GiveUpAgent(config)
    BY <1>3, <2>1, <2>4, AgentWritten
  <2>5. \/ \E outcome : FileDone(WithMcp(config, outcome.entry)) \/ GiveUpAgent(WithMcp(config, outcome.entry))
        \/ FileDone(Written(cli.agent, cli.left[1], Backup(config), PlannedPort))
        \/ GiveUpAgent(config)
    BY <1>4, Zenon DEF WriteAgentFile
  <2> QED
    BY <2>2, <2>3, <2>4, <2>5, Zenon
<1>5. CASE TearAgentFile
  <2> DEFINE torn == [Backup(agents["codex"]) EXCEPT !.whole = FALSE]
  <2>1. UNCHANGED home /\ (GiveUpAgent(torn) \/ Fail) /\ agents' = [agents EXCEPT !["codex"] = torn]
    BY <1>5 DEF TearAgentFile, GiveUpAgent
  <2>2. "codex" \in Agents => ConfigKept(torn, "codex", machine)
    BY <1>0, FieldsKept DEF AgentsKept
  <2> HIDE DEF torn
  <2>3. AgentsKept'
    BY <1>0, <2>1, <2>2 DEF AgentsKept, AgentsInv
  <2>4. CASE GiveUpAgent(torn)
    <3>1. cli'.agent = Unset
      BY <2>4 DEF GiveUpAgent, CommandInv, Idle
    <3> QED
      BY <1>0, <2>1, <2>3, <3>1 DEF KeptInv, HomeKept, HomeSound, LeftKept
  <2>5. CASE Fail
    BY <1>0, <2>1, <2>3, <2>5, AgentsAside, LeftAside DEF KeptInv, HomeKept, HomeSound
  <2> QED
    BY <2>1, <2>4, <2>5
<1>6. CASE WriteSettings \/ WriteSecrets \/ InstallService \/ Repair
  <2>1. AgentsLeft
    BY <1>6, AgentFieldsKept, AgentsAside DEF WriteSettings, WriteSecrets, InstallService, Repair, Proceed
  <2>2. UNCHANGED <<home, agents>>
    BY <1>6 DEF WriteSettings, WriteSecrets, InstallService, Repair
  <2> QED
    BY <1>0, <2>1, <2>2, LeftAside, KeptAside
<1>7. CASE BreakOffExposure
  <2>1. AgentsLeft
    BY <1>7, AgentsAside DEF BreakOffExposure
  <2>2. home' \in BrokenExposures(home) /\ UNCHANGED agents
    BY <1>7 DEF BreakOffExposure
  <2>3. HomeSound(home')
    BY <1>0, <2>2, HomeBroken
  <2>4. HomeKept'
    BY <1>0, <2>3 DEF HomeKept, HomeSound
  <2> QED
    BY <1>0, <2>1, <2>2, <2>4, LeftAside DEF KeptInv, AgentsKept
<1> QED
  BY <1>1, <1>2, <1>4, <1>5, <1>6, <1>7 DEF FileStep

LEMMA CommandedKept ==
  ASSUME CommandInv, AgentsInv, KeptInv, Commanded
  PROVE  KeptInv'
<1>1. UNCHANGED <<home, agents, machine>>
  BY DEF Commanded, GiveCommand, GiveSetup, GiveUse, ConfigSet, EditSettings, Interrupt, Give, files
<1>2. ASSUME cli'.agent = Unset PROVE LeftKept'
  BY <1>2 DEF LeftKept
<1>3. CASE GiveCommand \/ GiveUse
  <2>1. \E cmd, todo, s : cli' = [Idle EXCEPT !.cmd = cmd, !.todo = todo, !.s = s]
    BY <1>3 DEF GiveCommand, GiveUse, Give
  <2> QED
    BY <1>1, <1>2, <2>1, KeptAside DEF Idle
<1>4. CASE GiveSetup
  <2>1. \E s, picked, secret :
          cli' = [Idle EXCEPT !.cmd = "setup", !.todo = Steps("setup"), !.s = s,
                              !.picked = picked, !.secret = secret]
    BY <1>4, Zenon DEF GiveSetup, Give
  <2> QED
    BY <1>1, <1>2, <2>1, KeptAside DEF Idle
<1>5. CASE ConfigSet \/ EditSettings
  <2>1. \E cmd : cli' = [Idle EXCEPT !.cmd = cmd]
    BY <1>5 DEF ConfigSet, EditSettings, Give
  <2> QED
    BY <1>1, <1>2, <2>1, KeptAside DEF Idle
<1>6. CASE Interrupt
  BY <1>1, <1>6, AgentsAside, LeftAside, KeptAside DEF Interrupt, KeptInv
<1> QED
  BY <1>3, <1>4, <1>5, <1>6 DEF Commanded

LEMMA KeptInvariance == Spec => []KeptInv
<1>1. Init => KeptInv
  BY KeptInit
<1>2. InstallInv /\ AgentsInv /\ KeptInv /\ [Next]_vars => KeptInv'
  <2> SUFFICES ASSUME InstallInv, CommandInv, AgentsInv, KeptInv, [Next]_vars PROVE KeptInv'
    BY DEF InstallInv
  <2>1. CASE Manager
    <3>1. UNCHANGED <<home, agents, machine, cli>>
      BY <2>1 DEF Manager, Kick, Respawn, Crash, Exit, Launch, Configure, Bind, StartByHand, files
    <3> QED
      BY <3>1, KeptAside DEF KeptInv, LeftKept
  <2>2. CASE Commanded
    BY <2>2, CommandedKept
  <2>3. CASE FileStep
    <3>1. UNCHANGED machine
      BY <2>3 DEF FileStep, InstallArtifacts, BreakOffExposure, NextAgent, WriteAgentFile, TearAgentFile, WriteSettings,
         WriteSecrets, InstallService, Repair, OnlyCommand, OnlyFiles
    <3> QED
      BY <2>3, <3>1, FileStepKept
  <2>4. CASE ServiceStep
    <3>1. UNCHANGED <<home, agents, machine>>
      BY <2>4 DEF ServiceStep, StartService, AwaitActive, AwaitHealth, AwaitFinalHealth, RestartService,
         AwaitRestart, StopService, AwaitInactive, Apply, Revive, Report, OnlyCommand, OnlyFiles,
         files, NotManager
    <3>2. LeftKept'
      BY <2>4, ServiceAside, LeftAside DEF KeptInv
    <3> QED
      BY <3>1, <3>2, KeptAside
  <2>5. CASE UNCHANGED vars
    BY <2>5, KeptAside DEF vars, files, KeptInv, LeftKept
  <2> QED
    BY <2>1, <2>2, <2>3, <2>4, <2>5 DEF Next
<1> QED
  BY <1>1, <1>2, TypesInvariance, PTL DEF Spec

\* Only a fault tears a start-up file, and no more than one.
TornInv == IsFiniteSet(home.torn) /\ Cardinality(home.torn) <= faults

LEMMA TornNext ==
  ASSUME BoundsInv, HomeKept, TornInv, [Next]_vars
  PROVE  TornInv'
<1>0. faults \in Nat
  BY BoundsNat DEF BoundsInv
<1>1. \/ faults' \in {faults, faults + 1} /\ home' \in {home, EnsureCliExposure(home)}
      \/ BreakOffExposure
  <2>1. CASE Manager \/ UNCHANGED vars
    BY <2>1 DEF Manager, Kick, Respawn, Crash, Exit, Launch, Configure, Bind, StartByHand, files, vars
  <2>2. CASE Commanded
    BY <2>2 DEF Commanded, GiveCommand, GiveSetup, GiveUse, ConfigSet, EditSettings, Interrupt, Give, files
  <2>3. CASE FileStep
    BY <2>3 DEF FileStep, InstallArtifacts, NextAgent, WriteAgentFile, TearAgentFile, WriteSettings,
       WriteSecrets, InstallService, Repair, OnlyCommand, OnlyFiles, files
  <2>4. CASE ServiceStep
    BY <2>4 DEF ServiceStep, StartService, AwaitActive, AwaitHealth, AwaitFinalHealth, RestartService,
       AwaitRestart, StopService, AwaitInactive, Apply, Revive, Report, OnlyCommand, OnlyFiles,
       files, NotManager
  <2> QED
    BY <2>1, <2>2, <2>3, <2>4 DEF Next
<1>2. ASSUME home'.torn = home.torn, faults' \in {faults, faults + 1} PROVE TornInv'
  BY <1>0, <1>2, FS_CardinalityType DEF TornInv
<1>3. ASSUME NEW file, home'.torn = home.torn \cup {file}, faults' = faults + 1 PROVE TornInv'
  <2>1. /\ IsFiniteSet(home.torn) /\ Cardinality(home.torn) \in Nat /\ Cardinality(home.torn) <= faults
    BY FS_CardinalityType DEF TornInv
  <2>2. /\ IsFiniteSet(home.torn \cup {file})
        /\ Cardinality(home.torn \cup {file}) \in {Cardinality(home.torn), Cardinality(home.torn) + 1}
    BY <2>1, FS_AddElement
  <2> QED
    BY <1>0, <1>3, <2>1, <2>2 DEF TornInv
<1>4. CASE faults' \in {faults, faults + 1} /\ home' \in {home, EnsureCliExposure(home)}
  BY <1>2, <1>4, HomeExposed
<1>5. CASE BreakOffExposure
  BY <1>2, <1>3, <1>5, HomeBroken DEF BreakOffExposure
<1> QED
  BY <1>1, <1>4, <1>5

LEMMA TornInvariance == Spec => []TornInv
<1>1. Init => TornInv
  <2> SUFFICES ASSUME Init PROVE TornInv
    OBVIOUS
  <2>1. home.torn = {} /\ faults = 0
    BY MachinesReadable DEF Init
  <2>2. IsFiniteSet({}) /\ Cardinality({}) = 0
    BY FS_EmptySet
  <2> QED
    BY <2>1, <2>2 DEF TornInv
<1>2. BoundsInv /\ KeptInv /\ TornInv /\ [Next]_vars => TornInv'
  BY TornNext DEF KeptInv
<1> QED
  BY <1>1, <1>2, TypesInvariance, KeptInvariance, PTL DEF Spec

\* However often setup runs and whatever breaks it off, what the user has written
\* is still there, in order, in every agent's file or its backup and in the start-up
\* files of the shell, except in those whose overwriting broke off, no more than
\* there were faults; and Codex and Gemini get no second hook of Memory Bank: on
\* every machine whose files the agents and the shell can read (agents/*.rs,
\* assets.rs).
THEOREM UserConfigKeptHolds == Spec => []UserConfigKept
<1>1. KeptInv /\ TornInv => UserConfigKept
  <2> SUFFICES ASSUME KeptInv, TornInv PROVE UserConfigKept
    OBVIOUS
  <2>1. ASSUME NEW file \in RcFiles \ home.torn
        PROVE  UserLines(home.rc[file]) = UserLines(machine.home.rc[file])
    <3> DEFINE before == machine.home.rc[file]
    <3>1. before \in Seq(AnyLine) \cup {NoFile} /\ OwnBlock(Lines(before))
      BY MachinesReadable DEF KeptInv, HomeKept
    <3>2. UserLines(WithBlock(before)) = UserLines(before)
      BY <3>1, FileWithBlock
    <3> QED
      BY <3>2 DEF KeptInv, HomeKept, HomeSound
  <2> QED
    BY <2>1 DEF KeptInv, AgentsKept, ConfigKept, UserConfigKept, TornInv
<1> QED
  BY <1>1, KeptInvariance, TornInvariance, PTL

-----------------------------------------------------------------------------
(* Secrets.                                                                *)

\* The text of a value, character by character.
LEMMA EscapedSteps ==
  ASSUME NEW U, NEW q \in Seq(U)
  PROVE  /\ EscapedTo(q)[0] = <<>>
         /\ \A i \in 1..Len(q) : EscapedTo(q)[i] = EscapedTo(q)[i - 1] \o Escaped(q[i])
<1> DEFINE Grown(i, k) == k \o Escaped(q[i])
           Is(K, m) == K = [i \in 0..m |-> IF i = 0 THEN <<>> ELSE Grown(i, K[i - 1])]
           T == {m \in Nat : \E K : Is(K, m)}
           All == CHOOSE K : Is(K, Len(q))
<1>0. Len(q) \in Nat
  BY LenProperties
<1>1. EscapedTo(q) = All
  BY Zenon DEF EscapedTo
<1> HIDE DEF Grown
<1>2. 0 \in T
  <2>1. Is([i \in 0..0 |-> <<>>], 0)
    OBVIOUS
  <2> HIDE DEF Is
  <2> QED
    BY <2>1
<1>3. ASSUME NEW m \in Nat, m \in T PROVE m + 1 \in T
  <2>1. PICK K : Is(K, m)
    <3> HIDE DEF Is
    <3> QED
      BY <1>3
  <2> DEFINE F == [i \in 0..(m + 1) |-> IF i = m + 1 THEN Grown(m + 1, K[m]) ELSE K[i]]
  <2>2. \A i \in 0..(m + 1) : F[i] = IF i = 0 THEN <<>> ELSE Grown(i, F[i - 1])
    BY <2>1
  <2>3. Is(F, m + 1)
    BY <2>2
  <2> HIDE DEF Is
  <2> QED
    BY <2>3
<1>4. Len(q) \in T
  <2> HIDE DEF T
  <2> QED
    BY <1>0, <1>2, <1>3, NumberInduction
<1>5. Is(All, Len(q))
  <2> HIDE DEF Is
  <2> QED
    BY <1>4
<1> HIDE DEF All
<1>6. All[0] = <<>> /\ \A i \in 1..Len(q) : All[i] = Grown(i, All[i - 1])
  BY <1>0, <1>5
<1> QED
  BY <1>1, <1>6 DEF Grown

\* What has been read of it, character by character.
LEMMA ReadSteps ==
  ASSUME NEW U, NEW q \in Seq(U)
  PROVE  /\ ReadTo(q)[0] = NothingRead
         /\ \A i \in 1..Len(q) : ReadTo(q)[i] = ReadNext(ReadTo(q)[i - 1], q[i])
<1> DEFINE Grown(i, k) == ReadNext(k, q[i])
           Is(K, m) == K = [i \in 0..m |-> IF i = 0 THEN NothingRead ELSE Grown(i, K[i - 1])]
           T == {m \in Nat : \E K : Is(K, m)}
           All == CHOOSE K : Is(K, Len(q))
<1>0. Len(q) \in Nat
  BY LenProperties
<1>1. ReadTo(q) = All
  BY Zenon DEF ReadTo
<1> HIDE DEF Grown
<1>2. 0 \in T
  <2>1. Is([i \in 0..0 |-> NothingRead], 0)
    OBVIOUS
  <2> HIDE DEF Is
  <2> QED
    BY <2>1
<1>3. ASSUME NEW m \in Nat, m \in T PROVE m + 1 \in T
  <2>1. PICK K : Is(K, m)
    <3> HIDE DEF Is
    <3> QED
      BY <1>3
  <2> DEFINE F == [i \in 0..(m + 1) |-> IF i = m + 1 THEN Grown(m + 1, K[m]) ELSE K[i]]
  <2>2. \A i \in 0..(m + 1) : F[i] = IF i = 0 THEN NothingRead ELSE Grown(i, F[i - 1])
    BY <2>1
  <2>3. Is(F, m + 1)
    BY <2>2
  <2> HIDE DEF Is
  <2> QED
    BY <2>3
<1>4. Len(q) \in T
  <2> HIDE DEF T
  <2> QED
    BY <1>0, <1>2, <1>3, NumberInduction
<1>5. Is(All, Len(q))
  <2> HIDE DEF Is
  <2> QED
    BY <1>4
<1> HIDE DEF All
<1>6. All[0] = NothingRead /\ \A i \in 1..Len(q) : All[i] = Grown(i, All[i - 1])
  BY <1>0, <1>5
<1> QED
  BY <1>1, <1>6 DEF Grown

\* One more character.
LEMMA ReadAppend ==
  ASSUME NEW U, NEW q \in Seq(U), NEW x \in U
  PROVE  ReadJson(Append(q, x)) = ReadNext(ReadJson(q), x)
<1> DEFINE r == Append(q, x)  n == Len(q)  K == ReadTo(q)  L == ReadTo(r)
           T == {m \in Nat : m <= n => K[m] = L[m]}
<1>1. /\ n \in Nat /\ r \in Seq(U) /\ Len(r) = n + 1 /\ r[n + 1] = x
      /\ \A i \in 1..n : r[i] = q[i]
  BY LenProperties, AppendProperties
<1>2. /\ K[0] = NothingRead /\ \A i \in 1..n : K[i] = ReadNext(K[i - 1], q[i])
      /\ L[0] = NothingRead /\ \A i \in 1..Len(r) : L[i] = ReadNext(L[i - 1], r[i])
  BY <1>1, ReadSteps
<1> HIDE DEF K, L, r, n
<1>3. 0 \in T
  BY <1>2
<1>4. ASSUME NEW m \in Nat, m \in T PROVE m + 1 \in T
  <2> SUFFICES ASSUME m + 1 <= n PROVE K[m + 1] = L[m + 1]
    OBVIOUS
  <2>1. K[m] = L[m] /\ m + 1 \in 1..n /\ m + 1 \in 1..Len(r) /\ (m + 1) - 1 = m
    BY <1>1, <1>4, SMTT(20)
  <2> QED
    BY <1>1, <1>2, <2>1
<1>5. n \in T
  <2> HIDE DEF T
  <2> QED
    BY <1>1, <1>3, <1>4, NumberInduction
<1>6. n + 1 \in 1..Len(r) /\ (n + 1) - 1 = n /\ K[n] = L[n]
  BY <1>1, <1>5
<1>7. L[Len(r)] = ReadNext(K[n], x)
  BY <1>1, <1>2, <1>6
<1> QED
  BY <1>7 DEF ReadJson, K, L, r, n

\* What is written for a character, it is read as.
LEMMA CharRead ==
  ASSUME NEW text \in Seq(Visible), NEW char \in Visible, NEW told \in Seq(Visible),
         ReadJson(text) = [text |-> told, open |-> FALSE, valid |-> TRUE]
  PROVE  /\ text \o Escaped(char) \in Seq(Visible)
         /\ ReadJson(text \o Escaped(char)) = [text |-> Append(told, char), open |-> FALSE, valid |-> TRUE]
<1>0. \A x \in Visible : text \o <<x>> = Append(text, x)
  OBVIOUS
<1>1. CASE char \notin {"dq", "bs", "nl"}
  <2>1. Escaped(char) = <<char>>
    BY <1>1 DEF Escaped, Visible, Safe
  <2>2. ReadNext([text |-> told, open |-> FALSE, valid |-> TRUE], char)
          = [text |-> Append(told, char), open |-> FALSE, valid |-> TRUE]
    BY <1>1 DEF ReadNext
  <2>3. ReadJson(Append(text, char)) = ReadNext(ReadJson(text), char)
    BY ReadAppend
  <2>4. ReadJson(Append(text, char)) = [text |-> Append(told, char), open |-> FALSE, valid |-> TRUE]
    BY <2>2, <2>3
  <2>5. text \o Escaped(char) = Append(text, char) /\ Append(text, char) \in Seq(Visible)
    BY <1>0, <2>1, AppendProperties
  <2> QED
    BY <2>4, <2>5
<1>2. CASE char \in {"dq", "bs", "nl"}
  <2> DEFINE second == IF char = "nl" THEN "n" ELSE char
             one == Append(text, "bs")
  <2>1. Escaped(char) = <<"bs", second>>
    BY <1>2 DEF Escaped
  <2>2. second \in Visible /\ "bs" \in Visible /\ second \in {"dq", "bs", "n"}
    BY <1>2 DEF Visible, Safe
  <2>3. text \o <<"bs", second>> = Append(one, second) /\ one \in Seq(Visible)
        /\ Append(one, second) \in Seq(Visible)
    <3> HIDE DEF second
    <3> QED
      BY <2>2, AppendProperties
  <2>4. ReadNext([text |-> told, open |-> FALSE, valid |-> TRUE], "bs")
          = [text |-> told, open |-> TRUE, valid |-> TRUE]
    BY DEF ReadNext
  <2>5. ReadNext([text |-> told, open |-> TRUE, valid |-> TRUE], second)
          = [text |-> Append(told, char), open |-> FALSE, valid |-> TRUE]
    BY <1>2 DEF ReadNext
  <2> HIDE DEF second, one
  <2>6. ReadJson(one) = [text |-> told, open |-> TRUE, valid |-> TRUE]
    BY <2>2, <2>4, ReadAppend DEF one
  <2> QED
    BY <2>1, <2>2, <2>3, <2>5, <2>6, ReadAppend
<1> QED
  BY <1>1, <1>2

\* What is written for the first characters of a value says them.
LEMMA EscapedRead ==
  ASSUME NEW value \in Seq(Visible), NEW n \in 0..Len(value)
  PROVE  /\ EscapedTo(value)[n] \in Seq(Visible)
         /\ \E told \in Seq(Visible) :
              /\ ReadJson(EscapedTo(value)[n]) = [text |-> told, open |-> FALSE, valid |-> TRUE]
              /\ Len(told) = n
              /\ \A i \in 1..n : told[i] = value[i]
<1> DEFINE K == EscapedTo(value)
           Says(m, told) == /\ ReadJson(K[m]) = [text |-> told, open |-> FALSE, valid |-> TRUE]
                            /\ Len(told) = m
                            /\ \A i \in 1..m : told[i] = value[i]
           T == {m \in Nat : m <= Len(value) =>
                   K[m] \in Seq(Visible) /\ \E told \in Seq(Visible) : Says(m, told)}
<1>0. Len(value) \in Nat
  BY LenProperties
<1>1. K[0] = <<>> /\ \A i \in 1..Len(value) : K[i] = K[i - 1] \o Escaped(value[i])
  BY EscapedSteps
<1>2. 0 \in T
  <2>1. <<>> \in Seq(Visible) /\ Len(<<>>) = 0
    OBVIOUS
  <2>2. ReadJson(<<>>) = NothingRead
    BY <2>1, ReadSteps DEF ReadJson
  <2>3. Says(0, <<>>)
    BY <1>1, <2>1, <2>2 DEF NothingRead
  <2> HIDE DEF Says, K
  <2> QED
    BY <1>1, <2>1, <2>3
<1>3. ASSUME NEW m \in Nat, m \in T PROVE m + 1 \in T
  <2> SUFFICES ASSUME m + 1 <= Len(value)
               PROVE  K[m + 1] \in Seq(Visible) /\ \E told \in Seq(Visible) : Says(m + 1, told)
    OBVIOUS
  <2> DEFINE char == value[m + 1]
  <2>1. m <= Len(value) /\ m + 1 \in 1..Len(value) /\ (m + 1) - 1 = m
    BY <1>0
  <2>2. PICK told \in Seq(Visible) : Says(m, told)
    <3> HIDE DEF Says, K
    <3> QED
      BY <1>3, <2>1
  <2>3. K[m] \in Seq(Visible) /\ char \in Visible
    <3> HIDE DEF Says, K
    <3> QED
      BY <1>3, <2>1, ElementOfSeq
  <2>4. K[m + 1] = K[m] \o Escaped(char)
    <3> HIDE DEF K
    <3> QED
      BY <1>1, <2>1
  <2>5. Append(told, char) \in Seq(Visible) /\ Len(Append(told, char)) = m + 1
        /\ \A i \in 1..(m + 1) : Append(told, char)[i] = value[i]
    <3>1. Len(told) = m /\ \A i \in 1..m : told[i] = value[i]
      BY <2>2
    <3> HIDE DEF K
    <3> QED
      BY <2>3, <3>1, AppendProperties
  <2>6. /\ K[m] \o Escaped(char) \in Seq(Visible)
        /\ ReadJson(K[m] \o Escaped(char)) = [text |-> Append(told, char), open |-> FALSE, valid |-> TRUE]
    <3>1. ReadJson(K[m]) = [text |-> told, open |-> FALSE, valid |-> TRUE]
      BY <2>2
    <3>2. ASSUME NEW text \in Seq(Visible), NEW c \in Visible,
                 ReadJson(text) = [text |-> told, open |-> FALSE, valid |-> TRUE]
          PROVE  /\ text \o Escaped(c) \in Seq(Visible)
                 /\ ReadJson(text \o Escaped(c)) = [text |-> Append(told, c), open |-> FALSE, valid |-> TRUE]
      BY <3>2, CharRead
    <3> HIDE DEF K, char
    <3> QED
      BY <2>3, <3>1, <3>2
  <2>7. Says(m + 1, Append(told, char))
    BY <2>4, <2>5, <2>6
  <2> HIDE DEF Says, K, char
  <2> QED
    BY <2>4, <2>5, <2>6, <2>7
<1>4. n \in Nat /\ n <= Len(value)
  BY <1>0
<1>5. n \in T
  <2> HIDE DEF T
  <2> QED
    BY <1>2, <1>3, <1>4, NumberInduction
<1> QED
  BY <1>4, <1>5

\* The inside of a quoted text.
LEMMA QuotedInside ==
  ASSUME NEW text \in Seq(Visible)
  PROVE  /\ Quoted(text) \in Seq(Visible)
         /\ Len(Quoted(text)) >= 2
         /\ Head(Quoted(text)) = "dq" /\ Last(Quoted(text)) = "dq"
         /\ SubSeq(Quoted(text), 2, Len(Quoted(text)) - 1) = text
<1> DEFINE n == Len(text)  dq == <<"dq">>
<1>1. "dq" \in Visible
  BY DEF Visible
<1>2. dq \in Seq(Visible) /\ Len(dq) = 1 /\ dq[1] = "dq"
  BY <1>1
<1> HIDE DEF dq
<1>3. dq \o text \in Seq(Visible) /\ Len(dq \o text) = 1 + n
      /\ \A i \in 1..(1 + n) : (dq \o text)[i] = IF i <= 1 THEN dq[i] ELSE text[i - 1]
  <2>1. ASSUME NEW q \in Seq(Visible)
        PROVE  /\ q \o text \in Seq(Visible) /\ Len(q \o text) = Len(q) + Len(text)
               /\ \A i \in 1..(Len(q) + Len(text)) :
                    (q \o text)[i] = IF i <= Len(q) THEN q[i] ELSE text[i - Len(q)]
    BY ConcatProperties
  <2> QED
    BY <1>2, <2>1
<1>4. n \in Nat
  BY LenProperties
<1> DEFINE front == dq \o text  all == front \o dq
<1>5. all \in Seq(Visible) /\ Len(all) = (1 + n) + 1
      /\ \A i \in 1..((1 + n) + 1) : all[i] = IF i <= 1 + n THEN front[i] ELSE dq[i - (1 + n)]
  <2> HIDE DEF front
  <2>1. front \in Seq(Visible) /\ Len(front) = 1 + n
    BY <1>3 DEF front
  <2>2. /\ all \in Seq(Visible) /\ Len(all) = Len(front) + Len(dq)
        /\ \A i \in 1..(Len(front) + Len(dq)) : all[i] = IF i <= Len(front) THEN front[i] ELSE dq[i - Len(front)]
    BY <1>2, <2>1, ConcatProperties
  <2> HIDE DEF all
  <2> QED
    BY <1>2, <2>1, <2>2
<1>6. Quoted(text) = all
  BY DEF Quoted, dq
<1>7. front[1] = "dq" /\ \A i \in 2..(1 + n) : front[i] = text[i - 1]
  BY <1>2, <1>3, <1>4
<1> HIDE DEF all, front
<1>8. all[1] = "dq" /\ all[(1 + n) + 1] = "dq" /\ \A i \in 2..(1 + n) : all[i] = text[i - 1]
  <2> HIDE DEF n
  <2>1. 1 \in 1..((1 + n) + 1) /\ 1 <= 1 + n
    BY <1>4
  <2>2. (1 + n) + 1 \in 1..((1 + n) + 1) /\ ~((1 + n) + 1 <= 1 + n) /\ ((1 + n) + 1) - (1 + n) = 1
    BY <1>4
  <2>3. all[1] = "dq"
    BY <1>5, <1>7, <2>1
  <2>4. all[(1 + n) + 1] = dq[((1 + n) + 1) - (1 + n)]
    BY <1>5, <2>2
  <2>5. all[(1 + n) + 1] = "dq"
    BY <1>2, <2>2, <2>4
  <2>6. ASSUME NEW i \in 2..(1 + n) PROVE all[i] = text[i - 1]
    <3>1. i \in 1..((1 + n) + 1) /\ i <= 1 + n
      BY <1>4
    <3>2. all[i] = front[i] /\ front[i] = text[i - 1]
      BY <1>5, <1>7, <3>1
    <3> QED
      BY <3>2
  <2> QED
    BY <2>3, <2>5, <2>6
<1>9. SubSeq(all, 2, Len(all) - 1) = text
  <2>1. SubSeq(all, 2, 1 + n) \in Seq(Visible) /\ Len(SubSeq(all, 2, 1 + n)) = n
        /\ \A i \in 1..n : SubSeq(all, 2, 1 + n)[i] = all[(2 + i) - 1]
    BY <1>4, <1>5, SubSeqProperties
  <2>2. \A i \in 1..n : SubSeq(all, 2, 1 + n)[i] = text[i]
    <3> SUFFICES ASSUME NEW i \in 1..n PROVE SubSeq(all, 2, 1 + n)[i] = text[i]
      OBVIOUS
    <3>1. (2 + i) - 1 \in 2..(1 + n) /\ ((2 + i) - 1) - 1 = i
      BY <1>4
    <3>2. all[(2 + i) - 1] = text[((2 + i) - 1) - 1]
      BY <1>8, <3>1
    <3>3. SubSeq(all, 2, 1 + n)[i] = all[(2 + i) - 1]
      BY <2>1
    <3> QED
      BY <3>1, <3>2, <3>3
  <2>3. SubSeq(all, 2, 1 + n) = text
    BY <2>1, <2>2, SeqEqual
  <2>4. Len(all) - 1 = 1 + n
    BY <1>4, <1>5
  <2> QED
    BY <2>3, <2>4
<1>10. Head(all) = all[1] /\ Last(all) = all[Len(all)] /\ Len(all) >= 2
  <2>1. Len(all) >= 2 /\ all # <<>>
    BY <1>4, <1>5
  <2>2. Head(all) = all[1]
    BY <1>5, <2>1
  <2>3. Last(all) = all[Len(all)]
    BY DEF Last
  <2> QED
    BY <2>1, <2>2, <2>3
<1> QED
  BY <1>5, <1>6, <1>8, <1>9, <1>10

\* A secret of visible characters, of any length, is read as it was written, safe
\* for a shell or not (escape_env_value, unescape_env_value).
THEOREM SecretsKept ==
  ASSUME NEW value \in Seq(Visible)
  PROVE  /\ EscapeEnvValue(value) \in Seq(Visible)
         /\ UnescapeEnvValue(EscapeEnvValue(value)) = value
<1>1. CASE value # <<>> /\ ToSet(value) \subseteq Safe
  <2>1. EscapeEnvValue(value) = value
    BY <1>1 DEF EscapeEnvValue
  <2>2. value[1] \in ToSet(value) /\ Head(value) = value[1]
    BY <1>1, EmptySeq DEF ToSet
  <2>3. Head(value) # "dq"
    BY <1>1, <2>2 DEF Safe
  <2> QED
    BY <2>1, <2>3 DEF UnescapeEnvValue
<1>2. CASE ~(value # <<>> /\ ToSet(value) \subseteq Safe)
  <2> DEFINE n == Len(value)  text == EscapedTo(value)[n]
  <2>1. n \in Nat /\ n \in 0..Len(value)
    BY LenProperties
  <2>2. text \in Seq(Visible)
    BY <2>1, EscapedRead
  <2>3. PICK told \in Seq(Visible) :
              /\ ReadJson(text) = [text |-> told, open |-> FALSE, valid |-> TRUE]
              /\ Len(told) = n
              /\ \A i \in 1..n : told[i] = value[i]
    BY <2>1, EscapedRead
  <2>4. told = value
    BY <2>3, SeqEqual
  <2>5. EscapeEnvValue(value) = Quoted(text)
    BY <1>2 DEF EscapeEnvValue
  <2> DEFINE written == Quoted(text)
  <2> HIDE DEF text
  <2>6. /\ written \in Seq(Visible) /\ Len(written) >= 2
        /\ Head(written) = "dq" /\ Last(written) = "dq"
        /\ SubSeq(written, 2, Len(written) - 1) = text
    BY <2>2, QuotedInside
  <2> HIDE DEF written
  <2>7. UnescapeEnvValue(written) = value
    <3>1. ~(Len(written) < 2 \/ Head(written) # "dq" \/ Last(written) # "dq")
      BY <2>6, LenProperties
    <3>2. ReadJson(text).valid /\ ~ReadJson(text).open /\ ReadJson(text).text = value
      BY <2>3, <2>4
    <3> QED
      BY <2>6, <3>1, <3>2 DEF UnescapeEnvValue
  <2> QED
    BY <2>5, <2>6, <2>7 DEF written
<1> QED
  BY <1>1, <1>2

-----------------------------------------------------------------------------
(* The port that the plugins read.                                         *)

\* The lines that the settings can be written in.
LinesOf(s) == {Header(section) : section \in {"service", "server"}}
                \cup {Entry(Field(key), s[key]) : key \in Keys}

Sections == {"", "service", "server"}

LEMMA KeysOfSections ==
  ASSUME NEW section \in Sections
  PROVE  /\ KeysOf(section) \in Seq(Keys)
         /\ section # "service" => \A i \in DOMAIN KeysOf(section) : KeysOf(section)[i] # "service.port"
<1> USE DEF Keys, Numbers, Enumerated, Texts
<1>1. CASE section = ""
  <2>1. KeysOf(section) = <<"active_namespace">>
    BY <1>1 DEF KeysOf
  <2>2. <<"active_namespace">> \in Seq(Keys)
    OBVIOUS
  <2> QED
    BY <2>1, <2>2
<1>2. CASE section = "service"
  BY <1>2 DEF KeysOf
<1>3. CASE section = "server"
  <2> DEFINE keys == <<"server.llm_provider", "server.llm_model", "server.ollama_url", "server.openai_url",
           "server.encoder_provider", "server.fastembed_model", "server.history_window_size",
           "server.nearest_neighbor_count", "server.max_processing_attempts",
           "server.local_encoder_url", "server.remote_encoder_url">>
  <2>1. KeysOf(section) = keys
    BY <1>3 DEF KeysOf
  <2>2. DOMAIN keys = 1..11
    OBVIOUS
  <2>3. keys \in Seq(Keys)
    OBVIOUS
  <2>4. \A i \in 1..11 : keys[i] # "service.port"
    OBVIOUS
  <2> QED
    BY <1>3, <2>1, <2>2, <2>3, <2>4
<1> QED
  BY <1>1, <1>2, <1>3 DEF Sections

\* Only a header is not an entry, and an entry is one of a key of the section.
LEMMA LinesOfSection ==
  ASSUME NEW s, NEW section \in Sections
  PROVE  LET lines == SectionLines(s, section) IN
         /\ lines \in Seq(LinesOf(s))
         /\ \A i \in DOMAIN lines : lines[i].kind = "entry" /\ lines[i].name = "port" =>
              section = "service" /\ s["service.port"] # Unset
<1> DEFINE keys == KeysOf(section)
           I == {i \in DOMAIN keys : s[keys[i]] # Unset}
           set == Picked(keys, I)
           entries == [i \in DOMAIN set |-> Entry(Field(set[i]), s[set[i]])]
           header == <<Header(section)>>
           lines == SectionLines(s, section)
           U == LinesOf(s)
           top == section = ""
<1>1. /\ keys \in Seq(Keys)
      /\ section # "service" => \A i \in DOMAIN keys : keys[i] # "service.port"
  BY KeysOfSections
<1> HIDE DEF keys
<1>2. set \in Seq(Keys) /\ \A k \in DOMAIN set : \E i \in DOMAIN keys : i \in I /\ set[k] = keys[i]
  <2> HIDE DEF I
  <2> QED
    BY <1>1, PickedFrom
<1>3. \A k \in DOMAIN set : s[set[k]] # Unset /\ (section # "service" => set[k] # "service.port")
  <2> SUFFICES ASSUME NEW k \in DOMAIN set
               PROVE  s[set[k]] # Unset /\ (section # "service" => set[k] # "service.port")
    OBVIOUS
  <2>1. PICK i \in DOMAIN keys : i \in I /\ set[k] = keys[i]
    BY <1>2
  <2> QED
    BY <1>1, <2>1
<1>4. lines = IF top \/ entries = <<>> THEN entries ELSE header \o entries
  BY DEF SectionLines, keys
<1>0. top \/ Header(section) \in U
  BY Zenon DEF Sections, U, LinesOf
<1> HIDE DEF set, top
<1>5. Len(set) \in Nat /\ DOMAIN set = 1..Len(set) /\ \A k \in 1..Len(set) : set[k] \in Keys
  BY <1>2, LenProperties, ElementOfSeq
<1>6. \A k \in DOMAIN set : Entry(Field(set[k]), s[set[k]]) \in U
  BY <1>5 DEF LinesOf
<1>7. entries \in Seq(U) /\ Len(entries) = Len(set)
  <2> HIDE DEF U
  <2> QED
    BY <1>5, <1>6
<1>8. \A k \in DOMAIN entries : entries[k].name = "port" => section = "service" /\ s["service.port"] # Unset
  <2> SUFFICES ASSUME NEW k \in DOMAIN set, Field(set[k]) = "port"
               PROVE  section = "service" /\ s["service.port"] # Unset
    BY DEF Entry
  <2>1. set[k] = "service.port" \/ set[k] = "port"
    BY DEF Field
  <2>2. set[k] # "port"
    BY <1>5 DEF Keys, Numbers, Enumerated, Texts
  <2> QED
    BY <1>3, <2>1, <2>2
<1> HIDE DEF entries, U
<1>9. ~top => header \in Seq(U) /\ Len(header) = 1 /\ header[1].kind = "section"
  <2>1. Header(section).kind = "section"
    BY DEF Header
  <2> QED
    BY <1>0, <2>1 DEF U
<1>10. CASE top \/ entries = <<>>
  BY <1>4, <1>7, <1>8, <1>10 DEF U
<1>11. CASE ~(top \/ entries = <<>>)
  <2> HIDE DEF header
  <2>1. header \o entries \in Seq(U) /\ Len(header \o entries) = Len(header) + Len(entries)
        /\ \A i \in 1..(Len(header) + Len(entries)) :
             (header \o entries)[i] = IF i <= Len(header) THEN header[i] ELSE entries[i - Len(header)]
    <3>1. header \in Seq(U) /\ entries \in Seq(U)
      BY <1>7, <1>9, <1>11
    <3> QED
      BY <3>1, ConcatProperties
  <2> DEFINE all == header \o entries
  <2> HIDE DEF all
  <2>2. all \in Seq(U) /\ Len(all) = 1 + Len(entries) /\ all[1] = header[1]
        /\ \A i \in 2..(1 + Len(entries)) : all[i] = entries[i - 1]
    <3>1. Len(entries) \in Nat /\ Len(header) = 1
      BY <1>5, <1>7, <1>9, <1>11
    <3>2. /\ all \in Seq(U) /\ Len(all) = Len(header) + Len(entries)
          /\ \A i \in 1..(Len(header) + Len(entries)) :
               all[i] = IF i <= Len(header) THEN header[i] ELSE entries[i - Len(header)]
      BY <2>1 DEF all
    <3> QED
      BY <3>1, <3>2
  <2>3. DOMAIN entries = 1..Len(entries) /\ Len(entries) \in Nat
    BY <1>7, LenProperties
  <2>4. ASSUME NEW i \in DOMAIN all, all[i].kind = "entry", all[i].name = "port"
        PROVE  section = "service" /\ s["service.port"] # Unset
    <3>1. DOMAIN all = 1..(1 + Len(entries))
      BY <2>2, LenProperties
    <3>2. i # 1
      BY <1>9, <1>11, <2>2, <2>4
    <3>3. i \in 2..(1 + Len(entries)) /\ i - 1 \in DOMAIN entries
      BY <2>3, <3>1, <3>2
    <3> QED
      BY <1>8, <2>2, <2>4, <3>3
  <2> QED
    BY <1>4, <1>11, <2>2, <2>4 DEF U, all
<1> QED
  BY <1>10, <1>11

\* A sequence with one more in front.
LEMMA HeadPut ==
  ASSUME NEW U, NEW x \in U, NEW q \in Seq(U)
  PROVE  LET new == <<x>> \o q IN
         /\ new \in Seq(U) /\ Len(new) = 1 + Len(q) /\ new[1] = x
         /\ \A i \in 1..Len(q) : new[i + 1] = q[i]
<1> DEFINE one == <<x>>  new == one \o q
<1>1. one \in Seq(U) /\ Len(one) = 1 /\ one[1] = x
  OBVIOUS
<1>2. Len(q) \in Nat
  BY LenProperties
<1> HIDE DEF one
<1>3. /\ new \in Seq(U) /\ Len(new) = Len(one) + Len(q)
      /\ \A i \in 1..(Len(one) + Len(q)) : new[i] = IF i <= Len(one) THEN one[i] ELSE q[i - Len(one)]
  BY <1>1, ConcatProperties
<1> HIDE DEF new
<1>4. new[1] = x
  BY <1>1, <1>2, <1>3
<1>5. ASSUME NEW i \in 1..Len(q) PROVE new[i + 1] = q[i]
  <2>1. i + 1 \in 1..(Len(one) + Len(q)) /\ ~(i + 1 <= Len(one)) /\ (i + 1) - Len(one) = i
    BY <1>1, <1>2
  <2>2. new[i + 1] = q[(i + 1) - Len(one)]
    BY <1>3, <2>1
  <2> QED
    BY <2>1, <2>2
<1> QED
  BY <1>1, <1>3, <1>4, <1>5 DEF one, new

\* The section of the service, when it has a port.
LEMMA ServiceLines ==
  ASSUME NEW s, s["service.port"] # Unset
  PROVE  LET lines == SectionLines(s, "service") IN
         /\ Len(lines) >= 2
         /\ lines[1] = Header("service") /\ lines[2] = Entry("port", s["service.port"])
         /\ \A i \in DOMAIN lines \ {1, 2} : lines[i].name # "port"
<1> DEFINE keys == KeysOf("service")
           I == {i \in DOMAIN keys : s[keys[i]] # Unset}
           set == Picked(keys, I)
           entries == [i \in DOMAIN set |-> Entry(Field(set[i]), s[set[i]])]
           lines == SectionLines(s, "service")
<1>1. keys = <<"service.port", "service.autostart">>
  BY DEF KeysOf
<1>2. keys \in Seq({"service.port", "service.autostart"}) /\ Len(keys) = 2 /\ DOMAIN keys = {1, 2}
      /\ keys[1] = "service.port" /\ keys[2] = "service.autostart"
  <2> HIDE DEF keys
  <2> QED
    BY <1>1
<1>3. 1 \in I
  <2>1. 1 \in DOMAIN keys /\ keys[1] = "service.port"
    BY <1>2
  <2> HIDE DEF keys
  <2> QED
    BY <2>1
<1>4. lines = IF entries = <<>> THEN entries ELSE <<Header("service")>> \o entries
  BY Zenon DEF SectionLines
<1> HIDE DEF keys, I
<1>5. set \in {<<"service.port">>, <<"service.port", "service.autostart">>}
  <2> DEFINE K == Kept(keys, I)
  <2>1. K[0] = <<>>
        /\ \A i \in 1..Len(keys) : K[i] = IF i \in I THEN Append(K[i - 1], keys[i]) ELSE K[i - 1]
    BY <1>2, KeptSteps
  <2> HIDE DEF K
  <2>2. K[1] = Append(<<>>, "service.port")
    BY <1>2, <1>3, <2>1
  <2>3. K[2] = Append(K[1], "service.autostart") \/ K[2] = K[1]
    <3>1. 2 \in 1..Len(keys) /\ 2 - 1 = 1
      BY <1>2
    <3> QED
      BY <1>2, <2>1, <3>1
  <2>4. set = K[2]
    BY <1>2 DEF Picked, K
  <2> HIDE DEF set
  <2> QED
    BY <2>2, <2>3, <2>4
<1> HIDE DEF set
<1>6. Field("service.port") = "port" /\ Field("service.autostart") = "service.autostart"
  BY DEF Field
<1>7. \/ entries = <<Entry("port", s["service.port"])>>
      \/ entries = <<Entry("port", s["service.port"]), Entry("service.autostart", s["service.autostart"])>>
  BY <1>5, <1>6
<1> HIDE DEF entries
<1> DEFINE head == Header("service")  port == Entry("port", s["service.port"])
           auto == Entry("service.autostart", s["service.autostart"])
           U == {head, port, auto}
<1>8. auto.name # "port"
  BY DEF Entry
<1> HIDE DEF lines, head, port, auto
<1>9. head \in U /\ entries \in {<<port>>, <<port, auto>>} /\ entries # <<>>
  BY <1>7 DEF port, auto
<1>10. entries \in Seq(U) /\ Len(entries) \in {1, 2} /\ entries[1] = port
       /\ (Len(entries) = 2 => entries[2] = auto)
  <2>1. CASE entries = <<port>>
    BY <2>1
  <2>2. CASE entries = <<port, auto>>
    BY <2>2
  <2> QED
    BY <1>9, <2>1, <2>2
<1>11. lines = <<head>> \o entries
  BY <1>4, <1>9 DEF lines, head
<1>12. /\ lines \in Seq(U) /\ Len(lines) = 1 + Len(entries) /\ lines[1] = head
       /\ \A i \in 1..Len(entries) : lines[i + 1] = entries[i]
  BY <1>9, <1>10, <1>11, HeadPut
<1>13. DOMAIN lines = 1..Len(lines)
  BY <1>12, LenProperties
<1>14. lines[2] = port
  BY <1>10, <1>12
<1>15. Len(lines) \in {2, 3} /\ (Len(lines) = 3 => lines[3] = auto)
  BY <1>10, <1>12
<1>16. \A i \in DOMAIN lines \ {1, 2} : lines[i] = auto
  BY <1>13, <1>15
<1> QED
  BY <1>8, <1>12, <1>14, <1>15, <1>16 DEF lines, head, port

\* A plugin without a port of its own finds the port of the settings, whether
\* they name it or not (parseAppSettingsToml and AppSettings::save).
THEOREM PortRead ==
  ASSUME NEW s, s["service.port"] # "0"
  PROVE  PluginPort(Unset, SettingsText(s)) = Value(s, "service.port")
<1> DEFINE a == SectionLines(s, "")
           b == SectionLines(s, "service")
           c == SectionLines(s, "server")
           text == (a \o b) \o c
           U == LinesOf(s)
           v == s["service.port"]
<1>1. /\ a \in Seq(U) /\ \A i \in DOMAIN a : ~(a[i].kind = "entry" /\ a[i].name = "port")
      /\ b \in Seq(U) /\ \A i \in DOMAIN b : b[i].kind = "entry" /\ b[i].name = "port" => v # Unset
      /\ c \in Seq(U) /\ \A i \in DOMAIN c : ~(c[i].kind = "entry" /\ c[i].name = "port")
  <2>1. {"", "service", "server"} \subseteq Sections
    BY Zenon DEF Sections
  <2>2. a \in Seq(U) /\ \A i \in DOMAIN a : ~(a[i].kind = "entry" /\ a[i].name = "port")
    BY <2>1, LinesOfSection, Zenon
  <2>3. b \in Seq(U) /\ \A i \in DOMAIN b : b[i].kind = "entry" /\ b[i].name = "port" => v # Unset
    BY <2>1, LinesOfSection, Zenon
  <2>4. c \in Seq(U) /\ \A i \in DOMAIN c : ~(c[i].kind = "entry" /\ c[i].name = "port")
    BY <2>1, LinesOfSection, Zenon
  <2> QED
    BY <2>2, <2>3, <2>4
<1>2. v # Unset =>
        /\ Len(b) >= 2 /\ b[1] = Header("service") /\ b[2] = Entry("port", v)
        /\ \A i \in DOMAIN b \ {1, 2} : b[i].name # "port"
  BY ServiceLines
<1>3. SettingsText(s) = text
  BY Zenon DEF SettingsText
<1> HIDE DEF a, b, c, U
<1> DEFINE m == Len(a)  n == Len(b)  k == Len(c)
<1>4. /\ m \in Nat /\ DOMAIN a = 1..m /\ n \in Nat /\ DOMAIN b = 1..n /\ k \in Nat /\ DOMAIN c = 1..k
  BY <1>1, LenProperties
<1>5. /\ text \in Seq(U) /\ Len(text) = (m + n) + k /\ DOMAIN text = 1..((m + n) + k)
      /\ \A i \in 1..m : text[i] = a[i]
      /\ \A i \in (m + 1)..(m + n) : text[i] = b[i - m]
      /\ \A i \in ((m + n) + 1)..((m + n) + k) : text[i] = c[i - (m + n)]
  <2> DEFINE ab == a \o b
  <2>1. /\ ab \in Seq(U) /\ Len(ab) = Len(a) + Len(b)
        /\ \A i \in 1..(Len(a) + Len(b)) : ab[i] = IF i <= Len(a) THEN a[i] ELSE b[i - Len(a)]
    BY <1>1, ConcatProperties
  <2> HIDE DEF ab
  <2> DEFINE abc == ab \o c
  <2>2. /\ abc \in Seq(U) /\ Len(abc) = Len(ab) + Len(c)
        /\ \A i \in 1..(Len(ab) + Len(c)) : abc[i] = IF i <= Len(ab) THEN ab[i] ELSE c[i - Len(ab)]
    <3>1. ab \in Seq(U) /\ c \in Seq(U)
      BY <1>1, <2>1
    <3> QED
      BY <3>1, ConcatProperties
  <2>3. DOMAIN abc = 1..Len(abc)
    BY <2>2, LenProperties
  <2> HIDE DEF abc
  <2>4. Len(ab) = m + n /\ Len(abc) = (m + n) + k
    BY <2>1, <2>2
  <2> HIDE DEF m, n, k
  <2>5. \A i \in 1..m : abc[i] = a[i]
    BY <1>4, <2>1, <2>2, <2>4 DEF m, n, k
  <2>6. \A i \in (m + 1)..(m + n) : abc[i] = b[i - m]
    BY <1>4, <2>1, <2>2, <2>4 DEF m, n, k
  <2>7. \A i \in ((m + n) + 1)..((m + n) + k) : abc[i] = c[i - (m + n)]
    <3> SUFFICES ASSUME NEW i \in ((m + n) + 1)..((m + n) + k) PROVE abc[i] = c[i - (m + n)]
      OBVIOUS
    <3>1. i \in 1..(Len(ab) + Len(c)) /\ ~(i <= Len(ab))
      BY <1>4, <2>4 DEF k
    <3>2. abc[i] = c[i - Len(ab)]
      BY <2>2, <3>1
    <3> QED
      BY <2>4, <3>2
  <2> QED
    BY <2>2, <2>3, <2>4, <2>5, <2>6, <2>7 DEF abc, ab
<1> DEFINE ports == {i \in DOMAIN text :
              /\ text[i].kind = "entry" /\ text[i].name = "port" /\ text[i].value # "0"
              /\ \E h \in 1..(i - 1) : /\ text[h] = Header("service")
                                     /\ \A j \in (h + 1)..i : text[j].kind # "section"}
           p == m + 2
<1>6. ParsedPort(text) = IF ports = {} THEN Unset ELSE text[CHOOSE i \in ports : \A j \in ports : j <= i].value
  BY Zenon DEF ParsedPort
<1> HIDE DEF text, m, n, k
<1>7. ASSUME NEW i \in ports PROVE v # Unset /\ i = p
  <2>1. i \in 1..((m + n) + k) /\ text[i].kind = "entry" /\ text[i].name = "port"
    BY <1>5
  <2>2. i \notin 1..m
    BY <1>1, <1>4, <1>5, <2>1
  <2>3. i \notin ((m + n) + 1)..((m + n) + k)
    <3> SUFFICES ASSUME i \in ((m + n) + 1)..((m + n) + k) PROVE FALSE
      OBVIOUS
    <3>1. i - (m + n) \in DOMAIN c
      BY <1>4
    <3> QED
      BY <1>1, <1>5, <2>1, <3>1
  <2>4. i \in (m + 1)..(m + n) /\ i - m \in 1..n
    BY <1>4, <2>1, <2>2, <2>3
  <2>5. text[i] = b[i - m] /\ i - m \in DOMAIN b
    BY <1>4, <1>5, <2>4
  <2>6. v # Unset
    BY <1>1, <2>1, <2>5
  <2>7. i - m # 1
    BY <1>2, <2>1, <2>5, <2>6 DEF Header
  <2>8. i - m = 2
    BY <1>2, <2>1, <2>5, <2>6, <2>7
  <2> QED
    BY <1>4, <2>1, <2>6, <2>8
<1>8. ASSUME v # Unset PROVE p \in ports /\ text[p].value = v
  <2>1. m + 1 \in (m + 1)..(m + n) /\ p \in (m + 1)..(m + n) /\ (m + 1) - m = 1 /\ p - m = 2
        /\ p \in 1..((m + n) + k) /\ m + 1 \in 1..(p - 1) /\ ((m + 1) + 1)..p = {p}
    BY <1>2, <1>4, <1>8 DEF n
  <2>2. text[m + 1] = Header("service") /\ text[p] = Entry("port", v)
    BY <1>2, <1>5, <1>8, <2>1
  <2>3. text[p].kind = "entry" /\ text[p].name = "port" /\ text[p].value = v
    BY <2>2 DEF Entry
  <2>4. \A j \in ((m + 1) + 1)..p : text[j].kind # "section"
    BY <2>1, <2>3
  <2> QED
    BY <1>5, <2>1, <2>2, <2>3, <2>4
<1> HIDE DEF ports
<1>9. CASE v = Unset
  <2>1. ParsedPort(text) = Unset
    BY <1>6, <1>7, <1>9
  <2>2. Value(s, "service.port") = "3737"
    BY <1>9 DEF Value, Default
  <2> QED
    BY <1>3, <2>1, <2>2 DEF PluginPort
<1>10. CASE v # Unset
  <2>1. ports = {p} /\ p \in Nat
    BY <1>4, <1>7, <1>8, <1>10
  <2>2. (CHOOSE i \in ports : \A j \in ports : j <= i) = p
    BY <2>1
  <2>3. ParsedPort(text) = v
    BY <1>6, <1>8, <1>10, <2>1, <2>2
  <2>4. Value(s, "service.port") = v
    BY <1>10 DEF Value
  <2> QED
    BY <1>3, <1>10, <2>3, <2>4 DEF PluginPort
<1> QED
  BY <1>9, <1>10

-----------------------------------------------------------------------------
(* What setting an agent up leaves in its files.                           *)

\* What is at a place that is kept is kept.
LEMMA PickedHas ==
  ASSUME NEW U, NEW q \in Seq(U), NEW I, NEW i \in DOMAIN q, i \in I
  PROVE  \E k \in DOMAIN Picked(q, I) : Picked(q, I)[k] = q[i]
<1> DEFINE K == Kept(q, I)
           Has(s) == \E k \in DOMAIN s : s[k] = q[i]
           T == {m \in Nat : i + m <= Len(q) => Has(K[i + m])}
           rest == Len(q) - i
<1>0. Len(q) \in Nat /\ DOMAIN q = 1..Len(q) /\ \A j \in 1..Len(q) : q[j] \in U
  BY LenProperties, ElementOfSeq
<1>1. \A j \in 1..Len(q) : K[j] = IF j \in I THEN Append(K[j - 1], q[j]) ELSE K[j - 1]
  BY KeptSteps
<1>2. \A m \in 0..Len(q) : K[m] \in Seq(U)
  BY KeptFrom
<1> HIDE DEF K
<1>3. ASSUME NEW s \in Seq(U), NEW x \in U
      PROVE  /\ Has(s) => Has(Append(s, x))
             /\ x = q[i] => Has(Append(s, x))
  <2>1. /\ Append(s, x) \in Seq(U) /\ Len(Append(s, x)) = Len(s) + 1
        /\ \A k \in 1..Len(s) : Append(s, x)[k] = s[k]
        /\ Append(s, x)[Len(s) + 1] = x
    BY AppendProperties
  <2>2. /\ DOMAIN s = 1..Len(s) /\ Len(s) \in Nat
        /\ DOMAIN Append(s, x) = 1..(Len(s) + 1)
    BY <2>1, LenProperties
  <2> QED
    BY <2>1, <2>2
<1> HIDE DEF Has
<1>4. 0 \in T
  <2>1. i \in 1..Len(q) /\ i - 1 \in 0..Len(q) /\ i + 0 = i
    BY <1>0
  <2>2. K[i] = Append(K[i - 1], q[i])
    BY <1>1, <2>1
  <2> QED
    BY <1>0, <1>2, <1>3, <2>1, <2>2
<1>5. ASSUME NEW m \in Nat, m \in T PROVE m + 1 \in T
  <2> SUFFICES ASSUME i + (m + 1) <= Len(q) PROVE Has(K[i + (m + 1)])
    OBVIOUS
  <2>1. /\ i + m \in 0..Len(q) /\ i + (m + 1) \in 1..Len(q) /\ (i + (m + 1)) - 1 = i + m
    BY <1>0
  <2>2. Has(K[i + m])
    BY <1>5, <2>1
  <2>3. K[i + (m + 1)] = K[i + m] \/ K[i + (m + 1)] = Append(K[i + m], q[i + (m + 1)])
    BY <1>1, <2>1
  <2> QED
    BY <1>0, <1>2, <1>3, <2>1, <2>2, <2>3
<1>6. rest \in Nat /\ i + rest = Len(q)
  BY <1>0
<1>7. rest \in T
  <2> HIDE DEF T, rest
  <2> QED
    BY <1>4, <1>5, <1>6, NumberInduction
<1>8. Has(K[Len(q)])
  BY <1>0, <1>6, <1>7
<1> QED
  BY <1>8 DEF Has, Picked, K

\* However the hooks were, the one of this setup is among them.
LEMMA HookThere ==
  ASSUME NEW hooks, IsList(hooks), NEW agent \in HookAgents, NEW port
  PROVE  LET ours == OurHooks(UpsertHook(agent, hooks, port)) IN
         \E k \in DOMAIN ours : ours[k].port = port
<1> DEFINE hook == HookCommand(port)
           U == ToSet(hooks) \cup {hook}
<1>1. hooks \in Seq(U) /\ hook \in U
  <2>1. hooks \in Seq(ToSet(hooks)) /\ ToSet(hooks) \subseteq U
    BY DEF IsList
  <2> HIDE DEF U, hook
  <2> QED
    BY <2>1 DEF U
<1>2. IsOurs(hook) /\ hook.port = port
  BY DEF HookCommand, OurHook, IsOurs
<1> HIDE DEF U, hook
<1>3. ASSUME NEW q \in Seq(U), NEW i \in DOMAIN q, q[i] = hook
      PROVE  \E k \in DOMAIN OurHooks(q) : OurHooks(q)[k].port = port
  <2> DEFINE I == Ours(q)
  <2>1. i \in I
    BY <1>2, <1>3 DEF Ours
  <2> HIDE DEF I
  <2>2. \E k \in DOMAIN Picked(q, I) : Picked(q, I)[k] = q[i]
    BY <2>1, PickedHas
  <2> QED
    BY <1>2, <1>3, <2>2 DEF OurHooks, I
<1>4. ASSUME NEW q \in Seq(U)
      PROVE  \E i \in DOMAIN Append(q, hook) : Append(q, hook)[i] = hook
  <2>1. /\ Append(q, hook) \in Seq(U) /\ Len(Append(q, hook)) = Len(q) + 1
        /\ Append(q, hook)[Len(q) + 1] = hook /\ Len(q) \in Nat
    BY <1>1, AppendProperties, LenProperties
  <2>2. DOMAIN Append(q, hook) = 1..(Len(q) + 1)
    BY <2>1, LenProperties
  <2>3. Len(q) + 1 \in 1..(Len(q) + 1)
    BY <2>1
  <2> QED
    BY <2>1, <2>2, <2>3
<1>5. ASSUME NEW found, found \subseteq Ours(hooks)
      PROVE  \E i \in DOMAIN ReplaceFirst(hooks, found, hook) : ReplaceFirst(hooks, found, hook)[i] = hook
  <2>1. CASE found = {}
    BY <1>1, <1>4, <2>1 DEF ReplaceFirst
  <2>2. CASE found # {}
    <3> DEFINE first == CHOOSE i \in found : \A j \in found : i <= j
               new == [hooks EXCEPT ![first] = hook]
    <3>1. Len(hooks) \in Nat /\ DOMAIN hooks = 1..Len(hooks)
      BY <1>1, LenProperties
    <3>2. found \subseteq 1..Len(hooks)
      BY <1>5, <3>1 DEF Ours
    <3>3. first \in DOMAIN hooks
      BY <2>2, <3>1, <3>2, LeastPlace
    <3> HIDE DEF first
    <3>4. first \in DOMAIN new /\ new[first] = hook
      BY <3>3
    <3>5. ReplaceFirst(hooks, found, hook) = new
      BY <2>2 DEF ReplaceFirst, first
    <3> QED
      BY <3>4, <3>5
  <2> QED
    BY <2>1, <2>2
<1>6. ASSUME NEW found, found \subseteq Ours(hooks)
      PROVE  ReplaceFirst(hooks, found, hook) \in Seq(U)
  BY <1>1, <1>2, <1>6, FirstReplaced
<1>7. UserHooks(hooks) \in Seq(U)
  BY <1>1, UserHooksAlone
<1> DEFINE new == UpsertHook(agent, hooks, port)
<1>8. new \in Seq(U) /\ \E i \in DOMAIN new : new[i] = hook
  <2>1. CASE agent = "claude-code"
    <3> DEFINE found == {i \in Ours(hooks) : hooks[i].style = "plain"}
    <3>1. new = ReplaceFirst(hooks, found, hook) /\ found \subseteq Ours(hooks)
      BY <2>1 DEF UpsertHook, UpsertClaudeHook, hook
    <3> HIDE DEF new, found
    <3> QED
      BY <1>5, <1>6, <3>1
  <2>2. CASE agent = "codex"
    <3>1. new = Append(UserHooks(hooks), hook)
      BY <2>2 DEF UpsertHook, UpsertCodexHook, hook
    <3> HIDE DEF new
    <3> QED
      BY <1>1, <1>4, <1>7, <3>1, AppendProperties
  <2>3. CASE agent = "gemini-cli"
    <3>1. new = ReplaceFirst(hooks, Ours(hooks), hook)
      BY <2>3 DEF UpsertHook, UpsertGeminiHook, hook
    <3> HIDE DEF new
    <3> QED
      BY <1>5, <1>6, <3>1
  <2> QED
    BY <2>1, <2>2, <2>3 DEF HookAgents
<1> HIDE DEF new
<1> QED
  BY <1>3, <1>8 DEF new

\* The hooks of Codex are switched on by one assignment, and by no other.
FeaturesOn(lines) ==
  \E k \in DOMAIN lines :
    /\ lines[k] = HooksOn
    /\ \A l \in DOMAIN lines \ {k} : lines[l].key # "codex_hooks"

LEMMA FeaturesSwitched ==
  ASSUME NEW lines, IsList(lines)
  PROVE  FeaturesOn(UpsertFeatures(lines))
<1> DEFINE n == Len(lines)
           set == {i \in DOMAIN lines : lines[i].key = "codex_hooks"}
           U == ToSet(lines) \cup {HooksOn}
<1>1. lines \in Seq(U) /\ HooksOn \in U
  <2>1. lines \in Seq(ToSet(lines)) /\ ToSet(lines) \subseteq U
    BY DEF IsList
  <2> HIDE DEF U
  <2> QED
    BY <2>1 DEF U
<1> HIDE DEF U
<1>2. n \in Nat /\ DOMAIN lines = 1..n /\ \A i \in 1..n : lines[i] \in U
  BY <1>1, LenProperties, ElementOfSeq
<1>3. HooksOn.key = "codex_hooks"
  BY DEF HooksOn, Assign
<1>4. CASE set = {}
  <2> DEFINE new == Append(lines, HooksOn)
  <2>1. UpsertFeatures(lines) = new
    BY <1>4 DEF UpsertFeatures
  <2>2. /\ new \in Seq(U) /\ Len(new) = n + 1 /\ new[n + 1] = HooksOn
        /\ \A i \in 1..n : new[i] = lines[i]
    BY <1>1, AppendProperties
  <2>3. DOMAIN new = 1..(n + 1)
    BY <2>2, LenProperties
  <2> HIDE DEF new
  <2>4. \A i \in 1..n : lines[i].key # "codex_hooks"
    BY <1>2, <1>4
  <2> HIDE DEF n
  <2>5. n + 1 \in DOMAIN new /\ DOMAIN new \ {n + 1} = 1..n
    BY <1>2, <2>3
  <2> QED
    BY <2>1, <2>2, <2>4, <2>5 DEF FeaturesOn
<1>5. CASE set # {}
  <2> DEFINE first == CHOOSE i \in set : \A j \in set : i <= j
             on == [i \in DOMAIN lines |-> IF i \in set THEN HooksOn ELSE lines[i]]
             J == {i \in DOMAIN lines : i \in set => \A j \in set : i <= j}
             p == Picked(on, J)
  <2>1. UpsertFeatures(lines) = p
    BY <1>5 DEF UpsertFeatures
  <2>2. first \in set /\ \A j \in set : first <= j
    BY <1>2, <1>5, LeastPlace
  <2>3. /\ on \in Seq(U) /\ DOMAIN on = 1..n
        /\ \A i \in 1..n : on[i] = IF i \in set THEN HooksOn ELSE lines[i]
    <3>1. DOMAIN on = 1..n /\ \A i \in 1..n : on[i] = IF i \in set THEN HooksOn ELSE lines[i]
      <4> HIDE DEF n, set
      <4> QED
        BY <1>2
    <3>2. on \in [1..n -> U]
      <4> HIDE DEF n, set
      <4> QED
        BY <1>1, <1>2
    <3> HIDE DEF on, n
    <3> QED
      BY <1>2, <3>1, <3>2
  <2> HIDE DEF on, first
  <2>4. \A i \in 1..n : on[i].key = "codex_hooks" <=> i \in set
    BY <1>2, <1>3, <2>3
  <2>5. \A i, j \in J \cap DOMAIN on : i \in set /\ j \in set => ~(i < j)
    BY <1>2, <2>3
  <2>6. first \in DOMAIN on /\ first \in J /\ on[first] = HooksOn
    BY <1>2, <2>2, <2>3
  <2> HIDE DEF J
  <2>7. \E k \in DOMAIN p : p[k] = on[first]
    BY <2>3, <2>6, PickedHas
  <2>8. PICK k \in DOMAIN p : p[k] = HooksOn
    BY <2>6, <2>7
  <2>9. \A a, b \in DOMAIN p : a < b =>
           \E i, j \in J \cap DOMAIN on : i < j /\ p[a] = on[i] /\ p[b] = on[j]
    BY <2>3, PickedOrder
  <2>10. p \in Seq(U)
    BY <2>3, PickedFrom
  <2>11. DOMAIN p = 1..Len(p) /\ Len(p) \in Nat
    BY <2>10, LenProperties
  <2> HIDE DEF p, n
  <2>12. ASSUME NEW a \in DOMAIN p, NEW b \in DOMAIN p, a < b,
               p[a].key = "codex_hooks", p[b].key = "codex_hooks"
        PROVE  FALSE
    <3>1. PICK i, j \in J \cap DOMAIN on : i < j /\ p[a] = on[i] /\ p[b] = on[j]
      BY <2>9, <2>12
    <3>2. i \in set /\ j \in set
      BY <2>3, <2>4, <2>12, <3>1
    <3> QED
      BY <2>5, <3>1, <3>2
  <2>13. ASSUME NEW l \in DOMAIN p \ {k} PROVE p[l].key # "codex_hooks"
    <3>1. l < k \/ k < l
      BY <2>11
    <3> QED
      BY <1>3, <2>8, <2>12, <3>1
  <2> QED
    BY <2>1, <2>8, <2>13 DEF FeaturesOn, p
<1> QED
  BY <1>4, <1>5

\* A section of Memory Bank's says what it should.
SectionSet(x, port) ==
  /\ x.header = MemoryBankMcp => x = Section(MemoryBankMcp, McpLines(port))
  /\ x.header = "features" => FeaturesOn(x.lines)

LEMMA SectionRewritten ==
  ASSUME NEW x, IsSection(x), NEW port
  PROVE  Rewritten(x, port).header = x.header /\ SectionSet(Rewritten(x, port), port)
<1> DEFINE new == Rewritten(x, port)
<1>1. x = [header |-> x.header, lines |-> x.lines]
  BY DEF IsSection, Section
<1>2. CASE x.header = MemoryBankMcp
  <2>1. new = [x EXCEPT !.lines = McpLines(port)]
    BY <1>2 DEF Rewritten, MemoryBankMcp
  <2> HIDE DEF new
  <2>2. \A a, b, c : [Section(a, b) EXCEPT !.lines = c] = Section(a, c) /\ Section(a, c).header = a
    BY DEF Section
  <2>3. x = Section(x.header, x.lines)
    BY DEF IsSection
  <2>4. new = Section(MemoryBankMcp, McpLines(port)) /\ new.header = MemoryBankMcp
    <3>1. [x EXCEPT !.lines = McpLines(port)] = Section(x.header, McpLines(port))
      BY <2>2, <2>3
    <3>2. new = Section(x.header, McpLines(port))
      BY <2>1, <3>1
    <3> QED
      BY <1>2, <2>2, <3>2
  <2>5. MemoryBankMcp # "features"
    BY DEF MemoryBankMcp
  <2>6. SectionSet(new, port)
    BY <2>4, <2>5, Zenon DEF SectionSet
  <2> QED
    BY <1>2, <2>4, <2>6 DEF new
<1>3. CASE x.header = "features"
  <2>1. new = [x EXCEPT !.lines = UpsertFeatures(x.lines)]
    BY <1>3 DEF Rewritten, MemoryBankMcp
  <2> HIDE DEF new
  <2>2. new.header = "features" /\ new.lines = UpsertFeatures(x.lines)
    BY <1>1, <1>3, <2>1
  <2>3. FeaturesOn(UpsertFeatures(x.lines))
    BY FeaturesSwitched DEF IsSection
  <2> QED
    BY <1>3, <2>2, <2>3 DEF new, SectionSet, MemoryBankMcp
<1>4. CASE x.header \notin {MemoryBankMcp, "features"}
  BY <1>4, SectionKept DEF SectionSet
<1> QED
  BY <1>2, <1>3, <1>4

AllSet(sections, port) == \A i \in DOMAIN sections : SectionSet(sections[i], port)

LEMMA MergedSet ==
  ASSUME NEW sections, IsToml(sections), NEW port
  PROVE  LET merged == Picked([i \in DOMAIN sections |-> Rewritten(sections[i], port)], Firsts(sections)) IN
         AllSet(merged, port)
<1> DEFINE U == ToSet(sections)
           r == [i \in DOMAIN sections |-> Rewritten(sections[i], port)]
           V == {Rewritten(x, port) : x \in U}
           I == Firsts(sections)
           m == Picked(r, I)
           n == Len(sections)
<1>1. /\ sections \in Seq(U) /\ n \in Nat /\ DOMAIN sections = 1..n
      /\ \A i \in 1..n : sections[i] \in U /\ IsSection(sections[i])
  BY LenProperties DEF IsToml, IsList, IsSection, ToSet
<1>2. /\ r \in Seq(V) /\ Len(r) = n /\ DOMAIN r = 1..n
      /\ \A i \in 1..n : r[i] = Rewritten(sections[i], port)
  <2> HIDE DEF n
  <2>1. \A i \in 1..n : Rewritten(sections[i], port) \in V
    BY <1>1
  <2>2. r \in [1..n -> V] /\ \A i \in 1..n : r[i] = Rewritten(sections[i], port)
    <3> HIDE DEF V, U
    <3> QED
      BY <1>1, <2>1
  <2> HIDE DEF r, V
  <2> QED
    BY <1>1, <2>2
<1>3. \A i \in 1..n : SectionSet(r[i], port)
  <2> HIDE DEF r, n
  <2> QED
    BY <1>1, <1>2, SectionRewritten
<1> HIDE DEF r, n, U, V, I
<1>4. m \in Seq(V) /\ \A k \in DOMAIN m : \E i \in 1..n : i \in I /\ m[k] = r[i]
  <2>1. /\ Picked(r, I) \in Seq(V)
        /\ \A k \in DOMAIN Picked(r, I) : \E i \in DOMAIN r : i \in I /\ Picked(r, I)[k] = r[i]
    BY <1>2, PickedFrom
  <2> QED
    BY <1>2, <2>1
<1> HIDE DEF m
<1>5. AllSet(m, port)
  <2> SUFFICES ASSUME NEW k \in DOMAIN m PROVE SectionSet(m[k], port)
    BY DEF AllSet
  <2>1. PICK i \in 1..n : m[k] = r[i]
    BY <1>4
  <2>2. SectionSet(r[i], port)
    BY <1>3
  <2> QED
    BY <2>1, <2>2
<1> QED
  BY <1>5 DEF m, r, I

LEMMA SectionThere ==
  ASSUME NEW sections, IsToml(sections), NEW port, AllSet(sections, port), NEW header
  PROVE  LET new == WithSection(sections, header, port) IN
         /\ AllSet(new, port) /\ HasSection(new, header)
         /\ \A h : HasSection(sections, h) => HasSection(new, h)
<1>1. CASE HasSection(sections, header)
  BY <1>1 DEF WithSection
<1>2. CASE ~HasSection(sections, header)
  <2> DEFINE x == Rewritten(Section(header, <<>>), port)
             U == ToSet(sections) \cup {x}
             new == Append(sections, x)
             n == Len(sections)
  <2>1. x.header = header /\ SectionSet(x, port)
    <3>1. <<>> \in Seq({}) 
      OBVIOUS
    <3>2. IsList(<<>>)
      BY <3>1, IsListSeq
    <3>3. IsSection(Section(header, <<>>)) /\ Section(header, <<>>).header = header
      BY <3>2 DEF IsSection, Section
    <3> QED
      BY <3>3, SectionRewritten
  <2> HIDE DEF x
  <2>2. sections \in Seq(U) /\ x \in U
    <3>1. sections \in Seq(ToSet(sections)) /\ ToSet(sections) \subseteq U
      BY DEF IsToml, IsList
    <3> HIDE DEF U
    <3> QED
      BY <3>1 DEF U
  <2> HIDE DEF U
  <2>3. /\ new \in Seq(U) /\ Len(new) = n + 1 /\ new[n + 1] = x
        /\ \A i \in 1..n : new[i] = sections[i]
    BY <2>2, AppendProperties
  <2>4. n \in Nat /\ DOMAIN sections = 1..n /\ DOMAIN new = 1..(n + 1)
    BY <2>2, <2>3, LenProperties
  <2>5. WithSection(sections, header, port) = new
    BY <1>2 DEF WithSection, x
  <2> HIDE DEF new, n
  <2>6. AllSet(new, port)
    <3> SUFFICES ASSUME NEW i \in 1..(n + 1) PROVE SectionSet(new[i], port)
      BY <2>4 DEF AllSet
    <3>1. CASE i \in 1..n
      BY <2>3, <2>4, <3>1 DEF AllSet
    <3>2. CASE i \notin 1..n
      <4>1. i = n + 1
        BY <2>4, <3>2
      <4> QED
        BY <2>1, <2>3, <4>1
    <3> QED
      BY <3>1, <3>2
  <2>7. n + 1 \in DOMAIN new /\ 1..n \subseteq DOMAIN new
    BY <2>4
  <2>8. HasSection(new, header)
    BY <2>1, <2>3, <2>7 DEF HasSection
  <2>9. ASSUME NEW h, HasSection(sections, h) PROVE HasSection(new, h)
    <3>1. PICK i \in 1..n : sections[i].header = h
      BY <2>4, <2>9 DEF HasSection
    <3> QED
      BY <2>3, <2>7, <3>1 DEF HasSection
  <2> QED
    BY <2>5, <2>6, <2>8, <2>9
<1> QED
  BY <1>1, <1>2

\* Whatever the file was like that Codex can read, it says what it should.
LEMMA TomlSet ==
  ASSUME NEW sections, IsToml(sections), OncePlaced(sections), NEW port
  PROVE  TomlWired(UpsertToml(sections, port), port)
<1> DEFINE merged == Picked([i \in DOMAIN sections |-> Rewritten(sections[i], port)], Firsts(sections))
           one == WithSection(merged, "features", port)
           two == WithSection(one, MemoryBankMcp, port)
<1>1. UpsertToml(sections, port) = two
  BY DEF UpsertToml
<1>2. IsToml(merged) /\ Firsts(merged) = DOMAIN merged /\ AllSet(merged, port)
  BY SectionsMerged, MergedSet
<1> HIDE DEF merged
<1>3. /\ IsToml(one) /\ Firsts(one) = DOMAIN one
      /\ AllSet(one, port) /\ HasSection(one, "features")
  BY <1>2, SectionPut, SectionThere
<1> HIDE DEF one
<1>4. /\ IsToml(two) /\ Firsts(two) = DOMAIN two
      /\ AllSet(two, port) /\ HasSection(two, MemoryBankMcp) /\ HasSection(two, "features")
  BY <1>3, SectionPut, SectionThere
<1> HIDE DEF two
<1>5. PICK i \in DOMAIN two, j \in DOMAIN two : two[i].header = MemoryBankMcp /\ two[j].header = "features"
  BY <1>4 DEF HasSection
<1>6. two[i] = Section(MemoryBankMcp, McpLines(port)) /\ FeaturesOn(two[j].lines)
  BY <1>4, <1>5 DEF AllSet, SectionSet
<1>7. DOMAIN two = 1..Len(two) /\ Len(two) \in Nat
  BY <1>4, LenProperties DEF IsToml, IsList
<1>8. ASSUME NEW k \in DOMAIN two, NEW l \in DOMAIN two, k < l,
             two[k].header = two[l].header, two[l].header \in ManagedHeaders
      PROVE  FALSE
  <2>1. k \in 1..(l - 1)
    BY <1>7, <1>8
  <2> QED
    BY <1>4, <1>8, <2>1 DEF Firsts
<1>9. ASSUME NEW k \in DOMAIN two \ {i, j} PROVE two[k].header \notin ManagedHeaders
  <2> SUFFICES ASSUME two[k].header \in ManagedHeaders PROVE FALSE
    OBVIOUS
  <2>1. PICK l \in {i, j} : two[k].header = two[l].header
    BY <1>5 DEF ManagedHeaders
  <2>2. k < l \/ l < k
    BY <1>7
  <2> QED
    BY <1>8, <2>1, <2>2
<1> QED
  BY <1>1, <1>5, <1>6, <1>9 DEF TomlWired, FeaturesOn

OnPaths == {"none", "ours", "foreign"}

\* Where no other `mb` is in the way, the doctor finds nothing missing after.
LEMMA ExposedThen ==
  ASSUME HomeKept, home.onPath \in OnPaths
  PROVE  /\ EnsureCliExposure(home).onPath \in OnPaths
         /\ ~CliCollides(home) => CliExposed(EnsureCliExposure(home))
<1> DEFINE new == EnsureCliExposure(home)
<1>1. DOMAIN home = {"shell", "onPath", "binDir", "localBin", "envFile", "rc", "torn"}
  BY MachinesReadable DEF HomeKept, HomeSound
<1>2. machine \in Machines /\ HomeSound(home)
  BY DEF HomeKept
<1>3. CASE Settled(home)
  <2>1. new = home
    BY <1>3 DEF EnsureCliExposure
  <2> QED
    BY <1>3, <2>1 DEF Settled, CliExposed, CliCollides, OnPaths
<1>4. CASE ~Settled(home) /\ home.localBin = "free"
  <2>1. new = [home EXCEPT !.onPath = "ours"]
    BY <1>4 DEF EnsureCliExposure
  <2>2. new.onPath = "ours"
    BY <1>2, <2>1, HomeField
  <2> QED
    BY <2>2 DEF CliExposed, OnPaths
<1>5. CASE ~Settled(home) /\ home.localBin # "free"
  <2> DEFINE merged == [file \in RcFiles |-> IF file \in Targets(home) THEN WithBlock(home.rc[file]) ELSE home.rc[file]]
  <2>1. new = [home EXCEPT !.envFile = TRUE, !.rc = merged]
    BY <1>5 DEF EnsureCliExposure, Sourced
  <2>2. home.onPath = "none"
    BY <1>5 DEF Settled, CliCollides, OnPaths
  <2>3. \A file \in RcFiles : /\ file \in Targets(home) => HasBlock(merged[file]) /\ merged[file] # NoFile
                              /\ file \notin Targets(home) => merged[file] = home.rc[file]
    BY <1>2, RcWritten
  <2> HIDE DEF new, merged
  <2>4. new.onPath = "none" /\ new.envFile = TRUE /\ new.rc = merged /\ new.shell = home.shell
    BY <1>1, <2>1, <2>2
  <2>5. Targets(home) \subseteq RcFiles
    BY DEF Targets, LoginFile, BashLoginFile, RcFiles
  <2>6. Targets(new) = Targets(home)
    <3>1. CASE home.shell # "bash"
      BY <2>4, <3>1 DEF Targets, LoginFile
    <3>2. CASE home.shell = "bash"
      <4>1. Targets(home) = {BashLoginFile(home.rc), ".bashrc"}
        BY <3>2 DEF Targets, LoginFile
      <4>2. {".bash_profile", ".bash_login", ".profile"} \subseteq RcFiles
        BY DEF RcFiles
      <4>3. BashLoginFile(merged) = BashLoginFile(home.rc)
        <5>1. CASE home.rc[".bash_profile"] # NoFile
          BY <2>3, <4>1, <4>2, <5>1 DEF BashLoginFile
        <5>2. CASE home.rc[".bash_profile"] = NoFile /\ home.rc[".bash_login"] # NoFile
          BY <2>3, <4>1, <4>2, <5>2 DEF BashLoginFile
        <5>3. CASE /\ home.rc[".bash_profile"] = NoFile /\ home.rc[".bash_login"] = NoFile
                   /\ home.rc[".profile"] # NoFile
          BY <2>3, <4>1, <4>2, <5>3 DEF BashLoginFile
        <5>4. CASE /\ home.rc[".bash_profile"] = NoFile /\ home.rc[".bash_login"] = NoFile
                   /\ home.rc[".profile"] = NoFile
          BY <2>3, <4>1, <4>2, <5>4 DEF BashLoginFile
        <5> QED
          BY <5>1, <5>2, <5>3, <5>4
      <4> QED
        BY <2>4, <3>2, <4>1, <4>3 DEF Targets, LoginFile
    <3> QED
      BY <3>1, <3>2
  <2>7. \A file \in Targets(new) : HasBlock(new.rc[file])
    BY <2>4, <2>3, <2>5, <2>6
  <2> QED
    BY <2>4, <2>7 DEF CliExposed, OnPaths, new
<1> QED
  BY <1>3, <1>4, <1>5

-----------------------------------------------------------------------------
(* What a setup has put in place, as far as it has got.                    *)

HookReady(hooks, port) == \E k \in DOMAIN OurHooks(hooks) : OurHooks(hooks)[k].port = port

\* The files of an agent that do not post, and all of them.
AsksReady(config, agent, port) ==
  /\ config.mcp = port
  /\ agent = "codex" => TomlWired(config.toml, port)
AgentReady(config, agent, port) ==
  /\ AsksReady(config, agent, port)
  /\ agent \in HookAgents => HookReady(config.hooks, port)
  /\ agent = "openclaw" => config.plugin = port

\* A configuration that differs only in what was not ready before is ready.
LEMMA FieldsReady ==
  ASSUME NEW config, NEW agent, NEW m, ConfigKept(config, agent, m), NEW port
  PROVE  /\ AsksReady(config, agent, port) =>
              /\ AsksReady(Backup(config), agent, port)
              /\ AsksReady([Backup(config) EXCEPT !.whole = FALSE], agent, port)
         /\ AgentReady(config, agent, port) =>
              /\ AgentReady(Backup(config), agent, port)
              /\ AgentReady([Backup(config) EXCEPT !.whole = FALSE], agent, port)
              /\ AgentReady(WithMcp(config, port), agent, port)
BY DEF ConfigKept, AgentReady, AsksReady, Backup, WithMcp

\* The kinds of agents, by what makes them ready.
LEMMA KindsReady ==
  ASSUME NEW config, NEW port
  PROVE  /\ AgentReady(config, "claude-code", port) <=> config.mcp = port /\ HookReady(config.hooks, port)
         /\ AgentReady(config, "codex", port) <=>
              /\ config.mcp = port /\ HookReady(config.hooks, port)
              /\ TomlWired(config.toml, port)
         /\ AgentReady(config, "gemini-cli", port) <=> config.mcp = port /\ HookReady(config.hooks, port)
         /\ AgentReady(config, "opencode", port) <=> config.mcp = port
         /\ AgentReady(config, "openclaw", port) <=> config.mcp = port /\ config.plugin = port
BY DEF AgentReady, AsksReady, HookAgents

\* What the write of a file leaves in the configuration.
LEMMA WriteFields ==
  ASSUME NEW config, NEW agent, NEW m, ConfigKept(config, agent, m), NEW port
  PROVE  /\ WithMcp(config, port).mcp = port /\ WithMcp(config, port).hooks = config.hooks
         /\ WithMcp(config, port).toml = config.toml /\ WithMcp(config, port).plugin = config.plugin
         /\ WithToml(config, port).mcp = port /\ WithToml(config, port).hooks = config.hooks
         /\ WithToml(config, port).toml = UpsertToml(config.toml, port)
         /\ WithHooks(agent, config, port).mcp = config.mcp
         /\ WithHooks(agent, config, port).toml = config.toml
         /\ WithHooks(agent, config, port).hooks = UpsertHook(agent, config.hooks, port)
         /\ WithPlugin(config, port).plugin = port
BY DEF ConfigKept, WithMcp, WithToml, WithHooks, WithPlugin

\* Whatever file of an agent is written next: what was ready stays so, the last
\* file completes it, and before the hooks the others are done.
LEMMA FileReady ==
  ASSUME NEW m \in Machines, NEW agent \in AgentKinds, NEW left \in LeftOf(agent),
         NEW config, ConfigKept(config, agent, m), NEW port
  PROVE  LET new == Written(agent, left[1], config, port) IN
         /\ AgentReady(config, agent, port) => AgentReady(new, agent, port)
         /\ Len(left) = 1 /\ (left = <<"hooks">> => AsksReady(config, agent, port)) =>
              AgentReady(new, agent, port)
         /\ Len(left) # 1 /\ Tail(left) = <<"hooks">> => AsksReady(new, agent, port)
<1> DEFINE new == Written(agent, left[1], config, port)
<1>1. /\ Tail(<<"mcp", "hooks">>) = <<"hooks">> /\ Tail(<<"plugin", "mcp">>) = <<"mcp">>
      /\ Len(<<"hooks">>) = 1 /\ Len(<<"mcp">>) = 1 /\ Len(<<"both">>) = 1
      /\ Len(<<"mcp", "hooks">>) = 2 /\ Len(<<"plugin", "mcp">>) = 2
      /\ <<"mcp">> # <<"hooks">> /\ <<"both">> # <<"hooks">>
  OBVIOUS
<1>2. agent \in HookAgents => HookReady(UpsertHook(agent, config.hooks, port), port)
  <2> SUFFICES ASSUME agent \in HookAgents PROVE HookReady(UpsertHook(agent, config.hooks, port), port)
    OBVIOUS
  <2>1. IsList(config.hooks)
    BY DEF ConfigKept
  <2> QED
    BY <2>1, HookThere DEF HookReady
<1>3. agent = "codex" => TomlWired(UpsertToml(config.toml, port), port)
  BY TomlSet DEF ConfigKept
<1>4. CASE agent = "claude-code"
  <2>1. LeftOf(agent) = {<<"mcp", "hooks">>, <<"hooks">>} /\ agent \in HookAgents
    BY <1>4 DEF LeftOf, HookAgents
  <2>2. CASE left = <<"mcp", "hooks">>
    <3>1. new = WithMcp(config, port)
      BY <1>4, <2>2 DEF Written
    <3> HIDE DEF new
    <3>2. new.mcp = port /\ new.hooks = config.hooks
      BY <3>1, WriteFields
    <3> QED
      BY <1>1, <1>4, <2>2, <3>2, KindsReady DEF AsksReady, new
  <2>3. CASE left = <<"hooks">>
    <3>1. new = WithHooks(agent, config, port)
      BY <1>4, <2>3 DEF Written
    <3> HIDE DEF new
    <3>2. new.mcp = config.mcp /\ HookReady(new.hooks, port)
      BY <1>2, <2>1, <3>1, WriteFields
    <3> QED
      BY <1>1, <1>4, <2>3, <3>2, KindsReady DEF AsksReady, new
  <2> QED
    BY <2>1, <2>2, <2>3
<1>5. CASE agent = "codex"
  <2>1. LeftOf(agent) = {<<"mcp", "hooks">>, <<"hooks">>} /\ agent \in HookAgents
    BY <1>5 DEF LeftOf, HookAgents
  <2>2. CASE left = <<"mcp", "hooks">>
    <3>1. new = WithToml(config, port)
      BY <1>5, <2>2 DEF Written
    <3> HIDE DEF new
    <3>2. new.mcp = port /\ new.hooks = config.hooks /\ TomlWired(new.toml, port)
      BY <1>3, <1>5, <3>1, WriteFields
    <3> QED
      BY <1>1, <1>5, <2>2, <3>2, KindsReady DEF AsksReady, new
  <2>3. CASE left = <<"hooks">>
    <3>1. new = WithHooks(agent, config, port)
      BY <1>5, <2>3 DEF Written
    <3> HIDE DEF new
    <3>2. new.mcp = config.mcp /\ new.toml = config.toml /\ HookReady(new.hooks, port)
      BY <1>2, <2>1, <3>1, WriteFields
    <3> QED
      BY <1>1, <1>5, <2>3, <3>2, KindsReady DEF AsksReady, new
  <2> QED
    BY <2>1, <2>2, <2>3
<1>6. CASE agent = "gemini-cli"
  <2>1. left = <<"both">> /\ agent \in HookAgents
    BY <1>6 DEF LeftOf, HookAgents
  <2>2. new = WithMcp(WithHooks(agent, config, port), port)
    BY <1>6, <2>1 DEF Written
  <2>3. ConfigKept(WithHooks(agent, config, port), agent, m)
    BY <2>1, HooksWritten
  <2> HIDE DEF new
  <2>4. new.mcp = port /\ new.hooks = WithHooks(agent, config, port).hooks
    BY <2>2, <2>3, WriteFields
  <2>5. HookReady(new.hooks, port)
    BY <1>2, <2>1, <2>4, WriteFields
  <2> QED
    BY <1>1, <1>6, <2>1, <2>4, <2>5, KindsReady DEF new
<1>7. CASE agent = "openclaw"
  <2>1. left = <<"both">>
    BY <1>7 DEF LeftOf
  <2>2. new = WithMcp(WithPlugin(config, port), port)
    BY <1>7, <2>1 DEF Written
  <2>3. ConfigKept(WithPlugin(config, port), agent, m)
    BY FieldsKept
  <2> HIDE DEF new
  <2>4. new.mcp = port /\ new.plugin = WithPlugin(config, port).plugin
    BY <2>2, <2>3, WriteFields
  <2>5. new.plugin = port
    BY <2>4, WriteFields
  <2> QED
    BY <1>1, <1>7, <2>1, <2>4, <2>5, KindsReady DEF new
<1>8. CASE agent = "opencode"
  <2>1. LeftOf(agent) = {<<"plugin", "mcp">>, <<"mcp">>}
    BY <1>8 DEF LeftOf
  <2>2. CASE left = <<"plugin", "mcp">>
    <3>1. new = config
      BY <1>8, <2>2 DEF Written
    <3> HIDE DEF new
    <3> QED
      BY <1>1, <2>2, <3>1 DEF new
  <2>3. CASE left = <<"mcp">>
    <3>1. new = WithMcp(config, port)
      BY <1>8, <2>3 DEF Written
    <3> HIDE DEF new
    <3>2. new.mcp = port
      BY <3>1, WriteFields
    <3> QED
      BY <1>1, <1>8, <2>3, <3>2, KindsReady DEF new
  <2> QED
    BY <2>1, <2>2, <2>3
<1> QED
  BY <1>4, <1>5, <1>6, <1>7, <1>8 DEF AgentKinds

\* The agents that the command is through with, and the one it is at.
WiredInv == \A a \in cli.wired : AgentReady(agents[a], a, PlannedPort)
LastInv == cli.agent # Unset /\ cli.left = <<"hooks">> =>
             AsksReady(agents[cli.agent], cli.agent, PlannedPort)
ReadyAgents == WiredInv /\ LastInv

LEMMA ReadyAside ==
  ASSUME ReadyAgents, UNCHANGED agents, AgentsLeft
  PROVE  ReadyAgents'
BY DEF ReadyAgents, WiredInv, LastInv, AgentsLeft, PlannedPort

\* One agent gets another configuration, and the command goes on or gives it up.
LEMMA ReadyWritten ==
  ASSUME CommandInv, AgentsInv, ReadyAgents, cli.agent # Unset, NEW config,
         AgentReady(agents[cli.agent], cli.agent, PlannedPort) =>
           AgentReady(config, cli.agent, PlannedPort),
         \/ GiveUpAgent(config)
         \/ /\ FileDone(config)
            /\ Len(cli.left) = 1 => AgentReady(config, cli.agent, PlannedPort)
            /\ Len(cli.left) # 1 /\ Tail(cli.left) = <<"hooks">> =>
                 AsksReady(config, cli.agent, PlannedPort)
  PROVE  ReadyAgents'
<1> DEFINE port == PlannedPort
<1>1. cli.agent \in Agents /\ DOMAIN agents = Agents /\ cli.wired \subseteq Agents
  BY DEF AgentsInv
<1>2. agents' = [agents EXCEPT ![cli.agent] = config]
  BY DEF FileDone, GiveUpAgent
<1>3. agents'[cli.agent] = config /\ \A a \in Agents \ {cli.agent} : agents'[a] = agents[a]
  BY <1>1, <1>2
<1>4. cli'.s = cli.s
  BY DEF FileDone, GiveUpAgent, CommandInv, Idle
<1>5. PlannedPort' = port
  BY <1>4 DEF PlannedPort
<1> HIDE DEF port
<1>6. \A a \in cli.wired : AgentReady(agents'[a], a, port)
  BY <1>1, <1>3 DEF ReadyAgents, WiredInv, port
<1>7. CASE GiveUpAgent(config)
  <2>1. cli'.wired = cli.wired /\ cli'.left = <<>> /\ cli'.agent = Unset
    BY <1>7 DEF GiveUpAgent, CommandInv, Idle
  <2> QED
    BY <1>5, <1>6, <2>1 DEF ReadyAgents, WiredInv, LastInv
<1>8. CASE /\ FileDone(config) /\ Len(cli.left) = 1
           /\ AgentReady(config, cli.agent, port)
  <2>1. cli'.wired = cli.wired \cup {cli.agent} /\ cli'.left = <<>> /\ cli'.agent = Unset
    BY <1>8 DEF FileDone, CommandInv, Idle
  <2> QED
    BY <1>3, <1>5, <1>6, <1>8, <2>1 DEF ReadyAgents, WiredInv, LastInv
<1>9. CASE /\ FileDone(config) /\ Len(cli.left) # 1
           /\ Tail(cli.left) = <<"hooks">> => AsksReady(config, cli.agent, port)
  <2>1. cli'.wired = cli.wired /\ cli'.left = Tail(cli.left) /\ cli'.agent = cli.agent
    BY <1>9 DEF FileDone, CommandInv, Idle
  <2> QED
    BY <1>3, <1>5, <1>6, <1>9, <2>1 DEF ReadyAgents, WiredInv, LastInv
<1> QED
  BY <1>7, <1>8, <1>9 DEF port


LEMMA ReadyFileStep ==
  ASSUME CommandInv, AgentsInv, KeptInv, ReadyAgents, FileStep
  PROVE  ReadyAgents'
<1>1. ASSUME AgentsLeft, UNCHANGED agents PROVE ReadyAgents'
  BY <1>1, ReadyAside
<1>2. CASE InstallArtifacts
  BY <1>1, <1>2, AgentFieldsKept, AgentsAside DEF InstallArtifacts, Proceed
<1>3. CASE NextAgent
  <2>1. UNCHANGED agents
    BY <1>3 DEF NextAgent, OnlyCommand, files
  <2>2. CASE cli.picked = <<>>
    BY <1>1, <1>3, <2>1, <2>2, AgentFieldsKept, AgentsAside DEF NextAgent, Proceed
  <2>3. CASE cli.picked # <<>>
    <3>1. cli' = [cli EXCEPT !.agent = Head(cli.picked), !.picked = Tail(cli.picked),
                             !.left = FileSteps(Head(cli.picked))]
      BY <1>3, <2>3 DEF NextAgent
    <3>2. /\ cli'.left = FileSteps(Head(cli.picked)) /\ cli'.wired = cli.wired /\ cli'.s = cli.s
      BY <3>1 DEF CommandInv, Idle
    <3>3. Head(cli.picked) \in AgentKinds
      BY <2>3, AgentsKnown DEF AgentsInv
    <3>4. FileSteps(Head(cli.picked)) \in {<<"mcp", "hooks">>, <<"both">>, <<"plugin", "mcp">>}
      BY <3>3 DEF AgentKinds, FileSteps
    <3>5. \A x \in {<<"mcp", "hooks">>, <<"both">>, <<"plugin", "mcp">>} : x # <<"hooks">>
      OBVIOUS
    <3>6. cli'.left # <<"hooks">>
      BY <3>2, <3>4, <3>5, Zenon
    <3> QED
      BY <2>1, <3>2, <3>6 DEF ReadyAgents, WiredInv, LastInv, PlannedPort
  <2> QED
    BY <2>2, <2>3
<1>4. ASSUME cli.agent # Unset
      PROVE  /\ cli.agent \in AgentKinds /\ machine \in Machines /\ cli.left \in LeftOf(cli.agent)
             /\ ConfigKept(agents[cli.agent], cli.agent, machine)
  BY <1>4, AgentsKnown DEF KeptInv, AgentsInv, HomeKept, AgentsKept, LeftKept
<1>5. CASE WriteAgentFile
  <2> DEFINE config == agents[cli.agent]
             port == PlannedPort
  <2>1. cli.agent # Unset
    BY <1>5 DEF WriteAgentFile
  <2>2. ASSUME cli.agent = "claude-code", cli.left[1] = "mcp", NEW outcome \in ClaudeMcpOutcomes(config, port),
               IF outcome.ok THEN FileDone(WithMcp(config, outcome.entry))
               ELSE GiveUpAgent(WithMcp(config, outcome.entry))
        PROVE  ReadyAgents'
    <3> DEFINE new == WithMcp(config, outcome.entry)
    <3>1. config.mcp = port => outcome.entry = port
      BY <1>4, <2>1, <2>2 DEF ClaudeMcpOutcomes
    <3>2. outcome.ok => outcome.entry = port
      BY <2>2 DEF ClaudeMcpOutcomes
    <3>3. new.mcp = outcome.entry /\ new.hooks = config.hooks
      BY <1>4, <2>1, <2>2, WriteFields
    <3> HIDE DEF new
    <3>4. AgentReady(config, cli.agent, port) => AgentReady(new, cli.agent, port)
      BY <2>2, <3>1, <3>3, KindsReady
    <3>5. outcome.ok => AsksReady(new, cli.agent, port)
      BY <2>2, <3>2, <3>3 DEF AsksReady
    <3>6. LeftOf(cli.agent) = {<<"mcp", "hooks">>, <<"hooks">>}
      BY <2>2 DEF LeftOf
    <3>7. Len(cli.left) # 1
      BY <1>4, <2>1, <2>2, <3>6
    <3>8. IF outcome.ok THEN FileDone(new) ELSE GiveUpAgent(new)
      BY <2>2 DEF new
    <3> QED
      BY <2>1, <3>4, <3>5, <3>7, <3>8, ReadyWritten
  <2>3. ASSUME FileDone(Written(cli.agent, cli.left[1], Backup(config), port)) PROVE ReadyAgents'
    <3> DEFINE new == Written(cli.agent, cli.left[1], Backup(config), port)
    <3>1. ConfigKept(Backup(config), cli.agent, machine)
      BY <1>4, <2>1, FieldsKept
    <3>2. /\ AgentReady(Backup(config), cli.agent, port) => AgentReady(new, cli.agent, port)
          /\ Len(cli.left) = 1 /\ (cli.left = <<"hooks">> => AsksReady(Backup(config), cli.agent, port)) =>
               AgentReady(new, cli.agent, port)
          /\ Len(cli.left) # 1 /\ Tail(cli.left) = <<"hooks">> => AsksReady(new, cli.agent, port)
      BY <1>4, <2>1, <3>1, FileReady
    <3>3. /\ AgentReady(config, cli.agent, port) => AgentReady(Backup(config), cli.agent, port)
          /\ AsksReady(config, cli.agent, port) => AsksReady(Backup(config), cli.agent, port)
      BY <1>4, <2>1, FieldsReady
    <3>4. cli.left = <<"hooks">> => AsksReady(config, cli.agent, port)
      BY <2>1 DEF ReadyAgents, LastInv
    <3> HIDE DEF new
    <3>5. FileDone(new)
      BY <2>3 DEF new
    <3> QED
      BY <2>1, <3>2, <3>3, <3>4, <3>5, ReadyWritten
  <2>4. ASSUME GiveUpAgent(config) PROVE ReadyAgents'
    BY <2>1, <2>4, ReadyWritten
  <2> HIDE DEF config, port
  <2>5. \/ cli.agent = "claude-code" /\ cli.left[1] = "mcp" /\ \E outcome \in ClaudeMcpOutcomes(config, port) :
             IF outcome.ok THEN FileDone(WithMcp(config, outcome.entry))
             ELSE GiveUpAgent(WithMcp(config, outcome.entry))
        \/ FileDone(Written(cli.agent, cli.left[1], Backup(config), port))
        \/ GiveUpAgent(config)
    BY <1>5, Zenon DEF WriteAgentFile, config, port
  <2> QED
    BY <2>2, <2>3, <2>4, <2>5, Zenon
<1>6. CASE TearAgentFile
  <2> DEFINE torn == [Backup(agents["codex"]) EXCEPT !.whole = FALSE]
  <2>1. (GiveUpAgent(torn) \/ Fail) /\ agents' = [agents EXCEPT !["codex"] = torn]
    BY <1>6 DEF TearAgentFile, GiveUpAgent
  <2>2. "codex" \in Agents =>
          /\ AgentReady(agents["codex"], "codex", PlannedPort) => AgentReady(torn, "codex", PlannedPort)
          /\ AsksReady(agents["codex"], "codex", PlannedPort) => AsksReady(torn, "codex", PlannedPort)
    BY FieldsReady DEF KeptInv, AgentsKept
  <2> HIDE DEF torn
  <2>3. \A a \in Agents : /\ AgentReady(agents[a], a, PlannedPort) => AgentReady(agents'[a], a, PlannedPort)
                          /\ AsksReady(agents[a], a, PlannedPort) => AsksReady(agents'[a], a, PlannedPort)
    BY <2>1, <2>2 DEF AgentsInv
  <2>4. /\ cli'.s = cli.s /\ cli'.wired = cli.wired
        /\ (cli'.agent = cli.agent /\ cli'.left = cli.left) \/ cli'.agent = Unset
    BY <2>1 DEF Fail, GiveUpAgent, CommandInv, Idle
  <2>5. PlannedPort' = PlannedPort
    BY <2>4 DEF PlannedPort
  <2> QED
    BY <2>3, <2>4, <2>5 DEF ReadyAgents, WiredInv, LastInv, AgentsInv
<1>7. CASE WriteSettings \/ WriteSecrets \/ InstallService \/ Repair
  <2>1. AgentsLeft
    BY <1>7, AgentFieldsKept, AgentsAside DEF WriteSettings, WriteSecrets, InstallService, Repair, Proceed
  <2>2. UNCHANGED agents
    BY <1>7 DEF WriteSettings, WriteSecrets, InstallService, Repair
  <2> QED
    BY <1>1, <2>1, <2>2
<1>8. CASE BreakOffExposure
  BY <1>1, <1>8, AgentsAside DEF BreakOffExposure
<1> QED
  BY <1>2, <1>3, <1>5, <1>6, <1>7, <1>8 DEF FileStep

\* A program that is exposed, and a secret that is to be stored.
HomeInv == home.onPath \in OnPaths
SecretInv == cli.secret[1] # Unset => cli.secret[1] \in SecretKeys /\ cli.secret[2] \in Seq(Visible)

Before(steps) == cli.todo # <<>> /\ cli.todo[1] \in steps

\* What each step of `mb setup` has left behind, until the next command.
StepsInv ==
  cli.cmd = "setup" /\ cli.result # "failed" =>
    /\ ~Before({"artifacts"}) => {"binaries", "assets"} \subseteq artifacts /\ CliExposed(home)
    /\ ~Before({"artifacts", "agents", "settings"}) =>
         settings = cli.s /\ "settings" \in artifacts /\ cli.wired \subseteq configured
    /\ ~Before({"artifacts", "agents", "settings", "secrets"}) =>
         (cli.secret[1] # Unset => Secret(secrets, cli.secret[1]) = cli.secret[2])
    /\ ~Before({"artifacts", "agents", "settings", "secrets", "install"}) => definition = Chosen(cli.s)
    /\ cli.todo = <<>> => cli.answer # NoAnswer /\ PlannedPort # "0"

ReadyInv == ReadyAgents /\ HomeInv /\ SecretInv /\ StepsInv

\* The steps of a setup, one after the other.
LEMMA SetupAhead ==
  ASSUME NEW todo, TodoOf("setup", todo), todo # <<>>
  PROVE  /\ todo[1] = "artifacts" => Behind(todo) # <<>> /\ Behind(todo)[1] = "agents"
         /\ todo[1] = "agents" => Behind(todo) # <<>> /\ Behind(todo)[1] = "settings"
         /\ todo[1] = "settings" => Behind(todo) # <<>> /\ Behind(todo)[1] = "secrets"
         /\ todo[1] = "secrets" => Behind(todo) # <<>> /\ Behind(todo)[1] = "install"
         /\ todo[1] = "install" => Behind(todo) # <<>> /\ Behind(todo)[1] = "start"
         /\ todo[1] \in {"start", "active", "health"} => Behind(todo) # <<>>
         /\ todo[1] = "active" => Behind(Behind(todo)) # <<>>
         /\ todo[1] \in {"artifacts", "agents", "settings", "secrets", "install", "start", "active",
                         "health", "final"}
<1> DEFINE t1 == <<"artifacts", "agents", "settings", "secrets", "install", "start", "active", "health", "final">>
           t2 == <<"agents", "settings", "secrets", "install", "start", "active", "health", "final">>
           t3 == <<"settings", "secrets", "install", "start", "active", "health", "final">>
           t4 == <<"secrets", "install", "start", "active", "health", "final">>
           t5 == <<"install", "start", "active", "health", "final">>
           t6 == <<"start", "active", "health", "final">>
           t7 == <<"active", "health", "final">>
           t8 == <<"health", "final">>
           t9 == <<"final">>
<1>1. /\ t1[1] = "artifacts" /\ t2[1] = "agents" /\ t3[1] = "settings" /\ t4[1] = "secrets"
      /\ t5[1] = "install" /\ t6[1] = "start" /\ t7[1] = "active" /\ t8[1] = "health" /\ t9[1] = "final"
      /\ t2 # <<>> /\ t3 # <<>> /\ t4 # <<>> /\ t5 # <<>> /\ t6 # <<>> /\ t7 # <<>> /\ t8 # <<>> /\ t9 # <<>>
  OBVIOUS
<1>2. /\ Behind(t1) = t2 /\ Behind(t2) = t3 /\ Behind(t3) = t4 /\ Behind(t4) = t5 /\ Behind(t5) = t6
      /\ Behind(t6) = t7 /\ Behind(t7) = t8 /\ Behind(t8) = t9
  BY Tails, Zenon
<1>3. todo \in {t1, t2, t3, t4, t5, t6, t7, t8, t9}
  BY Zenon DEF TodoOf, SetupTodos
<1> HIDE DEF t1, t2, t3, t4, t5, t6, t7, t8, t9
<1> QED
  BY <1>1, <1>2, <1>3

\* The secret is read back as the user typed it.
LEMMA SecretStored ==
  ASSUME DOMAIN secrets = SecretKeys, SecretInv, cli.secret[1] # Unset
  PROVE  Secret(ApplySecretChoice(secrets, cli.secret), cli.secret[1]) = cli.secret[2]
<1> DEFINE key == cli.secret[1]
           value == cli.secret[2]
           after == ApplySecretChoice(secrets, cli.secret)
<1>1. key \in SecretKeys /\ value \in Seq(Visible)
  BY DEF SecretInv
<1>2. after[key] = EscapeEnvValue(value)
  BY <1>1 DEF ApplySecretChoice
<1> HIDE DEF key, value, after
<1>3. EscapeEnvValue(value) \in Seq(Visible) /\ UnescapeEnvValue(EscapeEnvValue(value)) = value
  BY <1>1, SecretsKept
<1>4. after[key] # NoSecret
  BY <1>2, <1>3, NoSecretIsNoText
<1>5. Secret(after, key) = value
  BY <1>2, <1>3, <1>4 DEF Secret
<1> QED
  BY <1>5 DEF key, value, after

\* What the user may choose can be stored.
LEMMA ChoicesVisible ==
  ASSUME NEW s, NEW shell \in Shells, NEW choice \in SecretChoices(ProviderOf(s), secrets, shell, Entries),
         choice[1] # Unset
  PROVE  choice[1] \in SecretKeys /\ choice[2] \in Seq(Visible)
<1> DEFINE key == SecretKey(ProviderOf(s))
<1>1. key \in SecretKeys \cup {Unset}
  BY DEF SecretKey, SecretKeys
<1> HIDE DEF key
<1>2. \/ choice = NotChanged
      \/ choice \in {key} \X Entries
      \/ key # Unset /\ shell[key] # Unset /\ choice = <<key, shell[key]>>
  BY <1>1 DEF SecretChoices, SecretPromptPlan, key
<1>3. choice # NotChanged
  BY DEF NotChanged
<1>4. CASE choice \in {key} \X Entries
  BY <1>1, <1>4, SecretsVisible
<1>5. CASE key # Unset /\ shell[key] # Unset /\ choice = <<key, shell[key]>>
  BY <1>1, <1>5, SecretsVisible
<1> QED
  BY <1>2, <1>3, <1>4, <1>5

LEMMA ReadyInit ==
  ASSUME Init
  PROVE  ReadyInv
<1>1. /\ cli.agent = Unset /\ cli.wired = {} /\ cli.secret[1] = Unset /\ cli.cmd = "none"
  BY DEF Init, Idle, NotChanged
<1>2. home.onPath \in OnPaths
  BY MachinesReadable DEF Init, OnPaths
<1> QED
  BY <1>1, <1>2 DEF ReadyInv, ReadyAgents, WiredInv, LastInv, HomeInv, SecretInv, StepsInv

\* A step that leaves the command and its files alone.
LEMMA ReadyStays ==
  ASSUME ReadyInv, UNCHANGED <<cli, settings, secrets, configured, artifacts, home, agents, definition>>
  PROVE  ReadyInv'
BY DEF ReadyInv, ReadyAgents, WiredInv, LastInv, HomeInv, SecretInv, StepsInv, Before, PlannedPort

\* A command that has not begun has nothing ready.
LEMMA ReadyBegins ==
  ASSUME ReadyInv, UNCHANGED home, cli'.wired = {}, cli'.agent = Unset, SecretInv',
         cli'.cmd = "setup" => cli'.todo # <<>> /\ cli'.todo[1] = "artifacts"
  PROVE  ReadyInv'
BY DEF ReadyInv, ReadyAgents, WiredInv, LastInv, HomeInv, StepsInv, Before, PlannedPort

LEMMA CommandedReady ==
  ASSUME CommandInv, AgentsInv, ReadyInv, Commanded
  PROVE  ReadyInv'
<1>1. UNCHANGED <<home, agents>>
  BY DEF Commanded, GiveCommand, GiveSetup, GiveUse, ConfigSet, EditSettings, Interrupt, Give, files
<1>2. CASE GiveCommand
  <2>1. \E cmd \in {"bootstrap", "install", "start", "restart", "stop", "doctor"} : \E todo, s :
          cli' = [Idle EXCEPT !.cmd = cmd, !.todo = todo, !.s = s]
    BY <1>2 DEF GiveCommand, Give
  <2>2. cli'.wired = {} /\ cli'.agent = Unset /\ cli'.secret[1] = Unset /\ cli'.cmd # "setup"
    BY <2>1 DEF Idle, NotChanged
  <2> QED
    BY <1>1, <2>2, ReadyBegins DEF SecretInv
<1>3. CASE GiveUse
  <2>1. \E todo, s : cli' = [Idle EXCEPT !.cmd = "use", !.todo = todo, !.s = s]
    BY <1>3 DEF GiveUse, Give
  <2>2. cli'.wired = {} /\ cli'.agent = Unset /\ cli'.secret[1] = Unset /\ cli'.cmd # "setup"
    BY <2>1 DEF Idle, NotChanged
  <2> QED
    BY <1>1, <2>2, ReadyBegins DEF SecretInv
<1>4. CASE GiveSetup
  <2>1. PICK answers \in Sessions, shell \in Shells :
          LET s == PlanSettings(settings, CollectSetupPlan(settings, answers)) IN
          \E secret \in SecretChoices(ProviderOf(s), secrets, shell, Entries) :
            Give([Idle EXCEPT !.cmd = "setup", !.todo = Steps("setup"), !.s = s,
                              !.picked = answers.picked, !.secret = secret])
    BY <1>4, Zenon DEF GiveSetup
  <2> DEFINE s == PlanSettings(settings, CollectSetupPlan(settings, answers))
  <2>2. PICK secret \in SecretChoices(ProviderOf(s), secrets, shell, Entries) :
          cli' = [Idle EXCEPT !.cmd = "setup", !.todo = Steps("setup"), !.s = s,
                              !.picked = answers.picked, !.secret = secret]
    BY <2>1 DEF Give
  <2> HIDE DEF s
  <2>3. /\ cli'.wired = {} /\ cli'.agent = Unset /\ cli'.secret = secret
        /\ cli'.todo = Steps("setup")
    BY <2>2 DEF Idle
  <2>4. Steps("setup") # <<>> /\ Steps("setup")[1] = "artifacts"
    BY DEF Steps
  <2>5. SecretInv'
    BY <2>3, ChoicesVisible DEF SecretInv
  <2> QED
    BY <1>1, <2>3, <2>4, <2>5, ReadyBegins
<1>5. CASE ConfigSet \/ EditSettings
  <2>1. \E cmd \in {"set", "edit"} : cli' = [Idle EXCEPT !.cmd = cmd]
    BY <1>5 DEF ConfigSet, EditSettings, Give
  <2>2. cli'.wired = {} /\ cli'.agent = Unset /\ cli'.secret[1] = Unset /\ cli'.cmd # "setup"
    BY <2>1 DEF Idle, NotChanged
  <2> QED
    BY <1>1, <2>2, ReadyBegins DEF SecretInv
<1>6. CASE Interrupt
  <2>1. AgentsLeft /\ cli'.result = "failed"
    BY <1>6, AgentsAside, FailFields DEF Interrupt, Ends
  <2>2. ReadyAgents'
    BY <1>1, <2>1, ReadyAside DEF ReadyInv
  <2> QED
    BY <1>1, <2>1, <2>2 DEF ReadyInv, HomeInv, SecretInv, StepsInv, AgentsLeft
<1> QED
  BY <1>2, <1>3, <1>4, <1>5, <1>6 DEF Commanded

\* The steps of `mb setup` that write files, each with what it leaves behind.
LEMMA FileStepReady ==
  ASSUME InstallInv, AgentsInv, KeptInv, ReadyInv, FileStep
  PROVE  ReadyInv'
<1> DEFINE todo == cli.todo
<1>1. CommandInv /\ HomeKept /\ home.onPath \in OnPaths
  BY DEF InstallInv, KeptInv, ReadyInv, HomeInv
<1>2. /\ todo # <<>> /\ todo[1] \in FileFirst
      /\ DOMAIN cli' = DOMAIN Idle /\ FileFields
      /\ (Stays /\ todo[1] = "agents") \/ GoesTo(Behind(todo)) \/ Ends
  BY <1>1, FileStepCommand
<1>3. TodoOf(cli.cmd, todo) /\ cli.result = "none"
  BY <1>1, <1>2 DEF CommandInv
<1>4. ReadyAgents'
  BY <1>1, ReadyFileStep DEF ReadyInv
<1>5. SecretInv'
  BY <1>2 DEF ReadyInv, SecretInv, FileFields
<1>6. HomeInv'
  <2>1. home' \in {home, EnsureCliExposure(home)} \cup BrokenExposures(home)
    BY DEF FileStep, InstallArtifacts, BreakOffExposure, NextAgent, WriteAgentFile, TearAgentFile, WriteSettings,
       WriteSecrets, InstallService, Repair, OnlyCommand, files
  <2> QED
    BY <1>1, <2>1, ExposedThen, HomeBroken DEF HomeInv
<1>7. ASSUME cli.cmd = "setup", cli'.result # "failed" PROVE StepsInv'
  <2>0. /\ todo[1] = "artifacts" => Behind(todo) # <<>> /\ Behind(todo)[1] = "agents"
        /\ todo[1] = "agents" => Behind(todo) # <<>> /\ Behind(todo)[1] = "settings"
        /\ todo[1] = "settings" => Behind(todo) # <<>> /\ Behind(todo)[1] = "secrets"
        /\ todo[1] = "secrets" => Behind(todo) # <<>> /\ Behind(todo)[1] = "install"
        /\ todo[1] = "install" => Behind(todo) # <<>> /\ Behind(todo)[1] = "start"
        /\ todo[1] # "repair"
    BY <1>2, <1>3, <1>7, SetupAhead
  <2>1. CASE InstallArtifacts
    <3>1. todo[1] = "artifacts" /\ ~Fail
      BY <1>1, <1>7, <2>1, FailFields DEF InstallArtifacts, Doing, Ends
    <3>2. /\ home' = EnsureCliExposure(home) /\ ~CliCollides(home) /\ Proceed(cli)
          /\ artifacts' = artifacts \cup {"binaries", "assets"}
      BY <1>7, <2>1, <3>1 DEF InstallArtifacts, Exposes
    <3>3. CliExposed(home')
      BY <1>1, <3>2, ExposedThen
    <3>4. cli'.todo # <<>> /\ cli'.todo[1] = "agents"
      BY <1>1, <2>0, <3>1, <3>2, ProceedFields DEF GoesTo
    <3> QED
      BY <3>2, <3>3, <3>4 DEF StepsInv, Before
  <2>2. CASE NextAgent \/ WriteAgentFile \/ TearAgentFile
    <3>1. todo[1] = "agents" /\ UNCHANGED <<home, artifacts>>
      BY <2>2 DEF NextAgent, WriteAgentFile, TearAgentFile, Doing, OnlyCommand, files
    <3>2. cli'.todo # <<>> /\ cli'.todo[1] \in {"agents", "settings"}
      BY <1>2, <1>7, <2>0, <3>1 DEF Stays, GoesTo, Ends
    <3>3. {"binaries", "assets"} \subseteq artifacts /\ CliExposed(home)
      BY <1>2, <1>3, <1>7, <3>1 DEF ReadyInv, StepsInv, Before
    <3> QED
      BY <3>1, <3>2, <3>3 DEF StepsInv, Before
  <2>3. CASE WriteSettings
    <3>1. todo[1] = "settings" /\ Proceed(cli)
      BY <2>3 DEF WriteSettings, Doing
    <3>2. /\ settings' = cli.s /\ configured' = configured \cup cli.wired
          /\ artifacts' = artifacts \cup {"settings"} /\ UNCHANGED home
      BY <2>3 DEF WriteSettings
    <3>3. cli'.todo # <<>> /\ cli'.todo[1] = "secrets" /\ cli'.s = cli.s
      BY <1>1, <2>0, <3>1, ProceedFields DEF GoesTo, FileFields
    <3>4. {"binaries", "assets"} \subseteq artifacts /\ CliExposed(home)
      BY <1>2, <1>3, <1>7, <3>1 DEF ReadyInv, StepsInv, Before
    <3>5. cli'.wired = cli.wired
      BY <1>1, <3>1, AgentFieldsKept, AgentsAside DEF Proceed, AgentsLeft
    <3> QED
      BY <3>2, <3>3, <3>4, <3>5 DEF StepsInv, Before
  <2>4. CASE WriteSecrets
    <3>1. todo[1] = "secrets" /\ Proceed(cli)
      BY <2>4 DEF WriteSecrets, Doing
    <3>2. /\ secrets' = ApplySecretChoice(secrets, cli.secret)
          /\ UNCHANGED <<settings, artifacts, configured, home>>
      BY <2>4 DEF WriteSecrets
    <3>3. cli'.todo # <<>> /\ cli'.todo[1] = "install" /\ cli'.s = cli.s /\ cli'.secret = cli.secret
      BY <1>1, <2>0, <3>1, ProceedFields DEF GoesTo, FileFields
    <3>4. /\ {"binaries", "assets"} \subseteq artifacts /\ CliExposed(home)
          /\ settings = cli.s /\ "settings" \in artifacts /\ cli.wired \subseteq configured
      BY <1>2, <1>3, <1>7, <3>1 DEF ReadyInv, StepsInv, Before
    <3>5. cli'.wired = cli.wired
      BY <1>1, <3>1, AgentFieldsKept, AgentsAside DEF Proceed, AgentsLeft
    <3>6. cli.secret[1] # Unset => Secret(secrets', cli.secret[1]) = cli.secret[2]
      BY <3>2, SecretStored DEF ReadyInv, AgentsInv
    <3> QED
      BY <3>2, <3>3, <3>4, <3>5, <3>6 DEF StepsInv, Before
  <2>5. CASE InstallService
    <3>1. todo[1] = "install" /\ Proceed(cli)
      BY <2>5 DEF InstallService, Doing
    <3>2. definition' = Chosen(cli.s) /\ UNCHANGED <<settings, secrets, artifacts, configured, home>>
      BY <2>5 DEF InstallService
    <3>3. cli'.todo # <<>> /\ cli'.todo[1] = "start" /\ cli'.s = cli.s /\ cli'.secret = cli.secret
      BY <1>1, <2>0, <3>1, ProceedFields DEF GoesTo, FileFields
    <3>4. /\ {"binaries", "assets"} \subseteq artifacts /\ CliExposed(home)
          /\ settings = cli.s /\ "settings" \in artifacts /\ cli.wired \subseteq configured
          /\ cli.secret[1] # Unset => Secret(secrets, cli.secret[1]) = cli.secret[2]
      BY <1>2, <1>3, <1>7, <3>1 DEF ReadyInv, StepsInv, Before
    <3>5. cli'.wired = cli.wired
      BY <1>1, <3>1, AgentFieldsKept, AgentsAside DEF Proceed, AgentsLeft
    <3> QED
      BY <3>2, <3>3, <3>4, <3>5 DEF StepsInv, Before
  <2>6. ~Repair
    BY <2>0 DEF Repair, Doing
  <2>7. ~BreakOffExposure
    BY <1>1, <1>7, FailFields DEF BreakOffExposure, Ends
  <2> QED
    BY <2>1, <2>2, <2>3, <2>4, <2>5, <2>6, <2>7 DEF FileStep
<1>8. StepsInv'
  BY <1>2, <1>7 DEF StepsInv, FileFields
<1> QED
  BY <1>4, <1>5, <1>6, <1>8 DEF ReadyInv

\* Something that answers is not nothing.
LEMMA AnswersAnswer ==
  ASSUME NEW port, NEW answer \in Answers(port)
  PROVE  answer # NoAnswer
<1>1. "pid" \in DOMAIN answer
  BY DEF Answers
<1>2. DOMAIN <<>> = {}
  OBVIOUS
<1> QED
  BY <1>1, <1>2 DEF NoAnswer

\* The steps of `mb setup` at the service, where all the files are written.
LEMMA ServiceStepReady ==
  ASSUME InstallInv, PortInv, AgentsInv, ReadyInv, ServiceStep
  PROVE  ReadyInv'
<1> DEFINE todo == cli.todo
<1>1. CommandInv
  BY DEF InstallInv
<1>2. AgentsLeft /\ UNCHANGED <<secrets, configured, agents, artifacts>>
  BY <1>1, ServiceAside
<1>3. UNCHANGED <<settings, home>>
  BY DEF ServiceStep, StartService, AwaitActive, AwaitHealth, AwaitFinalHealth, RestartService,
     AwaitRestart, StopService, AwaitInactive, Apply, Revive, Report, OnlyCommand, files, NotManager
<1>4. ReadyAgents' /\ HomeInv' /\ SecretInv'
  BY <1>2, <1>3, ReadyAside DEF ReadyInv, HomeInv, SecretInv, AgentsLeft
<1>5. ASSUME cli.cmd = "setup", cli'.result # "failed" PROVE StepsInv'
  <2>1. /\ todo # <<>>
        /\ todo[1] \in {"start", "active", "health", "final", "restart", "changed", "stop", "inactive",
                        "apply", "revive", "report"}
    BY DEF ServiceStep, StartService, AwaitActive, AwaitHealth, AwaitFinalHealth, RestartService,
       AwaitRestart, StopService, AwaitInactive, Apply, Revive, Report, Doing, Finished
  <2>2. TodoOf("setup", todo) /\ cli.result = "none"
    BY <1>1, <1>5, <2>1 DEF CommandInv
  <2>3. /\ todo[1] \in {"start", "active", "health"} => Behind(todo) # <<>>
        /\ todo[1] = "active" => Behind(Behind(todo)) # <<>>
        /\ todo[1] \in {"artifacts", "agents", "settings", "secrets", "install", "start", "active",
                        "health", "final"}
    BY <2>1, <2>2, SetupAhead
  <2>4. todo[1] \in {"start", "active", "health", "final"}
    BY <2>1, <2>3
  <2>5. /\ {"binaries", "assets"} \subseteq artifacts /\ CliExposed(home)
        /\ settings = cli.s /\ "settings" \in artifacts /\ cli.wired \subseteq configured
        /\ cli.secret[1] # Unset => Secret(secrets, cli.secret[1]) = cli.secret[2]
        /\ definition = Chosen(cli.s)
    BY <1>5, <2>2, <2>4 DEF ReadyInv, StepsInv, Before
  <2>6. definition' = definition
    <3>1. definition # "none"
      BY <2>5 DEF Chosen
    <3> QED
      BY <2>4, <3>1 DEF ServiceStep, StartService, AwaitActive, AwaitHealth, AwaitFinalHealth, RestartService,
         AwaitRestart, StopService, AwaitInactive, Apply, Revive, Report, OnlyCommand, files
  <2>7. ASSUME NEW c, DOMAIN c = DOMAIN Idle, NEW steps, Follow(c, steps)
        PROVE  cli'.todo = steps /\ cli'.answer = c.answer
    BY <2>7, FollowFields
  <2>8. ASSUME NEW x
        PROVE  /\ DOMAIN [cli EXCEPT !.active = x] = DOMAIN Idle /\ [cli EXCEPT !.active = x].todo = todo
               /\ DOMAIN [cli EXCEPT !.answer = x] = DOMAIN Idle /\ [cli EXCEPT !.answer = x].todo = todo
               /\ [cli EXCEPT !.answer = x].answer = x
               /\ DOMAIN cli = DOMAIN Idle
    BY <1>1 DEF CommandInv, Idle
  <2>9. cli'.todo = <<>> => cli'.answer # NoAnswer /\ PlannedPort # "0"
    <3>1. CASE todo[1] = "start"
      <4>1. Proceed([cli EXCEPT !.active = Active])
        BY <3>1 DEF ServiceStep, StartService, AwaitActive, AwaitHealth, AwaitFinalHealth, RestartService,
           AwaitRestart, StopService, AwaitInactive, Apply, Revive, Report, Doing
      <4>2. cli'.todo = Behind(todo)
        BY <2>7, <2>8, <4>1 DEF Proceed, Behind
      <4> QED
        BY <2>3, <3>1, <4>2
    <3>2. CASE todo[1] = "active"
      <4>1. Proceed(cli) \/ SkipHealth(cli)
        BY <3>2 DEF ServiceStep, StartService, AwaitActive, AwaitHealth, AwaitFinalHealth, RestartService,
           AwaitRestart, StopService, AwaitInactive, Apply, Revive, Report, Doing
      <4>2. cli'.todo \in {Behind(todo), Behind(Behind(todo))}
        BY <2>7, <2>8, <4>1 DEF Proceed, SkipHealth, Behind
      <4> QED
        BY <2>3, <3>2, <4>2
    <3>3. CASE todo[1] = "health"
      <4>1. \E x : Proceed([cli EXCEPT !.answer = x])
        BY <3>3 DEF ServiceStep, StartService, AwaitActive, AwaitHealth, AwaitFinalHealth, RestartService,
           AwaitRestart, StopService, AwaitInactive, Apply, Revive, Report, Doing
      <4>2. cli'.todo = Behind(todo)
        BY <2>7, <2>8, <4>1 DEF Proceed, Behind
      <4> QED
        BY <2>3, <3>3, <4>2
    <3>4. CASE todo[1] = "final"
      <4>1. Fail \/ \E x \in Answers(PlannedPort) : Proceed([cli EXCEPT !.answer = x])
        BY <3>4 DEF ServiceStep, StartService, AwaitActive, AwaitHealth, AwaitFinalHealth, RestartService,
           AwaitRestart, StopService, AwaitInactive, Apply, Revive, Report, Doing
      <4>2. PICK x \in Answers(PlannedPort) : Proceed([cli EXCEPT !.answer = x])
        BY <1>1, <1>5, <4>1, FailFields DEF Ends
      <4>3. cli'.answer = x
        BY <2>7, <2>8, <4>2 DEF Proceed
      <4> QED
        BY <4>2, <4>3, AnswersAnswer, NoAnswerAtZero
    <3> QED
      BY <2>4, <3>1, <3>2, <3>3, <3>4
  <2> QED
    BY <1>2, <1>3, <2>5, <2>6, <2>9 DEF StepsInv, AgentsLeft, PlannedPort
<1>6. StepsInv'
  BY <1>2, <1>5 DEF StepsInv, AgentsLeft
<1> QED
  BY <1>4, <1>6 DEF ReadyInv

LEMMA ReadyInvariance == Spec => []ReadyInv
<1>1. Init => ReadyInv
  BY ReadyInit
<1>2. InstallInv /\ PortInv /\ AgentsInv /\ KeptInv /\ ReadyInv /\ [Next]_vars => ReadyInv'
  <2> SUFFICES ASSUME InstallInv, PortInv, CommandInv, AgentsInv, KeptInv, ReadyInv, [Next]_vars PROVE ReadyInv'
    BY DEF InstallInv
  <2>1. CASE Manager \/ UNCHANGED vars
    <3>1. UNCHANGED <<cli, settings, secrets, configured, artifacts, home, agents, definition>>
      BY <2>1 DEF Manager, Kick, Respawn, Crash, Exit, Launch, Configure, Bind, StartByHand, files, vars
    <3> QED
      BY <3>1, ReadyStays
  <2>2. CASE Commanded
    BY <2>2, CommandedReady
  <2>3. CASE FileStep
    BY <2>3, FileStepReady
  <2>4. CASE ServiceStep
    BY <2>4, ServiceStepReady
  <2> QED
    BY <2>1, <2>2, <2>3, <2>4 DEF Next
<1> QED
  BY <1>1, <1>2, TypesInvariance, KeptInvariance, PTL DEF Spec

\* The files say it, and the plugins read it so in the settings.
LEMMA ReadyIsWired ==
  ASSUME NEW config, NEW agent \in AgentKinds, NEW s, s["service.port"] # "0",
         AgentReady(config, agent, Value(s, "service.port"))
  PROVE  Wired(agent, config, SettingsText(s), Value(s, "service.port"))
<1> DEFINE port == Value(s, "service.port")
           lines == SettingsText(s)
<1>1. PluginPort(Unset, lines) = port
  BY PortRead
<1> HIDE DEF port, lines
<1>2. \A x : x \in {Unset, port} => PluginPort(x, lines) = port
  BY <1>1 DEF PluginPort
<1>3. config.mcp = port /\ (agent = "codex" => TomlWired(config.toml, port))
  BY DEF AgentReady, AsksReady, port
<1>4. port \in PostsTo(agent, config, lines)
  <2>1. CASE agent \in HookAgents
    <3>1. PICK k \in DOMAIN OurHooks(config.hooks) : OurHooks(config.hooks)[k].port = port
      BY <2>1 DEF AgentReady, HookReady, port
    <3>2. OurHooks(config.hooks)[k] \in ToSet(OurHooks(config.hooks))
      BY <3>1 DEF ToSet
    <3> HIDE DEF HookAgents
    <3>3. PostsTo(agent, config, lines) = {hook.port : hook \in ToSet(OurHooks(config.hooks))}
      BY <2>1 DEF PostsTo, HookAgents
    <3> QED
      BY <3>1, <3>2, <3>3
  <2>2. CASE agent = "opencode"
    BY <1>2, <2>2 DEF PostsTo, HookAgents
  <2>3. CASE agent = "openclaw"
    <3>1. config.plugin = port
      BY <2>3 DEF AgentReady, port
    <3>2. (IF config.plugin = NoPort THEN Unset ELSE config.plugin) \in {Unset, port}
      BY <3>1
    <3>3. PostsTo(agent, config, lines)
            = {PluginPort(IF config.plugin = NoPort THEN Unset ELSE config.plugin, lines)}
      BY <2>3 DEF PostsTo, HookAgents
    <3> QED
      BY <1>2, <3>2, <3>3
  <2> QED
    BY <2>1, <2>2, <2>3 DEF AgentKinds, HookAgents
<1> QED
  BY <1>3, <1>4 DEF Wired, port, lines

\* Whatever the machine, the agents that are picked, the secret that is typed, and
\* however often a step failed before: when `mb setup` reports success, the plan is
\* saved, the definition is the one of the plan, `mb` is a command of the shell, the
\* secret is read back as it was typed, every agent it does not warn about asks and
\* posts to the port of the plan, and a server answered there (setup.rs, agents/*.rs,
\* assets.rs, SecretStore, the parsers of the two plugins).
THEOREM ReadyMeansInstalledHolds == Spec => []ReadyMeansInstalled
<1>1. InstallInv /\ AgentsInv /\ ReadyInv => ReadyMeansInstalled
  <2> SUFFICES ASSUME InstallInv, AgentsInv, ReadyInv, Succeeded({"setup"})
               PROVE  /\ settings = cli.s
                      /\ artifacts = Groups /\ CliExposed(home)
                      /\ cli.secret[1] # Unset => Secret(secrets, cli.secret[1]) = cli.secret[2]
                      /\ definition = Chosen(settings)
                      /\ cli.wired \subseteq configured
                      /\ \A a \in cli.wired : Wired(a, agents[a], SettingsText(settings), PlannedPort)
                      /\ cli.answer # NoAnswer
    BY DEF ReadyMeansInstalled
  <2>1. cli.todo = <<>> /\ cli.result = "ok" /\ cli.cmd = "setup"
    BY DEF Succeeded, Finished
  <2>2. /\ {"binaries", "assets"} \subseteq artifacts /\ CliExposed(home)
        /\ settings = cli.s /\ "settings" \in artifacts /\ cli.wired \subseteq configured
        /\ cli.secret[1] # Unset => Secret(secrets, cli.secret[1]) = cli.secret[2]
        /\ definition = Chosen(cli.s)
        /\ cli.answer # NoAnswer /\ PlannedPort # "0"
    BY <2>1 DEF ReadyInv, StepsInv, Before
  <2>3. artifacts = Groups
    BY <2>2 DEF AgentsInv, Groups
  <2>4. ASSUME NEW a \in cli.wired PROVE Wired(a, agents[a], SettingsText(settings), PlannedPort)
    <3>1. a \in AgentKinds
      BY AgentsKnown DEF AgentsInv
    <3>2. PlannedPort = Value(settings, "service.port")
      BY <2>2 DEF PlannedPort
    <3>4. settings["service.port"] # "0"
      BY <2>2, <3>2, UnsetIsNoValue DEF Value
    <3>3. AgentReady(agents[a], a, PlannedPort)
      BY DEF ReadyInv, ReadyAgents, WiredInv
    <3> QED
      BY <3>1, <3>2, <3>3, <3>4, ReadyIsWired
  <2> QED
    BY <2>2, <2>3, <2>4
<1> QED
  BY <1>1, ReadyInvariance, TypesInvariance, PTL
=============================================================================
