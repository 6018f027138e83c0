------------------------------ MODULE Settings ------------------------------
(***************************************************************************)
(* The saved configuration and the three places that read it: `mb config`  *)
(* (config.rs of the command line tool), the launcher that the service     *)
(* manager runs (service/launch.rs), and the server itself (config.rs of   *)
(* the server).  Each resolves defaults and overrides by code of its own.  *)
(*                                                                         *)
(* Settings are a function from the keys of settings.toml to a value or    *)
(* Unset.  A value a user types is a record: the value it denotes, and how *)
(* it is spelled.  "decorated" stands for surrounding blanks, trailing     *)
(* slashes of a URL and characters of a namespace that are replaced, all   *)
(* of which are normalised away; "blank" for an input with nothing in it;  *)
(* "malformed" for one that a parser of the key refuses.                   *)
(*                                                                         *)
(* A file edited by hand may hold what `mb` would not have written: a      *)
(* provider or an encoder of another name, a zero, a base URL that is      *)
(* Malformed.  It still parses, and no text in it is blank.                *)
(***************************************************************************)
EXTENDS Naturals, Sequences, SecretFile

CONSTANTS
  Unset,      \* a key that is not in settings.toml, or has no default
  NoSecret    \* a secret that is not in secrets.env, or is blank

Providers == {"anthropic", "gemini", "open-ai", "ollama"}
Encoders == {"fast-embed", "local-api", "remote-api"}

Numbers == {"service.port", "server.history_window_size",
            "server.nearest_neighbor_count", "server.max_processing_attempts"}
Positive == Numbers \ {"server.history_window_size"}
Enumerated == {"server.llm_provider", "server.encoder_provider", "service.autostart"}
Texts == {"active_namespace", "server.llm_model", "server.ollama_url",
          "server.openai_url", "server.fastembed_model",
          "server.local_encoder_url", "server.remote_encoder_url"}
Keys == Numbers \cup Enumerated \cup Texts

\* The model that a provider falls back to.
DefaultModel(provider) == provider

Default(key, provider) ==
  CASE key = "active_namespace" -> "default"
    [] key = "service.port" -> "3737"
    [] key = "service.autostart" -> "false"
    [] key = "server.llm_provider" -> "anthropic"
    [] key = "server.llm_model" -> DefaultModel(provider)
    [] key = "server.ollama_url" -> "ollama-url"
    [] key = "server.openai_url" -> "openai-url"
    [] key = "server.encoder_provider" -> "fast-embed"
    [] key = "server.fastembed_model" -> "jina"
    [] key = "server.history_window_size" -> "0"
    [] key \in {"server.nearest_neighbor_count", "server.max_processing_attempts"} -> "10"
    [] OTHER -> Unset

\* A base URL of OpenAI that normalize_openai_url refuses.
Malformed == "malformed"

ASSUME NoSecretIsNoText == NoSecret \notin Seq(Visible)
ASSUME UnsetIsNoValue == Unset \notin Providers \cup Encoders \cup {"0"}

DefaultSettings == [key \in Keys |-> Unset]

\* A name that is none of theirs stands for the default.
ProviderOf(s) == IF s["server.llm_provider"] \in Providers THEN s["server.llm_provider"]
                 ELSE "anthropic"
EncoderOf(s) == IF s["server.encoder_provider"] \in Encoders THEN s["server.encoder_provider"]
                ELSE "fast-embed"

\* What `mb config get` shows.
Value(s, key) ==
  CASE key = "server.llm_provider" -> ProviderOf(s)
    [] key = "server.encoder_provider" -> EncoderOf(s)
    [] OTHER -> IF s[key] = Unset THEN Default(key, ProviderOf(s)) ELSE s[key]

-----------------------------------------------------------------------------
(* Changing the settings.                                                  *)

\* `mb config set` refuses the input.
Refused(key, input) ==
  \/ input.spelling = "blank" /\ key \in Numbers \cup Enumerated
  \/ input.spelling = "malformed" /\ key \in Numbers \cup Enumerated \cup {"server.openai_url"}
  \/ input.value = "0" /\ key \in Positive

\* What the parser of a key lets through.
Parsed(key, value) ==
  /\ key = "server.llm_provider" => value \in Providers
  /\ key = "server.encoder_provider" => value \in Encoders
  /\ key = "server.openai_url" => value # Malformed

\* Only what differs from the default is stored.
Stored(key, value, provider) ==
  IF value = Default(key, provider) THEN Unset ELSE value

\* The keys that are only kept for one provider.
OwnedBy(key) ==
  CASE key = "server.ollama_url" -> {"ollama"}
    [] key = "server.openai_url" -> {"open-ai"}
    [] OTHER -> Providers

\* The key alone, an empty text being its default.
SetKey(s, key, input) ==
  [s EXCEPT ![key] = IF input.spelling = "blank" THEN Unset
                     ELSE Stored(key, input.value, ProviderOf(s))]

SetConfig(s, key, input) ==
  LET written == SetKey(s, key, input) IN
  IF key # "server.llm_provider" THEN written
  ELSE [k \in Keys |-> IF ProviderOf(written) \in OwnedBy(k) THEN written[k] ELSE Unset]

-----------------------------------------------------------------------------
(* mb internal run-server: settings and secrets become arguments and       *)
(* environment of the server.                                              *)

\* The variable with the secret of a provider; Ollama needs none.
SecretKey(provider) ==
  CASE provider = "anthropic" -> "ANTHROPIC_API_KEY"
    [] provider = "gemini" -> "GEMINI_API_KEY"
    [] provider = "open-ai" -> "OPENAI_API_KEY"
    [] OTHER -> Unset

RemoteKey == "MEMORY_BANK_REMOTE_ENCODER_API_KEY"
SecretKeys == {"ANTHROPIC_API_KEY", "GEMINI_API_KEY", "OPENAI_API_KEY", RemoteKey}

\* The variable of a text setting.  The one of the model depends on the provider.
Variable(key, provider) ==
  CASE key = "server.llm_model" ->
         IF provider = "ollama" THEN "MEMORY_BANK_OLLAMA_MODEL" ELSE "MEMORY_BANK_LLM_MODEL"
    [] key = "server.ollama_url" -> "MEMORY_BANK_OLLAMA_URL"
    [] key = "server.openai_url" -> "OPENAI_BASE_URL"
    [] key = "server.fastembed_model" -> "MEMORY_BANK_FASTEMBED_MODEL"
    [] key = "server.local_encoder_url" -> "MEMORY_BANK_LOCAL_ENCODER_URL"
    [] key = "server.remote_encoder_url" -> "MEMORY_BANK_REMOTE_ENCODER_URL"

ServerTexts == Texts \ {"active_namespace"}
AllVariables ==
  SecretKeys \cup {Variable(key, p) : key \in ServerTexts, p \in Providers}

ASSUME UnsetIsNoVariable == Unset \notin SecretKeys

\* Bug: the variables of models and URLs are inherited from the shell.
RemovedSecretsOnly == SecretKeys

\* The variables that the launcher removes from its own environment.
RemovedVariables == AllVariables

\* The secret as it is read from the file.
Secret(secrets, key) ==
  IF secrets[key] = NoSecret THEN NoSecret ELSE UnescapeEnvValue(secrets[key])

NeededSecrets(s) ==
  ({SecretKey(ProviderOf(s))} \ {Unset})
    \cup (IF EncoderOf(s) = "remote-api" THEN {RemoteKey} ELSE {})

\* The base URL is only looked at when OpenAI is the provider.
UsableUrl(s) == ProviderOf(s) = "open-ai" => s["server.openai_url"] # Malformed

\* build_server_launch_spec succeeds, the program being there.  The name of the
\* encoder is validated as it stands; the one of the provider never fails, being
\* resolved first.
Launchable(s, secrets) ==
  /\ s["server.encoder_provider"] \in Encoders \cup {Unset}
  /\ \A key \in Positive : Value(s, key) # "0"
  /\ EncoderOf(s) = "local-api" => s["server.local_encoder_url"] # Unset
  /\ EncoderOf(s) = "remote-api" => s["server.remote_encoder_url"] # Unset
  /\ \A key \in NeededSecrets(s) : Secret(secrets, key) # NoSecret
  /\ UsableUrl(s)

\* The setting whose variable this is, if the launcher sets the variable.
Sources(s, variable) ==
  {key \in ServerTexts :
     /\ s[key] # Unset
     /\ ProviderOf(s) \in OwnedBy(key)
     /\ Variable(key, ProviderOf(s)) = variable}

\* The environment of the server, given the one the launcher was started with.
LaunchEnvironment(s, secrets, shell) ==
  [variable \in AllVariables |->
    IF variable \in NeededSecrets(s) THEN Secret(secrets, variable)
    ELSE IF Sources(s, variable) # {} THEN s[CHOOSE key \in Sources(s, variable) : TRUE]
    ELSE IF variable \in RemovedVariables THEN Unset
    ELSE shell[variable]]

\* The provider decides the window of a local model.
Window(provider, configured) == IF provider = "ollama" THEN "5" ELSE configured

LaunchArguments(s) ==
  [port |-> Value(s, "service.port"),
   namespace |-> Value(s, "active_namespace"),
   provider |-> ProviderOf(s),
   encoder |-> EncoderOf(s),
   window |-> Window(ProviderOf(s), Value(s, "server.history_window_size")),
   neighbors |-> Value(s, "server.nearest_neighbor_count"),
   attempts |-> Value(s, "server.max_processing_attempts")]

-----------------------------------------------------------------------------
(* The server resolves its configuration from its arguments, then its      *)
(* environment, then the settings file, which it reads again.              *)

EnvOrSetting(env, s, key, provider) ==
  IF env[Variable(key, provider)] # Unset THEN env[Variable(key, provider)]
  ELSE IF s[key] # Unset THEN s[key]
  ELSE Default(key, provider)

\* The address of the provider or of the encoder, if it has one.
UrlKey(provider) == IF provider = "ollama" THEN "server.ollama_url" ELSE "server.openai_url"
EncoderKey(encoder) ==
  CASE encoder = "fast-embed" -> "server.fastembed_model"
    [] encoder = "local-api" -> "server.local_encoder_url"
    [] encoder = "remote-api" -> "server.remote_encoder_url"

ServerConfig(args, env, s) ==
  [port |-> args.port, namespace |-> args.namespace, provider |-> args.provider,
   model |-> EnvOrSetting(env, s, "server.llm_model", args.provider),
   url |-> IF args.provider \in {"ollama", "open-ai"}
           THEN EnvOrSetting(env, s, UrlKey(args.provider), args.provider) ELSE Unset,
   secret |-> IF SecretKey(args.provider) = Unset THEN Unset
              ELSE env[SecretKey(args.provider)],
   encoder |-> args.encoder,
   target |-> EnvOrSetting(env, s, EncoderKey(args.encoder), args.provider),
   window |-> Window(args.provider, args.window),
   neighbors |-> args.neighbors, attempts |-> args.attempts]

\* The configuration could be resolved: the address of an encoder is there, the
\* one of OpenAI can be normalised.
Resolved(config) ==
  /\ config.encoder # "fast-embed" => config.target # Unset
  /\ config.provider = "open-ai" => config.url # Malformed

-----------------------------------------------------------------------------
(* What the command line tool tells the user about the saved settings.     *)

Shown(s, secrets) ==
  LET provider == ProviderOf(s)
      encoder == EncoderOf(s) IN
  [port |-> Value(s, "service.port"), namespace |-> Value(s, "active_namespace"),
   provider |-> provider, model |-> Value(s, "server.llm_model"),
   url |-> IF provider \in {"ollama", "open-ai"} THEN Value(s, UrlKey(provider)) ELSE Unset,
   secret |-> IF SecretKey(provider) = Unset THEN Unset ELSE Secret(secrets, SecretKey(provider)),
   encoder |-> encoder, target |-> Value(s, EncoderKey(encoder)),
   window |-> Window(provider, Value(s, "server.history_window_size")),
   neighbors |-> Value(s, "server.nearest_neighbor_count"),
   attempts |-> Value(s, "server.max_processing_attempts")]
=============================================================================
