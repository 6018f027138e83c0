---------------------------- MODULE SetupWizard ----------------------------
(***************************************************************************)
(* The questions of `mb setup` (setup/prompts.rs): which plans they can    *)
(* end in, given what is saved, the shell the command runs in and what the *)
(* user types.  A question that is answered by return alone takes what is  *)
(* offered; an input that its validator rejects is asked for again.        *)
(*                                                                         *)
(* Answers are a record: typed, a function from the keys that the user     *)
(* changes to an input, advanced, whether the advanced settings are asked  *)
(* for at all, and picked, the agents that are left ticked, in order.      *)
(***************************************************************************)
EXTENDS Settings

PlanKeys == Keys \ {"server.encoder_provider", "server.local_encoder_url",
                    "server.remote_encoder_url"}
Advanced == Numbers \cup {"server.openai_url", "server.fastembed_model"}

\* The model that is saved belongs to the provider that is saved.
SavedModel(s, provider) ==
  IF ProviderOf(s) = provider THEN s["server.llm_model"] ELSE Unset

\* Autostart is offered unless it is saved that it is off, which is never saved
\* by `mb`, being the default.
Offered(s, provider, key) ==
  CASE key = "server.llm_model" ->
         IF SavedModel(s, provider) # Unset THEN SavedModel(s, provider) ELSE DefaultModel(provider)
    [] key = "service.autostart" -> IF s[key] = Unset THEN "true" ELSE s[key]
    [] OTHER -> Value(s, key)

Rejected(key, input) ==
  Refused(key, input) \/ (input.spelling = "blank" /\ key # "active_namespace")

\* The input for a key; an empty namespace is the default one.
Entered(key, input) ==
  IF input.spelling = "blank" THEN Default(key, "anthropic") ELSE input.value

Provider(s, answers) ==
  IF "server.llm_provider" \in DOMAIN answers.typed
  THEN answers.typed["server.llm_provider"].value ELSE ProviderOf(s)

Asks(provider, answers, key) ==
  provider \in OwnedBy(key) /\ (key \in Advanced => answers.advanced)

CollectSetupPlan(s, answers) ==
  LET provider == Provider(s, answers) IN
  [key \in PlanKeys |->
    IF /\ key \in DOMAIN answers.typed
       /\ Asks(provider, answers, key)
       /\ ~Rejected(key, answers.typed[key])
    THEN Entered(key, answers.typed[key])
    ELSE Offered(s, provider, key)]

\* A plan to be confirmed: the questions that were asked do not accept what is
\* offered either when it is not valid, and a base URL of OpenAI that was not asked
\* for makes build_settings_for_plan panic before anything is done.
Confirmable(plan, answers) ==
  /\ answers.advanced => \A key \in Positive : plan[key] # "0"
  /\ plan["server.llm_provider"] = "open-ai" => plan["server.openai_url"] # Malformed

-----------------------------------------------------------------------------
(* The secret of the provider: the variable and the value to store, if any. *)

NotChanged == <<Unset, NoSecret>>

\* The shell comes before the file; a secret that is stored may be kept.
SecretPromptPlan(provider, secrets, shell) ==
  LET key == SecretKey(provider) IN
  CASE key = Unset -> "not required"
    [] key # Unset /\ shell[key] # Unset -> "offer environment"
    [] key # Unset /\ shell[key] = Unset /\ Secret(secrets, key) # NoSecret -> "offer stored"
    [] OTHER -> "manual entry"

SecretChoices(provider, secrets, shell, entries) ==
  LET key == SecretKey(provider)
      manual == {key} \X entries IN
  CASE SecretPromptPlan(provider, secrets, shell) = "not required" -> {NotChanged}
    [] SecretPromptPlan(provider, secrets, shell) = "offer environment" ->
         manual \cup {<<key, shell[key]>>}
    [] SecretPromptPlan(provider, secrets, shell) = "offer stored" -> manual \cup {NotChanged}
    [] OTHER -> manual

-----------------------------------------------------------------------------
(* What the plan makes of the saved files.                                 *)

\* The keys that the plan does not decide are left as they are.
PlanSettings(s, plan) ==
  [key \in Keys |->
    IF key \notin PlanKeys THEN s[key]
    ELSE IF plan["server.llm_provider"] \notin OwnedBy(key) THEN Unset
    ELSE Stored(key, plan[key], plan["server.llm_provider"])]

ApplySecretChoice(secrets, choice) ==
  [key \in SecretKeys |-> IF key = choice[1] THEN EscapeEnvValue(choice[2]) ELSE secrets[key]]
=============================================================================
