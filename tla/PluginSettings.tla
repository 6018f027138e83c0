--------------------------- MODULE PluginSettings ---------------------------
(***************************************************************************)
(* The settings file as the plugins of OpenCode and OpenClaw read it.      *)
(* They are JavaScript and know no TOML: they go through the lines, mind   *)
(* the section they are in, and look for one key.  The file is a sequence  *)
(* of lines as AppSettings::save writes it, without what is Unset and      *)
(* without sections that are empty.                                        *)
(***************************************************************************)
EXTENDS Settings, Lists

Header(section) == [kind |-> "section", name |-> section, value |-> Unset]
Entry(name, value) == [kind |-> "entry", name |-> name, value |-> value]

KeysOf(section) ==
  CASE section = "" -> <<"active_namespace">>
    [] section = "service" -> <<"service.port", "service.autostart">>
    [] section = "server" ->
         <<"server.llm_provider", "server.llm_model", "server.ollama_url", "server.openai_url",
           "server.encoder_provider", "server.fastembed_model", "server.history_window_size",
           "server.nearest_neighbor_count", "server.max_processing_attempts",
           "server.local_encoder_url", "server.remote_encoder_url">>

\* A key is written without its section; only the port's is looked at.
Field(key) == IF key = "service.port" THEN "port" ELSE key

SectionLines(s, section) ==
  LET keys == KeysOf(section)
      set == Picked(keys, {i \in DOMAIN keys : s[keys[i]] # Unset})
      entries == [i \in DOMAIN set |-> Entry(Field(set[i]), s[set[i]])] IN
  IF section = "" \/ entries = <<>> THEN entries ELSE <<Header(section)>> \o entries

SettingsText(s) ==
  SectionLines(s, "") \o SectionLines(s, "service") \o SectionLines(s, "server")

\* parseAppSettingsToml: the last port of the section that can be one.
ParsedPort(lines) ==
  LET ports == {i \in DOMAIN lines :
        /\ lines[i].kind = "entry" /\ lines[i].name = "port" /\ lines[i].value # "0"
        /\ \E h \in 1..(i - 1) : /\ lines[h] = Header("service")
                               /\ \A j \in (h + 1)..i : lines[j].kind # "section"} IN
  IF ports = {} THEN Unset ELSE lines[CHOOSE i \in ports : \A j \in ports : j <= i].value

\* The port a plugin posts to: the one it is configured with, the one of the
\* settings, or the default.  MEMORY_BANK_SERVER_URL is taken to be unset.
PluginPort(configured, lines) ==
  IF configured # Unset THEN configured
  ELSE IF ParsedPort(lines) # Unset THEN ParsedPort(lines)
  ELSE "3737"
=============================================================================
