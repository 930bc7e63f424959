-------------------------------- MODULE Settings --------------------------------
(***************************************************************************)
(* The configuration of src/internal/config/config.go as data: the fields  *)
(* with their defaults, what the file and the NALA_ environment variables  *)
(* do to them, and what validate accepts and repairs.                      *)
(*                                                                         *)
(* A configuration is a record with one component per field, named as the  *)
(* environment variable names it: NALA_SERVER_PORT sets server_port.  What *)
(* a file holds is the record of the fields it mentions, or Malformed.     *)
(***************************************************************************)
EXTENDS Integers

CONSTANTS
  Env,         \* the NALA_ variables: lower-case key -> Raw value
  NotANumber,  \* what strconv.Atoi makes of a value that is no integer
  Malformed    \* the contents of a file that is not TOML

DefaultConfig ==
  [core_data_dir |-> "share/nala", core_log_level |-> "info", core_log_file |-> "",
   core_log_max_size |-> 50, core_log_max_age |-> 30, core_max_sessions |-> 10,
   core_max_upload_size_mb |-> 100,
   server_enabled |-> TRUE, server_host |-> "127.0.0.1", server_port |-> 8472,
   server_require_auth |-> FALSE,
   server_cors_origins |-> <<"http://localhost:*", "wails://*">>,
   server_rate_limit_rpm |-> 60,
   model_default_provider |-> "ollama", model_default_model |-> "llama3.2:3b",
   model_max_tokens |-> 4096, model_timeout_s |-> 120, model_max_concurrent |-> 4,
   model_openai_key |-> "",
   memory_vector_backend |-> "sqlite-vec", memory_default_chunk_size |-> 1000,
   memory_default_chunk_overlap |-> 200, memory_summarization_interval_min |-> 60,
   memory_auto_extract_facts |-> TRUE,
   tools_sandbox_dir |-> "share/nala/sandbox", tools_code_exec_timeout_s |-> 30,
   tools_allowed_languages |-> <<"python", "javascript", "go", "bash">>,
   tools_tools_network_access |-> FALSE, tools_max_concurrent_tools |-> 8,
   privacy_airgap_mode |-> FALSE, privacy_audit_retention_days |-> 90,
   privacy_sanitize_uploads |-> TRUE, privacy_disable_telemetry |-> TRUE,
   privacy_session_expiry_days |-> 30,
   ui_theme |-> "system", ui_font_size |-> 14, ui_language |-> "en"]

Fields == DOMAIN DefaultConfig

\* The switch of setField sorts the fields by how it converts their value.
NumberFields ==
  {"core_log_max_size", "core_log_max_age", "core_max_sessions",
   "core_max_upload_size_mb", "server_port", "server_rate_limit_rpm",
   "model_max_tokens", "model_timeout_s", "model_max_concurrent",
   "memory_default_chunk_size", "memory_default_chunk_overlap",
   "memory_summarization_interval_min", "tools_code_exec_timeout_s",
   "tools_max_concurrent_tools", "privacy_audit_retention_days",
   "privacy_session_expiry_days", "ui_font_size"}

FlagFields ==
  {"server_enabled", "server_require_auth", "memory_auto_extract_facts",
   "tools_tools_network_access", "privacy_airgap_mode",
   "privacy_sanitize_uploads", "privacy_disable_telemetry"}

ListFields == {"server_cors_origins", "tools_allowed_languages"}

ASSUME SettingsAssumption ==
  /\ NumberFields \cup FlagFields \cup ListFields \subseteq Fields
  /\ \A k \in DOMAIN Env : DOMAIN Env[k] = {"text", "number", "items"}

\* A variable of an unknown name sets nothing, and neither does a number
\* that does not parse.
Sets(k) == k \in DOMAIN Env /\ (k \in NumberFields => Env[k].number # NotANumber)

SetField(k) ==
  CASE k \in NumberFields -> Env[k].number
    [] k \in FlagFields   -> Env[k].text = "true"
    [] k \in ListFields   -> Env[k].items
    [] OTHER              -> Env[k].text

applyEnvOverrides(cfg) == [f \in Fields |-> IF Sets(f) THEN SetField(f) ELSE cfg[f]]

\* A file is decoded over the defaults: what it does not mention keeps its default.
Decode(file) == [f \in Fields |-> IF f \in DOMAIN file THEN file[f] ELSE DefaultConfig[f]]

-----------------------------------------------------------------------------
validatePort(port) == port >= 1024 /\ port <= 65535

Accepted(cfg) ==
  /\ validatePort(cfg.server_port)
  /\ cfg.core_data_dir # ""
  /\ cfg.ui_theme \in {"light", "dark", "system"}
  /\ cfg.ui_language \in {"en", "ja"}

\* An unknown log level is repaired, everything else is refused.
Repaired(cfg) ==
  IF cfg.core_log_level \in {"debug", "info", "warn", "error"} THEN cfg
  ELSE [cfg EXCEPT !.core_log_level = "info"]

\* What Load and a reload make of a file, and whether they take it.
Loadable(file) == file # Malformed /\ Accepted(applyEnvOverrides(Decode(file)))

Loaded(file) == Repaired(applyEnvOverrides(Decode(file)))
=============================================================================
