----------------------------- MODULE Processes ------------------------------
(* How the five long-running processes come up and go down: the settings      *)
(* they accept (config.py), what each of them assembles (local_stack.py), and *)
(* the order in which an engine is opened, the local administrator seeded,    *)
(* load receipts recorded, service begun and everything released again        *)
(* (the process entry points under interfaces/).                              *)
(* Settings keep the fields that gate the assembly; a group of fields that    *)
(* must be given together is one value.  What a receipt says, and how the     *)
(* Web configuration changes under it, is IntegrationConfig's.                *)
EXTENDS Integers, FiniteSets

CONSTANT StartedServices       \* the processes a run starts

VARIABLES
    service,    \* the process
    settings,   \* its settings, the defaults until they are loaded
    provided,   \* what the domain files and its caller give it
    at,         \* where its entry point stands
    engine,     \* "none", "open" or "disposed"
    parts,      \* what it has assembled
    facts,      \* what it has written: "seeded", "receipts"
    database,   \* "ok", "down" or "misconfigured" (no password file)
    exit        \* its exit code, or Running

pvars == <<service, settings, provided, at, engine, parts, facts, database, exit>>

AllServices == {"api", "web", "listener", "channel_worker", "worker"}
ASSUME ServicesAssumption == StartedServices \subseteq AllServices
Running == -1

Switches == {"gemini", "oauth", "listener", "channel_worker", "real_test"}

\* starrocks: none, some or all of the live profile's fields are given;
\* "approved" is the complete profile of the test environment with the
\* authorised actor, consistent timeouts and an activation window.
Settings == [profile: {"offline_recording", "release"},
             mode: {"recording", "test_readonly", "disabled"},
             environment: {"dev", "test"},
             starrocks: {"none", "partial", "approved"},
             smoke: BOOLEAN, web_app: BOOLEAN, switches: SUBSET Switches,
             origin: {"none", "safe", "unsafe"}, listener_fields: BOOLEAN]

Provided == [gemini_key: BOOLEAN, feishu_app: BOOLEAN, adapters_build: BOOLEAN,
             live_assembly: BOOLEAN]

-----------------------------------------------------------------------------
(* config.py                                                                  *)

_starrocks_profile_is_closed(s) ==
    IF s.mode \in {"recording", "disabled"} THEN s.starrocks = "none"
    ELSE s.starrocks = "approved" /\ s.environment = "test"

_runtime_profile_is_closed(s) ==
    IF s.profile = "release"
    THEN s.mode = "disabled" /\ s.environment = "dev" /\ ~s.smoke /\ s.switches = {}
    ELSE s.mode # "disabled"

_feishu_profiles_are_closed(s) ==
    LET listener == "listener" \in s.switches
        worker == "channel_worker" \in s.switches
        oauth == "oauth" \in s.switches
        origin == s.origin # "none"
    IN  IF ~(listener \/ worker \/ s.web_app \/ oauth)
        THEN ~s.listener_fields /\ ~origin
        ELSE /\ listener = s.listener_fields
             /\ (worker \/ s.web_app \/ oauth) => origin
             /\ (~worker /\ ~s.web_app) => ~origin

\* canonical_web_public_origin refuses an origin that its mode does not allow.
_canonical_web_public_origin(s) == s.origin # "unsafe"

load_settings(s) ==
    /\ _starrocks_profile_is_closed(s) /\ _runtime_profile_is_closed(s)
    /\ _feishu_profiles_are_closed(s) /\ _canonical_web_public_origin(s)

Loadable == {s \in Settings : load_settings(s)}

-----------------------------------------------------------------------------
(* local_stack.py: what is assembled.  Failed marks a builder that raises.     *)

Failed == {"failed"}

_feishu_credentials_or_fail(build) == IF provided.feishu_app THEN build ELSE Failed

\* The StarRocks adapter: none, the recording, or the live one bound to the one
\* approved target, which only code that injects a live assembly can get.
_starrocks_gateway_registration ==
    CASE settings.mode = "disabled" -> IF provided.live_assembly THEN Failed ELSE {}
      [] settings.mode = "recording" ->
            IF provided.live_assembly THEN Failed ELSE {"starrocks_recording"}
      [] OTHER -> IF provided.live_assembly THEN {"starrocks_live"} ELSE Failed

_offline_recording_adapters == {"alertmanager_recording", "prometheus_recording", "asset_recording"}

_conversation_snapshot ==
    IF settings.profile = "release" THEN {"empty_snapshot"} ELSE {"full_snapshot"}

\* A process without execution: it projects tasks, and if it accepts
\* submissions it recognises SQL messages.
_task_view_runtime(accepts_submissions) ==
    _conversation_snapshot \cup {"rendering"} \cup
    (IF accepts_submissions THEN {"recognize_sql"} ELSE {})

_assemble_local_stack ==
    LET starrocks == _starrocks_gateway_registration
        model == IF "gemini" \in settings.switches /\ provided.gemini_key THEN {"gemini"} ELSE {}
        gateway == IF settings.profile = "release" THEN {"closed_gateway"}
                   ELSE _offline_recording_adapters \cup starrocks
        barrier == IF settings.smoke THEN {"barrier"} ELSE {}
    IN  IF starrocks = Failed THEN Failed
        ELSE model \cup gateway \cup barrier \cup _conversation_snapshot \cup {"rendering", "runner"}

build_postgres_task_view_stack == _task_view_runtime(TRUE)
build_postgres_feishu_listener_stack ==
    _task_view_runtime(TRUE) \cup {"feishu_inbound", "feishu_messages"}
build_postgres_channel_worker_stack ==
    _feishu_credentials_or_fail(_task_view_runtime(FALSE) \cup {"feishu_messages"})
build_postgres_local_stack == _assemble_local_stack

\* serve_web builds both Feishu ports or neither; without them the Web runs
\* with the local administrator alone.
FeishuPorts ==
    IF "oauth" \in settings.switches /\ provided.feishu_app /\ provided.adapters_build
    THEN {"oauth", "membership"} ELSE {}
build_postgres_web_stack == _task_view_runtime(TRUE) \cup {"local_admin_auth"} \cup FeishuPorts

Builds ==
    CASE service = "api" -> build_postgres_task_view_stack
      [] service = "listener" -> build_postgres_feishu_listener_stack
      [] service = "channel_worker" -> build_postgres_channel_worker_stack
      [] service = "web" -> build_postgres_web_stack
      [] service = "worker" -> build_postgres_local_stack

-----------------------------------------------------------------------------
(* The entry points.                                                          *)

\* The defaults of the Settings class: every switch is off.
DefaultSettings ==
    [profile |-> "offline_recording", mode |-> "recording", environment |-> "dev",
     starrocks |-> "none", smoke |-> FALSE, web_app |-> FALSE, switches |-> {},
     origin |-> "none", listener_fields |-> FALSE]

ProcessesInit ==
    /\ service \in StartedServices /\ settings = DefaultSettings /\ provided \in Provided
    /\ database \in {"ok", "down", "misconfigured"}
    /\ at = "main" /\ engine = "none" /\ parts = {} /\ facts = {} /\ exit = Running

Exit(code) == at' = "ended" /\ exit' = code
Fixed == <<service, settings, provided>>

Enabled(s) ==
    CASE service = "web" -> s.web_app
      [] service = "listener" -> "listener" \in s.switches
      [] service = "channel_worker" -> "channel_worker" \in s.switches
      [] OTHER -> TRUE

\* main: settings that do not load, or a process that is not enabled, exit 2.
main ==
    /\ at = "main"
    /\ \/ Settings # {s \in Loadable : Enabled(s)} /\ Exit(2) /\ UNCHANGED settings
       \/ \E s \in Loadable :
             Enabled(s) /\ settings' = s /\ at' = "build" /\ UNCHANGED exit
    /\ UNCHANGED <<service, provided, engine, parts, facts, database>>

\* What is refused before an engine is opened.
RefusedEarly ==
    \/ service = "web" /\ settings.environment # "dev"
    \/ service = "listener" /\ ~provided.feishu_app

EarlyExit == IF service = "web" THEN 2 ELSE 1

create_database_engine ==
    /\ at = "build"
    /\ \/ (RefusedEarly \/ database = "misconfigured") /\ Exit(EarlyExit) /\ UNCHANGED engine
       \/ /\ ~RefusedEarly /\ database # "misconfigured"
          /\ engine' = "open" /\ at' = "assemble" /\ UNCHANGED exit
    /\ UNCHANGED <<Fixed, parts, facts, database>>

\* Fault: a builder that fails keeps its engine.
Assemble_KeepsEngine ==
    /\ at = "assemble"
    /\ LET built == Builds
           seeds == service = "web"
           fails == built = Failed \/ (seeds /\ database = "down")
       IN  \/ fails /\ Exit(1) /\ UNCHANGED <<engine, parts, facts>>
           \/ /\ ~fails
              /\ parts' = built /\ facts' = (IF seeds THEN {"seeded"} ELSE {})
              /\ at' = (IF service = "api" THEN "serve" ELSE "record")
              /\ UNCHANGED <<engine, exit>>
    /\ UNCHANGED <<Fixed, database>>

\* The body of a builder: the Web seeds the local administrator; a failure
\* disposes of the engine.
Assemble ==
    /\ at = "assemble"
    /\ LET built == Builds
           seeds == service = "web"
           fails == built = Failed \/ (seeds /\ database = "down")
       IN  \/ fails /\ Exit(1) /\ engine' = "disposed" /\ UNCHANGED <<parts, facts>>
           \/ /\ ~fails
              /\ parts' = built /\ facts' = (IF seeds THEN {"seeded"} ELSE {})
              /\ at' = (IF service = "api" THEN "serve" ELSE "record")
              /\ UNCHANGED <<engine, exit>>
    /\ UNCHANGED <<Fixed, database>>

\* Receipts are recorded before service begins; only the Web's entry point has
\* entered its finally clause by then.
RecordReceipts ==
    /\ at = "record"
    /\ \/ /\ database = "down" /\ Exit(1)
          /\ engine' = IF service = "web" THEN "disposed" ELSE engine
          /\ UNCHANGED facts
       \/ /\ database = "ok" /\ facts' = facts \cup {"receipts"} /\ at' = "serve"
          /\ UNCHANGED <<engine, exit>>
    /\ UNCHANGED <<Fixed, parts, database>>

\* Service ends, by a signal or with an error; the stack is closed.
serve ==
    /\ at = "serve"
    /\ engine' = "disposed"
    /\ \E code \in {0, 1} : Exit(code)
    /\ UNCHANGED <<Fixed, parts, facts, database>>

DatabaseFails ==
    /\ at \notin {"ended"} /\ database \in {"ok", "down"}
    /\ database' \in {"ok", "down"} \ {database}
    /\ UNCHANGED <<Fixed, at, engine, parts, facts, exit>>

ProcessesNext ==
    main \/ create_database_engine \/ Assemble \/ RecordReceipts \/ serve \/ DatabaseFails

ProcessesSpec == ProcessesInit /\ [][ProcessesNext]_pvars

-----------------------------------------------------------------------------
(* Properties.                                                                *)

Providers == {"gemini", "oauth", "membership", "feishu_inbound", "feishu_messages"}
ToolAdapters == _offline_recording_adapters \cup {"starrocks_recording", "starrocks_live"}

\* What a serving process holds follows from its profile, whatever switches its
\* environment combines: in the release profile no provider port, no tool
\* adapter and an empty snapshot; the live StarRocks adapter only in the
\* approved test profile, next to no recording of it; and the means to execute
\* only in the worker (the validators of Settings against the builders).
AssemblyIsClosed ==
    at = "serve" =>
        /\ settings.profile = "release" =>
              /\ parts \cap (Providers \cup ToolAdapters \cup {"barrier"}) = {}
              /\ "full_snapshot" \notin parts /\ settings.environment = "dev"
        /\ "starrocks_live" \in parts =>
              /\ settings.environment = "test" /\ settings.starrocks = "approved"
              /\ provided.live_assembly /\ "starrocks_recording" \notin parts
        /\ parts \cap (ToolAdapters \cup {"runner", "gemini"}) # {} => service = "worker"
        /\ ("oauth" \in parts) = ("membership" \in parts)

\* A process serves only with an open engine, its receipts recorded and, for
\* the Web, the local administrator seeded.  A process that has ended has
\* released its engine on every path but one: receipts that could not be
\* recorded in a process other than the Web leave it to the end of the process.
EngineFollowsProcess ==
    /\ at = "serve" =>
          /\ engine = "open"
          /\ service # "api" => "receipts" \in facts
          /\ service = "web" => "seeded" \in facts
    /\ at = "ended" /\ engine = "open" =>
          /\ service \in {"worker", "listener", "channel_worker"}
          /\ exit = 1 /\ "receipts" \notin facts /\ parts # {}

\* What a process holds, serves with and leaves behind follows from its profile and from
\* how far it came (_assemble_local_stack, create_database_engine, record_load).
ProcessesAreSound == AssemblyIsClosed /\ EngineFollowsProcess
=============================================================================
