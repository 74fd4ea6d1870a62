-------------------------- MODULE ConfigDocuments --------------------------
(***************************************************************************)
(* The three configuration documents (AI, Feishu, resources) and the pure  *)
(* functions that build the next one from the current one: the merges of a *)
(* partial update, the four resource changes, the contracts they are       *)
(* validated against, and what a process makes of a document it loads.     *)
(*                                                                         *)
(* Abstractions.  A document is its generation and its body; generation 0  *)
(* is the absent file.  A field holds one of a few values or Absent.  Of a *)
(* resource only what the rules tell apart is kept: its kind, the          *)
(* authentication mode, whether it has a user name, and its secret.  The   *)
(* order of the resource tuple is not kept.                                *)
(***************************************************************************)
EXTENDS Naturals, FiniteSets

CONSTANTS
    MaxResources        \* MAX_RESOURCES

ASSUME DocumentAssumption == MaxResources \in Nat \ {0}

Absent == "absent"      \* None in a document
Keep == "keep"          \* None in an update: not carried, keep the value

ConfigDomain == {"ai", "feishu", "resources"}
ProviderDomains == {"ai", "feishu"}

GeminiIntegration == [enabled |-> "no", api_key |-> Absent]
FeishuIntegration == [enabled |-> "no", app_id |-> Absent, app_secret |-> Absent]

Default(d) ==
    CASE d = "ai" -> GeminiIntegration
      [] d = "feishu" -> FeishuIntegration
      [] d = "resources" -> [i \in {} |-> Absent]

\* UNCONFIGURED_GENERATION: no file, and the body a first save starts from.
Missing(d) == [gen |-> 0, body |-> Default(d)]
current_generation(doc) == doc.gen

Carried(update, current) == IF update = Keep THEN current ELSE update

-----------------------------------------------------------------------------
\* The provider documents.

_merged_gemini(current, update) ==
    [enabled |-> Carried(update.enabled, current.enabled),
     api_key |-> Carried(update.api_key, current.api_key)]

_merged_feishu(current, update) ==
    [enabled |-> Carried(update.enabled, current.enabled),
     app_id |-> Carried(update.app_id, current.app_id),
     app_secret |-> Carried(update.app_secret, current.app_secret)]

_usable_ai(doc) == doc.gen > 0 /\ doc.body.enabled = "yes" /\ doc.body.api_key # Absent
_usable_feishu(doc) ==
    /\ doc.gen > 0 /\ doc.body.enabled = "yes"
    /\ doc.body.app_id # Absent /\ doc.body.app_secret # Absent

Usable(d, doc) ==
    CASE d = "ai" -> _usable_ai(doc)
      [] d = "feishu" -> _usable_feishu(doc)
      [] d = "resources" -> doc.gen > 0

-----------------------------------------------------------------------------
\* The resources document: a function from resource ids to resources.

\* What a change yields instead of a body, and the FAILED reason it leaves.
Refused(reason) == [refused |-> reason]
IsRefused(b) == DOMAIN b = {"refused"}

StarRocksResource(secret) ==
    [kind |-> "starrocks", auth_mode |-> "password", username |-> TRUE, secret |-> secret]
PrometheusResource(auth, secret) ==
    [kind |-> "prometheus", auth_mode |-> auth, username |-> auth = "basic", secret |-> secret]

\* model_validate: StarRocks fields are independent, Prometheus combinations are closed.
_combinations_are_closed(r) ==
    r.kind = "prometheus" =>
        /\ (r.auth_mode = "basic") = r.username
        /\ r.auth_mode = "none" => r.secret = Absent

secret_required_on_create(r) == r.kind = "starrocks" \/ r.auth_mode # "none"

\* ResourcesConfig: the size of the document; ids are unique because it is a function.
ResourcesConfig(body) == Cardinality(DOMAIN body) <= MaxResources

\* A field that only the other kind has refuses the whole update.
_foreign(current, update) ==
    \/ current.kind = "starrocks" /\ update.auth_mode # Keep
    \/ update.foreign

_merged_resource(current, update) ==
    LET auth == Carried(update.auth_mode, current.auth_mode)
        r == [current EXCEPT
                !.auth_mode = auth,
                !.username = IF current.kind = "prometheus" /\ auth # "basic" THEN FALSE
                             ELSE @ \/ update.username,
                !.secret = Carried(update.secret, @)]
    IN IF \/ _foreign(current, update)
          \/ auth = "none" /\ r.secret # Absent
          \/ ~ _combinations_are_closed(r)
       THEN Refused("config_invalid") ELSE r

_without_secret(r) == [r EXCEPT !.secret = Absent]

\* `replacement' is what the change makes of the resource that is there.
_replace_one(existing, id, replacement) ==
    IF id \notin DOMAIN existing THEN Refused("target_not_found")
    ELSE IF IsRefused(replacement) THEN replacement ELSE [existing EXCEPT ![id] = replacement]

-----------------------------------------------------------------------------
\* The calls: the body each asks for, or the reason it is refused.

save_ai(current, update) == _merged_gemini(current, update)
save_feishu(current, update) == _merged_feishu(current, update)
clear_ai == GeminiIntegration
clear_feishu == FeishuIntegration

create_resource(existing, id, draft) ==
    LET body == [i \in DOMAIN existing \cup {id} |-> IF i = id THEN draft ELSE existing[i]] IN
    IF id \in DOMAIN existing THEN Refused("conflict")
    ELSE IF \/ secret_required_on_create(draft) /\ draft.secret = Absent
            \/ ~ _combinations_are_closed(draft) \/ ~ ResourcesConfig(body)
         THEN Refused("config_invalid") ELSE body

update_resource(existing, id, update) ==
    _replace_one(existing, id, _merged_resource(existing[id], update))

clear_resource_secret(existing, id) ==
    _replace_one(existing, id, _without_secret(existing[id]))

delete_resource(existing, id) ==
    IF id \notin DOMAIN existing THEN Refused("target_not_found")
    ELSE [i \in DOMAIN existing \ {id} |-> existing[i]]

NextBody(call, current) ==
    CASE call.verb = "save_ai" -> save_ai(current, call.update)
      [] call.verb = "save_feishu" -> save_feishu(current, call.update)
      [] call.verb = "clear_ai" -> clear_ai
      [] call.verb = "clear_feishu" -> clear_feishu
      [] call.verb = "create_resource" -> create_resource(current, call.id, call.update)
      [] call.verb = "update_resource" -> update_resource(current, call.id, call.update)
      [] call.verb = "clear_resource_secret" -> clear_resource_secret(current, call.id)
      [] call.verb = "delete_resource" -> delete_resource(current, call.id)

\* The probes: what a check of the document can come back with.  Without usable
\* credentials nothing is sent; a call ends in an answer, an error or a timeout.
_timed_call == {"passed", "failed"}
probe_gemini_connection(doc) == IF _usable_ai(doc) THEN _timed_call ELSE {"failed"}
probe_feishu_credentials(doc) == IF _usable_feishu(doc) THEN _timed_call ELSE {"failed"}

-----------------------------------------------------------------------------
\* What the database keeps of a document and what the page makes of it.

\* A LoadReceipt; generation 0 stands for no row.
NoReceipt == [gen |-> 0, status |-> "invalid"]
LoadReceipt(d, doc) == [gen |-> doc.gen, status |-> IF Usable(d, doc) THEN "loaded" ELSE "invalid"]

NoTest == [gen |-> 0, status |-> "failed"]

_every_required_service_loaded(generation, required, receipt) ==
    \A s \in required : receipt[s] = [gen |-> generation, status |-> "loaded"]

_pending_restart_services(usable, generation, required, receipt) ==
    {s \in required : usable /\ receipt[s] # [gen |-> generation, status |-> "loaded"]}

compute_display_state(usable, generation, required, receipt, test) ==
    IF ~ usable THEN "unconfigured"
    ELSE IF ~ _every_required_service_loaded(generation, required, receipt) THEN "pending_restart"
    ELSE IF test.gen = 0 \/ test.gen # generation THEN "pending_test"
    ELSE IF test.status = "passed" THEN "available" ELSE "test_failed"
=============================================================================
