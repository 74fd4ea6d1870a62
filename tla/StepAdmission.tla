---------------------------- MODULE StepAdmission ----------------------------
(***************************************************************************)
(* Admission of one plan step (governance/): the active policy and the     *)
(* capability snapshot, the checks of admit_step in their order, and the   *)
(* certificate they end in.                                                *)
(*                                                                         *)
(* A proposal is what admission is called with: the step and the plan it   *)
(* belongs to, the call built from it, the target it was resolved to and   *)
(* the request's context.  A digest is the thing it is the digest of.  An  *)
(* envelope is the set of query arguments a step carries; the query is     *)
(* "compiled" when it is what its template gives for the step's own        *)
(* parameters.                                                             *)
(***************************************************************************)
EXTENDS Naturals, FiniteSets

\* The operations of the registered capabilities.
Spec(gateway, read, requirement, profile) ==
    [gateway |-> gateway, effect |-> "READ", side_effect |-> FALSE, read |-> read,
     requirement |-> requirement, profile |-> profile]
Snapshot ==
    [list |-> Spec("starrocks", "BOUNDED", "TEMPLATE_LOCKED", "slow_query"),
     count |-> Spec("starrocks", "BOUNDED", "TEMPLATE_LOCKED", "slow_query"),
     get_active_alerts |-> Spec("alertmanager", "BOUNDED", "NONE", "alert"),
     query_metric_range |-> Spec("prometheus", "BOUNDED", "NONE", "alert"),
     lookup_asset |-> Spec("assets", "BOUNDED", "NONE", "assets"),
     execute_readonly_query |-> Spec("readonly", "RESTRICTED", "CONFIRMED_ARTIFACT", "readonly")]
Operations == DOMAIN Snapshot

POLICY_REVISION == "current"
Environments == {"dev", "staging"}
ReadonlyProfile(operations, read, timeout) ==
    [operations |-> operations, effects |-> {"READ"}, reads |-> {read},
     environments |-> Environments, timeout |-> timeout]
Profiles ==
    [slow_query |-> ReadonlyProfile({"list", "count"}, "BOUNDED", 30),
     alert |-> ReadonlyProfile({"get_active_alerts", "query_metric_range"}, "BOUNDED", 30),
     assets |-> ReadonlyProfile({"lookup_asset"}, "BOUNDED", 30),
     readonly |-> ReadonlyProfile({"execute_readonly_query"}, "RESTRICTED", 300)]

\* verify_policy_revision.
verify_policy_revision(p) ==
    p.plan.revision = POLICY_REVISION /\ p.plan.profile \in DOMAIN Profiles

\* derive_effect: the declaration of the operation, and nothing without one.
derive_effect(operation) == Snapshot[operation]

\* verify_plan_effects: what the step says of itself is what is declared.
verify_plan_effects(p) ==
    /\ p.step.operation \in Operations
    /\ p.step.effect = derive_effect(p.step.operation).effect
    /\ p.step.side_effect = derive_effect(p.step.operation).side_effect
    /\ p.step.read = derive_effect(p.step.operation).read

\* evaluate_tool_policy: every condition refuses on its own, so their order only decides
\* which reason is given.  The profile is the one registered for the plan's capability.
evaluate_tool_policy(p) ==
    LET declared == derive_effect(p.step.operation)
        profile == Profiles[declared.profile]
    IN  /\ p.plan.profile = declared.profile
        /\ p.target.tenant = p.context.tenant
        /\ p.target.environment = p.context.environment
        /\ p.call.operation \in profile.operations
        /\ declared.effect \in profile.effects
        /\ declared.read \in profile.reads
        /\ p.context.environment \in profile.environments
        /\ p.call.timeout <= profile.timeout

SqlKeys == {"sql", "sql_template_id"}
PromqlKeys == {"promql", "promql_template_id"}

\* _verify_confirmed_artifact: step, call and target name this very query, and its text
\* is proved to be a read (module ReadonlyGuard).
_verify_confirmed_artifact(p) ==
    /\ p.step.arguments = p.hydrated.arguments /\ p.call.arguments = p.hydrated.arguments
    /\ p.target.resource = p.hydrated.resource
    /\ p.target = p.hydrated.target
    /\ p.hydrated.readonly

\* _verify_step_query: whole envelopes, one of them, the one the declaration asks for, and
\* the text its template gives.
_verify_step_query(p) ==
    LET requirement == derive_effect(p.step.operation).requirement
        sql == p.step.envelope \cap SqlKeys
        promql == p.step.envelope \cap PromqlKeys
    IN  /\ sql \in {{}, SqlKeys} /\ promql \in {{}, PromqlKeys}
        /\ sql = {} \/ promql = {}
        /\ IF requirement = "CONFIRMED_ARTIFACT"
           THEN /\ p.hydrated.given
                /\ p.step.envelope = {}
                /\ _verify_confirmed_artifact(p)
           ELSE /\ ~p.hydrated.given
                /\ requirement = "TEMPLATE_LOCKED" => sql # {}
                /\ requirement = "NONE" => sql = {}
                /\ p.step.envelope # {} => p.step.query = "compiled"

\* NeverGrantingApprovalGate.require with verify_approval_binding.
require(p) ==
    /\ p.approval.given
    /\ p.approval.step = p.step
    /\ ~p.approval.expired /\ p.approval.granted
    /\ p.approval.revision = p.plan.revision
    /\ p.approval.plan = p.plan /\ p.approval.target = p.target

\* issue_admission_certificate: the digest is taken of the call itself.
issue_admission_certificate(p) ==
    [admitted |-> TRUE, effect |-> derive_effect(p.step.operation).effect,
     revision |-> p.context.revision, target |-> p.target, call |-> p.call]
NoCertificate == [admitted |-> FALSE]

\* admit_step.
admit_step(p) ==
    IF /\ verify_policy_revision(p)
       /\ verify_plan_effects(p)
       /\ p.call.gateway = derive_effect(p.step.operation).gateway
       /\ evaluate_tool_policy(p)
       /\ _verify_step_query(p)
       /\ derive_effect(p.step.operation).side_effect => require(p)
    THEN issue_admission_certificate(p) ELSE NoCertificate

-----------------------------------------------------------------------------
\* Proposals: the one the runner makes for an operation, and the ones that differ from it
\* in one respect (a stored plan of an earlier release, a changed row, a mixed-up argument).

Target == [tenant |-> "t", environment |-> "dev", resource |-> "cluster"]
RequestContext == [revision |-> POLICY_REVISION, tenant |-> "t", environment |-> "dev",
                   actor |-> "alice"]
Hydrated(given, arguments, target, readonly) ==
    [given |-> given, arguments |-> arguments, resource |-> target.resource,
     target |-> target, readonly |-> readonly]
NoApproval == [given |-> FALSE]

\* _build_call: gateway and arguments from the declaration and the step.
_build_call(step) ==
    [gateway |-> derive_effect(step.operation).gateway, operation |-> step.operation,
     arguments |-> step.arguments, query |-> step.query, timeout |-> 30]

Proposal(operation) ==
    LET declared == derive_effect(operation)
        envelope == CASE declared.requirement = "TEMPLATE_LOCKED" -> SqlKeys
                      [] operation = "query_metric_range" -> PromqlKeys
                      [] OTHER -> {}
        step == [operation |-> operation, effect |-> declared.effect, read |-> declared.read,
                 side_effect |-> declared.side_effect, arguments |-> "mine",
                 envelope |-> envelope, query |-> "compiled"]
    IN  [plan |-> [revision |-> POLICY_REVISION, profile |-> declared.profile],
         step |-> step, call |-> _build_call(step), target |-> Target,
         context |-> RequestContext, approval |-> NoApproval,
         hydrated |-> Hydrated(declared.requirement = "CONFIRMED_ARTIFACT", "mine",
                               Target, TRUE)]

\* A step whose query was edited gives a call with the edited query.
Edited(p) ==
    LET step == [p.step EXCEPT !.query = "edited"]
    IN  [p EXCEPT !.step = step, !.call = _build_call(step)]
Deviations(p) ==
    {[p EXCEPT !.plan.revision = "old"],
     [p EXCEPT !.plan.revision = "old", !.context.revision = "old"], [p EXCEPT !.step.effect = "WRITE"],
     [p EXCEPT !.step.read = "UNBOUNDED"], [p EXCEPT !.step.side_effect = TRUE],
     [p EXCEPT !.call.gateway = "other"], [p EXCEPT !.call.timeout = 600],
     [p EXCEPT !.target.tenant = "u"], [p EXCEPT !.target.environment = "staging"],
     [p EXCEPT !.target.environment = "prod", !.context.environment = "prod"],
     Edited(p), [p EXCEPT !.hydrated.given = ~@],
     [p EXCEPT !.hydrated.arguments = "other"], [p EXCEPT !.hydrated.readonly = FALSE]}
    \cup {[p EXCEPT !.plan.profile = x] : x \in DOMAIN Profiles}
    \cup {[p EXCEPT !.step.envelope = x] : x \in SUBSET (SqlKeys \cup PromqlKeys)}

Proposals == UNION {{Proposal(x)} \cup Deviations(Proposal(x)) : x \in Operations}
=============================================================================
