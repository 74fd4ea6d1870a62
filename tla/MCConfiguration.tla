-------------------------- MODULE MCConfiguration --------------------------
(***************************************************************************)
(* The life of the configuration: the service with a Web process and one   *)
(* other consumer, a few calls per domain, on a fresh and on a configured  *)
(* deployment; the roll-out of the split files; the processes that are     *)
(* assembled from them.  They are looked at one at a time: focus says which*)
(* moves, the others rest in one initial state.  Of the service, either    *)
(* the provider documents or the resources are edited; what the two share  *)
(* is the lock, for which the two provider documents compete as well.      *)
(***************************************************************************)
EXTENDS IntegrationConfig, Rollout, Processes

CONSTANTS d1, d2

VARIABLE focus

MCRequiredBy == [d \in ConfigDomain |->
    CASE d = "ai" -> {"worker"} [] d = "feishu" -> {Web} [] d = "resources" -> {"worker"}]

Provider(v, d, u) == [verb |-> v, domain |-> d, update |-> u]
SaveFeishu == Provider("save_feishu", "feishu",
                       [enabled |-> Keep, app_id |-> Keep, app_secret |-> "s2"])
SaveAi == Provider("save_ai", "ai", [enabled |-> "yes", api_key |-> Keep])
Resource(v, u) == [verb |-> v, domain |-> "resources", id |-> "r1", update |-> u]
NewSecret == [auth_mode |-> Keep, secret |-> "s2", username |-> FALSE, foreign |-> FALSE]
Test(c) == [verb |-> "probe", domain |-> DomainOf(c), check |-> c]

OAuthTest == [verb |-> "oauth", domain |-> "feishu", check |-> "feishu_oauth"]

\* Three requests at a time, so that a credentials test, an OAuth test and a save of
\* the document they are about can overlap.
MCCalls ==
    [o \in {"o1", "o2", "o3"} |->
        CASE o = "o1" -> {Test("feishu_credentials"), Test("gemini_connection"),
                          Resource("create_resource", StarRocksResource("s1"))}
          [] o = "o2" -> {OAuthTest, Provider("clear_ai", "ai", "none"),
                          Resource("clear_resource_secret", "none"),
                          Resource("update_resource", NewSecret)}
          [] o = "o3" -> {SaveFeishu, SaveAi, Provider("clear_feishu", "feishu", "none"),
                          Resource("create_resource", PrometheusResource("bearer", Absent)),
                          Resource("delete_resource", "none")}]

Configured ==
    [d \in ConfigDomain |->
       [gen |-> 1, body |->
         CASE d = "ai" -> [enabled |-> "no", api_key |-> "s1"]
           [] d = "feishu" -> [enabled |-> "yes", app_id |-> "s1", app_secret |-> "s1"]
           [] d = "resources" -> [i \in {"r1"} |-> PrometheusResource("bearer", "s1")]]]
Fresh == [d \in ConfigDomain |-> Missing(d)]
BothDeployments == {Configured, Fresh}

RolloutRests == legacy = NoLegacy /\ files = [d \in Domains |-> NoFile] /\ tasks = <<>> /\ db = "ok" /\ writable = TRUE
ProcessesRest == service = "api" /\ database = "ok" /\ provided = [gemini_key |-> TRUE, feishu_app |-> TRUE, adapters_build |-> TRUE, live_assembly |-> TRUE]
ServiceRests == file = [d \in ConfigDomain |-> Fresh[d]]

AllInit ==
    /\ \/ focus \in {"providers", "resources"} /\ RolloutRests /\ ProcessesRest
       \/ focus = "rollout" /\ ServiceRests /\ ProcessesRest
       \/ focus = "processes" /\ ServiceRests /\ RolloutRests
    /\ Init /\ RolloutInit /\ ProcessesInit
AllNext ==
    \/ focus \in {"providers", "resources"} /\ Next /\ UNCHANGED <<focus, rvars, pvars>>
         /\ \A o \in Ops : op'[o].call.verb # "none" =>
                (op'[o].call.domain = "resources") = (focus = "resources")
    \/ focus = "rollout" /\ RolloutNext /\ UNCHANGED <<focus, vars, pvars>>
    \/ focus = "processes" /\ ProcessesNext /\ UNCHANGED <<focus, vars, rvars>>
ConfigurationSpec == AllInit /\ [][AllNext]_<<focus, vars, rvars, pvars>>
=============================================================================
