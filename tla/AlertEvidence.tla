---------------------------- MODULE AlertEvidence ----------------------------
(***************************************************************************)
(* The alert-evidence capability, from the user's words to the verdict:    *)
(* trusted slots (planning/prometheus/slots.py, slot_verification.py),     *)
(* parameters (params.py), the two-step plan (compiler.py), the guard of   *)
(* its PromQL (governance/promqlguard.py), the evidence builders           *)
(* (evidence/prometheus_alert.py) and the verdict                          *)
(* (reflection/prometheus_alert.py).                                       *)
(*                                                                         *)
(* A text of the user is what the slot patterns find in it, and its whole. *)
(* A host is one spelling of a name or an address.  Time counts half       *)
(* minutes; the step of a range query is a minute.                         *)
(***************************************************************************)
EXTENDS Integers, Sequences, FiniteSets, SequencesExt

Minute == 2
MAX_PROMQL_WINDOW_MINUTES == 3
MAX_SERIES == 2
MAX_POINTS_PER_SERIES == 4
DEFAULT_WINDOW_MINUTES == 2
ALERT_LIMIT == 2
None == "none"
Invalid == "invalid"

CPU_PERCENT_V1 == "cpu_percent"
INSTANCE_UP_V1 == "instance_up"
ALERT_NAMES == {"HostHighCpu", "InstanceDown"}
PROMQL_SURFACE ==
    [allowed_template_ids |-> {CPU_PERCENT_V1, INSTANCE_UP_V1}, max_window_minutes |-> MAX_PROMQL_WINDOW_MINUTES,
     max_series |-> MAX_SERIES, max_points_per_series |-> MAX_POINTS_PER_SERIES]
template_for_alert(name) == IF name = "HostHighCpu" THEN CPU_PERCENT_V1 ELSE INSTANCE_UP_V1
metric_name_for_template(template) == IF template = CPU_PERCENT_V1 THEN "node_cpu_percent" ELSE "up"

-----------------------------------------------------------------------------
\* Parameters.

\* Spellings of a host, and what each becomes.
_hostname(host) ==
    CASE host \in {"db1", "DB1", "db1."} -> "db1"
      [] host \in {"10.0.0.1", "10.0.0.1."} -> "10.0.0.1"
      [] OTHER -> Invalid
_port(port) == CASE port \in {"80", "080"} -> "80" [] port = None -> None [] OTHER -> Invalid
Instance(host, port) == [host |-> host, port |-> port]
NoInstance == Instance(None, None)
BadInstance == Instance(Invalid, None)

\* An address of the sixth version must stand in brackets.
_instance(raw) ==
    LET host == IF raw.host \in {"[::1]", "[0:0::1]"} THEN "[::1]" ELSE _hostname(raw.host)
        port == _port(raw.port)
    IN IF host = Invalid \/ port = Invalid THEN BadInstance ELSE Instance(host, port)

Points(params) == (params.window_end - params.window_start) \div Minute + 1

\* PrometheusAlertParams with its validator, which also writes the instance in
\* its one spelling; the budgets are fixed.
ValidParams(params) ==
    /\ params.alert_name \in ALERT_NAMES
    /\ _instance(params.instance) # BadInstance
    /\ params.fingerprint \in {None, "f1", "f2"}
    /\ params.window_end > params.window_start
    /\ params.window_end - params.window_start <= MAX_PROMQL_WINDOW_MINUTES * Minute
    /\ Points(params) <= MAX_POINTS_PER_SERIES

from_typed_arguments(arguments) == [arguments EXCEPT !.instance = _instance(@)]

normalise_window(as_of, minutes) ==
    LET end == Minute * (as_of \div Minute) IN [from |-> end - minutes * Minute, to |-> end]
NoWindow == [from |-> 0, to |-> 0]

-----------------------------------------------------------------------------
\* Slots: a confirmed snapshot has NoWindow, NoInstance or None for a field it
\* does not hold, as a text has for a field no pattern finds.

_REQUIRED_FIELDS == {"alert_name", "instance"}
NoSlots == [alert_name |-> None, instance |-> NoInstance, fingerprint |-> None, window |-> NoWindow]

\* The only field missing is answered by the whole text, unless a pattern found it.
_single_missing_text_slot(text, missing) ==
    [text EXCEPT !.alert_name = IF missing = {"alert_name"} /\ @ = None THEN text.whole.name ELSE @,
                 !.instance = IF missing = {"instance"} /\ @ = NoInstance THEN text.whole.instance ELSE @,
                 !.fingerprint = IF missing = {"fingerprint"} /\ @ = None THEN text.whole.fingerprint ELSE @]

\* _canonical_text of each field found; a window of no minutes or too many is refused.
_current_user_candidates(text, as_of) ==
    [valid |-> /\ text.alert_name \in ALERT_NAMES \cup {None}
               /\ text.instance = NoInstance \/ _instance(text.instance) # BadInstance
               /\ text.fingerprint \in {None, "f1", "f2"}
               /\ text.minutes \in -1 .. MAX_PROMQL_WINDOW_MINUTES /\ text.minutes # 0,
     alert_name |-> text.alert_name,
     instance |-> IF text.instance = NoInstance THEN NoInstance ELSE _instance(text.instance),
     fingerprint |-> text.fingerprint,
     window |-> IF text.minutes = -1 THEN NoWindow ELSE normalise_window(as_of, text.minutes)]

\* Fault: what the parent task confirmed stands.
merge_confirmed_slots_ParentWins(parent, current) ==
    [f \in DOMAIN NoSlots |-> IF parent[f] = NoSlots[f] THEN current[f] ELSE parent[f]]

\* What the text says now replaces what the parent task confirmed.
merge_confirmed_slots(parent, current) ==
    [f \in DOMAIN NoSlots |-> IF current[f] = NoSlots[f] THEN parent[f] ELSE current[f]]

_params_from_confirmed_slots(confirmed, as_of) ==
    LET window == IF confirmed.window = NoWindow THEN normalise_window(as_of, DEFAULT_WINDOW_MINUTES)
                  ELSE confirmed.window
    IN [alert_name |-> confirmed.alert_name, instance |-> _instance(confirmed.instance),
        fingerprint |-> confirmed.fingerprint, window_start |-> window.from, window_end |-> window.to]

NoParams == [alert_name |-> None, instance |-> NoInstance, fingerprint |-> None, window_start |-> 0, window_end |-> 0]
Refused == [kind |-> "invalid", missing |-> {}, confirmed |-> NoSlots, params |-> NoParams]

\* clarification: the parent's missing fields and confirmed slots.
verify_prometheus_alert_slots(text, as_of, clarification, sql_artifact) ==
    LET found == _single_missing_text_slot(text, clarification.missing)
        current == _current_user_candidates(found, as_of)
        confirmed == merge_confirmed_slots(clarification.confirmed, current)
        missing == {f \in _REQUIRED_FIELDS : confirmed[f] = NoSlots[f]}
        params == _params_from_confirmed_slots(confirmed, as_of)
    IN CASE sql_artifact \/ ~current.valid -> Refused
         [] ~sql_artifact /\ current.valid /\ missing # {} ->
              [kind |-> "incomplete", missing |-> missing, confirmed |-> confirmed, params |-> NoParams]
         [] ~sql_artifact /\ current.valid /\ missing = {} ->
              IF ValidParams(params)
              THEN [kind |-> "ready", missing |-> {}, confirmed |-> confirmed, params |-> params]
              ELSE Refused

-----------------------------------------------------------------------------
\* The plan and its guard.

resolve_prometheus_alert_target(env, params) ==
    [environment |-> env, alert |-> params.alert_name, instance |-> params.instance]

compile_promql(template, params) ==
    IF /\ template \in PROMQL_SURFACE.allowed_template_ids
       /\ template_for_alert(params.alert_name) = template
       /\ params.window_end - params.window_start <= PROMQL_SURFACE.max_window_minutes * Minute
       /\ MAX_SERIES <= PROMQL_SURFACE.max_series
       /\ Points(params) <= PROMQL_SURFACE.max_points_per_series
    THEN [template |-> template, instance |-> params.instance]
    ELSE [template |-> Invalid, instance |-> BadInstance]

_alert_arguments(params) ==
    [alert_name |-> params.alert_name, instance |-> params.instance, fingerprint |-> params.fingerprint,
     limit |-> ALERT_LIMIT]

\* The metric step carries no fingerprint.
_metric_arguments(params) ==
    LET template == template_for_alert(params.alert_name) IN
    [promql |-> compile_promql(template, params), promql_template_id |-> template,
     params |-> [params EXCEPT !.fingerprint = None]]

compile_alert_plan(params) ==
    [alerts |-> _alert_arguments(params), metric |-> _metric_arguments(params)]

\* The text is the one its own arguments compile to.
verify_promql(promql, template, arguments) ==
    IF template \notin PROMQL_SURFACE.allowed_template_ids THEN "UNKNOWN_TEMPLATE"
    ELSE IF ~ValidParams(arguments) \/ compile_promql(template, from_typed_arguments(arguments)).template = Invalid
    THEN "INVALID_ARGUMENTS"
    ELSE IF promql # compile_promql(template, from_typed_arguments(arguments)) THEN "RECOMPILE_MISMATCH" ELSE None

\* The parameters a plan stands for, read from both steps; None in alert_name
\* when the steps disagree.
_params_from_plan(plan) ==
    IF /\ plan.alerts.alert_name = plan.metric.params.alert_name
       /\ plan.alerts.instance = _instance(plan.metric.params.instance)
    THEN [from_typed_arguments(plan.metric.params) EXCEPT !.fingerprint = plan.alerts.fingerprint]
    ELSE NoParams
project_prometheus_alert_confirmed_slots(plan, target) ==
    LET params == _params_from_plan(plan)
    IN IF target.alert # params.alert_name \/ target.instance # params.instance THEN NoSlots
       ELSE [alert_name |-> params.alert_name, instance |-> params.instance, fingerprint |-> params.fingerprint,
             window |-> [from |-> params.window_start, to |-> params.window_end]]
require_confirmed_projection(confirmed, projected) ==
    \A f \in DOMAIN NoSlots : confirmed[f] # NoSlots[f] => projected[f] = confirmed[f]

-----------------------------------------------------------------------------
\* Evidence.

\* A refused result gives no evidence; facts are a set.
Evidence(built, facts, sampled) == [built |-> built, facts |-> facts, sampled |-> sampled]
Absent == Evidence(FALSE, {}, FALSE)

_alert_fact(row, expected) ==
    /\ row.alert_name = expected.alert_name /\ row.instance = expected.instance
    /\ expected.fingerprint \in {None, row.fingerprint}
build_alert_evidence(rows, expected) ==
    IF /\ Len(rows) <= expected.limit
       /\ \A i \in DOMAIN rows : _alert_fact(rows[i], expected)
       /\ \A i, j \in DOMAIN rows : i # j => rows[i].fingerprint # rows[j].fingerprint
    THEN Evidence(TRUE, Range(rows), Len(rows) = expected.limit) ELSE Absent

\* The rows of a series, in their order; they must go up in time.
SeriesOf(rows, key) == {i \in DOMAIN rows : rows[i].series_key = key}
Summary(rows, series) ==
    LET values == {rows[i].value : i \in series}
        first == rows[Min(series)].value
        latest == rows[Max(series)].value
    IN [point_count |-> Cardinality(series), first |-> first, latest |-> latest,
        min |-> Min(values), max |-> Max(values),
        trend |-> IF latest > first THEN "rising" ELSE IF latest < first THEN "falling" ELSE "flat"]
build_metric_evidence(rows, params, template) ==
    LET keys == {rows[i].series_key : i \in DOMAIN rows}
        ordered(series) == \A i, j \in series : i < j => rows[i].at < rows[j].at
    IN IF /\ \A i \in DOMAIN rows : /\ rows[i].metric_name = metric_name_for_template(template)
                                    /\ rows[i].instance = params.instance
                                    /\ rows[i].at \in params.window_start .. params.window_end
          /\ \A key \in keys : /\ ordered(SeriesOf(rows, key))
                               /\ Cardinality(SeriesOf(rows, key)) <= MAX_POINTS_PER_SERIES
          /\ Cardinality(keys) <= MAX_SERIES
       THEN Evidence(TRUE, {Summary(rows, SeriesOf(rows, key)) : key \in keys},
                     \/ Cardinality(keys) = MAX_SERIES
                     \/ \E key \in keys : Cardinality(SeriesOf(rows, key)) = MAX_POINTS_PER_SERIES)
       ELSE Absent

\* Each step's rows are judged by that step's own arguments.
_build_prometheus_alert_evidence(plan, operation, rows) ==
    IF operation = "get_active_alerts"
    THEN IF plan.alerts.limit = ALERT_LIMIT THEN build_alert_evidence(rows, plan.alerts) ELSE Absent
    ELSE build_metric_evidence(rows, from_typed_arguments(plan.metric.params), plan.metric.promql_template_id)

\* A verdict names the first thing missing.
assess_prometheus_alert(alerts, metrics) ==
    LET missing == CASE ~alerts.built -> "active_alert"
                     [] alerts.built /\ Cardinality(alerts.facts) > 1 -> "fingerprint"
                     [] alerts.built /\ alerts.facts = {} -> "active_alert"
                     [] alerts.built /\ Cardinality(alerts.facts) = 1 ->
                          IF metrics.built /\ metrics.facts # {} THEN None ELSE "metric_series"
    IN [sufficient |-> missing = None, missing |-> missing]

-----------------------------------------------------------------------------
(***************************************************************************)
(* The inputs and what is asked of them.                                   *)
(***************************************************************************)

Whole(name, instance) == [name |-> name, instance |-> instance, fingerprint |-> Invalid]
Texts(minutes, wholes) ==
    [alert_name : {None, "HostHighCpu"},
     instance : {NoInstance, Instance("DB1", "080"), Instance("10.0.0.1.", None), Instance("[0:0::1]", None),
                 Instance("::1", None), Instance("db1", "0")},
     fingerprint : {None, "f1"}, minutes : minutes, whole : wholes]
\* Two texts of one conversation, the second sent when the first left something missing.
Talks ==
    [first : Texts({-1, 0, 1, 3, 4}, {Whole(Invalid, BadInstance)}), first_at : {8, 9},
     second : Texts({-1, 2}, {Whole(Invalid, BadInstance), Whole("InstanceDown", BadInstance),
                              Whole(Invalid, Instance("db1.", None))})]
SecondAt == 13

\* What a confirmed plan does is what was said: each field is the last spelling given
\* for it, in canonical form, the window the one confirmed in its own round or the
\* default of the last; the plan compiles at every window the user may ask for, its
\* own guard admits it and no other query under its arguments, and the disclosure read
\* back from the plan covers everything confirmed.
AlertPlansSayWhatWasAsked(talk) ==
    LET Fresh == [missing |-> {}, confirmed |-> NoSlots]
        one == verify_prometheus_alert_slots(talk.first, talk.first_at, Fresh, FALSE)
        asks == one.kind = "incomplete"
        last == IF asks THEN verify_prometheus_alert_slots(talk.second, SecondAt, one, FALSE) ELSE one
        plan == compile_alert_plan(last.params)
        target == resolve_prometheus_alert_target("dev", last.params)
        Said(f) == IF asks THEN {talk.first[f], talk.second[f]} ELSE {talk.first[f]}
        ends == IF asks /\ (talk.second.minutes # -1 \/ talk.first.minutes = -1) THEN SecondAt ELSE talk.first_at
        asked == IF asks /\ talk.second.minutes # -1 THEN talk.second.minutes
                 ELSE IF talk.first.minutes # -1 THEN talk.first.minutes ELSE DEFAULT_WINDOW_MINUTES
    IN /\ last.kind = "ready" =>
            /\ last.params.window_end \in ends - Minute + 1 .. ends
            /\ last.params.window_end - last.params.window_start = asked * Minute
            /\ asks /\ talk.second.instance # NoInstance => last.params.instance = _instance(talk.second.instance)
            /\ Said("instance") # {NoInstance} =>
                 last.params.instance \in {_instance(i) : i \in Said("instance")}
            /\ last.params.fingerprint = IF Said("fingerprint") = {None} THEN None ELSE "f1"
            /\ verify_promql(plan.metric.promql, plan.metric.promql_template_id, plan.metric.params) = None
            /\ \A template \in PROMQL_SURFACE.allowed_template_ids,
                  i \in {Instance("db1", None), Instance("10.0.0.1", None)} :
                 LET other == [template |-> template, instance |-> i] IN
                 other # plan.metric.promql =>
                     verify_promql(other, plan.metric.promql_template_id, plan.metric.params) # None
            /\ require_confirmed_projection(
                  last.confirmed, project_prometheus_alert_confirmed_slots(plan, target))
       /\ last.kind = "incomplete" =>
            \A f \in {"alert_name", "fingerprint"} : Said(f) # {None} => last.confirmed[f] # None

\* Answers of the two providers to one plan.
AlertRow(instance, fingerprint) ==
    [alert_name |-> "InstanceDown", instance |-> instance, fingerprint |-> fingerprint]
Point(series, instance, at, value) ==
    [series_key |-> series, metric_name |-> "up", instance |-> instance, at |-> at, value |-> value]
Here == Instance("db1", None)
There == Instance("10.0.0.1", None)
Answers ==
    [fingerprint : {None, "f1"}, minutes : 1 .. MAX_PROMQL_WINDOW_MINUTES,
     alerts : SeqOf({AlertRow(Here, "f1"), AlertRow(Here, "f2"), AlertRow(There, "f1")}, ALERT_LIMIT + 1),
     points : SeqOf({Point("a", Here, 2, 1), Point("a", Here, 4, 0), Point("b", Here, 6, 2),
                     Point("a", There, 6, 1)}, 2)
              \cup {[k \in 1 .. n |-> Point("a", Here, 2 * (k - 1), 3 - k)] : n \in 3 .. MAX_POINTS_PER_SERIES + 1}]

\* A verdict is sufficient exactly when one alert of the filter is active and a series of
\* its instance has points in the window; a whole window of points is never refused, and
\* rows of another instance or fingerprint, or out of order, leave no evidence.
AlertVerdictsAreBacked(answer) ==
    LET params == [alert_name |-> "InstanceDown", instance |-> Here, fingerprint |-> answer.fingerprint,
                   window_start |-> 6 - answer.minutes * Minute, window_end |-> 6]
        plan == compile_alert_plan(params)
        alerts == _build_prometheus_alert_evidence(plan, "get_active_alerts", answer.alerts)
        metrics == _build_prometheus_alert_evidence(plan, "query_metric_range", answer.points)
        verdict == assess_prometheus_alert(alerts, metrics)
        Inside == {i \in DOMAIN answer.points : answer.points[i].at \in params.window_start .. params.window_end}
    IN /\ verdict.sufficient =>
            /\ Len(answer.alerts) = 1 /\ answer.alerts[1].instance = Here
            /\ answer.fingerprint \in {None, answer.alerts[1].fingerprint}
            /\ answer.points # <<>> /\ Inside = DOMAIN answer.points
            /\ \A i \in DOMAIN answer.points : answer.points[i].instance = Here
       /\ answer.points # <<>> /\ Inside = DOMAIN answer.points
            /\ (\A i, j \in DOMAIN answer.points : i < j => answer.points[i].at < answer.points[j].at)
            /\ (\A i \in DOMAIN answer.points : answer.points[i].instance = Here)
          => metrics.built /\ (\A fact \in metrics.facts : fact.min <= fact.first /\ fact.latest <= fact.max)
       /\ verdict.missing = "fingerprint" => answer.fingerprint = None
=============================================================================
