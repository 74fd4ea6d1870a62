----------------------------- MODULE PlanInputs -----------------------------
(***************************************************************************)
(* The compiler, guard and evidence of the two read-only capabilities over *)
(* the inputs their modules name: a request for slow queries, the talk     *)
(* that confirms an alert investigation, the providers' answers to its     *)
(* plan.  kind says which the input is; an input is looked at once.        *)
(***************************************************************************)
Slow == INSTANCE SlowQuery
Alerts == INSTANCE AlertEvidence

VARIABLES kind, input

PlanInit ==
    \/ kind = "request" /\ input \in Slow!Requests
    \/ kind = "talk" /\ input \in Alerts!Talks
    \/ kind = "answer" /\ input \in Alerts!Answers

\* A plan asks for what the user confirmed and nothing else, its own guard admits it and
\* refuses every edit of it, the count and the list of slow queries look at the same rows,
\* and a verdict is sufficient only on one alert and points of its instance
\* (planning/starrocks, planning/prometheus, verify_sql, verify_promql, evidence).
PlansAskWhatWasConfirmed ==
    CASE kind = "request" -> Slow!CompiledPlansAreAdmitted(input)
      [] kind = "talk" -> Alerts!AlertPlansSayWhatWasAsked(input)
      [] kind = "answer" -> Alerts!AlertVerdictsAreBacked(input)
      [] OTHER -> TRUE
=============================================================================
