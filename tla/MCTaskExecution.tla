-------------------------- MODULE MCTaskExecution --------------------------
(***************************************************************************)
(* TaskExecution with two workers.  "slow_query" is the plan of the        *)
(* slow-query capability: list the rows, count only if the list is empty.  *)
(* "change" lists and then meets a step that needs an approval; "denied"   *)
(* has a step the policy refuses.                                          *)
(***************************************************************************)
EXTENDS TaskExecution

MCClients == {"w1", "w2"}
MCOwnerOf == [w \in MCClients |-> w]
MCSteps == {"s1", "s2", "s3", "s4"}
MCPlans == {"slow_query", "change", "denied"}
MCStepSeq == [p \in MCPlans |->
                CASE p = "slow_query" -> <<"s1", "s2">>
                  [] p = "change" -> <<"s1", "s3">>
                  [] p = "denied" -> <<"s4">>]
MCStepsOf == [p \in MCPlans |-> Range(MCStepSeq[p])]
MCPayloads == {"rows", "empty"}
MCDrafts == {"respond", "clarify", "reject"} \cup MCPlans
MCAdvisories == {"a1", "a2"}
MCReasons == Reasons
Always == [kind |-> "ALWAYS", ref |-> "s1", expected |-> "none"]
MCConditionOf ==
    [s \in MCSteps |->
        CASE s = "s2" -> [Always EXCEPT !.kind = "EVIDENCE_ROW_COUNT_BELOW"]
          [] s = "s3" -> [Always EXCEPT !.kind = "PRIOR_STEP_RESULT_IS",
                                        !.expected = "OK"]
          [] OTHER -> Always]
MCAdmissionOf == [s \in MCSteps |-> CASE s = "s3" -> "approval"
                                      [] s = "s4" -> "deny"
                                      [] OTHER -> "admit"]
SameClocks == [w \in MCClients |-> 0]
FastClock == [w \in MCClients |-> IF w = "w1" THEN 0 ELSE 1]
=============================================================================
