----------------------------- MODULE TaskStates -----------------------------
(***************************************************************************)
(* The task statuses, the state machine over them and the results of a     *)
(* step: the closed sets every other module shares.                        *)
(***************************************************************************)

TerminalStatuses == {"SUCCEEDED", "FAILED", "REJECTED", "CANCELED",
                     "INDETERMINATE", "CLARIFICATION_REQUIRED"}

\* Ends that project_task may show without a plan: a rejection before there was
\* one, a conversation, a question.
BareStatuses == {"REJECTED", "SUCCEEDED", "CLARIFICATION_REQUIRED"}

Statuses == TerminalStatuses \cup
            {"CREATED", "PLANNING", "RUNNING", "AWAITING_APPROVAL"}

AllowedTransitions(from) ==
    CASE from = "CREATED" ->
            {"PLANNING", "CANCELED", "FAILED", "REJECTED", "CLARIFICATION_REQUIRED"}
      [] from = "PLANNING" ->
            {"RUNNING", "FAILED", "CANCELED", "REJECTED", "CLARIFICATION_REQUIRED"}
      [] from = "RUNNING" ->
            {"AWAITING_APPROVAL", "SUCCEEDED", "FAILED", "CANCELED",
             "INDETERMINATE", "REJECTED"}
      [] from = "AWAITING_APPROVAL" ->
            {"RUNNING", "REJECTED", "CANCELED", "FAILED"}
      [] OTHER -> {}

DispatchStatuses == {"CREATED", "PLANNING", "RUNNING"}
ApprovalResumeStatuses == {"AWAITING_APPROVAL"}

ResultStatuses == {"OK", "FAILED", "TIMEOUT"}
=============================================================================
