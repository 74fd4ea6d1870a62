---------------------------- MODULE GrantedFacts ----------------------------
(***************************************************************************)
(* The facts a task attempt writes next to the task row: the accepted      *)
(* interaction (the draft the router decides on), the model's advisory and *)
(* the clarification record.  Each is one row per task, inserted once, in  *)
(* a transaction that locks the task row and checks the attempt's grant.   *)
(***************************************************************************)
EXTENDS TaskStore

CONSTANTS
    Drafts,         \* what an interaction may be accepted as
    Advisories      \* what the advisory model may answer

NoFact == "NoFact"

ASSUME FactAssumption == NoFact \notin Drafts \cup Advisories

VARIABLES
    interaction,    \* task_interaction_artifacts
    advisory,       \* task_model_advisories
    clarification   \* task_clarification_records: TRUE once there is a row

factVars == <<interaction, advisory, clarification>>

FactTypeOK ==
    /\ interaction \in Drafts \cup {NoFact}
    /\ advisory \in Advisories \cup {NoFact}
    /\ clarification \in BOOLEAN

FactInit ==
    /\ interaction = NoFact
    /\ advisory = NoFact
    /\ clarification = FALSE

\* require_model_artifact_grant and require_clarification_record_grant: only a
\* lost lease or a stale token is the loss of a grant; a terminal or otherwise
\* disallowed status is reported as a state error, whoever holds the grant.
FactGrant(c, now, allowed) ==
    LET rejection == GrantIsCurrent(c, now, allowed)
    IN  IF rejection \in {"LEASE_NOT_HELD", "STALE_FENCING"} THEN "GRANT_LOST"
        ELSE IF rejection # "CURRENT" THEN "STATE"
        ELSE "ALLOWED"

\* Insert once; the same candidate again is the stored row, another conflicts.
FactDecision(c, now, allowed, stored, candidate) ==
    IF FactGrant(c, now, allowed) # "ALLOWED" THEN FactGrant(c, now, allowed)
    ELSE IF stored \in {NoFact, candidate} THEN "SAVED"
    ELSE "CONFLICT"

InteractionDecision(c, draft, now) ==
    FactDecision(c, now, DispatchStatuses, interaction, draft)

SaveInteraction(c, draft, now) ==
    /\ InteractionDecision(c, draft, now) = "SAVED"
    /\ interaction' = draft
    /\ UNCHANGED <<advisory, clarification>>

AdvisoryDecision(c, answer, now) ==
    FactDecision(c, now, {"RUNNING"}, advisory, answer)

SaveAdvisory(c, answer, now) ==
    /\ AdvisoryDecision(c, answer, now) = "SAVED"
    /\ advisory' = answer
    /\ UNCHANGED <<interaction, clarification>>

\* The candidate follows from the accepted draft, so a second save of the same
\* task never carries another candidate.
SaveClarification(c, now) ==
    /\ FactGrant(c, now, DispatchStatuses) = "ALLOWED"
    /\ clarification' = TRUE
    /\ UNCHANGED <<interaction, advisory>>
=============================================================================
