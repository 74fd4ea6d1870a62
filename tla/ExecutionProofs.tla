-------------------------- MODULE ExecutionProofs --------------------------
(***************************************************************************)
(* What a worker may rely on between two awaits, for any number of         *)
(* workers, plans and steps, any clocks and any bounds: proofs about every *)
(* behaviour of ExeSpec.  That each step of the execution is a step of the *)
(* store is proved along with the invariant, so that what TaskStoreProofs  *)
(* shows of the store holds of the workers.                                *)
(***************************************************************************)
EXTENDS TaskExecution, TaskStoreProofs, FiniteSetTheorems

-----------------------------------------------------------------------------
(***************************************************************************)
(* The inductive invariant.  A coroutine only knows what it read before    *)
(* its last await.  Three kinds of facts make that enough.                 *)
(*  - WorkerFits: what every coroutine may rely on, also one whose lease   *)
(*    is long lost: facts that are never taken back (the accepted draft,   *)
(*    the stored plan, a recorded request).                                *)
(*  - HolderFits: what only the attempt that owns the task may rely on:    *)
(*    the status, the version, the journal and the evidence it read are    *)
(*    still the stored ones, because nobody else can change them.          *)
(*  - The rest relates the stored rows to each other.                      *)
(* StepInFlight says that a token starts a step at most once, which is why *)
(* every call is charged.                                                  *)
(***************************************************************************)
StartPcs == {"renew_start", "start_journal", "save_plan", "start_get", "to_planning"}
ResumePcs == {"renew_resume", "resume_plan", "resume_get"}
CallPcs == {"invoke", "commit"}
PausePcs == {"approve", "pause_get", "to_awaiting"}
RunningPcs == {"load_steps", "step"} \cup CallPcs \cup PausePcs
PlannedPcs == StartPcs \cup ResumePcs \cup {"to_running"} \cup RunningPcs
EndPcs == {"finalize", "advise", "save_advisory", "final_get", "final"}
OpenPcs == {"get", "interact", "save_interaction", "save_clarification", "converse", "retry"}
           \cup PlannedPcs \cup EndPcs
Pcs == {"idle", "stopped_holder", "stopped_loser"} \cup OpenPcs

Answers == Advisories \cup {NoFact}
RunReasons == {"none", "recovery_drift", "budget.tool_calls_exhausted", "rejected"}
PlanOutcomes == {"REJECTED", "FAILED", "INDETERMINATE", "SUCCEEDED"}

Coroutine ==
    [pc : Pcs, status : Statuses \cup {"none"}, version : Nat,
     draft : Drafts \cup {NoFact}, index : Nat,
     results : [Steps -> ResultStatuses \cup {"none"}],
     result : ResultStatuses \cup {"none"}, payload : Payloads \cup {NoPayload},
     outcome : TerminalStatuses \cup {"none"}, reason : RunReasons, answer : Answers]

\* The step a coroutine is at, and whether it has one.
StepAt(l) == StepSeq[l.draft][l.index]
InSteps(l) == l.index \in 1 .. Len(StepSeq[l.draft])

\* The draft a coroutine acts on is the accepted one, and fits where it is.
DraftFits(l) ==
    /\ l.pc \in {"save_clarification", "converse"} \cup PlannedPcs \cup EndPcs =>
         l.draft = interaction
    /\ l.pc = "save_interaction" => l.draft \in Drafts
    /\ l.pc = "save_clarification" => l.draft = "clarify"
    /\ l.pc = "converse" => l.draft = "respond" /\ l.status \in DispatchStatuses
    /\ l.pc \in PlannedPcs => l.draft \in Plans
    /\ l.pc \in EndPcs => l.draft \in {"clarify", "reject"} \cup Plans

\* Past the plan store, the stored plan is the draft.
PlanFits(l) ==
    (\/ l.pc \in {"start_get", "to_planning", "resume_get", "to_running"} \cup RunningPcs
     \/ l.pc \in EndPcs /\ l.draft \in Plans /\ l.reason # "recovery_drift")
      => plan = l.draft

\* What an attempt that is about to end the task ends it with.
OutcomeFits(l) ==
    l.pc \in EndPcs =>
        /\ l.draft = "clarify" => l.outcome = "CLARIFICATION_REQUIRED" /\ clarification
        /\ l.draft = "reject" => l.outcome = "REJECTED"
        /\ l.draft \in Plans => l.outcome \in PlanOutcomes
        /\ l.pc \in {"advise", "save_advisory"} => l.outcome = "SUCCEEDED"
        /\ l.pc = "save_advisory" => l.answer \in Advisories

StepFits(l) ==
    /\ l.pc = "step" => l.index > 0
    /\ l.pc \in CallPcs => InSteps(l)
    /\ l.pc = "commit" => /\ l.result \in ResultStatuses
                          /\ l.payload = NoPayload => l.result = "FAILED"
    /\ l.pc \in {"pause_get", "to_awaiting"} => approvals > 0

WorkerFits(w, l) ==
    /\ l \in Coroutine /\ l.pc # "stopped_holder" /\ l.version <= task.version
    /\ l.pc \in OpenPcs => HoldsGrant(w)
    /\ DraftFits(l) /\ PlanFits(l) /\ OutcomeFits(l) /\ StepFits(l)

\* The owner's view of the status and the version.
StatusKnown(l) ==
    /\ task.status \in DispatchStatuses
    /\ l.pc \in {"interact", "save_interaction", "converse"} =>
         l.status = task.status /\ l.version = task.version
    /\ l.pc \in {"to_planning", "to_running", "to_awaiting", "final"} =>
         l.version = task.version
    /\ l.pc \in StartPcs => task.status = "CREATED"
    /\ l.pc \in ResumePcs => task.status \in {"PLANNING", "RUNNING"}
    /\ l.pc = "to_running" => task.status = "PLANNING"
    /\ l.pc \in RunningPcs => task.status = "RUNNING"
    /\ l.pc \in EndPcs /\ l.draft \in Plans => task.status = "RUNNING"

\* The owner's view of the rows it inserts once.
RowsKnown(l) ==
    /\ l.reason # "recovery_drift"
    /\ l.pc = "save_interaction" => interaction = NoFact
    /\ l.pc \in {"advise", "save_advisory"} => advisory = NoFact

StepInFlight(w, l) ==
    /\ l.pc \in CallPcs =>
         /\ journal[StepAt(l)].last_fencing_token = task.fencing_token
         /\ journal[StepAt(l)].result_status = "none"
    /\ \A s \in Steps :
         (/\ journal[s].last_fencing_token = task.fencing_token
          /\ journal[s].result_status = "none")
            => l.pc = "retry" \/ (l.pc \in CallPcs /\ StepAt(l) = s)

\* The owner's view of the step results, and what it concluded from them.
NoStepFailed == \A s \in Steps : journal[s].result_status \notin {"FAILED", "TIMEOUT"}

ResultsKnown(l) ==
    /\ l.pc \in {"step"} \cup CallPcs =>
         \A s \in Steps : l.results[s] = journal[s].result_status
    /\ l.pc \in EndPcs /\ l.outcome = "SUCCEEDED" =>
         NoStepFailed /\ (l.pc # "finalize" => Sufficient)

Owns(w, l) == l.pc \in OpenPcs /\ Holder(w)

HolderFits(w, l) ==
    Owns(w, l) =>
        StatusKnown(l) /\ RowsKnown(l) /\ StepInFlight(w, l) /\ ResultsKnown(l)

\* The stored rows.
DraftMovesTask ==
    /\ interaction \in {NoFact, "clarify", "reject"} =>
         task.status \in {"CREATED"} \cup TerminalStatuses
    /\ (interaction \in Plans /\ task.status \in {"PLANNING", "RUNNING", "AWAITING_APPROVAL"})
         => plan = interaction

StepsBelongToPlan ==
    \A s \in Steps :
        /\ journal[s].attempt_count > 0 \/ evidence[s] # NoPayload => plan # NoPlan
        /\ journal[s].result_status = "OK" => evidence[s] # NoPayload

ReasonsFit ==
    /\ task.status \notin TerminalStatuses =>
         task.terminal_reason = "none" /\ audit["reflection"] = 0
    /\ task.terminal_reason = "conversation" => interaction = "respond"
    /\ (task.status = "SUCCEEDED" /\ task.terminal_reason # "conversation") =>
         Sufficient /\ NoStepFailed
    /\ (task.status \in TerminalStatuses /\ ~StoreTerminalized) =>
         \/ plan # NoPlan \/ task.status = "CLARIFICATION_REQUIRED"
         \/ task.status = "REJECTED" /\ interaction = "reject"
         \/ task.status = "SUCCEEDED" /\ task.terminal_reason = "conversation"

RowsFit ==
    /\ FactTypeOK /\ sequence <= MaxToken /\ task.retry_command_digest \in {0, 1}
    /\ NoRecoveryDrift /\ PlanIsAccepted /\ DraftMovesTask /\ StepsBelongToPlan
    /\ ConditionalStepJustified /\ WaitingIsBacked /\ ReflectionAccounts /\ ReasonsFit

\* Calls made and calls that are charged but not made yet.
Pending(s) == {w \in Clients : At(w, "invoke") /\ StepAt(local[w]) = s}

CallsCharged ==
    /\ calls \in [Steps -> Nat]
    /\ \A s \in Steps : calls[s] + Cardinality(Pending(s)) <= journal[s].attempt_count

Bounded == abandons \in 0 .. MaxAbandons /\ stalls \in 0 .. MaxStalls

ExeInv ==
    /\ StoreInv
    /\ local \in [Clients -> Coroutine]
    /\ \A w \in Clients : WorkerFits(w, local[w]) /\ HolderFits(w, local[w])
    /\ RowsFit /\ CallsCharged /\ Bounded

-----------------------------------------------------------------------------
\* The parts of the invariant, and what it says of one coroutine.
LEMMA ExeParts ==
    ASSUME ExeInv
    PROVE  StoreInv /\ TypeOK /\ TokensOrdered /\ RowsFit /\ CallsCharged /\ Bounded
BY DEF ExeInv, StoreInv

LEMMA CoroutineFits ==
    ASSUME ExeInv, NEW w \in Clients
    PROVE  /\ local \in [Clients -> Coroutine] /\ local[w] \in Coroutine
           /\ WorkerFits(w, local[w]) /\ HolderFits(w, local[w])
           /\ ClockOf[w] \in Readings
           /\ grant[w].fencing_token \in Nat /\ grant[w].attempt_number \in Nat
           /\ HoldsGrant(w) => grant[w].fencing_token > 0
<1>1. TypeOK /\ TokensOrdered
  BY DEF ExeInv, StoreInv
<1>2. QED
  BY <1>1, GrantFields, ExecutionAssumption DEF ExeInv, TokensOrdered

LEMMA IdleIsACoroutine == Idle \in Coroutine
BY DEF Idle, Coroutine, Pcs, OpenPcs, RunReasons, Answers

LEMMA StoppedIsACoroutine ==
    ASSUME NEW w
    PROVE  Stopped(w) \in Coroutine
BY IdleIsACoroutine DEF Stopped, Idle, Coroutine, Pcs

\* A coroutine that does nothing fits every state, and so does one that
\* stopped without owning the task.
LEMMA IdleFits ==
    ASSUME NEW w, NEW l \in Coroutine, l.version = 0,
           l.pc \in {"idle", "stopped_loser"}, TypeOK
    PROVE  WorkerFits(w, l) /\ HolderFits(w, l)
<1>1. task.version \in Nat
  BY TaskFields
<1>2. WorkerFits(w, l)
  BY <1>1 DEF WorkerFits, OpenPcs, DraftFits, PlanFits, OutcomeFits, StepFits,
     PlannedPcs, StartPcs, ResumePcs, RunningPcs, CallPcs, PausePcs, EndPcs
<1>3. l.pc \notin OpenPcs
  BY DEF OpenPcs, PlannedPcs, StartPcs, ResumePcs, RunningPcs, CallPcs, PausePcs, EndPcs
<1>4. QED
  BY <1>2, <1>3 DEF HolderFits, Owns

LEMMA IdleAlways ==
    ASSUME NEW w, TypeOK
    PROVE  WorkerFits(w, Idle) /\ HolderFits(w, Idle) /\ Idle.pc = "idle"
<1>1. Idle.version = 0 /\ Idle.pc = "idle"
  BY DEF Idle
<1>2. QED
  BY <1>1, IdleFits, IdleIsACoroutine

LEMMA StoppedFits ==
    ASSUME NEW w, TypeOK, ~Holder(w)
    PROVE  WorkerFits(w, Stopped(w)) /\ HolderFits(w, Stopped(w))
           /\ Stopped(w).pc = "stopped_loser"
<1>1. Stopped(w).version = 0 /\ Stopped(w).pc = "stopped_loser"
  BY DEF Idle, Stopped
<1>2. QED
  BY <1>1, IdleFits, StoppedIsACoroutine

\* Whoever the store lets write under a grant owns the task.
LEMMA CurrentIsHolder ==
    ASSUME NEW w \in Clients, HoldsGrant(w), NEW now, NEW allowed,
           GrantIsCurrent(w, now, allowed) = "CURRENT"
    PROVE  Holder(w) /\ task.status \in allowed
BY CurrentGrant DEF Holder, CurrentAttempt

\* Only one coroutine owns the task.
LEMMA OneHolder ==
    ASSUME StoreInv, NEW w \in Clients, NEW d \in Clients, Holder(w), Holder(d)
    PROVE  w = d
BY SoleHolderHolds DEF SoleHolder, Holder, CurrentAttempt

-----------------------------------------------------------------------------
(***************************************************************************)
(* A step of one coroutine: what it leaves to the others.  Rows that are   *)
(* written once are only added, and whoever still owns the task afterwards *)
(* finds everything it read unchanged.                                     *)
(***************************************************************************)
Kept(w) ==
    /\ interaction' = interaction \/ interaction = NoFact
    /\ plan' = plan \/ plan = NoPlan
    /\ clarification => clarification'
    /\ approvals' >= approvals /\ task'.version >= task.version
    /\ \A d \in Clients \ {w} :
         /\ grant'[d] = grant[d]
         /\ Holder(d)' =>
              UNCHANGED <<task.status, task.version, task.fencing_token,
                          journal, evidence, interaction, advisory>>

LEMMA OthersFit ==
    ASSUME ExeInv, NEW w \in Clients, NEW d \in Clients, d # w, TypeOK',
           Kept(w), local'[d] = local[d]
    PROVE  WorkerFits(d, local[d])' /\ HolderFits(d, local[d])'
<1>1. PICK l : l = local[d] /\ l = local'[d]
  OBVIOUS
<1>2. WorkerFits(d, l) /\ HolderFits(d, l) /\ l \in Coroutine
  BY <1>1, CoroutineFits
<1>f. /\ NoFact \notin Drafts /\ NoPlan \notin Plans /\ Plans \subseteq Drafts
      /\ {"respond", "clarify", "reject"} \subseteq Drafts
  BY FactAssumption, StoreAssumption, ExecutionAssumption
<1>v. /\ task.version \in Nat /\ task'.version \in Nat /\ l.version \in Nat
      /\ approvals \in Nat /\ approvals' \in Nat
  BY <1>2, ExeParts, TaskFields DEF TypeOK, TaskRecord, Coroutine
<1>3. DraftFits(l)'
  <2>1. l.draft = interaction /\ l.draft \in Drafts => interaction' = interaction
    BY <1>f DEF Kept
  <2>2. QED
    BY <1>2, <1>f, <2>1 DEF WorkerFits, DraftFits
<1>4. PlanFits(l)'
  <2>1. l.pc \in PlannedPcs => l.draft \in Plans
    BY <1>2 DEF WorkerFits, DraftFits
  <2>2. plan \in Plans => plan' = plan
    BY <1>f DEF Kept
  <2>3. QED
    BY <1>2, <2>1, <2>2 DEF WorkerFits, PlanFits, PlannedPcs, StartPcs, ResumePcs
<1>5. OutcomeFits(l)' /\ StepFits(l)'
  BY <1>2, <1>v DEF WorkerFits, OutcomeFits, StepFits, Kept, InSteps
<1>6. WorkerFits(d, l)'
  BY <1>2, <1>3, <1>4, <1>5, <1>v DEF WorkerFits, Kept, HoldsGrant
<1>7. HolderFits(d, l)'
  <2>1. SUFFICES ASSUME Owns(d, l)' PROVE (StatusKnown(l) /\ RowsKnown(l)
                     /\ StepInFlight(d, l) /\ ResultsKnown(l))'
    BY DEF HolderFits
  <2>2. UNCHANGED <<task.status, task.version, task.fencing_token,
                    journal, evidence, interaction, advisory>> /\ grant'[d] = grant[d]
    BY <2>1 DEF Owns, Kept
  <2>3. Owns(d, l)
    BY <2>1, <2>2 DEF Owns, Holder, CurrentAttempt, HoldsGrant
  <2>4. StatusKnown(l) /\ RowsKnown(l) /\ StepInFlight(d, l) /\ ResultsKnown(l)
    BY <1>2, <2>3 DEF HolderFits
  <2>5. QED
    BY <2>2, <2>4 DEF StatusKnown, RowsKnown, StepInFlight, ResultsKnown, NoStepFailed,
       Sufficient, StepAt
<1>8. QED
  BY <1>1, <1>6, <1>7

\* A step of w: what is left to show is that w itself and the rows fit.
LEMMA StepKeeps ==
    ASSUME ExeInv, NEW w \in Clients, NEW l, local' = [local EXCEPT ![w] = l],
           [Next]_vars, Kept(w), WorkerFits(w, l)', HolderFits(w, l)',
           RowsFit', CallsCharged', Bounded'
    PROVE  ExeInv'
<1>1. StoreInv' /\ TypeOK'
  BY ExeParts, NextStoreInv DEF StoreInv
<1>2. local \in [Clients -> Coroutine] /\ l \in Coroutine
  BY DEF ExeInv, WorkerFits
<1>3. local' \in [Clients -> Coroutine] /\ local'[w] = l
      /\ \A d \in Clients \ {w} : local'[d] = local[d]
  BY <1>2
<1>4. WorkerFits(w, local[w])' /\ HolderFits(w, local[w])'
  BY <1>3
<1>5. \A d \in Clients : WorkerFits(d, local[d])' /\ HolderFits(d, local[d])'
  BY <1>1, <1>3, <1>4, OthersFit
<1>6. QED
  BY <1>1, <1>3, <1>5 DEF ExeInv

LEMMA PendingIsFinite ==
    ASSUME NEW s \in Steps
    PROVE  IsFiniteSet(Pending(s)) /\ Cardinality(Pending(s)) \in Nat
<1>1. Pending(s) \subseteq Clients
  BY DEF Pending
<1>2. QED
  BY <1>1, ExecutionAssumption, FS_Subset, FS_CardinalityType

\* A step that calls nothing and charges no less keeps every call charged.
LEMMA ChargesStay ==
    ASSUME ExeInv, NEW w \in Clients, NEW l, local' = [local EXCEPT ![w] = l],
           l.pc # "invoke", UNCHANGED calls, TypeOK',
           \A s \in Steps : journal'[s].attempt_count >= journal[s].attempt_count
    PROVE  CallsCharged'
<1>1. ASSUME NEW s \in Steps
      PROVE  calls[s] + Cardinality(Pending(s)') <= journal'[s].attempt_count
  <2>1. local \in [Clients -> Coroutine]
    BY DEF ExeInv
  <2>2. Pending(s)' \subseteq Pending(s)
    BY <2>1 DEF Pending, At
  <2>3. /\ Cardinality(Pending(s)') \in Nat
        /\ Cardinality(Pending(s)') <= Cardinality(Pending(s))
    BY <2>2, PendingIsFinite, FS_Subset, FS_CardinalityType
  <2>4. /\ calls[s] \in Nat /\ journal[s].attempt_count \in Nat
        /\ journal'[s].attempt_count \in Nat
        /\ calls[s] + Cardinality(Pending(s)) <= journal[s].attempt_count
    BY ExeParts DEF CallsCharged, TypeOK, StepExecutionRecord
  <2>5. QED
    BY <2>3, <2>4, PendingIsFinite
<1>2. QED
  BY <1>1, ExeParts DEF CallsCharged

\* A step of w that only moves w.
LEMMA LocalStep ==
    ASSUME ExeInv, NEW w \in Clients, NEW l, local' = [local EXCEPT ![w] = l],
           UNCHANGED <<vars, factVars, calls>>, l.pc # "invoke", Bounded',
           WorkerFits(w, l), HolderFits(w, l)
    PROVE  ExeInv' /\ [Next]_vars
<1>1. [Next]_vars
  OBVIOUS
<1>u. UNCHANGED <<task, sequence, plan, journal, evidence, approvals, audit, grant,
                  interaction, advisory, clarification>>
  BY DEF vars, storeVars, factVars
<1>t. TypeOK /\ TypeOK' /\ task.version \in Nat /\ approvals \in Nat
      /\ \A s \in Steps : journal[s].attempt_count \in Nat
  BY <1>1, ExeParts, NextTypeOK, TaskFields, JournalFields DEF TypeOK
<1>2. Kept(w)
  BY <1>u, <1>t DEF Kept
<1>3. WorkerFits(w, l)'
  BY <1>u DEF WorkerFits, DraftFits, PlanFits, OutcomeFits, StepFits, HoldsGrant, InSteps
<1>4. HolderFits(w, l)'
  BY <1>u DEF HolderFits, Owns, Holder, CurrentAttempt, HoldsGrant, StatusKnown, RowsKnown,
     StepInFlight, ResultsKnown, NoStepFailed, Sufficient, StepAt
<1>5. RowsFit'
  BY <1>u, ExeParts DEF RowsFit, FactTypeOK, NoRecoveryDrift, PlanIsAccepted, DraftMovesTask,
     StepsBelongToPlan, ConditionalStepJustified, WaitingIsBacked, ReflectionAccounts,
     ReasonsFit, StoreTerminalized, Sufficient, NoStepFailed
<1>6. CallsCharged'
  <2>1. \A s \in Steps : journal'[s].attempt_count >= journal[s].attempt_count
    BY <1>u, <1>t
  <2>2. QED
    BY <1>t, <2>1, ChargesStay
<1>7. QED
  BY <1>1, <1>2, <1>3, <1>4, <1>5, <1>6, StepKeeps

\* Giving up is always possible.
LEMMA GiveUp ==
    ASSUME ExeInv, NEW w \in Clients, Become(w, Idle),
           UNCHANGED <<vars, factVars, calls>>, Bounded'
    PROVE  ExeInv' /\ [Next]_vars
<1>1. PICK l : l = Idle
  OBVIOUS
<1>2. WorkerFits(w, l) /\ HolderFits(w, l) /\ l.pc = "idle"
  BY <1>1, ExeParts, IdleAlways
<1>3. QED
  BY <1>1, <1>2, LocalStep DEF Become

\* A coroutine that does not own the task may stop its process.
LEMMA StopLoser ==
    ASSUME ExeInv, NEW w \in Clients, Become(w, Stopped(w)), ~Holder(w),
           UNCHANGED <<vars, factVars, calls>>, Bounded'
    PROVE  ExeInv' /\ [Next]_vars
<1>1. PICK l : l = Stopped(w)
  OBVIOUS
<1>2. WorkerFits(w, l) /\ HolderFits(w, l) /\ l.pc = "stopped_loser"
  BY <1>1, ExeParts, StoppedFits
<1>3. QED
  BY <1>1, <1>2, LocalStep DEF Become

-----------------------------------------------------------------------------
(***************************************************************************)
(* Steps that only move the coroutine, and refused calls.                  *)
(***************************************************************************)
USE DEF StartPcs, ResumePcs, CallPcs, PausePcs, RunningPcs, PlannedPcs, EndPcs, OpenPcs

LEMMA PcNames ==
    /\ {"idle", "get", "interact", "save_interaction", "save_clarification", "converse",
        "retry", "renew_start", "start_journal", "save_plan", "start_get", "to_planning",
        "renew_resume", "resume_plan", "resume_get", "to_running", "load_steps", "step",
        "invoke", "commit", "approve", "pause_get", "to_awaiting", "finalize", "advise",
        "save_advisory", "final_get", "final"} \subseteq Pcs
    /\ PlanOutcomes \cup {"CLARIFICATION_REQUIRED"} \subseteq TerminalStatuses
    /\ {"none", "recovery_drift", "budget.tool_calls_exhausted", "rejected"} \subseteq RunReasons
    /\ NoFact \in Answers /\ Advisories \subseteq Answers
BY DEF Pcs, PlanOutcomes, TerminalStatuses, RunReasons, Answers

\* The view of the owner carries over to where it goes next.
LEMMA OwnerView ==
    ASSUME ExeInv, NEW w \in Clients, Owns(w, local[w])
    PROVE  StatusKnown(local[w]) /\ RowsKnown(local[w])
           /\ StepInFlight(w, local[w]) /\ ResultsKnown(local[w])
BY CoroutineFits DEF HolderFits

LEMMA GetTaskStep ==
    ASSUME ExeInv, NEW w \in Clients, GetTask(w)
    PROVE  ExeInv' /\ [Next]_vars
<1>1. PICK l : l = [local[w] EXCEPT !.pc = "interact", !.status = task.status,
                                    !.version = task.version]
  OBVIOUS
<1>t. task.status \in Statuses /\ task.version \in Nat
  BY ExeParts, TaskFields
<1>2. /\ l \in Coroutine /\ l.pc = "interact" /\ l.status = task.status
      /\ l.version = task.version /\ l.reason = local[w].reason
  BY <1>1, <1>t, PcNames, CoroutineFits DEF Coroutine
<1>3. WorkerFits(w, l)
  BY <1>2, <1>t, CoroutineFits DEF GetTask, At, WorkerFits, DraftFits, PlanFits,
     OutcomeFits, StepFits
<1>4. HolderFits(w, l)
  BY <1>2, OwnerView DEF GetTask, At, Owns, HolderFits, StatusKnown, RowsKnown, StepInFlight,
     ResultsKnown
<1>5. QED
  BY <1>1, <1>2, <1>3, <1>4, LocalStep, ExeParts DEF GetTask, Become, ReadOnly, Bounded

\* No row speaks of a draft before there is one.
LEMMA DraftArrives ==
    ASSUME ExeInv, NEW draft \in Drafts, interaction \in {NoFact, draft}, interaction' = draft,
           UNCHANGED <<vars, advisory, clarification>>
    PROVE  RowsFit'
<1>u. UNCHANGED <<task, sequence, plan, journal, evidence, approvals, audit, grant,
                  advisory, clarification>>
  BY DEF vars, storeVars
<1>1. CASE interaction = draft
  BY <1>1, <1>u, ExeParts DEF RowsFit, FactTypeOK, NoRecoveryDrift, PlanIsAccepted,
     DraftMovesTask, StepsBelongToPlan, ConditionalStepJustified, WaitingIsBacked,
     ReflectionAccounts, ReasonsFit, StoreTerminalized, Sufficient, NoStepFailed
<1>2. CASE interaction = NoFact
  <2>1. plan = NoPlan /\ task.status \in {"CREATED"} \cup TerminalStatuses
        /\ task.terminal_reason # "conversation"
    BY <1>2, ExeParts, FactAssumption, ExecutionAssumption
       DEF RowsFit, PlanIsAccepted, DraftMovesTask, ReasonsFit, TypeOK
  <2>2. FactTypeOK' /\ DraftMovesTask' /\ PlanIsAccepted'
    BY <1>u, <2>1, ExeParts
       DEF RowsFit, FactTypeOK, DraftMovesTask, PlanIsAccepted, TerminalStatuses
  <2>3. ReasonsFit'
    BY <1>u, <1>2, <2>1, ExeParts, FactAssumption, ExecutionAssumption
       DEF RowsFit, ReasonsFit, StoreTerminalized, Sufficient, NoStepFailed
  <2>4. QED
    BY <1>u, <2>2, <2>3, ExeParts DEF RowsFit, NoRecoveryDrift,
       StepsBelongToPlan, ConditionalStepJustified, WaitingIsBacked,
       ReflectionAccounts, StoreTerminalized
<1>3. QED
  BY <1>1, <1>2

\* Routing: the accepted draft, read or just written, decides where to go on.
LEMMA RoutedKeeps ==
    ASSUME ExeInv, NEW w \in Clients, NEW draft \in Drafts,
           local[w].pc \in {"interact", "save_interaction"},
           interaction \in {NoFact, draft}, interaction' = draft,
           interaction' # interaction => Holder(w),
           Become(w, Routed(w, draft)), Bounded',
           UNCHANGED <<vars, advisory, clarification, calls>>
    PROVE  ExeInv' /\ [Next]_vars
<1>u. UNCHANGED <<task, sequence, plan, journal, evidence, approvals, audit, grant>>
  BY DEF vars, storeVars
<1>t. TypeOK /\ TypeOK' /\ task.version \in Nat /\ approvals \in Nat
      /\ \A s \in Steps : journal[s].attempt_count \in Nat
  BY <1>u, ExeParts, NextTypeOK, TaskFields, JournalFields DEF TypeOK
<1>d. /\ draft \in {"respond", "clarify", "reject"} \cup Plans
      /\ {"respond", "clarify", "reject"} \cap Plans = {}
  BY ExecutionAssumption
<1>w. local[w] \in Coroutine /\ HoldsGrant(w) /\ local[w].version <= task.version
  BY CoroutineFits DEF WorkerFits
<1>o. Holder(w) => /\ task.status \in DispatchStatuses
                   /\ local[w].status = task.status /\ local[w].version = task.version
                   /\ local[w].reason # "recovery_drift"
                   /\ \A s \in Steps : journal[s].last_fencing_token = task.fencing_token
                                         => journal[s].result_status # "none"
  BY OwnerView DEF Owns, StatusKnown, RowsKnown, StepInFlight
<1>1. PICK l : l = Routed(w, draft)
  OBVIOUS
<1>k. Kept(w)
  BY <1>u, <1>t, OneHolder, ExeParts DEF Kept, Holder, CurrentAttempt, HoldsGrant
<1>c. l.pc # "invoke" => CallsCharged'
  <2>1. \A s \in Steps : journal'[s].attempt_count >= journal[s].attempt_count
    BY <1>u, <1>t
  <2>2. QED
    BY <1>1, <1>t, <2>1, ChargesStay DEF Become
<1>s. ASSUME l = Stopped(w), ~Holder(w)
      PROVE  WorkerFits(w, l)' /\ HolderFits(w, l)' /\ l.pc # "invoke"
  <2>1. l.pc = "stopped_loser" /\ WorkerFits(w, l)
    BY <1>s, <1>t, StoppedFits
  <2>2. QED
    BY <2>1, <1>u DEF WorkerFits, DraftFits, PlanFits, OutcomeFits, StepFits,
       HolderFits, Owns, InSteps
<1>2. CASE draft = "respond" /\ local[w].status \in DispatchStatuses
  <2>1. /\ l \in Coroutine /\ l.pc = "converse" /\ l.status = local[w].status
        /\ l.version = local[w].version /\ l.reason = local[w].reason /\ l.draft = draft
    BY <1>1, <1>w, <1>2, <1>d, PcNames DEF Coroutine, Routed
  <2>2. WorkerFits(w, l)'
    BY <2>1, <1>w, <1>u, <1>2 DEF WorkerFits, DraftFits, PlanFits, OutcomeFits, StepFits, HoldsGrant
  <2>3. HolderFits(w, l)'
    BY <2>1, <1>o, <1>u DEF Owns, HolderFits, Holder, CurrentAttempt, HoldsGrant,
       StatusKnown, RowsKnown, StepInFlight, ResultsKnown
  <2>4. QED
    BY <1>1, <2>1, <2>2, <2>3, <1>k, <1>c, DraftArrives, StepKeeps DEF Become
<1>3. CASE draft = "respond" /\ local[w].status \notin DispatchStatuses
  <2>1. l = Stopped(w) /\ ~Holder(w)
    BY <1>1, <1>3, <1>d, <1>o DEF Routed
  <2>2. QED
    BY <1>1, <1>s, <2>1, <1>k, <1>c, DraftArrives, StepKeeps DEF Become
<1>4. CASE draft = "clarify"
  <2>1. /\ l \in Coroutine /\ l.pc = "save_clarification" /\ l.draft = draft
        /\ l.version = local[w].version /\ l.reason = local[w].reason
    BY <1>1, <1>w, <1>4, <1>d, PcNames DEF Coroutine, Routed
  <2>2. WorkerFits(w, l)'
    BY <2>1, <1>w, <1>u, <1>4 DEF WorkerFits, DraftFits, PlanFits, OutcomeFits, StepFits, HoldsGrant
  <2>3. HolderFits(w, l)'
    BY <2>1, <1>o, <1>u DEF Owns, HolderFits, Holder, CurrentAttempt, HoldsGrant,
       StatusKnown, RowsKnown, StepInFlight, ResultsKnown
  <2>4. QED
    BY <1>1, <2>1, <2>2, <2>3, <1>k, <1>c, DraftArrives, StepKeeps DEF Become
<1>5. CASE draft = "reject"
  <2>1. /\ l \in Coroutine /\ l.pc = "finalize" /\ l.draft = draft
        /\ l.version = local[w].version /\ l.reason = "rejected" /\ l.outcome = "REJECTED"
    BY <1>1, <1>w, <1>5, <1>d, PcNames DEF Coroutine, Routed, PlanOutcomes
  <2>2. WorkerFits(w, l)'
    BY <2>1, <1>w, <1>u, <1>5, <1>d
       DEF WorkerFits, DraftFits, PlanFits, OutcomeFits, StepFits, HoldsGrant
  <2>3. HolderFits(w, l)'
    BY <2>1, <1>5, <1>d, <1>o, <1>u DEF Owns, HolderFits, Holder, CurrentAttempt, HoldsGrant,
       StatusKnown, RowsKnown, StepInFlight, ResultsKnown
  <2>4. QED
    BY <1>1, <2>1, <2>2, <2>3, <1>k, <1>c, DraftArrives, StepKeeps DEF Become
<1>6. CASE draft \in Plans /\ local[w].status \in {"CREATED", "PLANNING", "RUNNING"}
  <2>1. /\ l \in Coroutine /\ l.draft = draft
        /\ l.pc = IF local[w].status = "CREATED" THEN "renew_start" ELSE "renew_resume"
        /\ l.version = local[w].version /\ l.reason = local[w].reason
    BY <1>1, <1>w, <1>6, <1>d, PcNames DEF Coroutine, Routed
  <2>2. WorkerFits(w, l)'
    BY <2>1, <1>w, <1>u, <1>6
       DEF WorkerFits, DraftFits, PlanFits, OutcomeFits, StepFits, HoldsGrant
  <2>3. HolderFits(w, l)'
    BY <2>1, <1>6, <1>o, <1>u DEF Owns, HolderFits, Holder, CurrentAttempt, HoldsGrant,
       StatusKnown, RowsKnown, StepInFlight, ResultsKnown
  <2>4. QED
    BY <1>1, <2>1, <2>2, <2>3, <1>k, <1>c, DraftArrives, StepKeeps DEF Become
<1>7. CASE draft \in Plans /\ local[w].status \notin {"CREATED", "PLANNING", "RUNNING"}
  <2>1. l = Stopped(w) /\ ~Holder(w)
    BY <1>1, <1>7, <1>d, <1>o DEF Routed, DispatchStatuses
  <2>2. QED
    BY <1>1, <1>s, <2>1, <1>k, <1>c, DraftArrives, StepKeeps DEF Become
<1>8. QED
  BY <1>d, <1>2, <1>3, <1>4, <1>5, <1>6, <1>7

LEMMA InteractStep ==
    ASSUME ExeInv, NEW w \in Clients, Interact(w)
    PROVE  ExeInv' /\ [Next]_vars
<1>b. Bounded'
  BY ExeParts DEF Interact, ReadOnly, Bounded
<1>1. CASE interaction # NoFact
  <2>1. interaction \in Drafts
    BY <1>1, ExeParts DEF RowsFit, FactTypeOK
  <2>2. QED
    BY <1>1, <1>b, <2>1, RoutedKeeps DEF Interact, At, ReadOnly, factVars
<1>2. CASE interaction = NoFact
  <2>1. PICK draft \in Drafts :
          Become(w, [local[w] EXCEPT !.pc = "save_interaction", !.draft = draft])
    BY <1>2 DEF Interact
  <2>2. PICK l : l = [local[w] EXCEPT !.pc = "save_interaction", !.draft = draft]
    OBVIOUS
  <2>3. /\ l \in Coroutine /\ l.pc = "save_interaction" /\ l.draft = draft
        /\ l.status = local[w].status /\ l.version = local[w].version
        /\ l.reason = local[w].reason
    BY <2>2, PcNames, CoroutineFits DEF Coroutine
  <2>4. WorkerFits(w, l)
    BY <2>3, CoroutineFits DEF Interact, At, WorkerFits, DraftFits, PlanFits,
       OutcomeFits, StepFits
  <2>5. HolderFits(w, l)
    BY <1>2, <2>3, OwnerView DEF Interact, At, Owns, HolderFits, StatusKnown, RowsKnown,
       StepInFlight, ResultsKnown
  <2>6. QED
    BY <1>b, <2>1, <2>2, <2>3, <2>4, <2>5, LocalStep DEF Interact, Become, ReadOnly
<1>3. QED
  BY <1>1, <1>2

\* What the grant check says of the owner and of anybody else.
LEMMA GrantedFact ==
    ASSUME NEW w \in Clients, HoldsGrant(w), NEW now, NEW allowed
    PROVE  /\ FactGrant(w, now, allowed) \in {"GRANT_LOST", "STATE", "ALLOWED"}
           /\ FactGrant(w, now, allowed) = "ALLOWED" => Holder(w) /\ task.status \in allowed
           /\ (Holder(w) /\ task.status \in allowed) => FactGrant(w, now, allowed) # "STATE"
<1>1. GrantIsCurrent(w, now, allowed) = "CURRENT" => Holder(w) /\ task.status \in allowed
  BY CurrentIsHolder
<1>2. GrantIsCurrent(w, now, allowed) \in {"TERMINAL_PROTECTED", "STATUS_NOT_ALLOWED"}
        => ~(Holder(w) /\ task.status \in allowed)
  BY DEF GrantIsCurrent, Holder
<1>3. GrantIsCurrent(w, now, allowed) \in {"TERMINAL_PROTECTED", "STATUS_NOT_ALLOWED",
        "LEASE_NOT_HELD", "STALE_FENCING", "CURRENT"}
  BY DEF GrantIsCurrent
<1>4. QED
  BY <1>1, <1>2, <1>3 DEF FactGrant

\* A refused write of a fact ends the attempt, never its process while it owns the task.
LEMMA RefusedFact ==
    ASSUME ExeInv, NEW w \in Clients, NEW decision \in {"GRANT_LOST", "STATE"},
           decision = "STATE" => ~Holder(w), Become(w, FactRefused(w, decision)),
           UNCHANGED <<vars, factVars, calls>>, Bounded'
    PROVE  ExeInv' /\ [Next]_vars
BY GiveUp, StopLoser DEF FactRefused

LEMMA AcceptInteractionStep ==
    ASSUME ExeInv, NEW w \in Clients, AcceptInteraction(w)
    PROVE  ExeInv' /\ [Next]_vars
<1> DEFINE draft == local[w].draft
           fact == FactGrant(w, ClockOf[w], DispatchStatuses)
<1>b. Bounded'
  BY ExeParts DEF AcceptInteraction, Bounded
<1>1. /\ local[w].pc = "save_interaction" /\ HoldsGrant(w) /\ draft \in Drafts
      /\ Holder(w) => interaction = NoFact /\ task.status \in DispatchStatuses
  BY CoroutineFits, OwnerView
     DEF AcceptInteraction, At, WorkerFits, DraftFits, Owns, StatusKnown, RowsKnown
<1>2. /\ fact \in {"GRANT_LOST", "STATE", "ALLOWED"}
      /\ fact = "ALLOWED" => Holder(w) /\ task.status \in DispatchStatuses
      /\ (Holder(w) /\ task.status \in DispatchStatuses) => fact # "STATE"
  BY <1>1, GrantedFact
<1>3. CASE fact = "ALLOWED"
  <2>1. interaction = NoFact /\ Holder(w)
    BY <1>1, <1>2, <1>3
  <2>2. InteractionDecision(w, draft, ClockOf[w]) = "SAVED"
    BY <1>3, <2>1 DEF InteractionDecision, FactDecision
  <2>3. interaction' = draft /\ UNCHANGED <<advisory, clarification, vars, calls>>
        /\ Become(w, Routed(w, draft))
    BY <2>2 DEF AcceptInteraction, SaveInteraction
  <2>4. QED
    BY <1>b, <1>1, <2>1, <2>3, RoutedKeeps
<1>4. CASE fact # "ALLOWED"
  <2>1. InteractionDecision(w, draft, ClockOf[w]) = fact /\ fact # "SAVED"
    BY <1>2, <1>4 DEF InteractionDecision, FactDecision
  <2>2. UNCHANGED <<factVars, vars, calls>> /\ Become(w, FactRefused(w, fact))
    BY <2>1 DEF AcceptInteraction
  <2>3. QED
    BY <1>b, <1>1, <1>2, <1>4, <2>2, RefusedFact
<1>5. QED
  BY <1>3, <1>4

\* A step of w that writes an advisory or a clarification record.
LEMMA FactStep ==
    ASSUME ExeInv, NEW w \in Clients, NEW l, local' = [local EXCEPT ![w] = l],
           UNCHANGED <<vars, interaction, calls>>, l.pc # "invoke", Bounded',
           advisory' \in Answers, advisory' # advisory => Holder(w),
           clarification' \in BOOLEAN, clarification => clarification',
           WorkerFits(w, l)', HolderFits(w, l)'
    PROVE  ExeInv' /\ [Next]_vars
<1>u. UNCHANGED <<task, sequence, plan, journal, evidence, approvals, audit, grant>>
  BY DEF vars, storeVars
<1>t. TypeOK /\ TypeOK' /\ task.version \in Nat /\ approvals \in Nat
      /\ \A s \in Steps : journal[s].attempt_count \in Nat
  BY <1>u, ExeParts, NextTypeOK, TaskFields, JournalFields DEF TypeOK
<1>1. Kept(w)
  BY <1>u, <1>t, OneHolder, ExeParts DEF Kept, Holder, CurrentAttempt, HoldsGrant
<1>2. RowsFit'
  BY <1>u, ExeParts DEF RowsFit, FactTypeOK, Answers, NoRecoveryDrift, PlanIsAccepted,
     DraftMovesTask, StepsBelongToPlan, ConditionalStepJustified, WaitingIsBacked,
     ReflectionAccounts, ReasonsFit, StoreTerminalized, Sufficient, NoStepFailed
<1>3. CallsCharged'
  <2>1. \A s \in Steps : journal'[s].attempt_count >= journal[s].attempt_count
    BY <1>u, <1>t
  <2>2. QED
    BY <1>t, <2>1, ChargesStay
<1>4. QED
  BY <1>1, <1>2, <1>3, StepKeeps

LEMMA RecordClarificationStep ==
    ASSUME ExeInv, NEW w \in Clients, RecordClarification(w)
    PROVE  ExeInv' /\ [Next]_vars
<1> DEFINE fact == FactGrant(w, ClockOf[w], DispatchStatuses)
<1>b. Bounded' /\ UNCHANGED <<vars, calls>>
  BY ExeParts DEF RecordClarification, Bounded
<1>1. /\ local[w].pc = "save_clarification" /\ HoldsGrant(w) /\ local[w] \in Coroutine
      /\ Holder(w) => task.status \in DispatchStatuses
  BY CoroutineFits, OwnerView DEF RecordClarification, At, WorkerFits, Owns, StatusKnown
<1>2. /\ fact \in {"GRANT_LOST", "STATE", "ALLOWED"}
      /\ (Holder(w) /\ task.status \in DispatchStatuses) => fact # "STATE"
  BY <1>1, GrantedFact
<1>3. CASE fact = "ALLOWED"
  <2>1. PICK l : l = Concluded(w, "CLARIFICATION_REQUIRED", "none")
    OBVIOUS
  <2>2. /\ clarification' = TRUE /\ UNCHANGED <<interaction, advisory>>
        /\ local' = [local EXCEPT ![w] = l]
    BY <1>3, <2>1 DEF RecordClarification, SaveClarification, Become
  <2>3. /\ l \in Coroutine /\ l.pc = "finalize" /\ l.draft = local[w].draft
        /\ l.version = local[w].version /\ l.reason = "none"
        /\ l.outcome = "CLARIFICATION_REQUIRED"
    BY <1>1, <2>1, PcNames DEF Concluded, Coroutine
  <2>u. UNCHANGED <<task, plan, approvals, grant, journal, evidence>>
    BY <1>b DEF vars, storeVars
  <2>4. l.draft = "clarify" /\ "clarify" \notin Plans
    BY <1>1, <2>3, CoroutineFits, ExecutionAssumption DEF WorkerFits, DraftFits
  <2>5. WorkerFits(w, l)'
    BY <1>1, <2>2, <2>3, <2>4, <2>u, CoroutineFits
       DEF WorkerFits, DraftFits, PlanFits, OutcomeFits, StepFits, HoldsGrant
  <2>6. HolderFits(w, l)'
    BY <1>1, <2>3, <2>4, <2>u, OwnerView DEF HolderFits, Owns, Holder, CurrentAttempt,
       HoldsGrant, StatusKnown, RowsKnown, StepInFlight, ResultsKnown
  <2>7. advisory' \in Answers
    BY <2>2, ExeParts DEF RowsFit, FactTypeOK, Answers
  <2>8. QED
    BY <1>b, <2>2, <2>3, <2>5, <2>6, <2>7, FactStep
<1>4. CASE fact # "ALLOWED"
  BY <1>b, <1>2, <1>1, <1>4, RefusedFact DEF RecordClarification
<1>5. QED
  BY <1>3, <1>4

\* A coroutine that lost the task may believe in a drift: it only gets to the
\* terminal CAS, which the store refuses.
LEMMA DriftLoser ==
    ASSUME ExeInv, NEW w \in Clients, Become(w, Drifted(w)), ~Holder(w),
           local[w].pc \in PlannedPcs, UNCHANGED <<vars, factVars, calls>>, Bounded'
    PROVE  ExeInv' /\ [Next]_vars
<1>1. PICK l : l = Drifted(w)
  OBVIOUS
<1>2. /\ l \in Coroutine /\ l.pc = "finalize" /\ l.draft = local[w].draft
      /\ l.version = local[w].version /\ l.reason = "recovery_drift" /\ l.outcome = "FAILED"
  BY <1>1, PcNames, CoroutineFits DEF Drifted, Concluded, Coroutine, PlanOutcomes
<1>3. l.draft \in Plans /\ l.draft = interaction /\ HoldsGrant(w)
      /\ {"respond", "clarify", "reject"} \cap Plans = {}
  BY <1>2, CoroutineFits, ExecutionAssumption DEF WorkerFits, DraftFits
<1>4. WorkerFits(w, l) /\ HolderFits(w, l)
  BY <1>2, <1>3, CoroutineFits DEF WorkerFits, DraftFits, PlanFits, OutcomeFits, StepFits,
     PlanOutcomes, HolderFits, Owns
<1>5. QED
  BY <1>1, <1>2, <1>4, LocalStep DEF Become

LEMMA StartJournalStep ==
    ASSUME ExeInv, NEW w \in Clients, StartJournal(w)
    PROVE  ExeInv' /\ [Next]_vars
<1>b. Bounded' /\ UNCHANGED <<vars, factVars, calls>> /\ local[w].pc = "start_journal"
  BY ExeParts DEF StartJournal, At, ReadOnly, Bounded
<1>1. CASE \E s \in Steps : journal[s].attempt_count > 0
  <2>1. ~Holder(w)
    <3>1. CleanStart /\ \A s \in Steps : journal[s].attempt_count \in Nat
      BY ExeParts, JournalFields DEF StoreInv
    <3>2. Holder(w) => task.status = "CREATED"
      BY <1>b, OwnerView DEF Owns, StatusKnown
    <3>3. QED
      BY <1>1, <3>1, <3>2 DEF CleanStart
  <2>2. QED
    BY <1>1, <1>b, <2>1, DriftLoser DEF StartJournal
<1>2. CASE ~\E s \in Steps : journal[s].attempt_count > 0
  <2>1. PICK l : l = [local[w] EXCEPT !.pc = "save_plan"]
    OBVIOUS
  <2>2. /\ l \in Coroutine /\ l.pc = "save_plan" /\ l.draft = local[w].draft
        /\ l.version = local[w].version /\ l.reason = local[w].reason
    BY <2>1, PcNames, CoroutineFits DEF Coroutine
  <2>3. WorkerFits(w, l)
    BY <1>b, <2>2, CoroutineFits DEF WorkerFits, DraftFits, PlanFits, OutcomeFits, StepFits
  <2>4. HolderFits(w, l)
    BY <1>b, <2>2, OwnerView DEF Owns, HolderFits, StatusKnown, RowsKnown,
       StepInFlight, ResultsKnown
  <2>5. QED
    BY <1>b, <1>2, <2>1, <2>2, <2>3, <2>4, LocalStep DEF StartJournal, Become
<1>3. QED
  BY <1>1, <1>2

LEMMA StartGetStep ==
    ASSUME ExeInv, NEW w \in Clients, StartGet(w)
    PROVE  ExeInv' /\ [Next]_vars
<1>b. Bounded' /\ UNCHANGED <<vars, factVars, calls>> /\ local[w].pc = "start_get"
      /\ task.version \in Nat
  BY ExeParts, TaskFields DEF StartGet, At, ReadOnly, Bounded
<1>1. PICK l : l = [local[w] EXCEPT !.pc = "to_planning", !.version = task.version]
  OBVIOUS
<1>2. /\ l \in Coroutine /\ l.pc = "to_planning" /\ l.draft = local[w].draft
      /\ l.version = task.version /\ l.reason = local[w].reason
  BY <1>1, <1>b, PcNames, CoroutineFits DEF Coroutine
<1>3. WorkerFits(w, l)
  BY <1>b, <1>2, CoroutineFits DEF WorkerFits, DraftFits, PlanFits, OutcomeFits, StepFits
<1>4. HolderFits(w, l)
  BY <1>b, <1>2, OwnerView DEF Owns, HolderFits, StatusKnown, RowsKnown,
     StepInFlight, ResultsKnown
<1>5. QED
  BY <1>b, <1>1, <1>2, <1>3, <1>4, LocalStep DEF StartGet, Become

LEMMA ResumePlanStep ==
    ASSUME ExeInv, NEW w \in Clients, ResumePlan(w)
    PROVE  ExeInv' /\ [Next]_vars
<1>b. Bounded' /\ UNCHANGED <<vars, factVars, calls>> /\ local[w].pc = "resume_plan"
  BY ExeParts DEF ResumePlan, At, ReadOnly, Bounded
<1>1. CASE plan # local[w].draft
  <2>1. local[w].draft \in Plans /\ local[w].draft = interaction
    BY <1>b, CoroutineFits DEF WorkerFits, DraftFits
  <2>2. Holder(w) => task.status \in {"PLANNING", "RUNNING"}
    BY <1>b, OwnerView DEF Owns, StatusKnown
  <2>3. ~Holder(w)
    BY <1>1, <2>1, <2>2, ExeParts DEF RowsFit, DraftMovesTask
  <2>4. QED
    BY <1>1, <1>b, <2>3, DriftLoser DEF ResumePlan
<1>2. CASE plan = local[w].draft
  <2>1. PICK l : l = [local[w] EXCEPT !.pc = "resume_get"]
    OBVIOUS
  <2>2. /\ l \in Coroutine /\ l.pc = "resume_get" /\ l.draft = local[w].draft
        /\ l.version = local[w].version /\ l.reason = local[w].reason
    BY <2>1, PcNames, CoroutineFits DEF Coroutine
  <2>3. WorkerFits(w, l)
    BY <1>b, <1>2, <2>2, CoroutineFits
       DEF WorkerFits, DraftFits, PlanFits, OutcomeFits, StepFits
  <2>4. HolderFits(w, l)
    BY <1>b, <2>2, OwnerView DEF Owns, HolderFits, StatusKnown, RowsKnown,
       StepInFlight, ResultsKnown
  <2>5. QED
    BY <1>b, <1>2, <2>1, <2>2, <2>3, <2>4, LocalStep DEF ResumePlan, Become
<1>3. QED
  BY <1>1, <1>2

LEMMA ResumeGetStep ==
    ASSUME ExeInv, NEW w \in Clients, ResumeGet(w)
    PROVE  ExeInv' /\ [Next]_vars
<1>b. Bounded' /\ UNCHANGED <<vars, factVars, calls>> /\ local[w].pc = "resume_get"
      /\ task.version \in Nat
  BY ExeParts, TaskFields DEF ResumeGet, At, ReadOnly, Bounded
<1>o. Owns(w, local[w]) <=> Holder(w)
  BY <1>b DEF Owns
<1>1. CASE task.status \in {"PLANNING", "AWAITING_APPROVAL"}
  <2>1. PICK l : l = [local[w] EXCEPT !.pc = "to_running", !.version = task.version]
    OBVIOUS
  <2>2. /\ l \in Coroutine /\ l.pc = "to_running" /\ l.draft = local[w].draft
        /\ l.version = task.version /\ l.reason = local[w].reason
    BY <2>1, <1>b, PcNames, CoroutineFits DEF Coroutine
  <2>3. WorkerFits(w, l)
    BY <1>b, <2>2, CoroutineFits DEF WorkerFits, DraftFits, PlanFits, OutcomeFits, StepFits
  <2>4. HolderFits(w, l)
    BY <1>b, <1>o, <1>1, <2>2, OwnerView DEF Owns, HolderFits, StatusKnown, RowsKnown,
       StepInFlight, ResultsKnown
  <2>5. QED
    BY <1>b, <1>1, <2>1, <2>2, <2>3, <2>4, LocalStep DEF ResumeGet, Become
<1>2. CASE task.status = "RUNNING"
  <2>1. PICK l : l = [local[w] EXCEPT !.pc = "load_steps"]
    OBVIOUS
  <2>2. /\ l \in Coroutine /\ l.pc = "load_steps" /\ l.draft = local[w].draft
        /\ l.version = local[w].version /\ l.reason = local[w].reason
    BY <2>1, <1>b, PcNames, CoroutineFits DEF Coroutine
  <2>3. WorkerFits(w, l)
    BY <1>b, <2>2, CoroutineFits DEF WorkerFits, DraftFits, PlanFits, OutcomeFits, StepFits
  <2>4. HolderFits(w, l)
    BY <1>b, <1>o, <1>2, <2>2, OwnerView DEF Owns, HolderFits, StatusKnown, RowsKnown,
       StepInFlight, ResultsKnown
  <2>5. QED
    BY <1>b, <1>2, <2>1, <2>2, <2>3, <2>4, LocalStep DEF ResumeGet, Become
<1>3. CASE task.status \notin {"PLANNING", "AWAITING_APPROVAL", "RUNNING"}
  <2>1. ~Holder(w) /\ Become(w, Stopped(w))
    BY <1>3, <1>b, <1>o, OwnerView DEF StatusKnown, ResumeGet
  <2>2. QED
    BY <1>b, <2>1, StopLoser
<1>4. QED
  BY <1>1, <1>2, <1>3

LEMMA LoadStepsStep ==
    ASSUME ExeInv, NEW w \in Clients, LoadSteps(w)
    PROVE  ExeInv' /\ [Next]_vars
<1>b. Bounded' /\ UNCHANGED <<vars, factVars, calls>> /\ local[w].pc = "load_steps"
  BY ExeParts DEF LoadSteps, At, ReadOnly, Bounded
<1>1. PICK l : l = [local[w] EXCEPT !.pc = "step", !.index = 1,
                      !.results = [s \in Steps |-> journal[s].result_status]]
  OBVIOUS
<1>j. [s \in Steps |-> journal[s].result_status] \in [Steps -> ResultStatuses \cup {"none"}]
  BY ExeParts DEF TypeOK, StepExecutionRecord
<1>2. /\ l \in Coroutine /\ l.pc = "step" /\ l.draft = local[w].draft /\ l.index = 1
      /\ l.version = local[w].version /\ l.reason = local[w].reason
      /\ l.results = [s \in Steps |-> journal[s].result_status]
  BY <1>1, <1>j, PcNames, CoroutineFits DEF Coroutine
<1>3. WorkerFits(w, l)
  BY <1>b, <1>2, CoroutineFits DEF WorkerFits, DraftFits, PlanFits, OutcomeFits, StepFits
<1>4. HolderFits(w, l)
  BY <1>b, <1>2, OwnerView DEF Owns, HolderFits, StatusKnown, RowsKnown,
     StepInFlight, ResultsKnown
<1>5. QED
  BY <1>b, <1>1, <1>2, <1>3, <1>4, LocalStep DEF LoadSteps, Become

-----------------------------------------------------------------------------
(***************************************************************************)
(* The steps of the plan, as far as they write nothing.                    *)
(***************************************************************************)
LEMMA Concludes ==
    ASSUME ExeInv, NEW w \in Clients, local[w].pc = "step", NEW status \in PlanOutcomes,
           NEW reason \in {"none", "budget.tool_calls_exhausted"},
           (Holder(w) /\ status = "SUCCEEDED") => NoStepFailed,
           Become(w, Concluded(w, status, reason)),
           UNCHANGED <<vars, factVars, calls>>, Bounded'
    PROVE  ExeInv' /\ [Next]_vars
<1>1. PICK l : l = Concluded(w, status, reason)
  OBVIOUS
<1>2. /\ l \in Coroutine /\ l.pc = "finalize" /\ l.draft = local[w].draft
      /\ l.version = local[w].version /\ l.reason = reason /\ l.outcome = status
  BY <1>1, PcNames, CoroutineFits DEF Concluded, Coroutine
<1>3. l.draft \in Plans /\ {"respond", "clarify", "reject"} \cap Plans = {}
  BY <1>2, CoroutineFits, ExecutionAssumption DEF WorkerFits, DraftFits
<1>4. WorkerFits(w, l)
  BY <1>2, <1>3, CoroutineFits DEF WorkerFits, DraftFits, PlanFits, OutcomeFits, StepFits
<1>5. HolderFits(w, l)
  BY <1>2, <1>3, OwnerView DEF Owns, HolderFits, StatusKnown, RowsKnown, StepInFlight,
     ResultsKnown
<1>6. QED
  BY <1>1, <1>2, <1>4, <1>5, LocalStep DEF Become

\* On to the next step, with the stored results.
LEMMA MovesOn ==
    ASSUME ExeInv, NEW w \in Clients, local[w].pc = "step",
           NEW results \in [Steps -> ResultStatuses \cup {"none"}],
           Holder(w) => \A s \in Steps : results[s] = journal[s].result_status,
           Become(w, [NextStep(w) EXCEPT !.results = results]),
           UNCHANGED <<vars, factVars, calls>>, Bounded'
    PROVE  ExeInv' /\ [Next]_vars
<1>1. PICK l : l = [NextStep(w) EXCEPT !.results = results]
  OBVIOUS
<1>w. local[w] \in Coroutine /\ local[w].index + 1 \in Nat
  BY CoroutineFits DEF Coroutine
<1>k. /\ NextStep(w) \in Coroutine /\ NextStep(w).pc = "step"
      /\ NextStep(w).draft = local[w].draft /\ NextStep(w).index = local[w].index + 1
      /\ NextStep(w).version = local[w].version /\ NextStep(w).reason = local[w].reason
  BY <1>w, PcNames DEF NextStep, Coroutine
<1>2. /\ l \in Coroutine /\ l.pc = "step" /\ l.draft = local[w].draft
      /\ l.index = local[w].index + 1 /\ l.results = results
      /\ l.version = local[w].version /\ l.reason = local[w].reason
  BY <1>1, <1>k DEF Coroutine
<1>3. WorkerFits(w, l)
  <2>1. l.index > 0
    BY <1>w, <1>2 DEF Coroutine
  <2>2. QED
    BY <1>2, <2>1, CoroutineFits DEF WorkerFits, DraftFits, PlanFits, OutcomeFits, StepFits
<1>4. HolderFits(w, l)
  BY <1>2, OwnerView DEF Owns, HolderFits, StatusKnown, RowsKnown, StepInFlight,
     ResultsKnown
<1>5. QED
  BY <1>1, <1>2, <1>3, <1>4, LocalStep DEF Become

LEMMA SkipStepStep ==
    ASSUME ExeInv, NEW w \in Clients, SkipStep(w)
    PROVE  ExeInv' /\ [Next]_vars
<1>b. Bounded' /\ UNCHANGED <<vars, factVars, calls>> /\ local[w].pc = "step"
  BY ExeParts DEF SkipStep, AtStep, At, ReadOnly, Bounded
<1>1. PICK results : results = local[w].results
  OBVIOUS
<1>2. results \in [Steps -> ResultStatuses \cup {"none"}]
      /\ NextStep(w) = [NextStep(w) EXCEPT !.results = results]
  BY <1>1, CoroutineFits DEF NextStep, Coroutine
<1>3. Holder(w) => \A s \in Steps : results[s] = journal[s].result_status
  BY <1>b, <1>1, OwnerView DEF Owns, ResultsKnown
<1>4. QED
  BY <1>b, <1>2, <1>3, MovesOn DEF SkipStep

LEMMA RefuseStepStep ==
    ASSUME ExeInv, NEW w \in Clients, RefuseStep(w)
    PROVE  ExeInv' /\ [Next]_vars
<1>b. Bounded' /\ UNCHANGED <<vars, factVars, calls>> /\ local[w].pc = "step"
  BY ExeParts DEF RefuseStep, AtStep, At, ReadOnly, Bounded
<1>1. CASE Become(w, Concluded(w, "REJECTED", "none"))
  BY <1>b, <1>1, Concludes DEF PlanOutcomes
<1>2. CASE Become(w, [local[w] EXCEPT !.pc = "approve"])
  <2>1. PICK l : l = [local[w] EXCEPT !.pc = "approve"]
    OBVIOUS
  <2>2. /\ l \in Coroutine /\ l.pc = "approve" /\ l.draft = local[w].draft
        /\ l.version = local[w].version /\ l.reason = local[w].reason
    BY <2>1, PcNames, CoroutineFits DEF Coroutine
  <2>3. WorkerFits(w, l)
    BY <1>b, <2>2, CoroutineFits DEF WorkerFits, DraftFits, PlanFits, OutcomeFits, StepFits
  <2>4. HolderFits(w, l)
    BY <1>b, <2>2, OwnerView DEF Owns, HolderFits, StatusKnown, RowsKnown,
       StepInFlight, ResultsKnown
  <2>5. QED
    BY <1>b, <1>2, <2>1, <2>2, <2>3, <2>4, LocalStep DEF Become
<1>3. QED
  BY <1>1, <1>2 DEF RefuseStep

LEMMA StepsDoneStep ==
    ASSUME ExeInv, NEW w \in Clients, StepsDone(w)
    PROVE  ExeInv' /\ [Next]_vars
<1>b. Bounded' /\ UNCHANGED <<vars, factVars, calls>> /\ local[w].pc = "step"
  BY ExeParts DEF StepsDone, At, ReadOnly, Bounded
<1>1. PICK status : status = IF Degraded(w) THEN "INDETERMINATE" ELSE "SUCCEEDED"
  OBVIOUS
<1>2. (Holder(w) /\ status = "SUCCEEDED") => NoStepFailed
  BY <1>b, <1>1, OwnerView DEF Owns, ResultsKnown, NoStepFailed, Degraded
<1>3. QED
  BY <1>b, <1>1, <1>2, Concludes DEF StepsDone, PlanOutcomes

LEMMA PauseGetStep ==
    ASSUME ExeInv, NEW w \in Clients, PauseGet(w)
    PROVE  ExeInv' /\ [Next]_vars
<1>b. Bounded' /\ UNCHANGED <<vars, factVars, calls>> /\ local[w].pc = "pause_get"
      /\ task.version \in Nat
  BY ExeParts, TaskFields DEF PauseGet, At, ReadOnly, Bounded
<1>1. PICK l : l = [local[w] EXCEPT !.pc = "to_awaiting", !.version = task.version]
  OBVIOUS
<1>2. /\ l \in Coroutine /\ l.pc = "to_awaiting" /\ l.draft = local[w].draft
      /\ l.version = task.version /\ l.reason = local[w].reason
  BY <1>1, <1>b, PcNames, CoroutineFits DEF Coroutine
<1>3. WorkerFits(w, l)
  BY <1>b, <1>2, CoroutineFits DEF WorkerFits, DraftFits, PlanFits, OutcomeFits, StepFits
<1>4. HolderFits(w, l)
  BY <1>b, <1>2, OwnerView DEF Owns, HolderFits, StatusKnown, RowsKnown,
     StepInFlight, ResultsKnown
<1>5. QED
  BY <1>b, <1>1, <1>2, <1>3, <1>4, LocalStep DEF PauseGet, Become

-----------------------------------------------------------------------------
(***************************************************************************)
(* The end of an attempt, as far as it writes nothing.                     *)
(***************************************************************************)

\* An owner without a plan never finds evidence.
LEMMA OwnerIsBound ==
    ASSUME ExeInv, NEW w \in Clients, local[w].pc = "finalize", Holder(w), ~Bound(w)
    PROVE  \A s \in Steps : evidence[s] = NoPayload
<1>1. local[w].draft = interaction /\ local[w].draft \notin Plans
  BY CoroutineFits DEF WorkerFits, DraftFits, Bound
<1>2. plan = NoPlan
  BY <1>1, ExeParts DEF RowsFit, PlanIsAccepted, TypeOK
<1>3. QED
  BY <1>2, ExeParts DEF RowsFit, StepsBelongToPlan

LEMMA FinalizeStep ==
    ASSUME ExeInv, NEW w \in Clients, Finalize(w)
    PROVE  ExeInv' /\ [Next]_vars
<1>b. Bounded' /\ UNCHANGED <<vars, factVars, calls>> /\ local[w].pc = "finalize"
  BY ExeParts DEF Finalize, At, ReadOnly, Bounded
<1>1. CASE ~Bound(w) /\ \E s \in Steps : evidence[s] # NoPayload
  BY <1>b, <1>1, OwnerIsBound, StopLoser DEF Finalize
<1>2. CASE ~(~Bound(w) /\ \E s \in Steps : evidence[s] # NoPayload)
  <2> DEFINE pc == IF WantsAdvisory(w) /\ advisory = NoFact THEN "advise" ELSE "final_get"
  <2>1. PICK l : l = [local[w] EXCEPT !.pc = pc, !.outcome = TerminalStatus(w)]
    OBVIOUS
  <2>t. TerminalStatus(w) \in TerminalStatuses \cup {"none"}
    BY PcNames, CoroutineFits DEF TerminalStatus, Coroutine, PlanOutcomes
  <2>2. /\ l \in Coroutine /\ l.pc = pc /\ l.draft = local[w].draft
        /\ l.version = local[w].version /\ l.reason = local[w].reason
        /\ l.outcome = TerminalStatus(w)
    BY <2>1, <2>t, PcNames, CoroutineFits DEF Coroutine
  <2>3. WorkerFits(w, l)
    <3>1. pc = "advise" => TerminalStatus(w) = "SUCCEEDED"
      BY DEF WantsAdvisory, TerminalStatus, Sufficient
    <3>2. OutcomeFits(l)
      BY <1>b, <2>2, <3>1, CoroutineFits
         DEF WorkerFits, OutcomeFits, TerminalStatus, PlanOutcomes
    <3>3. QED
      BY <1>b, <2>2, <3>2, CoroutineFits DEF WorkerFits, DraftFits, PlanFits, StepFits
  <2>4. HolderFits(w, l)
    <3>1. l.outcome = "SUCCEEDED" => Sufficient /\ local[w].outcome = "SUCCEEDED"
      BY <2>2 DEF TerminalStatus
    <3>2. QED
      BY <1>b, <2>2, <3>1, OwnerView DEF Owns, HolderFits, StatusKnown, RowsKnown,
         StepInFlight, ResultsKnown
  <2>5. l.pc # "invoke"
    BY <2>2
  <2>6. Become(w, [local[w] EXCEPT !.pc = pc, !.outcome = TerminalStatus(w)])
    BY <1>2 DEF Finalize
  <2>7. local' = [local EXCEPT ![w] = l]
    BY <2>1, <2>6 DEF Become
  <2>8. QED
    BY <1>b, <2>3, <2>4, <2>5, <2>7, LocalStep
<1>3. QED
  BY <1>1, <1>2

LEMMA AdviseStep ==
    ASSUME ExeInv, NEW w \in Clients, Advise(w)
    PROVE  ExeInv' /\ [Next]_vars
<1>b. Bounded' /\ UNCHANGED <<vars, factVars, calls>> /\ local[w].pc = "advise"
  BY ExeParts DEF Advise, At, ReadOnly, Bounded
<1>1. ASSUME NEW a \in Advisories,
             Become(w, [local[w] EXCEPT !.pc = "save_advisory", !.answer = a])
      PROVE  ExeInv' /\ [Next]_vars
  <2>1. PICK l : l = [local[w] EXCEPT !.pc = "save_advisory", !.answer = a]
    OBVIOUS
  <2>2. /\ l \in Coroutine /\ l.pc = "save_advisory" /\ l.draft = local[w].draft
        /\ l.version = local[w].version /\ l.reason = local[w].reason
        /\ l.outcome = local[w].outcome /\ l.answer = a
    BY <2>1, PcNames, CoroutineFits DEF Coroutine
  <2>3. WorkerFits(w, l)
    BY <1>b, <2>2, CoroutineFits DEF WorkerFits, DraftFits, PlanFits, OutcomeFits, StepFits
  <2>4. HolderFits(w, l)
    BY <1>b, <2>2, OwnerView DEF Owns, HolderFits, StatusKnown, RowsKnown,
       StepInFlight, ResultsKnown
  <2>5. QED
    BY <1>b, <1>1, <2>1, <2>2, <2>3, <2>4, LocalStep DEF Become
<1>2. CASE Become(w, [local[w] EXCEPT !.pc = "final_get"])
  <2>1. PICK l : l = [local[w] EXCEPT !.pc = "final_get"]
    OBVIOUS
  <2>2. /\ l \in Coroutine /\ l.pc = "final_get" /\ l.draft = local[w].draft
        /\ l.version = local[w].version /\ l.reason = local[w].reason
        /\ l.outcome = local[w].outcome
    BY <2>1, PcNames, CoroutineFits DEF Coroutine
  <2>3. WorkerFits(w, l)
    BY <1>b, <2>2, CoroutineFits DEF WorkerFits, DraftFits, PlanFits, OutcomeFits, StepFits
  <2>4. HolderFits(w, l)
    BY <1>b, <2>2, OwnerView DEF Owns, HolderFits, StatusKnown, RowsKnown,
       StepInFlight, ResultsKnown
  <2>5. QED
    BY <1>b, <1>2, <2>1, <2>2, <2>3, <2>4, LocalStep DEF Become
<1>3. QED
  BY <1>1, <1>2 DEF Advise

LEMMA FinalGetStep ==
    ASSUME ExeInv, NEW w \in Clients, FinalGet(w)
    PROVE  ExeInv' /\ [Next]_vars
<1>b. Bounded' /\ UNCHANGED <<vars, factVars, calls>> /\ local[w].pc = "final_get"
      /\ task.version \in Nat
  BY ExeParts, TaskFields DEF FinalGet, At, ReadOnly, Bounded
<1>1. PICK l : l = [local[w] EXCEPT !.pc = "final", !.version = task.version]
  OBVIOUS
<1>2. /\ l \in Coroutine /\ l.pc = "final" /\ l.draft = local[w].draft
      /\ l.version = task.version /\ l.reason = local[w].reason
      /\ l.outcome = local[w].outcome
  BY <1>1, <1>b, PcNames, CoroutineFits DEF Coroutine
<1>3. WorkerFits(w, l)
  BY <1>b, <1>2, CoroutineFits DEF WorkerFits, DraftFits, PlanFits, OutcomeFits, StepFits
<1>4. HolderFits(w, l)
  BY <1>b, <1>2, OwnerView DEF Owns, HolderFits, StatusKnown, RowsKnown,
     StepInFlight, ResultsKnown
<1>5. QED
  BY <1>b, <1>1, <1>2, <1>3, <1>4, LocalStep DEF FinalGet, Become

LEMMA AcceptAdvisoryStep ==
    ASSUME ExeInv, NEW w \in Clients, AcceptAdvisory(w)
    PROVE  ExeInv' /\ [Next]_vars
<1> DEFINE answer == local[w].answer
           fact == FactGrant(w, ClockOf[w], {"RUNNING"})
<1>b. Bounded' /\ UNCHANGED <<vars, calls>>
  BY ExeParts DEF AcceptAdvisory, Bounded
<1>1. /\ local[w].pc = "save_advisory" /\ HoldsGrant(w) /\ answer \in Advisories
      /\ local[w].draft \in Plans
      /\ Holder(w) => advisory = NoFact /\ task.status = "RUNNING"
  <2>1. local[w].pc = "save_advisory"
    BY DEF AcceptAdvisory, At
  <2>2. answer \in Advisories /\ HoldsGrant(w) /\ local[w].draft \in Plans
    BY <2>1, CoroutineFits DEF WorkerFits, DraftFits, OutcomeFits
  <2>3. QED
    BY <2>1, <2>2, OwnerView DEF Owns, StatusKnown, RowsKnown
<1>2. /\ fact \in {"GRANT_LOST", "STATE", "ALLOWED"}
      /\ fact = "ALLOWED" => Holder(w)
      /\ (Holder(w) /\ task.status = "RUNNING") => fact # "STATE"
  BY <1>1, GrantedFact
<1>3. CASE fact = "ALLOWED"
  <2>1. AdvisoryDecision(w, answer, ClockOf[w]) = "SAVED"
    BY <1>1, <1>2, <1>3 DEF AdvisoryDecision, FactDecision
  <2>2. PICK l : l = [local[w] EXCEPT !.pc = "final_get", !.answer = NoFact]
    OBVIOUS
  <2>3. /\ advisory' = answer /\ UNCHANGED <<interaction, clarification>>
        /\ local' = [local EXCEPT ![w] = l]
    BY <2>1, <2>2 DEF AcceptAdvisory, SaveAdvisory, Become
  <2>4. /\ l \in Coroutine /\ l.pc = "final_get" /\ l.draft = local[w].draft
        /\ l.version = local[w].version /\ l.reason = local[w].reason
        /\ l.outcome = local[w].outcome
    BY <2>2, PcNames, CoroutineFits DEF Coroutine
  <2>u. UNCHANGED <<task, plan, approvals, grant, journal, evidence>>
    BY <1>b DEF vars, storeVars
  <2>5. WorkerFits(w, l)'
    BY <1>1, <2>3, <2>4, <2>u, CoroutineFits
       DEF WorkerFits, DraftFits, PlanFits, OutcomeFits, StepFits, HoldsGrant
  <2>6. HolderFits(w, l)'
    BY <1>1, <2>3, <2>4, <2>u, OwnerView DEF HolderFits, Owns, Holder, CurrentAttempt,
       HoldsGrant, StatusKnown, RowsKnown, StepInFlight, ResultsKnown, NoStepFailed, Sufficient
  <2>7. advisory' \in Answers /\ clarification' \in BOOLEAN
    BY <1>1, <2>3, ExeParts DEF RowsFit, FactTypeOK, Answers
  <2>8. QED
    BY <1>b, <1>2, <1>3, <2>3, <2>4, <2>5, <2>6, <2>7, FactStep
<1>4. CASE fact # "ALLOWED"
  <2>1. AdvisoryDecision(w, answer, ClockOf[w]) = fact /\ fact \notin {"SAVED", "CONFLICT"}
    BY <1>2, <1>4 DEF AdvisoryDecision, FactDecision
  <2>2. UNCHANGED factVars /\ Become(w, FactRefused(w, fact))
    BY <2>1 DEF AcceptAdvisory
  <2>3. QED
    BY <1>b, <1>1, <1>2, <1>4, <2>2, RefusedFact
<1>5. QED
  BY <1>3, <1>4

LEMMA RaiseStep ==
    ASSUME ExeInv, NEW w \in Clients, Raise(w)
    PROVE  ExeInv' /\ [Next]_vars
<1>b. Bounded' /\ UNCHANGED <<vars, factVars, calls>> /\ local[w].pc \in {"interact", "invoke"}
  BY ExeParts DEF Raise, ReadOnly, Bounded
<1>1. PICK l : l = [Idle EXCEPT !.pc = "retry"]
  OBVIOUS
<1>2. l \in Coroutine /\ l.pc = "retry" /\ l.version = 0 /\ l.reason = "none"
  BY <1>1, PcNames, IdleIsACoroutine DEF Idle, Coroutine
<1>3. WorkerFits(w, l)
  BY <1>b, <1>2, CoroutineFits, ExeParts, TaskFields
     DEF WorkerFits, DraftFits, PlanFits, OutcomeFits, StepFits
<1>4. HolderFits(w, l)
  BY <1>b, <1>2, OwnerView DEF Owns, HolderFits, StatusKnown, RowsKnown,
     StepInFlight, ResultsKnown
<1>5. QED
  BY <1>b, <1>1, <1>2, <1>3, <1>4, LocalStep DEF Raise, Become

LEMMA StopsAndRestarts ==
    ASSUME ExeInv, NEW w \in Clients, Abandon(w) \/ Restart(w)
    PROVE  ExeInv' /\ [Next]_vars
<1>1. Bounded'
  <2>1. CASE Abandon(w)
    BY <2>1, ExeParts, ExecutionAssumption DEF Abandon, Bounded
  <2>2. CASE Restart(w)
    BY <2>2, ExeParts DEF Restart, ReadOnly, Bounded
  <2>3. QED
    BY <2>1, <2>2
<1>2. QED
  BY <1>1, GiveUp DEF Abandon, Restart, ReadOnly

-----------------------------------------------------------------------------
(***************************************************************************)
(* The status CAS.                                                         *)
(***************************************************************************)

\* What the rows need before the task moves to a status for a reason.
MayMove(to, reason) ==
    /\ to \in AllowedTransitions(task.status)
    /\ reason \in Reasons \ {"retry_exhausted", "submission_invariant_violation",
                             "recovery_drift"}
    /\ reason # "none" => to \in TerminalStatuses
    /\ reason = "conversation" => to = "SUCCEEDED" /\ interaction = "respond"
    /\ to = "AWAITING_APPROVAL" => approvals > 0
    /\ to = "CLARIFICATION_REQUIRED" => clarification
    /\ to \notin TerminalStatuses =>
         interaction = "respond" \/ (interaction \in Plans /\ plan = interaction)
    /\ (to = "SUCCEEDED" /\ reason # "conversation") => Sufficient /\ NoStepFailed
    /\ to \in TerminalStatuses =>
         \/ plan # NoPlan \/ to = "CLARIFICATION_REQUIRED"
         \/ to = "REJECTED" /\ interaction = "reject"
         \/ to = "SUCCEEDED" /\ reason = "conversation"

LEMMA RowsMove ==
    ASSUME ExeInv, NEW to, NEW reason, MayMove(to, reason),
           task.status \notin TerminalStatuses,
           task' = [task EXCEPT !.status = to, !.version = @ + 1,
                                !.terminal_reason = reason],
           audit' = Appended(TransitionEvents(to)),
           UNCHANGED <<sequence, plan, journal, evidence, approvals, grant, factVars>>
    PROVE  RowsFit'
<1>u. UNCHANGED <<interaction, advisory, clarification>>
  BY DEF factVars
<1>1. /\ task'.status = to /\ task'.terminal_reason = reason
      /\ task'.retry_command_digest = task.retry_command_digest
  BY ExeParts DEF TypeOK, TaskRecord
<1>2. audit'["reflection"] = IF to \in TerminalStatuses THEN 1 ELSE 0
  <2>1. audit["reflection"] = 0
    BY ExeParts DEF RowsFit, ReasonsFit
  <2>2. audit'["reflection"] = audit["reflection"]
           + (IF "reflection" \in (IF to \in TerminalStatuses THEN {"reflection", "lifecycle"}
                                   ELSE {"lifecycle"}) THEN 1 ELSE 0)
    BY DEF Appended, TransitionEvents, Events, AuditKinds
  <2>3. QED
    BY <2>1, <2>2
<1>3. {"respond", "clarify", "reject"} \cap Plans = {} /\ NoFact # "respond" /\ NoFact \notin Plans
  BY ExecutionAssumption, FactAssumption
<1>4. FactTypeOK' /\ PlanIsAccepted' /\ StepsBelongToPlan' /\ ConditionalStepJustified'
  BY <1>u, ExeParts DEF RowsFit, FactTypeOK, PlanIsAccepted, StepsBelongToPlan,
     ConditionalStepJustified
<1>5. NoRecoveryDrift' /\ DraftMovesTask' /\ WaitingIsBacked'
  BY <1>u, <1>1, <1>3 DEF MayMove, NoRecoveryDrift, DraftMovesTask, WaitingIsBacked,
     TerminalStatuses
<1>6. ReflectionAccounts' /\ ReasonsFit'
  <2>1. ~StoreTerminalized'
    BY <1>1 DEF MayMove, StoreTerminalized
  <2>2. ReflectionAccounts'
    BY <1>1, <1>2, <2>1 DEF ReflectionAccounts
  <2>3. QED
    BY <1>u, <1>1, <1>2, <2>1, <2>2
       DEF MayMove, ReasonsFit, NoStepFailed, Sufficient
<1>7. QED
  BY <1>u, <1>1, <1>4, <1>5, <1>6, ExeParts DEF RowsFit

\* An applied CAS.
LEMMA AppliedKeeps ==
    ASSUME ExeInv, NEW w \in Clients, HoldsGrant(w), NEW to, NEW reason, NEW next,
           NEW version \in Nat, version <= task.version,
           ClassifyTransition(to, version, grant[w].fencing_token, ClockOf[w]) = "APPLIED",
           VersionLeft,
           Transition(to, version, grant[w].fencing_token, reason,
                      TransitionEvents(to), ClockOf[w]),
           local' = [local EXCEPT ![w] = next], OffStore, next.pc # "invoke",
           MayMove(to, reason), WorkerFits(w, next)', HolderFits(w, next)'
    PROVE  ExeInv' /\ [Next]_vars
<1>t. TypeOK /\ task.status \in Statuses /\ task.version \in Nat /\ approvals \in Nat
  BY ExeParts, TaskFields DEF TypeOK
<1>1. to \in Statuses /\ task.status \notin TerminalStatuses
  BY <1>t, StatusClosure DEF MayMove
<1>2. [Next]_vars
  <2>1. /\ reason \in TerminalReasons /\ version \in 0 .. task.version
        /\ grant[w].fencing_token \in {0, grant[w].fencing_token}
        /\ reason # "none" => to \in TerminalStatuses
    BY <1>t, ExecutionAssumption DEF MayMove
  <2>2. ClientTransition(w, ClockOf[w])
    BY <1>1, <2>1 DEF ClientTransition
  <2>3. QED
    BY <2>2, CoroutineFits DEF ClientStep, Next
<1>3. TypeOK'
  BY <1>2, <1>t, NextTypeOK
<1>4. /\ task' = [task EXCEPT !.status = to, !.version = @ + 1, !.terminal_reason = reason]
      /\ audit' = Appended(TransitionEvents(to))
      /\ UNCHANGED <<sequence, plan, journal, evidence, approvals, grant>>
      /\ UNCHANGED <<factVars, calls, abandons, stalls>>
  BY DEF Transition, OffStore
<1>5. RowsFit'
  BY <1>1, <1>4, RowsMove
<1>6. Holder(w)
  <2>1. CheckFencing(grant[w].fencing_token, ClockOf[w]) = "ACCEPTED"
    BY DEF ClassifyTransition, CheckFencing
  <2>2. grant[w].fencing_token > 0 /\ grant[w].fencing_token \in Nat
    BY CoroutineFits
  <2>3. grant[w].fencing_token = task.fencing_token
    BY <2>1, <2>2 DEF CheckFencing
  <2>4. QED
    BY <1>1, <2>3 DEF Holder, CurrentAttempt
<1>7. Kept(w)
  <2>1. task'.fencing_token = task.fencing_token /\ task'.version = task.version + 1
    BY <1>4, <1>t DEF TypeOK, TaskRecord
  <2>2. \A d \in Clients \ {w} : ~Holder(d)'
    BY <1>1, <1>4, <1>6, <2>1, OneHolder, ExeParts DEF Holder, CurrentAttempt, HoldsGrant
  <2>3. QED
    BY <1>t, <1>4, <2>1, <2>2 DEF Kept, factVars
<1>8. CallsCharged'
  <2>1. \A s \in Steps : journal'[s].attempt_count >= journal[s].attempt_count
    BY <1>t, <1>4, JournalFields
  <2>2. QED
    BY <1>3, <1>4, <2>1, ChargesStay
<1>9. Bounded'
  BY <1>4, ExeParts DEF Bounded
<1>10. QED
  BY <1>2, <1>5, <1>7, <1>8, <1>9, StepKeeps

\* A refused CAS: the owner, whose version and target are right, only meets
\* the end of its lease.
LEMMA RefusedAdvance ==
    ASSUME ExeInv, NEW w \in Clients, HoldsGrant(w), NEW to, NEW decision,
           decision = ClassifyTransition(to, local[w].version, grant[w].fencing_token, ClockOf[w]),
           decision # "APPLIED",
           Holder(w) => /\ local[w].version = task.version
                        /\ to \in AllowedTransitions(task.status),
           Become(w, Rejected(w, decision)), UNCHANGED <<vars, factVars, calls>>, Bounded'
    PROVE  ExeInv' /\ [Next]_vars
<1>1. CASE Holder(w)
  <2>1. decision = CheckFencing(grant[w].fencing_token, ClockOf[w]) /\ decision # "ACCEPTED"
    BY <1>1 DEF ClassifyTransition, Holder
  <2>2. decision \in {"LEASE_NOT_HELD", "STALE_FENCING_TOKEN"}
    BY <2>1 DEF CheckFencing
  <2>3. QED
    BY <2>2, GiveUp DEF Rejected, LoserRejections
<1>2. CASE ~Holder(w)
  BY <1>2, GiveUp, StopLoser DEF Rejected
<1>3. QED
  BY <1>1, <1>2

\* Either way, for an owner whose version and target are right.
LEMMA AdvanceKeeps ==
    ASSUME ExeInv, NEW w \in Clients, HoldsGrant(w), NEW to, NEW reason, NEW next,
           Advance(w, to, reason, next), next.pc # "invoke",
           Holder(w) => local[w].version = task.version /\ MayMove(to, reason),
           (Holder(w) /\ Transition(to, local[w].version, grant[w].fencing_token, reason,
                                    TransitionEvents(to), ClockOf[w]))
             => WorkerFits(w, next)' /\ HolderFits(w, next)'
    PROVE  ExeInv' /\ [Next]_vars
<1> DEFINE decision == ClassifyTransition(to, local[w].version, grant[w].fencing_token, ClockOf[w])
<1>1. CASE decision = "APPLIED"
  <2>1. Holder(w)
    <3>1. task.status \notin TerminalStatuses
          /\ CheckFencing(grant[w].fencing_token, ClockOf[w]) = "ACCEPTED"
      BY <1>1 DEF ClassifyTransition, CheckFencing
    <3>2. grant[w].fencing_token = task.fencing_token
      BY <3>1, CoroutineFits DEF CheckFencing
    <3>3. QED
      BY <3>1, <3>2 DEF Holder, CurrentAttempt
  <2>2. local[w].version \in Nat /\ local[w].version <= task.version
    BY CoroutineFits DEF WorkerFits, Coroutine
  <2>3. QED
    BY <1>1, <2>1, <2>2, AppliedKeeps DEF Advance, Become
<1>2. CASE decision # "APPLIED"
  <2>1. UNCHANGED <<vars, factVars, calls>> /\ Become(w, Rejected(w, decision)) /\ Bounded'
    BY <1>2, ExeParts DEF Advance, OffStore, Bounded
  <2>2. QED
    BY <1>2, <2>1, RefusedAdvance DEF MayMove
<1>3. QED
  BY <1>1, <1>2

LEMMA TransitionFields ==
    ASSUME TypeOK, NEW to, NEW version, NEW token, NEW reason, NEW events, NEW now,
           Transition(to, version, token, reason, events, now)
    PROVE  /\ task'.status = to /\ task'.version = task.version + 1
           /\ task'.terminal_reason = reason /\ task'.fencing_token = task.fencing_token
           /\ UNCHANGED <<sequence, plan, journal, evidence, approvals, grant>>
BY DEF Transition, TypeOK, TaskRecord

\* An advance after which the attempt is over.
LEMMA AdvanceToIdle ==
    ASSUME ExeInv, NEW w \in Clients, HoldsGrant(w), NEW to, NEW reason,
           Advance(w, to, reason, Idle),
           Holder(w) => local[w].version = task.version /\ MayMove(to, reason)
    PROVE  ExeInv' /\ [Next]_vars
<1>1. PICK l : l = Idle
  OBVIOUS
<1>2. l \in Coroutine /\ l.pc = "idle" /\ l.version = 0
  BY <1>1, IdleIsACoroutine DEF Idle
<1>3. ASSUME Transition(to, local[w].version, grant[w].fencing_token, reason,
                        TransitionEvents(to), ClockOf[w])
      PROVE  WorkerFits(w, l)' /\ HolderFits(w, l)'
  <2>1. task'.version = task.version + 1 /\ task.version \in Nat
    BY <1>3, ExeParts, TransitionFields, TaskFields
  <2>2. QED
    BY <1>2, <2>1 DEF WorkerFits, DraftFits, PlanFits, OutcomeFits, StepFits, HolderFits, Owns
<1>4. QED
  BY <1>1, <1>2, <1>3, AdvanceKeeps

\* An advance after which the attempt goes on, with the version it made.
LEMMA AdvanceGoesOn ==
    ASSUME ExeInv, NEW w \in Clients, HoldsGrant(w), NEW to, NEW l \in Coroutine,
           Advance(w, to, "none", l),
           Holder(w) => local[w].version = task.version /\ MayMove(to, "none"),
           l.version = local[w].version + 1, l.reason = local[w].reason,
           l.draft = local[w].draft, l.draft = interaction,
           \/ /\ l.pc = "converse" /\ l.status = to /\ l.draft = "respond"
              /\ local[w].pc = "converse" /\ to \in DispatchStatuses
           \/ /\ l.pc = "to_running" /\ to = "PLANNING" /\ l.draft \in Plans /\ plan = l.draft
              /\ local[w].pc = "to_planning"
           \/ /\ l.pc = "load_steps" /\ to = "RUNNING" /\ l.draft \in Plans /\ plan = l.draft
              /\ local[w].pc = "to_running"
    PROVE  ExeInv' /\ [Next]_vars
<1>1. ASSUME Holder(w), Transition(to, local[w].version, grant[w].fencing_token, "none",
                                   TransitionEvents(to), ClockOf[w]), UNCHANGED interaction
      PROVE  WorkerFits(w, l)' /\ HolderFits(w, l)'
  <2>1. /\ task'.status = to /\ task'.version = task.version + 1
        /\ task'.fencing_token = task.fencing_token
        /\ UNCHANGED <<sequence, plan, journal, evidence, approvals, grant>>
        /\ task.version \in Nat
    BY <1>1, ExeParts, TransitionFields, TaskFields
  <2>2. l.version = task'.version
    BY <1>1, <2>1
  <2>3. WorkerFits(w, l)'
    BY <1>1, <2>1, <2>2 DEF WorkerFits, DraftFits, PlanFits, OutcomeFits, StepFits, HoldsGrant
  <2>4. Owns(w, local[w])
    BY <1>1 DEF Owns
  <2>5. RowsKnown(l)' /\ StepInFlight(w, l)' /\ ResultsKnown(l)'
    BY <1>1, <2>1, <2>4, OwnerView DEF RowsKnown, StepInFlight, ResultsKnown
  <2>6. StatusKnown(l)'
    BY <2>1, <2>2 DEF StatusKnown, DispatchStatuses
  <2>7. QED
    BY <2>3, <2>5, <2>6 DEF HolderFits
<1>2. UNCHANGED interaction
  BY DEF Advance, OffStore, factVars
<1>3. QED
  BY <1>1, <1>2, AdvanceKeeps

LEMMA ConverseStep ==
    ASSUME ExeInv, NEW w \in Clients, Converse(w)
    PROVE  ExeInv' /\ [Next]_vars
<1>1. /\ local[w] \in Coroutine /\ local[w].pc = "converse" /\ HoldsGrant(w)
      /\ local[w].draft = interaction /\ interaction = "respond"
      /\ local[w].status \in DispatchStatuses
      /\ local[w].version + 1 \in Nat
  BY CoroutineFits DEF Converse, At, WorkerFits, DraftFits, Coroutine
<1>2. Holder(w) => local[w].version = task.version /\ local[w].status = task.status
  BY <1>1, OwnerView DEF Owns, StatusKnown
<1>3. CASE local[w].status = "RUNNING"
  <2>1. Advance(w, "SUCCEEDED", "conversation", Idle)
    BY <1>3 DEF Converse
  <2>2. Holder(w) => MayMove("SUCCEEDED", "conversation")
    BY <1>1, <1>2, <1>3 DEF MayMove, AllowedTransitions, Reasons, TerminalStatuses
  <2>3. QED
    BY <1>1, <1>2, <2>1, <2>2, AdvanceToIdle
<1>4. ASSUME NEW to \in {"PLANNING", "RUNNING"},
             local[w].status = IF to = "PLANNING" THEN "CREATED" ELSE "PLANNING",
             Advance(w, to, "none", [Advanced(w, "converse") EXCEPT !.status = to])
      PROVE  ExeInv' /\ [Next]_vars
  <2>1. PICK l : l = [Advanced(w, "converse") EXCEPT !.status = to]
    OBVIOUS
  <2>2. to \in Statuses /\ to \notin TerminalStatuses /\ to \in DispatchStatuses
    BY DEF Statuses, TerminalStatuses, DispatchStatuses
  <2>3. /\ l \in Coroutine /\ l.pc = "converse" /\ l.status = to
        /\ l.version = local[w].version + 1 /\ l.reason = local[w].reason
        /\ l.draft = local[w].draft
    BY <1>1, <2>1, <2>2, PcNames DEF Advanced, Coroutine
  <2>4. Holder(w) => MayMove(to, "none")
    BY <1>1, <1>2, <1>4, <2>2 DEF MayMove, AllowedTransitions, Reasons
  <2>5. QED
    BY <1>1, <1>2, <1>4, <2>1, <2>2, <2>3, <2>4, AdvanceGoesOn
<1>5. QED
  BY <1>1, <1>3, <1>4 DEF Converse, DispatchStatuses

LEMMA ToPlanningStep ==
    ASSUME ExeInv, NEW w \in Clients, ToPlanning(w)
    PROVE  ExeInv' /\ [Next]_vars
<1>1. /\ local[w] \in Coroutine /\ local[w].pc = "to_planning" /\ HoldsGrant(w)
      /\ local[w].draft = interaction /\ interaction \in Plans /\ plan = interaction
      /\ local[w].version + 1 \in Nat
  BY CoroutineFits DEF ToPlanning, At, WorkerFits, DraftFits, PlanFits, Coroutine
<1>2. Holder(w) => local[w].version = task.version /\ task.status = "CREATED"
  BY <1>1, OwnerView DEF Owns, StatusKnown
<1>3. PICK l : l = Advanced(w, "to_running")
  OBVIOUS
<1>4. /\ l \in Coroutine /\ l.pc = "to_running" /\ l.draft = local[w].draft
      /\ l.version = local[w].version + 1 /\ l.reason = local[w].reason
  BY <1>1, <1>3, PcNames DEF Advanced, Coroutine
<1>5. Holder(w) => MayMove("PLANNING", "none")
  BY <1>1, <1>2 DEF MayMove, AllowedTransitions, Reasons, TerminalStatuses
<1>6. Advance(w, "PLANNING", "none", l)
  BY <1>3 DEF ToPlanning
<1>7. QED
  BY <1>1, <1>2, <1>4, <1>5, <1>6, AdvanceGoesOn

LEMMA ToRunningStep ==
    ASSUME ExeInv, NEW w \in Clients, ToRunning(w)
    PROVE  ExeInv' /\ [Next]_vars
<1>1. /\ local[w] \in Coroutine /\ local[w].pc = "to_running" /\ HoldsGrant(w)
      /\ local[w].draft = interaction /\ interaction \in Plans /\ plan = interaction
      /\ local[w].version + 1 \in Nat
  BY CoroutineFits DEF ToRunning, At, WorkerFits, DraftFits, PlanFits, Coroutine
<1>2. Holder(w) => local[w].version = task.version /\ task.status = "PLANNING"
  BY <1>1, OwnerView DEF Owns, StatusKnown
<1>3. PICK l : l = Advanced(w, "load_steps")
  OBVIOUS
<1>4. /\ l \in Coroutine /\ l.pc = "load_steps" /\ l.draft = local[w].draft
      /\ l.version = local[w].version + 1 /\ l.reason = local[w].reason
  BY <1>1, <1>3, PcNames DEF Advanced, Coroutine
<1>5. Holder(w) => MayMove("RUNNING", "none")
  BY <1>1, <1>2 DEF MayMove, AllowedTransitions, Reasons, TerminalStatuses
<1>6. Advance(w, "RUNNING", "none", l)
  BY <1>3 DEF ToRunning
<1>7. QED
  BY <1>1, <1>2, <1>4, <1>5, <1>6, AdvanceGoesOn

LEMMA ToAwaitingStep ==
    ASSUME ExeInv, NEW w \in Clients, ToAwaiting(w)
    PROVE  ExeInv' /\ [Next]_vars
<1>1. /\ local[w].pc = "to_awaiting" /\ HoldsGrant(w)
      /\ local[w].draft = interaction /\ interaction \in Plans /\ plan = interaction
      /\ approvals > 0
  BY CoroutineFits DEF ToAwaiting, At, WorkerFits, DraftFits, PlanFits, StepFits
<1>2. Holder(w) => local[w].version = task.version /\ task.status = "RUNNING"
  BY <1>1, OwnerView DEF Owns, StatusKnown
<1>3. Holder(w) => MayMove("AWAITING_APPROVAL", "none")
  BY <1>1, <1>2 DEF MayMove, AllowedTransitions, Reasons, TerminalStatuses
<1>4. QED
  BY <1>1, <1>2, <1>3, AdvanceToIdle DEF ToAwaiting

LEMMA FinalStep ==
    ASSUME ExeInv, NEW w \in Clients, Final(w)
    PROVE  ExeInv' /\ [Next]_vars
<1> DEFINE outcome == local[w].outcome  reason == local[w].reason  draft == local[w].draft
<1>1. /\ local[w].pc = "final" /\ HoldsGrant(w) /\ draft = interaction
      /\ draft \in {"clarify", "reject"} \cup Plans
      /\ draft = "clarify" => outcome = "CLARIFICATION_REQUIRED" /\ clarification
      /\ draft = "reject" => outcome = "REJECTED"
      /\ draft \in Plans => outcome \in PlanOutcomes
      /\ draft \in Plans /\ reason # "recovery_drift" => plan = draft
      /\ reason \in RunReasons
  BY CoroutineFits DEF Final, At, WorkerFits, DraftFits, PlanFits, OutcomeFits, Coroutine
<1>2. Holder(w) => /\ local[w].version = task.version /\ reason # "recovery_drift"
                   /\ task.status \in DispatchStatuses
                   /\ draft \in Plans => task.status = "RUNNING"
                   /\ outcome = "SUCCEEDED" => NoStepFailed /\ Sufficient
  BY <1>1, OwnerView DEF Owns, StatusKnown, RowsKnown, ResultsKnown
<1>3. Holder(w) => MayMove(outcome, reason)
  <2> SUFFICES ASSUME Holder(w) PROVE MayMove(outcome, reason)
    OBVIOUS
  <2>1. reason \in Reasons \ {"retry_exhausted", "submission_invariant_violation",
                              "recovery_drift", "conversation"}
    BY <1>1, <1>2 DEF RunReasons, Reasons
  <2>2. NoPlan \notin Plans
    BY StoreAssumption
  <2>3. CASE draft = "clarify"
    <3>1. task.status \in {"CREATED", "PLANNING"}
      BY <1>1, <1>2, <2>3, ExeParts DEF RowsFit, DraftMovesTask, DispatchStatuses,
         TerminalStatuses
    <3>2. QED
      BY <1>1, <2>1, <2>3, <3>1 DEF MayMove, AllowedTransitions, TerminalStatuses
  <2>4. CASE draft = "reject"
    BY <1>1, <1>2, <2>1, <2>4
       DEF MayMove, AllowedTransitions, TerminalStatuses, DispatchStatuses
  <2>5. CASE draft \in Plans
    BY <1>1, <1>2, <2>1, <2>2, <2>5
       DEF MayMove, AllowedTransitions, TerminalStatuses, PlanOutcomes
  <2>6. QED
    BY <1>1, <2>3, <2>4, <2>5
<1>4. QED
  BY <1>1, <1>2, <1>3, AdvanceToIdle DEF Final

-----------------------------------------------------------------------------
(***************************************************************************)
(* Steps that leave the status, the token and the journal alone.           *)
(***************************************************************************)
LEMMA LeaseOnly ==
    ASSUME ExeInv, TypeOK',
           UNCHANGED <<task.status, task.version, task.fencing_token, task.terminal_reason,
                       task.retry_command_digest, sequence, plan, journal, evidence, audit,
                       grant, factVars>>,
           approvals' >= approvals
    PROVE  /\ RowsFit'
           /\ \A w \in Clients : Kept(w)
           /\ \A w \in Clients : \A l : WorkerFits(w, l) => WorkerFits(w, l)'
           /\ \A w \in Clients : \A l : HolderFits(w, l) => HolderFits(w, l)'
<1>u. UNCHANGED <<interaction, advisory, clarification>>
  BY DEF factVars
<1>t. task.version \in Nat /\ approvals \in Nat /\ approvals' \in Nat
  BY ExeParts, TaskFields DEF TypeOK
<1>1. RowsFit'
  BY <1>u, <1>t, ExeParts DEF RowsFit, FactTypeOK, NoRecoveryDrift, PlanIsAccepted,
     DraftMovesTask, StepsBelongToPlan, ConditionalStepJustified, WaitingIsBacked,
     ReflectionAccounts, ReasonsFit, StoreTerminalized, Sufficient, NoStepFailed
<1>2. \A w \in Clients : Kept(w)
  BY <1>u, <1>t DEF Kept, Holder, CurrentAttempt, HoldsGrant
<1>3. ASSUME NEW w \in Clients, NEW l, WorkerFits(w, l)
      PROVE  WorkerFits(w, l)'
  BY <1>u, <1>t, <1>3
     DEF WorkerFits, DraftFits, PlanFits, OutcomeFits, StepFits, HoldsGrant, InSteps
<1>4. ASSUME NEW w \in Clients, NEW l, HolderFits(w, l)
      PROVE  HolderFits(w, l)'
  BY <1>u, <1>4 DEF HolderFits, Owns, Holder, CurrentAttempt, HoldsGrant, StatusKnown,
     RowsKnown, StepInFlight, ResultsKnown, NoStepFailed, Sufficient, StepAt
<1>5. QED
  BY <1>1, <1>2, <1>3, <1>4

\* Without a move of any coroutine.
LEMMA LeaseOnlyKeeps ==
    ASSUME ExeInv, [Next]_vars, UNCHANGED <<local, calls>>, Bounded',
           UNCHANGED <<task.status, task.version, task.fencing_token, task.terminal_reason,
                       task.retry_command_digest, sequence, plan, journal, evidence,
                       approvals, audit, grant, factVars>>
    PROVE  ExeInv'
<1>1. StoreInv' /\ TypeOK' /\ approvals \in Nat
  BY ExeParts, NextStoreInv DEF StoreInv, TypeOK
<1>2. approvals' >= approvals
  BY <1>1
<1>3. /\ RowsFit'
      /\ \A w \in Clients : \A l : WorkerFits(w, l) => WorkerFits(w, l)'
      /\ \A w \in Clients : \A l : HolderFits(w, l) => HolderFits(w, l)'
  BY <1>1, <1>2, LeaseOnly
<1>4. ASSUME NEW w \in Clients
      PROVE  WorkerFits(w, local[w])' /\ HolderFits(w, local[w])'
  <2>1. PICK l : l = local[w] /\ l = local'[w]
    OBVIOUS
  <2>2. WorkerFits(w, l) /\ HolderFits(w, l)
    BY <2>1, CoroutineFits
  <2>3. WorkerFits(w, l)' /\ HolderFits(w, l)'
    BY <1>3, <2>2
  <2>4. QED
    BY <2>1, <2>3
<1>5. CallsCharged'
  BY ExeParts DEF CallsCharged, Pending, At
<1>6. QED
  BY <1>1, <1>3, <1>4, <1>5 DEF ExeInv

LEMMA RenewFields ==
    ASSUME TypeOK, NEW c \in Clients, NEW now, RenewLease(c, now)
    PROVE  UNCHANGED <<task.status, task.version, task.fencing_token, task.terminal_reason,
                       task.retry_command_digest, sequence, plan, journal, evidence,
                       approvals, audit, grant>>
BY DEF RenewLease, TypeOK, TaskRecord

LEMMA RenewIsStoreStep ==
    ASSUME NEW w \in Clients, RenewLease(w, ClockOf[w]), ClockOf[w] \in Readings
    PROVE  [Next]_vars
BY DEF ClientStep, Next

LEMMA HeartbeatStep ==
    ASSUME ExeInv, NEW w \in Clients, Heartbeat(w)
    PROVE  ExeInv' /\ [Next]_vars
<1>b. Bounded' /\ UNCHANGED <<factVars, calls>>
  BY ExeParts DEF Heartbeat, OffStore, Bounded
<1>1. CASE MayRenewLease(OwnerOf[w], grant[w].fencing_token, ClockOf[w])
  <2>1. RenewLease(w, ClockOf[w]) /\ UNCHANGED local
    BY <1>1 DEF Heartbeat
  <2>2. [Next]_vars
    BY <2>1, RenewIsStoreStep, CoroutineFits
  <2>3. QED
    BY <1>b, <2>1, <2>2, RenewFields, ExeParts, LeaseOnlyKeeps
<1>2. CASE ~MayRenewLease(OwnerOf[w], grant[w].fencing_token, ClockOf[w])
  BY <1>b, <1>2, GiveUp DEF Heartbeat
<1>3. QED
  BY <1>1, <1>2

LEMMA TimePassesStep ==
    ASSUME ExeInv, TimePasses
    PROVE  ExeInv' /\ [Next]_vars
<1>1. [Next]_vars
  BY DEF TimePasses, Next
<1>2. UNCHANGED <<task.status, task.version, task.fencing_token, task.terminal_reason,
                  task.retry_command_digest, sequence, plan, journal, evidence,
                  approvals, audit, grant, factVars, local, calls>>
  BY ExeParts DEF TimePasses, Tick, TypeOK, TaskRecord
<1>3. Bounded'
  BY ExeParts, ExecutionAssumption DEF TimePasses, Bounded
<1>4. QED
  BY <1>1, <1>2, <1>3, LeaseOnlyKeeps

LEMMA RequireCurrentGrantStep ==
    ASSUME ExeInv, NEW w \in Clients,
           NEW from, NEW next, RequireCurrentGrant(w, from, next),
           \/ from = "renew_start" /\ next = "start_journal"
           \/ from = "renew_resume" /\ next = "resume_plan"
    PROVE  ExeInv' /\ [Next]_vars
<1>b. Bounded' /\ UNCHANGED <<factVars, calls>> /\ local[w].pc = from
  BY ExeParts DEF RequireCurrentGrant, At, OffStore, Bounded
<1>1. CASE MayRenewLease(OwnerOf[w], grant[w].fencing_token, ClockOf[w])
  <2>1. PICK l : l = [local[w] EXCEPT !.pc = next]
    OBVIOUS
  <2>2. RenewLease(w, ClockOf[w]) /\ local' = [local EXCEPT ![w] = l]
    BY <1>1, <2>1 DEF RequireCurrentGrant, Become
  <2>3. [Next]_vars
    BY <2>2, RenewIsStoreStep, CoroutineFits
  <2>4. UNCHANGED <<task.status, task.version, task.fencing_token, task.terminal_reason,
                    task.retry_command_digest, sequence, plan, journal, evidence,
                    approvals, audit, grant>>
    BY <2>2, RenewFields, ExeParts
  <2>5. /\ l \in Coroutine /\ l.pc = next /\ l.draft = local[w].draft
        /\ l.version = local[w].version /\ l.reason = local[w].reason
    BY <2>1, PcNames, CoroutineFits DEF Coroutine
  <2>6. WorkerFits(w, l)
    BY <1>b, <2>5, CoroutineFits DEF WorkerFits, DraftFits, PlanFits, OutcomeFits, StepFits
  <2>7. HolderFits(w, l)
    BY <1>b, <2>5, OwnerView DEF Owns, HolderFits, StatusKnown, RowsKnown,
       StepInFlight, ResultsKnown
  <2>8. TypeOK' /\ approvals' >= approvals
        /\ \A s \in Steps : journal'[s].attempt_count >= journal[s].attempt_count
    BY <2>3, <2>4, ExeParts, NextTypeOK, JournalFields DEF TypeOK
  <2>9. RowsFit' /\ Kept(w) /\ WorkerFits(w, l)' /\ HolderFits(w, l)'
    BY <1>b, <2>4, <2>6, <2>7, <2>8, LeaseOnly
  <2>10. CallsCharged'
    BY <1>b, <2>2, <2>5, <2>8, ChargesStay
  <2>11. QED
    BY <1>b, <2>2, <2>3, <2>9, <2>10, StepKeeps
<1>2. CASE ~MayRenewLease(OwnerOf[w], grant[w].fencing_token, ClockOf[w])
  BY <1>b, <1>2, GiveUp DEF RequireCurrentGrant
<1>3. QED
  BY <1>1, <1>2

LEMMA PauseRequestStep ==
    ASSUME ExeInv, NEW w \in Clients, PauseRequest(w)
    PROVE  ExeInv' /\ [Next]_vars
<1>1. PICK l : l = [local[w] EXCEPT !.pc = "pause_get"]
  OBVIOUS
<1>2. /\ RecordApproval /\ ApprovalLeft /\ local[w].pc = "approve"
      /\ local' = [local EXCEPT ![w] = l] /\ UNCHANGED <<factVars, calls>> /\ Bounded'
  BY <1>1, ExeParts DEF PauseRequest, At, Become, OffStore, Bounded
<1>3. [Next]_vars
  BY <1>2 DEF Next
<1>4. approvals \in Nat /\ approvals' = approvals + 1
      /\ UNCHANGED <<task, sequence, plan, journal, evidence, audit, grant>>
  BY <1>2, ExeParts DEF RecordApproval, TypeOK
<1>5. /\ l \in Coroutine /\ l.pc = "pause_get" /\ l.draft = local[w].draft
      /\ l.version = local[w].version /\ l.reason = local[w].reason
  BY <1>1, PcNames, CoroutineFits DEF Coroutine
<1>u. UNCHANGED <<interaction, advisory, clarification>>
  BY <1>2 DEF factVars
<1>6. WorkerFits(w, l)'
  BY <1>2, <1>4, <1>5, <1>u, CoroutineFits
     DEF WorkerFits, DraftFits, PlanFits, OutcomeFits, StepFits, HoldsGrant
<1>7. HolderFits(w, l)'
  BY <1>2, <1>4, <1>5, <1>u, OwnerView DEF Owns, HolderFits, Holder, CurrentAttempt, HoldsGrant,
     StatusKnown, RowsKnown, StepInFlight, ResultsKnown
<1>8. TypeOK' /\ approvals' >= approvals
      /\ \A s \in Steps : journal'[s].attempt_count >= journal[s].attempt_count
  BY <1>3, <1>4, ExeParts, NextTypeOK, JournalFields DEF TypeOK
<1>9. RowsFit' /\ Kept(w)
  BY <1>2, <1>4, <1>8, LeaseOnly
<1>10. CallsCharged'
  BY <1>2, <1>5, <1>8, ChargesStay
<1>11. QED
  BY <1>2, <1>3, <1>6, <1>7, <1>9, <1>10, StepKeeps

\* The unfenced save of the plan: whoever saves, saves the accepted draft.
LEMMA StartPlanStep ==
    ASSUME ExeInv, NEW w \in Clients, StartPlan(w)
    PROVE  ExeInv' /\ [Next]_vars
<1>1. /\ local[w].pc = "save_plan" /\ local[w].draft = interaction /\ interaction \in Plans
      /\ plan \in {NoPlan, interaction} /\ NoPlan \notin Plans /\ Bounded'
      /\ UNCHANGED <<factVars, calls>>
  BY CoroutineFits, ExeParts, StoreAssumption
     DEF StartPlan, At, WorkerFits, DraftFits, RowsFit, PlanIsAccepted, OffStore, Bounded
<1>2. PICK l : l = [local[w] EXCEPT !.pc = "start_get"]
  OBVIOUS
<1>3. local' = [local EXCEPT ![w] = l]
  BY <1>1, <1>2 DEF StartPlan, Become
<1>4. plan' = interaction
      /\ UNCHANGED <<task, sequence, journal, evidence, approvals, audit, grant>>
  BY <1>1 DEF StartPlan, SavePlan, vars, storeVars
<1>5. [Next]_vars
  <2>1. CASE plan = NoPlan
    BY <1>1, <2>1 DEF StartPlan, Next
  <2>2. CASE plan # NoPlan
    BY <2>2 DEF StartPlan
  <2>3. QED
    BY <2>1, <2>2
<1>6. /\ l \in Coroutine /\ l.pc = "start_get" /\ l.draft = local[w].draft
      /\ l.version = local[w].version /\ l.reason = local[w].reason
  BY <1>2, PcNames, CoroutineFits DEF Coroutine
<1>u. UNCHANGED <<interaction, advisory, clarification>>
  BY <1>1 DEF factVars
<1>7. WorkerFits(w, l)'
  BY <1>1, <1>4, <1>6, <1>u, CoroutineFits
     DEF WorkerFits, DraftFits, PlanFits, OutcomeFits, StepFits, HoldsGrant
<1>8. HolderFits(w, l)'
  BY <1>1, <1>4, <1>6, <1>u, OwnerView DEF Owns, HolderFits, Holder, CurrentAttempt, HoldsGrant,
     StatusKnown, RowsKnown, StepInFlight, ResultsKnown
<1>9. /\ TypeOK' /\ approvals' >= approvals /\ task'.version >= task.version
      /\ \A s \in Steps : journal'[s].attempt_count >= journal[s].attempt_count
  BY <1>4, <1>5, ExeParts, NextTypeOK, JournalFields, TaskFields DEF TypeOK
<1>10. Kept(w)
  BY <1>1, <1>4, <1>9, <1>u DEF Kept
<1>11. RowsFit'
  BY <1>1, <1>4, <1>u, ExeParts DEF RowsFit, FactTypeOK, NoRecoveryDrift, PlanIsAccepted,
     DraftMovesTask, StepsBelongToPlan, ConditionalStepJustified, WaitingIsBacked,
     ReflectionAccounts, ReasonsFit, StoreTerminalized, Sufficient, NoStepFailed
<1>12. CallsCharged'
  BY <1>1, <1>3, <1>6, <1>9, ChargesStay
<1>13. QED
  BY <1>1, <1>3, <1>5, <1>7, <1>8, <1>10, <1>11, <1>12, StepKeeps

-----------------------------------------------------------------------------
(***************************************************************************)
(* Grants, retries and the end by the store: the token or the status moves *)
(* away from everybody else.                                               *)
(***************************************************************************)
LEMMA NobodyElse ==
    ASSUME ExeInv, NEW w \in Clients, \A d \in Clients \ {w} : grant'[d] = grant[d],
           task'.fencing_token = sequence + 1 \/ task'.status \in TerminalStatuses,
           task'.version >= task.version,
           UNCHANGED <<plan, approvals, factVars>>
    PROVE  Kept(w)
<1>1. ASSUME NEW d \in Clients, d # w PROVE ~Holder(d)'
  <2>1. grant[d].fencing_token <= sequence /\ grant[d].fencing_token \in Nat /\ sequence \in Nat
    BY ExeParts, GrantFields DEF TokensOrdered, TypeOK
  <2>2. grant'[d].fencing_token # sequence + 1
    BY <1>1, <2>1
  <2>3. QED
    BY <2>2 DEF Holder, CurrentAttempt
<1>2. approvals \in Nat
  BY ExeParts DEF TypeOK
<1>3. QED
  BY <1>1, <1>2 DEF Kept, factVars

LEMMA GrantUpdateFields ==
    ASSUME TypeOK, NEW c \in Clients, NEW now, GrantAttempt(c, now)
    PROVE  /\ UNCHANGED <<task.status, task.version, task.terminal_reason,
                          task.retry_command_digest, plan, journal, evidence,
                          approvals, audit>>
           /\ sequence' = sequence + 1 /\ task'.fencing_token = sequence + 1
           /\ grant'[c] = [fencing_token |-> sequence + 1,
                           attempt_number |-> task.attempt_number + 1]
           /\ \A d \in Clients \ {c} : grant'[d] = grant[d]
BY DEF GrantAttempt, TypeOK, TaskRecord

LEMMA FailedFields ==
    ASSUME TypeOK, NEW reason, TerminalizeAttemptRejection(reason)
    PROVE  /\ task'.status = "FAILED" /\ task'.version = task.version + 1
           /\ task'.terminal_reason = reason
           /\ task'.retry_command_digest = task.retry_command_digest
           /\ audit'["reflection"] = audit["reflection"]
           /\ UNCHANGED <<sequence, plan, journal, evidence, approvals, grant>>
BY DEF TerminalizeAttemptRejection, TypeOK, TaskRecord, Appended, Events, AuditKinds

LEMMA BeginAttemptStep ==
    ASSUME ExeInv, NEW w \in Clients, BeginAttempt(w)
    PROVE  ExeInv' /\ [Next]_vars
<1> DEFINE now == ClockOf[w]
<1>1. PICK intact \in SubmissionReads :
         /\ BeginTaskAttempt(w, "DISPATCH", intact, now)
         /\ Become(w, IF sequence' # sequence THEN [Idle EXCEPT !.pc = "get"] ELSE Idle)
  BY DEF BeginAttempt
<1>b. /\ Bounded' /\ UNCHANGED <<factVars, calls>> /\ TokenLeft /\ VersionLeft
      /\ UNCHANGED <<interaction, advisory, clarification>>
  BY ExeParts DEF BeginAttempt, OffStore, Bounded, factVars
<1>2. [Next]_vars
  BY <1>1, <1>b, CoroutineFits DEF ClientStep, Next
<1>t. TypeOK /\ TypeOK' /\ task.version \in Nat /\ sequence \in Nat /\ task.attempt_number \in Nat
      /\ \A s \in Steps : journal[s].attempt_count \in Nat
  BY <1>2, ExeParts, NextTypeOK, TaskFields, JournalFields
<1>3. ASSUME NEW reason \in {"retry_exhausted", "submission_invariant_violation"},
             TerminalizeAttemptRejection(reason), task.status \notin TerminalStatuses
      PROVE  ExeInv'
  <2>1. PICK l : l = Idle
    OBVIOUS
  <2>f. /\ task'.status = "FAILED" /\ task'.version = task.version + 1
        /\ task'.terminal_reason = reason
        /\ task'.retry_command_digest = task.retry_command_digest
        /\ audit'["reflection"] = audit["reflection"]
        /\ UNCHANGED <<sequence, plan, journal, evidence, approvals, grant>>
    BY <1>3, <1>t, FailedFields
  <2>2. local' = [local EXCEPT ![w] = l]
    BY <1>1, <1>t, <2>1, <2>f DEF Become
  <2>3. l \in Coroutine /\ l.pc = "idle" /\ l.version = 0
    BY <2>1, IdleIsACoroutine DEF Idle
  <2>4. WorkerFits(w, l)' /\ HolderFits(w, l)'
    BY <1>t, <2>3, <2>f
       DEF WorkerFits, DraftFits, PlanFits, OutcomeFits, StepFits, HolderFits, Owns
  <2>5. Kept(w)
    BY <1>b, <1>t, <2>f, NobodyElse DEF TerminalStatuses
  <2>6. RowsFit'
    BY <1>b, <1>3, <2>f, ExeParts DEF RowsFit, FactTypeOK, NoRecoveryDrift, PlanIsAccepted,
       DraftMovesTask, StepsBelongToPlan, ConditionalStepJustified, WaitingIsBacked,
       ReflectionAccounts, ReasonsFit, StoreTerminalized, TerminalStatuses
  <2>7. CallsCharged'
    <3>1. \A s \in Steps : journal'[s].attempt_count >= journal[s].attempt_count
      BY <1>t, <2>f
    <3>2. QED
      BY <1>b, <1>t, <2>2, <2>3, <3>1, ChargesStay
  <2>8. QED
    BY <1>2, <1>b, <2>2, <2>4, <2>5, <2>6, <2>7, StepKeeps
<1>4. ASSUME GrantAttempt(w, now), task.status \in DispatchStatuses
      PROVE  ExeInv'
  <2>f. /\ UNCHANGED <<task.status, task.version, task.terminal_reason,
                       task.retry_command_digest, plan, journal, evidence,
                       approvals, audit>>
        /\ sequence' = sequence + 1 /\ task'.fencing_token = sequence + 1
        /\ grant'[w] = [fencing_token |-> sequence + 1,
                        attempt_number |-> task.attempt_number + 1]
        /\ \A d \in Clients \ {w} : grant'[d] = grant[d]
    BY <1>4, <1>t, GrantUpdateFields
  <2>1. PICK l : l = [Idle EXCEPT !.pc = "get"]
    OBVIOUS
  <2>2. local' = [local EXCEPT ![w] = l]
    <3>1. sequence' # sequence
      BY <1>t, <2>f
    <3>2. QED
      BY <1>1, <2>1, <3>1 DEF Become
  <2>3. l \in Coroutine /\ l.pc = "get" /\ l.version = 0 /\ l.reason = "none"
    BY <2>1, IdleIsACoroutine, PcNames DEF Idle, Coroutine
  <2>4. WorkerFits(w, l)'
    <3>1. HoldsGrant(w)'
      BY <1>t, <2>f DEF HoldsGrant
    <3>2. QED
      BY <1>t, <2>3, <2>f, <3>1 DEF WorkerFits, DraftFits, PlanFits, OutcomeFits, StepFits
  <2>5. HolderFits(w, l)'
    <3>1. \A s \in Steps : journal[s].last_fencing_token # sequence + 1
      <4>1. task.fencing_token <= sequence /\ task.fencing_token \in Nat
            /\ \A s \in Steps : /\ journal[s].last_fencing_token <= task.fencing_token
                                /\ journal[s].last_fencing_token \in Nat
        BY ExeParts, TaskFields, JournalFields DEF TokensOrdered
      <4>2. QED
        BY <1>t, <4>1
    <3>2. QED
      BY <1>4, <2>3, <2>f, <3>1 DEF HolderFits, StatusKnown, RowsKnown, StepInFlight,
         ResultsKnown
  <2>6. Kept(w)
    BY <1>b, <1>t, <2>f, NobodyElse
  <2>7. sequence' <= MaxToken
    BY <1>b, <1>t, <2>f, StoreAssumption DEF TokenLeft
  <2>8. RowsFit'
    BY <1>b, <2>f, <2>7, ExeParts DEF RowsFit, FactTypeOK, NoRecoveryDrift, PlanIsAccepted,
       DraftMovesTask, StepsBelongToPlan, ConditionalStepJustified, WaitingIsBacked,
       ReflectionAccounts, ReasonsFit, StoreTerminalized, Sufficient, NoStepFailed
  <2>9. CallsCharged'
    <3>1. \A s \in Steps : journal'[s].attempt_count >= journal[s].attempt_count
      BY <1>t, <2>f
    <3>2. QED
      BY <1>b, <1>t, <2>2, <2>3, <3>1, ChargesStay
  <2>10. QED
    BY <1>2, <1>b, <2>2, <2>4, <2>5, <2>6, <2>8, <2>9, StepKeeps
<1>5. /\ task.status \notin TerminalStatuses /\ task.status \in DispatchStatuses
  BY <1>1, <1>t, AttemptDecision DEF BeginTaskAttempt, AttemptStatuses
<1>6. QED
  BY <1>1, <1>2, <1>3, <1>4, <1>5 DEF BeginTaskAttempt

LEMMA RetryFieldsOf ==
    ASSUME TypeOK, NEW c \in Clients, NEW digest, NEW now, ScheduleRetry(c, digest, now)
    PROVE  /\ UNCHANGED <<task.status, task.terminal_reason, plan, journal, evidence,
                          approvals, grant>>
           /\ task'.version = task.version + 1 /\ task'.retry_command_digest = digest
           /\ sequence' = sequence + 1 /\ task'.fencing_token = sequence + 1
           /\ audit'["reflection"] = audit["reflection"]
BY DEF ScheduleRetry, TypeOK, TaskRecord, Appended, Events, AuditKinds

LEMMA RetryStep ==
    ASSUME ExeInv, NEW w \in Clients, Retry(w)
    PROVE  ExeInv' /\ [Next]_vars
<1> DEFINE now == ClockOf[w]
           decision == RetryDecision(w, 1, now)
<1>b. /\ Bounded' /\ UNCHANGED <<factVars, calls>> /\ local[w].pc = "retry"
      /\ UNCHANGED <<interaction, advisory, clarification>>
  BY ExeParts DEF Retry, At, OffStore, Bounded, factVars
<1>h. HoldsGrant(w) /\ grant[w].attempt_number \in Nat
  BY <1>b, CoroutineFits DEF WorkerFits
<1>1. decision # "COMMAND_MISMATCH"
  <2>1. task.retry_command_digest \in {0, 1} /\ RecordDecodes
    BY ExeParts DEF RowsFit, StoreInv
  <2>2. QED
    BY <1>h, <2>1 DEF RetryDecision, RecordDecodes, HoldsGrant
<1>2. CASE decision # "SCHEDULED"
  BY <1>b, <1>1, <1>2, GiveUp DEF Retry
<1>3. CASE decision = "SCHEDULED"
  <2>1. PICK l : l = Idle
    OBVIOUS
  <2>2. local' = [local EXCEPT ![w] = l] /\ ScheduleRetry(w, 1, now) /\ TokenLeft /\ VersionLeft
    BY <1>1, <1>3, <2>1 DEF Retry, Become
  <2>3. [Next]_vars
    <3>1. 1 \in Digests
      BY ExecutionAssumption
    <3>2. QED
      BY <1>h, <2>2, <3>1, CoroutineFits DEF ClientStep, Next
  <2>t. TypeOK /\ TypeOK' /\ task.version \in Nat /\ sequence \in Nat
        /\ \A s \in Steps : journal[s].attempt_count \in Nat
    BY <2>3, ExeParts, NextTypeOK, TaskFields, JournalFields
  <2>f. /\ UNCHANGED <<task.status, task.terminal_reason, plan, journal, evidence,
                       approvals, grant>>
        /\ task'.version = task.version + 1 /\ task'.retry_command_digest = 1
        /\ sequence' = sequence + 1 /\ task'.fencing_token = sequence + 1
        /\ audit'["reflection"] = audit["reflection"]
    BY <2>2, <2>t, RetryFieldsOf
  <2>4. l \in Coroutine /\ l.pc = "idle" /\ l.version = 0
    BY <2>1, IdleIsACoroutine DEF Idle
  <2>5. WorkerFits(w, l)' /\ HolderFits(w, l)'
    BY <2>4, <2>t, <2>f
       DEF WorkerFits, DraftFits, PlanFits, OutcomeFits, StepFits, HolderFits, Owns
  <2>6. Kept(w)
    BY <1>b, <2>t, <2>f, NobodyElse
  <2>7. sequence' <= MaxToken
    BY <2>2, <2>t, <2>f, StoreAssumption DEF TokenLeft
  <2>8. RowsFit'
    BY <1>b, <2>f, <2>7, ExeParts DEF RowsFit, FactTypeOK, NoRecoveryDrift, PlanIsAccepted,
       DraftMovesTask, StepsBelongToPlan, ConditionalStepJustified, WaitingIsBacked,
       ReflectionAccounts, ReasonsFit, StoreTerminalized, Sufficient, NoStepFailed
  <2>9. CallsCharged'
    <3>1. \A s \in Steps : journal'[s].attempt_count >= journal[s].attempt_count
      BY <2>t, <2>f
    <3>2. QED
      BY <1>b, <2>t, <2>2, <2>4, <3>1, ChargesStay
  <2>10. QED
    BY <1>b, <2>2, <2>3, <2>5, <2>6, <2>8, <2>9, StepKeeps
<1>4. QED
  BY <1>2, <1>3

-----------------------------------------------------------------------------
(***************************************************************************)
(* The journal: a step is charged, called and committed once per token.    *)
(***************************************************************************)
LEMMA StepIsInPlan ==
    ASSUME NEW p \in Plans, NEW i \in 1 .. Len(StepSeq[p])
    PROVE  StepSeq[p][i] \in Steps /\ StepSeq[p][i] \in StepsOf[p]
<1>1. StepSeq[p] \in Seq(Steps) /\ StepsOf[p] = Range(StepSeq[p])
  BY ExecutionAssumption
<1>2. DOMAIN StepSeq[p] = 1 .. Len(StepSeq[p]) /\ StepSeq[p][i] \in Steps
  BY <1>1
<1>3. QED
  BY <1>1, <1>2 DEF Range

\* The owner of the task is told to proceed only with a step it never charged.
LEMMA ProceedCharges ==
    ASSUME ExeInv, NEW w \in Clients, local[w].pc = "step", HoldsGrant(w),
           NEW s \in Steps, NEW now, StepAttemptDecision(w, s, now) = "PROCEED"
    PROVE  /\ Holder(w) /\ task.status = "RUNNING" /\ plan # NoPlan
           /\ IncrementsBudget(w, s) /\ journal[s].result_status = "none"
           /\ grant[w].fencing_token = task.fencing_token
<1>1. GrantIsCurrent(w, now, {"RUNNING"}) = "CURRENT"
      /\ journal[s].result_status = "none" /\ plan # NoPlan
  BY DEF StepAttemptDecision
<1>2. Holder(w) /\ task.status = "RUNNING" /\ grant[w].fencing_token = task.fencing_token
  BY <1>1, CurrentIsHolder, CurrentGrant
<1>3. StepInFlight(w, local[w])
  BY <1>2, OwnerView DEF Owns
<1>4. QED
  BY <1>1, <1>2, <1>3 DEF StepInFlight, IncrementsBudget

LEMMA StepStarts ==
    ASSUME ExeInv, NEW w \in Clients, local[w].pc = "step", HoldsGrant(w),
           InSteps(local[w]), ConditionHolds(w),
           NEW s \in Steps, s = StepOf(w), BeginStepAttempt(w, s, ClockOf[w]),
           Become(w, [local[w] EXCEPT !.pc = "invoke"]), OffStore
    PROVE  ExeInv' /\ [Next]_vars
<1>1. PICK l : l = [local[w] EXCEPT !.pc = "invoke"]
  OBVIOUS
<1>b. /\ Bounded' /\ UNCHANGED calls /\ UNCHANGED <<interaction, advisory, clarification>>
      /\ local' = [local EXCEPT ![w] = l]
  BY <1>1, ExeParts DEF OffStore, Bounded, Become, factVars
<1>2. [Next]_vars
  BY CoroutineFits DEF ClientStep, Next
<1>3. /\ Holder(w) /\ task.status = "RUNNING" /\ plan # NoPlan
      /\ IncrementsBudget(w, s) /\ journal[s].result_status = "none"
      /\ grant[w].fencing_token = task.fencing_token
  BY ProceedCharges DEF BeginStepAttempt
<1>t. /\ TypeOK /\ TypeOK' /\ task.version \in Nat /\ approvals \in Nat
      /\ journal \in [Steps -> StepExecutionRecord]
      /\ \A r \in Steps : journal[r].attempt_count \in Nat
  BY <1>2, ExeParts, NextTypeOK, TaskFields, JournalFields DEF TypeOK
<1>4. /\ UNCHANGED <<task, sequence, plan, evidence, approvals, audit, grant>>
      /\ journal' = [journal EXCEPT ![s].attempt_count = @ + 1,
                                    ![s].last_fencing_token = task.fencing_token]
  BY <1>3 DEF BeginStepAttempt
<1>j. /\ \A r \in Steps : journal'[r].result_status = journal[r].result_status
      /\ \A r \in Steps \ {s} : journal'[r] = journal[r]
      /\ journal'[s].attempt_count = journal[s].attempt_count + 1
      /\ journal'[s].last_fencing_token = task.fencing_token
  BY <1>t, <1>4 DEF StepExecutionRecord
<1>5. /\ l \in Coroutine /\ l.pc = "invoke" /\ l.draft = local[w].draft
      /\ l.index = local[w].index /\ l.results = local[w].results
      /\ l.version = local[w].version /\ l.reason = local[w].reason
  BY <1>1, PcNames, CoroutineFits DEF Coroutine
<1>6. StepAt(l) = s /\ InSteps(l)
  BY <1>5 DEF StepAt, StepOf, PlanOf, InSteps
<1>7. WorkerFits(w, l)'
  BY <1>b, <1>4, <1>5, <1>6, CoroutineFits
     DEF WorkerFits, DraftFits, PlanFits, OutcomeFits, StepFits, HoldsGrant, InSteps
<1>o. StatusKnown(local[w]) /\ RowsKnown(local[w]) /\ StepInFlight(w, local[w])
      /\ ResultsKnown(local[w])
  BY <1>3, OwnerView DEF Owns
<1>8. HolderFits(w, l)'
  <2>1. StatusKnown(l)' /\ RowsKnown(l)'
    BY <1>b, <1>o, <1>4, <1>5 DEF StatusKnown, RowsKnown
  <2>2. StepInFlight(w, l)'
    <3>1. \A r \in Steps : journal[r].last_fencing_token = task.fencing_token
                            => journal[r].result_status # "none"
      BY <1>o DEF StepInFlight
    <3>2. StepSeq[l.draft][l.index] = s
      BY <1>6 DEF StepAt
    <3>3. \A r \in Steps :
            (/\ journal'[r].last_fencing_token = task.fencing_token
             /\ journal'[r].result_status = "none") => r = s
      BY <1>j, <3>1
    <3>4. journal'[s].result_status = "none"
      BY <1>3, <1>j
    <3>5. QED
      BY <1>4, <1>j, <1>5, <3>2, <3>3, <3>4 DEF StepInFlight, StepAt
  <2>3. ResultsKnown(l)'
    BY <1>o, <1>j, <1>5 DEF ResultsKnown
  <2>4. QED
    BY <2>1, <2>2, <2>3 DEF HolderFits
<1>9. Kept(w)
  <2>1. \A d \in Clients \ {w} : ~Holder(d)'
    BY <1>3, <1>4, OneHolder, ExeParts DEF Holder, CurrentAttempt, HoldsGrant
  <2>2. QED
    BY <1>b, <1>t, <1>4, <2>1 DEF Kept
<1>10. RowsFit'
  <2>1. StepsBelongToPlan'
    BY <1>3, <1>4, <1>j, ExeParts DEF RowsFit, StepsBelongToPlan
  <2>2. ConditionalStepJustified'
    <3>0. \A r \in Steps : ConditionOf[r].ref \in Steps
      BY ExecutionAssumption
    <3>1. ASSUME NEW r \in Steps, ConditionOf[r].kind = "EVIDENCE_ROW_COUNT_BELOW",
                 journal'[r].attempt_count > 0
          PROVE  /\ journal[ConditionOf[r].ref].result_status = "OK"
                 /\ evidence[ConditionOf[r].ref] = "empty"
      <4>1. CASE r # s
        BY <1>j, <3>1, <4>1, ExeParts DEF RowsFit, ConditionalStepJustified
      <4>2. CASE r = s
        <5> DEFINE ref == ConditionOf[s].ref
        <5>1. ref \in Steps
          BY ExecutionAssumption
        <5>2. local[w].results[ref] = "OK" /\ evidence[ref] # "rows"
          BY <3>1, <4>2 DEF ConditionHolds
        <5>3. journal[ref].result_status = "OK"
          BY <1>o, <5>1, <5>2 DEF ResultsKnown
        <5>4. evidence[ref] # NoPayload /\ evidence[ref] \in {"rows", "empty", NoPayload}
          BY <1>t, <5>1, <5>3, ExeParts, ExecutionAssumption DEF RowsFit, StepsBelongToPlan, TypeOK
        <5>5. QED
          BY <4>2, <5>2, <5>3, <5>4
      <4>3. QED
        BY <4>1, <4>2
    <3>2. \A r \in Steps :
            journal'[ConditionOf[r].ref].result_status
              = journal[ConditionOf[r].ref].result_status
      BY <1>j, <3>0
    <3>3. \A r \in Steps :
            (ConditionOf[r].kind = "EVIDENCE_ROW_COUNT_BELOW" /\ journal'[r].attempt_count > 0)
              => /\ journal'[ConditionOf[r].ref].result_status = "OK"
                 /\ evidence[ConditionOf[r].ref] = "empty"
      BY <3>1, <3>2
    <3>4. QED
      BY <1>4, <3>3 DEF ConditionalStepJustified
  <2>3. ReasonsFit'
    BY <1>b, <1>4, <1>j, ExeParts DEF RowsFit, ReasonsFit, StoreTerminalized, Sufficient,
       NoStepFailed
  <2>4. FactTypeOK' /\ NoRecoveryDrift' /\ PlanIsAccepted' /\ DraftMovesTask'
        /\ WaitingIsBacked' /\ ReflectionAccounts'
    BY <1>b, <1>4, ExeParts DEF RowsFit, FactTypeOK, NoRecoveryDrift,
       PlanIsAccepted, DraftMovesTask, WaitingIsBacked, ReflectionAccounts, StoreTerminalized
  <2>5. QED
    BY <1>4, <2>1, <2>2, <2>3, <2>4, ExeParts DEF RowsFit
<1>11. CallsCharged'
  <2>1. ASSUME NEW r \in Steps
        PROVE  calls[r] + Cardinality(Pending(r)') <= journal'[r].attempt_count
    <3>1. /\ calls[r] \in Nat /\ calls[r] + Cardinality(Pending(r)) <= journal[r].attempt_count
          /\ IsFiniteSet(Pending(r)) /\ Cardinality(Pending(r)) \in Nat
      BY ExeParts, PendingIsFinite DEF CallsCharged
    <3>2. local \in [Clients -> Coroutine] /\ w \notin Pending(r)
      BY DEF ExeInv, Pending, At
    <3>3. CASE r = s
      <4>1. Pending(r)' = Pending(r) \cup {w}
        BY <1>b, <1>5, <1>6, <3>2, <3>3 DEF Pending, At, StepAt
      <4>2. Cardinality(Pending(r)') = Cardinality(Pending(r)) + 1
        BY <3>1, <3>2, <4>1, FS_AddElement
      <4>3. QED
        BY <1>t, <1>j, <3>1, <3>3, <4>2
    <3>4. CASE r # s
      <4>1. Pending(r)' = Pending(r)
        BY <1>b, <1>5, <1>6, <3>2, <3>4 DEF Pending, At, StepAt
      <4>2. QED
        BY <1>j, <3>1, <3>4, <4>1
    <3>5. QED
      BY <3>3, <3>4
  <2>2. QED
    BY <1>b, <2>1, ExeParts DEF CallsCharged
<1>12. QED
  BY <1>b, <1>2, <1>7, <1>8, <1>9, <1>10, <1>11, StepKeeps

LEMMA BeginStepStep ==
    ASSUME ExeInv, NEW w \in Clients, BeginStep(w)
    PROVE  ExeInv' /\ [Next]_vars
<1> DEFINE decision == StepAttemptDecision(w, StepOf(w), ClockOf[w])
<1>1. /\ local[w].pc = "step" /\ local[w].index <= Len(PlanOf(w)) /\ ConditionHolds(w)
      /\ local[w] \in Coroutine /\ HoldsGrant(w) /\ local[w].draft \in Plans
      /\ local[w].index > 0 /\ plan = local[w].draft
  BY CoroutineFits DEF BeginStep, AtStep, At, WorkerFits, DraftFits, PlanFits, StepFits
<1>2. InSteps(local[w]) /\ StepOf(w) \in Steps /\ StepOf(w) \in StepsOf[plan]
  <2>1. Len(PlanOf(w)) \in Nat /\ local[w].index \in Nat
    BY <1>1, ExecutionAssumption DEF PlanOf, Coroutine
  <2>2. InSteps(local[w])
    BY <1>1, <2>1 DEF InSteps, PlanOf
  <2>3. QED
    BY <1>1, <2>2, StepIsInPlan DEF InSteps, StepOf, PlanOf
<1>b. OffStore /\ Bounded' /\ UNCHANGED <<factVars, calls>>
  BY ExeParts DEF BeginStep, OffStore, Bounded
<1>3. CASE decision = "PROCEED"
  <2>1. BeginStepAttempt(w, StepOf(w), ClockOf[w])
        /\ Become(w, [local[w] EXCEPT !.pc = "invoke"])
    BY <1>3 DEF BeginStep
  <2>2. QED
    BY <1>1, <1>2, <1>b, <2>1, StepStarts
<1>4. CASE decision = "ALREADY_COMMITTED"
  <2>1. PICK results : results = [local[w].results EXCEPT
                                    ![StepOf(w)] = journal[StepOf(w)].result_status]
    OBVIOUS
  <2>2. results \in [Steps -> ResultStatuses \cup {"none"}]
    BY <1>1, <1>2, <2>1, ExeParts DEF Coroutine, TypeOK, StepExecutionRecord
  <2>3. Holder(w) => \A s \in Steps : results[s] = journal[s].result_status
    <3>1. Holder(w) => \A s \in Steps : local[w].results[s] = journal[s].result_status
      BY <1>1, OwnerView DEF Owns, ResultsKnown
    <3>2. QED
      BY <1>1, <2>1, <3>1 DEF Coroutine
  <2>4. AdoptStepRecord(w, journal[StepOf(w)].result_status)
          = [NextStep(w) EXCEPT !.results = results]
    BY <1>1, <2>1 DEF AdoptStepRecord, NextStep, Coroutine
  <2>5. Become(w, AdoptStepRecord(w, journal[StepOf(w)].result_status)) /\ UNCHANGED vars
    BY <1>4 DEF BeginStep
  <2>6. QED
    BY <1>1, <1>b, <2>2, <2>3, <2>4, <2>5, MovesOn
<1>5. CASE decision = "BUDGET_EXHAUSTED"
  <2>1. Become(w, Concluded(w, "FAILED", "budget.tool_calls_exhausted")) /\ UNCHANGED vars
    BY <1>5 DEF BeginStep
  <2>2. QED
    BY <1>1, <1>b, <2>1, Concludes DEF PlanOutcomes
<1>6. CASE decision \notin {"PROCEED", "ALREADY_COMMITTED", "BUDGET_EXHAUSTED"}
  <2>1. decision \in {"NOT_RUNNABLE", "STALE_FENCING"}
    BY <1>2, <1>6 DEF StepAttemptDecision
  <2>2. Become(w, Idle) /\ UNCHANGED vars
    BY <2>1 DEF BeginStep, Rejected, LoserRejections
  <2>3. QED
    BY <1>b, <2>2, GiveUp
<1>7. QED
  BY <1>3, <1>4, <1>5, <1>6

LEMMA InvokeStep ==
    ASSUME ExeInv, NEW w \in Clients, Invoke(w)
    PROVE  ExeInv' /\ [Next]_vars
<1> DEFINE s == StepOf(w)
<1>1. /\ local[w].pc = "invoke" /\ local[w] \in Coroutine /\ InSteps(local[w])
      /\ local[w].draft \in Plans
  BY CoroutineFits DEF Invoke, At, WorkerFits, DraftFits, StepFits
<1>2. s \in Steps
  BY <1>1, StepIsInPlan DEF InSteps, StepOf, PlanOf
<1>3. PICK result \in ResultStatuses, payload \in Payloads \cup {NoPayload} :
        /\ payload = NoPayload => result = "FAILED"
        /\ Become(w, [local[w] EXCEPT !.pc = "commit", !.result = result,
                                      !.payload = payload])
  BY DEF Invoke
<1>4. PICK l : l = [local[w] EXCEPT !.pc = "commit", !.result = result, !.payload = payload]
  OBVIOUS
<1>b. /\ Bounded' /\ local' = [local EXCEPT ![w] = l]
      /\ calls' = [calls EXCEPT ![s] = @ + 1]
      /\ UNCHANGED <<task, sequence, plan, journal, evidence, approvals, audit, grant,
                     interaction, advisory, clarification>>
  BY <1>3, <1>4, ExeParts DEF Invoke, Become, Bounded, vars, storeVars, factVars
<1>n. [Next]_vars
  BY DEF Invoke
<1>5. /\ l \in Coroutine /\ l.pc = "commit" /\ l.draft = local[w].draft
      /\ l.index = local[w].index /\ l.results = local[w].results
      /\ l.version = local[w].version /\ l.reason = local[w].reason
      /\ l.result = result /\ l.payload = payload
  BY <1>1, <1>4, PcNames DEF Coroutine
<1>6. WorkerFits(w, l)'
  BY <1>1, <1>b, <1>3, <1>5, CoroutineFits
     DEF WorkerFits, DraftFits, PlanFits, OutcomeFits, StepFits, HoldsGrant, InSteps
<1>7. HolderFits(w, l)'
  BY <1>1, <1>b, <1>5, OwnerView DEF Owns, HolderFits, Holder, CurrentAttempt, HoldsGrant,
     StatusKnown, RowsKnown, StepInFlight, ResultsKnown, StepAt
<1>t. task.version \in Nat /\ approvals \in Nat
  BY ExeParts, TaskFields DEF TypeOK
<1>8. Kept(w)
  BY <1>b, <1>t DEF Kept
<1>9. RowsFit'
  BY <1>b, ExeParts DEF RowsFit, FactTypeOK, NoRecoveryDrift, PlanIsAccepted, DraftMovesTask,
     StepsBelongToPlan, ConditionalStepJustified, WaitingIsBacked, ReflectionAccounts,
     ReasonsFit, StoreTerminalized, Sufficient, NoStepFailed
<1>10. CallsCharged'
  <2>1. calls \in [Steps -> Nat] /\ local \in [Clients -> Coroutine]
    BY ExeParts DEF CallsCharged, ExeInv
  <2>2. ASSUME NEW r \in Steps
        PROVE  calls'[r] + Cardinality(Pending(r)') <= journal[r].attempt_count
    <3>1. /\ calls[r] \in Nat /\ calls[r] + Cardinality(Pending(r)) <= journal[r].attempt_count
          /\ IsFiniteSet(Pending(r)) /\ Cardinality(Pending(r)) \in Nat
      BY ExeParts, PendingIsFinite DEF CallsCharged
    <3>2. CASE r = s
      <4>1. w \in Pending(r) /\ Pending(r)' = Pending(r) \ {w}
        BY <1>1, <1>b, <1>5, <2>1, <3>2 DEF Pending, At, StepAt, StepOf, PlanOf
      <4>2. Cardinality(Pending(r)') = Cardinality(Pending(r)) - 1
        BY <3>1, <4>1, FS_RemoveElement
      <4>3. calls'[r] = calls[r] + 1
        BY <1>b, <2>1, <3>2
      <4>4. journal[r].attempt_count \in Nat
        BY ExeParts, JournalFields
      <4>5. QED
        BY <3>1, <4>2, <4>3, <4>4
    <3>3. CASE r # s
      <4>1. Pending(r)' = Pending(r)
        BY <1>1, <1>b, <1>5, <2>1, <3>3 DEF Pending, At, StepAt, StepOf, PlanOf
      <4>2. calls'[r] = calls[r]
        BY <1>b, <2>1, <3>3
      <4>3. QED
        BY <3>1, <4>1, <4>2
    <3>4. QED
      BY <3>2, <3>3
  <2>3. calls' \in [Steps -> Nat]
    BY <1>b, <1>2, <2>1
  <2>4. QED
    BY <1>b, <2>2, <2>3 DEF CallsCharged
<1>11. QED
  BY <1>b, <1>n, <1>6, <1>7, <1>8, <1>9, <1>10, StepKeeps


\* The owner commits the step it called: nobody else can have done so.
LEMMA CommitCompletes ==
    ASSUME ExeInv, NEW w \in Clients, local[w].pc = "commit", HoldsGrant(w), Holder(w),
           InSteps(local[w]), local[w].draft \in Plans,
           NEW s \in Steps, s = StepAt(local[w]), s = StepOf(w),
           CommitStepResult(w, s, local[w].result, local[w].payload,
                            grant[w].fencing_token, ClockOf[w]),
           Become(w, AdoptStepRecord(w, local[w].result)), OffStore
    PROVE  ExeInv' /\ [Next]_vars
<1> DEFINE result == local[w].result
           payload == local[w].payload
           token == grant[w].fencing_token
<1>w. /\ local[w] \in Coroutine /\ result \in ResultStatuses
      /\ payload \in Payloads \cup {NoPayload} /\ (payload = NoPayload => result = "FAILED")
      /\ plan = local[w].draft /\ local[w].index \in Nat /\ local[w].index + 1 \in Nat
      /\ local[w].index + 1 > 0
  <2>1. local[w].index \in Nat
    BY CoroutineFits DEF Coroutine
  <2>2. QED
    BY <2>1, CoroutineFits DEF WorkerFits, StepFits, PlanFits, Coroutine
<1>o. StatusKnown(local[w]) /\ RowsKnown(local[w]) /\ StepInFlight(w, local[w])
      /\ ResultsKnown(local[w])
  BY OwnerView DEF Owns
<1>s. task.status = "RUNNING" /\ journal[s].result_status = "none"
      /\ task.fencing_token = token
  BY <1>o DEF StatusKnown, StepInFlight, Holder, CurrentAttempt
<1>d. token \in Digests
  <2>1. token \in Nat /\ token > 0 /\ token <= sequence /\ sequence \in Nat /\ sequence <= MaxToken
    BY CoroutineFits, ExeParts DEF TokensOrdered, RowsFit, TypeOK
  <2>2. MaxToken \in Nat /\ 1 .. MaxToken \subseteq Digests
    BY StoreAssumption, ExecutionAssumption
  <2>3. QED
    BY <2>1, <2>2
<1>2. [Next]_vars
  <2>1. ClientCommit(w, s, ClockOf[w])
    BY <1>w, <1>d DEF ClientCommit
  <2>2. QED
    BY <2>1, CoroutineFits DEF ClientStep, Next
<1>t. /\ TypeOK /\ TypeOK' /\ task.version \in Nat /\ approvals \in Nat
      /\ journal \in [Steps -> StepExecutionRecord]
      /\ evidence \in [Steps -> Payloads \cup {NoPayload}]
      /\ \A r \in Steps : journal[r].attempt_count \in Nat
  BY <1>2, ExeParts, NextTypeOK, TaskFields, JournalFields DEF TypeOK
<1>4. /\ UNCHANGED <<task, sequence, plan, approvals, grant>>
      /\ journal' = [journal EXCEPT ![s].result_status = result, ![s].commit_digest = token]
      /\ evidence' = [evidence EXCEPT ![s] = IF payload = NoPayload THEN @ ELSE payload]
      /\ audit' = Appended(Events({"step"}))
  BY DEF CommitStepResult
<1>j. /\ \A r \in Steps \ {s} : journal'[r] = journal[r] /\ evidence'[r] = evidence[r]
      /\ journal'[s].result_status = result
      /\ evidence'[s] = IF payload = NoPayload THEN evidence[s] ELSE payload
      /\ \A r \in Steps : /\ journal'[r].attempt_count = journal[r].attempt_count
                          /\ journal'[r].last_fencing_token = journal[r].last_fencing_token
  BY <1>t, <1>4 DEF StepExecutionRecord
<1>a. audit'["reflection"] = audit["reflection"]
  BY <1>4, <1>t DEF Appended, Events, AuditKinds, TypeOK
<1>1. PICK l : l = AdoptStepRecord(w, result)
  OBVIOUS
<1>b. /\ Bounded' /\ UNCHANGED calls /\ UNCHANGED <<interaction, advisory, clarification>>
      /\ local' = [local EXCEPT ![w] = l]
  BY <1>1, ExeParts DEF OffStore, Bounded, Become, factVars
<1>k. /\ NextStep(w) \in Coroutine /\ NextStep(w).pc = "step"
      /\ NextStep(w).draft = local[w].draft /\ NextStep(w).index = local[w].index + 1
      /\ NextStep(w).version = local[w].version /\ NextStep(w).reason = local[w].reason
      /\ NextStep(w).results = local[w].results
  BY <1>w, PcNames DEF NextStep, Coroutine
<1>5. /\ l \in Coroutine /\ l.pc = "step" /\ l.draft = local[w].draft
      /\ l.index = local[w].index + 1 /\ l.version = local[w].version
      /\ l.reason = local[w].reason
      /\ l.results = [local[w].results EXCEPT ![s] = result]
  BY <1>1, <1>k, <1>w DEF AdoptStepRecord, Coroutine
<1>7. WorkerFits(w, l)'
  BY <1>b, <1>w, <1>4, <1>5, CoroutineFits
     DEF WorkerFits, DraftFits, PlanFits, OutcomeFits, StepFits, HoldsGrant
<1>8. HolderFits(w, l)'
  <2>1. StatusKnown(l)' /\ RowsKnown(l)'
    BY <1>b, <1>o, <1>4, <1>5 DEF StatusKnown, RowsKnown
  <2>2. StepInFlight(w, l)'
    <3>1. \A r \in Steps :
            (/\ journal[r].last_fencing_token = task.fencing_token
             /\ journal[r].result_status = "none") => r = s
      BY <1>o DEF StepInFlight
    <3>2. \A r \in Steps :
            ~(/\ journal'[r].last_fencing_token = task.fencing_token
              /\ journal'[r].result_status = "none")
      BY <1>j, <1>w, <3>1 DEF ResultStatuses
    <3>3. QED
      BY <1>4, <1>5, <3>2 DEF StepInFlight
  <2>3. ResultsKnown(l)'
    <3>1. \A r \in Steps : local[w].results[r] = journal[r].result_status
      BY <1>o DEF ResultsKnown
    <3>2. \A r \in Steps : l.results[r] = journal'[r].result_status
      BY <1>j, <1>w, <1>5, <3>1 DEF Coroutine
    <3>3. QED
      BY <1>5, <3>2 DEF ResultsKnown
  <2>4. QED
    BY <2>1, <2>2, <2>3 DEF HolderFits
<1>9. Kept(w)
  <2>1. \A d \in Clients \ {w} : ~Holder(d)'
    BY <1>4, OneHolder, ExeParts DEF Holder, CurrentAttempt, HoldsGrant
  <2>2. QED
    BY <1>b, <1>t, <1>4, <2>1 DEF Kept
<1>10. RowsFit'
  <2>p. plan # NoPlan /\ plan \in Plans
    BY <1>w, StoreAssumption
  <2>1. StepsBelongToPlan'
    <3>1. \A r \in Steps : journal'[r].result_status = "OK" => evidence'[r] # NoPayload
      <4>1. \A r \in Steps : journal[r].result_status = "OK" => evidence[r] # NoPayload
        BY ExeParts DEF RowsFit, StepsBelongToPlan
      <4>2. result = "OK" => payload # NoPayload
        BY <1>w
      <4>3. QED
        BY <1>j, <4>1, <4>2
    <3>2. QED
      BY <1>4, <2>p, <3>1 DEF StepsBelongToPlan
  <2>2. ConditionalStepJustified'
    <3>0. \A r \in Steps : ConditionOf[r].ref \in Steps
      BY ExecutionAssumption
    <3>1. ASSUME NEW r \in Steps, ConditionOf[r].kind = "EVIDENCE_ROW_COUNT_BELOW",
                 journal'[r].attempt_count > 0
          PROVE  /\ journal'[ConditionOf[r].ref].result_status = "OK"
                 /\ evidence'[ConditionOf[r].ref] = "empty"
      <4>1. journal[ConditionOf[r].ref].result_status = "OK"
            /\ evidence[ConditionOf[r].ref] = "empty"
        BY <1>j, <3>1, ExeParts DEF RowsFit, ConditionalStepJustified
      <4>2. ConditionOf[r].ref \in Steps \ {s}
        BY <1>s, <3>0, <4>1
      <4>3. QED
        BY <1>j, <4>1, <4>2
    <3>2. QED
      BY <3>1 DEF ConditionalStepJustified
  <2>3. ReasonsFit'
    BY <1>b, <1>s, <1>4, <1>a, ExeParts DEF RowsFit, ReasonsFit, TerminalStatuses
  <2>4. FactTypeOK' /\ NoRecoveryDrift' /\ PlanIsAccepted' /\ DraftMovesTask'
        /\ WaitingIsBacked' /\ ReflectionAccounts'
    BY <1>b, <1>4, <1>a, ExeParts DEF RowsFit, FactTypeOK, NoRecoveryDrift,
       PlanIsAccepted, DraftMovesTask, WaitingIsBacked, ReflectionAccounts, StoreTerminalized
  <2>5. QED
    BY <1>4, <2>1, <2>2, <2>3, <2>4, ExeParts DEF RowsFit
<1>11. CallsCharged'
  <2>1. \A r \in Steps : journal'[r].attempt_count >= journal[r].attempt_count
    BY <1>t, <1>j
  <2>2. QED
    BY <1>b, <1>t, <1>5, <2>1, ChargesStay
<1>12. QED
  BY <1>b, <1>2, <1>7, <1>8, <1>9, <1>10, <1>11, StepKeeps

LEMMA CommitStepStep ==
    ASSUME ExeInv, NEW w \in Clients, CommitStep(w)
    PROVE  ExeInv' /\ [Next]_vars
<1> DEFINE token == grant[w].fencing_token
           decision == StepCommitDecision(w, StepOf(w), token, ClockOf[w])
<1>1. /\ local[w].pc = "commit" /\ local[w] \in Coroutine /\ HoldsGrant(w)
      /\ local[w].draft \in Plans /\ InSteps(local[w])
  BY CoroutineFits DEF CommitStep, At, WorkerFits, DraftFits, StepFits
<1>2. StepOf(w) \in Steps /\ StepOf(w) = StepAt(local[w])
  BY <1>1, StepIsInPlan DEF InSteps, StepOf, PlanOf, StepAt
<1>b. OffStore /\ Bounded' /\ UNCHANGED <<factVars, calls>>
  BY ExeParts DEF CommitStep, OffStore, Bounded
<1>3. CASE GrantIsCurrent(w, ClockOf[w], {"RUNNING"}) = "CURRENT"
  <2>1. Holder(w) /\ token = task.fencing_token
    BY <1>1, <1>3, CurrentIsHolder, CurrentGrant
  <2>2. StepInFlight(w, local[w])
    BY <1>1, <2>1, OwnerView DEF Owns
  <2>3. decision = "COMMITTED"
    BY <1>1, <1>2, <1>3, <2>1, <2>2 DEF StepInFlight, StepCommitDecision
  <2>4. /\ CommitStepResult(w, StepOf(w), local[w].result, local[w].payload, token, ClockOf[w])
        /\ Become(w, AdoptStepRecord(w, local[w].result))
    BY <2>3 DEF CommitStep, LoserRejections
  <2>5. QED
    BY <1>1, <1>2, <1>b, <2>1, <2>4, CommitCompletes
<1>4. CASE GrantIsCurrent(w, ClockOf[w], {"RUNNING"}) # "CURRENT"
  <2>1. decision \in {"NOT_RUNNABLE", "STALE_FENCING"}
    BY <1>4 DEF StepCommitDecision
  <2>2. Become(w, Idle) /\ UNCHANGED vars
    BY <2>1 DEF CommitStep, LoserRejections
  <2>3. QED
    BY <1>b, <2>2, GiveUp
<1>5. QED
  BY <1>3, <1>4

-----------------------------------------------------------------------------
(***************************************************************************)
(* The invariant holds of every state, and every step of a worker is a     *)
(* step of the store or leaves it alone.                                   *)
(***************************************************************************)
LEMMA InitExeInv == ExeInit => ExeInv
<1> SUFFICES ASSUME ExeInit PROVE ExeInv
  OBVIOUS
<1>1. StoreInv /\ TypeOK
  BY InitStoreInv DEF ExeInit, StoreInv
<1>2. local = [w \in Clients |-> Idle] /\ local \in [Clients -> Coroutine]
  BY IdleIsACoroutine DEF ExeInit
<1>3. \A w \in Clients : WorkerFits(w, local[w]) /\ HolderFits(w, local[w])
  BY <1>1, <1>2, IdleAlways
<1>4. RowsFit
  <2>1. /\ task.status = "CREATED" /\ task.terminal_reason = "none"
        /\ task.retry_command_digest = 0 /\ sequence = 0 /\ plan = NoPlan
        /\ interaction = NoFact /\ advisory = NoFact /\ clarification = FALSE
        /\ "CREATED" \notin TerminalStatuses
    BY DEF ExeInit, Init, FactInit, TerminalStatuses
  <2>2. audit["reflection"] = 0
    BY DEF ExeInit, Init, NoEvents, AuditKinds
  <2>3. \A s \in Steps : /\ journal[s].attempt_count = 0 /\ evidence[s] = NoPayload
                         /\ journal[s].result_status = "none"
    BY DEF ExeInit, Init
  <2>4. 0 <= MaxToken
    BY StoreAssumption
  <2>5. FactTypeOK /\ NoRecoveryDrift /\ PlanIsAccepted /\ DraftMovesTask /\ WaitingIsBacked
    BY <2>1, ExecutionAssumption
       DEF FactTypeOK, NoRecoveryDrift, PlanIsAccepted, DraftMovesTask, WaitingIsBacked
  <2>6. StepsBelongToPlan /\ ConditionalStepJustified
    BY <2>3 DEF StepsBelongToPlan, ConditionalStepJustified
  <2>7. ReflectionAccounts /\ ReasonsFit
    BY <2>1, <2>2 DEF ReflectionAccounts, ReasonsFit, StoreTerminalized, TerminalStatuses
  <2>8. QED
    BY <2>1, <2>4, <2>5, <2>6, <2>7 DEF RowsFit
<1>5. CallsCharged
  <2>1. \A s \in Steps : Pending(s) = {}
    BY <1>2 DEF Pending, At, Idle
  <2>2. \A s \in Steps : calls[s] = 0 /\ journal[s].attempt_count \in Nat
    BY <1>1, JournalFields DEF ExeInit
  <2>3. \A s \in Steps : Cardinality(Pending(s)) = 0
    BY <2>1, FS_EmptySet
  <2>4. QED
    BY <2>2, <2>3 DEF CallsCharged, ExeInit
<1>6. Bounded
  BY ExecutionAssumption DEF ExeInit, Bounded
<1>7. QED
  BY <1>1, <1>2, <1>3, <1>4, <1>5, <1>6 DEF ExeInv

LEMMA AttemptKeeps ==
    ASSUME ExeInv, NEW w \in Clients, AttemptStep(w)
    PROVE  ExeInv' /\ [Next]_vars
<1>1. CASE \/ GetTask(w) \/ Interact(w) \/ AcceptInteraction(w) \/ RecordClarification(w)
           \/ Converse(w)
  BY <1>1, GetTaskStep, InteractStep, AcceptInteractionStep, RecordClarificationStep,
     ConverseStep
<1>2. CASE \/ RequireCurrentGrant(w, "renew_start", "start_journal")
           \/ RequireCurrentGrant(w, "renew_resume", "resume_plan")
  BY <1>2, RequireCurrentGrantStep
<1>3. CASE \/ StartJournal(w) \/ StartPlan(w) \/ StartGet(w) \/ ToPlanning(w) \/ ToRunning(w)
           \/ ResumePlan(w) \/ ResumeGet(w)
  BY <1>3, StartJournalStep, StartPlanStep, StartGetStep, ToPlanningStep, ToRunningStep,
     ResumePlanStep, ResumeGetStep
<1>4. CASE \/ LoadSteps(w) \/ SkipStep(w) \/ RefuseStep(w) \/ BeginStep(w) \/ Invoke(w)
           \/ CommitStep(w) \/ StepsDone(w)
  BY <1>4, LoadStepsStep, SkipStepStep, RefuseStepStep, BeginStepStep, InvokeStep,
     CommitStepStep, StepsDoneStep
<1>5. CASE PauseRequest(w) \/ PauseGet(w) \/ ToAwaiting(w)
  BY <1>5, PauseRequestStep, PauseGetStep, ToAwaitingStep
<1>6. CASE \/ Finalize(w) \/ Advise(w) \/ AcceptAdvisory(w) \/ FinalGet(w) \/ Final(w)
           \/ Retry(w)
  BY <1>6, FinalizeStep, AdviseStep, AcceptAdvisoryStep, FinalGetStep, FinalStep, RetryStep
<1>7. QED
  BY <1>1, <1>2, <1>3, <1>4, <1>5, <1>6 DEF AttemptStep

LEMMA NextExeInv == ExeInv /\ [ExeNext]_exeVars => ExeInv' /\ [Next]_vars
<1> SUFFICES ASSUME ExeInv, [ExeNext]_exeVars PROVE ExeInv' /\ [Next]_vars
  OBVIOUS
<1>1. ASSUME NEW w \in Clients,
             \/ BeginAttempt(w) \/ AttemptStep(w) \/ Raise(w) \/ Heartbeat(w)
             \/ Abandon(w) \/ Restart(w)
      PROVE  ExeInv' /\ [Next]_vars
  BY <1>1, BeginAttemptStep, AttemptKeeps, RaiseStep, HeartbeatStep, StopsAndRestarts
<1>2. CASE TimePasses
  BY <1>2, TimePassesStep
<1>3. CASE UNCHANGED exeVars
  <2>1. /\ UNCHANGED <<task, sequence, plan, journal, evidence, approvals, audit, grant>>
        /\ UNCHANGED <<interaction, advisory, clarification, local, calls, abandons, stalls>>
    BY <1>3 DEF exeVars, vars, storeVars, factVars
  <2>2. ExeInv'
    <3>1. TypeOK' /\ TypeOK
      BY <2>1, ExeParts DEF TypeOK
    <3>2. StoreInv'
      <4>1. UNCHANGED vars
        BY <1>3 DEF exeVars
      <4>2. QED
        BY <4>1, ExeParts, NextStoreInv
    <3>3. \A w \in Clients : WorkerFits(w, local[w])' /\ HolderFits(w, local[w])'
      BY <2>1, CoroutineFits
         DEF WorkerFits, DraftFits, PlanFits, OutcomeFits, StepFits, HoldsGrant, HolderFits,
             Owns, Holder, CurrentAttempt, StatusKnown, RowsKnown, StepInFlight, StepAt,
             InSteps, ResultsKnown, Sufficient, NoStepFailed
    <3>4. RowsFit'
      BY <2>1, ExeParts DEF RowsFit, FactTypeOK, NoRecoveryDrift, PlanIsAccepted, DraftMovesTask,
         StepsBelongToPlan, ConditionalStepJustified, WaitingIsBacked, ReflectionAccounts,
         ReasonsFit, StoreTerminalized, Sufficient, NoStepFailed
    <3>5. CallsCharged'
      <4>1. \A s \in Steps : Pending(s)' = Pending(s)
        BY <2>1 DEF Pending, At, StepAt
      <4>2. QED
        BY <2>1, <4>1, ExeParts DEF CallsCharged
    <3>6. QED
      BY <2>1, <3>2, <3>3, <3>4, <3>5, ExeParts DEF ExeInv, Bounded
  <2>3. QED
    BY <1>3, <2>2 DEF exeVars
<1>4. QED
  BY <1>1, <1>2, <1>3 DEF ExeNext

LEMMA ExeInvariant == ExeSpec => []ExeInv
BY InitExeInv, NextExeInv, PTL DEF ExeSpec

-----------------------------------------------------------------------------
(***************************************************************************)
(* What the invariant says of a task at rest.                              *)
(***************************************************************************)
\* A task whose draft is no plan has neither a plan nor a step row.
LEMMA BareWithoutPlan ==
    ASSUME ExeInv, interaction \in {"respond", "reject"}
    PROVE  /\ plan = NoPlan
           /\ \A s \in Steps : calls[s] = 0 /\ evidence[s] = NoPayload
<1>1. plan = NoPlan
  <2>1. plan \in Plans \cup {NoPlan} /\ {"respond", "reject"} \cap Plans = {}
    BY ExeParts, ExecutionAssumption DEF TypeOK
  <2>2. QED
    BY <2>1, ExeParts DEF RowsFit, PlanIsAccepted
<1>2. ASSUME NEW s \in Steps PROVE calls[s] = 0 /\ evidence[s] = NoPayload
  <2>1. ~(journal[s].attempt_count > 0) /\ evidence[s] = NoPayload
    BY <1>1, ExeParts DEF RowsFit, StepsBelongToPlan
  <2>2. /\ journal[s].attempt_count \in Nat /\ calls[s] \in Nat
        /\ Cardinality(Pending(s)) \in Nat
        /\ calls[s] + Cardinality(Pending(s)) <= journal[s].attempt_count
    BY ExeParts, JournalFields, PendingIsFinite DEF CallsCharged
  <2>3. QED
    BY <2>1, <2>2
<1>3. QED
  BY <1>1, <1>2

LEMMA RestsHold == ExeInv => RestsAreBacked
<1> SUFFICES ASSUME ExeInv PROVE RestsAreBacked
  OBVIOUS
<1>1. ExeTypeOK
  <2>1. RunReasons \subseteq Reasons
    BY DEF RunReasons, Reasons
  <2>2. \A w \in Clients : local[w] \in Coroutine
    BY CoroutineFits
  <2>3. \A w \in Clients :
          /\ local[w].draft \in Drafts \cup {NoFact}
          /\ local[w].version \in Nat /\ local[w].index \in Nat
          /\ local[w].outcome \in TerminalStatuses \cup {"none"}
          /\ local[w].reason \in Reasons
    BY <2>1, <2>2 DEF Coroutine
  <2>4. QED
    BY <2>3, ExeParts DEF ExeTypeOK, RowsFit, CallsCharged, Bounded
<1>2. AnswerIsBacked
  <2>1. CASE task.terminal_reason = "conversation"
    <3>1. interaction = "respond"
      BY <2>1, ExeParts DEF RowsFit, ReasonsFit
    <3>2. QED
      BY <2>1, <3>1, BareWithoutPlan DEF AnswerIsBacked
  <2>2. CASE task.terminal_reason # "conversation"
    BY <2>2, ExeParts DEF RowsFit, ReasonsFit, NoStepFailed, AnswerIsBacked
  <2>3. QED
    BY <2>1, <2>2
<1>3. RuntimeEndsRender
  <2> SUFFICES ASSUME task.status \in TerminalStatuses, ~StoreTerminalized PROVE Renders
    BY DEF RuntimeEndsRender
  <2>1. CASE task.status = "CLARIFICATION_REQUIRED"
    BY <2>1, ExeParts DEF RowsFit, WaitingIsBacked, Renders, TerminalStatuses
  <2>2. CASE task.status # "CLARIFICATION_REQUIRED" /\ plan # NoPlan
    BY <2>2 DEF Renders
  <2>3. CASE task.status = "REJECTED" /\ interaction = "reject"
    BY <2>3, BareWithoutPlan DEF Renders
  <2>4. CASE task.status = "SUCCEEDED" /\ task.terminal_reason = "conversation"
    <3>1. interaction = "respond"
      BY <2>4, ExeParts DEF RowsFit, ReasonsFit
    <3>2. QED
      BY <2>4, <3>1, BareWithoutPlan DEF Renders
  <2>5. QED
    BY <2>1, <2>2, <2>3, <2>4, ExeParts DEF RowsFit, ReasonsFit
<1>4. QED
  BY <1>1, <1>2, <1>3, ExeParts DEF RestsAreBacked, RowsFit

-----------------------------------------------------------------------------
\* Every read, decision and write of WorkerLoop, execute_task and the
\* deterministic runner is, seen from the store, an operation of the store:
\* whatever the theorems of TaskStoreProofs say of arbitrary clients holds of
\* the workers.
THEOREM WorkersImplementStore == ExeSpec => ImplementsStore
<1>1. ExeInit => Init
  BY DEF ExeInit
<1>2. [Next]_vars => (UNCHANGED vars \/ Tick \/ Next)
  OBVIOUS
<1>3. ExeInv /\ [ExeNext]_exeVars => (UNCHANGED vars \/ Tick \/ Next)
  BY <1>2, NextExeInv
<1>4. ExeInv /\ [ExeNext]_exeVars => [UNCHANGED vars \/ Tick \/ Next]_vars
  BY <1>3
<1>5. QED
  BY <1>1, <1>4, ExeInvariant, PTL DEF ExeSpec, ImplementsStore

\* WorkerLoop stops its process on a lifecycle error other than a lost lease, a stale
\* token or a terminal status: an attempt that still owns the task never gets there,
\* since each CAS carries a version nobody else can have raised.  The recovery checks of
\* the runner never fail an attempt that goes on to write the verdict.  PlanStore.save
\* takes no grant, and yet no attempt whose lease is lost can store another plan than the
\* one compiled from the accepted draft.
THEOREM AttemptsAlwaysFit == ExeSpec => []AttemptsFitTogether
<1>1. ExeInv => HolderNeverFailStops
  BY CoroutineFits DEF WorkerFits, HolderNeverFailStops
<1>2. ExeInv => NoRecoveryDrift
  BY ExeParts DEF RowsFit
<1>3. ExeInv => PlanIsAccepted
  BY ExeParts DEF RowsFit
<1>4. ExeInv => AttemptsFitTogether
  BY <1>1, <1>2, <1>3 DEF AttemptsFitTogether
<1>5. QED
  BY <1>4, ExeInvariant, PTL

\* The runner calls the gateway only after begin_step_attempt charged the call
\* to the step's row: a token starts a step once, so no call goes uncharged.
THEOREM CallsAreCharged == ExeSpec => []InvocationsCharged
<1>1. ExeInv => InvocationsCharged
  <2> SUFFICES ASSUME ExeInv, NEW s \in Steps PROVE calls[s] <= journal[s].attempt_count
    BY DEF InvocationsCharged
  <2>1. /\ journal[s].attempt_count \in Nat /\ calls[s] \in Nat
        /\ Cardinality(Pending(s)) \in Nat
        /\ calls[s] + Cardinality(Pending(s)) <= journal[s].attempt_count
    BY ExeParts, JournalFields, PendingIsFinite DEF CallsCharged
  <2>2. QED
    BY <2>1
<1>2. QED
  BY <1>1, ExeInvariant, PTL

\* What execute_task leaves behind when a task rests: an answer has evidence, a
\* wait its request, an end its reflection and what its view renders from.
THEOREM RestsAreAlwaysBacked == ExeSpec => []RestsAreBacked
BY RestsHold, ExeInvariant, PTL
=============================================================================
