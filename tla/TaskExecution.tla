--------------------------- MODULE TaskExecution ---------------------------
(***************************************************************************)
(* What a worker does with a grant: WorkerLoop, the runtime's execute_task *)
(* and the deterministic runner, one action per call that crosses to the   *)
(* store, the model or the gateway.  Between two of them the coroutine may *)
(* be suspended for any time, so what it read before may be stale.         *)
(*                                                                         *)
(*  - A client is one attempt slot of a worker process with its own clock. *)
(*  - The process may die, be cancelled, or see its database connection    *)
(*    fail at any point (Abandon); the lease then runs out.                *)
(*  - A fatal error stops the process (fail-stop) and a supervisor starts  *)
(*    it again.                                                            *)
(*  - The accepted draft is a fixed reply, a question back, a rejection or *)
(*    the plan the deterministic planner compiles from it.                 *)
(*  - Steps are those of the slow-query plan shape: the evidence of a step *)
(*    is "rows" or "empty".                                                *)
(***************************************************************************)
EXTENDS GrantedFacts, Sequences

CONSTANTS
    ClockOf,        \* how far each worker's clock is off
    StepSeq,        \* the steps of each plan, in order
    ConditionOf,    \* [kind, ref, expected] of each step
    AdmissionOf,    \* what admit_step decides for each step
    ListStep,       \* STEP_LIST: the rows that are the answer
    CountStep,      \* STEP_COUNT: tells an empty answer from missing data
    MaxAbandons,    \* bound on abandoned attempts
    MaxStalls       \* bound on missed heartbeats

ASSUME ExecutionAssumption ==
    /\ IsFiniteSet(Clients) /\ ClockOf \in [Clients -> Readings]
    /\ Drafts = {"respond", "clarify", "reject"} \cup Plans
    /\ {"respond", "clarify", "reject"} \cap Plans = {}
    /\ Payloads = {"rows", "empty"}
    /\ \A p \in Plans : StepSeq[p] \in Seq(Steps) /\ StepsOf[p] = Range(StepSeq[p])
    /\ \A s \in Steps : ConditionOf[s].ref \in Steps
    /\ ListStep \in Steps
    /\ AdmissionOf \in [Steps -> {"admit", "approval", "deny"}]
    \* The commands of this module: every reason is used, and a retry's digest
    \* is 1, that of a commit the token it was computed with.
    /\ TerminalReasons = Reasons /\ {1} \cup 1 .. MaxToken \subseteq Digests
    /\ MaxAbandons \in Nat /\ MaxStalls \in Nat

VARIABLES
    local,      \* each worker's coroutine: where it is and what it has read
    calls,      \* gateway invocations per step, over all attempts
    abandons,   \* attempts abandoned so far
    stalls      \* heartbeats missed so far

exeVars == <<vars, factVars, local, calls, abandons, stalls>>

Idle ==
    [pc |-> "idle", status |-> "none", version |-> 0, draft |-> NoFact,
     index |-> 0, results |-> [s \in Steps |-> "none"],
     result |-> "none", payload |-> NoPayload,
     outcome |-> "none", reason |-> "none", answer |-> NoFact]

ExeInit ==
    /\ Init /\ FactInit
    /\ local = [w \in Clients |-> Idle]
    /\ calls = [s \in Steps |-> 0]
    /\ abandons = 0 /\ stalls = 0

At(w, pc) == local[w].pc = pc
Running(w) == local[w].pc \notin {"idle", "stopped_holder", "stopped_loser"}
Holder(w) == task.status \notin TerminalStatuses /\ CurrentAttempt(w)
Become(w, l) == local' = [local EXCEPT ![w] = l]

\* WorkerInvariantError: the process stops; the name records whether the
\* attempt still owned the task.
Stopped(w) ==
    [Idle EXCEPT !.pc = IF Holder(w) THEN "stopped_holder" ELSE "stopped_loser"]

LoserRejections == {"STALE_FENCING_TOKEN", "LEASE_NOT_HELD", "TERMINAL_PROTECTED",
                    "STALE_FENCING", "NOT_RUNNABLE"}

\* LifecycleError with a rejection, as WorkerLoop sorts it.
Rejected(w, rejection) ==
    IF rejection \in LoserRejections THEN Idle ELSE Stopped(w)

Concluded(w, status, reason) ==
    [local[w] EXCEPT !.pc = "finalize", !.outcome = status, !.reason = reason]

Drifted(w) == Concluded(w, "FAILED", "recovery_drift")

ReadOnly == UNCHANGED <<vars, factVars, calls, abandons, stalls>>
OffStore == UNCHANGED <<factVars, calls, abandons, stalls>>

-----------------------------------------------------------------------------
\* WorkerLoop: dispatch.

BeginAttempt(w) ==
    /\ At(w, "idle") /\ TokenLeft /\ VersionLeft
    /\ \E intact \in SubmissionReads :
        /\ BeginTaskAttempt(w, "DISPATCH", intact, ClockOf[w])
        /\ Become(w, IF sequence' # sequence THEN [Idle EXCEPT !.pc = "get"] ELSE Idle)
    /\ OffStore

-----------------------------------------------------------------------------
\* execute_task: the accepted interaction and its route.

GetTask(w) ==
    /\ At(w, "get")
    /\ Become(w, [local[w] EXCEPT !.pc = "interact", !.status = task.status,
                                  !.version = task.version])
    /\ ReadOnly

Routed(w, draft) ==
    LET l == [local[w] EXCEPT !.draft = draft]
    IN  CASE draft = "respond" ->
               IF l.status \in DispatchStatuses
               THEN [l EXCEPT !.pc = "converse"] ELSE Stopped(w)
          [] draft = "clarify" -> [l EXCEPT !.pc = "save_clarification"]
          [] draft = "reject" ->
               [l EXCEPT !.pc = "finalize", !.outcome = "REJECTED", !.reason = "rejected"]
          [] draft \in Plans ->
               IF l.status = "CREATED" THEN [l EXCEPT !.pc = "renew_start"]
               ELSE IF l.status \in {"PLANNING", "RUNNING"}
                    THEN [l EXCEPT !.pc = "renew_resume"] ELSE Stopped(w)

\* load_or_accept_interaction: a stored draft is reused, else one is made.
Interact(w) ==
    /\ At(w, "interact")
    /\ IF interaction # NoFact
       THEN Become(w, Routed(w, interaction))
       ELSE \E draft \in Drafts :
              Become(w, [local[w] EXCEPT !.pc = "save_interaction", !.draft = draft])
    /\ ReadOnly

\* What execute_task makes of a refused write of a granted fact.
FactRefused(w, decision) ==
    CASE decision = "GRANT_LOST" -> Idle
      [] decision = "STATE" -> Stopped(w)
      [] decision = "CONFLICT" -> Drifted(w)

AcceptInteraction(w) ==
    LET draft == local[w].draft
        decision == InteractionDecision(w, draft, ClockOf[w])
    IN  /\ At(w, "save_interaction")
        /\ IF decision = "SAVED"
           THEN SaveInteraction(w, draft, ClockOf[w]) /\ Become(w, Routed(w, draft))
           ELSE UNCHANGED factVars /\ Become(w, FactRefused(w, decision))
        /\ UNCHANGED <<vars, calls, abandons, stalls>>

RecordClarification(w) ==
    LET decision == FactGrant(w, ClockOf[w], DispatchStatuses)
    IN  /\ At(w, "save_clarification")
        /\ IF decision = "ALLOWED"
           THEN /\ SaveClarification(w, ClockOf[w])
                /\ Become(w, Concluded(w, "CLARIFICATION_REQUIRED", "none"))
           ELSE UNCHANGED factVars /\ Become(w, FactRefused(w, decision))
        /\ UNCHANGED <<vars, calls, abandons, stalls>>

\* One CAS under the grant, with the version read before; next is where the
\* coroutine goes on when the store applied it.
Advance(w, to, reason, next) ==
    LET token == grant[w].fencing_token
        decision == ClassifyTransition(to, local[w].version, token, ClockOf[w])
    IN  /\ IF decision = "APPLIED"
           THEN /\ VersionLeft
                /\ Transition(to, local[w].version, token, reason,
                              TransitionEvents(to), ClockOf[w])
                /\ Become(w, next)
           ELSE UNCHANGED vars /\ Become(w, Rejected(w, decision))
        /\ OffStore

Advanced(w, pc) ==
    [local[w] EXCEPT !.pc = pc, !.version = @ + 1]

\* Fault: the path always starts at CREATED.
Converse_FromTheStart(w) ==
    /\ At(w, "converse")
    /\ CASE local[w].index = 0 ->
              Advance(w, "PLANNING", "none", [Advanced(w, "converse") EXCEPT !.index = 1])
         [] local[w].index = 1 ->
              Advance(w, "RUNNING", "none", [Advanced(w, "converse") EXCEPT !.index = 2])
         [] local[w].index = 2 -> Advance(w, "SUCCEEDED", "conversation", Idle)

\* _complete_conversation: the path to SUCCEEDED from the status read first.
Converse(w) ==
    /\ At(w, "converse")
    /\ CASE local[w].status = "CREATED" ->
              Advance(w, "PLANNING", "none",
                      [Advanced(w, "converse") EXCEPT !.status = "PLANNING"])
         [] local[w].status = "PLANNING" ->
              Advance(w, "RUNNING", "none",
                      [Advanced(w, "converse") EXCEPT !.status = "RUNNING"])
         [] local[w].status = "RUNNING" ->
              Advance(w, "SUCCEEDED", "conversation", Idle)

-----------------------------------------------------------------------------
\* The runner: start and resume.

\* _require_current_grant
RequireCurrentGrant(w, from, next) ==
    /\ At(w, from)
    /\ IF MayRenewLease(OwnerOf[w], grant[w].fencing_token, ClockOf[w])
       THEN RenewLease(w, ClockOf[w]) /\ Become(w, [local[w] EXCEPT !.pc = next])
       ELSE UNCHANGED vars /\ Become(w, Idle)
    /\ OffStore

StartJournal(w) ==
    /\ At(w, "start_journal")
    /\ Become(w, IF \E s \in Steps : journal[s].attempt_count > 0
                 THEN Drifted(w) ELSE [local[w] EXCEPT !.pc = "save_plan"])
    /\ ReadOnly

\* The save takes no grant and is idempotent; another plan is a conflict.
StartPlan(w) ==
    /\ At(w, "save_plan")
    /\ IF plan = NoPlan THEN SavePlan(local[w].draft) ELSE UNCHANGED vars
    /\ Become(w, IF plan \in {NoPlan, local[w].draft}
                 THEN [local[w] EXCEPT !.pc = "start_get"] ELSE Drifted(w))
    /\ OffStore

StartGet(w) ==
    /\ At(w, "start_get")
    /\ Become(w, [local[w] EXCEPT !.pc = "to_planning", !.version = task.version])
    /\ ReadOnly

ToPlanning(w) ==
    At(w, "to_planning") /\ Advance(w, "PLANNING", "none", Advanced(w, "to_running"))

ToRunning(w) ==
    At(w, "to_running") /\ Advance(w, "RUNNING", "none", Advanced(w, "load_steps"))

\* _resume: no stored plan, or another than the one compiled now, is a drift.
ResumePlan(w) ==
    /\ At(w, "resume_plan")
    /\ Become(w, IF plan = local[w].draft
                 THEN [local[w] EXCEPT !.pc = "resume_get"] ELSE Drifted(w))
    /\ ReadOnly

ResumeGet(w) ==
    /\ At(w, "resume_get")
    /\ Become(w, CASE task.status \in {"PLANNING", "AWAITING_APPROVAL"} ->
                        [local[w] EXCEPT !.pc = "to_running", !.version = task.version]
                   [] task.status = "RUNNING" -> [local[w] EXCEPT !.pc = "load_steps"]
                   [] OTHER -> Stopped(w))
    /\ ReadOnly

-----------------------------------------------------------------------------
\* The runner: the steps of the plan.

LoadSteps(w) ==
    /\ At(w, "load_steps")
    /\ Become(w, [local[w] EXCEPT !.pc = "step", !.index = 1,
                    !.results = [s \in Steps |-> journal[s].result_status]])
    /\ ReadOnly

PlanOf(w) == StepSeq[local[w].draft]
StepOf(w) == PlanOf(w)[local[w].index]
AtStep(w) == At(w, "step") /\ local[w].index <= Len(PlanOf(w))

\* A condition on a step that did not end OK never holds.
ConditionHolds(w) ==
    LET condition == ConditionOf[StepOf(w)]
    IN  \/ condition.kind = "ALWAYS"
        \/ /\ condition.kind = "EVIDENCE_ROW_COUNT_BELOW"
           /\ local[w].results[condition.ref] = "OK"
           /\ evidence[condition.ref] # "rows"
        \/ /\ condition.kind = "PRIOR_STEP_RESULT_IS"
           /\ local[w].results[condition.ref] = condition.expected

NextStep(w) == [local[w] EXCEPT !.pc = "step", !.index = @ + 1,
                                !.result = "none", !.payload = NoPayload]

AdoptStepRecord(w, result) == [NextStep(w) EXCEPT !.results[StepOf(w)] = result]

SkipStep(w) ==
    /\ AtStep(w) /\ ~ConditionHolds(w)
    /\ Become(w, NextStep(w))
    /\ ReadOnly

RefuseStep(w) ==
    /\ AtStep(w) /\ ConditionHolds(w)
    /\ \/ AdmissionOf[StepOf(w)] = "deny" /\ Become(w, Concluded(w, "REJECTED", "none"))
       \/ /\ AdmissionOf[StepOf(w)] = "approval"
          /\ Become(w, [local[w] EXCEPT !.pc = "approve"])
    /\ ReadOnly

BeginStep(w) ==
    LET s == StepOf(w)
        decision == StepAttemptDecision(w, s, ClockOf[w])
    IN  /\ AtStep(w) /\ ConditionHolds(w) /\ AdmissionOf[s] = "admit"
        /\ IF decision = "PROCEED"
           THEN BeginStepAttempt(w, s, ClockOf[w]) ELSE UNCHANGED vars
        /\ Become(w,
             CASE decision = "PROCEED" -> [local[w] EXCEPT !.pc = "invoke"]
               [] decision = "ALREADY_COMMITTED" ->
                    AdoptStepRecord(w, journal[s].result_status)
               [] decision = "BUDGET_EXHAUSTED" ->
                    Concluded(w, "FAILED", "budget.tool_calls_exhausted")
               [] decision = "UNKNOWN_STEP" -> Drifted(w)
               [] OTHER -> Rejected(w, decision))
        /\ OffStore

\* A failed or timed out call carries no rows; a malformed one no evidence.
Invoke(w) ==
    /\ At(w, "invoke")
    /\ calls' = [calls EXCEPT ![StepOf(w)] = @ + 1]
    /\ \E result \in ResultStatuses, payload \in Payloads \cup {NoPayload} :
        /\ result # "OK" => payload # "rows"
        /\ payload = NoPayload => result = "FAILED"
        /\ Become(w, [local[w] EXCEPT !.pc = "commit", !.result = result,
                                      !.payload = payload])
    /\ UNCHANGED <<vars, factVars, abandons, stalls>>

CommitStep(w) ==
    LET s == StepOf(w)
        digest == grant[w].fencing_token
        decision == StepCommitDecision(w, s, digest, ClockOf[w])
    IN  /\ At(w, "commit")
        /\ IF decision = "COMMITTED"
           THEN CommitStepResult(w, s, local[w].result, local[w].payload,
                                 digest, ClockOf[w])
           ELSE UNCHANGED vars
        /\ Become(w,
             CASE decision = "COMMITTED" -> AdoptStepRecord(w, local[w].result)
               [] decision = "REPLAYED" -> AdoptStepRecord(w, journal[s].result_status)
               [] decision \in LoserRejections -> Idle
               [] OTHER -> Drifted(w))
        /\ OffStore

Degraded(w) == \E s \in Steps : local[w].results[s] \in {"FAILED", "TIMEOUT"}

StepsDone(w) ==
    /\ At(w, "step") /\ local[w].index > Len(PlanOf(w))
    /\ Become(w, Concluded(w, IF Degraded(w) THEN "INDETERMINATE" ELSE "SUCCEEDED",
                           "none"))
    /\ ReadOnly

\* _pause: the request first, the status after it.
PauseRequest(w) ==
    /\ At(w, "approve") /\ ApprovalLeft
    /\ RecordApproval
    /\ Become(w, [local[w] EXCEPT !.pc = "pause_get"])
    /\ OffStore

PauseGet(w) ==
    /\ At(w, "pause_get")
    /\ Become(w, [local[w] EXCEPT !.pc = "to_awaiting", !.version = task.version])
    /\ ReadOnly

ToAwaiting(w) ==
    At(w, "to_awaiting") /\ Advance(w, "AWAITING_APPROVAL", "none", Idle)

-----------------------------------------------------------------------------
\* _finalize: evidence, verdict, advisory and the terminal CAS.

\* answerability.assess
Sufficient ==
    \/ evidence[ListStep] = "rows"
    \/ evidence[ListStep] = "empty" /\ evidence[CountStep] = "rows"

\* An attempt that compiled a plan, or recovered the stored one after a drift,
\* is judged with that plan's assessor; any other has no binding.
Bound(w) == local[w].draft \in Plans \/ (local[w].reason = "recovery_drift" /\ plan # NoPlan)

\* Fault: the verdict on the evidence is ignored.
TerminalStatus_Unjudged(w) == local[w].outcome

TerminalStatus(w) ==
    IF local[w].outcome = "SUCCEEDED" /\ ~Sufficient THEN "INDETERMINATE"
    ELSE local[w].outcome

WantsAdvisory(w) ==
    local[w].outcome = "SUCCEEDED" /\ evidence[ListStep] = "rows"

Finalize(w) ==
    /\ At(w, "finalize")
    /\ Become(w,
         IF ~Bound(w) /\ \E s \in Steps : evidence[s] # NoPayload THEN Stopped(w)
         ELSE [local[w] EXCEPT
                 !.pc = IF WantsAdvisory(w) /\ advisory = NoFact
                        THEN "advise" ELSE "final_get",
                 !.outcome = TerminalStatus(w)])
    /\ ReadOnly

\* The model answers or the stage falls back to no advisory at all.
Advise(w) ==
    /\ At(w, "advise")
    /\ \/ \E a \in Advisories :
            Become(w, [local[w] EXCEPT !.pc = "save_advisory", !.answer = a])
       \/ Become(w, [local[w] EXCEPT !.pc = "final_get"])
    /\ ReadOnly

AcceptAdvisory(w) ==
    LET answer == local[w].answer
        decision == AdvisoryDecision(w, answer, ClockOf[w])
    IN  /\ At(w, "save_advisory")
        /\ IF decision = "SAVED"
           THEN /\ SaveAdvisory(w, answer, ClockOf[w])
                /\ Become(w, [local[w] EXCEPT !.pc = "final_get", !.answer = NoFact])
           ELSE /\ UNCHANGED factVars
                /\ Become(w, IF decision = "CONFLICT"
                             THEN [Drifted(w) EXCEPT !.pc = "final_get", !.answer = NoFact]
                             ELSE FactRefused(w, decision))
        /\ UNCHANGED <<vars, calls, abandons, stalls>>

FinalGet(w) ==
    /\ At(w, "final_get")
    /\ Become(w, [local[w] EXCEPT !.pc = "final", !.version = task.version])
    /\ ReadOnly

Final(w) ==
    At(w, "final") /\ Advance(w, local[w].outcome, local[w].reason, Idle)

\* project_task of TaskViewRuntime: whoever shows the task renders it from the
\* stored plan and evidence; without a plan only a rejection, a conversation
\* or a question can be rendered, and anything else raises.
Renders ==
    LET bare == \A s \in Steps : evidence[s] = NoPayload
    IN  CASE task.status \notin TerminalStatuses -> TRUE
          [] task.status = "CLARIFICATION_REQUIRED" -> clarification
          [] OTHER -> \/ plan # NoPlan
                      \/ task.status = "REJECTED" /\ bare
                      \/ /\ task.status = "SUCCEEDED" /\ bare
                         /\ task.terminal_reason = "conversation"

-----------------------------------------------------------------------------
\* Failures, the heartbeat and time.

\* Any exception execute_task does not know becomes a retry.
Raise(w) ==
    /\ local[w].pc \in {"interact", "invoke"}
    /\ Become(w, [Idle EXCEPT !.pc = "retry"])
    /\ ReadOnly

Retry(w) ==
    LET decision == RetryDecision(w, 1, ClockOf[w])
    IN  /\ At(w, "retry")
        /\ IF decision = "SCHEDULED"
           THEN TokenLeft /\ VersionLeft /\ ScheduleRetry(w, 1, ClockOf[w])
           ELSE UNCHANGED vars
        /\ Become(w, IF decision = "COMMAND_MISMATCH" THEN Stopped(w) ELSE Idle)
        /\ OffStore

\* Fault: the heartbeat extends the lease without comparing the token.
Heartbeat_Unfenced(w) ==
    /\ Running(w)
    /\ task' = [task EXCEPT !.lease_expires_at = ClockOf[w] + LeaseTtl]
    /\ UNCHANGED <<sequence, plan, journal, evidence, approvals, audit, grant, local>>
    /\ OffStore

Heartbeat(w) ==
    /\ Running(w)
    /\ IF MayRenewLease(OwnerOf[w], grant[w].fencing_token, ClockOf[w])
       THEN RenewLease(w, ClockOf[w]) /\ UNCHANGED local
       ELSE UNCHANGED vars /\ Become(w, Idle)
    /\ OffStore

\* A crash, a cancellation, a drained shutdown or a database error.
Abandon(w) ==
    /\ Running(w) /\ abandons < MaxAbandons
    /\ abandons' = abandons + 1
    /\ Become(w, Idle)
    /\ UNCHANGED <<vars, factVars, calls, stalls>>

Restart(w) ==
    /\ local[w].pc \in {"stopped_holder", "stopped_loser"}
    /\ Become(w, Idle)
    /\ ReadOnly

\* The heartbeat interval is below half the lease, so the lease of a running
\* holder does not run out unless its process or its connection stalls.
Missed == \E w \in Clients : /\ Running(w) /\ Holder(w)
                             /\ task.lease_expires_at - 1 <= ClockOf[w]

TimePasses ==
    /\ Tick
    /\ IF Missed THEN stalls < MaxStalls /\ stalls' = stalls + 1 ELSE UNCHANGED stalls
    /\ UNCHANGED <<factVars, local, calls, abandons>>

AttemptStep(w) ==
    \/ GetTask(w) \/ Interact(w) \/ AcceptInteraction(w) \/ RecordClarification(w)
    \/ Converse(w)
    \/ RequireCurrentGrant(w, "renew_start", "start_journal")
    \/ RequireCurrentGrant(w, "renew_resume", "resume_plan")
    \/ StartJournal(w) \/ StartPlan(w) \/ StartGet(w) \/ ToPlanning(w) \/ ToRunning(w)
    \/ ResumePlan(w) \/ ResumeGet(w)
    \/ LoadSteps(w) \/ SkipStep(w) \/ RefuseStep(w) \/ BeginStep(w) \/ Invoke(w)
    \/ CommitStep(w) \/ StepsDone(w)
    \/ PauseRequest(w) \/ PauseGet(w) \/ ToAwaiting(w)
    \/ Finalize(w) \/ Advise(w) \/ AcceptAdvisory(w) \/ FinalGet(w) \/ Final(w)
    \/ Retry(w)

ExeNext ==
    \/ \E w \in Clients :
        BeginAttempt(w) \/ AttemptStep(w) \/ Raise(w) \/ Heartbeat(w)
        \/ Abandon(w) \/ Restart(w)
    \/ TimePasses

ExeSpec == ExeInit /\ [][ExeNext]_exeVars

\* The event loop runs every coroutine that can go on, the poll loop keeps
\* dispatching, the supervisor restarts a stopped process, and time passes.
\* Nothing makes a worker raise, be abandoned or miss a heartbeat.
Fairness ==
    /\ \A w \in Clients :
        /\ WF_exeVars(BeginAttempt(w)) /\ WF_exeVars(AttemptStep(w))
        /\ WF_exeVars(Restart(w))
    /\ WF_exeVars(TimePasses)

FairExeSpec == ExeSpec /\ Fairness

-----------------------------------------------------------------------------
\* Properties.

ExeTypeOK ==
    /\ TypeOK /\ FactTypeOK
    /\ \A w \in Clients :
        /\ local[w].draft \in Drafts \cup {NoFact}
        /\ local[w].version \in Nat /\ local[w].index \in Nat
        /\ local[w].outcome \in TerminalStatuses \cup {"none"}
        /\ local[w].reason \in Reasons
    /\ calls \in [Steps -> Nat]
    /\ abandons \in 0 .. MaxAbandons /\ stalls \in 0 .. MaxStalls

\* Every write of the runtime, the runner and the worker loop is an operation
\* of the store: the execution refines TaskStore, so all that holds of the
\* store for arbitrary clients holds of the workers.  (Spec, with stutters and Tick
\* first, which most steps of a worker are.)
ImplementsStore == Init /\ [][UNCHANGED vars \/ Tick \/ Next]_vars

\* The attempt that owns the task never meets a lifecycle error that stops its
\* worker process: version conflicts, illegal transitions and missing rows are
\* out of its reach, however earlier attempts ended.
HolderNeverFailStops == \A w \in Clients : local[w].pc # "stopped_holder"

\* With an unchanged configuration no interleaving of attempts makes the
\* runtime believe that the plan, the draft or the journal drifted.
NoRecoveryDrift == task.terminal_reason # "recovery_drift"

\* The stored plan is the one compiled from the accepted draft, although
\* PlanStore.save is not fenced by the grant.
PlanIsAccepted == plan # NoPlan => plan = interaction

\* However earlier attempts ended, and whatever late ones still do, an attempt finds
\* what it expects: while it owns the task the row gives it no lifecycle error, no
\* recovery check meets a drift, and the stored plan is that of the accepted draft.
AttemptsFitTogether == HolderNeverFailStops /\ NoRecoveryDrift /\ PlanIsAccepted

\* Every gateway call was charged to the step's durable attempt count before
\* it was made, so crashes and takeovers cannot call beyond the tool budget.
InvocationsCharged == \A s \in Steps : calls[s] <= journal[s].attempt_count

\* A task is reported as answered only with sufficient evidence and without a
\* failed step, or by a conversation, which has no plan, evidence or call.
AnswerIsBacked ==
    task.status = "SUCCEEDED" =>
        IF task.terminal_reason = "conversation"
        THEN plan = NoPlan /\ \A s \in Steps : calls[s] = 0 /\ evidence[s] = NoPayload
        ELSE Sufficient /\ \A s \in Steps :
                journal[s].result_status \notin {"FAILED", "TIMEOUT"}

\* The count step runs only after a list step that really returned no row; a
\* failed list step never looks like an empty one, also after a takeover.
ConditionalStepJustified ==
    \A s \in Steps :
        (ConditionOf[s].kind = "EVIDENCE_ROW_COUNT_BELOW" /\ journal[s].attempt_count > 0)
            => /\ journal[ConditionOf[s].ref].result_status = "OK"
               /\ evidence[ConditionOf[s].ref] = "empty"

\* A task that waits for an approval has a recorded request to approve, and
\* one that asks back has the record a child task needs to answer it.
WaitingIsBacked ==
    /\ task.status = "AWAITING_APPROVAL" => approvals > 0
    /\ task.status = "CLARIFICATION_REQUIRED" => clarification

StoreTerminalized ==
    task.terminal_reason \in {"retry_exhausted", "submission_invariant_violation"}

\* A task terminated by the runtime has exactly one REFLECTION row, however
\* many attempts tried to terminate it; one the store failed itself has none.
ReflectionAccounts ==
    audit["reflection"] =
        IF task.status \in TerminalStatuses /\ ~StoreTerminalized THEN 1 ELSE 0

\* However an attempt of the runtime ended the task, the facts it left behind
\* are enough to render the end on the web page and in the channel.
RuntimeEndsRender ==
    (task.status \in TerminalStatuses /\ ~StoreTerminalized) => Renders

\* Whatever finitely many crashes, stalls and unclassified errors happen, the
\* task ends or waits for an approval.
Settles == <>(task.status \in TerminalStatuses \cup {"AWAITING_APPROVAL"})

\* Whatever state a task rests in is backed by what its attempts recorded: an answer by
\* evidence, a conditional step by the result it depends on, a wait by its request, an
\* end by its reflection and by the facts its view needs.
RestsAreBacked ==
    /\ ExeTypeOK
    /\ AnswerIsBacked /\ ConditionalStepJustified /\ WaitingIsBacked
    /\ ReflectionAccounts /\ RuntimeEndsRender
=============================================================================
