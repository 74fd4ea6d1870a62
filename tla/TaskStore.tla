----------------------------- MODULE TaskStore -----------------------------
(***************************************************************************)
(* The durable task store: one task row, its step journal, its evidence,   *)
(* its audit trail and the plan row, with every operation of TaskStore     *)
(* that changes them.  An operation is one PostgreSQL transaction that     *)
(* locks the task row first, so it is one atomic action here.              *)
(*                                                                         *)
(* The callers are left free: a client is any coroutine that ever obtained *)
(* a grant, it keeps that grant for as long as it likes, and it may call   *)
(* any operation with it at any moment.  What is proved of this module     *)
(* therefore holds for every worker written against the store.             *)
(*                                                                         *)
(* Abstractions.                                                           *)
(*  - One task.  Tasks share nothing but the fencing sequence.             *)
(*  - Each process reads its own clock.  Deadlines are kept relative to    *)
(*    true time: Tick moves every deadline one closer, and a caller whose  *)
(*    clock is off by `now' compares a deadline with `now'.  A deadline    *)
(*    that no clock still reads as ahead is Past, which also stands for an *)
(*    absent next_attempt_at.                                              *)
(*  - fencing_token, retry_scheduled_by_attempt and a digest are 0 when    *)
(*    the column is NULL: all three are positive otherwise.                *)
(*  - The audit trail is the number of rows per kind of event that a       *)
(*    command commits together with its own writes.                        *)
(***************************************************************************)
EXTENDS Integers, FiniteSets, Functions, TaskStates

CONSTANTS
    Clients,            \* coroutines that may hold a grant
    OwnerOf,            \* the worker process each client runs in
    Steps,              \* step ids
    Plans,              \* compiled plans
    StepsOf,            \* the step ids of each plan
    Payloads,           \* contents of an evidence envelope
    Digests,            \* digests of retry and commit commands
    TaskFailureLimit,   \* task_failure_limit
    MaxToolCalls,       \* plan.budget.max_tool_calls
    LeaseTtl,           \* lease_ttl_seconds
    RetryDelay,         \* how far ahead a retry is scheduled
    Skew,               \* how far a process clock may be off
    SubmissionReads,    \* what comparing the stored submission can yield
    TerminalReasons,    \* terminal_reason values a transition may carry
    MaxToken,           \* bound on the fencing sequence
    MaxVersion,         \* bound on the task version
    MaxApprovals        \* bound on the approval requests

NoOwner == "NoOwner"
NoPlan == "NoPlan"
NoPayload == "NoPayload"
Owners == {OwnerOf[c] : c \in Clients}

Reasons == {"none", "retry_exhausted", "submission_invariant_violation",
            "recovery_drift", "budget.tool_calls_exhausted", "conversation",
            "rejected"}

ASSUME StoreAssumption ==
    /\ OwnerOf \in [Clients -> STRING] /\ NoOwner \notin Owners
    /\ NoPlan \notin Plans /\ StepsOf \in [Plans -> SUBSET Steps]
    /\ IsFiniteSet(Steps)
    /\ NoPayload \notin Payloads
    /\ Digests \subseteq Nat \ {0}
    /\ TaskFailureLimit \in Nat \ {0} /\ MaxToolCalls \in Nat
    /\ LeaseTtl \in Nat \ {0} /\ RetryDelay \in Nat \ {0} /\ Skew \in Nat
    /\ SubmissionReads \subseteq BOOLEAN /\ TerminalReasons \subseteq Reasons
    /\ MaxToken \in Nat /\ MaxVersion \in Nat /\ MaxApprovals \in Nat

-----------------------------------------------------------------------------
AttemptStatuses(intent) ==
    IF intent = "DISPATCH" THEN DispatchStatuses ELSE ApprovalResumeStatuses

-----------------------------------------------------------------------------
VARIABLES
    task,       \* the TaskRecord row
    sequence,   \* last value of FENCING_SEQUENCE
    plan,       \* the task_plans row
    journal,    \* task_step_executions, a row per step
    evidence,   \* task_evidence, the envelope stored under each step's id
    approvals,  \* number of task_approvals rows
    audit,      \* rows of task_audit_events committed by commands, per kind
    grant       \* the grant each client was last given and still holds

storeVars == <<task, sequence, plan, journal, evidence, approvals, audit>>
vars == <<storeVars, grant>>

Past == -Skew
Readings == -Skew .. Skew
Deadlines == {d \in Int : d >= Past}

TaskRecord ==
    [status : Statuses, version : Nat,
     attempt_number : Nat, task_failure_count : Nat,
     next_attempt_at : Deadlines,
     retry_scheduled_by_attempt : Nat, retry_command_digest : Nat,
     lease_owner : Owners \cup {NoOwner}, lease_expires_at : Deadlines,
     fencing_token : Nat, terminal_reason : Reasons]

\* A row with attempt_count 0 is an absent row.
StepExecutionRecord ==
    [attempt_count : Nat, last_fencing_token : Nat,
     result_status : ResultStatuses \cup {"none"}, commit_digest : Nat]

\* attempt_number 0 is a bare LeaseGrant; a TaskAttemptGrant has a positive one.
Grant == [fencing_token : Nat, attempt_number : Nat]
NoGrant == [fencing_token |-> 0, attempt_number |-> 0]

AuditKinds == {"lifecycle", "reflection", "retry", "exhausted", "step"}
NoEvents == [k \in AuditKinds |-> 0]
Events(kinds) == [k \in AuditKinds |-> IF k \in kinds THEN 1 ELSE 0]
Appended(events) == [k \in AuditKinds |-> audit[k] + events[k]]

TypeOK ==
    /\ task \in TaskRecord
    /\ sequence \in Nat
    /\ plan \in Plans \cup {NoPlan}
    /\ journal \in [Steps -> StepExecutionRecord]
    /\ evidence \in [Steps -> Payloads \cup {NoPayload}]
    /\ approvals \in Nat
    /\ audit \in [AuditKinds -> Nat]
    /\ grant \in [Clients -> Grant]

Init ==
    /\ task = [status |-> "CREATED", version |-> 0,
               attempt_number |-> 0, task_failure_count |-> 0,
               next_attempt_at |-> Past,
               retry_scheduled_by_attempt |-> 0, retry_command_digest |-> 0,
               lease_owner |-> NoOwner, lease_expires_at |-> Past,
               fencing_token |-> 0, terminal_reason |-> "none"]
    /\ sequence = 0
    /\ plan = NoPlan
    /\ journal = [s \in Steps |->
                    [attempt_count |-> 0, last_fencing_token |-> 0,
                     result_status |-> "none", commit_digest |-> 0]]
    /\ evidence = [s \in Steps |-> NoPayload]
    /\ approvals = 0
    /\ audit = NoEvents
    /\ grant = [c \in Clients |-> NoGrant]

-----------------------------------------------------------------------------
\* persistence/decisions.py: the shared decisions, in their rejection order.

LeaseIsLive(now) ==
    task.lease_owner # NoOwner /\ task.lease_expires_at > now

\* Fault: one failure too many is allowed.
ClassifyTaskAttempt_LimitOffByOne(intent, now) ==
    IF task.status \in TerminalStatuses THEN "TERMINAL_PROTECTED"
    ELSE IF task.status \notin AttemptStatuses(intent) THEN "NOT_DISPATCHABLE"
    ELSE IF task.next_attempt_at > now THEN "RETRY_NOT_DUE"
    ELSE IF LeaseIsLive(now) THEN "LIVE_LEASE"
    ELSE IF task.task_failure_count > TaskFailureLimit THEN "RETRY_EXHAUSTED"
    ELSE "GRANTED"

ClassifyTaskAttempt(intent, now) ==
    IF task.status \in TerminalStatuses THEN "TERMINAL_PROTECTED"
    ELSE IF task.status \notin AttemptStatuses(intent) THEN "NOT_DISPATCHABLE"
    ELSE IF task.next_attempt_at > now THEN "RETRY_NOT_DUE"
    ELSE IF LeaseIsLive(now) THEN "LIVE_LEASE"
    ELSE IF task.task_failure_count >= TaskFailureLimit THEN "RETRY_EXHAUSTED"
    ELSE "GRANTED"

HoldsGrant(c) == grant[c].attempt_number > 0

GrantIsCurrent(c, now, allowed) ==
    IF task.status \in TerminalStatuses THEN "TERMINAL_PROTECTED"
    ELSE IF task.status \notin allowed THEN "STATUS_NOT_ALLOWED"
    ELSE IF ~LeaseIsLive(now) THEN "LEASE_NOT_HELD"
    ELSE IF \/ task.lease_owner # OwnerOf[c]
            \/ task.fencing_token # grant[c].fencing_token
            \/ task.attempt_number # grant[c].attempt_number
         THEN "STALE_FENCING"
    ELSE "CURRENT"

\* A token of 0 is a call without a token.
CheckFencing(token, now) ==
    IF task.fencing_token = 0
    THEN IF token = 0 THEN "ACCEPTED" ELSE "LEASE_NOT_HELD"
    ELSE IF ~LeaseIsLive(now) \/ token = 0 THEN "LEASE_NOT_HELD"
    ELSE IF token # task.fencing_token THEN "STALE_FENCING_TOKEN"
    ELSE "ACCEPTED"

\* Fault: the state machine is not consulted.
ClassifyTransition_AnyTarget(to, expected, token, now) ==
    IF task.status \in TerminalStatuses THEN "TERMINAL_PROTECTED"
    ELSE IF CheckFencing(token, now) # "ACCEPTED" THEN CheckFencing(token, now)
    ELSE IF task.version # expected THEN "VERSION_MISMATCH"
    ELSE "APPLIED"

ClassifyTransition(to, expected, token, now) ==
    IF task.status \in TerminalStatuses THEN "TERMINAL_PROTECTED"
    ELSE IF CheckFencing(token, now) # "ACCEPTED" THEN CheckFencing(token, now)
    ELSE IF task.version # expected THEN "VERSION_MISMATCH"
    ELSE IF to \notin AllowedTransitions(task.status) THEN "ILLEGAL_TRANSITION"
    ELSE "APPLIED"

MayAcquireLease(owner, now) ==
    /\ task.status \notin TerminalStatuses
    /\ ~(LeaseIsLive(now) /\ task.lease_owner # owner)

MayRenewLease(owner, token, now) ==
    /\ LeaseIsLive(now)
    /\ task.lease_owner = owner
    /\ task.fencing_token = token

-----------------------------------------------------------------------------
\* Task-level operations.

\* begin_task_attempt, the terminal branch: the store itself fails the task.
TerminalizeAttemptRejection(reason) ==
    /\ task' = [task EXCEPT !.status = "FAILED", !.version = @ + 1,
                            !.terminal_reason = reason]
    /\ audit' = Appended(Events({"exhausted"}))
    /\ UNCHANGED <<sequence, plan, journal, evidence, approvals, grant>>

\* Fault: a takeover keeps the token that is in the row.
GrantAttempt_KeepsToken(c, now) ==
    LET token == IF task.fencing_token = 0 THEN sequence + 1 ELSE task.fencing_token
    IN  /\ sequence' = sequence + 1
        /\ task' = [task EXCEPT !.attempt_number = @ + 1,
                                !.next_attempt_at = Past,
                                !.lease_owner = OwnerOf[c],
                                !.lease_expires_at = now + LeaseTtl,
                                !.fencing_token = token]
        /\ grant' = [grant EXCEPT ![c] =
                        [fencing_token |-> token,
                         attempt_number |-> task.attempt_number + 1]]
        /\ UNCHANGED <<plan, journal, evidence, approvals, audit>>

\* begin_task_attempt, the successful branch: version and the failure count
\* are left alone, only the attempt number and the lease move.
GrantAttempt(c, now) ==
    /\ sequence' = sequence + 1
    /\ task' = [task EXCEPT !.attempt_number = @ + 1,
                            !.next_attempt_at = Past,
                            !.lease_owner = OwnerOf[c],
                            !.lease_expires_at = now + LeaseTtl,
                            !.fencing_token = sequence + 1]
    /\ grant' = [grant EXCEPT ![c] =
                    [fencing_token |-> sequence + 1,
                     attempt_number |-> task.attempt_number + 1]]
    /\ UNCHANGED <<plan, journal, evidence, approvals, audit>>

BeginTaskAttempt(c, intent, intact, now) ==
    LET decision == ClassifyTaskAttempt(intent, now)
    IN  \/ /\ decision = "RETRY_EXHAUSTED"
           /\ TerminalizeAttemptRejection("retry_exhausted")
        \/ /\ decision = "GRANTED" /\ ~intact
           /\ TerminalizeAttemptRejection("submission_invariant_violation")
        \/ /\ decision = "GRANTED" /\ intact
           /\ GrantAttempt(c, now)

RetryDecision(c, digest, now) ==
    IF task.status \in TerminalStatuses THEN "TERMINAL_PROTECTED"
    ELSE IF /\ task.retry_scheduled_by_attempt = grant[c].attempt_number
            /\ task.attempt_number = grant[c].attempt_number
         THEN IF task.retry_command_digest = digest
              THEN "ALREADY_SCHEDULED" ELSE "COMMAND_MISMATCH"
    ELSE IF GrantIsCurrent(c, now, DispatchStatuses) # "CURRENT"
         THEN "STALE_FENCING"
    ELSE "SCHEDULED"

\* Fault: the failure is not charged.
ScheduleRetry_Uncharged(c, digest, now) ==
    /\ RetryDecision(c, digest, now) = "SCHEDULED"
    /\ sequence' = sequence + 1
    /\ task' = [task EXCEPT !.version = @ + 1,
                            !.next_attempt_at = now + RetryDelay,
                            !.retry_scheduled_by_attempt = grant[c].attempt_number,
                            !.retry_command_digest = digest,
                            !.lease_expires_at = now + RetryDelay,
                            !.fencing_token = sequence + 1]
    /\ audit' = Appended(Events({"retry"}))
    /\ UNCHANGED <<plan, journal, evidence, approvals, grant>>

\* The new token belongs to nobody: it only makes the old one stale.
ScheduleRetry(c, digest, now) ==
    /\ RetryDecision(c, digest, now) = "SCHEDULED"
    /\ sequence' = sequence + 1
    /\ task' = [task EXCEPT !.version = @ + 1,
                            !.task_failure_count = @ + 1,
                            !.next_attempt_at = now + RetryDelay,
                            !.retry_scheduled_by_attempt = grant[c].attempt_number,
                            !.retry_command_digest = digest,
                            !.lease_expires_at = now + RetryDelay,
                            !.fencing_token = sequence + 1]
    /\ audit' = Appended(Events({"retry"}))
    /\ UNCHANGED <<plan, journal, evidence, approvals, grant>>

\* terminal_reason is written unconditionally, "none" included.
Transition(to, expected, token, reason, events, now) ==
    /\ ClassifyTransition(to, expected, token, now) = "APPLIED"
    /\ task' = [task EXCEPT !.status = to, !.version = @ + 1,
                            !.terminal_reason = reason]
    /\ audit' = Appended(events)
    /\ UNCHANGED <<sequence, plan, journal, evidence, approvals, grant>>

AcquireLease(c, now) ==
    /\ MayAcquireLease(OwnerOf[c], now)
    /\ sequence' = sequence + 1
    /\ task' = [task EXCEPT !.lease_owner = OwnerOf[c],
                            !.lease_expires_at = now + LeaseTtl,
                            !.fencing_token = sequence + 1]
    /\ grant' = [grant EXCEPT ![c] =
                    [fencing_token |-> sequence + 1, attempt_number |-> 0]]
    /\ UNCHANGED <<plan, journal, evidence, approvals, audit>>

RenewLease(c, now) ==
    /\ MayRenewLease(OwnerOf[c], grant[c].fencing_token, now)
    /\ task' = [task EXCEPT !.lease_expires_at = now + LeaseTtl]
    /\ UNCHANGED <<sequence, plan, journal, evidence, approvals, audit, grant>>

RecordApproval ==
    /\ approvals' = approvals + 1
    /\ UNCHANGED <<task, sequence, plan, journal, evidence, audit, grant>>

\* PlanStore.save: insert once; it takes no grant.
SavePlan(p) ==
    /\ plan = NoPlan
    /\ plan' = p
    /\ UNCHANGED <<task, sequence, journal, evidence, approvals, audit, grant>>

-----------------------------------------------------------------------------
\* The step journal.

\* The SUM over the rows, as the number of attempts they count.
Attempts == UNION {{s} \X (1 .. journal[s].attempt_count) : s \in Steps}
AttemptsUsed == Cardinality(Attempts)

\* Fault: only the first attempt at a step is charged.
IncrementsBudget_FirstOnly(c, s) == journal[s].attempt_count = 0

IncrementsBudget(c, s) ==
    journal[s].last_fencing_token # grant[c].fencing_token

\* Fault: the budget check lets one call too many through.
StepAttemptDecision_BudgetOffByOne(c, s, now) ==
    LET current == GrantIsCurrent(c, now, {"RUNNING"})
    IN  IF current \in {"TERMINAL_PROTECTED", "STATUS_NOT_ALLOWED"}
        THEN "NOT_RUNNABLE"
        ELSE IF current # "CURRENT" THEN "STALE_FENCING"
        ELSE IF journal[s].result_status # "none" THEN "ALREADY_COMMITTED"
        ELSE IF plan = NoPlan THEN "NOT_RUNNABLE"
        ELSE IF s \notin StepsOf[plan] THEN "UNKNOWN_STEP"
        ELSE IF IncrementsBudget(c, s) /\ AttemptsUsed > MaxToolCalls
             THEN "BUDGET_EXHAUSTED"
        ELSE "PROCEED"

StepAttemptDecision(c, s, now) ==
    LET current == GrantIsCurrent(c, now, {"RUNNING"})
    IN  IF current \in {"TERMINAL_PROTECTED", "STATUS_NOT_ALLOWED"}
        THEN "NOT_RUNNABLE"
        ELSE IF current # "CURRENT" THEN "STALE_FENCING"
        ELSE IF journal[s].result_status # "none" THEN "ALREADY_COMMITTED"
        ELSE IF plan = NoPlan THEN "NOT_RUNNABLE"
        ELSE IF s \notin StepsOf[plan] THEN "UNKNOWN_STEP"
        ELSE IF IncrementsBudget(c, s) /\ AttemptsUsed >= MaxToolCalls
             THEN "BUDGET_EXHAUSTED"
        ELSE "PROCEED"

BeginStepAttempt(c, s, now) ==
    /\ StepAttemptDecision(c, s, now) = "PROCEED"
    /\ journal' =
         IF IncrementsBudget(c, s)
         THEN [journal EXCEPT ![s].attempt_count = @ + 1,
                              ![s].last_fencing_token = grant[c].fencing_token]
         ELSE journal
    /\ UNCHANGED <<task, sequence, plan, evidence, approvals, audit, grant>>

\* Fault: the last result wins.
StepCommitDecision_LastWins(c, s, digest, now) ==
    LET current == GrantIsCurrent(c, now, {"RUNNING"})
    IN  IF current \in {"TERMINAL_PROTECTED", "STATUS_NOT_ALLOWED"}
        THEN "NOT_RUNNABLE"
        ELSE IF current # "CURRENT" THEN "STALE_FENCING"
        ELSE IF journal[s].last_fencing_token # grant[c].fencing_token
             THEN "NO_ATTEMPT_IN_FLIGHT"
        ELSE "COMMITTED"

StepCommitDecision(c, s, digest, now) ==
    LET current == GrantIsCurrent(c, now, {"RUNNING"})
    IN  IF current \in {"TERMINAL_PROTECTED", "STATUS_NOT_ALLOWED"}
        THEN "NOT_RUNNABLE"
        ELSE IF current # "CURRENT" THEN "STALE_FENCING"
        ELSE IF journal[s].last_fencing_token # grant[c].fencing_token
             THEN "NO_ATTEMPT_IN_FLIGHT"
        ELSE IF journal[s].result_status # "none"
             THEN IF journal[s].commit_digest = digest
                  THEN "REPLAYED" ELSE "ALREADY_COMMITTED_DIFFERENT"
        ELSE "COMMITTED"

\* The evidence, the journal row and the audit rows are one transaction;
\* payload is NoPayload for a malformed adapter response.
CommitStepResult(c, s, result, payload, digest, now) ==
    /\ StepCommitDecision(c, s, digest, now) = "COMMITTED"
    /\ journal' = [journal EXCEPT ![s].result_status = result,
                                  ![s].commit_digest = digest]
    /\ evidence' = [evidence EXCEPT ![s] = IF payload = NoPayload THEN @ ELSE payload]
    /\ audit' = Appended(Events({"step"}))
    /\ UNCHANGED <<task, sequence, plan, approvals, grant>>

-----------------------------------------------------------------------------
\* Time passes: every deadline comes one closer, down to Past.

Closer(d) == IF d > Past THEN d - 1 ELSE d

Tick ==
    /\ task' = [task EXCEPT !.next_attempt_at = Closer(@),
                            !.lease_expires_at = Closer(@)]
    /\ UNCHANGED <<sequence, plan, journal, evidence, approvals, audit, grant>>

\* Bounds: a step that would draw a token or a version above them is not taken.
TokenLeft == sequence < MaxToken
VersionLeft == task.version < MaxVersion
ApprovalLeft == approvals < MaxApprovals

\* Every caller sends a LIFECYCLE event, and a REFLECTION event with a terminal.
TransitionEvents(to) ==
    Events(IF to \in TerminalStatuses THEN {"reflection", "lifecycle"}
                                      ELSE {"lifecycle"})

\* A client may present its own token or none, and any version it once read.
ClientTransition(c, now) ==
    \E to \in Statuses, expected \in 0 .. task.version,
       token \in {0, grant[c].fencing_token}, reason \in TerminalReasons :
        /\ reason # "none" => to \in TerminalStatuses
        /\ Transition(to, expected, token, reason, TransitionEvents(to), now)

ClientCommit(c, s, now) ==
    \E result \in ResultStatuses, payload \in Payloads \cup {NoPayload},
       digest \in Digests :
        /\ payload = NoPayload => result = "FAILED"
        /\ CommitStepResult(c, s, result, payload, digest, now)

ClientStep(c, now) ==
    \/ /\ TokenLeft /\ VersionLeft
       /\ \E intent \in {"DISPATCH", "APPROVAL_RESUME"}, intact \in SubmissionReads :
            BeginTaskAttempt(c, intent, intact, now)
    \/ /\ TokenLeft /\ VersionLeft /\ HoldsGrant(c)
       /\ \E digest \in Digests : ScheduleRetry(c, digest, now)
    \/ VersionLeft /\ ClientTransition(c, now)
    \/ TokenLeft /\ AcquireLease(c, now)
    \/ RenewLease(c, now)
    \/ \E s \in Steps : HoldsGrant(c) /\ BeginStepAttempt(c, s, now)
    \/ \E s \in Steps : HoldsGrant(c) /\ ClientCommit(c, s, now)

Next ==
    \/ \E c \in Clients, now \in Readings : ClientStep(c, now)
    \/ \E p \in Plans : SavePlan(p)
    \/ ApprovalLeft /\ RecordApproval
    \/ Tick

Spec == Init /\ [][Next]_vars

-----------------------------------------------------------------------------
\* Properties.

\* Every row the store writes can be read back: the validators of TaskRecord
\* (lease columns set together, retry marker set together and never of a
\* future attempt) hold, so no reader fails with an integrity error.
RecordDecodes ==
    /\ (task.lease_owner # NoOwner) <=> (task.fencing_token # 0)
    /\ (task.retry_scheduled_by_attempt # 0) <=> (task.retry_command_digest # 0)
    /\ task.retry_scheduled_by_attempt <= task.attempt_number

CurrentAttempt(c) ==
    /\ HoldsGrant(c)
    /\ grant[c].fencing_token = task.fencing_token

\* Whatever clients kept from earlier attempts, at most one of them holds the
\* token that is in the task row: two coroutines never both pass the fencing
\* check of the same row.
SoleHolder ==
    \A c, d \in Clients :
        (CurrentAttempt(c) /\ grant[d].fencing_token = task.fencing_token) => c = d

\* Tokens are drawn in order and given to one client each; the row holds the
\* newest one a step was ever tried with.
TokensOrdered ==
    /\ task.fencing_token <= sequence
    /\ \A c \in Clients : /\ grant[c].fencing_token <= sequence
                          /\ HoldsGrant(c) => grant[c].fencing_token > 0
    /\ \A c, d \in Clients :
         (c # d /\ grant[c].fencing_token # 0)
            => grant[c].fencing_token # grant[d].fencing_token
    /\ \A s \in Steps : journal[s].last_fencing_token <= task.fencing_token

\* A retry is charged at most once per attempt and never beyond the limit,
\* and the attempt that holds the row always has budget left to be charged.
FailureBudget ==
    /\ task.task_failure_count <= TaskFailureLimit
    /\ task.task_failure_count <= task.attempt_number
    /\ \A c \in Clients : CurrentAttempt(c) =>
         /\ task.task_failure_count < TaskFailureLimit
         /\ task.task_failure_count < task.attempt_number

\* Once an attempt has handed the task over to a retry, nobody holds the row
\* until the next attempt begins: the failed attempt cannot write afterwards.
RetryHandsOff ==
    (task.attempt_number > 0 /\ task.retry_scheduled_by_attempt = task.attempt_number)
        => \A c \in Clients : ~CurrentAttempt(c)

\* The step attempts of all attempts of the task together stay within the
\* plan's tool budget, takeovers and replays included.
ToolBudget == AttemptsUsed <= MaxToolCalls

\* A task that has not reached RUNNING has no step journal and no evidence,
\* which is what the runner's start relies on.
CleanStart ==
    task.status \in {"CREATED", "PLANNING"} =>
        \A s \in Steps : journal[s].attempt_count = 0 /\ evidence[s] = NoPayload

\* Every version the row went through left exactly one audit row of its own
\* in the same transaction.
AuditMatchesVersion ==
    audit["lifecycle"] + audit["retry"] + audit["exhausted"] = task.version

\* A terminal task is final: its status, version, reason and failure count,
\* its journal and its evidence never change again, whoever calls.
TerminalFrozen ==
    [][task.status \in TerminalStatuses =>
         /\ task'.status = task.status /\ task'.version = task.version
         /\ task'.terminal_reason = task.terminal_reason
         /\ task'.task_failure_count = task.task_failure_count
         /\ UNCHANGED <<journal, evidence>>]_vars

\* A step row only moves forward: a newer attempt's token is never replaced by
\* an older one, and a committed result and its evidence are never rewritten.
JournalForward ==
    [][\A s \in Steps :
         /\ journal'[s].last_fencing_token >= journal[s].last_fencing_token
         /\ journal[s].result_status # "none" =>
              journal'[s] = journal[s] /\ evidence'[s] = evidence[s]]_vars

\* project_task renders the end of the task although it finds no plan.
EndIsBare ==
    \/ task.status = "CLARIFICATION_REQUIRED"
    \/ /\ \A s \in Steps : evidence[s] = NoPayload
       /\ \/ task.status = "REJECTED"
          \/ task.status = "SUCCEEDED" /\ task.terminal_reason = "conversation"

Contract == INSTANCE TaskContract
                WITH status <- task.status, version <- task.version,
                     planned <- plan # NoPlan, bare <- EndIsBare,
                     result <- [s \in Steps |-> journal[s].result_status],
                     failures <- task.task_failure_count

\* The store implements the contract: seen through the status and the version,
\* the plan, the step results and the failure count, every transaction is a step
\* of TaskContract or changes nothing, whichever client runs it with whichever
\* grant.
ImplementsContract == Contract!Spec

\* Whatever clients call in whatever order, the row can be read back, charges failures up
\* to the limit, has no journal before it runs, and an audit event for every version.
RowsAreSound == TypeOK /\ RecordDecodes /\ FailureBudget /\ CleanStart /\ AuditMatchesVersion

\* What was written for good stays: a terminal task, a committed step, a counted attempt.
HistoryIsKept == TerminalFrozen /\ JournalForward
=============================================================================
