-------------------------- MODULE TaskStoreProofs --------------------------
(***************************************************************************)
(* What TaskStore promises for any number of clients, steps and plans and  *)
(* any bounds: proofs about every behaviour of Spec, and that the store in *)
(* memory takes the same steps.                                            *)
(***************************************************************************)
EXTENDS InMemoryTaskStore, FiniteSetTheorems, TLAPS

LEMMA NowIsAReading ==
    ASSUME NEW now \in Readings
    PROVE  /\ now \in Int
           /\ now + LeaseTtl \in Deadlines /\ now + RetryDelay \in Deadlines
BY StoreAssumption DEF Readings, Deadlines, Past

LEMMA CloserIsADeadline ==
    ASSUME NEW d \in Deadlines
    PROVE  Closer(d) \in Deadlines
BY StoreAssumption DEF Closer, Deadlines, Past

LEMMA InitTypeOK == Init => TypeOK
<1>1. Past \in Deadlines
  BY StoreAssumption DEF Deadlines, Past
<1>2. QED
  BY <1>1 DEF Init, TypeOK, TaskRecord, Statuses, TerminalStatuses, Reasons, NoOwner,
     StepExecutionRecord, Grant, NoGrant, NoEvents, AuditKinds

\* The fields of the task row, and the four shapes in which it is rewritten.
LEMMA TaskFields ==
    ASSUME TypeOK
    PROVE  /\ task.status \in Statuses /\ task.version \in Nat /\ task.version + 1 \in Nat
           /\ task.attempt_number \in Nat /\ task.attempt_number + 1 \in Nat
           /\ task.task_failure_count \in Nat /\ task.task_failure_count + 1 \in Nat
           /\ task.retry_scheduled_by_attempt \in Nat /\ task.retry_command_digest \in Nat
           /\ task.next_attempt_at \in Deadlines /\ task.lease_expires_at \in Deadlines
           /\ task.fencing_token \in Nat /\ sequence \in Nat /\ sequence + 1 \in Nat
           /\ task.lease_owner \in Owners \cup {NoOwner}
BY DEF TypeOK, TaskRecord

LEMMA StatusUpdate ==
    ASSUME NEW t \in TaskRecord, NEW status \in Statuses, NEW version \in Nat,
           NEW reason \in Reasons
    PROVE  [t EXCEPT !.status = status, !.version = version,
                     !.terminal_reason = reason] \in TaskRecord
BY DEF TaskRecord

LEMMA AttemptUpdate ==
    ASSUME NEW t \in TaskRecord, NEW number \in Nat, NEW due \in Deadlines,
           NEW owner \in Owners, NEW expires \in Deadlines, NEW token \in Nat
    PROVE  [t EXCEPT !.attempt_number = number, !.next_attempt_at = due,
                     !.lease_owner = owner, !.lease_expires_at = expires,
                     !.fencing_token = token] \in TaskRecord
BY DEF TaskRecord

LEMMA RetryUpdate ==
    ASSUME NEW t \in TaskRecord, NEW version \in Nat, NEW failures \in Nat,
           NEW due \in Deadlines, NEW by \in Nat, NEW digest \in Nat,
           NEW expires \in Deadlines, NEW token \in Nat
    PROVE  [t EXCEPT !.version = version, !.task_failure_count = failures,
                     !.next_attempt_at = due, !.retry_scheduled_by_attempt = by,
                     !.retry_command_digest = digest, !.lease_expires_at = expires,
                     !.fencing_token = token] \in TaskRecord
BY DEF TaskRecord

LEMMA LeaseUpdate ==
    ASSUME NEW t \in TaskRecord, NEW owner \in Owners,
           NEW expires \in Deadlines, NEW token \in Nat
    PROVE  [t EXCEPT !.lease_owner = owner, !.lease_expires_at = expires,
                     !.fencing_token = token] \in TaskRecord
BY DEF TaskRecord

LEMMA StepUpdate ==
    ASSUME TypeOK, NEW s \in Steps, NEW c \in Clients
    PROVE  [journal EXCEPT ![s].attempt_count = @ + 1,
                           ![s].last_fencing_token = grant[c].fencing_token]
              \in [Steps -> StepExecutionRecord]
<1>1. journal[s].attempt_count + 1 \in Nat /\ grant[c].fencing_token \in Nat
  BY DEF TypeOK, StepExecutionRecord, Grant
<1>2. ASSUME NEW count \in Nat, NEW token \in Nat
      PROVE  [journal EXCEPT ![s].attempt_count = count,
                             ![s].last_fencing_token = token]
                \in [Steps -> StepExecutionRecord]
  BY DEF TypeOK, StepExecutionRecord
<1>3. QED
  BY <1>1, <1>2

LEMMA AppendedIsCounts ==
    ASSUME TypeOK, NEW events \in [AuditKinds -> Nat]
    PROVE  Appended(events) \in [AuditKinds -> Nat]
BY DEF TypeOK, Appended

LEMMA EventsAreCounts ==
    ASSUME NEW kinds
    PROVE  Events(kinds) \in [AuditKinds -> Nat]
BY DEF Events

LEMMA StatusClosure ==
    ASSUME NEW s \in Statuses, NEW t \in AllowedTransitions(s)
    PROVE  t \in Statuses /\ s \notin TerminalStatuses
BY DEF Statuses, TerminalStatuses, AllowedTransitions

\* Every operation keeps the rows and the grants well typed.
LEMMA ClientStepTypeOK ==
    ASSUME TypeOK, NEW c \in Clients, NEW now \in Readings, ClientStep(c, now)
    PROVE  TypeOK'
<1>n. now + LeaseTtl \in Deadlines /\ now + RetryDelay \in Deadlines
  BY NowIsAReading
<1>o. OwnerOf[c] \in Owners
  BY DEF Owners
<1>p. Past \in Deadlines
  BY StoreAssumption DEF Deadlines, Past
<1>t. task \in TaskRecord /\ grant[c] \in Grant
  BY DEF TypeOK
<1>1. ASSUME NEW reason \in Reasons, TerminalizeAttemptRejection(reason)
      PROVE  TypeOK'
  <2>1. audit' \in [AuditKinds -> Nat]
    BY <1>1, AppendedIsCounts, EventsAreCounts DEF TerminalizeAttemptRejection
  <2>2. task' \in TaskRecord
    <3>1. "FAILED" \in Statuses
      BY DEF Statuses, TerminalStatuses
    <3>2. QED
      BY <1>1, <1>t, <3>1, TaskFields, StatusUpdate DEF TerminalizeAttemptRejection
  <2>3. QED
    BY <1>1, <2>1, <2>2 DEF TerminalizeAttemptRejection, TypeOK
<1>2. CASE GrantAttempt(c, now)
  <2>1. task' \in TaskRecord
    BY <1>2, <1>n, <1>o, <1>p, <1>t, TaskFields, AttemptUpdate DEF GrantAttempt
  <2>2. grant' \in [Clients -> Grant] /\ sequence' \in Nat
    BY <1>2, TaskFields DEF GrantAttempt, TypeOK, Grant
  <2>3. QED
    BY <1>2, <2>1, <2>2 DEF GrantAttempt, TypeOK
<1>3. ASSUME NEW digest \in Digests, ScheduleRetry(c, digest, now)
      PROVE  TypeOK'
  <2>1. audit' \in [AuditKinds -> Nat]
    BY <1>3, AppendedIsCounts, EventsAreCounts DEF ScheduleRetry
  <2>2. digest \in Nat /\ grant[c].attempt_number \in Nat
    BY <1>t, StoreAssumption DEF Grant
  <2>3. sequence + 1 \in Nat /\ task.version + 1 \in Nat
        /\ task.task_failure_count + 1 \in Nat
    BY TaskFields
  <2>r. task' \in TaskRecord
    BY <1>3, <1>t, <1>n, <2>2, <2>3, RetryUpdate DEF ScheduleRetry
  <2>4. QED
    BY <1>3, <2>1, <2>3, <2>r DEF ScheduleRetry, TypeOK
<1>4. CASE ClientTransition(c, now)
  <2>1. PICK to \in Statuses, expected \in 0 .. task.version,
             token \in {0, grant[c].fencing_token}, reason \in TerminalReasons :
             Transition(to, expected, token, reason, TransitionEvents(to), now)
    BY <1>4 DEF ClientTransition
  <2>2. audit' \in [AuditKinds -> Nat]
    BY <2>1, AppendedIsCounts, EventsAreCounts DEF Transition, TransitionEvents
  <2>3. task' \in TaskRecord
    BY <2>1, <1>t, TaskFields, StatusUpdate, StoreAssumption DEF Transition
  <2>4. QED
    BY <2>1, <2>2, <2>3 DEF Transition, TypeOK
<1>5. CASE AcquireLease(c, now)
  <2>1. task' \in TaskRecord
    BY <1>5, <1>n, <1>o, <1>t, TaskFields, LeaseUpdate DEF AcquireLease
  <2>2. grant' \in [Clients -> Grant] /\ sequence' \in Nat
    BY <1>5 DEF AcquireLease, TypeOK, Grant
  <2>3. QED
    BY <1>5, <2>1, <2>2 DEF AcquireLease, TypeOK
<1>6. CASE RenewLease(c, now)
  <2>1. task' \in TaskRecord
    BY <1>6, <1>n DEF RenewLease, TypeOK, TaskRecord
  <2>2. QED
    BY <1>6, <2>1 DEF RenewLease, TypeOK
<1>7. ASSUME NEW s \in Steps, BeginStepAttempt(c, s, now)
      PROVE  TypeOK'
  <2>1. journal' \in [Steps -> StepExecutionRecord]
    BY <1>7, StepUpdate DEF BeginStepAttempt, TypeOK
  <2>2. QED
    BY <1>7, <2>1 DEF BeginStepAttempt, TypeOK
<1>8. ASSUME NEW s \in Steps, ClientCommit(c, s, now)
      PROVE  TypeOK'
  <2>1. PICK result \in ResultStatuses, payload \in Payloads \cup {NoPayload},
             digest \in Digests : CommitStepResult(c, s, result, payload, digest, now)
    BY <1>8 DEF ClientCommit
  <2>2. audit' \in [AuditKinds -> Nat]
    BY <2>1, AppendedIsCounts, EventsAreCounts DEF CommitStepResult
  <2>3. journal' \in [Steps -> StepExecutionRecord]
    BY <2>1, StoreAssumption DEF CommitStepResult, TypeOK, StepExecutionRecord
  <2>4. evidence' \in [Steps -> Payloads \cup {NoPayload}]
    BY <2>1 DEF CommitStepResult, TypeOK
  <2>5. QED
    BY <2>1, <2>2, <2>3, <2>4 DEF CommitStepResult, TypeOK
<1>9. "retry_exhausted" \in Reasons /\ "submission_invariant_violation" \in Reasons
  BY DEF Reasons
<1>10. QED
  BY <1>1, <1>2, <1>3, <1>4, <1>5, <1>6, <1>7, <1>8, <1>9
     DEF ClientStep, BeginTaskAttempt

LEMMA NextTypeOK == TypeOK /\ [Next]_vars => TypeOK'
<1> SUFFICES ASSUME TypeOK, [Next]_vars PROVE TypeOK'
  OBVIOUS
<1>1. ASSUME NEW c \in Clients, NEW now \in Readings, ClientStep(c, now)
      PROVE  TypeOK'
  BY <1>1, ClientStepTypeOK
<1>2. ASSUME NEW p \in Plans, SavePlan(p) PROVE TypeOK'
  BY <1>2 DEF SavePlan, TypeOK
<1>3. CASE RecordApproval
  BY <1>3 DEF RecordApproval, TypeOK
<1>4. CASE Tick
  <2>1. task' \in TaskRecord
    BY <1>4, CloserIsADeadline DEF Tick, TypeOK, TaskRecord
  <2>2. QED
    BY <1>4, <2>1 DEF Tick, TypeOK
<1>5. CASE UNCHANGED vars
  BY <1>5 DEF vars, storeVars, TypeOK
<1>6. QED
  BY <1>1, <1>2, <1>3, <1>4, <1>5 DEF Next

\* Type correctness: whatever clients call, in any order, with any grant they
\* ever held, the rows the store writes stay well typed.
THEOREM TypeCorrect == Spec => []TypeOK
BY InitTypeOK, NextTypeOK, PTL DEF Spec

-----------------------------------------------------------------------------
(***************************************************************************)
(* A normal form of Next: what a step does to the parts of the state the   *)
(* invariants speak of, whichever operation it is.                         *)
(***************************************************************************)
LifeFields == <<task.status, task.version, task.terminal_reason>>
LeaseFields == <<task.lease_owner, task.fencing_token>>
RetryFields == <<task.task_failure_count, task.retry_scheduled_by_attempt,
                 task.retry_command_digest>>
AuditedVersions == audit["lifecycle"] + audit["retry"] + audit["exhausted"]

Moved ==
    /\ task'.status \in AllowedTransitions(task.status)
    /\ task'.version = task.version + 1
    /\ AuditedVersions' = AuditedVersions + 1
    /\ UNCHANGED <<LeaseFields, RetryFields, task.attempt_number,
                   journal, evidence, sequence, grant>>

Granted(c) ==
    /\ task.status \notin TerminalStatuses
    /\ task.task_failure_count < TaskFailureLimit
    /\ sequence' = sequence + 1
    /\ task'.attempt_number = task.attempt_number + 1
    /\ task'.lease_owner = OwnerOf[c] /\ task'.fencing_token = sequence + 1
    /\ grant' = [grant EXCEPT ![c] =
                    [fencing_token |-> sequence + 1,
                     attempt_number |-> task.attempt_number + 1]]
    /\ UNCHANGED <<LifeFields, RetryFields, journal, evidence, AuditedVersions>>

Retried(c) ==
    /\ task.status \in DispatchStatuses
    /\ HoldsGrant(c) /\ grant[c].fencing_token = task.fencing_token
    /\ grant[c].attempt_number = task.attempt_number
    /\ sequence' = sequence + 1
    /\ task'.version = task.version + 1
    /\ task'.task_failure_count = task.task_failure_count + 1
    /\ task'.retry_scheduled_by_attempt = task.attempt_number
    /\ task'.retry_command_digest \in Digests
    /\ task'.fencing_token = sequence + 1
    /\ AuditedVersions' = AuditedVersions + 1
    /\ task.lease_owner # NoOwner
    /\ UNCHANGED <<task.status, task.attempt_number, task.lease_owner,
                   journal, evidence, grant>>

Leased(c) ==
    /\ task.status \notin TerminalStatuses
    /\ sequence' = sequence + 1
    /\ task'.lease_owner = OwnerOf[c] /\ task'.fencing_token = sequence + 1
    /\ grant' = [grant EXCEPT ![c] =
                    [fencing_token |-> sequence + 1, attempt_number |-> 0]]
    /\ UNCHANGED <<LifeFields, RetryFields, task.attempt_number,
                   journal, evidence, AuditedVersions>>

StepBegun(c, s) ==
    /\ task.status = "RUNNING" /\ grant[c].fencing_token = task.fencing_token
    /\ journal[s].result_status = "none"
    /\ journal' = [journal EXCEPT ![s].attempt_count = @ + 1,
                                  ![s].last_fencing_token = task.fencing_token]
    /\ ~ (AttemptsUsed >= MaxToolCalls)
    /\ UNCHANGED <<task, sequence, evidence, grant, AuditedVersions>>

StepCommitted(s) ==
    /\ task.status = "RUNNING"
    /\ journal[s].result_status = "none"
    /\ \E result \in ResultStatuses, digest \in Digests :
         journal' = [journal EXCEPT ![s].result_status = result,
                                    ![s].commit_digest = digest]
    /\ \A r \in Steps : r # s => evidence'[r] = evidence[r]
    /\ UNCHANGED <<task, sequence, grant, AuditedVersions>>

Quiet ==
    UNCHANGED <<LifeFields, LeaseFields, RetryFields, task.attempt_number,
                journal, evidence, sequence, grant, AuditedVersions>>

LEMMA CurrentGrant ==
    ASSUME NEW c \in Clients, NEW now, NEW allowed,
           GrantIsCurrent(c, now, allowed) = "CURRENT"
    PROVE  /\ task.status \notin TerminalStatuses /\ task.status \in allowed
           /\ task.lease_owner # NoOwner
           /\ grant[c].fencing_token = task.fencing_token
           /\ grant[c].attempt_number = task.attempt_number
BY DEF GrantIsCurrent, LeaseIsLive

LEMMA AuditGrows ==
    ASSUME TypeOK, NEW kinds, audit' = Appended(Events(kinds))
    PROVE  AuditedVersions' = AuditedVersions
              + (IF "lifecycle" \in kinds THEN 1 ELSE 0)
              + (IF "retry" \in kinds THEN 1 ELSE 0)
              + (IF "exhausted" \in kinds THEN 1 ELSE 0)
BY DEF TypeOK, AuditedVersions, Appended, Events, AuditKinds

\* Which statuses an attempt can be refused terminally in.
LEMMA DispatchableCanFail ==
    ASSUME NEW intent \in {"DISPATCH", "APPROVAL_RESUME"},
           task.status \in AttemptStatuses(intent)
    PROVE  "FAILED" \in AllowedTransitions(task.status)
BY DEF AttemptStatuses, DispatchStatuses, ApprovalResumeStatuses, AllowedTransitions

LEMMA AttemptDecision ==
    ASSUME TypeOK, NEW intent \in {"DISPATCH", "APPROVAL_RESUME"}, NEW now,
           ClassifyTaskAttempt(intent, now) \in {"RETRY_EXHAUSTED", "GRANTED"}
    PROVE  /\ task.status \notin TerminalStatuses
           /\ task.status \in AttemptStatuses(intent)
           /\ ClassifyTaskAttempt(intent, now) = "GRANTED" =>
                task.task_failure_count < TaskFailureLimit
BY TaskFields, StoreAssumption DEF ClassifyTaskAttempt

\* Every step of Next has the normal form.
LEMMA ClientStepNormalForm ==
    ASSUME TypeOK, NEW c \in Clients, NEW now \in Readings, ClientStep(c, now)
    PROVE  \/ Moved \/ Granted(c) \/ (HoldsGrant(c) /\ Retried(c)) \/ Leased(c) \/ Quiet
           \/ \E s \in Steps : StepBegun(c, s) \/ StepCommitted(s)
<1>t. task \in TaskRecord /\ audit \in [AuditKinds -> Nat]
  BY DEF TypeOK
<1>1. ASSUME NEW intent \in {"DISPATCH", "APPROVAL_RESUME"}, NEW intact \in BOOLEAN,
             BeginTaskAttempt(c, intent, intact, now)
      PROVE  Moved \/ Granted(c)
  <2>1. ASSUME ClassifyTaskAttempt(intent, now) \in {"RETRY_EXHAUSTED", "GRANTED"},
               NEW reason, TerminalizeAttemptRejection(reason)
        PROVE  Moved
    <3>1. "FAILED" \in AllowedTransitions(task.status)
      BY <2>1, AttemptDecision, DispatchableCanFail
    <3>2. AuditedVersions' = AuditedVersions + 1
      <4>1. audit' = Appended(Events({"exhausted"}))
        BY <2>1 DEF TerminalizeAttemptRejection
      <4>2. AuditedVersions \in Nat
        BY <1>t DEF AuditedVersions, AuditKinds
      <4>3. QED
        BY <4>1, <4>2, AuditGrows
    <3>3. QED
      BY <2>1, <1>t, <3>1, <3>2
         DEF TerminalizeAttemptRejection, Moved, TaskRecord, LeaseFields, RetryFields
  <2>2. ASSUME ClassifyTaskAttempt(intent, now) = "GRANTED", GrantAttempt(c, now)
        PROVE  Granted(c)
    BY <2>2, <1>t, AttemptDecision
       DEF GrantAttempt, Granted, TaskRecord, LifeFields, RetryFields, AuditedVersions
  <2>3. QED
    BY <1>1, <2>1, <2>2 DEF BeginTaskAttempt
<1>2. ASSUME NEW digest \in Digests, HoldsGrant(c), ScheduleRetry(c, digest, now)
      PROVE  Retried(c)
  <2>1. GrantIsCurrent(c, now, DispatchStatuses) = "CURRENT"
    BY <1>2 DEF ScheduleRetry, RetryDecision
  <2>2. AuditedVersions' = AuditedVersions + 1
    <3>1. audit' = Appended(Events({"retry"}))
      BY <1>2 DEF ScheduleRetry
    <3>2. AuditedVersions \in Nat
      BY <1>t DEF AuditedVersions, AuditKinds
    <3>3. QED
      BY <3>1, <3>2, AuditGrows
  <2>3. QED
    BY <1>2, <1>t, <2>1, <2>2, CurrentGrant DEF ScheduleRetry, Retried, TaskRecord
<1>3. CASE ClientTransition(c, now)
  <2>1. PICK to \in Statuses, expected \in 0 .. task.version,
             token \in {0, grant[c].fencing_token}, reason \in TerminalReasons :
             Transition(to, expected, token, reason, TransitionEvents(to), now)
    BY <1>3 DEF ClientTransition
  <2>2. to \in AllowedTransitions(task.status)
    BY <2>1 DEF Transition, ClassifyTransition, CheckFencing
  <2>3. AuditedVersions' = AuditedVersions + 1
    <3>1. PICK kinds : /\ audit' = Appended(Events(kinds))
                       /\ "lifecycle" \in kinds
                       /\ "retry" \notin kinds /\ "exhausted" \notin kinds
      BY <2>1 DEF Transition, TransitionEvents
    <3>2. AuditedVersions \in Nat
      BY <1>t DEF AuditedVersions, AuditKinds
    <3>3. QED
      BY <3>1, <3>2, AuditGrows
  <2>4. QED
    BY <2>1, <1>t, <2>2, <2>3 DEF Transition, Moved, TaskRecord, LeaseFields, RetryFields
<1>4. CASE AcquireLease(c, now)
  BY <1>4, <1>t DEF AcquireLease, MayAcquireLease, Leased, TaskRecord, LifeFields,
     RetryFields, AuditedVersions
<1>5. CASE RenewLease(c, now)
  BY <1>5, <1>t DEF RenewLease, Quiet, TaskRecord, LifeFields, LeaseFields,
     RetryFields, AuditedVersions
<1>6. ASSUME NEW s \in Steps, BeginStepAttempt(c, s, now)
      PROVE  Quiet \/ StepBegun(c, s)
  <2>1. GrantIsCurrent(c, now, {"RUNNING"}) = "CURRENT" /\ journal[s].result_status = "none"
    BY <1>6 DEF BeginStepAttempt, StepAttemptDecision
  <2>2. task.status = "RUNNING" /\ grant[c].fencing_token = task.fencing_token
    BY <2>1, CurrentGrant
  <2>3. CASE IncrementsBudget(c, s)
    <3>1. ~ (AttemptsUsed >= MaxToolCalls)
      BY <1>6, <2>3 DEF BeginStepAttempt, StepAttemptDecision
    <3> QED
      BY <1>6, <2>1, <2>2, <2>3, <3>1 DEF BeginStepAttempt, StepBegun, AuditedVersions
  <2>4. CASE ~IncrementsBudget(c, s)
    BY <1>6, <2>4 DEF BeginStepAttempt, Quiet, AuditedVersions, LifeFields, LeaseFields,
       RetryFields
  <2>5. QED
    BY <2>3, <2>4
<1>7. ASSUME NEW s \in Steps, ClientCommit(c, s, now)
      PROVE  StepCommitted(s)
  <2>1. PICK result \in ResultStatuses, payload \in Payloads \cup {NoPayload},
             digest \in Digests : CommitStepResult(c, s, result, payload, digest, now)
    BY <1>7 DEF ClientCommit
  <2>2. GrantIsCurrent(c, now, {"RUNNING"}) = "CURRENT" /\ journal[s].result_status = "none"
    BY <2>1 DEF CommitStepResult, StepCommitDecision
  <2>3. task.status = "RUNNING"
    BY <2>2, CurrentGrant
  <2>4. AuditedVersions' = AuditedVersions
    <3>1. audit' = Appended(Events({"step"}))
      BY <2>1 DEF CommitStepResult
    <3>2. AuditedVersions \in Nat
      BY <1>t DEF AuditedVersions, AuditKinds
    <3>3. QED
      BY <3>1, <3>2, AuditGrows
  <2>5. \A r \in Steps : r # s => evidence'[r] = evidence[r]
    BY <2>1 DEF CommitStepResult, TypeOK
  <2>6. QED
    BY <2>1, <2>2, <2>3, <2>4, <2>5 DEF CommitStepResult, StepCommitted
<1>8. QED
  BY <1>1, <1>2, <1>3, <1>4, <1>5, <1>6, <1>7, StoreAssumption DEF ClientStep

LEMMA NextNormalForm ==
    ASSUME TypeOK, [Next]_vars
    PROVE  \/ Moved \/ Quiet
           \/ \E c \in Clients : \/ Granted(c) \/ (HoldsGrant(c) /\ Retried(c)) \/ Leased(c)
                                 \/ \E s \in Steps : StepBegun(c, s) \/ StepCommitted(s)
<1>t. task \in TaskRecord
  BY DEF TypeOK
<1>1. ASSUME NEW p \in Plans, SavePlan(p) PROVE Quiet
  BY <1>1 DEF SavePlan, Quiet, LifeFields, LeaseFields, RetryFields, AuditedVersions
<1>2. CASE RecordApproval
  BY <1>2 DEF RecordApproval, Quiet, LifeFields, LeaseFields, RetryFields, AuditedVersions
<1>3. CASE Tick
  BY <1>3, <1>t DEF Tick, Quiet, TaskRecord, LifeFields, LeaseFields, RetryFields,
     AuditedVersions
<1>4. CASE UNCHANGED vars
  BY <1>4 DEF vars, storeVars, Quiet, LifeFields, LeaseFields, RetryFields, AuditedVersions
<1>5. QED
  BY <1>1, <1>2, <1>3, <1>4, ClientStepNormalForm DEF Next

-----------------------------------------------------------------------------
(***************************************************************************)
(* The inductive invariant.  SoleHolder follows from it: a token that is   *)
(* newer than every grant can only be in the row and in one client's hand. *)
(***************************************************************************)
StoreInv ==
    /\ TypeOK
    /\ TokensOrdered
    /\ RecordDecodes
    /\ FailureBudget
    /\ RetryHandsOff
    /\ CleanStart
    /\ AuditMatchesVersion

LEMMA GrantFields ==
    ASSUME TypeOK
    PROVE  \A c \in Clients : /\ grant[c].fencing_token \in Nat
                              /\ grant[c].attempt_number \in Nat
BY DEF TypeOK, Grant

LEMMA JournalFields ==
    ASSUME TypeOK
    PROVE  \A s \in Steps : /\ journal[s].attempt_count \in Nat
                            /\ journal[s].last_fencing_token \in Nat
BY DEF TypeOK, StepExecutionRecord

LEMMA InitStoreInv == Init => StoreInv
<1> SUFFICES ASSUME Init PROVE StoreInv
  OBVIOUS
<1>1. TypeOK
  BY InitTypeOK
<1>2. TokensOrdered
  BY DEF Init, TokensOrdered, HoldsGrant, NoGrant
<1>3. RecordDecodes
  BY DEF Init, RecordDecodes
<1>4. FailureBudget /\ RetryHandsOff
  BY StoreAssumption DEF Init, FailureBudget, RetryHandsOff, CurrentAttempt, HoldsGrant, NoGrant
<1>5. CleanStart
  BY DEF Init, CleanStart
<1>6. AuditMatchesVersion
  BY DEF Init, AuditMatchesVersion, NoEvents, AuditKinds
<1>7. QED
  BY <1>1, <1>2, <1>3, <1>4, <1>5, <1>6 DEF StoreInv

LEMMA TokensStep ==
    ASSUME StoreInv, [Next]_vars
    PROVE  TokensOrdered'
<1>0. TypeOK /\ TypeOK' /\ TokensOrdered
  BY NextTypeOK DEF StoreInv
<1>f. /\ sequence \in Nat /\ task.fencing_token \in Nat
      /\ \A c \in Clients : grant[c].fencing_token \in Nat /\ grant[c].attempt_number \in Nat
      /\ \A s \in Steps : journal[s].last_fencing_token \in Nat
      /\ grant \in [Clients -> Grant] /\ journal \in [Steps -> StepExecutionRecord]
  BY <1>0, TaskFields, GrantFields, JournalFields DEF TypeOK
<1>1. CASE Moved \/ Quiet
  BY <1>0, <1>1 DEF Moved, Quiet, LeaseFields, TokensOrdered, HoldsGrant
<1>2. ASSUME NEW c \in Clients, Granted(c) \/ Leased(c)
      PROVE  TokensOrdered'
  <2>1. /\ sequence' = sequence + 1 /\ task'.fencing_token = sequence + 1
        /\ journal' = journal
        /\ grant'[c].fencing_token = sequence + 1
        /\ \A d \in Clients : d # c => grant'[d] = grant[d]
    BY <1>2, <1>f DEF Granted, Leased
  <2>2. QED
    BY <1>0, <1>f, <2>1 DEF TokensOrdered, HoldsGrant
<1>3. ASSUME NEW c \in Clients, Retried(c)
      PROVE  TokensOrdered'
  BY <1>0, <1>f, <1>3 DEF Retried, TokensOrdered, HoldsGrant
<1>4. ASSUME NEW c \in Clients, NEW s \in Steps, StepBegun(c, s)
      PROVE  TokensOrdered'
  <2>1. /\ journal'[s].last_fencing_token = task.fencing_token
        /\ \A r \in Steps : r # s => journal'[r] = journal[r]
    BY <1>4, <1>f DEF StepBegun, StepExecutionRecord
  <2>2. QED
    BY <1>0, <1>f, <1>4, <2>1 DEF StepBegun, TokensOrdered, HoldsGrant
<1>5. ASSUME NEW s \in Steps, StepCommitted(s)
      PROVE  TokensOrdered'
  <2>1. \A r \in Steps : journal'[r].last_fencing_token = journal[r].last_fencing_token
    BY <1>5, <1>f DEF StepCommitted, StepExecutionRecord
  <2>2. QED
    BY <1>0, <1>5, <2>1 DEF StepCommitted, TokensOrdered, HoldsGrant
<1>6. QED
  BY <1>0, <1>1, <1>2, <1>3, <1>4, <1>5, NextNormalForm

LEMMA RecordStep ==
    ASSUME StoreInv, [Next]_vars
    PROVE  RecordDecodes'
<1>0. TypeOK /\ RecordDecodes /\ TokensOrdered
  BY DEF StoreInv
<1>f. /\ sequence \in Nat /\ task.fencing_token \in Nat /\ task.attempt_number \in Nat
      /\ task.retry_scheduled_by_attempt \in Nat /\ task.retry_command_digest \in Nat
  BY <1>0, TaskFields
<1>1. CASE Moved \/ Quiet
  BY <1>0, <1>1 DEF Moved, Quiet, LeaseFields, RetryFields, RecordDecodes
<1>2. ASSUME NEW c \in Clients, Granted(c) \/ Leased(c)
      PROVE  RecordDecodes'
  <2>1. OwnerOf[c] # NoOwner
    BY StoreAssumption DEF Owners
  <2>2. QED
    BY <1>0, <1>f, <1>2, <2>1 DEF Granted, Leased, RetryFields, RecordDecodes
<1>3. ASSUME NEW c \in Clients, HoldsGrant(c), Retried(c)
      PROVE  RecordDecodes'
  <2>1. task'.retry_command_digest # 0 /\ task.attempt_number > 0
    BY <1>3, StoreAssumption DEF Retried, HoldsGrant
  <2>2. QED
    BY <1>0, <1>f, <1>3, <2>1 DEF Retried, RecordDecodes
<1>4. ASSUME NEW c \in Clients, NEW s \in Steps, StepBegun(c, s) \/ StepCommitted(s)
      PROVE  RecordDecodes'
  BY <1>0, <1>4 DEF StepBegun, StepCommitted, RecordDecodes
<1>5. QED
  BY <1>0, <1>1, <1>2, <1>3, <1>4, NextNormalForm

\* A charge needs the current token and leaves a token nobody has.
LEMMA BudgetStep ==
    ASSUME StoreInv, [Next]_vars
    PROVE  FailureBudget' /\ RetryHandsOff'
<1>0. TypeOK /\ RecordDecodes /\ TokensOrdered /\ FailureBudget /\ RetryHandsOff
  BY DEF StoreInv
<1>f. /\ sequence \in Nat /\ task.fencing_token \in Nat /\ task.attempt_number \in Nat
      /\ task.retry_scheduled_by_attempt \in Nat /\ task.task_failure_count \in Nat
      /\ TaskFailureLimit \in Nat
      /\ \A c \in Clients : grant[c].fencing_token \in Nat /\ grant[c].attempt_number \in Nat
      /\ grant \in [Clients -> Grant]
  BY <1>0, TaskFields, GrantFields, StoreAssumption DEF TypeOK
<1>1. CASE Moved \/ Quiet
  BY <1>0, <1>1 DEF Moved, Quiet, LeaseFields, RetryFields, FailureBudget, RetryHandsOff,
     CurrentAttempt, HoldsGrant
<1>2. ASSUME NEW c \in Clients, Granted(c)
      PROVE  FailureBudget' /\ RetryHandsOff'
  BY <1>0, <1>f, <1>2 DEF Granted, RetryFields, RecordDecodes, FailureBudget, RetryHandsOff
<1>3. ASSUME NEW c \in Clients, Leased(c)
      PROVE  FailureBudget' /\ RetryHandsOff'
  <2>1. \A d \in Clients : ~CurrentAttempt(d)'
    <3>1. /\ task'.fencing_token = sequence + 1 /\ ~(grant'[c].attempt_number > 0)
          /\ \A d \in Clients : d # c => grant'[d] = grant[d]
      BY <1>3, <1>f DEF Leased
    <3> TAKE d \in Clients
    <3>2. CASE d = c
      BY <3>1, <3>2 DEF CurrentAttempt, HoldsGrant
    <3>3. CASE d # c
      <4>1. grant'[d].fencing_token # task'.fencing_token
        BY <1>0, <1>f, <3>1, <3>3 DEF TokensOrdered
      <4>2. QED
        BY <4>1 DEF CurrentAttempt
    <3>4. QED
      BY <3>2, <3>3
  <2>2. QED
    BY <1>0, <1>f, <1>3, <2>1 DEF Leased, RetryFields, FailureBudget, RetryHandsOff
<1>4. ASSUME NEW c \in Clients, HoldsGrant(c), Retried(c)
      PROVE  FailureBudget' /\ RetryHandsOff'
  <2>1. \A d \in Clients : ~CurrentAttempt(d)'
    <3> TAKE d \in Clients
    <3>1. grant'[d].fencing_token # task'.fencing_token
      BY <1>0, <1>f, <1>4 DEF Retried, TokensOrdered
    <3>2. QED
      BY <3>1 DEF CurrentAttempt
  <2>2. CurrentAttempt(c)
    BY <1>4 DEF Retried, CurrentAttempt
  <2>3. QED
    BY <1>0, <1>f, <1>4, <2>1, <2>2 DEF Retried, FailureBudget, RetryHandsOff
<1>5. ASSUME NEW c \in Clients, NEW s \in Steps, StepBegun(c, s) \/ StepCommitted(s)
      PROVE  FailureBudget' /\ RetryHandsOff'
  BY <1>0, <1>5 DEF StepBegun, StepCommitted, FailureBudget, RetryHandsOff,
     CurrentAttempt, HoldsGrant
<1>6. QED
  BY <1>0, <1>1, <1>2, <1>3, <1>4, <1>5, NextNormalForm

LEMMA CleanStep ==
    ASSUME StoreInv, [Next]_vars
    PROVE  CleanStart'
<1>0. TypeOK /\ CleanStart
  BY DEF StoreInv
<1>1. CASE Moved
  <2>1. task'.status \in {"CREATED", "PLANNING"} => task.status = "CREATED"
    BY <1>1, <1>0, TaskFields DEF Moved, AllowedTransitions, Statuses, TerminalStatuses
  <2>2. QED
    BY <1>0, <1>1, <2>1 DEF Moved, CleanStart
<1>2. ASSUME NEW c \in Clients, Granted(c) \/ Leased(c) \/ Retried(c) \/ Quiet
      PROVE  CleanStart'
  BY <1>0, <1>2 DEF Granted, Leased, Retried, Quiet, LifeFields, CleanStart
<1>3. ASSUME NEW c \in Clients, NEW s \in Steps, StepBegun(c, s) \/ StepCommitted(s)
      PROVE  CleanStart'
  BY <1>3 DEF StepBegun, StepCommitted, CleanStart
<1>4. CASE Quiet
  BY <1>0, <1>4 DEF Quiet, LifeFields, CleanStart
<1>5. QED
  BY <1>0, <1>1, <1>2, <1>3, <1>4, NextNormalForm

LEMMA AuditStep ==
    ASSUME StoreInv, [Next]_vars
    PROVE  AuditMatchesVersion'
<1>0. TypeOK /\ AuditedVersions = task.version
  BY DEF StoreInv, AuditMatchesVersion, AuditedVersions
<1>1. AuditedVersions' = task'.version
  <2>1. CASE Moved \/ Quiet
    BY <1>0, <2>1 DEF Moved, Quiet, LifeFields
  <2>2. ASSUME NEW c \in Clients, Granted(c) \/ Leased(c) \/ Retried(c)
        PROVE  AuditedVersions' = task'.version
    BY <1>0, <2>2 DEF Granted, Leased, Retried, LifeFields
  <2>3. ASSUME NEW c \in Clients, NEW s \in Steps, StepBegun(c, s) \/ StepCommitted(s)
        PROVE  AuditedVersions' = task'.version
    BY <1>0, <2>3 DEF StepBegun, StepCommitted
  <2>4. QED
    BY <1>0, <2>1, <2>2, <2>3, NextNormalForm
<1>2. QED
  BY <1>1 DEF AuditMatchesVersion, AuditedVersions

LEMMA NextStoreInv == StoreInv /\ [Next]_vars => StoreInv'
<1> SUFFICES ASSUME StoreInv, [Next]_vars PROVE StoreInv'
  OBVIOUS
<1>1. TypeOK'
  BY NextTypeOK DEF StoreInv
<1>2. QED
  BY <1>1, TokensStep, RecordStep, BudgetStep, CleanStep, AuditStep DEF StoreInv

LEMMA StoreInvariant == Spec => []StoreInv
BY InitStoreInv, NextStoreInv, PTL DEF Spec

LEMMA SoleHolderHolds == StoreInv => SoleHolder
<1> SUFFICES ASSUME StoreInv PROVE SoleHolder
  OBVIOUS
<1>1. TokensOrdered /\ \A c \in Clients : grant[c].fencing_token \in Nat
  BY GrantFields DEF StoreInv
<1>2. QED
  BY <1>1 DEF SoleHolder, CurrentAttempt, TokensOrdered

-----------------------------------------------------------------------------
\* Fencing is exclusive: of all grants clients ever kept, at most one carries
\* the token that is in the task row.
THEOREM FencingIsExclusive == Spec => []SoleHolder
BY StoreInvariant, SoleHolderHolds, PTL

\* No row the store writes violates the validators every reader applies.
THEOREM RowsDecode == Spec => []RecordDecodes
<1>1. StoreInv => RecordDecodes
  BY DEF StoreInv
<1>2. QED
  BY <1>1, StoreInvariant, PTL

\* Failures are charged once per attempt, within the limit, and the attempt
\* that was charged holds the row no longer.
THEOREM RetriesAreBounded == Spec => [](FailureBudget /\ RetryHandsOff)
<1>1. StoreInv => FailureBudget /\ RetryHandsOff
  BY DEF StoreInv
<1>2. QED
  BY <1>1, StoreInvariant, PTL

\* A task that has not reached RUNNING has neither a step row nor evidence.
THEOREM StartsClean == Spec => []CleanStart
<1>1. StoreInv => CleanStart
  BY DEF StoreInv
<1>2. QED
  BY <1>1, StoreInvariant, PTL

\* The audit trail has one row for every version of the task.
THEOREM VersionsAreAudited == Spec => []AuditMatchesVersion
<1>1. StoreInv => AuditMatchesVersion
  BY DEF StoreInv
<1>2. QED
  BY <1>1, StoreInvariant, PTL

LEMMA TerminalStep ==
    ASSUME TypeOK, [Next]_vars, task.status \in TerminalStatuses
    PROVE  Quiet
<1>1. task.status \in Statuses
  BY TaskFields
<1>2. ~Moved
  BY <1>1, StatusClosure DEF Moved
<1>3. ASSUME NEW c \in Clients PROVE ~(Granted(c) \/ Leased(c) \/ Retried(c))
  BY DEF Granted, Leased, Retried, DispatchStatuses, TerminalStatuses
<1>4. ASSUME NEW c \in Clients, NEW s \in Steps PROVE ~(StepBegun(c, s) \/ StepCommitted(s))
  BY DEF StepBegun, StepCommitted, TerminalStatuses
<1>5. QED
  BY <1>2, <1>3, <1>4, NextNormalForm

\* A terminal task is final against every client: no operation of the store
\* changes its status, version, reason, failure count, journal or evidence.
THEOREM TerminalIsFinal == Spec => TerminalFrozen
<1>1. ASSUME TypeOK, [Next]_vars
      PROVE  [task.status \in TerminalStatuses =>
                /\ task'.status = task.status /\ task'.version = task.version
                /\ task'.terminal_reason = task.terminal_reason
                /\ task'.task_failure_count = task.task_failure_count
                /\ UNCHANGED <<journal, evidence>>]_vars
  BY <1>1, TerminalStep DEF Quiet, LifeFields, RetryFields
<1>2. QED
  BY <1>1, TypeCorrect, PTL DEF Spec, TerminalFrozen

\* Step rows only move forward, for any interleaving of old and new attempts.
THEOREM JournalMovesForward == Spec => JournalForward
<1>1. ASSUME StoreInv, [Next]_vars
      PROVE  [\A s \in Steps :
                /\ journal'[s].last_fencing_token >= journal[s].last_fencing_token
                /\ journal[s].result_status # "none" =>
                     journal'[s] = journal[s] /\ evidence'[s] = evidence[s]]_vars
  <2>0. TypeOK /\ TokensOrdered /\ task.fencing_token \in Nat
        /\ journal \in [Steps -> StepExecutionRecord]
        /\ \A s \in Steps : journal[s].last_fencing_token \in Nat
    BY <1>1, TaskFields, JournalFields DEF StoreInv, TypeOK
  <2>1. SUFFICES ASSUME NEW s \in Steps
                 PROVE  /\ journal'[s].last_fencing_token >= journal[s].last_fencing_token
                        /\ journal[s].result_status # "none" =>
                             journal'[s] = journal[s] /\ evidence'[s] = evidence[s]
    OBVIOUS
  <2>2. CASE UNCHANGED <<journal, evidence>>
    BY <2>0, <2>2
  <2>3. ASSUME NEW c \in Clients, NEW r \in Steps, StepBegun(c, r)
        PROVE  /\ journal'[s].last_fencing_token >= journal[s].last_fencing_token
               /\ journal[s].result_status # "none" =>
                    journal'[s] = journal[s] /\ evidence'[s] = evidence[s]
    BY <2>0, <2>3 DEF StepBegun, TokensOrdered, StepExecutionRecord
  <2>4. ASSUME NEW r \in Steps, StepCommitted(r)
        PROVE  /\ journal'[s].last_fencing_token >= journal[s].last_fencing_token
               /\ journal[s].result_status # "none" =>
                    journal'[s] = journal[s] /\ evidence'[s] = evidence[s]
    BY <2>0, <2>4 DEF StepCommitted, StepExecutionRecord
  <2>5. QED
    BY <1>1, <2>0, <2>2, <2>3, <2>4, NextNormalForm
       DEF Moved, Granted, Leased, Retried, Quiet
<1>2. QED
  BY <1>1, StoreInvariant, PTL DEF Spec, JournalForward

\* The plan is stored by a step of its own, once.
LEMMA PlanStep ==
    ASSUME [Next]_vars
    PROVE  \/ plan' = plan
           \/ plan = NoPlan /\ plan' \in Plans /\ UNCHANGED <<task, journal, evidence>>
<1>1. ASSUME NEW c \in Clients, NEW now \in Readings, ClientStep(c, now)
      PROVE  plan' = plan
  BY <1>1 DEF ClientStep, BeginTaskAttempt, TerminalizeAttemptRejection, GrantAttempt,
     ScheduleRetry, ClientTransition, Transition, AcquireLease, RenewLease,
     BeginStepAttempt, ClientCommit, CommitStepResult
<1>2. QED
  BY <1>1 DEF Next, SavePlan, RecordApproval, Tick, vars, storeVars

\* Only a task that has ended is shown without a plan, and how it is shown depends on
\* what stands still then.
LEMMA BareEnds ==
    /\ EndIsBare \in BOOLEAN /\ EndIsBare' \in BOOLEAN
    /\ EndIsBare => task.status \in BareStatuses
    /\ (EndIsBare => task.status \in BareStatuses)'
    /\ task.status \in DispatchStatuses => EndIsBare = FALSE
    /\ (task.status \in DispatchStatuses => EndIsBare = FALSE)'
    /\ UNCHANGED <<task.status, task.terminal_reason, evidence>> => EndIsBare' = EndIsBare
BY DEF EndIsBare, BareStatuses, DispatchStatuses

\* The store implements TaskContract, for every number of clients and steps.
THEOREM StoreImplementsContract == Spec => ImplementsContract
<1>1. Init => Contract!Init
  BY DEF Init, Contract!Init, EndIsBare
<1>2. ASSUME StoreInv, [Next]_vars
      PROVE  [Contract!Next]_Contract!vars
  <2>0. TypeOK /\ FailureBudget /\ journal \in [Steps -> StepExecutionRecord]
    BY <1>2 DEF StoreInv, TypeOK
  <2>p. CASE plan = NoPlan /\ plan' \in Plans /\ UNCHANGED <<task, journal, evidence>>
    <3>1. EndIsBare' = EndIsBare
      BY <2>p, BareEnds
    <3>2. plan' # NoPlan
      BY <2>p, StoreAssumption
    <3>3. Contract!StorePlan
      BY <2>p, <3>1, <3>2 DEF Contract!StorePlan
    <3>4. QED
      BY <3>3 DEF Contract!Next
  <2>q. CASE plan' = plan
    <3>1. CASE Moved
      <4>1. Contract!AllowedTransitions(task.status) = AllowedTransitions(task.status)
        BY DEF Contract!AllowedTransitions, AllowedTransitions
      <4>2. Contract!BareStatuses = BareStatuses
        BY DEF Contract!BareStatuses, BareStatuses
      <4>3. EndIsBare' \in BOOLEAN /\ (EndIsBare' => task'.status \in BareStatuses)
        BY BareEnds
      <4>4. Contract!Move
        BY <2>q, <3>1, <4>1, <4>2, <4>3 DEF Moved, RetryFields, Contract!Move
      <4>5. QED
        BY <4>4 DEF Contract!Next
    <3>2. ASSUME NEW c \in Clients, Granted(c) \/ Leased(c)
          PROVE  UNCHANGED Contract!vars
      <4>1. EndIsBare' = EndIsBare
        BY <3>2, BareEnds DEF Granted, Leased, LifeFields
      <4>2. QED
        BY <2>q, <3>2, <4>1 DEF Granted, Leased, LifeFields, RetryFields, Contract!vars
    <3>3. CASE Quiet
      <4>1. EndIsBare' = EndIsBare
        BY <3>3, BareEnds DEF Quiet, LifeFields
      <4>2. QED
        BY <2>q, <3>3, <4>1 DEF Quiet, LifeFields, RetryFields, Contract!vars
    <3>4. ASSUME NEW c \in Clients, HoldsGrant(c), Retried(c)
          PROVE  Contract!Next
      <4>1. task.task_failure_count < TaskFailureLimit
        BY <2>0, <3>4 DEF Retried, FailureBudget, CurrentAttempt
      <4>2. EndIsBare' = EndIsBare
        BY <3>4, BareEnds DEF Retried
      <4>3. QED
        BY <2>q, <3>4, <4>1, <4>2 DEF Retried, Contract!Next, Contract!Fail,
           Contract!DispatchStatuses, DispatchStatuses
    <3>5. ASSUME NEW c \in Clients, NEW s \in Steps, StepBegun(c, s)
          PROVE  UNCHANGED Contract!vars
      <4>1. \A r \in Steps : journal'[r].result_status = journal[r].result_status
        BY <2>0, <3>5 DEF StepBegun, StepExecutionRecord
      <4>2. EndIsBare' = EndIsBare
        BY <3>5, BareEnds DEF StepBegun
      <4>3. QED
        BY <2>q, <3>5, <4>1, <4>2 DEF StepBegun, Contract!vars
    <3>6. ASSUME NEW s \in Steps, StepCommitted(s)
          PROVE  Contract!Commit(s)
      <4>1. PICK result \in ResultStatuses :
              \A r \in Steps : journal'[r].result_status =
                                  IF r = s THEN result ELSE journal[r].result_status
        BY <2>0, <3>6 DEF StepCommitted, StepExecutionRecord
      <4>2. [r \in Steps |-> journal'[r].result_status]
              = [[r \in Steps |-> journal[r].result_status] EXCEPT ![s] = result]
        BY <4>1
      <4>3. EndIsBare' = EndIsBare
        BY <3>6, BareEnds DEF StepCommitted, DispatchStatuses
      <4>4. QED
        BY <2>q, <3>6, <4>1, <4>2, <4>3 DEF StepCommitted, Contract!Commit,
           Contract!ResultStatuses, ResultStatuses
    <3>7. QED
      BY <2>0, <1>2, <3>1, <3>2, <3>3, <3>4, <3>5, <3>6, NextNormalForm DEF Contract!Next
  <2>r. QED
    BY <1>2, <2>p, <2>q, PlanStep
<1>3. QED
  BY <1>1, <1>2, StoreInvariant, PTL DEF Spec, ImplementsContract, Contract!Spec

\* What the run checks of every row, for any clients and clocks: types, decodable
\* rows, bounded failures, a clean start, an audit event per version.
THEOREM RowsStaySound == Spec => []RowsAreSound
BY TypeCorrect, RowsDecode, RetriesAreBounded, StartsClean, VersionsAreAudited, PTL
   DEF RowsAreSound

\* Terminal tasks and committed steps stay as they were written.
THEOREM HistoryStays == Spec => HistoryIsKept
BY TerminalIsFinal, JournalMovesForward DEF HistoryIsKept

-----------------------------------------------------------------------------
(***************************************************************************)
(* The tool budget.  An attempt adds one to the sum of the rows, and no    *)
(* row counts more attempts than the sum.                                  *)
(***************************************************************************)
BudgetInv ==
    /\ \A s \in Steps : journal[s].attempt_count <= MaxToolCalls
    /\ AttemptsUsed <= MaxToolCalls

\* The attempts are finitely many when no row counts more than the budget.
LEMMA AttemptsAreFinite ==
    ASSUME TypeOK, \A s \in Steps : journal[s].attempt_count <= MaxToolCalls
    PROVE  /\ IsFiniteSet(Attempts) /\ AttemptsUsed \in Nat
           /\ \A s \in Steps : journal[s].attempt_count <= AttemptsUsed
<1> DEFINE Bound == Steps \X (1 .. MaxToolCalls)
<1>1. IsFiniteSet(Bound)
  <2>1. IsFiniteSet(Steps)
    BY StoreAssumption
  <2>2. MaxToolCalls \in Int
    BY StoreAssumption
  <2>3. IsFiniteSet(1 .. MaxToolCalls)
    BY <2>2, FS_Interval
  <2> QED
    BY <2>1, <2>3, FS_Product
<1>2. Attempts \subseteq Bound
  <2>1. SUFFICES ASSUME NEW x \in Attempts PROVE x \in Bound
    OBVIOUS
  <2>2. PICK s \in Steps : x \in {s} \X (1 .. journal[s].attempt_count)
    BY DEF Attempts
  <2>3. PICK k \in 1 .. journal[s].attempt_count : x = <<s, k>>
    BY <2>2
  <2>4. k \in 1 .. MaxToolCalls
    <3>1. /\ journal[s].attempt_count \in Nat
          /\ journal[s].attempt_count <= MaxToolCalls
      BY JournalFields
    <3> DEFINE n == journal[s].attempt_count
    <3> HIDE DEF n
    <3>2. n \in Nat /\ n <= MaxToolCalls /\ k \in 1 .. n
      BY <3>1, <2>3 DEF n
    <3> QED
      BY <3>2, StoreAssumption
  <2> QED
    BY <2>3, <2>4
<1>3. IsFiniteSet(Attempts) /\ AttemptsUsed \in Nat
  BY <1>1, <1>2, FS_Subset, FS_CardinalityType DEF AttemptsUsed
<1>4. ASSUME NEW s \in Steps
      PROVE  journal[s].attempt_count <= AttemptsUsed
  <2> DEFINE n == journal[s].attempt_count
  <2>1. n \in Nat
    BY JournalFields
  <2> HIDE DEF n
  <2>2. IsFiniteSet(1 .. n) /\ Cardinality(1 .. n) = n
    BY <2>1, FS_Interval
  <2>3. IsFiniteSet({s}) /\ Cardinality({s}) = 1
    BY FS_Singleton
  <2>4. Cardinality({s} \X (1 .. n)) = 1 * n
    BY <2>2, <2>3, FS_Product
  <2>5. {s} \X (1 .. n) \subseteq Attempts
    BY DEF Attempts, n
  <2>6. Cardinality({s} \X (1 .. n)) <= Cardinality(Attempts)
    BY <1>3, <2>5, FS_Subset
  <2> QED
    BY <2>1, <2>4, <2>6 DEF AttemptsUsed, n
<1> QED
  BY <1>3, <1>4

\* One attempt more.
LEMMA AttemptAdded ==
    ASSUME TypeOK, BudgetInv, NEW c \in Clients, NEW s \in Steps, StepBegun(c, s)
    PROVE  BudgetInv'
<1> DEFINE n == journal[s].attempt_count
<1>0. /\ IsFiniteSet(Attempts) /\ AttemptsUsed \in Nat
      /\ n \in Nat /\ n <= AttemptsUsed /\ AttemptsUsed < MaxToolCalls
  <2>1. \A r \in Steps : journal[r].attempt_count <= AttemptsUsed
    BY AttemptsAreFinite DEF BudgetInv
  <2>2. IsFiniteSet(Attempts) /\ AttemptsUsed \in Nat
    BY AttemptsAreFinite DEF BudgetInv
  <2>3. ~ (AttemptsUsed >= MaxToolCalls)
    BY DEF StepBegun
  <2> QED
    BY <2>1, <2>2, <2>3, JournalFields, StoreAssumption
<1>1. PICK m \in Nat : m = n + 1
  BY <1>0
<1>2. /\ journal'[s].attempt_count = m
      /\ \A r \in Steps : r # s => journal'[r] = journal[r]
  BY <1>1 DEF StepBegun, TypeOK, StepExecutionRecord
<1> HIDE DEF n
<1>3. 1 .. m = (1 .. n) \cup {m}
  BY <1>0, <1>1
<1>4. Attempts' = Attempts \cup {<<s, m>>}
  <2>1. Attempts' = UNION {{r} \X (1 .. journal'[r].attempt_count) : r \in Steps}
    BY DEF Attempts
  <2>2. ASSUME NEW r \in Steps, NEW k
        PROVE  k \in 1 .. journal'[r].attempt_count <=>
                 (k \in 1 .. journal[r].attempt_count \/ (r = s /\ k = m))
    <3>1. CASE r = s
      BY <1>2, <1>3, <3>1 DEF n
    <3>2. CASE r # s
      BY <1>2, <3>2
    <3> QED
      BY <3>1, <3>2
  <2>3. ASSUME NEW x
        PROVE  x \in Attempts' <=> x \in Attempts \cup {<<s, m>>}
    <3>1. x \in Attempts' <=>
            \E r \in Steps : \E k \in 1 .. journal'[r].attempt_count : x = <<r, k>>
      BY <2>1
    <3>2. x \in Attempts <=>
            \E r \in Steps : \E k \in 1 .. journal[r].attempt_count : x = <<r, k>>
      BY DEF Attempts
    <3> QED
      BY <2>2, <3>1, <3>2
  <2> QED
    BY <2>3
<1>5. AttemptsUsed' <= AttemptsUsed + 1 /\ AttemptsUsed' \in Nat
  <2>1. PICK a : a = AttemptsUsed
    OBVIOUS
  <2>2. Cardinality(Attempts \cup {<<s, m>>}) \in {a, a + 1}
    BY <1>0, <2>1, FS_AddElement DEF AttemptsUsed
  <2>3. AttemptsUsed' = Cardinality(Attempts \cup {<<s, m>>})
    BY <1>4 DEF AttemptsUsed
  <2> QED
    BY <1>0, <2>1, <2>2, <2>3
<1>6. \A r \in Steps : journal'[r].attempt_count <= MaxToolCalls
  BY <1>0, <1>1, <1>2, StoreAssumption DEF BudgetInv
<1> QED
  BY <1>0, <1>5, <1>6, StoreAssumption DEF BudgetInv

\* The step attempts of all attempts of the task together stay within the plan's tool
\* budget: the decision reads the sum in the transaction that adds to it
\* (_step_attempts_used, begin_step_attempt).
THEOREM CallsStayInBudget == Spec => []ToolBudget
<1>1. ASSUME UNCHANGED [s \in Steps |-> journal[s].attempt_count], BudgetInv
      PROVE  BudgetInv'
  <2>1. \A s \in Steps : journal'[s].attempt_count = journal[s].attempt_count
    BY <1>1
  <2>2. Attempts' = Attempts
    BY <2>1 DEF Attempts
  <2> QED
    BY <1>1, <2>1, <2>2 DEF BudgetInv, AttemptsUsed
<1>2. Init => BudgetInv
  <2> SUFFICES ASSUME Init
               PROVE  BudgetInv
    OBVIOUS
  <2>1. \A s \in Steps : journal[s].attempt_count = 0
    BY DEF Init
  <2>2. Attempts = {}
    BY <2>1 DEF Attempts
  <2>3. AttemptsUsed = 0
    BY <2>2, FS_EmptySet DEF AttemptsUsed
  <2> QED
    BY <2>1, <2>3, StoreAssumption DEF BudgetInv
<1>3. TypeOK /\ BudgetInv /\ [Next]_vars => BudgetInv'
  <2> SUFFICES ASSUME TypeOK, BudgetInv, [Next]_vars
               PROVE  BudgetInv'
    OBVIOUS
  <2>1. CASE Moved \/ Quiet \/ \E c \in Clients : Granted(c) \/ Retried(c) \/ Leased(c)
    <3>1. UNCHANGED journal
      BY <2>1 DEF Moved, Quiet, Granted, Retried, Leased
    <3> QED
      BY <1>1, <3>1
  <2>2. ASSUME NEW c \in Clients, NEW s \in Steps, StepBegun(c, s)
        PROVE  BudgetInv'
    BY <2>2, AttemptAdded
  <2>3. ASSUME NEW s \in Steps, StepCommitted(s)
        PROVE  BudgetInv'
    <3>1. \A r \in Steps : journal'[r].attempt_count = journal[r].attempt_count
      BY <2>3 DEF StepCommitted, TypeOK, StepExecutionRecord
    <3> QED
      BY <1>1, <3>1
  <2> QED
    BY <2>1, <2>2, <2>3, NextNormalForm
<1>4. Spec => []BudgetInv
  BY <1>2, <1>3, TypeCorrect, PTL DEF Spec
<1> QED
  BY <1>4, PTL DEF BudgetInv, ToolBudget

-----------------------------------------------------------------------------
(***************************************************************************)
(* The two implementations.  They read different things (a missing entry,  *)
(* the plan before the evidence, the sum over the entries there are), and  *)
(* agree because of what the rows of either are: JournalFits.              *)
(***************************************************************************)
\* A row that no attempt made says nothing, attempts are made under a plan, and
\* evidence comes with its result.
JournalFits ==
    \A s \in Steps :
        /\ journal[s].attempt_count = 0 =>
             journal[s].last_fencing_token = 0 /\ journal[s].result_status = "none"
        /\ journal[s].attempt_count > 0 => plan # NoPlan
        /\ journal[s].result_status = "none" => evidence[s] = NoPayload

LEMMA InitJournalFits == Init => JournalFits
BY DEF Init, JournalFits

LEMMA BegunFits ==
    ASSUME StoreInv, JournalFits, NEW c \in Clients, NEW s \in Steps, NEW now,
           HoldsGrant(c), BeginStepAttempt(c, s, now)
    PROVE  JournalFits'
<1>0. TypeOK /\ TokensOrdered
  BY DEF StoreInv
<1>1. /\ journal[s].result_status = "none" /\ plan # NoPlan
      /\ plan' = plan /\ evidence' = evidence
  BY DEF BeginStepAttempt, StepAttemptDecision
<1>2. CASE ~IncrementsBudget(c, s)
  <2>1. journal' = journal
    BY <1>2 DEF BeginStepAttempt
  <2> QED
    BY <1>1, <2>1 DEF JournalFits
<1>3. CASE IncrementsBudget(c, s)
  <2>1. journal[s].attempt_count \in Nat
    BY <1>0, JournalFields
  <2>2. PICK n \in Nat : n = journal[s].attempt_count + 1 /\ n > 0
    BY <2>1
  <2>3. /\ \A r \in Steps : r # s => journal'[r] = journal[r]
        /\ journal'[s].attempt_count = n
        /\ journal'[s].result_status = journal[s].result_status
    BY <1>0, <1>3, <2>2 DEF BeginStepAttempt, TypeOK, StepExecutionRecord
  <2> QED
    BY <1>1, <2>2, <2>3 DEF JournalFits
<1> QED
  BY <1>2, <1>3

LEMMA CommittedFits ==
    ASSUME StoreInv, JournalFits, NEW c \in Clients, NEW s \in Steps, NEW now,
           HoldsGrant(c), ClientCommit(c, s, now)
    PROVE  JournalFits'
<1>0. TypeOK /\ TokensOrdered
  BY DEF StoreInv
<1>1. PICK result \in ResultStatuses, payload \in Payloads \cup {NoPayload},
           digest \in Digests : CommitStepResult(c, s, result, payload, digest, now)
  BY DEF ClientCommit
<1>2. journal[s].last_fencing_token = grant[c].fencing_token /\ plan' = plan
  BY <1>1 DEF CommitStepResult, StepCommitDecision
<1>3. grant[c].fencing_token \in Nat /\ grant[c].fencing_token > 0
  BY <1>0, GrantFields DEF TokensOrdered
<1>4. journal[s].attempt_count # 0
  BY <1>2, <1>3 DEF JournalFits
<1>5. /\ \A r \in Steps : r # s => journal'[r] = journal[r] /\ evidence'[r] = evidence[r]
      /\ journal'[s].attempt_count = journal[s].attempt_count
      /\ journal'[s].result_status = result
  BY <1>0, <1>1 DEF CommitStepResult, TypeOK, StepExecutionRecord
<1>6. result # "none"
  BY DEF ResultStatuses
<1> QED
  BY <1>2, <1>4, <1>5, <1>6 DEF JournalFits

LEMMA NextJournalFits == StoreInv /\ JournalFits /\ [Next]_vars => JournalFits'
<1> SUFFICES ASSUME StoreInv, JournalFits, [Next]_vars
             PROVE  JournalFits'
  OBVIOUS
<1>1. CASE UNCHANGED <<journal, evidence, plan>>
  BY <1>1 DEF JournalFits
<1>2. ASSUME NEW c \in Clients, NEW now \in Readings, ClientStep(c, now)
      PROVE  JournalFits'
  <2>1. ASSUME NEW intent, NEW intact, BeginTaskAttempt(c, intent, intact, now)
        PROVE  JournalFits'
    BY <1>1, <2>1 DEF BeginTaskAttempt, TerminalizeAttemptRejection, GrantAttempt
  <2>2. ASSUME NEW digest, ScheduleRetry(c, digest, now)
        PROVE  JournalFits'
    BY <1>1, <2>2 DEF ScheduleRetry
  <2>3. CASE ClientTransition(c, now)
    BY <1>1, <2>3 DEF ClientTransition, Transition
  <2>4. CASE AcquireLease(c, now) \/ RenewLease(c, now)
    BY <1>1, <2>4 DEF AcquireLease, RenewLease
  <2>5. ASSUME NEW s \in Steps, HoldsGrant(c), BeginStepAttempt(c, s, now)
        PROVE  JournalFits'
    BY <2>5, BegunFits
  <2>6. ASSUME NEW s \in Steps, HoldsGrant(c), ClientCommit(c, s, now)
        PROVE  JournalFits'
    BY <2>6, CommittedFits
  <2> QED
    BY <1>2, <2>1, <2>2, <2>3, <2>4, <2>5, <2>6 DEF ClientStep
<1>3. ASSUME NEW p \in Plans, SavePlan(p)
      PROVE  JournalFits'
  BY <1>3, StoreAssumption DEF SavePlan, JournalFits
<1>4. CASE RecordApproval \/ Tick \/ UNCHANGED vars
  BY <1>1, <1>4 DEF RecordApproval, Tick, vars, storeVars
<1> QED
  BY <1>2, <1>3, <1>4 DEF Next

\* Operation by operation.
LEMMA AttemptsAgree ==
    ASSUME TypeOK, NEW c \in Clients, NEW now \in Readings, NEW intent, NEW intact \in BOOLEAN
    PROVE  BeginTaskAttempt(c, intent, intact, now) <=> begin_task_attempt(c, intent, intact, now)
<1> DEFINE winner == [task EXCEPT !.attempt_number = @ + 1,
                                  !.next_attempt_at = Past,
                                  !.lease_owner = OwnerOf[c],
                                  !.lease_expires_at = now + LeaseTtl,
                                  !.fencing_token = sequence + 1]
<1>1. /\ winner.fencing_token = sequence + 1
      /\ winner.attempt_number = task.attempt_number + 1
  BY DEF TypeOK, TaskRecord
<1>2. GrantAttempt(c, now) <=>
        /\ task' = winner
        /\ grant' = [grant EXCEPT ![c] = [fencing_token |-> winner.fencing_token,
                                          attempt_number |-> winner.attempt_number]]
        /\ sequence' = sequence + 1
        /\ UNCHANGED <<plan, journal, evidence, approvals, audit>>
  BY <1>1 DEF GrantAttempt
<1>3. ASSUME NEW reason
      PROVE  TerminalizeAttemptRejection(reason) <=> _terminalize_attempt_rejection(reason)
  BY DEF TerminalizeAttemptRejection, _terminalize_attempt_rejection, _append
<1> QED
  BY <1>2, <1>3 DEF BeginTaskAttempt, begin_task_attempt, next_fencing_token

LEMMA RetriesAgree ==
    ASSUME NEW c \in Clients, NEW now \in Readings, NEW digest
    PROVE  ScheduleRetry(c, digest, now) <=> schedule_retry(c, digest, now)
<1>1. RetryDecision(c, digest, now) = "SCHEDULED" <=>
        /\ task.status \notin TerminalStatuses
        /\ ~ /\ task.retry_scheduled_by_attempt = grant[c].attempt_number
             /\ task.attempt_number = grant[c].attempt_number
        /\ GrantIsCurrent(c, now, {"CREATED", "PLANNING", "RUNNING"}) = "CURRENT"
  BY DEF RetryDecision, DispatchStatuses
<1> QED
  BY <1>1 DEF ScheduleRetry, schedule_retry, next_fencing_token, _append

LEMMA TransitionsAgree ==
    ASSUME NEW to, NEW expected, NEW token, NEW reason, NEW now
    PROVE  Transition(to, expected, token, reason, TransitionEvents(to), now)
              <=> transition(to, expected, token, reason, TransitionKinds(to), now)
<1>1. Events(TransitionKinds(to)) = TransitionEvents(to)
  BY DEF Events, TransitionKinds, TransitionEvents
<1> QED
  BY <1>1 DEF Transition, transition, apply_transition, _append

LEMMA LeasesAgree ==
    ASSUME NEW c \in Clients, NEW now
    PROVE  /\ AcquireLease(c, now) <=> acquire_lease(c, now)
           /\ RenewLease(c, now) <=> renew_lease(c, now)
BY DEF AcquireLease, acquire_lease, RenewLease, renew_lease, next_fencing_token

LEMMA SumsAgree ==
    ASSUME TypeOK
    PROVE  _attempts_used = AttemptsUsed
<1> DEFINE Entries == UNION {{s} \X (1 .. journal[s].attempt_count) :
                                s \in {r \in Steps : existing(r)}}
<1>1. ASSUME NEW x
      PROVE  x \in Attempts <=> x \in Entries
  <2>1. ASSUME NEW s \in Steps, NEW k \in 1 .. journal[s].attempt_count
        PROVE  existing(s)
    BY <2>1, JournalFields DEF existing
  <2>2. x \in Attempts <=> \E s \in Steps : \E k \in 1 .. journal[s].attempt_count : x = <<s, k>>
    BY DEF Attempts
  <2>3. x \in Entries <=> \E s \in {r \in Steps : existing(r)} :
                             \E k \in 1 .. journal[s].attempt_count : x = <<s, k>>
    OBVIOUS
  <2> QED
    BY <2>1, <2>2, <2>3
<1>2. Attempts = Entries
  BY <1>1
<1> QED
  BY <1>2 DEF _attempts_used, AttemptsUsed

LEMMA StepAttemptsAgree ==
    ASSUME TypeOK, TokensOrdered, JournalFits, NEW c \in Clients, NEW s \in Steps, NEW now,
           HoldsGrant(c)
    PROVE  BeginStepAttempt(c, s, now) <=> begin_step_attempt(c, s, now)
<1>1. grant[c].fencing_token # 0
  BY GrantFields DEF TokensOrdered
<1>2. journal[s].attempt_count \in Nat
  BY JournalFields
<1>3. ~existing(s) => /\ journal[s].attempt_count = 0
                      /\ journal[s].last_fencing_token # grant[c].fencing_token
                      /\ journal[s].result_status = "none"
  BY <1>1, <1>2 DEF existing, JournalFits
<1>4. (~existing(s) \/ journal[s].last_fencing_token # grant[c].fencing_token)
         <=> IncrementsBudget(c, s)
  BY <1>3 DEF IncrementsBudget
<1>5. StepAttemptDecision(c, s, now) = "PROCEED" <=>
        /\ GrantIsCurrent(c, now, {"RUNNING"}) = "CURRENT"
        /\ ~(existing(s) /\ journal[s].result_status # "none")
        /\ plan # NoPlan
        /\ s \in StepsOf[plan]
        /\ ~(IncrementsBudget(c, s) /\ _attempts_used >= MaxToolCalls)
  BY <1>3, SumsAgree DEF StepAttemptDecision
<1>6. ~existing(s) =>
         [journal EXCEPT ![s].attempt_count = 1,
                         ![s].last_fencing_token = grant[c].fencing_token]
           = [journal EXCEPT ![s].attempt_count = @ + 1,
                             ![s].last_fencing_token = grant[c].fencing_token]
  <2>1. ~existing(s) => journal[s].attempt_count + 1 = 1
    BY <1>3
  <2> QED
    BY <2>1
<1> QED
  BY <1>3, <1>4, <1>5, <1>6 DEF BeginStepAttempt, begin_step_attempt

LEMMA CommitsAgree ==
    ASSUME TypeOK, TokensOrdered, JournalFits, NEW c \in Clients, NEW s \in Steps, NEW now,
           HoldsGrant(c), NEW result, NEW payload, NEW digest
    PROVE  CommitStepResult(c, s, result, payload, digest, now)
              <=> commit_step_result(c, s, result, payload, digest, now)
<1>1. grant[c].fencing_token # 0
  BY GrantFields DEF TokensOrdered
<1>2. journal[s].attempt_count \in Nat
  BY JournalFields
<1>3. journal[s].last_fencing_token = grant[c].fencing_token => existing(s) /\ plan # NoPlan
  BY <1>1, <1>2 DEF existing, JournalFits
<1>4. StepCommitDecision(c, s, digest, now) = "COMMITTED" <=>
        /\ GrantIsCurrent(c, now, {"RUNNING"}) = "CURRENT"
        /\ existing(s)
        /\ journal[s].last_fencing_token = grant[c].fencing_token
        /\ journal[s].result_status = "none"
        /\ plan # NoPlan
        /\ payload # NoPayload => evidence[s] \in {NoPayload, payload}
  BY <1>3 DEF StepCommitDecision, JournalFits
<1> QED
  BY <1>4 DEF CommitStepResult, commit_step_result, _append

\* Every operation at once.
LEMMA OperationsAgree ==
    ASSUME StoreInv, JournalFits
    PROVE  SameOperations
<1>0. TypeOK /\ TokensOrdered
  BY DEF StoreInv
<1> SUFFICES ASSUME NEW c \in Clients, NEW now \in Readings
             PROVE  /\ \A intent \in {"DISPATCH", "APPROVAL_RESUME"}, intact \in SubmissionReads :
                         BeginTaskAttempt(c, intent, intact, now)
                            <=> begin_task_attempt(c, intent, intact, now)
                    /\ \A expected \in 0 .. task.version, token \in {0, grant[c].fencing_token} :
                         Transition(task'.status, expected, token, task'.terminal_reason,
                                    TransitionEvents(task'.status), now)
                            <=> transition(task'.status, expected, token, task'.terminal_reason,
                                           TransitionKinds(task'.status), now)
                    /\ AcquireLease(c, now) <=> acquire_lease(c, now)
                    /\ RenewLease(c, now) <=> renew_lease(c, now)
                    /\ HoldsGrant(c) =>
                         /\ \A digest \in Digests :
                              ScheduleRetry(c, digest, now) <=> schedule_retry(c, digest, now)
                         /\ \A s \in Steps :
                              /\ BeginStepAttempt(c, s, now) <=> begin_step_attempt(c, s, now)
                              /\ \A payload \in Payloads \cup {NoPayload}, digest \in Digests :
                                   CommitStepResult(c, s, journal'[s].result_status, payload,
                                                    digest, now)
                                      <=> commit_step_result(c, s, journal'[s].result_status,
                                                             payload, digest, now)
  BY DEF SameOperations
<1>1. \A intent \in {"DISPATCH", "APPROVAL_RESUME"}, intact \in SubmissionReads :
        BeginTaskAttempt(c, intent, intact, now) <=> begin_task_attempt(c, intent, intact, now)
  BY <1>0, AttemptsAgree, StoreAssumption
<1>2. ASSUME NEW to, NEW expected, NEW token, NEW reason
      PROVE  Transition(to, expected, token, reason, TransitionEvents(to), now)
                <=> transition(to, expected, token, reason, TransitionKinds(to), now)
  BY TransitionsAgree
<1>3. /\ AcquireLease(c, now) <=> acquire_lease(c, now)
      /\ RenewLease(c, now) <=> renew_lease(c, now)
  BY LeasesAgree
<1>4. \A digest \in Digests : ScheduleRetry(c, digest, now) <=> schedule_retry(c, digest, now)
  BY RetriesAgree
<1>5. ASSUME HoldsGrant(c), NEW s \in Steps
      PROVE  BeginStepAttempt(c, s, now) <=> begin_step_attempt(c, s, now)
  BY <1>0, <1>5, StepAttemptsAgree
<1>6. ASSUME HoldsGrant(c), NEW s \in Steps, NEW payload, NEW digest, NEW result
      PROVE  CommitStepResult(c, s, result, payload, digest, now)
                <=> commit_step_result(c, s, result, payload, digest, now)
  BY <1>0, <1>6, CommitsAgree
<1> QED
  BY <1>1, <1>2, <1>3, <1>4, <1>5, <1>6

\* A step of the store in memory is a step of the store.
LEMMA MemoryIsTheStore ==
    ASSUME StoreInv, JournalFits, MemoryNext
    PROVE  Next
<1>0. TypeOK /\ TokensOrdered
  BY DEF StoreInv
<1>1. ASSUME NEW c \in Clients, NEW now \in Readings, MemoryStep(c, now)
      PROVE  ClientStep(c, now)
  <2>1. ASSUME NEW intent \in {"DISPATCH", "APPROVAL_RESUME"}, NEW intact \in SubmissionReads,
               begin_task_attempt(c, intent, intact, now)
        PROVE  BeginTaskAttempt(c, intent, intact, now)
    BY <1>0, <2>1, AttemptsAgree, StoreAssumption
  <2>2. ASSUME NEW digest, schedule_retry(c, digest, now)
        PROVE  ScheduleRetry(c, digest, now)
    BY <2>2, RetriesAgree
  <2>3. ASSUME MemoryTransition(c, now)
        PROVE  ClientTransition(c, now)
    BY <2>3, TransitionsAgree DEF MemoryTransition, ClientTransition
  <2>4. /\ acquire_lease(c, now) => AcquireLease(c, now)
        /\ renew_lease(c, now) => RenewLease(c, now)
    BY LeasesAgree
  <2>5. ASSUME NEW s \in Steps, HoldsGrant(c), begin_step_attempt(c, s, now)
        PROVE  BeginStepAttempt(c, s, now)
    BY <1>0, <2>5, StepAttemptsAgree
  <2>6. ASSUME NEW s \in Steps, HoldsGrant(c), MemoryCommit(c, s, now)
        PROVE  ClientCommit(c, s, now)
    BY <1>0, <2>6, CommitsAgree DEF MemoryCommit, ClientCommit
  <2> QED
    BY <1>1, <2>1, <2>2, <2>3, <2>4, <2>5, <2>6 DEF MemoryStep, ClientStep
<1>2. record_approval => RecordApproval
  BY DEF record_approval, RecordApproval
<1> QED
  BY <1>1, <1>2 DEF MemoryNext, Next

\* What a scan selects is what an attempt at the row would be granted or charged.
ScansAgree ==
    \A now \in Readings :
        /\ list_dispatchable_tasks(now) <=> is_dispatchable(now)
        /\ is_dispatchable(now) <=>
             ClassifyTaskAttempt("DISPATCH", now) \in {"GRANTED", "RETRY_EXHAUSTED"}
        /\ stale_lease_statement(now) <=> is_stale_lease(now)

LEMMA ScansOfEither ==
    ASSUME TypeOK
    PROVE  ScansAgree
<1> SUFFICES ASSUME NEW now \in Readings
             PROVE  /\ list_dispatchable_tasks(now) <=> is_dispatchable(now)
                    /\ is_dispatchable(now) <=>
                         ClassifyTaskAttempt("DISPATCH", now) \in {"GRANTED", "RETRY_EXHAUSTED"}
                    /\ stale_lease_statement(now) <=> is_stale_lease(now)
  BY DEF ScansAgree
<1>1. list_dispatchable_tasks(now) <=> is_dispatchable(now)
  BY DEF list_dispatchable_tasks, is_dispatchable, AttemptStatuses, LeaseIsLive
<1>2. task.status \in DispatchStatuses => task.status \notin TerminalStatuses
  BY DEF DispatchStatuses, TerminalStatuses
<1>3. (task.next_attempt_at > now) <=> ~(task.next_attempt_at <= now)
  BY TaskFields, NowIsAReading DEF Deadlines
<1>4. is_dispatchable(now) <=>
        ClassifyTaskAttempt("DISPATCH", now) \in {"GRANTED", "RETRY_EXHAUSTED"}
  BY <1>2, <1>3 DEF is_dispatchable, ClassifyTaskAttempt, AttemptStatuses
<1>5. stale_lease_statement(now) <=> is_stale_lease(now)
  BY DEF stale_lease_statement, is_stale_lease, LeaseIsLive
<1> QED
  BY <1>1, <1>4, <1>5

LEMMA EitherInvariant == EitherSpec => [](StoreInv /\ JournalFits) /\ [][Next]_vars
<1>1. Init => StoreInv /\ JournalFits
  BY InitStoreInv, InitJournalFits
<1>2. StoreInv /\ JournalFits /\ [Next \/ MemoryNext]_vars => [Next]_vars
  BY MemoryIsTheStore
<1>3. StoreInv /\ JournalFits /\ [Next]_vars => StoreInv' /\ JournalFits'
  BY NextStoreInv, NextJournalFits
<1> QED
  BY <1>1, <1>2, <1>3, PTL DEF EitherSpec

\* Switching between PostgreSQL and the store in memory at any moment is a behaviour of
\* the store: every theorem about Spec holds of the implementation in fake.py too.
THEOREM EitherIsTheStore == EitherSpec => Spec
BY EitherInvariant, PTL DEF EitherSpec, Spec

\* Operation by operation, persistence/fake.py and persistence/postgres.py decide and
\* write the same from every state either can reach, and both scans select exactly the
\* rows at which an attempt is granted or charged.
THEOREM MemoryAgreesWithPostgres == EitherSpec => StoresAgree
<1>1. StoreInv /\ JournalFits => [SameOperations]_vars /\ ScansAgree
  BY OperationsAgree, ScansOfEither DEF StoreInv
<1> QED
  BY <1>1, EitherInvariant, PTL DEF StoresAgree, ScansAgree
=============================================================================
