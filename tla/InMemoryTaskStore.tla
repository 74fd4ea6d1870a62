------------------------- MODULE InMemoryTaskStore -------------------------
(***************************************************************************)
(* The in-memory implementation of the task store (persistence/fake.py),   *)
(* over the rows of TaskStore: most of the repository's tests run against  *)
(* it, so what they show of PostgreSQL depends on the two agreeing.  Every *)
(* method runs under one lock and is one action.  The decisions of         *)
(* decisions.py are shared by both implementations in the code and here;   *)
(* the order of the branches and the writes are this implementation's own. *)
(*                                                                         *)
(* A step key that is not in the dictionary is a row with attempt_count 0. *)
(* Two readings of the clock inside one locked method are one reading.     *)
(***************************************************************************)
EXTENDS TaskStore

next_fencing_token == sequence + 1

_append(kinds) == audit' = Appended(Events(kinds))

_terminalize_attempt_rejection(rejection) ==
    /\ task' = [task EXCEPT !.status = "FAILED", !.version = @ + 1,
                            !.terminal_reason = rejection]
    /\ _append({"exhausted"})
    /\ UNCHANGED <<sequence, plan, journal, evidence, approvals, grant>>

begin_task_attempt(c, intent, intact, now) ==
    LET rejection == ClassifyTaskAttempt(intent, now)
        winner == [task EXCEPT !.attempt_number = @ + 1,
                               !.next_attempt_at = Past,
                               !.lease_owner = OwnerOf[c],
                               !.lease_expires_at = now + LeaseTtl,
                               !.fencing_token = next_fencing_token]
    IN  \/ /\ rejection = "RETRY_EXHAUSTED"
           /\ _terminalize_attempt_rejection("retry_exhausted")
        \/ /\ rejection = "GRANTED"
           /\ ~intact
           /\ _terminalize_attempt_rejection("submission_invariant_violation")
        \/ /\ rejection = "GRANTED"
           /\ intact
           /\ task' = winner
           /\ grant' = [grant EXCEPT ![c] =
                           [fencing_token |-> winner.fencing_token,
                            attempt_number |-> winner.attempt_number]]
           /\ sequence' = next_fencing_token
           /\ UNCHANGED <<plan, journal, evidence, approvals, audit>>

\* Fault: a retry that was already scheduled is charged once more.
schedule_retry_ChargesReplay(c, digest, now) ==
    /\ task.status \notin TerminalStatuses
    /\ \/ GrantIsCurrent(c, now, DispatchStatuses) = "CURRENT"
       \/ /\ task.retry_scheduled_by_attempt = grant[c].attempt_number
          /\ task.attempt_number = grant[c].attempt_number
    /\ task' = [task EXCEPT !.version = @ + 1,
                            !.task_failure_count = @ + 1,
                            !.next_attempt_at = now + RetryDelay,
                            !.retry_scheduled_by_attempt = grant[c].attempt_number,
                            !.retry_command_digest = digest,
                            !.lease_expires_at = now + RetryDelay,
                            !.fencing_token = next_fencing_token]
    /\ sequence' = next_fencing_token
    /\ _append({"retry"})
    /\ UNCHANGED <<plan, journal, evidence, approvals, grant>>

schedule_retry(c, digest, now) ==
    /\ task.status \notin TerminalStatuses
    /\ ~ /\ task.retry_scheduled_by_attempt = grant[c].attempt_number
         /\ task.attempt_number = grant[c].attempt_number
    /\ GrantIsCurrent(c, now, {"CREATED", "PLANNING", "RUNNING"}) = "CURRENT"
    /\ task' = [task EXCEPT !.version = @ + 1,
                            !.task_failure_count = @ + 1,
                            !.next_attempt_at = now + RetryDelay,
                            !.retry_scheduled_by_attempt = grant[c].attempt_number,
                            !.retry_command_digest = digest,
                            !.lease_expires_at = now + RetryDelay,
                            !.fencing_token = next_fencing_token]
    /\ sequence' = next_fencing_token
    /\ _append({"retry"})
    /\ UNCHANGED <<plan, journal, evidence, approvals, grant>>

apply_transition(to, reason) ==
    [task EXCEPT !.status = to, !.version = @ + 1, !.terminal_reason = reason]

transition(to, expected, token, reason, kinds, now) ==
    /\ ClassifyTransition(to, expected, token, now) = "APPLIED"
    /\ task' = apply_transition(to, reason)
    /\ _append(kinds)
    /\ UNCHANGED <<sequence, plan, journal, evidence, approvals, grant>>

acquire_lease(c, now) ==
    /\ MayAcquireLease(OwnerOf[c], now)
    /\ grant' = [grant EXCEPT ![c] =
                    [fencing_token |-> next_fencing_token, attempt_number |-> 0]]
    /\ task' = [task EXCEPT !.lease_owner = OwnerOf[c],
                            !.lease_expires_at = now + LeaseTtl,
                            !.fencing_token = next_fencing_token]
    /\ sequence' = next_fencing_token
    /\ UNCHANGED <<plan, journal, evidence, approvals, audit>>

renew_lease(c, now) ==
    /\ MayRenewLease(OwnerOf[c], grant[c].fencing_token, now)
    /\ task' = [task EXCEPT !.lease_expires_at = now + LeaseTtl]
    /\ UNCHANGED <<sequence, plan, journal, evidence, approvals, audit, grant>>

record_approval ==
    /\ approvals' = approvals + 1
    /\ UNCHANGED <<task, sequence, plan, journal, evidence, audit, grant>>

-----------------------------------------------------------------------------
\* The step journal.

existing(s) == journal[s].attempt_count > 0

\* The sum over the entries there are.
_attempts_used ==
    Cardinality(UNION {{s} \X (1 .. journal[s].attempt_count) : s \in {r \in Steps : existing(r)}})

begin_step_attempt(c, s, now) ==
    LET increments_budget ==
            \/ ~existing(s)
            \/ journal[s].last_fencing_token # grant[c].fencing_token
    IN  /\ GrantIsCurrent(c, now, {"RUNNING"}) = "CURRENT"
        /\ ~(existing(s) /\ journal[s].result_status # "none")
        /\ plan # NoPlan
        /\ s \in StepsOf[plan]
        /\ ~(increments_budget /\ _attempts_used >= MaxToolCalls)
        /\ journal' =
             IF ~existing(s)
             THEN [journal EXCEPT ![s].attempt_count = 1,
                                  ![s].last_fencing_token = grant[c].fencing_token]
             ELSE IF increments_budget
             THEN [journal EXCEPT ![s].attempt_count = @ + 1,
                                  ![s].last_fencing_token = grant[c].fencing_token]
             ELSE journal
        /\ UNCHANGED <<task, sequence, plan, evidence, approvals, audit, grant>>

\* A missing plan and different evidence under the step's id are exceptions
\* raised before anything is written.
commit_step_result(c, s, result, payload, digest, now) ==
    /\ GrantIsCurrent(c, now, {"RUNNING"}) = "CURRENT"
    /\ existing(s)
    /\ journal[s].last_fencing_token = grant[c].fencing_token
    /\ journal[s].result_status = "none"
    /\ plan # NoPlan
    /\ payload # NoPayload => evidence[s] \in {NoPayload, payload}
    /\ evidence' = [evidence EXCEPT ![s] = IF payload = NoPayload THEN @ ELSE payload]
    /\ _append({"step"})
    /\ journal' = [journal EXCEPT ![s].result_status = result,
                                  ![s].commit_digest = digest]
    /\ UNCHANGED <<task, sequence, plan, approvals, grant>>

-----------------------------------------------------------------------------
\* What the scans of both implementations select, at one clock reading.

is_dispatchable(now) ==
    /\ task.status \in DispatchStatuses
    /\ task.next_attempt_at <= now
    /\ ~LeaseIsLive(now)

is_stale_lease(now) ==
    /\ task.fencing_token # 0
    /\ ~LeaseIsLive(now)
    /\ task.status \notin TerminalStatuses

\* The WHERE clause alone: rows it selects and Python drops would use up LIMIT.
stale_lease_statement(now) ==
    /\ task.fencing_token # 0
    /\ ~(task.lease_owner # NoOwner /\ task.lease_expires_at > now)
    /\ task.status \notin TerminalStatuses

list_dispatchable_tasks(now) ==
    /\ task.status \in AttemptStatuses("DISPATCH")
    /\ task.next_attempt_at <= now
    /\ ~(task.lease_owner # NoOwner /\ task.lease_expires_at > now)

-----------------------------------------------------------------------------
\* The same clients as in TaskStore, calling this implementation.

TransitionKinds(to) ==
    {"lifecycle"} \cup (IF to \in TerminalStatuses THEN {"reflection"} ELSE {})

MemoryTransition(c, now) ==
    \E to \in Statuses, expected \in 0 .. task.version,
       token \in {0, grant[c].fencing_token}, reason \in TerminalReasons :
        /\ reason # "none" => to \in TerminalStatuses
        /\ transition(to, expected, token, reason, TransitionKinds(to), now)

MemoryCommit(c, s, now) ==
    \E result \in ResultStatuses, payload \in Payloads \cup {NoPayload},
       digest \in Digests :
        /\ payload = NoPayload => result = "FAILED"
        /\ commit_step_result(c, s, result, payload, digest, now)

MemoryStep(c, now) ==
    \/ /\ TokenLeft /\ VersionLeft
       /\ \E intent \in {"DISPATCH", "APPROVAL_RESUME"}, intact \in SubmissionReads :
            begin_task_attempt(c, intent, intact, now)
    \/ /\ TokenLeft /\ VersionLeft /\ HoldsGrant(c)
       /\ \E digest \in Digests : schedule_retry(c, digest, now)
    \/ VersionLeft /\ MemoryTransition(c, now)
    \/ TokenLeft /\ acquire_lease(c, now)
    \/ renew_lease(c, now)
    \/ \E s \in Steps : HoldsGrant(c) /\ begin_step_attempt(c, s, now)
    \/ \E s \in Steps : HoldsGrant(c) /\ MemoryCommit(c, s, now)

MemoryNext ==
    \/ \E c \in Clients, now \in Readings : MemoryStep(c, now)
    \/ \E p \in Plans : SavePlan(p)
    \/ ApprovalLeft /\ record_approval
    \/ Tick

\* Either implementation may take the next step from wherever they are.
EitherSpec == Init /\ [][Next \/ MemoryNext]_vars

\* Operation by operation, a step of one implementation is a step of the other.
SameOperations ==
    \A c \in Clients, now \in Readings :
        /\ \A intent \in {"DISPATCH", "APPROVAL_RESUME"}, intact \in SubmissionReads :
             BeginTaskAttempt(c, intent, intact, now)
                <=> begin_task_attempt(c, intent, intact, now)
        /\ \A expected \in 0 .. task.version, token \in {0, grant[c].fencing_token} :
             Transition(task'.status, expected, token, task'.terminal_reason,
                        TransitionEvents(task'.status), now)
                <=> transition(task'.status, expected, token, task'.terminal_reason,
                               TransitionKinds(task'.status), now)
        /\ AcquireLease(c, now) <=> acquire_lease(c, now)
        /\ RenewLease(c, now) <=> renew_lease(c, now)
        /\ HoldsGrant(c) =>
             /\ \A digest \in Digests :
                  ScheduleRetry(c, digest, now) <=> schedule_retry(c, digest, now)
             /\ \A s \in Steps :
                  /\ BeginStepAttempt(c, s, now) <=> begin_step_attempt(c, s, now)
                  /\ \A payload \in Payloads \cup {NoPayload}, digest \in Digests :
                       CommitStepResult(c, s, journal'[s].result_status, payload, digest, now)
                          <=> commit_step_result(c, s, journal'[s].result_status,
                                                 payload, digest, now)

\* The two implementations agree: from every state each operation of either is
\* the same operation of the other, and both scans select a row exactly when an
\* attempt at it would be granted or charged (dispatch) or the shared decision
\* calls it stale, so LIMIT is never used up by rows that are then dropped.
StoresAgree ==
    /\ [][SameOperations]_vars
    /\ [](\A now \in Readings :
            /\ list_dispatchable_tasks(now) <=> is_dispatchable(now)
            /\ is_dispatchable(now) <=>
                 ClassifyTaskAttempt("DISPATCH", now) \in {"GRANTED", "RETRY_EXHAUSTED"}
            /\ stale_lease_statement(now) <=> is_stale_lease(now))
=============================================================================
