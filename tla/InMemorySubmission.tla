------------------------- MODULE InMemorySubmission -------------------------
(***************************************************************************)
(* The in-memory task and channel stores (persistence/fake.py) as a        *)
(* submission meets them, over the tables of ChannelSubmission.  Every     *)
(* method runs under the one lock the stores share, where PostgreSQL has a *)
(* transaction with row locks and unique constraints.                      *)
(*                                                                         *)
(* task_ids_by_key is keyed by the idempotency scope, so by TaskIds; the   *)
(* two indexes over channel_bindings are looked up in the bindings.        *)
(***************************************************************************)
EXTENDS ChannelSubmission

claim_source_event(s) ==
    LET chosen == IF claims[SourceOf[s]] = "none" THEN InputKind(s) ELSE claims[SourceOf[s]]
    IN  /\ claims' = [claims EXCEPT ![SourceOf[s]] = chosen]
        /\ IF chosen # InputKind(s) THEN End(s, "conflict") ELSE Go(s, "create")
        /\ UNCHANGED <<tasks, expires, bindings, subs, now, aborts>>

\* Nothing under the key, a request with another digest, or the task itself.
_existing_task_for_submission_locked(s) ==
    IF tasks[Own(s)].status = "absent" THEN "none"
    ELSE IF tasks[Own(s)].text # TextOf[s] \/ tasks[Own(s)].parent # ParentOf[s]
         THEN "conflict"
    ELSE "existing"

Replayed(s, found) ==
    \/ found = "conflict" /\ End(s, "conflict") /\ UNCHANGED <<tasks, expires>>
    \/ found = "existing" /\ Projected(s, tasks[Own(s)]) /\ UNCHANGED <<tasks, expires>>

_insert_task_locked(s, sql) ==
    LET record == [status |-> "active", text |-> TextOf[s], parent |-> ParentOf[s],
                   sql |-> sql, renders |-> TRUE, at |-> Clock(s)]
    IN  /\ tasks' = [tasks EXCEPT ![Own(s)] = record]
        /\ Projected(s, record)

create_task(s) ==
    LET found == _existing_task_for_submission_locked(s)
    IN  /\ \/ Replayed(s, found)
           \/ found = "none" /\ _insert_task_locked(s, NoTask) /\ UNCHANGED expires
        /\ UNCHANGED <<claims, bindings, subs, now, aborts>>

classify_sql_submit(s) ==
    IF tasks[Own(s)].status = "absent" THEN "CREATED"
    ELSE IF tasks[Own(s)].text # TextOf[s] \/ tasks[Own(s)].parent # NoTask
         THEN "IDEMPOTENCY_CONFLICT"
    ELSE "REPLAYED"

submit_sql_query(s) ==
    LET decision == classify_sql_submit(s)
    IN  /\ \/ /\ decision = "IDEMPOTENCY_CONFLICT"
              /\ End(s, "conflict")
              /\ UNCHANGED <<tasks, expires>>
           \/ /\ decision = "REPLAYED"
              /\ Projected(s, tasks[Own(s)])
              /\ UNCHANGED <<tasks, expires>>
           \/ /\ decision = "CREATED"
              /\ expires' = [expires EXCEPT ![Own(s)] = Clock(s) + Ttl]
              /\ _insert_task_locked(s, Own(s))
        /\ UNCHANGED <<claims, bindings, subs, now, aborts>>

clarification_parent_is_usable(s) ==
    /\ tasks[ParentOf[s]].status = "clarify"
    /\ UserOf[ParentOf[s].source] = User(s)

_clarification_parent_is_consumed_locked(s) ==
    \E t \in TaskIds : tasks[t].status # "absent" /\ tasks[t].parent = ParentOf[s]

\* The artifact of a target question, read as the parent's own requester.
classify_sql_artifact_read(sql, s) ==
    IF tasks[sql].status = "absent" THEN "NOT_FOUND"
    ELSE IF UserOf[sql.source] # UserOf[ParentOf[s].source] THEN "SCOPE_MISMATCH"
    ELSE IF expires[sql] <= Clock(s) THEN "EXPIRED"
    ELSE "AVAILABLE"

extended_sql_expiry(current, s) ==
    CHOOSE e \in {current, Clock(s) + Ttl} : e >= current /\ e >= Clock(s) + Ttl

target_selection_sql(s) == tasks[ParentOf[s]].sql

_extend_selected_sql_locked(s) ==
    IF target_selection_sql(s) = NoTask THEN UNCHANGED expires
    ELSE expires' = [expires EXCEPT ![target_selection_sql(s)] = extended_sql_expiry(@, s)]

create_clarification_child(s) ==
    LET found == _existing_task_for_submission_locked(s)
        sql == target_selection_sql(s)
        read == IF sql = NoTask THEN "AVAILABLE" ELSE classify_sql_artifact_read(sql, s)
        answerable == /\ clarification_parent_is_usable(s)
                      /\ ~_clarification_parent_is_consumed_locked(s)
    IN  /\ \/ Replayed(s, found)
           \/ /\ found = "none" /\ ~answerable
              /\ End(s, "not_found")
              /\ UNCHANGED <<tasks, expires>>
           \/ /\ found = "none" /\ answerable /\ read = "EXPIRED"
              /\ End(s, "expired")
              /\ UNCHANGED <<tasks, expires>>
           \/ /\ found = "none" /\ answerable /\ read = "AVAILABLE"
              /\ _extend_selected_sql_locked(s)
              /\ _insert_task_locked(s, sql)
        /\ UNCHANGED <<claims, bindings, subs, now, aborts>>

find_private_chat_ref(s) ==
    LET candidates == {b \in bindings : /\ ChannelOf[b.source] = "private"
                                        /\ UserOf[b.source] = User(s)}
        found == {d \in subs : /\ d.kind = "card"
                               /\ \E b \in candidates : b.task = d.task}
    IN  /\ \E c \in (IF found = {} THEN {NoChat} ELSE {d.chat : d \in found}) :
              local' = [local EXCEPT ![s].pc = "bind", ![s].chat = c]
        /\ UNCHANGED <<claims, tasks, expires, bindings, subs, outcome, now, aborts>>

\* Fault: a binding found through its source alone is taken for this task's.
bind_task_BySourceOnly(s) ==
    LET by_source == {b \in bindings : b.source = SourceOf[s]}
    IN  /\ bindings' = IF by_source = {} THEN bindings \cup {BindingOf(s)} ELSE bindings
        /\ subs' = IF by_source = {} THEN subs \cup Projection(s) ELSE subs
        /\ End(s, "accepted")
        /\ UNCHANGED <<claims, tasks, expires, now, aborts>>

\* Both indexes must name the same binding, and it must be this one; a binding
\* that is there already still gets its subscription.
bind_task(s) ==
    LET by_source == {b \in bindings : b.source = SourceOf[s]}
        by_task == {b \in bindings : b.task = Own(s)}
    IN  /\ \/ /\ by_source \cup by_task = {}
              /\ subs' = subs \cup Projection(s)
              /\ bindings' = bindings \cup {BindingOf(s)}
              /\ End(s, "accepted")
           \/ /\ by_source \cup by_task # {}
              /\ by_source = by_task /\ BindingOf(s) \in by_source
              /\ subs' = subs \cup Projection(s)
              /\ UNCHANGED bindings
              /\ End(s, "accepted")
           \/ /\ by_source \cup by_task # {}
              /\ ~(by_source = by_task /\ BindingOf(s) \in by_source)
              /\ End(s, "bind_conflict")
              /\ UNCHANGED <<bindings, subs>>
        /\ UNCHANGED <<claims, tasks, expires, now, aborts>>

-----------------------------------------------------------------------------
\* The step a handler takes against this implementation.
MemoryHandle(s) ==
    \/ local[s].pc = "claim" /\ claim_source_event(s)
    \/ /\ local[s].pc = "create" /\ ParentOf[s] = NoTask
       /\ \/ InputKind(s) = "conversation" /\ create_task(s)
          \/ InputKind(s) = "sql_artifact" /\ submit_sql_query(s)
    \/ /\ local[s].pc = "create" /\ ParentOf[s] # NoTask /\ TextOf[s] \notin SqlTexts
       /\ create_clarification_child(s)
    \/ local[s].pc = "find" /\ find_private_chat_ref(s)
    \/ local[s].pc = "bind" /\ bind_task(s)

\* The handler's steps that call a store.
StoreHandle(s) ==
    \/ ClaimSourceEvent(s) \/ SubmitTask(s) \/ SubmitSqlQuery(s)
    \/ TextOf[s] \notin SqlTexts /\ SubmitClarificationChild(s)
    \/ FindPrivateChatRef(s) \/ BindTask(s)

\* A submission meets the same stores in memory and in PostgreSQL: every store
\* call of a handler has the same effect and the same answer in both.  A call
\* has one outcome in either, so it is enough to follow PostgreSQL's.
SubmissionStoresAgree ==
    [][\A s \in Slots : local'[s].pc # local[s].pc =>
            (MemoryHandle(s) <=> StoreHandle(s))]_vars
=============================================================================
