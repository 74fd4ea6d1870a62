------------------------- MODULE ChannelSubmission -------------------------
(***************************************************************************)
(* How a message of a channel becomes a task: ChannelSubmissionService     *)
(* .submit, called by the Feishu listener for events the provider delivers *)
(* until they are acknowledged, and by the web application for requests    *)
(* that a client may repeat under the same key.                            *)
(*                                                                         *)
(* A submission is three transactions and some reads: claim the kind of    *)
(* the source event, create the task (idempotently), bind it to its        *)
(* channel and subscribe the place where the answer goes.  A handler may   *)
(* die or be cancelled between any two; the worker may run and end the     *)
(* task meanwhile; two deliveries of one event may run side by side.       *)
(*                                                                         *)
(* A slot is one stream of deliveries of one message: the same input again *)
(* and again.  Two slots with the same source are two processes that got   *)
(* the same event, or a client that reuses its key.  The identity of a     *)
(* task is its idempotency scope (unique in the tasks table): the source   *)
(* and the kind.                                                           *)
(***************************************************************************)
EXTENDS Integers, FiniteSets

CONSTANTS
    Slots,          \* streams of deliveries
    Sources,        \* digests over channel, actor and client key or event id
    Users, Chats,   \* subjects; conversations of the provider
    Texts,          \* message texts
    SqlTexts,       \* the texts recognize_sql takes for pure SQL
    ChannelOf,      \* the channel and the user of a source
    UserOf,
    SourceOf,       \* what a slot delivers: source, text, the chat it came
    TextOf,         \* from, and the task it answers (web only)
    ChatOf,
    ParentOf,
    Principals,     \* what resolving the sender of a delivery may yield
    Ahead,          \* how far the clock of the slot's process is ahead
    Ttl,            \* SQL_ARTIFACT_TTL
    MaxNow,         \* bound on the time
    MaxAborts       \* bound on handlers that die or are cancelled

Channels == {"web", "private", "group"}
Kinds == {"conversation", "sql_artifact"}
TaskIds == [source : Sources, kind : Kinds]
NoTask == [source |-> "none", kind |-> "none"]
NoChat == "none"
NoText == "none"

ASSUME SubmissionAssumption ==
    /\ "none" \notin Sources /\ "none" \notin Chats /\ "none" \notin Texts
    /\ SqlTexts \subseteq Texts
    /\ ChannelOf \in [Sources -> Channels] /\ UserOf \in [Sources -> Users]
    /\ SourceOf \in [Slots -> Sources] /\ TextOf \in [Slots -> Texts]
    /\ ChatOf \in [Slots -> Chats \cup {NoChat}]
    /\ ParentOf \in [Slots -> TaskIds \cup {NoTask}]
    /\ \A s \in Slots :                          \* _shape_is_supported
        /\ (ChannelOf[SourceOf[s]] = "web") <=> (ChatOf[s] = NoChat)
        /\ ParentOf[s] # NoTask => ChannelOf[SourceOf[s]] = "web"
    /\ \A r, s \in Slots :        \* an event comes from one chat, and a
        /\ SourceOf[r] = SourceOf[s] => ChatOf[r] = ChatOf[s]
        /\ (/\ ChannelOf[SourceOf[r]] = "private"   \* user has one private
            /\ ChannelOf[SourceOf[s]] = "private"   \* chat with the bot
            /\ UserOf[SourceOf[r]] = UserOf[SourceOf[s]])
             => ChatOf[r] = ChatOf[s]
    /\ Principals \subseteq [permitted : BOOLEAN, admin : BOOLEAN]
    /\ Ahead \in [Slots -> Nat] /\ Ttl \in Nat \ {0}
    /\ MaxNow \in Nat /\ MaxAborts \in Nat

VARIABLES
    claims,      \* channel_source_claims: the kind a source has chosen
    tasks,       \* tasks with their submissions, by idempotency scope
    expires,     \* sql_artifacts.expires_at, by the SQL task that made it
    bindings,    \* channel_bindings
    subs,        \* projection_subscriptions: where an answer goes
    local,       \* the handler of each slot
    outcome,     \* how the last delivery of each slot ended ("none": not yet)
    now,
    aborts

vars == <<claims, tasks, expires, bindings, subs, local, outcome, now, aborts>>

Statuses == {"absent", "active", "clarify", "ended"}
TaskRow == [status : Statuses, text : Texts \cup {NoText},
            parent : TaskIds \cup {NoTask}, sql : TaskIds \cup {NoTask},
            renders : BOOLEAN, at : Nat]
Binding == [task : TaskIds, source : Sources, chat : Chats \cup {NoChat}]
Subscription == [task : TaskIds, kind : {"card", "notice"}, chat : Chats]
Pcs == {"idle", "access", "claim", "create", "find", "bind"}
Handler == [pc : Pcs, admin : BOOLEAN, chat : Chats \cup {NoChat}]
Outcomes == {"none", "accepted", "forbidden", "not_found", "conflict",
             "refused", "expired", "failed", "bind_conflict"}

Absent == [status |-> "absent", text |-> NoText, parent |-> NoTask,
           sql |-> NoTask, renders |-> TRUE, at |-> 0]
Idle == [pc |-> "idle", admin |-> FALSE, chat |-> NoChat]

Init ==
    /\ claims = [r \in Sources |-> "none"]
    /\ tasks = [t \in TaskIds |-> Absent]
    /\ expires = [t \in TaskIds |-> 0]
    /\ bindings = {} /\ subs = {}
    /\ local = [s \in Slots |-> Idle]
    /\ outcome = [s \in Slots |-> "none"]
    /\ now = 0 /\ aborts = 0

-----------------------------------------------------------------------------
Channel(s) == ChannelOf[SourceOf[s]]
User(s) == UserOf[SourceOf[s]]
Clock(s) == now + Ahead[s]

\* An answer to a question is never taken for SQL.
InputKind(s) ==
    IF ParentOf[s] = NoTask /\ TextOf[s] \in SqlTexts
    THEN "sql_artifact" ELSE "conversation"

\* The task a delivery asks for.
Own(s) == [source |-> SourceOf[s], kind |-> InputKind(s)]
Exists(t) == tasks[t].status # "absent"

\* Equal request digests: the texts (or SQL hashes) and the parents.
SameRequest(s) ==
    tasks[Own(s)].text = TextOf[s] /\ tasks[Own(s)].parent = ParentOf[s]

Go(s, pc) == local' = [local EXCEPT ![s].pc = pc] /\ UNCHANGED outcome
End(s, o) ==
    /\ local' = [local EXCEPT ![s].pc = "idle", ![s].admin = FALSE]
    /\ outcome' = [outcome EXCEPT ![s] = o]

WantsWebNotice(s) == Channel(s) = "web" /\ ~local[s].admin

\* The task view that the runtime returns is rendered first: project_task
\* raises for a terminal task that has no view.
Projected(s, row) ==
    IF row.status = "ended" /\ ~row.renders THEN End(s, "failed")
    ELSE Go(s, IF WantsWebNotice(s) THEN "find" ELSE "bind")

-----------------------------------------------------------------------------
(* The handler.                                                            *)

\* The principal is resolved anew for every delivery; whether it is an
\* administrator matters on the web only.
Submit(s) ==
    /\ local[s].pc = "idle"
    /\ \E principal \in Principals :
        IF ~principal.permitted
        THEN /\ outcome' = [outcome EXCEPT ![s] = "forbidden"]
             /\ local' = [local EXCEPT ![s] = Idle]
        ELSE /\ local' = [local EXCEPT ![s] =
                   [pc |-> IF ParentOf[s] = NoTask THEN "claim" ELSE "access",
                    admin |-> principal.admin /\ Channel(s) = "web",
                    chat |-> NoChat]]
             /\ outcome' = [outcome EXCEPT ![s] = "none"]
    /\ UNCHANGED <<claims, tasks, expires, bindings, subs, now, aborts>>

RequireWebParentAccess(s) ==
    /\ local[s].pc = "access"
    /\ LET p == ParentOf[s] IN
       IF /\ tasks[p].status = "clarify" /\ UserOf[p.source] = User(s)
          /\ \E b \in bindings :
                b.task = p /\ ChannelOf[b.source] = "web"
                           /\ UserOf[b.source] = User(s)
       THEN Go(s, "claim") ELSE End(s, "not_found")
    /\ UNCHANGED <<claims, tasks, expires, bindings, subs, now, aborts>>

\* Two tasks for one source: the kind of the first claim is not compared.
ClaimSourceEvent_Unchecked(s) ==
    /\ local[s].pc = "claim"
    /\ claims' = [claims EXCEPT ![SourceOf[s]] =
                    IF @ = "none" THEN InputKind(s) ELSE @]
    /\ Go(s, "create")
    /\ UNCHANGED <<tasks, expires, bindings, subs, now, aborts>>

\* Whoever finds a claim has lost, also to its own earlier delivery.
ClaimSourceEvent_FirstOnly(s) ==
    /\ local[s].pc = "claim"
    /\ IF claims[SourceOf[s]] = "none"
       THEN /\ claims' = [claims EXCEPT ![SourceOf[s]] = InputKind(s)]
            /\ Go(s, "create")
       ELSE End(s, "conflict") /\ UNCHANGED claims
    /\ UNCHANGED <<tasks, expires, bindings, subs, now, aborts>>

\* claim_source_event: insert unless there, then compare with what is there.
ClaimSourceEvent(s) ==
    /\ local[s].pc = "claim"
    /\ LET chosen == IF claims[SourceOf[s]] = "none" THEN InputKind(s)
                     ELSE claims[SourceOf[s]]
       IN /\ claims' = [claims EXCEPT ![SourceOf[s]] = chosen]
          /\ IF chosen = InputKind(s) THEN Go(s, "create")
             ELSE End(s, "conflict")
    /\ UNCHANGED <<tasks, expires, bindings, subs, now, aborts>>

\* The row of an idempotency scope that is already taken.
ReplayOrConflict(s) ==
    /\ IF SameRequest(s) THEN Projected(s, tasks[Own(s)])
       ELSE End(s, "conflict")
    /\ UNCHANGED <<tasks, expires>>

Insert(s, sql) ==
    LET row == [status |-> "active", text |-> TextOf[s],
                parent |-> ParentOf[s], sql |-> sql,
                renders |-> TRUE, at |-> Clock(s)]
    IN tasks' = [tasks EXCEPT ![Own(s)] = row] /\ Projected(s, row)

\* A repeated request is refused instead of answered with its task.
SubmitTask_NoReplay(s) ==
    /\ local[s].pc = "create" /\ ParentOf[s] = NoTask
    /\ InputKind(s) = "conversation"
    /\ IF Exists(Own(s)) THEN End(s, "conflict") /\ UNCHANGED <<tasks, expires>>
       ELSE Insert(s, NoTask) /\ UNCHANGED expires
    /\ UNCHANGED <<claims, bindings, subs, now, aborts>>

SubmitTask(s) ==
    /\ local[s].pc = "create" /\ ParentOf[s] = NoTask
    /\ InputKind(s) = "conversation"
    /\ IF Exists(Own(s)) THEN ReplayOrConflict(s)
       ELSE Insert(s, NoTask) /\ UNCHANGED expires
    /\ UNCHANGED <<claims, bindings, subs, now, aborts>>

\* The artifact, the task and the submission in one transaction.
SubmitSqlQuery(s) ==
    /\ local[s].pc = "create" /\ InputKind(s) = "sql_artifact"
    /\ IF Exists(Own(s)) THEN ReplayOrConflict(s)
       ELSE /\ Insert(s, Own(s))
            /\ expires' = [expires EXCEPT ![Own(s)] = Clock(s) + Ttl]
    /\ UNCHANGED <<claims, bindings, subs, now, aborts>>

Consumed(p) == \E t \in TaskIds : Exists(t) /\ tasks[t].parent = p

ParentIsUsable(s) ==
    /\ tasks[ParentOf[s]].status = "clarify"
    /\ UserOf[ParentOf[s].source] = User(s)

\* An expiry that follows the clock of the last caller, also backwards.
ExtendedSqlExpiry_Shortens(current, s) == Clock(s) + Ttl

\* GREATEST(expires_at, now + 24h)
ExtendedSqlExpiry(current, s) ==
    IF current > Clock(s) + Ttl THEN current ELSE Clock(s) + Ttl

\* _extend_selected_sql, the consumed check before it and the insert after
\* it: all in the transaction that holds the lock of the parent's row.
Answer(s) ==
    LET sql == tasks[ParentOf[s]].sql
    IN  IF sql # NoTask /\ expires[sql] <= Clock(s)
        THEN End(s, "expired") /\ UNCHANGED <<tasks, expires>>
        ELSE /\ Insert(s, sql)
             /\ expires' = IF sql = NoTask THEN expires
                           ELSE [expires EXCEPT ![sql] = ExtendedSqlExpiry(@, s)]

\* The consumed check comes before the lookup of the own earlier insert.
SubmitClarificationChild_ConsumedFirst(s) ==
    /\ local[s].pc = "create" /\ ParentOf[s] # NoTask
    /\ IF TextOf[s] \in SqlTexts
       THEN End(s, "refused") /\ UNCHANGED <<tasks, expires>>
       ELSE IF Consumed(ParentOf[s]) \/ ~ParentIsUsable(s)
       THEN End(s, "not_found") /\ UNCHANGED <<tasks, expires>>
       ELSE IF Exists(Own(s)) THEN ReplayOrConflict(s) ELSE Answer(s)
    /\ UNCHANGED <<claims, bindings, subs, now, aborts>>

\* create_clarification_child: the own earlier insert is looked up before
\* the parent is judged, so that a repeated answer finds its task.
SubmitClarificationChild(s) ==
    /\ local[s].pc = "create" /\ ParentOf[s] # NoTask
    /\ IF TextOf[s] \in SqlTexts
       THEN End(s, "refused") /\ UNCHANGED <<tasks, expires>>
       ELSE IF Exists(Own(s)) THEN ReplayOrConflict(s)
       ELSE IF ~ParentIsUsable(s) \/ Consumed(ParentOf[s])
       THEN End(s, "not_found") /\ UNCHANGED <<tasks, expires>>
       ELSE Answer(s)
    /\ UNCHANGED <<claims, bindings, subs, now, aborts>>

\* find_private_chat_ref: where this user has written to the bot before.
PrivateChats(user) ==
    {d.chat : d \in {e \in subs :
        /\ e.kind = "card"
        /\ \E b \in bindings : /\ b.task = e.task
                               /\ ChannelOf[b.source] = "private"
                               /\ UserOf[b.source] = user}}

FindPrivateChatRef(s) ==
    /\ local[s].pc = "find"
    /\ \E c \in (IF PrivateChats(User(s)) = {} THEN {NoChat}
                 ELSE PrivateChats(User(s))) :
          local' = [local EXCEPT ![s].pc = "bind", ![s].chat = c]
    /\ UNCHANGED <<claims, tasks, expires, bindings, subs, outcome, now, aborts>>

\* The subscription the bind asks for, if any.
Projection(s) ==
    IF Channel(s) = "web"
    THEN IF local[s].chat = NoChat THEN {}
         ELSE {[task |-> Own(s), kind |-> "notice", chat |-> local[s].chat]}
    ELSE {[task |-> Own(s), kind |-> "card", chat |-> ChatOf[s]]}

BindingOf(s) ==
    [task |-> Own(s), source |-> SourceOf[s],
     chat |-> IF Channel(s) = "group" THEN ChatOf[s] ELSE NoChat]

\* The rows a new binding would collide with: one task, one source.
Colliding(s) ==
    {b \in bindings : b.task = Own(s) \/ b.source = SourceOf[s]}

\* The subscription is only made together with a new binding.
BindTask_OnceOnly(s) ==
    /\ local[s].pc = "bind"
    /\ IF Colliding(s) \subseteq {BindingOf(s)}
       THEN /\ bindings' = bindings \cup {BindingOf(s)}
            /\ subs' = IF Colliding(s) = {} THEN subs \cup Projection(s) ELSE subs
            /\ End(s, "accepted")
       ELSE End(s, "bind_conflict") /\ UNCHANGED <<bindings, subs>>
    /\ UNCHANGED <<claims, tasks, expires, now, aborts>>

BindTask(s) ==
    /\ local[s].pc = "bind"
    /\ IF Colliding(s) \subseteq {BindingOf(s)}
       THEN /\ bindings' = bindings \cup {BindingOf(s)}
            /\ subs' = subs \cup Projection(s)
            /\ End(s, "accepted")
       ELSE End(s, "bind_conflict") /\ UNCHANGED <<bindings, subs>>
    /\ UNCHANGED <<claims, tasks, expires, now, aborts>>

-----------------------------------------------------------------------------
(* The surroundings.                                                       *)

\* The process dies, the callback times out, the client hangs up: the
\* handler ends where it is and nothing is acknowledged.
Abort(s) ==
    /\ local[s].pc # "idle" /\ aborts < MaxAborts
    /\ local' = [local EXCEPT ![s] = Idle]
    /\ aborts' = aborts + 1
    /\ UNCHANGED <<claims, tasks, expires, bindings, subs, outcome, now>>

\* The worker takes a task as soon as it exists, bound or not.  A task that
\* asks has the record of its question; one that ends may have no view.
TaskEnds(t) ==
    /\ tasks[t].status = "active"
    /\ \E status \in {"clarify", "ended"}, renders \in BOOLEAN :
        /\ status = "clarify" => renders
        /\ tasks' = [tasks EXCEPT ![t].status = status, ![t].renders = renders]
    /\ UNCHANGED <<claims, expires, bindings, subs, local, outcome, now, aborts>>

\* A worker that lost its grant stores the plan after the end; from then on the
\* task has a view.
PlanComes(t) ==
    /\ tasks[t].status = "ended" /\ ~tasks[t].renders
    /\ tasks' = [tasks EXCEPT ![t].renders = TRUE]
    /\ UNCHANGED <<claims, expires, bindings, subs, local, outcome, now, aborts>>

Tick ==
    /\ now < MaxNow
    /\ now' = now + 1
    /\ UNCHANGED <<claims, tasks, expires, bindings, subs, local, outcome, aborts>>

Handle(s) ==
    \/ RequireWebParentAccess(s) \/ ClaimSourceEvent(s)
    \/ SubmitTask(s) \/ SubmitSqlQuery(s) \/ SubmitClarificationChild(s)
    \/ FindPrivateChatRef(s) \/ BindTask(s)

Next ==
    \/ \E s \in Slots : Submit(s)
    \/ \E s \in Slots : RequireWebParentAccess(s)
    \/ \E s \in Slots : ClaimSourceEvent(s)
    \/ \E s \in Slots : SubmitTask(s)
    \/ \E s \in Slots : SubmitSqlQuery(s)
    \/ \E s \in Slots : SubmitClarificationChild(s)
    \/ \E s \in Slots : FindPrivateChatRef(s)
    \/ \E s \in Slots : BindTask(s)
    \/ \E s \in Slots : Abort(s)
    \/ \E t \in TaskIds : TaskEnds(t) \/ PlanComes(t)
    \/ Tick

Spec == Init /\ [][Next]_vars

\* handle_event returns, and the SDK acknowledges, when the task is bound
\* and when the listener refuses the event for good.
Acknowledged(s) == outcome[s] \in {"accepted", "forbidden", "conflict", "bind_conflict"}

Feishu == {s \in Slots : Channel(s) # "web"}

\* The provider delivers an event until it is acknowledged, and the event
\* loop runs a handler that was started.
FairSpec ==
    /\ Spec
    /\ \A s \in Feishu : /\ WF_vars(Submit(s) /\ ~Acknowledged(s))
                         /\ WF_vars(Handle(s))

-----------------------------------------------------------------------------
(* Properties.                                                             *)

\* Every table and every handler keeps its shape.
TypeOK ==
    /\ claims \in [Sources -> Kinds \cup {"none"}]
    /\ tasks \in [TaskIds -> TaskRow]
    /\ expires \in [TaskIds -> Nat]
    /\ bindings \subseteq Binding /\ subs \subseteq Subscription
    /\ local \in [Slots -> Handler] /\ outcome \in [Slots -> Outcomes]
    /\ now \in Nat /\ aborts \in Nat

\* A source event has at most one task, although conversations and SQL have
\* separate idempotency scopes and a key may come back with another text.
OneTaskPerSource ==
    \A t, u \in TaskIds :
        Exists(t) /\ Exists(u) /\ t.source = u.source => t = u

\* Once the task is created the bind cannot fail: no task is left that runs
\* but that nobody may see.
CreatedIsBindable == \A s \in Slots : outcome[s] # "bind_conflict"

\* Deliveries of one message never contradict each other: a source that only
\* ever carries one text to one parent sees no conflict, whatever died
\* between the claim, the task and the binding.
RedeliveryNeverConflicts ==
    \A s \in Slots :
        (\A r \in Slots : SourceOf[r] = SourceOf[s] =>
            TextOf[r] = TextOf[s] /\ ParentOf[r] = ParentOf[s])
        => outcome[s] # "conflict"

\* A task that answers a question answers one that was asked, of the same
\* user, shown on the web, and answered by no other task.
AnswersAreLegitimate ==
    \A t \in TaskIds : Exists(t) /\ tasks[t].parent # NoTask =>
        LET p == tasks[t].parent IN
        /\ tasks[p].status = "clarify"
        /\ UserOf[p.source] = UserOf[t.source]
        /\ \E b \in bindings : b.task = p /\ ChannelOf[b.source] = "web"
        /\ \A u \in TaskIds : Exists(u) /\ tasks[u].parent = p => u = t

\* The SQL behind an answered target question is kept for its full time
\* after every answer, however far the clocks of the processes are apart.
SqlOutlivesAnswers ==
    \A t \in TaskIds : Exists(t) /\ tasks[t].sql # NoTask =>
        expires[tasks[t].sql] >= tasks[t].at + Ttl

\* An accepted message has its binding, and the place for its answer is
\* subscribed: the chat of the event, or the private chat of a web user that
\* the handler found.
AcceptedIsAnswerable ==
    \A s \in Slots : local[s].pc = "idle" /\ outcome[s] = "accepted" =>
        BindingOf(s) \in bindings /\ Projection(s) \subseteq subs

\* The answer of a task goes to one place, however often its message came.
OneDestination ==
    \A d, e \in subs : d.task = e.task => d = e

\* A repeated answer finds the task that its first delivery created: neither
\* the access check nor the parent, which that delivery consumed, is held
\* against it.
RepeatedAnswerIsFound ==
    [][\A s \in Slots :
        /\ local[s].pc \in {"access", "create"} /\ local'[s].pc = "idle"
        /\ Exists(Own(s)) /\ SameRequest(s) /\ aborts' = aborts
        => outcome'[s] # "not_found"]_vars

\* An event of the provider ends at a bound task, or its sender may not
\* submit, unless the task ended without a view before it was bound and never
\* got one.
EventsReachTheirTask ==
    \A s \in Feishu :
        \/ <>(BindingOf(s) \in bindings \/ outcome[s] = "forbidden")
        \/ <>[](~tasks[Own(s)].renders)

\* A source, however often and wherever it is delivered and whatever it is reused for, has
\* one task, which can be bound and is answered in one place.
OneTaskOnePlace == TypeOK /\ OneTaskPerSource /\ CreatedIsBindable /\ OneDestination

\* A question has one answer, by somebody who may give it, and whoever repeats that answer
\* is given its task.
AnswersAreSettled == []AnswersAreLegitimate /\ RepeatedAnswerIsFound
=============================================================================
