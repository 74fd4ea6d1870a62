# Verification of xiaowei-agent

TLA+ modules, TLC runs and TLAPS proofs for the task kernel, the channels, the
administration and the guards of `src/src/xiaowei_agent`. `PROJECT.json` maps every
definition to the lines it models, and lists the runs, the mutants that show each
property can fail, the hazards, the findings and the theorems.

## 1. The system

xiaowei-agent accepts a request (from Feishu, the web page, an API or the CLI),
stores it as a *task*, and lets any of several worker processes execute it: an
interaction model proposes what is wanted, a deterministic planner compiles a
plan, a runner calls read-only tools step by step, the evidence is judged, an
advisory may be asked for, and the terminal status is written. Channel
projections then show the state of the task in a Feishu card. Administrators
sign in to a Web console, activate users and edit the configuration of the
providers. The processes share one PostgreSQL database and a directory of
configuration files; each reads its own clock.

| Component | State | Operations | What makes it correct |
|---|---|---|---|
| Task state machine, decisions (`contracts/task.py`, `persistence/decisions.py`) | none (pure) | classify an attempt, a grant, a transition, a lease | only legal transitions; one holder; terminal states final |
| Task store (`persistence/postgres.py`, twin `persistence/fake.py`) | task row, lease and fencing token, retry marker, step journal, evidence, approvals, audit | begin attempt, schedule retry, transition, acquire/renew lease, begin step, commit step, scans | fencing, bounded retries, append-only journal, one audit row per version, rows that decode; both implementations do the same |
| Plan store, evidence ledger | one plan per task, evidence envelopes | save once, append | the plan is the accepted one |
| Model artifacts, clarification records | three insert-once facts per task | save under the grant | same fact for every attempt |
| Runtime, runner, heartbeat (`application/runtime.py`, `runners/deterministic.py`) | a coroutine per attempt: what it has read | execute, resume, step, commit, pause, finalize, retry, fail-stop | crash-safe recovery, no drift, charged calls, backed answers, tasks end |
| Worker loop (`application/worker.py`) | open rounds, attempts in flight, failure window, back-off | list, claim, reap, settle, back off, stop, drain | the window is the outage; a fatal failure ends the process; an outage and a stop end it |
| Tool gateway, StarRocks adapter (`tools/`) | calls under way, threads, the activation window, what the server is | admit, invoke, probe, query, time out | nothing is asked without a certificate and five verified facts |
| Step admission, SQL guard, planning (`governance/`, `planning/`, `evidence/`, `reflection/`) | none (pure) | admit a step, scan, prove read-only, compile, verify, judge | SQL means what the server takes it for; plans say what was confirmed |
| Channel projection (`persistence/channel.py`, `application/channel_projection.py`) | subscription row with a fenced claim; the provider's cards | list due, claim, read, render, deliver, record, retry, dead-letter | a completed row shows the terminal card; budgets; eventual notification |
| Channel submission (`application/channel_submission.py`) | source-event claims, bindings, subscriptions | claim source, create task, bind | one task per event, crash between the transactions recovered by redelivery |
| Task submission, SQL artifacts | submissions, idempotency scopes, retained SQL | create, create clarification child, extend retention | idempotent creation, a clarification is answered once |
| Task reading (`application/channel_access.py`) | none of its own; a call's readings | list, detail, parent check | complete pages, details of one moment, only to those who may |
| Identity, activation, admin audit (`persistence/identity.py`, `application/admin_identity.py`) | accounts, roles, bindings, requests, audit | bind, assign, approve, reject, disable, bootstrap, migrate | the audit explains the directory; authority is judged when used; administrators keep their role |
| Web sessions, OAuth states, local administrator (`interfaces/web_auth.py`, `persistence/web_session.py`, `persistence/local_admin.py`) | sessions, single-use states, the credential | start and complete a login, rotate, log out, change the password | states used once; a session stored before a password change does not outlive it |
| Web routes (`interfaces/web_app.py`) | none | gates | page, calls and services admit the same people |
| Integration configuration (`application/integration_config_service.py`) | three files, load receipts, test results, OAuth tests, audit pairs | save, clear, create, update, delete, probe, OAuth test | no lost update, a true page and a true audit, secrets kept |
| Processes and settings (`interfaces/local_stack.py`, `config.py`) | what a process has assembled | load settings, open, assemble, record, serve, release | release holds no provider; what was opened is released |
| Roll-out commands (`interfaces/integration_config_migrate.py`, `..._preflight.py`) | files, a scan | migrate, probe, scan | killed and run again, nothing is lost |
| Provider adapters, rendering, CLI and API, schema migrations | | I/O and formatting | not modelled |

How they interact: every write of a worker is a store transaction that locks the
task row and re-checks the attempt's *grant* (lease owner, unexpired lease,
fencing token, attempt number). Between two transactions a coroutine awaits the
store, a model, a tool or the provider, and everything it read before may be
stale. The projection never writes the task; it reads its row and renders it. A
request of the Web authenticates in one transaction and acts in another. The
configuration service writes a file and an audit that no transaction joins, and
the services read the file only when they start.

What is hard: takeovers by lease expiry under skewed clocks, zombies that go on
with an old token, crashes between any two transactions, lost answers followed
by retries, a task that moves while it is being shown, threads that a timeout
does not stop, rounds of the worker that overlap, sessions whose owner has lost
the role, documents replaced under a test, and two implementations of every
store that the tests take for one. `PROJECT.json` lists these hazards, each at
its line, with the properties that would catch it.

## 2. Modules

| Module | Models | Used by |
|---|---|---|
| `TaskStates` | the status sets and `ALLOWED_TRANSITIONS` | all task modules |
| `TaskContract` | abstract: what a task promises to whoever watches it | `TaskStore` (refinement), `TaskJourney` |
| `TaskStore` | every operation on an existing task, as PostgreSQL does it | `GrantedFacts`, `InMemoryTaskStore`, `TaskStoreProofs` |
| `InMemoryTaskStore` | the same operations as `persistence/fake.py` does them, and both scans | `MCTaskStore` |
| `GrantedFacts` | accepted interaction, advisory, clarification record | `TaskExecution` |
| `TaskExecution` | attempts: worker, runtime, runner, heartbeat over the store | `MCTaskExecution` |
| `ChannelProjection` | projection subscription, service, provider | `TaskJourney`, `MCChannelProjection`, proofs |
| `TaskJourney` | composition: a task that keeps `TaskContract` beside the projection that shows it | `MCTaskJourney`, proofs |
| `ChannelSubmission` | from a channel event or web request to a bound task; answers to questions; SQL retention | `InMemorySubmission`, proofs |
| `InMemorySubmission` | the in-memory task and channel stores under a submission | `MCChannelSubmission` |
| `ConfigDocuments` | the three configuration documents and the functions on them | `IntegrationConfig` |
| `IntegrationConfig` | the configuration service, files, audit, receipts, tests, restarts | `MCConfiguration` |
| `Rollout` | migration of the legacy file, the two preflights | `MCConfiguration` |
| `Processes` | settings, assembly and life of the five processes | `MCConfiguration` |
| `IdentityDirectory` | the commands of the user directory, as functions on it | `WebRoutes`, `WebAccess` |
| `WebRoutes` | who a session stands for, gates, routes | `WebAccess` |
| `WebAccess` | logins, sessions, activation, administration, password, migration, maintenance | `InMemoryDirectory` |
| `InMemoryDirectory` | the in-memory directory, activation, state and credential stores | `MCAccess` |
| `TaskAccess` | the readers of tasks | `MCAccess` |
| `WorkerRounds` | the scheduling loop of one worker process | `MCWorkers` |
| `StepAdmission` | policy, profiles, `admit_step`, certificates | `ToolInvocation` |
| `ToolInvocation` | gateway and StarRocks adapter | `MCWorkers` |
| `SqlTokens`, `ReadonlyGuard`, `ReadonlyStatements`, `SqlMessages` | scanner, proof of read-only, list of statements, recognition of SQL | `GuardInputs` |
| `SlowQuery`, `AlertEvidence` | the two capabilities from parameters to plan, guard, evidence and verdict | `PlanInputs` |
| `PlanInputs` | a request, a conversation or an answer, with what a plan owes it | `GuardInputs`, `WorkerProofs` |
| `GuardInputs` | all small inputs of the pure functions, as initial states | `MCWorkers` |
| `TaskStoreProofs`, `ExecutionProofs` | theorems about `TaskStore`, `InMemoryTaskStore` and `TaskExecution` | |
| `ChannelProjectionProofs`, `ChannelSubmissionProofs` | theorems about the two channel modules, the composition `TaskJourney` and the stores in memory under a submission | |
| `ConfigProofs` | theorems about `IntegrationConfig`, `Rollout` and `Processes` | |
| `AccessProofs`, `DirectoryProofs` | theorems about `WebAccess` and `TaskAccess`, and about `InMemoryDirectory` | |
| `WorkerProofs` | theorems about `WorkerRounds`, `ToolInvocation` and the plans of `PlanInputs` | |

The properties a run checks are conjunctions of named parts, one per hazard
(`RowsAreSound` is `TypeOK`, `RecordDecodes`, `FailureBudget`, `CleanStart` and
`AuditMatchesVersion`); the parts are defined and explained where they stand.

### TaskStore

One action per operation of the store; the guard is the decision function of
`persistence/decisions.py` in its rejection order, the effect is the `UPDATE`.
A refused call changes nothing and is a stuttering step. The callers are left
entirely free: a *client* is any coroutine that ever got a grant, keeps it as
long as it likes and may call anything with it, with any version it may have
read, at any reading of a clock that is off by at most `Skew`. So everything
shown of this module holds for any worker program.

Deadlines are relative: `Tick` brings all of them one closer, and a caller whose
clock is `now` ahead of true time compares them with `now`. This keeps the state
space finite without bounding time.

### TaskContract

What is left of a task when leases, tokens and workers are taken away: status,
version, results, the failure count, whether the plan is stored and whether the
end is *bare*, that is, one that is shown without a plan (`BareStatuses`). A status
never changes without the version. The plan does: `PlanStore.save` takes no grant
and bumps nothing, so `StorePlan` may come at any time, after the end too.
`TaskStore` maps to it by `INSTANCE ... WITH`.

### GrantedFacts and TaskExecution

`TaskExecution` adds a program counter and the local variables of each attempt.
One action is one call across a process boundary (store, model, gateway); what
lies between two calls runs without suspension in the code and is part of the
action before or after it. `Raise` is an exception that execute_task does not
know, `Abandon` a crash, cancellation or lost connection, `Heartbeat` the
renewal task beside the attempt, `TimePasses` the clock. A fatal error is a
program counter of its own: `stopped_holder` if the attempt still owned the task
and `stopped_loser` if not.

The plan shapes of the run are those of the code: list-then-count-if-empty (the
slow-query capability), a step that needs an approval, and a refused step.

### ChannelProjection

A worker is one `_process_due` coroutine: `ListDue`, `Claim`, `Resolve`,
`GetTask`, then `ScheduleTaskRecheck` or `StableCard`, `RenewProjectionClaim`,
`CheckClaim`, `Deliver`, and `RecordDelivery` or `RecordProviderFailure`. Each
mutation re-checks the claim (owner, token, expiry, state). The provider keeps
a card per message; a call may be carried out although it reports a failure.

A task may end without a view: `project_task` raises for a terminal task that has
neither a plan nor a bare end. In `TaskExecution` the operator `Renders` derives
this, and `RuntimeEndsRender` shows that the runtime itself never ends a task that
way (the store does, see Findings). A zombie may still store the plan afterwards
(`PlanStored`), between two readings of the projection and under an unchanged
version. `project_task` looks for the plan twice, so one version has up to three
payloads; the *form* of a card says how many of the two lookups found it. The
reference under which the provider keeps a new card covers version and payload,
hence a message is a version with a form.

A fencing token is compared only for equality, so the sequence is a finite set
from which a claim draws a value nobody holds any more.

### TaskJourney

The row the projection reads, `record`, is the version, plan and end of a task
that moves by `TaskContract`, and its own variables are the rest of that task. A
step is one of the task or one of the projection; neither writes what is the
other's. So the module asks of the projection what it asks of the task: that its
`TaskMoves` and `PlanStored` are all that can happen to a row (`FollowsTheTask`),
and of the two together that a completed subscription is the truth for good
(`ToldOnce`).

### ChannelSubmission

A *slot* is a stream of deliveries of one message; its handler claims the source
(`ClaimSourceEvent`), creates the task (`SubmitTask`, `SubmitSqlQuery` or
`SubmitClarificationChild`), looks for the private chat of a web user
(`FindPrivateChatRef`) and binds (`BindTask`). Each is one transaction or read of
the code; `Abort` ends a handler between any two (a crash, the callback timeout,
a client that hangs up). Slots with the same source are two listener processes
with one event, or a client that reuses its key. `TaskEnds` is the worker, which
may end a task before it is bound, and `PlanComes` the late plan that gives such a
task a view after all. The source digest covers channel, actor and
key, so it is one constant per source; a task is named by its idempotency scope,
which the tasks table keeps unique. The three reads of
`require_web_parent_access` are one action: status, submission and binding of an
asked question never change again. The clock of a process is `Ahead` of `now`.
Length limits refuse a message before anything is written and are left out; a
Feishu event is cut to 8192 characters by its contract and never meets them.

### The in-memory stores

Nearly all tests of the repository run against `persistence/fake.py`. Its
methods are modelled from their own code, in their own branch order, over the
variables of the PostgreSQL model. In `task_store` either implementation may take
any step, and `StoresAgree` says that each step of one is a step of the same
operation of the other, and that the dispatch and stale-lease predicates written
in SQL select exactly what the shared Python decisions would.
`SubmissionStoresAgree` says the same of a submission. For the directory there is
no transaction in memory: `apply` writes table after table and puts a snapshot
back after an error, so `InMemoryDirectory` runs each command with an error in
flight (`raised`), and `AccessStoresAgree` compares answers, tables and audit of
each step.

### ConfigDocuments and IntegrationConfig

A handler is one call of the service: STARTED is appended, the lock taken (writers
only), the file read, the next document computed by the functions of
`ConfigDocuments`, written, and the terminal event appended. Each await is an
action and may fail. The file has two values, the visible one and the durable
one: `os.replace` changes the first, the fsync of the directory the second, and
`PowerLoss` goes back. Services read their files in `Restart` and write a receipt;
a test writes its verdict under the generation it read. The OAuth test is two
requests with a browser between them. A file may become unreadable.

### Rollout and Processes

`Rollout` has one action per file or database operation of the three commands;
`Crash` kills one anywhere, and `SaveDomain`, `ReplaceLegacy`, `ChangeEnvironment`
and `TaskMoves` are what others do meanwhile; `LatePlan` is an attempt that lost its
task and still stores its plan (`PlanStore.save` looks at neither lease nor status),
so also a task that has ended may come to have one. The ghost `late` of a preflight
keeps those that arrived behind its scan. It is assumed that consumers are
stopped while the migration runs, as its procedure demands, and that nobody
replaces the legacy file between its last comparison and its removal.
`Processes` starts one of the five processes with any settings its validators
accept and any outcome of each step; `parts` is what the builder of the process
has put together.

### IdentityDirectory, WebRoutes and WebAccess

`IdentityDirectory` is the transaction of `PostgresUserDirectoryStore.apply`: each
command is a function from a directory to a directory or a refusal, and the audit
effect comes with it. As in `derive_audit`, the event of a decision names its
activation request and no account, the events of all other commands name the
account. `told` keeps what the events say, by what they name: of an account
(`user`), of a request (`activation`); `unbound` holds the accounts whose unbinding
is an event, and `forgotten` the roles of approvals whose request has been purged,
so that nobody can say any more whom they were for. `WebAccess` has the handlers:
OAuth login (state, exchange, activation or session), the local administrator
(login in two transactions, change of password with rotation of all local
sessions), decisions and managed changes (gate in one transaction, command in
another), the migration of static identities, the bootstrap of the Web process and
maintenance commands. A handler has read its session long before its command
commits. A local login verifies its password in one step and stores its session in
a later one: a session carries the password it was opened with (`version`) and the
one in force when it was stored (`stored`), which differ if the password was
changed in between. `WebRoutes` keeps for every route the gate and the service's
own check, so that `GatesAgree` can ask whether where a login returns to opens for
that session.

### TaskAccess

Each read of a store is a step. A task draws its creation number before its
transaction commits and is bound by a later one, so the pages of a walk meet
tasks that appear behind the cursor. A page is the set of its rows: creation
numbers give it the order the query asks for, the top `limit` rows are `Newest`
and the cursor is the `Lowest` of them. `get_task` reads the record, then the plan
through `project_task`, which raises for an end it cannot explain (`plan_not_found`),
then the record again, and shows only what one version held together.

### WorkerRounds

The loop of `WorkerLoop._run`, with rounds, slots, attempts that end well, badly
or fatally, the dirty flags and the failure window, back-off, stop and drain. Two
ghosts, `outage` and `fresh`, say how long no whole round has succeeded, in terms
of what happened and not of the flags. Seconds are ticks; ages are kept up to
the window. The number of consecutive failures is kept as the back-off it stands
for, which doubles up to its cap.

### StepAdmission and ToolInvocation

Admission is a function of a proposal: the checks in their order, ending in a
certificate. The caller of the gateway may present any certificate it got with
any call and context. `invoke` checks it against the binding and hands the call
to a thread of a pool of `PoolSize`; `TimesOut` answers the caller and leaves the
thread running. The five probes of the preflight and the query are one step each,
and the server may drift between them.

### The guards

`GuardInputs` makes every small input of a pure function an initial state without
successors, and the invariant compares the function with a reference definition:
the scanner with the places where a server ends a statement, the visible common
table expressions with the scope rule, the matcher of the statement list with the
sentences its patterns generate, the count with the list by the rows both select,
the guards by refusing every edit of what the compiler made, the verdict by the
evidence it needs. The SQL parser is external: a statement is the tree it
reports. `PlanInputs` is the part without recursion, the two capabilities; it
stands alone so that it can be proved for every input.

## 3. Runs

| Run | Distinct states | Shows |
|---|---|---|
| `task_store` | 96,000 | two clients, clocks off by one, two steps, one failure allowed, three tokens, three versions, either store: fencing, budgets, decodable rows, one audit row per version, append-only history, `TaskContract` implemented, the stores agree |
| `task_execution` | 551,000 | two workers with different clocks, one crash, one missed heartbeat, every route, all plan shapes: no drift, no fail-stop of the owner, charged calls, backed answers, approvals and clarifications, views of every ending of the runtime, reflections accounted for |
| `task_execution_live` | 298,000 | `Settles`; and every step of a worker is a step of `TaskStore` (`ImplementsStore`) |
| `channel_projection` | 508,000 | two workers with agreeing clocks, one crash or one stall, an initial card and the end, a plan that comes at any time: at most one coroutine delivers while claims last, every extra message has a cause, what was shown as final stays, and a terminal task that can be rendered is shown or its row is a dead letter (`NotificationSettles`) |
| `task_journey` | 852,000 | a task of the contract with one step and one charged failure, three versions, two workers of which one has a fast clock: it is a task the projection is written for, and a completed row is final |
| `channel_submission` | 489,000 | two processes with one private message, a web key used for a question and for SQL, one abort, all permissions: one task per source, bindable, one destination, no conflicting redelivery, the stores agree |
| `submission_events` | 19,000 | `EventsReachTheirTask` for a private message delivered twice and SQL from a group |
| `clarification` | 1,262,000 | a SQL task asks for its target; an answer comes twice with different clocks, another answer and another user compete, the question is asked again |
| `configuration` | 1,194,000 | three calls at a time on the provider documents or on the resources, on a fresh and a configured deployment, one failing call, one restart, one unreadable file; the roll-out with one kill and two edits; five processes with all settings |
| `access` | 636,000 | two handlers, two sessions, two subjects, one maintenance command, on an upgraded and a fresh installation; a walk over three tasks and the detail of one |
| `workers` | 181,000 | two attempts and a window of three ticks; two tool calls, one thread, one drift; all inputs of the guards |
| `final_state` | | a violation, see Findings |

`configuration`, `access` and `workers` hold several systems that do not share
state. A variable `focus`, chosen at the start, says which of them moves; the
others rest in one initial state, so the run is the sum of its parts and not
their product. Provider documents and resources share nothing but the lock of the
service, and are edited in separate behaviours.

Why the bounds are enough: every conflict in the code is between the holder of a
token and one other party, so two clients reach it; three tokens allow a grant,
a retry (which draws a token for nobody) and a takeover; one allowed failure
reaches both the retry and the exhaustion; a lease of one tick is live, expires,
and is seen as expired by one clock and live by the other, and the lease of two
ticks in the execution runs is also renewed; two tool calls
reach the budget; six versions are the longest path plus a retry. For the
projection, two versions are an initial card and the end, three (`task_journey`)
a change between them; agreeing clocks are what `DeliveriesAreAccountedFor`
needs, skewed ones are in `task_journey`; one fault is a crash or a stall anywhere; two
provider attempts reach both the retry and the dead letter. For the submission,
two slots per source give every race of two deliveries, and one abort every place
where a delivery can stop; an expiry of one tick and clocks one tick apart reach
both the expired answer and the slow clock after the fast one. For the
configuration, three calls let a save fall between a credentials test and an
OAuth test of the same document. For the access, two handlers are a decision or a
login and whatever undermines it; two passwords are one change; three tasks and a
page of one give a walk with a task committed late. A walk looks at no versions
and no plans, so the tasks of that part keep theirs, and the detail at a status of
each sort (`MCStatuses`: one that goes on, one that needs a plan, one that waits for
an answer). For the rounds, two attempts
can belong to two rounds; a window of three ticks is longer than the longest
back-off, as the settings demand. Bounds (`MaxToken`, `MaxVersion`,
`MaxApprovals`, `MaxAbandons`, `MaxStalls`, `MaxFaults`, `MaxNow`, `MaxAborts`,
`MaxRestarts`, `MaxOutages`, `MaxCrashes`, `MaxEdits`, `MaxTasks`, `MaxChanges`,
`MaxCalls`, `MaxUpkeep`, `MaxServed`, `MaxPasswords`, `MaxDrift`) are conjuncts of
guards, and the theorems do not depend on their values. `access` uses the symmetry
of handlers, cookies and request ids, which nothing tells apart; its temporal
properties are all action properties.

In the runs of tasks and channels `Tick` stays enabled, and a message may always be
delivered once more, so the deadlock check is on. In `configuration`, `access` and
`workers` it is off: a process that has ended, an input that was looked at and a
deployment whose bounded requests were served have nothing more to do.

### Fairness

Liveness is claimed under weak fairness of: each coroutine's next step (the event
loop runs what is ready), dispatch and listing (the poll loops never end), `Restart`
(the supervisor), and the passage of time. Nothing is assumed about a worker
raising, crashing, missing a heartbeat, a provider answering, or the task moving.
Crashes and stalls are bounded in number, not in place. `Settles` counts
AWAITING_APPROVAL as an end: nothing in the application resumes it.
`EventsReachTheirTask` assumes that the provider delivers an event again until it is
acknowledged (`run_forever` leaves application errors to the SDK's retry) and that a
started handler runs on; a task that ended without a view before it was bound, and
never got one, is its exception. `OutageEndsTheWorker` (`RoundsFairness`) assumes
that the loop runs, that time passes and that a started attempt ends: each of its
awaits has a timeout or its lease is lost. Nothing is assumed about the database
coming back or a stop being requested.

## 4. Findings

* `final_state`: attempts that fail before planning end in FAILED with
  `retry_exhausted`, written by `begin_task_attempt` itself; `project_recorded`
  raises for such a task, because it has no plan. The projection worker does not
  catch that error. It stops, its claim runs out, and the next worker stops at
  the same row, so the notice the plan document promises never comes and the row
  never becomes a dead letter.

Six observations without a run of their own. An attempt that waits for its model
while another ends the task is refused with `ModelArtifactStateError`, which
`execute_task` makes a `LifecycleError` without a rejection: the loser stops its
worker process (`stopped_loser`). A service that starts with an unreadable
configuration file leaves the receipt of its previous life. An activation request
that began in a group has no return intent, so `resume_web` refuses it to its own
subject after a web login reused it. Receipts that cannot be recorded leave the
engine of a worker, listener or channel worker to the end of the process
(`EngineFollowsProcess` names this exception). A local login that verified the old
password just before a change stores its session just after the change has revoked
all: `LocalAdminAuthService.login` hands `rotate_session` no version of the
credential, so that session lives on under the new password; `OldSessionsEnd` says
how far this goes. The audit event of an approval names the digest of its request,
so once the request is purged no event says which account it created or gave its
role (`told.forgotten`).

Three documents are less precise than the code, without a run of their own. A
comment in `application/runtime.py` calls "exactly one REFLECTION per terminal
task" an audit invariant of the whole chain; a task that `begin_task_attempt`
fails by itself has none, and `ReflectionAccounts` states what holds. And a row
moves from WAITING_TERMINAL to DELIVERING_TERMINAL at every claim, not only when
the task ends, so that state does not tell whether it has. And
the release preflight promises that no task of the scope has a plan or evidence;
it holds of the moment each page was read, and a late plan of a lost attempt can
land on an ended task behind the scan (`PreflightOkIsTrue`).

## 5. Proofs

Eight modules hold the theorems. They speak of the specification of one component
(`Spec`, `ExeSpec`, `EitherSpec`, `JourneySpec`, `RoundsSpec`, `ToolSpec`,
`ReadSpec`, `ProcessesSpec`, `RolloutSpec`: the initial states and steps that the
runs start from and take; `PlansSpec`: every input, of which the runs take the small
ones) and hold for every number of clients, slots, steps, tasks, clock errors and
bounds that satisfies the named assumptions. TLC evaluates these for the instances
of the runs:

| Assumption | Says |
|---|---|
| `StoreAssumption`, `ExecutionAssumption`, `FactAssumption` | the types of the constants, a finite set of steps and workers, absent values apart from present ones, plans that name their steps, a condition that refers to a step |
| `ProjectionAssumption` | positive times and limits, and more tokens than workers: a claim finds one that nobody holds |
| `SubmissionAssumption` | an event comes from one chat, a user has one private chat with the bot (the provider's to keep), a parent is named on the web only |
| `DocumentAssumption`, `ConfigAssumption`, `CallAssumption` | what the routes build: a write names its document, a test the document of its check, an update never carries the absence of a secret |
| `RoundsAssumption`, `ToolAssumption` | what the validators of the settings demand: a cap of the back-off shorter than the failure window, at least one slot and one thread |
| `AccessAssumption`, `DirectoryAssumption`, `TaskAccessAssumption` | what the routes and commands carry, that the identity file is a sequence of entries, and the keys of the tables a deployment starts with |
| `RolloutAssumption`, `ServicesAssumption` | a scope may start with two tasks; services are started by name |

`DeliveriesStayAccountedFor` has one hypothesis more, `AgreeingClocks`: the clocks
of the processes may be wrong, but show the same. With clocks that differ a
process may claim what another still holds by its own clock, and what it promises
then is `SubscriptionsStaySound`, `FinalIsFinal` and `TaskIsToldOnce`, which assume
nothing of clocks.

A theorem that names a run's property (`RowsStaySound`, `SubscriptionsStaySound`,
`SourcesHaveOnePlace`, ...) often puts together one theorem for each part of it.

**TaskStoreProofs.** The inductive invariant of `StoreInvariant` is `TypeOK`
with the safety properties of the run and two strengthenings, `TokensOrdered` and
`RetryHandsOff`, grouped so that each action disturbs few of
them. `SoleHolder` alone is not inductive: that a fresh token is new needs
`TokensOrdered` (nobody holds a token above the sequence, and no two clients
share one). `FailureBudget` needs that the current attempt still has budget,
which `begin_task_attempt` establishes and the token rotation in
`schedule_retry` ends. `CleanStart` needs that a step is begun only while
RUNNING and that no transition leads back. From it follow the action properties
`TerminalFrozen` and `JournalForward` and the refinement
`StoreImplementsContract`: initial states map to initial states, and each
operation maps to `Move`, `Commit`, `Fail` or a stutter.

`ToolBudget` bounds a sum over the journal. The sum is the cardinality of a set of
attempts (`<<step, number>>`), to which an admitted step adds one element, so no
induction over the steps is needed. The agreement of the stores needs
`JournalFits`: a row without attempts says nothing, there are attempts only under a
plan, and evidence comes with its result. In such a state each operation of the
twin equals the one of PostgreSQL, branch by branch, and both scans select the
same tasks (`MemoryAgreesWithPostgres`). Hence a behaviour that switches between
the two at any step is a behaviour of the store (`EitherIsTheStore`), and what is
proved of one holds of the other.

**ExecutionProofs.** A coroutine knows what it read before its last await.
`ExeInv` says what of it is still true: `WorkerFits` for everybody, also a zombie
(the accepted draft, the stored plan and a recorded request are never taken
back), `HolderFits` only for the attempt that owns the task (status, version,
journal and evidence are what it read, because nobody else can write them),
`RowsFit` for the stored rows among each other, and `CallsCharged` for the
gateway: the calls made and the calls charged but not made yet (`Pending`)
together do not exceed the attempts of the step row. That a token starts a step
at most once (`StepInFlight`) makes the charge precise. That every step of a
worker is a step of the store or leaves it alone is proved along with it, because
the store's invariant is a part of `ExeInv`; so `WorkersImplementStore` needs no
assumption on the workers, and the store theorems hold of them. What the runs
check of a task at rest follows from `RowsFit`. `AttemptsAlwaysFit` is the
view from the attempt that owns the task, put together from `HolderFits` and
`RowsFit`: its row gives it no lifecycle error, nothing recovered has drifted, and
the plan is that of the accepted draft, although its writer may be a zombie.

**ChannelProjectionProofs.** `CompletedShowsTerminal` says nothing about the
coroutines that are going to write the row, so `ProjectionInv` adds, per worker:
what it claimed is a sending state (`ClaimIsSending`), what it read of the task
was true of a version that existed, and final if terminal (`ReadingIsTrue`), and
a coroutine that is about to record has really shown the card it records
(`RecordIsShown`); and of the cards that a terminal one belongs to a terminal
task (`CardsFollowTask`). No claim on exclusivity is needed: the results hold
even if claims run out under their coroutines, which is what the code relies on.

Who pays for which message is a second invariant, `DeliveryInv`. With agreeing
clocks at most one claim is current, and it is the row's; the other coroutines
have been overtaken and will not write (`ClaimFits`), yet may still send. The
account (`Charged`) is: the messages sent, the overtaken coroutines that may still
send a first message (`Waiting`), and one message in reserve as long as none is
recorded or about to be, are at most one more than the crashes, stalls and lost
answers. A stall pays for the coroutine it overtakes or, if that one has sent
already, returns the reserve to the next claim; a crash returns it too.

The composition is a refinement step by step: a step of the task moves the row by
`TaskMoves` or `PlanStored` or leaves it (`TaskStepOfRow`, from
`RowTellsTheStatus`: the row is terminal exactly when the status is), a step of the
projection leaves the task alone. `ProjectionFollowsTheTask` gives `JourneysAreSound`
for nothing, and `TaskIsToldOnce` joins `CompletedShowsTerminal` with the contract's
promise that nothing leads out of a terminal status. With `StoreImplementsContract`
below it and `WorkersImplementStore` below that, each link from a worker's step to
the card is proved.

**ChannelSubmissionProofs.** `OneTaskPerSource` and `CreatedIsBindable` follow
from one idea: the claim comes first and never changes. `FollowsClaim` says that
every task and every handler past its claim has the claimed kind, `HasTask` that
a handler past the creation has its task, `BindingsFit` that a binding is the one
some slot would make for an existing task; then whatever collides with a bind
equals it (`CollidingIsOwn`). `AnswersAreLegitimate` needs `AccessChecked` (what
the access check saw stays true until the insert), `SqlOutlivesAnswers` needs
`SqlExists` (no expiry is set anew under a task that relies on it). The action
property `RepeatedAnswerIsFound` follows from the invariant alone.
`OneDestination` has its own invariant: a found chat is the private chat of the
user (`ChatsFit`), a card goes to the chat of its event and a notice to that
private chat (`SubsFit`).
That a redelivery never conflicts needs that claims and tasks are what the slots
of their source would write (`ClaimsFit`, `TasksFit`); that an accepted message is
answerable needs that bindings and subscriptions are never taken back and that a
delivery still running has told nothing yet (`RunningIsOpen`). `SubmissionMeetsTheSameStores` compares each call of the twin
with the transaction: SQL is retained for its own task (`SqlIsOwned`), and the
keys that collide are the handler's own.

**ConfigProofs.** A write holds the lock from STARTED to its terminal
(`HolderWrites`), so the document it read is the one it replaces, and generations
count the documents of a domain: one generation names one document. Whatever
remembers a document by its generation (test results, receipts, OAuth states)
therefore speaks of that document (`TestsFit`, `AdapterFits`), and an audit that
says succeeded has a durable document behind it (`AuthorFits`). The action
property follows: a write merges into the very document it replaces, so a secret
goes only when it is cleared.

What a process holds is what its builder makes of loaded
settings, so the validators of `Settings` decide it. A legacy file is known by its
inode and no later one gets the inode of an earlier, so the last look of the
migration sees the document that was split; nobody else writes a domain while it
runs. The scan of the preflight leaves no unfinished task at or above its cursor
uncounted. A task that has ended stays ended, and a plan that reaches one behind the
cursor is a late one: nothing else changes what has been judged.

**WorkerProofs.** The rounds: a round is fresh exactly when it is not dirty, and
one that is dispatched has an attempt in flight (`Owned`), since whatever takes the
last one out settles it in the same step; so a settled round clears the window
exactly when it ends the outage. `FatalEndsTheProcess` is the safety half of
`FailuresEndTheWorker`: a fatal result is not lost behind a transient one or a
drain. The tool calls: whatever certificates, timeouts and drifts come between, a
call that has a thread is certified for the bound target, and how far its probes
are says what has been verified; nothing replaces its record while the thread runs.

`PlansAlwaysAskWhatWasConfirmed` is about functions, so its argument is a chain of
lemmas from the input on, and the inputs are not the small ones of the runs
(`PlanInputsAreAmongThem`): any time of a request and any threshold, filters that
are any text, any two messages of a conversation at any times, answers of any length
over as many series as a plan may ask for. A request gives parameters on whole
minutes, which is why the seconds of an SQL timestamp lose nothing; the arguments of
a step restore them; `verify_sql` admits what `compile_sql` made of them and refuses
a tree that differs in one place. For the alerts, normal form is kept by
`normalise_instance`, so what a conversation confirms is confirmed once
(`TalksAreFollowed`); the answers need that rows of different fingerprints are as
many facts (`OneFactIsOneRow`), a count without induction.

**AccessProofs.** The audit and the tables explain the directory (`Explained`). What
the last event that names an account says of its role or status, the account still
has; what no event says comes from an approval (`Given`), found through the request
and the binding of its subject, or through an unbinding or a purge after which it
can be told no better. The approval of a request adds the pair it needs; every
other step keeps the pairs that were given (`Steady`, `Kept`), although it may purge
the request, unbind the subject or bind it again, also the migration of the static
identities, which adds a batch. `Recorded` says that a decided request has its
event. Of a login, a state is spent by one handler and handed to one session. A
local session was stored under the password of now, and there is none before the
credential is linked. For those opened with an earlier one, `OldAreFew` counts them
together with the logins that may still store one: the handler that changes the
password is none of them and revokes all that are stored, so afterwards they are
fewer than the handlers, and a login that stores its session only changes sides. `AuthorityStaysCurrent` is about single steps: the command judges its author
in the transaction that commits it, however long ago the session was read.
For reading, `ReaderFits` keeps the moments of a call: a version names a status,
so a record and a plan that were read under one version were true together. For a
walk the cursor parts the tasks (`WalkInv`): those that were there when it began
and are at or above the cursor have been shown or belong to a group, those below
are still to come. A page is the top of what is below the cursor and what is
looked at of it is its top again, so nothing falls between two pages.

**DirectoryProofs.** `DirectoriesAgree` compares the two user directories. A
directory, its requests, the stages and the audit stand for one state of the
memory (`Tables`); each command of the memory, run on that state, raises what
PostgreSQL refuses with and else leaves the state that stands for what PostgreSQL
commits (`Same`), and a command that raised is put back whole (`_restore`). The
memory takes the identity file entry by entry, PostgreSQL as a batch: after `n`
entries the memory stands for the batch cut off after them, by
`CountingUp`, which finds a least counterexample among finitely many numbers and so
needs no induction theorem; the first entry refused decides both. `MemoryInv` says
what the comparison needs of the handlers: a batch under way is a part of the file,
a command past its gate has an author, a local session that is kept is live, and
finitely many OAuth states are open, so that the bound on them counts the same.

**Only model-checked.** Liveness under fairness and `ENABLED` are outside the
prover: `Settles`, `NotificationSettles`, `EventsReachTheirTask` and the half of
`FailuresEndTheWorker` that says that an outage or a stop ends the worker.
Of the safety properties one is left, `SqlIsReadAsTheServerReadsIt`: it is about a
scanner, a proof search and a matcher that are recursive; what they compute for
every text is an induction over data, and TLC compares them with their reference
definitions over all small inputs.

## 6. Not modelled

* Provider adapters (Feishu SDK, Gemini, OAuth HTTP): I/O; the modules that call
  them model any answer, a failure, or a lost answer.
* Rendering, logging, page texts, request bodies and limits: no property is about
  them.
* The CLI and the task API: thin entries over the submission and the runtime;
  `handle`, the synchronous entry, takes a dispatch grant and a heartbeat as a worker
  does and runs the same runner under it; it is one more client of `TaskStore` and
  has no model of its own.
* Schema migrations and the smoke test of a composed deployment.
* The asset inventory and the confirmed read-only query as capabilities: they
  compile like the two that are modelled; the guard of the second is.
* `load_sql_for_execution`, which has no caller in the application; nothing
  purges retained SQL, so neither is an action.
* The projection claims, the provider state and the listings of the in-memory
  twin.

## 7. Plan

1. The projection claims of the in-memory twin, compared like the other stores.
2. Submission before the journey: the binding and the subscription that
   `TaskJourney` starts with, as the outcome of `ChannelSubmission`.
3. The two capabilities that are not modelled, beside the two of `PlanInputs`.
