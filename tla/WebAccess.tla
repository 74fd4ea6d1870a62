------------------------------ MODULE WebAccess ------------------------------
(***************************************************************************)
(* Signing in and administering users: the user directory and its audit,   *)
(* the activation requests, the OAuth states and the Web sessions, with the*)
(* handlers of the Web application, the group listener and the one-off     *)
(* migration that share them.                                              *)
(*                                                                         *)
(* A handler is one request; each of its actions is one transaction or one *)
(* provider call.  The reads of one authentication are one step: what they *)
(* find is checked again, or is stale, in the step that uses it.           *)
(*                                                                         *)
(* Abstractions.  A session that ended and a state that closed make room   *)
(* for new ones.  The origin and CSRF checks depend on the request alone.  *)
(* A request refused before its first write leaves nothing and is no step. *)
(* The two domains of OAuth states are the state's kind; what a connection *)
(* test does after its state is consumed is module IntegrationConfig.      *)
(***************************************************************************)
EXTENDS WebRoutes, FiniteSets

CONSTANTS
    Ops,                \* requests that are handled at the same time
    Cookies,            \* Web sessions that exist at the same time
    States,             \* OAuth states that exist at the same time
    Subjects,           \* Feishu subjects
    Requests,           \* activation request ids
    Intents,            \* what the links people follow ask for
    Commands,           \* what administrators may ask for
    Upkeep,             \* commands that maintenance scripts may apply
    LegacyDocument,     \* the entries of the static identity file
    Directories,        \* the directories a deployment may start with
    MAX_PENDING_ACTIVATIONS, OAuthCapacity,
    MaxUpkeep,          \* bound on maintenance commands
    MaxServed,          \* bound on the requests that are handled
    MaxPasswords        \* bound on password changes

ASSUME AccessAssumption ==
    /\ MAX_PENDING_ACTIVATIONS \in Nat \ {0} /\ OAuthCapacity \in Nat \ {0}
    /\ MaxUpkeep \in Nat /\ MaxServed \in Nat /\ MaxPasswords \in Nat
    /\ Intents \subseteq ReturnIntent
    /\ IsFiniteSet(Requests) /\ IsFiniteSet(Cookies) /\ IsFiniteSet(Ops) /\ Ops # {}
    /\ \A c \in Commands :
           /\ c.kind \in {"approve", "reject", "set_status", "change_role"}
           /\ c.kind \in {"approve", "change_role"} => c.role \in Assignable
           /\ c.kind = "set_status" => c.status \in UserStatus
    /\ \A c \in Upkeep :
           /\ c.kind \in {"create_user", "set_status", "assign_role", "revoke_role", "bind",
                          "unbind"}
           /\ c.kind \in {"create_user", "assign_role"} => c.role \in ProductRole
           /\ c.kind = "set_status" => c.status \in UserStatus
    /\ LegacyDocument \in Seq({LegacyDocument[i] : i \in DOMAIN LegacyDocument})
    /\ \A i \in DOMAIN LegacyDocument : LegacyDocument[i].role \in ProductRole

\* What the tables and their keys guarantee of a directory: a role and a binding have an
\* account, and an account has at most one of each.
DirectoryFits(d) ==
    /\ DOMAIN d = {"account", "role", "bound", "credential"}
    /\ \A u \in DOMAIN d.account : /\ DOMAIN d.account[u] = {"actor", "display", "status"}
                                   /\ d.account[u].status \in UserStatus
    /\ \A u \in DOMAIN d.role : d.role[u] \in ProductRole /\ u \in DOMAIN d.account
    /\ \A s \in DOMAIN d.bound : d.bound[s] \in DOMAIN d.account
    /\ \A s, x \in DOMAIN d.bound : d.bound[s] = d.bound[x] => s = x
    /\ d.credential \in [seeded : BOOLEAN, linked : BOOLEAN, version : Nat,
                         must_change : BOOLEAN]
ASSUME DirectoryAssumption == \A d \in Directories : DirectoryFits(d)

VARIABLES
    dir,        \* user_accounts, user_role_assignments, external_identities, local_admins
    told,       \* what the audit's events say of accounts and of activation requests
    stages,     \* the batches whose audit stage is taken
    requests,   \* activation_requests
    states,     \* web_oauth_states with their login or test context
    sessions,   \* web_sessions, with the passwords of the local ones (a ghost)
    op,         \* the handlers
    served, upkeep

vars == <<dir, told, stages, requests, states, sessions, op, served, upkeep>>
identityVars == <<dir, told, stages>>

\* `link': a browser was sent to the status page of the request; `role' is approved_role.
NoRequest == [status |-> Nothing, subject |-> Nothing, intent |-> Nothing, age |-> "fresh",
              role |-> Nothing, link |-> FALSE]
NoState == [kind |-> Nothing, intent |-> Nothing, request |-> Nothing, phase |-> Nothing]
\* Ghosts of a local session: `version' is the password it was opened with, `stored' the
\* one that was in force when its row was inserted.
NoSession == [source |-> Nothing, subject |-> Nothing, live |-> FALSE, version |-> 0,
              stored |-> 0, state |-> Nothing]
NoPrincipal == [user |-> LOCAL_ADMIN_USER_ID, actor |-> Nothing, source |-> Nothing,
                role |-> Nothing, must_change |-> FALSE]
Idle == [pc |-> "idle", state |-> Nothing, cookie |-> Nothing, intent |-> Nothing,
         request |-> Nothing, subject |-> Nothing, version |-> 0,
         actor |-> NoPrincipal, command |-> [kind |-> Nothing], batch |-> <<>>]

\* What the audit says of a directory that existed before: exactly what it holds.
ToldOf(d) ==
    [user |-> [u \in DOMAIN d.account |-> Effect(RoleOf(d, u), d.account[u].status)],
     unbound |-> {}, activation |-> <<>>, forgotten |-> {}]

Init ==
    /\ dir \in Directories
    /\ told = ToldOf(dir) /\ stages = {}
    /\ requests = [r \in Requests |-> NoRequest]
    /\ states = [t \in States |-> NoState]
    /\ sessions = [c \in Cookies |-> NoSession]
    /\ op = [o \in Ops |-> Idle]
    /\ served = 0 /\ upkeep = 0

At(o, pc) == op[o].pc = pc
\* A handler begins with a request.
Begin(o) == At(o, "idle") /\ served < MaxServed /\ served' = served + 1
End(o) == op' = [op EXCEPT ![o] = Idle]

\* serve_web listens only after seed_if_absent.
Serving == dir.credential.linked

\* One committed command: the directory, and the event of its target.
Commit(d, target, command) ==
    /\ dir' = d
    /\ told' = derive_audit(told, target, command)

-----------------------------------------------------------------------------
\* Activation requests.

Pending(rs) == {r \in Requests : rs[r].status = "PENDING"}
\* Requests whose time is up become EXPIRED; both transactions begin with this.
Reaped(rs) ==
    [r \in Requests |-> IF rs[r].status = "PENDING" /\ rs[r].age # "fresh"
                        THEN [rs[r] EXCEPT !.status = "EXPIRED", !.age = "fresh"] ELSE rs[r]]

\* Ids are never used twice: one that a purge freed stands for a new one only when nothing
\* names it any more.
FreshId(r) ==
    /\ requests[r].status = Nothing
    /\ \A o \in Ops : op[o].request # r
    /\ \A t \in States : states[t].request # r

\* create_or_reuse: the capacity is checked before the subject's own request is found.
create_or_reuse(subject, intent, r, web) ==
    LET reaped == Reaped(requests)
        mine == {x \in Pending(reaped) : reaped[x].subject = subject} IN
    /\ Cardinality(Pending(reaped)) < MAX_PENDING_ACTIVATIONS
    /\ IF mine # {} THEN r \in mine /\ requests' = [reaped EXCEPT ![r].link = @ \/ web]
       ELSE /\ FreshId(r)
            /\ requests' = [reaped EXCEPT ![r] =
                   [status |-> "PENDING", subject |-> subject, intent |-> intent, age |-> "fresh",
                    role |-> Nothing, link |-> web]]

\* ActivationCapacityError rolls the reaping back.
AtCapacity == Cardinality(Pending(Reaped(requests))) >= MAX_PENDING_ACTIVATIONS

\* The group listener: only a subject nobody bound gets a request.
request_group(subject, r) ==
    /\ resolve_by_subject(dir, subject) = "unknown"
    /\ create_or_reuse(subject, Nothing, r, FALSE)
    /\ UNCHANGED <<identityVars, states, sessions, op, served, upkeep>>

\* `old': the requests that ended before the retention cutoff.  The audit keeps their
\* events, and with them nothing that a request could be found by.
purge_expired_terminal(old) ==
    LET reaped == Reaped(requests) IN
    /\ \A r \in old : reaped[r].status \in {"APPROVED", "REJECTED", "EXPIRED"}
    /\ requests' = [r \in Requests |-> IF r \in old THEN NoRequest ELSE reaped[r]]
    /\ told' = Anonymous(told, old)
    /\ UNCHANGED <<dir, stages, states, sessions, op, served, upkeep>>

\* The clock passes the expiry of a request.
RequestLapses(r) ==
    /\ requests[r].status = "PENDING" /\ requests[r].age = "fresh"
    /\ requests' = [requests EXCEPT ![r].age = "lapsed"]
    /\ UNCHANGED <<identityVars, states, sessions, op, served, upkeep>>

-----------------------------------------------------------------------------
\* OAuth states and sessions.

Closed(state) == [state EXCEPT !.intent = Nothing, !.request = Nothing, !.phase = "closed"]
Open == {t \in States : states[t].phase = "open"}
\* _issue_oauth_state_locked: open states are counted.  A consumed, an expired and a
\* deleted row are the same to every reader: they are closed.
Issue(t, state) ==
    /\ Serving /\ states[t].phase # "open"
    /\ \A o \in Ops : op[o].state # t
    /\ \A c \in Cookies : sessions[c].state # t
    /\ Cardinality(Open) < OAuthCapacity
    /\ states' = [states EXCEPT ![t] = state]
    /\ UNCHANGED <<identityVars, requests, sessions, op, served, upkeep>>

start_login(t, intent) ==
    /\ intent # "activation_status"
    /\ Issue(t, [kind |-> "login", intent |-> intent, request |-> Nothing, phase |-> "open"])

\* The link of a pending request brings its applicant back.
start_login_status(t, r) ==
    /\ "activation_status" \in Intents
    /\ requests[r].link
    /\ Issue(t, [kind |-> "login", intent |-> "activation_status", request |-> r,
                 phase |-> "open"])

start_connection_test(t) ==
    Issue(t, [kind |-> "test", intent |-> Nothing, request |-> Nothing, phase |-> "open"])

StateExpires(t) ==
    /\ states[t].phase = "open"
    /\ states' = [states EXCEPT ![t] = Closed(states[t])]
    /\ UNCHANGED <<identityVars, requests, sessions, op, served, upkeep>>

\* rotate_session: the new session replaces the one the browser sent.
rotate_session(c, previous, session) ==
    /\ ~sessions[c].live
    /\ sessions' = [x \in Cookies |->
           IF x = c THEN session ELSE IF x = previous THEN NoSession ELSE sessions[x]]

\* The principal a live session stands for now; `must_change' binds local sessions only.
Authenticates(c) ==
    /\ sessions[c].live
    /\ \/ sessions[c].source = "LOCAL_ADMIN"
       \/ resolve_by_subject(dir, sessions[c].subject) = "resolved"
PrincipalOf(c) ==
    IF sessions[c].source = "LOCAL_ADMIN"
    THEN [user |-> LOCAL_ADMIN_USER_ID, actor |-> LOCAL_ADMIN_ACTOR, source |-> "LOCAL_ADMIN",
          role |-> "ADMIN", must_change |-> dir.credential.must_change]
    ELSE LET u == dir.bound[sessions[c].subject] IN
         [user |-> u, actor |-> dir.account[u].actor, source |-> "FEISHU",
          role |-> dir.role[u], must_change |-> FALSE]

logout(c) ==
    /\ Authenticates(c)
    /\ sessions' = [sessions EXCEPT ![c] = NoSession]
    /\ UNCHANGED <<identityVars, requests, states, op, served, upkeep>>

SessionExpires(c) ==
    /\ sessions[c].live
    /\ sessions' = [sessions EXCEPT ![c] = NoSession]
    /\ UNCHANGED <<identityVars, requests, states, op, served, upkeep>>

-----------------------------------------------------------------------------
\* Signing in with Feishu.

\* The state is consumed in one transaction.  The provider's answer to the code, the subject
\* who signed in, reads nothing of this and is taken with it (no answer: Unavailable).
consume_oauth_login_state(o, t, subject) ==
    /\ Begin(o) /\ states[t].kind = "login" /\ states[t].phase = "open"
    /\ states' = [states EXCEPT ![t] = Closed(states[t])]
    /\ op' = [op EXCEPT ![o].pc = "exchanged", ![o].state = t, ![o].intent = states[t].intent,
                        ![o].request = states[t].request, ![o].subject = subject]
    /\ UNCHANGED <<identityVars, requests, sessions, upkeep>>

\* The callback falls back to the domain of connection tests, which issues no session;
\* a state that neither domain knows is refused.
consume_oauth_test_state(o, t) ==
    /\ Begin(o) /\ states[t].kind = "test" /\ states[t].phase = "open"
    /\ states' = [states EXCEPT ![t] = Closed(states[t])]
    /\ End(o)
    /\ UNCHANGED <<identityVars, requests, sessions, upkeep>>

\* resume_web: only the Web request of this very subject is resumed.
resume_web(o) ==
    LET r == requests[op[o].request] IN
    /\ At(o, "exchanged") /\ op[o].intent = "activation_status"
    /\ IF \/ r.status \in {Nothing, "PENDING"} \/ r.intent = Nothing
          \/ r.subject # op[o].subject
       THEN End(o)
       ELSE op' = [op EXCEPT ![o].intent = r.intent, ![o].request = Nothing,
                             ![o].pc = IF r.status = "APPROVED" THEN "exchanged" ELSE "unknown"]
    /\ UNCHANGED <<identityVars, requests, states, sessions, served, upkeep>>

resolve_for_web(o) ==
    LET facts == resolve_by_subject(dir, op[o].subject) IN
    /\ At(o, "exchanged") /\ op[o].intent # "activation_status"
    /\ CASE facts = "unknown" -> op' = [op EXCEPT ![o].pc = "unknown"]
         [] facts = "resolved" /\ web_return_intent_allowed("FEISHU",
                dir.role[dir.bound[op[o].subject]], op[o].intent) ->
                op' = [op EXCEPT ![o].pc = "resolved", ![o].intent = Nothing]
         [] OTHER -> End(o)
    /\ UNCHANGED <<identityVars, requests, states, sessions, served, upkeep>>

request_web(o, r) ==
    /\ At(o, "unknown")
    /\ \/ create_or_reuse(op[o].subject, op[o].intent, r, TRUE)
       \/ AtCapacity /\ UNCHANGED requests
    /\ End(o)
    /\ UNCHANGED <<identityVars, states, sessions, served, upkeep>>

complete_login(o, c, previous) ==
    /\ At(o, "resolved")
    /\ rotate_session(c, previous, [source |-> "FEISHU", subject |-> op[o].subject,
                                    live |-> TRUE, version |-> 0, stored |-> 0,
                                    state |-> op[o].state])
    /\ End(o)
    /\ UNCHANGED <<identityVars, requests, states, served, upkeep>>

-----------------------------------------------------------------------------
\* The local administrator.

\* A local session, opened with one password and stored under another.
LocalSession(version, stored) ==
    [source |-> "LOCAL_ADMIN", subject |-> Nothing, live |-> TRUE, version |-> version,
     stored |-> stored, state |-> Nothing]

\* login, up to the verified password; wrong ones change nothing.
login(o) ==
    /\ Begin(o) /\ Serving
    /\ op' = [op EXCEPT ![o].pc = "verified", ![o].version = dir.credential.version]
    /\ UNCHANGED <<identityVars, requests, states, sessions, upkeep>>

\* The session of a verified login is stored later, whatever the password is by then.
login_session(o, c, previous) ==
    /\ At(o, "verified")
    /\ rotate_session(c, previous, LocalSession(op[o].version, dir.credential.version))
    /\ End(o)
    /\ UNCHANGED <<identityVars, requests, states, served, upkeep>>

\* change_password, up to the verified current password.
change_password_verify(o, c) ==
    /\ Begin(o) /\ Authenticates(c) /\ change_password(PrincipalOf(c)).admits
    /\ dir.credential.version < MaxPasswords
    /\ op' = [op EXCEPT ![o].pc = "changing", ![o].cookie = c]
    /\ UNCHANGED <<identityVars, requests, states, sessions, upkeep>>

\* Fault: only the session that asked is revoked.
change_password_and_rotate_session_OwnOnly(o, new) ==
    /\ At(o, "changing") /\ ~sessions[new].live
    /\ dir' = [dir EXCEPT !.credential.version = @ + 1, !.credential.must_change = FALSE]
    /\ sessions' = [c \in Cookies |->
           IF c = new THEN LocalSession(dir.credential.version + 1, dir.credential.version + 1)
           ELSE IF c = op[o].cookie THEN NoSession ELSE sessions[c]]
    /\ End(o)
    /\ UNCHANGED <<told, stages, requests, states, served, upkeep>>

\* One transaction: the new hash, every local session revoked, the new session.
change_password_and_rotate_session(o, new) ==
    /\ At(o, "changing") /\ (sessions[new].live => sessions[new].source = "LOCAL_ADMIN")
    /\ dir' = [dir EXCEPT !.credential.version = @ + 1, !.credential.must_change = FALSE]
    /\ sessions' = [c \in Cookies |->
           IF c = new THEN LocalSession(dir.credential.version + 1, dir.credential.version + 1)
           ELSE IF sessions[c].source = "LOCAL_ADMIN" THEN NoSession
           ELSE sessions[c]]
    /\ End(o)
    /\ UNCHANGED <<told, stages, requests, states, served, upkeep>>

-----------------------------------------------------------------------------
\* Administering users.

\* The route: the session's principal is taken now and used in a later transaction.
AdminRequest(o, c, command, r) ==
    /\ Begin(o) /\ Authenticates(c)
    /\ IdentityRoute(PrincipalOf(c), command).admits
    /\ command.kind \in {"approve", "reject"} => requests[r].status # Nothing
    /\ op' = [op EXCEPT ![o].pc = "gated", ![o].actor = PrincipalOf(c),
                        ![o].command = command,
                        ![o].request = IF command.kind \in {"approve", "reject"}
                                       THEN r ELSE Nothing]
    /\ UNCHANGED <<identityVars, requests, states, sessions, upkeep>>

IsDecision(o) == op[o].command.kind \in {"approve", "reject"}
Result(o) ==
    IF IsDecision(o) THEN _decide_activation(dir, op[o].actor, requests[op[o].request], op[o].command)
    ELSE _apply_managed_user_change(dir, op[o].actor, op[o].command)

Decided(request, c) ==
    IF c.kind = "approve" THEN [request EXCEPT !.status = "APPROVED", !.role = c.role]
    ELSE [request EXCEPT !.status = "REJECTED", !.role = Nothing]

\* decide: the facts, the request's end and the event, whose target is the request, are
\* one transaction.  A rejection leaves the facts as they are.
decide(o) ==
    LET r == op[o].request IN
    /\ At(o, "gated") /\ IsDecision(o) /\ Result(o).ok
    /\ Commit(Result(o).dir, r, op[o].command)
    /\ requests' = [requests EXCEPT ![r] = Decided(@, op[o].command)]
    /\ End(o)
    /\ UNCHANGED <<stages, states, sessions, served, upkeep>>

_apply_managed(o) ==
    /\ At(o, "gated") /\ ~IsDecision(o) /\ Result(o).ok
    /\ Commit(Result(o).dir, op[o].command.user, op[o].command)
    /\ End(o)
    /\ UNCHANGED <<stages, requests, states, sessions, served, upkeep>>

\* A refusal rolls back.  append_denied, for an administrator who is none any more, is an
\* event about no account.
Refuse(o) ==
    /\ At(o, "gated") /\ ~Result(o).ok
    /\ End(o)
    /\ UNCHANGED <<identityVars, requests, states, sessions, served, upkeep>>

\* A provider or a transaction that fails ends the request.
Unavailable(o) ==
    /\ op[o].pc # "idle"
    /\ End(o)
    /\ UNCHANGED <<identityVars, requests, states, sessions, served, upkeep>>

-----------------------------------------------------------------------------
\* Commands that do not come from the Web.

\* _is_already_migrated.
_is_already_migrated(e) ==
    /\ _facts(dir, e.user)
    /\ dir.account[e.user].actor = e.actor /\ dir.role[e.user] = e.role
    /\ resolve_by_subject(dir, e.subject) = "resolved" /\ dir.bound[e.subject] = e.user

\* migrate_static_identities: accounts with other facts refuse the whole file; the rest,
\* less what is already there, is one batch.
migrate_static_identities(o) ==
    /\ Begin(o)
    /\ \A i \in DOMAIN LegacyDocument :
           LET e == LegacyDocument[i] IN _facts(dir, e.user) => _is_already_migrated(e)
    /\ LET pending == {i \in DOMAIN LegacyDocument : ~_is_already_migrated(LegacyDocument[i])}
           batch == [i \in pending |-> LegacyDocument[i]] IN
       /\ pending # {}
       /\ op' = [op EXCEPT ![o].pc = "migrating", ![o].batch = batch]
    /\ UNCHANGED <<identityVars, requests, states, sessions, upkeep>>

\* The operation id of a batch is derived from its user ids.
BatchStage(batch) == <<"legacy", [i \in DOMAIN batch |-> batch[i].user]>>

\* Fault: every event of the batch carries the role of its first entry.
migrate_apply_FirstRole(o) ==
    LET batch == op[o].batch
        first == batch[CHOOSE i \in DOMAIN batch : \A j \in DOMAIN batch : i <= j]
        result == MigrateLegacyIdentities(dir, batch) IN
    /\ At(o, "migrating")
    /\ IF result.ok /\ BatchStage(batch) \notin stages
       THEN /\ dir' = result.dir
            /\ told' = derive_audit_batch(told, [i \in DOMAIN batch |->
                                                     [batch[i] EXCEPT !.role = first.role]])
            /\ stages' = stages \cup {BatchStage(batch)}
       ELSE UNCHANGED identityVars
    /\ End(o)
    /\ UNCHANGED <<requests, states, sessions, served, upkeep>>

\* A row that is in the way, or a stage that is taken, rolls the batch back.
MigrationSucceeds(batch) ==
    MigrateLegacyIdentities(dir, batch).ok /\ BatchStage(batch) \notin stages

migrate_apply(o) ==
    LET batch == op[o].batch IN
    /\ At(o, "migrating")
    /\ IF MigrationSucceeds(batch)
       THEN /\ dir' = MigrateLegacyIdentities(dir, batch).dir
            /\ told' = derive_audit_batch(told, batch)
            /\ stages' = stages \cup {BatchStage(batch)}
       ELSE UNCHANGED identityVars
    /\ End(o)
    /\ UNCHANGED <<requests, states, sessions, served, upkeep>>

\* seed_if_absent when the Web process starts: no event when nothing is missing; a broken
\* link keeps the process from starting.
seed_if_absent ==
    /\ _bootstrap_in_transaction(dir).ok /\ _bootstrap_in_transaction(dir).dir # dir
    /\ Commit(_bootstrap_in_transaction(dir).dir, LOCAL_ADMIN_USER_ID,
              [kind |-> "bootstrap"])
    /\ UNCHANGED <<stages, requests, states, sessions, op, served, upkeep>>

ApplyCommand(d, c) ==
    CASE c.kind = "create_user" -> CreateUser(d, c)
      [] c.kind = "set_status" -> SetUserStatus(d, c)
      [] c.kind = "assign_role" -> AssignRole(d, c)
      [] c.kind = "revoke_role" -> RevokeRole(d, c)
      [] c.kind = "bind" -> BindExternalIdentity(d, c)
      [] c.kind = "unbind" -> UnbindExternalIdentity(d, c)

\* apply, as an operator's script calls it.
Maintain(c) ==
    /\ upkeep < MaxUpkeep /\ upkeep' = upkeep + 1
    /\ ApplyCommand(dir, c).ok
    /\ Commit(ApplyCommand(dir, c).dir, c.user, c)
    /\ UNCHANGED <<stages, requests, states, sessions, op, served>>

-----------------------------------------------------------------------------
Previous == Cookies \cup {Nothing}
Callback(o) ==
    \/ \E t \in States : \/ \E s \in Subjects : consume_oauth_login_state(o, t, s)
                         \/ consume_oauth_test_state(o, t)
    \/ resume_web(o) \/ resolve_for_web(o)
    \/ \E r \in Requests : request_web(o, r)
    \/ \E c \in Cookies, x \in Previous : complete_login(o, c, x)
LocalAdmin(o) ==
    \/ login(o)
    \/ \E c \in Cookies, x \in Previous : login_session(o, c, x)
    \/ \E c \in Cookies : change_password_verify(o, c) \/ change_password_and_rotate_session(o, c)
Administer(o) ==
    \/ \E c \in Cookies, k \in Commands, r \in Requests : AdminRequest(o, c, k, r)
    \/ decide(o) \/ _apply_managed(o) \/ Refuse(o)
    \/ migrate_static_identities(o) \/ migrate_apply(o)
Browser ==
    \/ \E t \in States : (\E i \in Intents : start_login(t, i))
                         \/ (\E r \in Requests : start_login_status(t, r))
                         \/ start_connection_test(t) \/ StateExpires(t)
    \/ \E c \in Cookies : logout(c) \/ SessionExpires(c)
Around ==
    \/ \E s \in Subjects, r \in Requests : request_group(s, r)
    \/ \E r \in Requests : RequestLapses(r)
    \/ \E old \in SUBSET Requests : purge_expired_terminal(old)
    \/ seed_if_absent
    \/ \E c \in Upkeep : Maintain(c)

Next ==
    \/ \E o \in Ops : Callback(o) \/ LocalAdmin(o) \/ Administer(o) \/ Unavailable(o)
    \/ Browser \/ Around

Spec == Init /\ [][Next]_vars

-----------------------------------------------------------------------------
\* Properties.

\* Types, and the keys of the directory.
AccessTypeOK ==
    /\ DirectoryFits(dir)
    /\ \A r \in Requests : requests[r].status \in
           {Nothing, "PENDING", "APPROVED", "REJECTED", "EXPIRED"}
    /\ \A c \in Cookies : sessions[c].live \in BOOLEAN

\* Whatever logins, group messages, expiries, decisions and purges interleave, a subject
\* has at most one pending request, and the pending requests never exceed their capacity
\* (create_or_reuse under the capacity lock).
OnePendingPerSubject ==
    /\ Cardinality(Pending(requests)) <= MAX_PENDING_ACTIVATIONS
    /\ \A r, q \in Pending(requests) : requests[r].subject = requests[q].subject => r = q

\* The roles of the approvals that account for u as far as the tables still tell: the
\* request's subject is bound to u, or u was bound to somebody once (its unbinding is
\* an event), or the request is gone and may have been anybody's.
ApprovedFor(u) ==
    Assignable \cap
        ({told.activation[r].role : r \in
             {x \in DOMAIN told.activation :
                 \/ u \in told.unbound
                 \/ /\ requests[x].subject \in DOMAIN dir.bound
                    /\ dir.bound[requests[x].subject] = u}}
         \cup told.forgotten)

\* The audit and the tables explain each other: apply stores the change and its event in
\* one transaction, and a refused or late command leaves neither.
\*  - A kept activation request is decided just when the audit has its event, which
\*    says what was decided and the role that was approved.
\*  - What the last event that names an account says of its role and of its status, the
\*    account still has: nothing else changes them, an approval neither.
\*  - An account, or a role, that no event naming the account gives comes from an
\*    approval, whose event names the request only: from a request of its own subject, or
\*    from one that can be told no better after an unbinding or a purge.
AuditExplainsDirectory ==
    /\ DOMAIN told.user \subseteq DOMAIN dir.account
    /\ \A r \in Requests :
           IF r \in DOMAIN told.activation
           THEN \/ /\ requests[r].status = "APPROVED"
                   /\ told.activation[r] = Effect(requests[r].role, "active")
                \/ /\ requests[r].status = "REJECTED"
                   /\ told.activation[r] = Effect(Unsaid, Unsaid)
           ELSE requests[r].status \in {Nothing, "PENDING", "EXPIRED"}
    /\ \A u \in DOMAIN dir.account :
           LET said == SaidOf(told, u) IN
           /\ IF said.status # Nothing THEN dir.account[u].status = said.status
              ELSE dir.account[u].status = "active" /\ ApprovedFor(u) # {}
           /\ IF said.role # Nothing THEN RoleOf(dir, u) = said.role
              ELSE RoleOf(dir, u) \in {Nothing} \cup ApprovedFor(u)

\* Every Feishu session stands for one login state, consumed once (two callbacks with
\* the same state give one session), and none comes from a connection test's state.
SessionsAreEarned ==
    LET feishu == {c \in Cookies : sessions[c].source = "FEISHU"} IN
    \A c \in feishu :
        /\ states[sessions[c].state].phase = "closed" /\ states[sessions[c].state].kind = "login"
        /\ \A x \in feishu : sessions[x].state = sessions[c].state => x = c

\* Local sessions opened with an earlier password, and logins that verified one and have
\* stored no session yet.
OldSessions ==
    {c \in Cookies : sessions[c].source = "LOCAL_ADMIN"
                     /\ sessions[c].version # dir.credential.version}
OldLogins == {o \in Ops : At(o, "verified") /\ op[o].version # dir.credential.version}

\* A local session that was stored before a password change does not outlive it, wherever
\* the change, other changes and logins overlap (change_password_and_rotate_session).
\* A login that verified the old password before the change and stores its session after
\* it does get one.  No session with an earlier password comes in any other way: there are
\* never more of them than requests were handled beside the change.
OldSessionsEnd ==
    /\ \A c \in Cookies : sessions[c].source = "LOCAL_ADMIN" =>
           sessions[c].stored = dir.credential.version
    /\ Cardinality(OldSessions) + Cardinality(OldLogins) < Cardinality(Ops)

\* A decision of the Web commits only for somebody who is an active administrator, signed
\* in by a way that is still current, in the state the transaction changes, however old
\* the session's snapshot is (_require_admin_for_update).
DecisionsByCurrentAdmins ==
    [][\A o \in Ops :
         op[o].pc = "gated" /\ op'[o].pc = "idle" /\ <<dir, requests>>' # <<dir, requests>> =>
             LET u == op[o].actor.user IN
             /\ u \in DOMAIN dir.account /\ dir.account[u].status = "active"
             /\ RoleOf(dir, u) = "ADMIN"
             /\ op[o].actor.source = "FEISHU" => \E s \in DOMAIN dir.bound : dir.bound[s] = u]_vars

\* No request of the Web takes an administrator's role or disables one, not even an
\* approval that names an administrator's account; only maintenance does.
AdminsKeepTheirRole ==
    [][upkeep' = upkeep =>
         \A u \in DOMAIN dir.role : dir.role[u] = "ADMIN" =>
             /\ RoleOf(dir', u) = "ADMIN"
             /\ dir'.account[u].status = dir.account[u].status]_vars

\* Starting the Web process again never brings an earlier password or its must-change
\* flag back, also when the credential is older than the directory.
PasswordNeverRolledBack ==
    [][dir.credential.seeded =>
         /\ dir'.credential.version >= dir.credential.version
         /\ dir'.credential.must_change => dir.credential.must_change]_vars

\* The directory is explained by its audit, one account per subject and one pending request,
\* whatever logins, decisions, migrations and maintenance overlap.
DirectoryIsSound == AccessTypeOK /\ OnePendingPerSubject /\ AuditExplainsDirectory

\* The gates of page, calls and services agree for whoever a session stands for by now:
\* where a login may return to opens and its calls are admitted, the configuration that
\* can be seen can be changed, and a first password must be changed before anything else.
GatesAgree ==
    \A c \in Cookies : Authenticates(c) =>
        LET p == PrincipalOf(c) IN
        IF p.must_change
        THEN /\ \A r \in boot(p) \cup loadIdentity(p) \cup ConfigWrites(p) : ~r.admits
             /\ change_password(p).admits /\ logout_route(p).admits
        ELSE /\ \A intent \in ReturnIntent : web_return_intent_allowed(p.source, p.role, intent) =>
                   \A r \in {Landing(p, intent)} \cup PageCalls(p, intent) : r.admits
             /\ \A r \in ConfigReads(p), w \in ConfigWrites(p) : r.admits = w.admits

\* Every session was earned by one login of its kind, none that a password change could
\* see outlives it, and each opens the doors of its owner's present role.
SessionsAreSound == SessionsAreEarned /\ OldSessionsEnd /\ GatesAgree

\* Authority is judged when it is used: by administrators of that moment, never against
\* an administrator, and never with a password of the past.
AuthorityIsCurrent == DecisionsByCurrentAdmins /\ AdminsKeepTheirRole /\ PasswordNeverRolledBack
=============================================================================
