-------------------------- MODULE InMemoryDirectory --------------------------
(***************************************************************************)
(* The in-memory directory, activation, session and credential stores      *)
(* (persistence/fake.py), beside the PostgreSQL ones of WebAccess.         *)
(*                                                                         *)
(* There is no transaction in memory.  A command writes its tables one     *)
(* after the other, an error leaves what was written before it, and apply  *)
(* puts the snapshot back.  `raised' is the error in flight.               *)
(***************************************************************************)
EXTENDS WebAccess

\* InMemoryPersistenceState.  An audit key is an operation id; the ones of a batch
\* count its entries, the ones of a single command are always new and left out.
InMemoryPersistenceState ==
    [account |-> dir.account, role |-> dir.role, bound |-> dir.bound,
     local_admin |-> dir.credential, requests |-> requests,
     keys |-> UNION {{<<b, i>> : i \in DOMAIN b[2]} : b \in stages},
     told |-> told, raised |-> Nothing]

Raise(m, why) == [m EXCEPT !.raised = why]
Do(m, step(_)) == IF m.raised = Nothing THEN step(m) ELSE m

-----------------------------------------------------------------------------
\* Tables.

_require_account(m, u) == IF u \in DOMAIN m.account THEN m ELSE Raise(m, "not_found")

mem_insert_account(m, u, actor, display) ==
    IF u \in DOMAIN m.account \/ \E v \in DOMAIN m.account : m.account[v].actor = actor
    THEN Raise(m, "conflict")
    ELSE [m EXCEPT !.account = Put(@, u, [actor |-> actor, display |-> display,
                                          status |-> "active"])]

mem_upsert_role(m, u, role) == [m EXCEPT !.role = Put(@, u, role)]

_binding_key_of(m, u) == {s \in DOMAIN m.bound : m.bound[s] = u}

\* Fault: only the subject is looked up, so that an account may be bound twice.
mem_bind_subject_OneWay(m, u, subject) ==
    IF subject \in DOMAIN m.bound THEN Raise(m, "conflict")
    ELSE [m EXCEPT !.bound = Put(@, subject, u)]

mem_bind_subject(m, u, subject) ==
    IF subject \in DOMAIN m.bound \/ _binding_key_of(m, u) # {}
    THEN Raise(m, "conflict")
    ELSE [m EXCEPT !.bound = Put(@, subject, u)]

\* _append_locked: a taken stage takes no second event.  `taken' are the keys, of those
\* the model keeps, that the event takes.
_append_locked(m, taken) ==
    IF taken \cap m.keys # {} THEN Raise(m, "unwritable")
    ELSE [m EXCEPT !.keys = @ \cup taken]

\* derive_audit and _write_audit for the command's target.
_write_audit(m, target, command, taken) ==
    Do(_append_locked(m, taken),
       LAMBDA n : [n EXCEPT !.told = derive_audit(@, target, command)])

-----------------------------------------------------------------------------
\* Commands.

_create_user(m, c) ==
    Do(mem_insert_account(m, c.user, c.actor, c.display),
       LAMBDA n : mem_upsert_role(n, c.user, c.role))

_set_status(m, c) ==
    Do(_require_account(m, c.user), LAMBDA n :
       IF c.user \notin DOMAIN n.role THEN Raise(n, "not_found")
       ELSE [n EXCEPT !.account[c.user].status = c.status])

_assign_role(m, c) ==
    Do(_require_account(m, c.user), LAMBDA n : mem_upsert_role(n, c.user, c.role))

_revoke_role(m, c) ==
    Do(_require_account(m, c.user), LAMBDA n :
       IF c.user \notin DOMAIN n.role THEN Raise(n, "not_found")
       ELSE [n EXCEPT !.role = Without(@, c.user)])

_bind_identity(m, c) ==
    Do(_require_account(m, c.user), LAMBDA n : mem_bind_subject(n, c.user, c.subject))

_unbind_identity(m, c) ==
    Do(_require_account(m, c.user), LAMBDA n :
       IF _binding_key_of(n, c.user) = {} THEN Raise(n, "not_found")
       ELSE [n EXCEPT !.bound = Without(@, CHOOSE s \in _binding_key_of(n, c.user) : TRUE)])

\* The link decides, not the credential row; a credential that is there keeps its hash.
_bootstrap(m) ==
    IF m.local_admin.linked
    THEN IF LOCAL_ADMIN_USER_ID \notin DOMAIN m.account
            \/ LOCAL_ADMIN_USER_ID \notin DOMAIN m.role
            \/ m.role[LOCAL_ADMIN_USER_ID] # "ADMIN"
         THEN Raise(m, "conflict") ELSE m
    ELSE Do(Do(mem_insert_account(m, LOCAL_ADMIN_USER_ID, LOCAL_ADMIN_ACTOR, LOCAL_ADMIN_ACTOR),
               LAMBDA n : mem_upsert_role(n, LOCAL_ADMIN_USER_ID, "ADMIN")),
            LAMBDA n : _write_audit(
                [n EXCEPT !.local_admin =
                    [seeded |-> TRUE, linked |-> TRUE,
                     version |-> IF n.local_admin.seeded THEN n.local_admin.version ELSE 1,
                     must_change |-> ~n.local_admin.seeded \/ n.local_admin.must_change]],
                LOCAL_ADMIN_USER_ID, [kind |-> "bootstrap"], {}))

\* One entry after the other, each with its own event: after[n] is what is there when the
\* first n entries of the file have been taken, as far as they belong to the batch.
_migrate_entry(m, batch, i) ==
    LET e == batch[i] IN
    Do(Do(Do(m, LAMBDA n : mem_insert_account(n, e.user, e.actor, e.actor)),
          LAMBDA n : mem_bind_subject(mem_upsert_role(n, e.user, e.role), e.user, e.subject)),
       LAMBDA n : _write_audit(n, e.user, [kind |-> "migrate", role |-> e.role],
                               {<<BatchStage(batch), i>>}))

_migrate(m, batch) ==
    LET after[n \in 0 .. Len(LegacyDocument)] ==
            IF n = 0 THEN m
            ELSE IF n \in DOMAIN batch THEN _migrate_entry(after[n - 1], batch, n)
            ELSE after[n - 1]
    IN  after[Len(LegacyDocument)]

_require_admin(m, actor) ==
    IF \/ actor.user \notin DOMAIN m.account \/ actor.user \notin DOMAIN m.role
       \/ m.account[actor.user].status # "active"
       \/ m.account[actor.user].actor # actor.actor
       \/ m.role[actor.user] # "ADMIN"
       \/ ~ \/ actor.source = "LOCAL_ADMIN" /\ actor.user = LOCAL_ADMIN_USER_ID
            \/ actor.source = "FEISHU" /\ _binding_key_of(m, actor.user) # {}
    THEN Raise(m, "denied") ELSE m

_managed_target(m, u) ==
    IF u \notin DOMAIN m.account \/ u \notin DOMAIN m.role THEN Raise(m, "not_found")
    ELSE IF m.role[u] = "ADMIN" THEN Raise(m, "conflict") ELSE m

_set_managed_status(m, actor, c) ==
    Do(Do(_require_admin(m, actor), LAMBDA n : _managed_target(n, c.user)), LAMBDA n :
       IF n.account[c.user].status # c.expected_status \/ n.role[c.user] # c.expected_role
       THEN Raise(n, "conflict")
       ELSE [n EXCEPT !.account[c.user].status = c.status])

_change_managed_role(m, actor, c) ==
    Do(Do(_require_admin(m, actor), LAMBDA n : _managed_target(n, c.user)), LAMBDA n :
       IF n.account[c.user].status # "active" \/ n.role[c.user] # c.expected_role
       THEN Raise(n, "conflict")
       ELSE [n EXCEPT !.role[c.user] = c.role])

_activation_for_decision(m, r) ==
    IF m.requests[r].status = Nothing THEN Raise(m, "denied")
    ELSE IF m.requests[r].status # "PENDING" \/ m.requests[r].age # "fresh"
    THEN Raise(m, "conflict") ELSE m

\* The account called so must be active and shown so; without one, the account derived
\* from the subject must be exactly what is asked for.
_approve_account(m, u, c) ==
    IF u \notin DOMAIN m.account THEN mem_insert_account(m, u, c.actor, c.display)
    ELSE IF \/ m.account[u].actor # c.actor \/ m.account[u].display # c.display
            \/ m.account[u].status # "active"
    THEN Raise(m, "conflict") ELSE m

_approve_role(m, u, c) ==
    IF u \notin DOMAIN m.role THEN mem_upsert_role(m, u, c.role)
    ELSE IF m.role[u] # c.role THEN Raise(m, "conflict") ELSE m

_approve_binding(m, u, subject) ==
    IF subject \notin DOMAIN m.bound THEN mem_bind_subject(m, u, subject)
    ELSE IF m.bound[subject] # u THEN Raise(m, "conflict") ELSE m

_mark_approved(m, r, c) ==
    [m EXCEPT !.requests[r] = [@ EXCEPT !.status = "APPROVED", !.role = c.role]]

_approve_activation(m, actor, c, r) ==
    LET subject == m.requests[r].subject
        named == {u \in DOMAIN m.account : m.account[u].actor = c.actor}
        u == IF named # {} THEN CHOOSE v \in named : TRUE ELSE activation_user_id(subject)
        decidable == Do(_require_admin(m, actor), LAMBDA n : _activation_for_decision(n, r))
        facts == Do(Do(Do(decidable, LAMBDA n : _approve_account(n, u, c)),
                       LAMBDA n : _approve_role(n, u, c)),
                    LAMBDA n : _approve_binding(n, u, subject))
    IN  Do(facts, LAMBDA n : _write_audit(_mark_approved(n, r, c), r, c, {}))

_reject_activation(m, actor, c, r) ==
    Do(Do(_require_admin(m, actor), LAMBDA n : _activation_for_decision(n, r)),
       LAMBDA n : _write_audit([n EXCEPT !.requests[r].status = "REJECTED"], r, c, {}))

-----------------------------------------------------------------------------
\* apply.

_apply_locked(m, actor, c, r) ==
    CASE c.kind = "approve" -> _approve_activation(m, actor, c, r)
      [] c.kind = "reject" -> _reject_activation(m, actor, c, r)
      [] c.kind = "migrate" -> _migrate(m, c.batch)
      [] c.kind = "bootstrap" -> _bootstrap(m)
      [] OTHER -> Do(CASE c.kind = "create_user" -> _create_user(m, c)
                       [] c.kind = "set_status" /\ actor = NoPrincipal -> _set_status(m, c)
                       [] c.kind = "set_status" /\ actor # NoPrincipal ->
                              _set_managed_status(m, actor, c)
                       [] c.kind = "assign_role" -> _assign_role(m, c)
                       [] c.kind = "change_role" -> _change_managed_role(m, actor, c)
                       [] c.kind = "revoke_role" -> _revoke_role(m, c)
                       [] c.kind = "bind" -> _bind_identity(m, c)
                       [] c.kind = "unbind" -> _unbind_identity(m, c),
                     LAMBDA n : _write_audit(n, c.user, c, {}))

_restore(m, snapshot) == [snapshot EXCEPT !.raised = m.raised]

apply(actor, c, r) ==
    LET snapshot == InMemoryPersistenceState
        m == _apply_locked(snapshot, actor, c, r)
    IN  IF m.raised = Nothing THEN m ELSE _restore(m, snapshot)

-----------------------------------------------------------------------------
\* Activation requests, OAuth states and sessions.

\* ActivationCapacityError is raised with the reaping done, which PostgreSQL takes back.
mem_create_or_reuse(subject, intent, r) ==
    LET m == [InMemoryPersistenceState EXCEPT !.requests = Reaped(@)]
        mine == {x \in Pending(m.requests) : m.requests[x].subject = subject}
    IN  IF Cardinality(Pending(m.requests)) >= MAX_PENDING_ACTIVATIONS THEN Raise(m, "capacity")
        ELSE IF mine # {} THEN m
        ELSE [m EXCEPT !.requests[r] = [NoRequest EXCEPT !.status = "PENDING",
                                            !.subject = subject, !.intent = intent]]

\* Consumed and expired states are deleted, and what is left is counted.
_cleanup_oauth_states == [t \in {x \in States : states[x].phase = "open"} |-> states[t]]

_issue_oauth_state(t, state) ==
    LET kept == _cleanup_oauth_states
    IN  IF t \in DOMAIN kept \/ Cardinality(DOMAIN kept) >= OAuthCapacity THEN kept
        ELSE Put(kept, t, state)

\* First every local session is revoked, then the new one is stored.
mem_change_password(new) ==
    LET revoked == [c \in Cookies |-> IF sessions[c].source = "LOCAL_ADMIN" /\ sessions[c].live
                                      THEN NoSession ELSE sessions[c]]
        record == [dir.credential EXCEPT !.version = @ + 1, !.must_change = FALSE]
    IN  [local_admin |-> record,
         sessions |-> [revoked EXCEPT ![new] = LocalSession(record.version, record.version)]]

-----------------------------------------------------------------------------
\* What the model keeps beside a request for the browser is not the store's.
Bare(rs) == [r \in Requests |-> [Reaped(rs)[r] EXCEPT !.link = FALSE]]
SameTables(m) == InMemoryPersistenceState' = [m EXCEPT !.raised = Nothing]

\* A command of the Web: both refuse it for the same reason, or it leaves the same tables.
CommandsAgree ==
    \A o \in Ops : At(o, "gated") /\ op'[o] = Idle =>
        LET m == apply(op[o].actor, op[o].command, op[o].request)
        IN  /\ m.raised = Result(o).why
            /\ SameTables(m) \/ InMemoryPersistenceState' = InMemoryPersistenceState

\* A batch of the identity file: a row or a stage in the way refuses it in both.
MigrationsAgree ==
    \A o \in Ops : At(o, "migrating") /\ op'[o] = Idle =>
        LET m == apply(NoPrincipal, [kind |-> "migrate", batch |-> op[o].batch], Nothing)
        IN  /\ (m.raised = Nothing) <=> MigrationSucceeds(op[o].batch)
            /\ SameTables(m) \/ InMemoryPersistenceState' = InMemoryPersistenceState

UpkeepAgrees ==
    /\ upkeep' # upkeep => \E c \in Upkeep : SameTables(apply(NoPrincipal, c, Nothing))
    /\ dir'.credential.linked # dir.credential.linked =>
           SameTables(apply(NoPrincipal, [kind |-> "bootstrap"], Nothing))

RequestsAgree ==
    \A o \in Ops : At(o, "unknown") /\ op'[o] = Idle /\ requests' # requests =>
        \E r \in Requests :
            Bare(mem_create_or_reuse(op[o].subject, op[o].intent, r).requests) = Bare(requests')

StatesAgree ==
    \A t \in States : states[t].phase # "open" /\ states'[t].phase = "open" =>
        _issue_oauth_state(t, states'[t])
            = [x \in {y \in States : states'[y].phase = "open"} |-> states'[x]]

PasswordsAgree ==
    dir.credential.linked /\ dir'.credential.version # dir.credential.version =>
        \E c \in Cookies : mem_change_password(c)
            = [local_admin |-> dir'.credential, sessions |-> sessions']

\* Administrators, maintenance, logins and the group listener meet the same directory in
\* memory and in PostgreSQL: a command is refused in both or in neither, leaves the same
\* tables and says the same in the audit.  The memory's snapshot must cover every table a
\* command writes before it can fail (apply, _restore).  Pending requests that lapsed are
\* compared as expired.
AccessStoresAgree ==
    [][/\ CommandsAgree /\ MigrationsAgree /\ UpkeepAgrees
       /\ RequestsAgree /\ StatesAgree /\ PasswordsAgree]_vars
=============================================================================
