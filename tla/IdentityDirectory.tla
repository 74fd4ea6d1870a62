-------------------------- MODULE IdentityDirectory --------------------------
(***************************************************************************)
(* The user directory as PostgresUserDirectoryStore.apply changes it: one  *)
(* function per command on the directory's rows, with the audit effect the *)
(* same transaction stores.  A refused command is a rolled-back            *)
(* transaction: it changes nothing.                                        *)
(*                                                                         *)
(* A deployment is one scope (every caller passes the local administrator's*)
(* tenant and environment), so the cross-scope refusals never happen and   *)
(* are left out.  User ids are derived by digests of disjoint domains:     *)
(* they are tuples that keep what they were derived from.                  *)
(***************************************************************************)
EXTENDS Naturals, Sequences, SequencesExt

ProductRole == {"USER", "OPERATOR", "ADMIN"}
Assignable == {"USER", "OPERATOR"}          \* what the Web may grant
UserStatus == {"active", "disabled"}
Nothing == "none"

LOCAL_ADMIN_USER_ID == <<"local", "admin">>
LOCAL_ADMIN_ACTOR == "local-admin"
activation_user_id(subject) == <<"feishu", subject>>
legacy_user_id(actor) == <<"legacy", actor>>

\* A directory: accounts, roles and bindings as partial functions, and the
\* credential row of the local administrator (`version' names the password).
NoCredential == [seeded |-> FALSE, linked |-> FALSE, version |-> 0, must_change |-> FALSE]
EmptyDirectory ==
    [account |-> <<>>, role |-> <<>>, bound |-> <<>>, credential |-> NoCredential]

Put(f, k, v) == [x \in DOMAIN f \cup {k} |-> IF x = k THEN v ELSE f[x]]
Without(f, k) == [x \in DOMAIN f \ {k} |-> f[x]]
RoleOf(d, u) == IF u \in DOMAIN d.role THEN d.role[u] ELSE Nothing

\* What a command answers: the new directory with the account the command was about,
\* or the refusal that rolls the transaction back.
Done(d) == [ok |-> TRUE, dir |-> d, why |-> Nothing]
Refused(why) == [ok |-> FALSE, dir |-> EmptyDirectory, why |-> why]
Then(result, step(_)) == IF result.ok THEN step(result.dir) ELSE result

-----------------------------------------------------------------------------
\* Reads.

\* _facts: a disabled account, or one without a role, has no facts.
_facts(d, u) ==
    u \in DOMAIN d.account /\ d.account[u].status = "active" /\ u \in DOMAIN d.role

\* resolve_by_subject: unknown subjects and bound subjects without facts differ.
resolve_by_subject(d, subject) ==
    CASE subject \notin DOMAIN d.bound -> "unknown"
      [] subject \in DOMAIN d.bound /\ ~_facts(d, d.bound[subject]) -> "unavailable"
      [] OTHER -> "resolved"

\* channel_permissions and admin_capabilities.
channel_permissions(role) ==
    CASE role = "ADMIN" -> {"view_safe_task", "submit_readonly_task", "admin_all_safe_tasks"}
      [] role = "OPERATOR" -> {"view_safe_task", "submit_readonly_task"}
      [] role = "USER" -> {"view_safe_task"}

AdminCapability == {"manage_users", "manage_duty_bindings", "view_admin_audit",
                    "view_private_task_content", "view_integration_status",
                    "manage_integrations", "run_connection_tests"}
admin_capabilities(role, source) ==
    CASE role # "ADMIN" -> {}
      [] role = "ADMIN" /\ source = "LOCAL_ADMIN" -> AdminCapability
      [] OTHER -> AdminCapability \ {"manage_integrations", "run_connection_tests"}

-----------------------------------------------------------------------------
\* The writes commands are made of.

_insert_account(d, u, actor, display) ==
    IF u \in DOMAIN d.account \/ \E v \in DOMAIN d.account : d.account[v].actor = actor
    THEN Refused("conflict")
    ELSE Done([d EXCEPT !.account =
                    Put(@, u, [actor |-> actor, display |-> display, status |-> "active"])])

_upsert_role(d, u, role) == [d EXCEPT !.role = Put(@, u, role)]

_bind_subject(d, u, subject) ==
    IF subject \in DOMAIN d.bound \/ \E s \in DOMAIN d.bound : d.bound[s] = u
    THEN Refused("conflict")
    ELSE Done([d EXCEPT !.bound = Put(@, subject, u)])

-----------------------------------------------------------------------------
\* Commands of the store.

CreateUser(d, c) ==
    Then(_insert_account(d, c.user, c.actor, c.display),
         LAMBDA e : Done(_upsert_role(e, c.user, c.role)))

SetUserStatus(d, c) ==
    IF c.user \notin DOMAIN d.account \/ c.user \notin DOMAIN d.role
    THEN Refused("not_found")
    ELSE Done([d EXCEPT !.account[c.user].status = c.status])

AssignRole(d, c) ==
    IF c.user \notin DOMAIN d.account THEN Refused("not_found")
    ELSE Done(_upsert_role(d, c.user, c.role))

RevokeRole(d, c) ==
    IF c.user \notin DOMAIN d.account \/ c.user \notin DOMAIN d.role
    THEN Refused("not_found")
    ELSE Done([d EXCEPT !.role = Without(@, c.user)])

BindExternalIdentity(d, c) ==
    IF c.user \notin DOMAIN d.account THEN Refused("not_found")
    ELSE _bind_subject(d, c.user, c.subject)

UnbindExternalIdentity(d, c) ==
    LET mine == {s \in DOMAIN d.bound : d.bound[s] = c.user} IN
    IF c.user \notin DOMAIN d.account \/ mine = {} THEN Refused("not_found")
    ELSE Done([d EXCEPT !.bound = [s \in DOMAIN @ \ mine |-> @[s]]])

\* _role_for: the highest role of an entry's labels.
_role_for(labels) ==
    IF "admin" \in labels THEN "ADMIN"
    ELSE IF labels \cap {"operator", "dba", "oncall"} # {} THEN "OPERATOR" ELSE "USER"
LegacyIdentityEntry(actor, subject, labels) ==
    [user |-> legacy_user_id(actor), actor |-> actor, subject |-> subject,
     role |-> _role_for(labels)]

\* A legacy batch: entries by their position in the file.
UsersOf(entries) == {entries[i].user : i \in DOMAIN entries}
EntryOf(entries, u) == entries[CHOOSE i \in DOMAIN entries : entries[i].user = u]
BoundBy(entries, s) == CHOOSE u \in UsersOf(entries) : EntryOf(entries, u).subject = s

\* The entries are inserted one after the other in one transaction: a row of the directory,
\* or of another entry, that is in the way rolls all of it back.
MigrateLegacyIdentities(d, entries) ==
    LET users == UsersOf(entries)
        subjects == {entries[i].subject : i \in DOMAIN entries} IN
    IF \/ \E i \in DOMAIN entries :
              LET e == entries[i] IN
              \/ ~_insert_account(d, e.user, e.actor, e.actor).ok
              \/ ~_bind_subject(d, e.user, e.subject).ok
       \/ \E i, j \in DOMAIN entries :
              /\ i # j
              /\ \/ entries[i].user = entries[j].user \/ entries[i].actor = entries[j].actor
                 \/ entries[i].subject = entries[j].subject
    THEN Refused("conflict")
    ELSE Done([d EXCEPT
             !.account = [u \in DOMAIN @ \cup users |->
                 IF u \in users THEN [actor |-> EntryOf(entries, u).actor,
                                      display |-> EntryOf(entries, u).actor,
                                      status |-> "active"]
                 ELSE @[u]],
             !.role = [u \in DOMAIN @ \cup users |->
                 IF u \in users THEN EntryOf(entries, u).role ELSE @[u]],
             !.bound = [s \in DOMAIN @ \cup subjects |->
                 IF s \in subjects THEN BoundBy(entries, s) ELSE @[s]]])

\* _bootstrap_in_transaction: decided on the link and not on the credential row; a
\* credential from before the directory keeps its password and its must-change flag.
_bootstrap_in_transaction(d) ==
    IF d.credential.linked
    THEN IF LOCAL_ADMIN_USER_ID \in DOMAIN d.account /\ RoleOf(d, LOCAL_ADMIN_USER_ID) = "ADMIN"
         THEN Done(d) ELSE Refused("conflict")
    ELSE Then(_insert_account(d, LOCAL_ADMIN_USER_ID, LOCAL_ADMIN_ACTOR, LOCAL_ADMIN_ACTOR),
              LAMBDA e : Done([_upsert_role(e, LOCAL_ADMIN_USER_ID, "ADMIN") EXCEPT
                  !.credential =
                      IF @.seeded THEN [@ EXCEPT !.linked = TRUE]
                      ELSE [seeded |-> TRUE, linked |-> TRUE,
                            version |-> 1, must_change |-> TRUE]]))

-----------------------------------------------------------------------------
\* Commands of the Web: the administrator is checked again in the transaction.

\* Fault: only the session's snapshot of the role is trusted.
_require_admin_for_update_Snapshot(d, actor) == actor.role = "ADMIN"

\* _require_admin_for_update: the account is active, still called so, still ADMIN, and
\* the way it signed in is still current.
_require_admin_for_update(d, actor) ==
    /\ actor.user \in DOMAIN d.account
    /\ d.account[actor.user].status = "active"
    /\ d.account[actor.user].actor = actor.actor
    /\ RoleOf(d, actor.user) = "ADMIN"
    /\ \/ actor.source = "LOCAL_ADMIN" /\ actor.user = LOCAL_ADMIN_USER_ID
       \/ actor.source = "FEISHU" /\ \E s \in DOMAIN d.bound : d.bound[s] = actor.user

\* _apply_managed_user_change: nothing an administrator holds, only what the page showed,
\* and no new role for a disabled account.
_apply_managed_user_change(d, actor, c) ==
    IF ~_require_admin_for_update(d, actor) THEN Refused("denied")
    ELSE IF c.user \notin DOMAIN d.account \/ c.user \notin DOMAIN d.role THEN Refused("not_found")
    ELSE IF d.role[c.user] = "ADMIN" THEN Refused("conflict")
    ELSE IF c.kind = "set_status"
    THEN IF d.account[c.user].status # c.expected_status \/ d.role[c.user] # c.expected_role
         THEN Refused("conflict")
         ELSE Done([d EXCEPT !.account[c.user].status = c.status])
    ELSE IF d.account[c.user].status # "active" \/ d.role[c.user] # c.expected_role
         THEN Refused("conflict")
         ELSE Done([d EXCEPT !.role[c.user] = c.role])

\* The account an approval is about: the one called so, else the subject's own.
ActivationAccount(d, c, subject) ==
    LET named == {u \in DOMAIN d.account : d.account[u].actor = c.actor} IN
    IF named # {} THEN CHOOSE u \in named : TRUE ELSE activation_user_id(subject)

\* _approve_activation_facts: every fact is inserted or is already exactly so.
_approve_activation_facts(d, c, subject) ==
    LET u == ActivationAccount(d, c, subject)
        Account ==
            IF u \notin DOMAIN d.account THEN _insert_account(d, u, c.actor, c.display)
            ELSE IF \/ d.account[u].actor # c.actor \/ d.account[u].display # c.display
                    \/ d.account[u].status # "active"
            THEN Refused("conflict") ELSE Done(d)
        Role(e) ==
            IF u \notin DOMAIN e.role THEN Done(_upsert_role(e, u, c.role))
            ELSE IF e.role[u] # c.role THEN Refused("conflict") ELSE Done(e)
        Binding(e) ==
            IF subject \notin DOMAIN e.bound THEN _bind_subject(e, u, subject)
            ELSE IF e.bound[subject] # u THEN Refused("conflict") ELSE Done(e)
    IN  Then(Then(Account, Role), Binding)

\* _decide_activation, before the request row is written.
_decide_activation(d, actor, request, c) ==
    IF ~_require_admin_for_update(d, actor) THEN Refused("denied")
    ELSE IF request.status = Nothing THEN Refused("denied")
    ELSE IF request.status # "PENDING" \/ request.age # "fresh" THEN Refused("conflict")
    ELSE IF c.kind = "approve" THEN _approve_activation_facts(d, c, request.subject)
    ELSE Done(d)

-----------------------------------------------------------------------------
\* The audit: what each command's event says about its target, an account or an
\* activation request.

\* EFFECT_FOR_COMMAND, with ROLE_REVOKED saying that no role is left.
Effect(role, status) == [role |-> role, status |-> status]
Unsaid == "unsaid"
EFFECT_FOR_COMMAND(c) ==
    CASE c.kind \in {"create_user", "approve", "migrate"} -> Effect(c.role, "active")
      [] c.kind = "bootstrap" -> Effect("ADMIN", "active")
      [] c.kind = "set_status" -> Effect(Unsaid, c.status)
      [] c.kind \in {"assign_role", "change_role"} -> Effect(c.role, Unsaid)
      [] c.kind = "revoke_role" -> Effect(Nothing, Unsaid)
      [] c.kind \in {"bind", "unbind", "reject"} -> Effect(Unsaid, Unsaid)

\* What a reader of the audit believes about an account after one more event.
Believes(told, u, effect) ==
    LET was == IF u \in DOMAIN told THEN told[u] ELSE Effect(Nothing, Nothing) IN
    Put(told, u, [role |-> IF effect.role = Unsaid THEN was.role ELSE effect.role,
                  status |-> IF effect.status = Unsaid THEN was.status ELSE effect.status])

\* After the events of a batch, one for each entry.
BelievesBatch(told, entries) ==
    [u \in DOMAIN told \cup UsersOf(entries) |->
        IF u \in UsersOf(entries) THEN Effect(EntryOf(entries, u).role, "active") ELSE told[u]]

\* The audit as its readers can use it: of each account, what the events that name it say;
\* the accounts an event says were unbound; of each activation request that is still
\* there, the decision's event; and the roles of approvals whose requests were purged,
\* which name, by a digest, what nobody has any more.
\* derive_audit: a decision is about its request and names no account; every other
\* command is about its account.
derive_audit(told, target, c) ==
    IF c.kind \in {"approve", "reject"}
    THEN [told EXCEPT !.activation = Put(@, target, EFFECT_FOR_COMMAND(c))]
    ELSE [told EXCEPT !.user = Believes(@, target, EFFECT_FOR_COMMAND(c)),
                      !.unbound = IF c.kind = "unbind" THEN @ \cup {target} ELSE @]

derive_audit_batch(told, entries) == [told EXCEPT !.user = BelievesBatch(@, entries)]

\* The events of purged requests stay without them.
Anonymous(told, old) ==
    [told EXCEPT !.activation = [r \in DOMAIN @ \ old |-> @[r]],
                 !.forgotten = @ \cup {told.activation[r].role : r \in DOMAIN told.activation \cap old}]

\* What the events that name an account say of it.
SaidOf(told, u) == IF u \in DOMAIN told.user THEN told.user[u] ELSE Effect(Nothing, Nothing)
=============================================================================
