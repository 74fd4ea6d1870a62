--------------------------- MODULE DirectoryProofs ---------------------------
(***************************************************************************)
(* Proofs about InMemoryDirectory: the directory, the requests, the states *)
(* and the sessions in memory agree with the ones in PostgreSQL, for any   *)
(* commands, any identity file and any requests that overlap.              *)
(*                                                                         *)
(* The argument: a directory, the requests, the stages and the audit stand *)
(* for one state of the memory; every command of the memory, run on that   *)
(* state, raises what PostgreSQL refuses with and otherwise leaves the     *)
(* state that stands for what PostgreSQL commits.  The identity file is    *)
(* taken entry by entry in memory and at once in PostgreSQL: after n       *)
(* entries the memory stands for the batch cut off after them.             *)
(***************************************************************************)
EXTENDS AccessProofs

-----------------------------------------------------------------------------
(***************************************************************************)
(* The two directories.  What the memory holds is written as the directory *)
(* it stands for beside the other tables; each command of the memory is the*)
(* command of PostgreSQL on that directory, with the same refusal.         *)
(***************************************************************************)
Tables(d, rs, keys, t, why) ==
    [account |-> d.account, role |-> d.role, bound |-> d.bound, local_admin |-> d.credential,
     requests |-> rs, keys |-> keys, told |-> t, raised |-> why]
Parts(d) == DOMAIN d = {"account", "role", "bound", "credential"}

\* A write of the memory, as the same write of PostgreSQL answers it.
Same(m, result, rs, keys, t) ==
    /\ result.ok => m = Tables(result.dir, rs, keys, t, Nothing) /\ Parts(result.dir)
    /\ result.ok => result.why = Nothing
    /\ ~result.ok => m.raised = result.why /\ result.why # Nothing
    /\ result.ok \in BOOLEAN

LEMMA SameAccount ==
    ASSUME NEW d, Parts(d), NEW rs, NEW keys, NEW t, NEW u, NEW actor, NEW display
    PROVE  Same(mem_insert_account(Tables(d, rs, keys, t, Nothing), u, actor, display),
                _insert_account(d, u, actor, display), rs, keys, t)
<1>1. PICK row : row = [actor |-> actor, display |-> display, status |-> "active"]
  OBVIOUS
<1>2. PICK m : m = Tables(d, rs, keys, t, Nothing)
  OBVIOUS
<1>3. m.account = d.account
  BY <1>2 DEF Tables
<1>4. CASE u \in DOMAIN d.account \/ \E v \in DOMAIN d.account : d.account[v].actor = actor
  <2>1. _insert_account(d, u, actor, display) = Refused("conflict")
    BY <1>4 DEF _insert_account
  <2>2. mem_insert_account(m, u, actor, display) = Raise(m, "conflict")
    BY <1>3, <1>4 DEF mem_insert_account
  <2>3. Raise(m, "conflict").raised = "conflict"
    BY <1>2 DEF Raise, Tables
  <2>4. QED
    BY <1>2, <2>1, <2>2, <2>3 DEF Same, Refused, Nothing
<1>5. CASE ~(u \in DOMAIN d.account \/ \E v \in DOMAIN d.account : d.account[v].actor = actor)
  <2>1. PICK e : e = [d EXCEPT !.account = Put(@, u, row)]
    OBVIOUS
  <2>2. _insert_account(d, u, actor, display) = Done(e)
    BY <1>1, <1>5, <2>1 DEF _insert_account
  <2>3. mem_insert_account(m, u, actor, display) = [m EXCEPT !.account = Put(@, u, row)]
    BY <1>1, <1>3, <1>5 DEF mem_insert_account
  <2>4. /\ e.account = Put(d.account, u, row) /\ e.role = d.role /\ e.bound = d.bound
        /\ e.credential = d.credential /\ Parts(e)
    BY <2>1 DEF Parts
  <2>5. [m EXCEPT !.account = Put(@, u, row)] = Tables(e, rs, keys, t, Nothing)
    BY <1>2, <2>4 DEF Tables
  <2>6. QED
    BY <1>2, <2>2, <2>3, <2>4, <2>5 DEF Same, Done
<1>6. QED
  BY <1>4, <1>5

LEMMA SameRole ==
    ASSUME NEW d, Parts(d), NEW rs, NEW keys, NEW t, NEW u, NEW role
    PROVE  /\ mem_upsert_role(Tables(d, rs, keys, t, Nothing), u, role)
                  = Tables(_upsert_role(d, u, role), rs, keys, t, Nothing)
           /\ Parts(_upsert_role(d, u, role))
<1>1. PICK e : e = [d EXCEPT !.role = Put(@, u, role)]
  OBVIOUS
<1>2. /\ e.role = Put(d.role, u, role) /\ e.account = d.account /\ e.bound = d.bound
      /\ e.credential = d.credential /\ Parts(e)
  BY <1>1 DEF Parts
<1>3. [Tables(d, rs, keys, t, Nothing) EXCEPT !.role = Put(@, u, role)]
          = Tables(e, rs, keys, t, Nothing)
  BY <1>2 DEF Tables
<1>4. QED
  BY <1>1, <1>2, <1>3 DEF mem_upsert_role, _upsert_role

LEMMA SameBinding ==
    ASSUME NEW d, Parts(d), NEW rs, NEW keys, NEW t, NEW u, NEW subject
    PROVE  Same(mem_bind_subject(Tables(d, rs, keys, t, Nothing), u, subject),
                _bind_subject(d, u, subject), rs, keys, t)
<1>2. PICK m : m = Tables(d, rs, keys, t, Nothing)
  OBVIOUS
<1>3. m.bound = d.bound
  BY <1>2 DEF Tables
<1>4. _binding_key_of(m, u) # {} <=> \E s \in DOMAIN d.bound : d.bound[s] = u
  BY <1>3 DEF _binding_key_of
<1>5. CASE subject \in DOMAIN d.bound \/ \E s \in DOMAIN d.bound : d.bound[s] = u
  <2>1. _bind_subject(d, u, subject) = Refused("conflict")
    BY <1>5 DEF _bind_subject
  <2>2. mem_bind_subject(m, u, subject) = Raise(m, "conflict")
    BY <1>3, <1>4, <1>5 DEF mem_bind_subject
  <2>3. Raise(m, "conflict").raised = "conflict"
    BY <1>2 DEF Raise, Tables
  <2>4. QED
    BY <1>2, <2>1, <2>2, <2>3 DEF Same, Refused, Nothing
<1>6. CASE ~(subject \in DOMAIN d.bound \/ \E s \in DOMAIN d.bound : d.bound[s] = u)
  <2>1. PICK e : e = [d EXCEPT !.bound = Put(@, subject, u)]
    OBVIOUS
  <2>2. _bind_subject(d, u, subject) = Done(e)
    BY <1>6, <2>1 DEF _bind_subject
  <2>3. mem_bind_subject(m, u, subject) = [m EXCEPT !.bound = Put(@, subject, u)]
    BY <1>3, <1>4, <1>6 DEF mem_bind_subject
  <2>4. /\ e.bound = Put(d.bound, subject, u) /\ e.role = d.role /\ e.account = d.account
        /\ e.credential = d.credential /\ Parts(e)
    BY <2>1 DEF Parts
  <2>5. [m EXCEPT !.bound = Put(@, subject, u)] = Tables(e, rs, keys, t, Nothing)
    BY <1>2, <2>4 DEF Tables
  <2>6. QED
    BY <1>2, <2>2, <2>3, <2>4, <2>5 DEF Same, Done
<1>7. QED
  BY <1>5, <1>6

\* A command of its own writes an event that no stage is in the way of.
LEMMA SameEvent ==
    ASSUME NEW d, Parts(d), NEW rs, NEW keys, NEW t, NEW u, NEW c, NEW taken,
           taken \cap keys = {}
    PROVE  _write_audit(Tables(d, rs, keys, t, Nothing), u, c, taken)
               = Tables(d, rs, keys \cup taken, derive_audit(t, u, c), Nothing)
<1>1. PICK m : m = Tables(d, rs, keys, t, Nothing)
  OBVIOUS
<1>2. m.keys = keys /\ m.told = t /\ m.raised = Nothing
  BY <1>1 DEF Tables
<1>3. PICK n : n = Tables(d, rs, keys \cup taken, t, Nothing)
  OBVIOUS
<1>4. [m EXCEPT !.keys = @ \cup taken] = n
  BY <1>1, <1>3 DEF Tables
<1>5. _append_locked(m, taken) = n
  BY <1>2, <1>4 DEF _append_locked
<1>6. n.raised = Nothing /\ n.told = t
  BY <1>3 DEF Tables
<1>7. PICK b : b = derive_audit(t, u, c)
  OBVIOUS
<1>8. [n EXCEPT !.told = derive_audit(@, u, c)]
          = Tables(d, rs, keys \cup taken, b, Nothing)
  BY <1>3, <1>6, <1>7 DEF Tables
<1>9. _write_audit(m, u, c, taken) = Tables(d, rs, keys \cup taken, b, Nothing)
  BY <1>5, <1>6, <1>8 DEF _write_audit, Do
<1>10. QED
  BY <1>1, <1>7, <1>9

LEMMA SameTold ==
    ASSUME NEW d, Parts(d), NEW rs, NEW keys, NEW t, NEW c, NEW m,
           m = Tables(d, rs, keys, t, Nothing)
    PROVE  /\ m.raised = Nothing
           /\ _write_audit(m, c.user, c, {})
                  = Tables(d, rs, keys, derive_audit(t, c.user, c), Nothing)
<1>1. m.raised = Nothing
  BY DEF Tables
<1>2. _write_audit(m, c.user, c, {})
          = Tables(d, rs, keys \cup {}, derive_audit(t, c.user, c), Nothing)
  BY SameEvent
<1>3. keys \cup {} = keys
  OBVIOUS
<1>4. QED
  BY <1>1, <1>2, <1>3

\* What maintenance may do has the same effect in memory.
LEMMA SameMaintenance ==
    ASSUME NEW d, DirectoryFits(d), NEW rs, NEW keys, NEW t, NEW c \in Upkeep,
           ApplyCommand(d, c).ok
    PROVE  _apply_locked(Tables(d, rs, keys, t, Nothing), NoPrincipal, c, Nothing)
               = Tables(ApplyCommand(d, c).dir, rs, keys,
                        derive_audit(t, c.user, c), Nothing)
<1>k. c.kind \in {"create_user", "set_status", "assign_role", "revoke_role", "bind", "unbind"}
  BY AccessAssumption
<1>d. Parts(d)
  BY DEF DirectoryFits, Parts
<1>m. PICK m : m = Tables(d, rs, keys, t, Nothing)
  OBVIOUS
<1>f. /\ m.account = d.account /\ m.role = d.role /\ m.bound = d.bound /\ m.raised = Nothing
  BY <1>m DEF Tables
<1>e. PICK e : e = ApplyCommand(d, c).dir
  OBVIOUS
<1>w. ASSUME NEW x, x = Tables(e, rs, keys, t, Nothing), Parts(e),
             _apply_locked(m, NoPrincipal, c, Nothing)
                 = Do(x, LAMBDA n : _write_audit(n, c.user, c, {}))
      PROVE  _apply_locked(m, NoPrincipal, c, Nothing)
                 = Tables(e, rs, keys, derive_audit(t, c.user, c), Nothing)
  BY <1>w, SameTold DEF Do
<1>1. CASE c.kind = "create_user"
  <2>1. PICK r : r = _insert_account(d, c.user, c.actor, c.display)
    OBVIOUS
  <2>2. r.ok /\ e = _upsert_role(r.dir, c.user, c.role)
    BY <1>1, <1>e, <2>1 DEF ApplyCommand, CreateUser, Then, Done
  <2>3. PICK n : n = mem_insert_account(m, c.user, c.actor, c.display)
    OBVIOUS
  <2>4. n = Tables(r.dir, rs, keys, t, Nothing) /\ Parts(r.dir)
    BY <1>d, <1>m, <2>1, <2>2, <2>3, SameAccount DEF Same
  <2>5. n.raised = Nothing
    BY <2>4 DEF Tables
  <2>6. PICK x : x = mem_upsert_role(n, c.user, c.role)
    OBVIOUS
  <2>7. x = Tables(e, rs, keys, t, Nothing) /\ Parts(e)
    BY <2>2, <2>4, <2>6, SameRole
  <2>8. _create_user(m, c) = x
    BY <2>3, <2>5, <2>6 DEF _create_user, Do
  <2>9. _apply_locked(m, NoPrincipal, c, Nothing)
            = Do(x, LAMBDA n1 : _write_audit(n1, c.user, c, {}))
    BY <1>1, <2>8 DEF _apply_locked
  <2>10. QED
    BY <1>e, <1>m, <1>w, <2>7, <2>9
<1>2. CASE c.kind = "set_status"
  <2>1. /\ c.user \in DOMAIN d.account /\ c.user \in DOMAIN d.role
        /\ e = [d EXCEPT !.account[c.user].status = c.status]
    BY <1>2, <1>e DEF ApplyCommand, SetUserStatus, Refused, Done
  <2>2. PICK account : account = [d.account EXCEPT ![c.user].status = c.status]
    OBVIOUS
  <2>3. /\ e.account = account /\ e.role = d.role /\ e.bound = d.bound
        /\ e.credential = d.credential /\ Parts(e)
    BY <1>d, <2>1, <2>2 DEF Parts
  <2>4. PICK x : x = [m EXCEPT !.account[c.user].status = c.status]
    OBVIOUS
  <2>5. x = Tables(e, rs, keys, t, Nothing)
    BY <1>m, <2>2, <2>3, <2>4 DEF Tables
  <2>6. _set_status(m, c) = x
    BY <1>f, <2>1, <2>4 DEF _set_status, _require_account, Do
  <2>7. _apply_locked(m, NoPrincipal, c, Nothing)
            = Do(x, LAMBDA n : _write_audit(n, c.user, c, {}))
    BY <1>2, <2>6 DEF _apply_locked
  <2>8. QED
    BY <1>e, <1>m, <1>w, <2>3, <2>5, <2>7
<1>3. CASE c.kind = "assign_role"
  <2>1. c.user \in DOMAIN d.account /\ e = _upsert_role(d, c.user, c.role)
    BY <1>3, <1>e DEF ApplyCommand, AssignRole, Refused, Done
  <2>2. PICK x : x = mem_upsert_role(m, c.user, c.role)
    OBVIOUS
  <2>3. x = Tables(e, rs, keys, t, Nothing) /\ Parts(e)
    BY <1>d, <1>m, <2>1, <2>2, SameRole
  <2>4. _assign_role(m, c) = x
    BY <1>f, <2>1, <2>2 DEF _assign_role, _require_account, Do
  <2>5. _apply_locked(m, NoPrincipal, c, Nothing)
            = Do(x, LAMBDA n : _write_audit(n, c.user, c, {}))
    BY <1>3, <2>4 DEF _apply_locked
  <2>6. QED
    BY <1>e, <1>m, <1>w, <2>3, <2>5
<1>4. CASE c.kind = "revoke_role"
  <2>1. /\ c.user \in DOMAIN d.account /\ c.user \in DOMAIN d.role
        /\ e = [d EXCEPT !.role = Without(@, c.user)]
    BY <1>4, <1>e DEF ApplyCommand, RevokeRole, Refused, Done
  <2>2. /\ e.role = Without(d.role, c.user) /\ e.account = d.account /\ e.bound = d.bound
        /\ e.credential = d.credential /\ Parts(e)
    BY <1>d, <2>1 DEF Parts
  <2>3. PICK x : x = [m EXCEPT !.role = Without(@, c.user)]
    OBVIOUS
  <2>4. x = Tables(e, rs, keys, t, Nothing)
    BY <1>m, <2>2, <2>3 DEF Tables
  <2>5. _revoke_role(m, c) = x
    BY <1>f, <2>1, <2>3 DEF _revoke_role, _require_account, Do
  <2>6. _apply_locked(m, NoPrincipal, c, Nothing)
            = Do(x, LAMBDA n : _write_audit(n, c.user, c, {}))
    BY <1>4, <2>5 DEF _apply_locked
  <2>7. QED
    BY <1>e, <1>m, <1>w, <2>2, <2>4, <2>6
<1>5. CASE c.kind = "bind"
  <2>1. /\ c.user \in DOMAIN d.account /\ e = _bind_subject(d, c.user, c.subject).dir
        /\ _bind_subject(d, c.user, c.subject).ok
    BY <1>5, <1>e DEF ApplyCommand, BindExternalIdentity, Refused
  <2>2. PICK x : x = mem_bind_subject(m, c.user, c.subject)
    OBVIOUS
  <2>3. x = Tables(e, rs, keys, t, Nothing) /\ Parts(e)
    BY <1>d, <1>m, <2>1, <2>2, SameBinding DEF Same
  <2>4. _bind_identity(m, c) = x
    BY <1>f, <2>1, <2>2 DEF _bind_identity, _require_account, Do
  <2>5. _apply_locked(m, NoPrincipal, c, Nothing)
            = Do(x, LAMBDA n : _write_audit(n, c.user, c, {}))
    BY <1>5, <2>4 DEF _apply_locked
  <2>6. QED
    BY <1>e, <1>m, <1>w, <2>3, <2>5
<1>6. CASE c.kind = "unbind"
  <2>1. PICK mine : mine = {s \in DOMAIN d.bound : d.bound[s] = c.user}
    OBVIOUS
  <2>2. /\ c.user \in DOMAIN d.account /\ mine # {}
        /\ e = [d EXCEPT !.bound = [s \in DOMAIN @ \ mine |-> @[s]]]
    BY <1>6, <1>e, <2>1 DEF ApplyCommand, UnbindExternalIdentity, Refused, Done
  <2>3. PICK s \in mine : s = CHOOSE y \in mine : TRUE
    BY <2>2
  <2>4. mine = {s}
    BY <2>1, <2>3 DEF DirectoryFits
  <2>5. PICK bound : bound = Without(d.bound, s)
    OBVIOUS
  <2>6. [y \in DOMAIN d.bound \ mine |-> d.bound[y]] = bound
    BY <2>4, <2>5 DEF Without
  <2>7. /\ e.bound = bound /\ e.account = d.account /\ e.role = d.role
        /\ e.credential = d.credential /\ Parts(e)
    BY <1>d, <2>2, <2>6 DEF Parts
  <2>8. _binding_key_of(m, c.user) = mine
    BY <1>f, <2>1 DEF _binding_key_of
  <2>9. PICK x : x = [m EXCEPT !.bound = Without(@, s)]
    OBVIOUS
  <2>10. x = Tables(e, rs, keys, t, Nothing)
    BY <1>m, <2>5, <2>7, <2>9 DEF Tables
  <2>11. Without(m.bound, CHOOSE y \in _binding_key_of(m, c.user) : TRUE) = Without(m.bound, s)
    BY <2>3, <2>8
  <2>12. _unbind_identity(m, c) = x
    <3>1. _require_account(m, c.user) = m
      BY <1>f, <2>2 DEF _require_account
    <3>2. _unbind_identity(m, c)
              = [m EXCEPT !.bound = Without(@, CHOOSE y \in _binding_key_of(m, c.user) : TRUE)]
      BY <1>f, <2>2, <2>8, <3>1 DEF _unbind_identity, Do
    <3>3. QED
      BY <2>9, <2>11, <3>2
  <2>13. _apply_locked(m, NoPrincipal, c, Nothing)
             = Do(x, LAMBDA n : _write_audit(n, c.user, c, {}))
    BY <1>6, <2>12 DEF _apply_locked
  <2>14. QED
    BY <1>e, <1>m, <1>w, <2>7, <2>10, <2>13
<1>7. QED
  BY <1>k, <1>1, <1>2, <1>3, <1>4, <1>5, <1>6

-----------------------------------------------------------------------------
\* The administrator is judged alike.
LEMMA SameAdmin ==
    ASSUME NEW d, NEW rs, NEW keys, NEW t, NEW actor
    PROVE  LET m == Tables(d, rs, keys, t, Nothing)
               n == _require_admin(m, actor) IN
           IF _require_admin_for_update(d, actor) THEN n = m ELSE n.raised = "denied"
<1>1. PICK m : m = Tables(d, rs, keys, t, Nothing)
  OBVIOUS
<1>2. m.account = d.account /\ m.role = d.role /\ m.bound = d.bound
  BY <1>1 DEF Tables
<1>3. Raise(m, "denied").raised = "denied"
  BY <1>1 DEF Raise, Tables
<1>4. _binding_key_of(m, actor.user) # {} <=> \E s \in DOMAIN d.bound : d.bound[s] = actor.user
  BY <1>2 DEF _binding_key_of
<1>5. RoleOf(d, actor.user) = "ADMIN" <=>
          actor.user \in DOMAIN d.role /\ d.role[actor.user] = "ADMIN"
  BY DEF RoleOf, Nothing
<1>6. CASE _require_admin_for_update(d, actor)
  <2>1. _require_admin(m, actor) = m
    BY <1>2, <1>4, <1>5, <1>6 DEF _require_admin, _require_admin_for_update
  <2>2. QED
    BY <1>1, <1>6, <2>1
<1>7. CASE ~_require_admin_for_update(d, actor)
  <2>1. _require_admin(m, actor) = Raise(m, "denied")
    BY <1>2, <1>4, <1>5, <1>7 DEF _require_admin, _require_admin_for_update
  <2>2. QED
    BY <1>1, <1>3, <1>7, <2>1
<1>8. QED
  BY <1>6, <1>7

\* What an administrator changes of a user is refused alike and changes the same.
LEMMA SameManagedChange ==
    ASSUME NEW d, DirectoryFits(d), NEW rs, NEW keys, NEW t, NEW c \in Commands,
           c.kind \in {"set_status", "change_role"}, NEW actor, actor # NoPrincipal, NEW r
    PROVE  LET result == _apply_managed_user_change(d, actor, c)
               m == _apply_locked(Tables(d, rs, keys, t, Nothing), actor, c, r) IN
           /\ m.raised = result.why
           /\ result.ok <=> result.why = Nothing
           /\ result.ok => m = Tables(result.dir, rs, keys,
                                      derive_audit(t, c.user, c), Nothing)
<1>d. Parts(d)
  BY DEF DirectoryFits, Parts
<1>m. PICK m : m = Tables(d, rs, keys, t, Nothing)
  OBVIOUS
<1>f. /\ m.account = d.account /\ m.role = d.role /\ m.bound = d.bound /\ m.raised = Nothing
      /\ \A why : Raise(m, why).raised = why
  BY <1>m DEF Tables, Raise
<1>r. PICK result : result = _apply_managed_user_change(d, actor, c)
  OBVIOUS
<1>x. PICK x : x = IF c.kind = "set_status" THEN _set_managed_status(m, actor, c)
                   ELSE _change_managed_role(m, actor, c)
  OBVIOUS
<1>a. _apply_locked(m, actor, c, r) = Do(x, LAMBDA n : _write_audit(n, c.user, c, {}))
  <2>1. CASE c.kind = "set_status"
    BY <1>x, <2>1 DEF _apply_locked
  <2>2. CASE c.kind = "change_role"
    BY <1>x, <2>2 DEF _apply_locked
  <2>3. QED
    BY <2>1, <2>2
<1>b. ASSUME NEW why, why # Nothing, result = Refused(why), x.raised = why
      PROVE  /\ _apply_locked(m, actor, c, r).raised = why
             /\ result.why = why /\ ~result.ok
  BY <1>a, <1>b DEF Do, Refused
<1>t. PICK target : target = _managed_target(m, c.user)
  OBVIOUS
<1>1. CASE ~_require_admin_for_update(d, actor)
  <2>1. result = Refused("denied")
    BY <1>r, <1>1 DEF _apply_managed_user_change
  <2>2. PICK n : n = _require_admin(m, actor)
    OBVIOUS
  <2>3. n.raised = "denied" /\ n.raised # Nothing
    BY <1>m, <1>1, <2>2, SameAdmin DEF Nothing
  <2>4. x = n
    BY <1>x, <2>2, <2>3 DEF _set_managed_status, _change_managed_role, Do
  <2>5. QED
    BY <1>b, <1>m, <1>r, <2>1, <2>3, <2>4
<1>2. CASE _require_admin_for_update(d, actor) /\ target.raised # Nothing
  <2>1. _require_admin(m, actor) = m
    BY <1>m, <1>2, SameAdmin
  <2>2. x = target
    BY <1>f, <1>t, <1>x, <1>2, <2>1 DEF _set_managed_status, _change_managed_role, Do
  <2>3. CASE c.user \notin DOMAIN d.account \/ c.user \notin DOMAIN d.role
    <3>1. result = Refused("not_found")
      BY <1>r, <1>2, <2>3 DEF _apply_managed_user_change
    <3>2. target.raised = "not_found"
      BY <1>f, <1>t, <2>3 DEF _managed_target
    <3>3. QED
      BY <1>b, <1>m, <1>r, <2>2, <3>1, <3>2 DEF Nothing
  <2>4. CASE c.user \in DOMAIN d.account /\ c.user \in DOMAIN d.role
    <3>1. d.role[c.user] = "ADMIN" /\ target.raised = "conflict"
      BY <1>f, <1>t, <1>2, <2>4 DEF _managed_target
    <3>2. result = Refused("conflict")
      BY <1>r, <1>2, <2>4, <3>1 DEF _apply_managed_user_change
    <3>3. QED
      BY <1>b, <1>m, <1>r, <2>2, <3>1, <3>2 DEF Nothing
  <2>5. QED
    BY <2>3, <2>4
<1>3. CASE _require_admin_for_update(d, actor) /\ target.raised = Nothing
  <2>1. _require_admin(m, actor) = m
    BY <1>m, <1>3, SameAdmin
  <2>2. /\ c.user \in DOMAIN d.account /\ c.user \in DOMAIN d.role
        /\ d.role[c.user] # "ADMIN" /\ target = m
    BY <1>f, <1>t, <1>3 DEF _managed_target, Nothing
  <2>3. CASE c.kind = "set_status"
    <3>1. PICK e : e = [d EXCEPT !.account[c.user].status = c.status]
      OBVIOUS
    <3>2. PICK y : y = [m EXCEPT !.account[c.user].status = c.status]
      OBVIOUS
    <3>3. PICK stale : stale = (\/ d.account[c.user].status # c.expected_status
                                \/ d.role[c.user] # c.expected_role)
      OBVIOUS
    <3>4. result = IF stale THEN Refused("conflict") ELSE Done(e)
      BY <1>r, <1>3, <2>2, <2>3, <3>1, <3>3 DEF _apply_managed_user_change
    <3>5. x = IF stale THEN Raise(m, "conflict") ELSE y
      BY <1>f, <1>t, <1>x, <1>3, <2>1, <2>2, <2>3, <3>2, <3>3 DEF _set_managed_status, Do
    <3>6. CASE stale
      BY <1>b, <1>f, <1>m, <1>r, <3>4, <3>5, <3>6 DEF Nothing
    <3>7. CASE ~stale
      <4>1. PICK account : account = [d.account EXCEPT ![c.user].status = c.status]
        OBVIOUS
      <4>2. /\ e.account = account /\ e.role = d.role /\ e.bound = d.bound
            /\ e.credential = d.credential /\ Parts(e)
        BY <1>d, <3>1, <4>1 DEF Parts
      <4>3. y = Tables(e, rs, keys, t, Nothing)
        BY <1>m, <3>2, <4>1, <4>2 DEF Tables
      <4>4. x = y /\ result = Done(e)
        BY <3>4, <3>5, <3>7
      <4>5. _apply_locked(m, actor, c, r)
                = Tables(e, rs, keys, derive_audit(t, c.user, c), Nothing)
        <5>1. x = Tables(e, rs, keys, t, Nothing)
          BY <4>3, <4>4
        <5>2. x.raised = Nothing
          BY <5>1 DEF Tables
        <5>3. _write_audit(x, c.user, c, {})
                  = Tables(e, rs, keys, derive_audit(t, c.user, c), Nothing)
          BY <4>2, <5>1, SameTold
        <5>4. QED
          BY <1>a, <5>2, <5>3 DEF Do
      <4>6. _apply_locked(m, actor, c, r).raised = Nothing
        BY <4>5 DEF Tables
      <4>7. QED
        BY <1>m, <1>r, <4>4, <4>5, <4>6 DEF Done
    <3>8. QED
      BY <3>6, <3>7
  <2>4. CASE c.kind = "change_role"
    <3>1. PICK e : e = [d EXCEPT !.role[c.user] = c.role]
      OBVIOUS
    <3>2. PICK y : y = [m EXCEPT !.role[c.user] = c.role]
      OBVIOUS
    <3>3. PICK stale : stale = (\/ d.account[c.user].status # "active"
                                \/ d.role[c.user] # c.expected_role)
      OBVIOUS
    <3>4. result = IF stale THEN Refused("conflict") ELSE Done(e)
      BY <1>r, <1>3, <2>2, <2>4, <3>1, <3>3 DEF _apply_managed_user_change
    <3>5. x = IF stale THEN Raise(m, "conflict") ELSE y
      BY <1>f, <1>t, <1>x, <1>3, <2>1, <2>2, <2>4, <3>2, <3>3 DEF _change_managed_role, Do
    <3>6. CASE stale
      BY <1>b, <1>f, <1>m, <1>r, <3>4, <3>5, <3>6 DEF Nothing
    <3>7. CASE ~stale
      <4>1. PICK role : role = [d.role EXCEPT ![c.user] = c.role]
        OBVIOUS
      <4>2. /\ e.account = d.account /\ e.role = role /\ e.bound = d.bound
            /\ e.credential = d.credential /\ Parts(e)
        BY <1>d, <3>1, <4>1 DEF Parts
      <4>3. y = Tables(e, rs, keys, t, Nothing)
        BY <1>m, <3>2, <4>1, <4>2 DEF Tables
      <4>4. x = y /\ result = Done(e)
        BY <3>4, <3>5, <3>7
      <4>5. _apply_locked(m, actor, c, r)
                = Tables(e, rs, keys, derive_audit(t, c.user, c), Nothing)
        <5>1. x = Tables(e, rs, keys, t, Nothing)
          BY <4>3, <4>4
        <5>2. x.raised = Nothing
          BY <5>1 DEF Tables
        <5>3. _write_audit(x, c.user, c, {})
                  = Tables(e, rs, keys, derive_audit(t, c.user, c), Nothing)
          BY <4>2, <5>1, SameTold
        <5>4. QED
          BY <1>a, <5>2, <5>3 DEF Do
      <4>6. _apply_locked(m, actor, c, r).raised = Nothing
        BY <4>5 DEF Tables
      <4>7. QED
        BY <1>m, <1>r, <4>4, <4>5, <4>6 DEF Done
    <3>8. QED
      BY <3>6, <3>7
  <2>5. QED
    BY <2>3, <2>4
<1>4. QED
  BY <1>1, <1>2, <1>3

\* Nothing to write is the same in both, and so is a refusal.
LEMMA SameRest ==
    ASSUME NEW d, Parts(d), NEW rs, NEW keys, NEW t, NEW why, why # Nothing
    PROVE  /\ Same(Tables(d, rs, keys, t, Nothing), Done(d), rs, keys, t)
           /\ Same(Raise(Tables(d, rs, keys, t, Nothing), why), Refused(why), rs, keys, t)
<1>1. Same(Tables(d, rs, keys, t, Nothing), Done(d), rs, keys, t)
  BY DEF Same, Done
<1>2. Raise(Tables(d, rs, keys, t, Nothing), why).raised = why
  BY DEF Raise, Tables
<1>3. Same(Raise(Tables(d, rs, keys, t, Nothing), why), Refused(why), rs, keys, t)
  BY <1>2 DEF Same, Refused
<1>4. QED
  BY <1>1, <1>3

\* The three facts of an approval, one after the other.
LEMMA SameApprovalFacts ==
    ASSUME NEW d, Parts(d), NEW rs, NEW keys, NEW t, NEW u, NEW c,
           NEW a, a = IF u \notin DOMAIN d.account THEN _insert_account(d, u, c.actor, c.display)
                      ELSE IF \/ d.account[u].actor # c.actor
                              \/ d.account[u].display # c.display
                              \/ d.account[u].status # "active"
                      THEN Refused("conflict") ELSE Done(d),
           NEW m, m = Tables(d, rs, keys, t, Nothing),
           NEW x, x = _approve_account(m, u, c)
    PROVE  Same(x, a, rs, keys, t)
<1>1. m.account = d.account
  BY DEF Tables
<1>2. CASE u \notin DOMAIN d.account
  <2>1. x = mem_insert_account(m, u, c.actor, c.display)
        /\ a = _insert_account(d, u, c.actor, c.display)
    BY <1>1, <1>2 DEF _approve_account
  <2>2. Same(mem_insert_account(Tables(d, rs, keys, t, Nothing), u, c.actor, c.display),
             _insert_account(d, u, c.actor, c.display), rs, keys, t)
    BY SameAccount
  <2>3. QED
    BY <2>1, <2>2
<1>3. CASE u \in DOMAIN d.account
  <2>1. \/ x = m /\ a = Done(d)
        \/ x = Raise(m, "conflict") /\ a = Refused("conflict")
    BY <1>1, <1>3 DEF _approve_account
  <2>2. Same(m, Done(d), rs, keys, t) /\ Same(Raise(m, "conflict"), Refused("conflict"), rs, keys, t)
    BY SameRest DEF Nothing
  <2>3. QED
    BY <2>1, <2>2
<1>4. QED
  BY <1>2, <1>3

LEMMA SameApprovalRole ==
    ASSUME NEW d, Parts(d), NEW rs, NEW keys, NEW t, NEW u, NEW c,
           NEW b, b = IF u \notin DOMAIN d.role THEN Done(_upsert_role(d, u, c.role))
                      ELSE IF d.role[u] # c.role THEN Refused("conflict") ELSE Done(d),
           NEW m, m = Tables(d, rs, keys, t, Nothing),
           NEW y, y = _approve_role(m, u, c)
    PROVE  Same(y, b, rs, keys, t)
<1>1. m.role = d.role
  BY DEF Tables
<1>2. CASE u \notin DOMAIN d.role
  <2>1. PICK e : e = _upsert_role(d, u, c.role)
    OBVIOUS
  <2>2. mem_upsert_role(m, u, c.role) = Tables(e, rs, keys, t, Nothing)
    BY <2>1, SameRole
  <2>3. Parts(e)
    BY <2>1, SameRole
  <2>4. y = Tables(e, rs, keys, t, Nothing) /\ b = Done(e)
    BY <1>1, <1>2, <2>1, <2>2 DEF _approve_role
  <2>5. b.ok = TRUE /\ b.dir = e /\ b.why = Nothing
    BY <2>4 DEF Done
  <2>6. QED
    BY <2>3, <2>4, <2>5 DEF Same
<1>3. CASE u \in DOMAIN d.role
  <2>1. \/ y = m /\ b = Done(d)
        \/ y = Raise(m, "conflict") /\ b = Refused("conflict")
    BY <1>1, <1>3 DEF _approve_role
  <2>2. Same(m, Done(d), rs, keys, t) /\ Same(Raise(m, "conflict"), Refused("conflict"), rs, keys, t)
    BY SameRest DEF Nothing
  <2>3. QED
    BY <2>1, <2>2
<1>4. QED
  BY <1>2, <1>3

LEMMA SameApprovalBinding ==
    ASSUME NEW d, Parts(d), NEW rs, NEW keys, NEW t, NEW u, NEW subject,
           NEW f, f = IF subject \notin DOMAIN d.bound THEN _bind_subject(d, u, subject)
                      ELSE IF d.bound[subject] # u THEN Refused("conflict") ELSE Done(d),
           NEW m, m = Tables(d, rs, keys, t, Nothing),
           NEW z, z = _approve_binding(m, u, subject)
    PROVE  Same(z, f, rs, keys, t)
<1>1. m.bound = d.bound
  BY DEF Tables
<1>2. CASE subject \notin DOMAIN d.bound
  <2>1. z = mem_bind_subject(m, u, subject) /\ f = _bind_subject(d, u, subject)
    BY <1>1, <1>2 DEF _approve_binding
  <2>2. Same(mem_bind_subject(Tables(d, rs, keys, t, Nothing), u, subject),
             _bind_subject(d, u, subject), rs, keys, t)
    BY SameBinding
  <2>3. QED
    BY <2>1, <2>2
<1>3. CASE subject \in DOMAIN d.bound
  <2>1. \/ z = m /\ f = Done(d)
        \/ z = Raise(m, "conflict") /\ f = Refused("conflict")
    BY <1>1, <1>3 DEF _approve_binding
  <2>2. Same(m, Done(d), rs, keys, t) /\ Same(Raise(m, "conflict"), Refused("conflict"), rs, keys, t)
    BY SameRest DEF Nothing
  <2>3. QED
    BY <2>1, <2>2
<1>4. QED
  BY <1>2, <1>3

\* A decided request is the same row, field by field in memory and at once in PostgreSQL,
\* which clears a role that an undecided request does not have.
Decision(rs, r, c) == [rs EXCEPT ![r] = Decided(@, c)]
LEMMA SameRequest ==
    ASSUME NEW rs, NEW r \in DOMAIN rs, DOMAIN rs[r] = RequestFields, NEW c
    PROVE  /\ c.kind = "approve" =>
                  [rs EXCEPT ![r] = [@ EXCEPT !.status = "APPROVED", !.role = c.role]]
                      = Decision(rs, r, c)
           /\ c.kind = "reject" /\ rs[r].role = Nothing =>
                  [rs EXCEPT ![r].status = "REJECTED"] = Decision(rs, r, c)
<1>1. PICK row : row = rs[r]
  OBVIOUS
<1>2. CASE c.kind = "approve"
  BY <1>2 DEF Decision, Decided
<1>3. CASE c.kind = "reject" /\ row.role = Nothing
  <2>1. PICK new : new = [row EXCEPT !.status = "REJECTED", !.role = Nothing]
    OBVIOUS
  <2>2. [row EXCEPT !.status = "REJECTED"] = new
    BY <1>1, <1>3, <2>1 DEF RequestFields
  <2>3. Decision(rs, r, c) = [rs EXCEPT ![r] = new]
    BY <1>1, <1>3, <2>1 DEF Decision, Decided
  <2>4. QED
    BY <1>1, <1>3, <2>2, <2>3
<1>4. QED
  BY <1>1, <1>2, <1>3

\* An activation request is decided alike.
LEMMA SameDecision ==
    ASSUME NEW d, DirectoryFits(d), NEW rs, NEW keys, NEW t, NEW c \in Commands,
           c.kind \in {"approve", "reject"}, NEW actor, NEW r \in DOMAIN rs,
           DOMAIN rs[r] = RequestFields, rs[r].status # "APPROVED" => rs[r].role = Nothing
    PROVE  LET result == _decide_activation(d, actor, rs[r], c)
               m == _apply_locked(Tables(d, rs, keys, t, Nothing), actor, c, r) IN
           /\ m.raised = result.why
           /\ result.ok <=> result.why = Nothing
           /\ result.ok =>
                  m = Tables(result.dir, Decision(rs, r, c), keys, derive_audit(t, r, c), Nothing)
<1>d. Parts(d)
  BY DEF DirectoryFits, Parts
<1>m. PICK m : m = Tables(d, rs, keys, t, Nothing)
  OBVIOUS
<1>f. /\ m.account = d.account /\ m.role = d.role /\ m.bound = d.bound /\ m.raised = Nothing
      /\ m.requests = rs /\ \A why : Raise(m, why).raised = why
  BY <1>m DEF Tables, Raise
<1>r. PICK result : result = _decide_activation(d, actor, rs[r], c)
  OBVIOUS
<1>n. PICK n : n = Do(_require_admin(m, actor), LAMBDA x : _activation_for_decision(x, r))
  OBVIOUS
<1>g. PICK got : got = _apply_locked(m, actor, c, r)
  OBVIOUS
<1>a. n.raised # Nothing => got = n
  <2>1. SUFFICES ASSUME n.raised # Nothing PROVE got = n
    OBVIOUS
  <2>2. CASE c.kind = "approve"
    <3>1. got = _approve_activation(m, actor, c, r)
      BY <1>g, <2>2 DEF _apply_locked
    <3>2. QED
      BY <1>n, <2>1, <3>1 DEF _approve_activation, Do
  <2>3. CASE c.kind = "reject"
    <3>1. got = _reject_activation(m, actor, c, r)
      BY <1>g, <2>3 DEF _apply_locked
    <3>2. QED
      BY <1>n, <2>1, <3>1 DEF _reject_activation, Do
  <2>4. QED
    BY <2>2, <2>3
<1>1. CASE ~_require_admin_for_update(d, actor)
  <2>1. result = Refused("denied")
    BY <1>r, <1>1 DEF _decide_activation
  <2>2. PICK x : x = _require_admin(m, actor)
    OBVIOUS
  <2>3. x.raised = "denied" /\ x.raised # Nothing
    BY <1>m, <1>1, <2>2, SameAdmin DEF Nothing
  <2>4. n = x
    BY <1>n, <2>2, <2>3 DEF Do
  <2>5. got.raised = "denied"
    BY <1>a, <2>3, <2>4
  <2>6. QED
    BY <1>m, <1>r, <1>g, <2>1, <2>5 DEF Refused, Nothing
<1>2. CASE _require_admin_for_update(d, actor)
           /\ ~(rs[r].status = "PENDING" /\ rs[r].age = "fresh")
  <2>1. _require_admin(m, actor) = m
    BY <1>m, <1>2, SameAdmin
  <2>2. PICK why : why = IF rs[r].status = Nothing THEN "denied" ELSE "conflict"
    OBVIOUS
  <2>3. result = Refused(why)
    BY <1>r, <1>2, <2>2 DEF _decide_activation
  <2>4. n = Raise(m, why)
    BY <1>f, <1>n, <1>2, <2>1, <2>2 DEF _activation_for_decision, Do, Nothing
  <2>5. why # Nothing
    BY <2>2 DEF Nothing
  <2>6. got.raised = why
    BY <1>a, <1>f, <2>4, <2>5
  <2>7. QED
    BY <1>m, <1>r, <1>g, <2>3, <2>5, <2>6 DEF Refused
<1>3. CASE _require_admin_for_update(d, actor) /\ rs[r].status = "PENDING" /\ rs[r].age = "fresh"
  <2>1. _require_admin(m, actor) = m
    BY <1>m, <1>3, SameAdmin
  <2>2. n = m
    BY <1>f, <1>n, <1>3, <2>1 DEF _activation_for_decision, Do, Nothing
  <2>3. CASE c.kind = "reject"
    <3>1. result = Done(d)
      BY <1>r, <1>3, <2>3 DEF _decide_activation, Nothing
    <3>2. got = _reject_activation(m, actor, c, r)
      BY <1>g, <2>3 DEF _apply_locked
    <3>3. got = _write_audit([m EXCEPT !.requests[r].status = "REJECTED"], r, c, {})
      BY <1>f, <1>n, <2>2, <3>2 DEF _reject_activation, Do
    <3>4. PICK qs : qs = Decision(rs, r, c)
      OBVIOUS
    <3>5. PICK v : v = derive_audit(t, r, c)
      OBVIOUS
    <3>6. [rs EXCEPT ![r].status = "REJECTED"] = qs
      <4>1. rs[r].role = Nothing
        BY <1>3
      <4>2. QED
        BY <2>3, <3>4, <4>1, SameRequest
    <3>7. [m EXCEPT !.requests[r].status = "REJECTED"] = Tables(d, qs, keys, t, Nothing)
      BY <1>m, <3>6 DEF Tables
    <3>8. got = Tables(d, qs, keys \cup {}, v, Nothing)
      BY <1>d, <3>3, <3>5, <3>7, SameEvent
    <3>9. keys \cup {} = keys
      OBVIOUS
    <3>10. got.raised = Nothing
      BY <3>8 DEF Tables
    <3>11. QED
      BY <1>m, <1>r, <1>g, <3>1, <3>4, <3>5, <3>8, <3>9, <3>10 DEF Done
  <2>4. CASE c.kind = "approve"
    <3>1. PICK subject : subject = rs[r].subject
      OBVIOUS
    <3>2. PICK u : u = ActivationAccount(d, c, subject)
      OBVIOUS
    <3>3. PICK a : a = IF u \notin DOMAIN d.account THEN _insert_account(d, u, c.actor, c.display)
                       ELSE IF \/ d.account[u].actor # c.actor
                               \/ d.account[u].display # c.display
                               \/ d.account[u].status # "active"
                       THEN Refused("conflict") ELSE Done(d)
      OBVIOUS
    <3>4. PICK b : b = IF ~a.ok THEN a
                       ELSE IF u \notin DOMAIN a.dir.role THEN Done(_upsert_role(a.dir, u, c.role))
                       ELSE IF a.dir.role[u] # c.role THEN Refused("conflict") ELSE Done(a.dir)
      OBVIOUS
    <3>5. PICK f : f = IF ~b.ok THEN b
                       ELSE IF subject \notin DOMAIN b.dir.bound THEN _bind_subject(b.dir, u, subject)
                       ELSE IF b.dir.bound[subject] # u THEN Refused("conflict") ELSE Done(b.dir)
      OBVIOUS
    <3>6. result = f
      <4>1. result = _approve_activation_facts(d, c, subject)
        BY <1>r, <1>3, <2>4, <3>1 DEF _decide_activation, Nothing
      <4>2. QED
        BY <3>2, <3>3, <3>4, <3>5, <4>1 DEF _approve_activation_facts, Then
    <3>7. PICK x : x = _approve_account(m, u, c)
      OBVIOUS
    <3>8. PICK y : y = IF x.raised # Nothing THEN x ELSE _approve_role(x, u, c)
      OBVIOUS
    <3>9. PICK z : z = IF y.raised # Nothing THEN y ELSE _approve_binding(y, u, subject)
      OBVIOUS
    <3>10. PICK w : w = IF z.raised # Nothing THEN z
                        ELSE _write_audit(_mark_approved(z, r, c), r, c, {})
      OBVIOUS
    <3>11. got = w
      <4>1. got = _approve_activation(m, actor, c, r)
        BY <1>g, <2>4 DEF _apply_locked
      <4>2. u = LET named == {v \in DOMAIN m.account : m.account[v].actor = c.actor}
                IN  IF named # {} THEN CHOOSE v \in named : TRUE ELSE activation_user_id(subject)
        BY <1>f, <3>2 DEF ActivationAccount
      <4>3. subject = m.requests[r].subject
        BY <1>f, <3>1
      <4>4. Do(_require_admin(m, actor), LAMBDA v : _activation_for_decision(v, r)) = m
        BY <1>n, <2>2
      <4>5. QED
        BY <1>f, <3>7, <3>8, <3>9, <3>10, <4>1, <4>2, <4>3, <4>4 DEF _approve_activation, Do
    <3>12. Same(x, a, rs, keys, t)
      BY <1>d, <1>m, <3>3, <3>7, SameApprovalFacts
    <3>13. Same(y, b, rs, keys, t)
      <4>1. CASE a.ok
        <5>1. x = Tables(a.dir, rs, keys, t, Nothing) /\ Parts(a.dir) /\ x.raised = Nothing
          BY <3>12, <4>1 DEF Same, Tables
        <5>2. b = IF u \notin DOMAIN a.dir.role THEN Done(_upsert_role(a.dir, u, c.role))
                  ELSE IF a.dir.role[u] # c.role THEN Refused("conflict") ELSE Done(a.dir)
          BY <3>4, <4>1
        <5>3. y = _approve_role(x, u, c)
          BY <3>8, <5>1
        <5>4. QED
          BY <5>1, <5>2, <5>3, SameApprovalRole
      <4>2. CASE ~a.ok
        <5>1. x.raised = a.why /\ a.why # Nothing
          BY <3>12, <4>2 DEF Same
        <5>2. y = x /\ b = a
          BY <3>4, <3>8, <4>2, <5>1
        <5>3. QED
          BY <3>12, <5>2
      <4>3. QED
        BY <4>1, <4>2
    <3>14. Same(z, f, rs, keys, t)
      <4>1. CASE b.ok
        <5>1. y = Tables(b.dir, rs, keys, t, Nothing) /\ Parts(b.dir) /\ y.raised = Nothing
          BY <3>13, <4>1 DEF Same, Tables
        <5>2. f = IF subject \notin DOMAIN b.dir.bound THEN _bind_subject(b.dir, u, subject)
                  ELSE IF b.dir.bound[subject] # u THEN Refused("conflict") ELSE Done(b.dir)
          BY <3>5, <4>1
        <5>3. z = _approve_binding(y, u, subject)
          BY <3>9, <5>1
        <5>4. QED
          BY <5>1, <5>2, <5>3, SameApprovalBinding
      <4>2. CASE ~b.ok
        <5>1. y.raised = b.why /\ b.why # Nothing
          BY <3>13, <4>2 DEF Same
        <5>2. z = y /\ f = b
          BY <3>5, <3>9, <4>2, <5>1
        <5>3. QED
          BY <3>13, <5>2
      <4>3. QED
        BY <4>1, <4>2
    <3>15. CASE ~f.ok
      <4>1. z.raised = f.why /\ f.why # Nothing
        BY <3>14, <3>15 DEF Same
      <4>2. got.raised = f.why
        BY <3>10, <3>11, <4>1
      <4>3. QED
        BY <1>m, <1>r, <1>g, <3>6, <3>15, <4>1, <4>2
    <3>16. CASE f.ok
      <4>1. z = Tables(f.dir, rs, keys, t, Nothing) /\ Parts(f.dir) /\ f.why = Nothing
        BY <3>14, <3>16 DEF Same
      <4>2. PICK qs : qs = Decision(rs, r, c)
        OBVIOUS
      <4>3. [rs EXCEPT ![r] = [@ EXCEPT !.status = "APPROVED", !.role = c.role]] = qs
        BY <2>4, <4>2, SameRequest
      <4>4. _mark_approved(z, r, c) = Tables(f.dir, qs, keys, t, Nothing) /\ z.raised = Nothing
        BY <4>1, <4>3 DEF Tables, _mark_approved
      <4>5. PICK v : v = derive_audit(t, r, c)
        OBVIOUS
      <4>6. _write_audit(Tables(f.dir, qs, keys, t, Nothing), r, c, {})
                = Tables(f.dir, qs, keys \cup {}, v, Nothing)
        BY <4>1, <4>5, SameEvent
      <4>7. keys \cup {} = keys
        OBVIOUS
      <4>8. got = Tables(f.dir, qs, keys, v, Nothing)
        BY <3>10, <3>11, <4>4, <4>6, <4>7
      <4>9. got.raised = Nothing
        BY <4>8 DEF Tables
      <4>10. QED
        BY <1>m, <1>r, <1>g, <3>6, <3>16, <4>1, <4>2, <4>5, <4>8, <4>9
    <3>17. QED
      BY <3>15, <3>16
  <2>5. QED
    BY <2>3, <2>4
<1>4. QED
  BY <1>1, <1>2, <1>3

\* seed_if_absent links the local administrator alike.
LEMMA SameBootstrap ==
    ASSUME NEW d, DirectoryFits(d), NEW rs, NEW keys, NEW t, ~d.credential.linked,
           _bootstrap_in_transaction(d).ok
    PROVE  _apply_locked(Tables(d, rs, keys, t, Nothing), NoPrincipal, [kind |-> "bootstrap"],
                         Nothing)
               = Tables(_bootstrap_in_transaction(d).dir, rs, keys,
                        derive_audit(t, LOCAL_ADMIN_USER_ID, [kind |-> "bootstrap"]), Nothing)
<1>d. Parts(d) /\ d.credential \in [seeded : BOOLEAN, linked : BOOLEAN, version : Nat,
                                    must_change : BOOLEAN]
  BY DEF DirectoryFits, Parts
<1>m. PICK m : m = Tables(d, rs, keys, t, Nothing)
  OBVIOUS
<1>1. PICK u : u = LOCAL_ADMIN_USER_ID
  OBVIOUS
<1>2. PICK r : r = _insert_account(d, u, LOCAL_ADMIN_ACTOR, LOCAL_ADMIN_ACTOR)
  OBVIOUS
<1>3. PICK f : f = _upsert_role(r.dir, u, "ADMIN")
  OBVIOUS
<1>4. PICK e : e = [f EXCEPT !.credential = IF @.seeded THEN [@ EXCEPT !.linked = TRUE]
                   ELSE [seeded |-> TRUE, linked |-> TRUE, version |-> 1, must_change |-> TRUE]]
  OBVIOUS
<1>5. r.ok /\ _bootstrap_in_transaction(d).dir = e
  BY <1>1, <1>2, <1>3, <1>4 DEF _bootstrap_in_transaction, Then, Done, Refused
<1>6. PICK x : x = mem_insert_account(m, u, LOCAL_ADMIN_ACTOR, LOCAL_ADMIN_ACTOR)
  OBVIOUS
<1>7. Same(x, r, rs, keys, t)
  BY <1>d, <1>m, <1>2, <1>6, SameAccount
<1>8. x = Tables(r.dir, rs, keys, t, Nothing) /\ Parts(r.dir) /\ x.raised = Nothing
  BY <1>5, <1>7 DEF Same, Tables
<1>9. r.dir.credential = d.credential
  BY <1>d, <1>2, <1>5 DEF _insert_account, Refused, Done, Parts
<1>10. PICK y : y = mem_upsert_role(x, u, "ADMIN")
  OBVIOUS
<1>11. y = Tables(f, rs, keys, t, Nothing)
  BY <1>3, <1>8, <1>10, SameRole
<1>12. Parts(f)
  BY <1>3, <1>8, SameRole
<1>13. f.credential = d.credential
  BY <1>3, <1>8, <1>9 DEF _upsert_role, Parts
<1>14. PICK k : k = [seeded |-> TRUE, linked |-> TRUE,
                     version |-> IF d.credential.seeded THEN d.credential.version ELSE 1,
                     must_change |-> ~d.credential.seeded \/ d.credential.must_change]
  OBVIOUS
<1>15. k = IF d.credential.seeded THEN [d.credential EXCEPT !.linked = TRUE]
           ELSE [seeded |-> TRUE, linked |-> TRUE, version |-> 1, must_change |-> TRUE]
  BY <1>d, <1>14
<1>16. /\ e.account = f.account /\ e.role = f.role /\ e.bound = f.bound /\ e.credential = k
       /\ Parts(e)
  BY <1>4, <1>12, <1>13, <1>15 DEF Parts
<1>17. PICK z : z = [y EXCEPT !.local_admin = k]
  OBVIOUS
<1>18. z = Tables(e, rs, keys, t, Nothing)
  BY <1>11, <1>16, <1>17 DEF Tables
<1>19. PICK w : w = _write_audit(z, u, [kind |-> "bootstrap"], {})
  OBVIOUS
<1>20. w = Tables(e, rs, keys \cup {},
                  derive_audit(t, u, [kind |-> "bootstrap"]), Nothing)
  BY <1>16, <1>18, <1>19, SameEvent
<1>21. keys \cup {} = keys
  OBVIOUS
<1>22. _bootstrap(m) = w
  <2>1. m.local_admin = d.credential /\ m.raised = Nothing
    BY <1>m DEF Tables
  <2>2. y.raised = Nothing /\ y.local_admin = d.credential
    BY <1>11, <1>13 DEF Tables
  <2>3. z = [y EXCEPT !.local_admin =
                 [seeded |-> TRUE, linked |-> TRUE,
                  version |-> IF y.local_admin.seeded THEN y.local_admin.version ELSE 1,
                  must_change |-> ~y.local_admin.seeded \/ y.local_admin.must_change]]
    BY <1>14, <1>17, <2>2
  <2>4. QED
    BY <1>1, <1>6, <1>8, <1>10, <1>19, <2>1, <2>2, <2>3 DEF _bootstrap, Do
<1>23. _apply_locked(m, NoPrincipal, [kind |-> "bootstrap"], Nothing) = w
  BY <1>22 DEF _apply_locked
<1>24. QED
  BY <1>1, <1>m, <1>5, <1>20, <1>21, <1>23

-----------------------------------------------------------------------------
(***************************************************************************)
(* The migration of a file, entry after entry.                             *)
(***************************************************************************)
\* What holds of nothing and goes on with one entry more holds of all of them.
LEMMA CountingUp ==
    ASSUME NEW N \in Nat, NEW Good, 0 \in Good,
           \A n \in 0 .. N : n \in Good /\ n < N => n + 1 \in Good
    PROVE  N \in Good
<1>1. PICK Bad : Bad = {n \in 0 .. N : n \notin Good}
  OBVIOUS
<1>2. IsFiniteSet(0 .. N)
  BY FS_Interval
<1>3. IsFiniteSet(Bad)
  BY <1>1, <1>2, FS_Subset
<1>4. \A n \in Bad : n \in Nat
  BY <1>1
<1>5. SUFFICES ASSUME Bad # {} PROVE FALSE
  BY <1>1
<1>6. PICK b \in Bad : \A r \in Bad : b <= r
  BY <1>3, <1>4, <1>5, Extremes
<1>7. b \in Nat /\ b # 0 /\ b <= N /\ b \notin Good
  BY <1>1, <1>6
<1>8. b - 1 \in 0 .. N /\ b - 1 < N /\ b - 1 < b /\ (b - 1) + 1 = b
  BY <1>7
<1>9. b - 1 \in Good
  <2>1. b - 1 \notin Bad
    BY <1>6, <1>7, <1>8
  <2>2. QED
    BY <1>1, <1>8, <2>1
<1>10. QED
  BY <1>7, <1>8, <1>9

\* The memory before each entry is well defined.
LEMMA MigratesInOrder ==
    ASSUME NEW m, NEW batch, NEW N \in Nat, N = Len(LegacyDocument)
    PROVE  \E after :
               /\ after[0] = m
               /\ \A n \in 1 .. N :
                      after[n] = IF n \in DOMAIN batch THEN _migrate_entry(after[n - 1], batch, n)
                                 ELSE after[n - 1]
               /\ _migrate(m, batch) = after[N]
<1>1. PICK Good : Good = {k \in 0 .. N : \E g :
          g = [n \in 0 .. k |-> IF n = 0 THEN m
                                ELSE IF n \in DOMAIN batch THEN _migrate_entry(g[n - 1], batch, n)
                                ELSE g[n - 1]]}
  OBVIOUS
<1>2. 0 \in Good
  <2>1. PICK g : g = [n \in 0 .. 0 |-> m]
    OBVIOUS
  <2>2. g = [n \in 0 .. 0 |-> IF n = 0 THEN m
                                ELSE IF n \in DOMAIN batch THEN _migrate_entry(g[n - 1], batch, n)
                                ELSE g[n - 1]]
    BY <2>1
  <2>3. QED
    BY <1>1, <2>2
<1>3. ASSUME NEW k \in 0 .. N, k \in Good, k < N PROVE k + 1 \in Good
  <2>1. PICK g : g = [n \in 0 .. k |-> IF n = 0 THEN m
                                ELSE IF n \in DOMAIN batch THEN _migrate_entry(g[n - 1], batch, n)
                                ELSE g[n - 1]]
    BY <1>1, <1>3
  <2>2. PICK last : last = IF k + 1 \in DOMAIN batch THEN _migrate_entry(g[k], batch, k + 1)
                           ELSE g[k]
    OBVIOUS
  <2>3. PICK h : h = [n \in 0 .. k + 1 |-> IF n = k + 1 THEN last ELSE g[n]]
    OBVIOUS
  <2>4. \A n \in 0 .. k : h[n] = g[n]
    BY <2>3
  <2>5. ASSUME NEW n \in 0 .. k + 1
        PROVE  h[n] = IF n = 0 THEN m
                      ELSE IF n \in DOMAIN batch THEN _migrate_entry(h[n - 1], batch, n)
                      ELSE h[n - 1]
    <3>1. CASE n = k + 1
      <4>1. n - 1 = k /\ n # 0 /\ k \in 0 .. k
        BY <3>1
      <4>2. h[n - 1] = g[k]
        BY <2>4, <4>1
      <4>3. h[n] = last
        BY <2>3, <3>1
      <4>4. QED
        BY <2>2, <3>1, <4>1, <4>2, <4>3
    <3>2. CASE n \in 0 .. k
      <4>1. h[n] = g[n]
        BY <2>4, <3>2
      <4>2. g[n] = IF n = 0 THEN m
                   ELSE IF n \in DOMAIN batch THEN _migrate_entry(g[n - 1], batch, n)
                   ELSE g[n - 1]
        BY <2>1, <3>2
      <4>3. n # 0 => n - 1 \in 0 .. k
        BY <3>2
      <4>4. n # 0 => h[n - 1] = g[n - 1]
        BY <2>4, <4>3
      <4>5. QED
        BY <4>1, <4>2, <4>4
    <3>3. QED
      BY <3>1, <3>2
  <2>6. h = [n \in 0 .. k + 1 |-> IF n = 0 THEN m
                                ELSE IF n \in DOMAIN batch THEN _migrate_entry(h[n - 1], batch, n)
                                ELSE h[n - 1]]
    BY <2>3, <2>5
  <2>7. k + 1 \in 0 .. N
    BY <1>3
  <2>8. QED
    BY <1>1, <2>6, <2>7
<1>4. N \in Good
  BY <1>2, <1>3, CountingUp
<1>5. PICK after : after = CHOOSE g :
          g = [n \in 0 .. N |-> IF n = 0 THEN m
                                ELSE IF n \in DOMAIN batch THEN _migrate_entry(g[n - 1], batch, n)
                                ELSE g[n - 1]]
  OBVIOUS
<1>6. after = [n \in 0 .. N |-> IF n = 0 THEN m
                                ELSE IF n \in DOMAIN batch THEN _migrate_entry(after[n - 1], batch, n)
                                ELSE after[n - 1]]
  BY <1>1, <1>4, <1>5, Zenon
<1>7. _migrate(m, batch) = after[N]
  BY <1>5 DEF _migrate
<1>8. QED
  BY <1>6, <1>7

\* Nothing is in the way of the entries: no row, and no other of them.
Unclaimed(d, entries) ==
    /\ \A i \in DOMAIN entries :
           /\ entries[i].user \notin DOMAIN d.account
           /\ \A v \in DOMAIN d.account : d.account[v].actor # entries[i].actor
           /\ entries[i].subject \notin DOMAIN d.bound
           /\ \A s \in DOMAIN d.bound : d.bound[s] # entries[i].user
    /\ \A i, j \in DOMAIN entries :
           \/ entries[i].user = entries[j].user \/ entries[i].actor = entries[j].actor
           \/ entries[i].subject = entries[j].subject
           => i = j

LEMMA MigratesUnclaimed ==
    ASSUME NEW d, NEW entries
    PROVE  /\ MigrateLegacyIdentities(d, entries).ok <=> Unclaimed(d, entries)
           /\ MigrateLegacyIdentities(d, entries).ok \in BOOLEAN
<1>1. \A i \in DOMAIN entries :
          _insert_account(d, entries[i].user, entries[i].actor, entries[i].actor).ok <=>
              /\ entries[i].user \notin DOMAIN d.account
              /\ \A v \in DOMAIN d.account : d.account[v].actor # entries[i].actor
  BY DEF _insert_account, Refused, Done
<1>2. \A i \in DOMAIN entries :
          _bind_subject(d, entries[i].user, entries[i].subject).ok <=>
              /\ entries[i].subject \notin DOMAIN d.bound
              /\ \A s \in DOMAIN d.bound : d.bound[s] # entries[i].user
  BY DEF _bind_subject, Refused, Done
<1>3. PICK ok : ok = MigrateLegacyIdentities(d, entries).ok
  OBVIOUS
<1>4. CASE Unclaimed(d, entries)
  <2>1. ~ \/ \E i \in DOMAIN entries :
              LET e == entries[i] IN
              \/ ~_insert_account(d, e.user, e.actor, e.actor).ok
              \/ ~_bind_subject(d, e.user, e.subject).ok
          \/ \E i, j \in DOMAIN entries :
              /\ i # j
              /\ \/ entries[i].user = entries[j].user \/ entries[i].actor = entries[j].actor
                 \/ entries[i].subject = entries[j].subject
    BY <1>1, <1>2, <1>4 DEF Unclaimed
  <2>2. ok = TRUE
    BY <1>3, <2>1 DEF MigrateLegacyIdentities, Done
  <2>3. QED
    BY <1>3, <1>4, <2>2
<1>5. CASE ~Unclaimed(d, entries)
  <2>1. \/ \E i \in DOMAIN entries :
              LET e == entries[i] IN
              \/ ~_insert_account(d, e.user, e.actor, e.actor).ok
              \/ ~_bind_subject(d, e.user, e.subject).ok
        \/ \E i, j \in DOMAIN entries :
              /\ i # j
              /\ \/ entries[i].user = entries[j].user \/ entries[i].actor = entries[j].actor
                 \/ entries[i].subject = entries[j].subject
    BY <1>1, <1>2, <1>5 DEF Unclaimed
  <2>2. ok = FALSE
    BY <1>3, <2>1 DEF MigrateLegacyIdentities, Refused
  <2>3. QED
    BY <1>3, <1>5, <2>2
<1>6. QED
  BY <1>4, <1>5

\* The rows a batch leaves, told apart by its entries.
Migrated(d, entries) ==
    IF DOMAIN entries = {} THEN d ELSE MigrateLegacyIdentities(d, entries).dir
AccountRow(actor) == [actor |-> actor, display |-> actor, status |-> "active"]

IsAFcn(f) == f = [x \in DOMAIN f |-> f[x]]

MigratedRows(d, entries, e) ==
    /\ Parts(e) /\ e.credential = d.credential
    /\ DOMAIN e.account = DOMAIN d.account \cup {entries[i].user : i \in DOMAIN entries}
    /\ DOMAIN e.role = DOMAIN d.role \cup {entries[i].user : i \in DOMAIN entries}
    /\ DOMAIN e.bound = DOMAIN d.bound \cup {entries[i].subject : i \in DOMAIN entries}
    /\ \A i \in DOMAIN entries : /\ e.account[entries[i].user] = AccountRow(entries[i].actor)
                                 /\ e.role[entries[i].user] = entries[i].role
                                 /\ e.bound[entries[i].subject] = entries[i].user
    /\ \A v \in DOMAIN d.account : e.account[v] = d.account[v]
    /\ \A v \in DOMAIN d.role : e.role[v] = d.role[v]
    /\ \A s \in DOMAIN d.bound : e.bound[s] = d.bound[s]

LEMMA MigratedHasRows ==
    ASSUME NEW d, DirectoryFits(d), NEW entries, Unclaimed(d, entries)
    PROVE  /\ MigratedRows(d, entries, Migrated(d, entries))
           /\ DOMAIN entries # {} =>
                  /\ IsAFcn(Migrated(d, entries).account)
                  /\ IsAFcn(Migrated(d, entries).role)
                  /\ IsAFcn(Migrated(d, entries).bound)
<1>1. CASE DOMAIN entries = {}
  BY <1>1 DEF Migrated, MigratedRows, DirectoryFits, Parts
<1>2. CASE DOMAIN entries # {}
  <2>1. PICK users : users = {entries[i].user : i \in DOMAIN entries}
    OBVIOUS
  <2>2. PICK subjects : subjects = {entries[i].subject : i \in DOMAIN entries}
    OBVIOUS
  <2>3. PICK e : e = [d EXCEPT
             !.account = [u \in DOMAIN @ \cup users |->
                 IF u \in users THEN [actor |-> EntryOf(entries, u).actor,
                                      display |-> EntryOf(entries, u).actor,
                                      status |-> "active"]
                 ELSE @[u]],
             !.role = [u \in DOMAIN @ \cup users |->
                 IF u \in users THEN EntryOf(entries, u).role ELSE @[u]],
             !.bound = [s \in DOMAIN @ \cup subjects |->
                 IF s \in subjects THEN BoundBy(entries, s) ELSE @[s]]]
    OBVIOUS
  <2>4. Migrated(d, entries) = e
    BY <1>2, <2>1, <2>2, <2>3, MigratesUnclaimed
       DEF Migrated, MigrateLegacyIdentities, UsersOf, Done, Refused
  <2>5. /\ Parts(e) /\ e.credential = d.credential
        /\ e.account = [u \in DOMAIN d.account \cup users |->
               IF u \in users THEN [actor |-> EntryOf(entries, u).actor,
                                    display |-> EntryOf(entries, u).actor,
                                    status |-> "active"]
               ELSE d.account[u]]
        /\ e.role = [u \in DOMAIN d.role \cup users |->
               IF u \in users THEN EntryOf(entries, u).role ELSE d.role[u]]
        /\ e.bound = [s \in DOMAIN d.bound \cup subjects |->
               IF s \in subjects THEN BoundBy(entries, s) ELSE d.bound[s]]
    BY <2>3 DEF DirectoryFits, Parts
  <2>6. /\ \A i, j \in DOMAIN entries : entries[i].user = entries[j].user => i = j
        /\ \A i, j \in DOMAIN entries : entries[i].subject = entries[j].subject => i = j
        /\ \A u \in users : u \notin DOMAIN d.account /\ u \notin DOMAIN d.role
        /\ \A s \in subjects : s \notin DOMAIN d.bound
    BY <2>1, <2>2 DEF Unclaimed, DirectoryFits
  <2>7. \A i \in DOMAIN entries : EntryOf(entries, entries[i].user) = entries[i]
    BY <2>6 DEF EntryOf
  <2>8. \A i \in DOMAIN entries : BoundBy(entries, entries[i].subject) = entries[i].user
    <3>1. TAKE i \in DOMAIN entries
    <3>2. /\ entries[i].user \in UsersOf(entries)
          /\ EntryOf(entries, entries[i].user).subject = entries[i].subject
      BY <2>7 DEF UsersOf
    <3>3. \A u \in UsersOf(entries) :
              EntryOf(entries, u).subject = entries[i].subject => u = entries[i].user
      BY <2>6, <2>7 DEF UsersOf
    <3>4. QED
      BY <3>2, <3>3 DEF BoundBy
  <2>9. ASSUME NEW i \in DOMAIN entries
        PROVE  /\ e.account[entries[i].user] = AccountRow(entries[i].actor)
               /\ e.role[entries[i].user] = entries[i].role
               /\ e.bound[entries[i].subject] = entries[i].user
    <3>1. entries[i].user \in users /\ entries[i].subject \in subjects
      BY <2>1, <2>2
    <3>2. e.account[entries[i].user] = [actor |-> EntryOf(entries, entries[i].user).actor,
                                        display |-> EntryOf(entries, entries[i].user).actor,
                                        status |-> "active"]
      BY <2>5, <3>1
    <3>3. e.account[entries[i].user] = AccountRow(entries[i].actor)
      BY <2>7, <3>2 DEF AccountRow
    <3>4. e.role[entries[i].user] = entries[i].role /\ e.bound[entries[i].subject] = entries[i].user
      BY <2>5, <2>7, <2>8, <3>1
    <3>5. QED
      BY <3>3, <3>4
  <2>10. /\ \A v \in DOMAIN d.account : e.account[v] = d.account[v]
         /\ \A v \in DOMAIN d.role : e.role[v] = d.role[v]
         /\ \A s \in DOMAIN d.bound : e.bound[s] = d.bound[s]
    BY <2>5, <2>6
  <2>11. /\ DOMAIN e.account = DOMAIN d.account \cup users
         /\ DOMAIN e.role = DOMAIN d.role \cup users
         /\ DOMAIN e.bound = DOMAIN d.bound \cup subjects
    BY <2>5
  <2>12. MigratedRows(d, entries, e)
    BY <2>1, <2>2, <2>5, <2>9, <2>10, <2>11 DEF MigratedRows
  <2>13. IsAFcn(e.account) /\ IsAFcn(e.role) /\ IsAFcn(e.bound)
    BY <2>5 DEF IsAFcn
  <2>14. QED
    BY <2>4, <2>12, <2>13
<1>3. QED
  BY <1>1, <1>2

\* The entries up to one, and the events they take.
Upto(batch, n) == [i \in {j \in DOMAIN batch : j <= n} |-> batch[i]]
BatchKeys(batch, n) == {<<BatchStage(batch), i>> : i \in DOMAIN Upto(batch, n)}
Believed(b, entries) == IF DOMAIN entries = {} THEN b ELSE BelievesBatch(b, entries)
ToldBy(t, entries) == IF DOMAIN entries = {} THEN t ELSE derive_audit_batch(t, entries)

\* Either nothing was in the way of the entries so far, and the memory holds their rows, their
\* events and their keys; or the error that stopped them is in flight.
MigratedSo(d, rs, keys, t, batch, n, free, m) ==
    IF Unclaimed(d, Upto(batch, n)) /\ (free \/ DOMAIN Upto(batch, n) = {})
    THEN m = Tables(Migrated(d, Upto(batch, n)), rs, keys \cup BatchKeys(batch, n),
                    ToldBy(t, Upto(batch, n)), Nothing)
    ELSE m.raised # Nothing

\* One entry more: the rows.
LEMMA MigratesOneMore ==
    ASSUME NEW d, DirectoryFits(d), NEW p, NEW q, NEW n, n \in DOMAIN q,
           DOMAIN p = DOMAIN q \ {n}, \A i \in DOMAIN p : p[i] = q[i], Unclaimed(d, p),
           NEW e, e = Migrated(d, p), NEW x, x = q[n]
    PROVE  /\ Unclaimed(d, q) <=>
                  /\ x.user \notin DOMAIN e.account
                  /\ \A v \in DOMAIN e.account : e.account[v].actor # x.actor
                  /\ x.subject \notin DOMAIN e.bound
                  /\ \A s \in DOMAIN e.bound : e.bound[s] # x.user
           /\ Unclaimed(d, q) =>
                  /\ Put(e.account, x.user, AccountRow(x.actor)) = Migrated(d, q).account
                  /\ Put(e.role, x.user, x.role) = Migrated(d, q).role
                  /\ Put(e.bound, x.subject, x.user) = Migrated(d, q).bound
                  /\ e.credential = Migrated(d, q).credential /\ Parts(Migrated(d, q))
<1>1. MigratedRows(d, p, e)
  BY MigratedHasRows
<1>2. \A i \in DOMAIN p : AccountRow(p[i].actor).actor = p[i].actor
  BY DEF AccountRow
<1>3. /\ \A v \in DOMAIN e.account : \/ v \in DOMAIN d.account /\ e.account[v] = d.account[v]
                                     \/ \E i \in DOMAIN p : /\ v = p[i].user
                                                            /\ e.account[v].actor = p[i].actor
      /\ \A s \in DOMAIN e.bound : \/ s \in DOMAIN d.bound /\ e.bound[s] = d.bound[s]
                                   \/ \E i \in DOMAIN p : s = p[i].subject /\ e.bound[s] = p[i].user
      /\ \A v \in DOMAIN d.account : v \in DOMAIN e.account /\ e.account[v] = d.account[v]
      /\ \A s \in DOMAIN d.bound : s \in DOMAIN e.bound /\ e.bound[s] = d.bound[s]
      /\ \A i \in DOMAIN p : /\ p[i].user \in DOMAIN e.account /\ p[i].subject \in DOMAIN e.bound
                             /\ e.account[p[i].user].actor = p[i].actor
                             /\ e.bound[p[i].subject] = p[i].user
  BY <1>1, <1>2 DEF MigratedRows
<1>4. \A i \in DOMAIN q : i = n \/ (i \in DOMAIN p /\ q[i] = p[i])
  OBVIOUS
<1>5. ASSUME Unclaimed(d, q)
      PROVE  /\ x.user \notin DOMAIN e.account
             /\ \A v \in DOMAIN e.account : e.account[v].actor # x.actor
             /\ x.subject \notin DOMAIN e.bound
             /\ \A s \in DOMAIN e.bound : e.bound[s] # x.user
  <2>1. /\ x.user \notin DOMAIN d.account
        /\ \A v \in DOMAIN d.account : d.account[v].actor # x.actor
        /\ x.subject \notin DOMAIN d.bound
        /\ \A s \in DOMAIN d.bound : d.bound[s] # x.user
    BY <1>5 DEF Unclaimed
  <2>2. \A i \in DOMAIN p : /\ p[i].user # x.user /\ p[i].actor # x.actor
                            /\ p[i].subject # x.subject
    <3>1. TAKE i \in DOMAIN p
    <3>2. i \in DOMAIN q /\ i # n /\ q[i] = p[i]
      OBVIOUS
    <3>3. QED
      BY <1>5, <3>2 DEF Unclaimed
  <2>3. QED
    BY <1>3, <2>1, <2>2
<1>6. ASSUME /\ x.user \notin DOMAIN e.account
             /\ \A v \in DOMAIN e.account : e.account[v].actor # x.actor
             /\ x.subject \notin DOMAIN e.bound
             /\ \A s \in DOMAIN e.bound : e.bound[s] # x.user
      PROVE  Unclaimed(d, q)
  <2>1. \A i \in DOMAIN p : /\ p[i].user # x.user /\ p[i].actor # x.actor
                            /\ p[i].subject # x.subject
    BY <1>3, <1>6
  <2>2. ASSUME NEW i \in DOMAIN q
        PROVE  /\ q[i].user \notin DOMAIN d.account
               /\ \A v \in DOMAIN d.account : d.account[v].actor # q[i].actor
               /\ q[i].subject \notin DOMAIN d.bound
               /\ \A s \in DOMAIN d.bound : d.bound[s] # q[i].user
    <3>1. CASE i = n
      <4>1. /\ x.user \notin DOMAIN d.account /\ x.subject \notin DOMAIN d.bound
        BY <1>3, <1>6
      <4>2. \A v \in DOMAIN d.account : d.account[v].actor # x.actor
        BY <1>3, <1>6
      <4>3. \A s \in DOMAIN d.bound : d.bound[s] # x.user
        BY <1>3, <1>6
      <4>4. QED
        BY <3>1, <4>1, <4>2, <4>3
    <3>2. CASE i # n
      BY <1>4, <3>2 DEF Unclaimed
    <3>3. QED
      BY <3>1, <3>2
  <2>3. ASSUME NEW i \in DOMAIN q, NEW j \in DOMAIN q,
               \/ q[i].user = q[j].user \/ q[i].actor = q[j].actor
               \/ q[i].subject = q[j].subject
        PROVE  i = j
    <3>1. CASE i = n \/ j = n
      BY <1>4, <2>1, <2>3, <3>1
    <3>2. CASE i # n /\ j # n
      BY <1>4, <2>3, <3>2 DEF Unclaimed
    <3>3. QED
      BY <3>1, <3>2
  <2>4. QED
    BY <2>2, <2>3 DEF Unclaimed
<1>7. ASSUME Unclaimed(d, q)
      PROVE  /\ Put(e.account, x.user, AccountRow(x.actor)) = Migrated(d, q).account
             /\ Put(e.role, x.user, x.role) = Migrated(d, q).role
             /\ Put(e.bound, x.subject, x.user) = Migrated(d, q).bound
             /\ e.credential = Migrated(d, q).credential /\ Parts(Migrated(d, q))
  <2>1. PICK f : f = Migrated(d, q)
    OBVIOUS
  <2>2. MigratedRows(d, q, f) /\ IsAFcn(f.account) /\ IsAFcn(f.role) /\ IsAFcn(f.bound)
    <3>1. DOMAIN q # {}
      OBVIOUS
    <3>2. QED
      BY <1>7, <2>1, <3>1, MigratedHasRows
  <2>3. {q[i].user : i \in DOMAIN q} = {p[i].user : i \in DOMAIN p} \cup {x.user}
        /\ {q[i].subject : i \in DOMAIN q} = {p[i].subject : i \in DOMAIN p} \cup {x.subject}
    BY <1>4
  <2>4. /\ DOMAIN f.account = DOMAIN e.account \cup {x.user}
        /\ DOMAIN f.role = DOMAIN e.role \cup {x.user}
        /\ DOMAIN f.bound = DOMAIN e.bound \cup {x.subject}
    BY <1>1, <2>2, <2>3 DEF MigratedRows
  <2>5. /\ f.account[x.user] = AccountRow(x.actor) /\ f.role[x.user] = x.role
        /\ f.bound[x.subject] = x.user
    BY <2>2 DEF MigratedRows
  <2>6. ASSUME NEW v \in DOMAIN e.account, v # x.user PROVE f.account[v] = e.account[v]
    <3>1. CASE v \in DOMAIN d.account
      BY <1>1, <2>2, <3>1 DEF MigratedRows
    <3>2. CASE v \notin DOMAIN d.account
      <4>1. PICK i \in DOMAIN p : v = p[i].user
        BY <1>1, <3>2 DEF MigratedRows
      <4>2. i \in DOMAIN q /\ q[i] = p[i]
        OBVIOUS
      <4>3. e.account[v] = AccountRow(p[i].actor)
        BY <1>1, <4>1 DEF MigratedRows
      <4>4. f.account[q[i].user] = AccountRow(q[i].actor)
        BY <2>2, <4>2 DEF MigratedRows
      <4>5. QED
        BY <4>1, <4>2, <4>3, <4>4
    <3>3. QED
      BY <3>1, <3>2
  <2>7. ASSUME NEW v \in DOMAIN e.role, v # x.user PROVE f.role[v] = e.role[v]
    <3>1. CASE v \in DOMAIN d.role
      BY <1>1, <2>2, <3>1 DEF MigratedRows
    <3>2. CASE v \notin DOMAIN d.role
      <4>1. PICK i \in DOMAIN p : v = p[i].user
        BY <1>1, <3>2 DEF MigratedRows
      <4>2. i \in DOMAIN q /\ q[i] = p[i]
        OBVIOUS
      <4>3. e.role[v] = p[i].role
        BY <1>1, <4>1 DEF MigratedRows
      <4>4. f.role[q[i].user] = q[i].role
        BY <2>2, <4>2 DEF MigratedRows
      <4>5. QED
        BY <4>1, <4>2, <4>3, <4>4
    <3>3. QED
      BY <3>1, <3>2
  <2>8. ASSUME NEW s \in DOMAIN e.bound, s # x.subject PROVE f.bound[s] = e.bound[s]
    <3>1. CASE s \in DOMAIN d.bound
      BY <1>1, <2>2, <3>1 DEF MigratedRows
    <3>2. CASE s \notin DOMAIN d.bound
      <4>1. PICK i \in DOMAIN p : s = p[i].subject
        BY <1>1, <3>2 DEF MigratedRows
      <4>2. i \in DOMAIN q /\ q[i] = p[i]
        OBVIOUS
      <4>3. e.bound[s] = p[i].user
        BY <1>1, <4>1 DEF MigratedRows
      <4>4. f.bound[q[i].subject] = q[i].user
        BY <2>2, <4>2 DEF MigratedRows
      <4>5. QED
        BY <4>1, <4>2, <4>3, <4>4
    <3>3. QED
      BY <3>1, <3>2
  <2>9. Put(e.account, x.user, AccountRow(x.actor)) = f.account
    BY <2>2, <2>4, <2>5, <2>6 DEF Put, IsAFcn
  <2>10. Put(e.role, x.user, x.role) = f.role
    BY <2>2, <2>4, <2>5, <2>7 DEF Put, IsAFcn
  <2>11. Put(e.bound, x.subject, x.user) = f.bound
    BY <2>2, <2>4, <2>5, <2>8 DEF Put, IsAFcn
  <2>12. e.credential = f.credential /\ Parts(f)
    BY <1>1, <2>2 DEF MigratedRows
  <2>13. QED
    BY <2>1, <2>9, <2>10, <2>11, <2>12
<1>8. QED
  BY <1>5, <1>6, <1>7

\* One entry more: what the audit says.
LEMMA BelievedOneMore ==
    ASSUME NEW t, NEW p, NEW q, NEW n, n \in DOMAIN q,
           DOMAIN p = DOMAIN q \ {n}, \A i \in DOMAIN p : p[i] = q[i],
           \A i, j \in DOMAIN q : q[i].user = q[j].user => i = j,
           q[n].role \in ProductRole
    PROVE  Believes(Believed(t, p), q[n].user,
                    EFFECT_FOR_COMMAND([kind |-> "migrate", role |-> q[n].role])) = Believed(t, q)
<1>1. PICK x : x = q[n]
  OBVIOUS
<1>2. PICK b : b = Believes(Believed(t, p), x.user,
                            EFFECT_FOR_COMMAND([kind |-> "migrate", role |-> x.role]))
  OBVIOUS
<1>3. PICK effect : effect = Effect(x.role, "active")
  OBVIOUS
<1>4. EFFECT_FOR_COMMAND([kind |-> "migrate", role |-> x.role]) = effect
  BY <1>3 DEF EFFECT_FOR_COMMAND
<1>5. effect.role = x.role /\ effect.status = "active"
      /\ effect = [role |-> x.role, status |-> "active"]
  BY <1>3 DEF Effect
<1>6. effect.role # Unsaid /\ effect.status # Unsaid
  BY <1>1, <1>5 DEF Unsaid, ProductRole
<1>7. b = Put(Believed(t, p), x.user, effect)
  BY <1>2, <1>4, <1>5, <1>6 DEF Believes
<1>8. \A i \in DOMAIN q : EntryOf(q, q[i].user) = q[i]
  BY DEF EntryOf
<1>9. \A i \in DOMAIN p : EntryOf(p, p[i].user) = p[i]
  BY DEF EntryOf
<1>10. UsersOf(q) = UsersOf(p) \cup {x.user} /\ x.user \notin UsersOf(p)
  BY <1>1 DEF UsersOf
<1>11. DOMAIN Believed(t, p) = DOMAIN t \cup UsersOf(p)
       /\ \A u \in DOMAIN Believed(t, p) :
              Believed(t, p)[u] = IF u \in UsersOf(p) THEN Effect(EntryOf(p, u).role, "active") ELSE t[u]
  <2>1. CASE DOMAIN p = {}
    BY <2>1 DEF Believed, UsersOf
  <2>2. CASE DOMAIN p # {}
    BY <2>2 DEF Believed, BelievesBatch
  <2>3. QED
    BY <2>1, <2>2
<1>12. PICK c : c = BelievesBatch(t, q)
  OBVIOUS
<1>13. c = [u \in DOMAIN t \cup UsersOf(q) |->
               IF u \in UsersOf(q) THEN Effect(EntryOf(q, u).role, "active") ELSE t[u]]
  BY <1>12 DEF BelievesBatch
<1>14. Believed(t, q) = c
  BY <1>12 DEF Believed
<1>15. DOMAIN b = DOMAIN c
  BY <1>7, <1>10, <1>11, <1>13 DEF Put
<1>16. ASSUME NEW u \in DOMAIN c PROVE b[u] = c[u]
  <2>1. CASE u = x.user
    <3>1. b[u] = effect
      BY <1>7, <2>1 DEF Put
    <3>2. c[u] = Effect(x.role, "active")
      BY <1>1, <1>8, <1>10, <1>13, <2>1
    <3>3. QED
      BY <1>3, <3>1, <3>2
  <2>2. CASE u # x.user /\ u \in UsersOf(p)
    <3>1. PICK i \in DOMAIN p : u = p[i].user
      BY <2>2 DEF UsersOf
    <3>2. i \in DOMAIN q /\ q[i] = p[i]
      OBVIOUS
    <3>3. EntryOf(q, u) = EntryOf(p, u)
      BY <1>8, <1>9, <3>1, <3>2
    <3>4. b[u] = Believed(t, p)[u] /\ u \in DOMAIN Believed(t, p)
      BY <1>7, <1>11, <2>2 DEF Put
    <3>5. QED
      BY <1>10, <1>11, <1>13, <2>2, <3>3, <3>4
  <2>3. CASE u # x.user /\ u \notin UsersOf(p)
    <3>1. u \in DOMAIN t /\ u \notin UsersOf(q)
      BY <1>10, <1>13, <2>3
    <3>2. b[u] = Believed(t, p)[u] /\ u \in DOMAIN Believed(t, p)
      BY <1>7, <1>11, <2>3, <3>1 DEF Put
    <3>3. QED
      BY <1>11, <1>13, <2>3, <3>1, <3>2
  <2>4. QED
    BY <2>1, <2>2, <2>3
<1>17. b = c
  BY <1>7, <1>13, <1>15, <1>16 DEF Put
<1>18. QED
  BY <1>1, <1>2, <1>14, <1>17

LEMMA ToldOneMore ==
    ASSUME NEW t, DOMAIN t = AuditFields, NEW p, NEW q, NEW n, n \in DOMAIN q,
           DOMAIN p = DOMAIN q \ {n}, \A i \in DOMAIN p : p[i] = q[i],
           \A i, j \in DOMAIN q : q[i].user = q[j].user => i = j,
           q[n].role \in ProductRole, NEW c, c = [kind |-> "migrate", role |-> q[n].role]
    PROVE  derive_audit(ToldBy(t, p), q[n].user, c) = ToldBy(t, q)
<1>1. PICK was : was = Believed(t.user, p)
  OBVIOUS
<1>2. PICK now : now = BelievesBatch(t.user, q)
  OBVIOUS
<1>3. Believes(was, q[n].user, EFFECT_FOR_COMMAND(c)) = now
  <2>1. Believed(t.user, q) = now
    BY <1>2 DEF Believed
  <2>2. QED
    BY <1>1, <2>1, BelievedOneMore
<1>4. PICK T : T = ToldBy(t, p)
  OBVIOUS
<1>5. /\ DOMAIN T = AuditFields /\ T.user = was /\ T.unbound = t.unbound
      /\ T.activation = t.activation /\ T.forgotten = t.forgotten
  BY <1>1, <1>4 DEF ToldBy, Believed, derive_audit_batch, AuditFields
<1>6. derive_audit(T, q[n].user, c) = [T EXCEPT !.user = now, !.unbound = T.unbound]
  BY <1>3, <1>5 DEF derive_audit
<1>7. ToldBy(t, q) = [t EXCEPT !.user = now]
  BY <1>2 DEF ToldBy, derive_audit_batch
<1>8. [T EXCEPT !.user = now, !.unbound = T.unbound] = [t EXCEPT !.user = now]
  BY <1>5 DEF AuditFields
<1>9. QED
  BY <1>4, <1>6, <1>7, <1>8

LEMMA MigratesEntry ==
    ASSUME NEW d, DirectoryFits(d), NEW rs, NEW keys, NEW t, DOMAIN t = AuditFields,
           NEW batch, NEW n \in DOMAIN batch,
           \A i \in DOMAIN batch : i \in Nat, batch[n].role \in ProductRole,
           NEW free \in BOOLEAN,
           \A i \in DOMAIN batch : <<BatchStage(batch), i>> \in keys <=> ~free,
           NEW m, MigratedSo(d, rs, keys, t, batch, n - 1, free, m)
    PROVE  MigratedSo(d, rs, keys, t, batch, n, free, _migrate_entry(m, batch, n))
<1>1. PICK p : p = Upto(batch, n - 1)
  OBVIOUS
<1>2. PICK q : q = Upto(batch, n)
  OBVIOUS
<1>3. n \in Nat
  OBVIOUS
<1>4. /\ DOMAIN q = {j \in DOMAIN batch : j <= n}
      /\ DOMAIN p = {j \in DOMAIN batch : j <= n - 1}
      /\ \A i \in DOMAIN q : q[i] = batch[i]
      /\ \A i \in DOMAIN p : p[i] = batch[i]
  BY <1>1, <1>2 DEF Upto
<1>5. /\ n \in DOMAIN q /\ q[n] = batch[n] /\ DOMAIN q # {}
      /\ \A i \in DOMAIN p : i \in DOMAIN q /\ i # n /\ p[i] = q[i]
      /\ \A i \in DOMAIN q : i # n => i \in DOMAIN p
  BY <1>3, <1>4
<1>6. DOMAIN p = DOMAIN q \ {n}
  BY <1>5
<1>7. Unclaimed(d, q) => Unclaimed(d, p)
  BY <1>5 DEF Unclaimed
<1>8. PICK x : x = batch[n]
  OBVIOUS
<1>9. PICK a : a = IF m.raised = Nothing THEN mem_insert_account(m, x.user, x.actor, x.actor) ELSE m
  OBVIOUS
<1>10. PICK b : b = IF a.raised = Nothing
                    THEN mem_bind_subject(mem_upsert_role(a, x.user, x.role), x.user, x.subject)
                    ELSE a
  OBVIOUS
<1>11. PICK c : c = [kind |-> "migrate", role |-> x.role]
  OBVIOUS
<1>12. PICK key : key = <<BatchStage(batch), n>>
  OBVIOUS
<1>13. PICK w : w = IF b.raised = Nothing THEN _write_audit(b, x.user, c, {key}) ELSE b
  OBVIOUS
<1>14. _migrate_entry(m, batch, n) = w
  BY <1>8, <1>9, <1>10, <1>11, <1>12, <1>13 DEF _migrate_entry, Do
<1>15. CASE ~(Unclaimed(d, p) /\ (free \/ DOMAIN p = {}))
  <2>1. m.raised # Nothing
    BY <1>1, <1>15 DEF MigratedSo
  <2>2. w.raised # Nothing
    BY <1>9, <1>10, <1>13, <2>1
  <2>3. ~(Unclaimed(d, q) /\ (free \/ DOMAIN q = {}))
    BY <1>5, <1>7, <1>15
  <2>4. QED
    BY <1>2, <1>14, <2>2, <2>3 DEF MigratedSo
<1>16. CASE Unclaimed(d, p) /\ (free \/ DOMAIN p = {})
  <2>1. PICK e : e = Migrated(d, p)
    OBVIOUS
  <2>2. PICK K : K = keys \cup BatchKeys(batch, n - 1)
    OBVIOUS
  <2>3. PICK T : T = ToldBy(t, p)
    OBVIOUS
  <2>4. m = Tables(e, rs, K, T, Nothing)
    BY <1>1, <1>16, <2>1, <2>2, <2>3 DEF MigratedSo
  <2>5. Parts(e)
    BY <1>16, <2>1, MigratedHasRows DEF MigratedRows
  <2>6. m.raised = Nothing
    BY <2>4 DEF Tables
  <2>7. Unclaimed(d, q) <=>
            /\ x.user \notin DOMAIN e.account
            /\ \A v \in DOMAIN e.account : e.account[v].actor # x.actor
            /\ x.subject \notin DOMAIN e.bound
            /\ \A s \in DOMAIN e.bound : e.bound[s] # x.user
    BY <1>5, <1>6, <1>8, <1>16, <2>1, MigratesOneMore
  <2>8. PICK r : r = _insert_account(e, x.user, x.actor, x.actor)
    OBVIOUS
  <2>9. r.ok <=> /\ x.user \notin DOMAIN e.account
                 /\ \A v \in DOMAIN e.account : e.account[v].actor # x.actor
    BY <2>8 DEF _insert_account, Done, Refused
  <2>10. Same(a, r, rs, K, T)
    BY <1>9, <2>4, <2>5, <2>6, <2>8, SameAccount
  <2>11. CASE ~r.ok
    <3>1. a.raised # Nothing
      BY <2>10, <2>11 DEF Same
    <3>2. w.raised # Nothing
      BY <1>10, <1>13, <3>1
    <3>3. ~Unclaimed(d, q)
      BY <2>7, <2>9, <2>11
    <3>4. QED
      BY <1>2, <1>14, <3>2, <3>3 DEF MigratedSo
  <2>12. CASE r.ok
    <3>1. a = Tables(r.dir, rs, K, T, Nothing) /\ Parts(r.dir)
      BY <2>10, <2>12 DEF Same
    <3>2. a.raised = Nothing
      BY <3>1 DEF Tables
    <3>3. /\ r.dir.account = Put(e.account, x.user, AccountRow(x.actor))
          /\ r.dir.role = e.role /\ r.dir.bound = e.bound /\ r.dir.credential = e.credential
      BY <2>5, <2>8, <2>12 DEF _insert_account, Refused, Done, Parts, AccountRow
    <3>4. PICK g : g = _upsert_role(r.dir, x.user, x.role)
      OBVIOUS
    <3>5. mem_upsert_role(a, x.user, x.role) = Tables(g, rs, K, T, Nothing)
      BY <3>1, <3>4, SameRole
    <3>6. Parts(g)
      BY <3>1, <3>4, SameRole
    <3>7. /\ g.account = r.dir.account /\ g.role = Put(e.role, x.user, x.role)
          /\ g.bound = e.bound /\ g.credential = e.credential
      BY <3>1, <3>3, <3>4 DEF _upsert_role, Parts
    <3>8. PICK h : h = _bind_subject(g, x.user, x.subject)
      OBVIOUS
    <3>9. h.ok <=> /\ x.subject \notin DOMAIN e.bound
                   /\ \A s \in DOMAIN e.bound : e.bound[s] # x.user
      BY <3>7, <3>8 DEF _bind_subject, Done, Refused
    <3>10. Same(b, h, rs, K, T)
      <4>1. b = mem_bind_subject(Tables(g, rs, K, T, Nothing), x.user, x.subject)
        BY <1>10, <3>2, <3>5
      <4>2. QED
        BY <3>6, <3>8, <4>1, SameBinding
    <3>11. CASE ~h.ok
      <4>1. w.raised # Nothing
        BY <1>13, <3>10, <3>11 DEF Same
      <4>2. ~Unclaimed(d, q)
        BY <2>7, <3>9, <3>11
      <4>3. QED
        BY <1>2, <1>14, <4>1, <4>2 DEF MigratedSo
    <3>12. CASE h.ok
      <4>1. b = Tables(h.dir, rs, K, T, Nothing) /\ Parts(h.dir)
        BY <3>10, <3>12 DEF Same
      <4>2. /\ h.dir.account = g.account /\ h.dir.role = g.role
            /\ h.dir.bound = Put(e.bound, x.subject, x.user) /\ h.dir.credential = e.credential
        BY <3>6, <3>7, <3>8, <3>12 DEF _bind_subject, Refused, Done, Parts
      <4>3. Unclaimed(d, q)
        BY <2>7, <2>9, <2>12, <3>9, <3>12
      <4>4. PICK f : f = Migrated(d, q)
        OBVIOUS
      <4>5. /\ Put(e.account, x.user, AccountRow(x.actor)) = f.account
            /\ Put(e.role, x.user, x.role) = f.role
            /\ Put(e.bound, x.subject, x.user) = f.bound
            /\ e.credential = f.credential /\ Parts(f)
        BY <1>5, <1>6, <1>8, <1>16, <2>1, <4>3, <4>4, MigratesOneMore
      <4>6. b = Tables(f, rs, K, T, Nothing)
        BY <3>3, <3>7, <4>1, <4>2, <4>5 DEF Tables
      <4>7. b.raised = Nothing /\ b.keys = K
        BY <4>6 DEF Tables
      <4>8. CASE ~free
        <5>1. key \in K
          BY <1>12, <2>2, <4>8
        <5>2. _append_locked(b, {key}) = Raise(b, "unwritable")
          BY <4>7, <5>1 DEF _append_locked
        <5>3. Raise(b, "unwritable").raised = "unwritable"
          BY <4>6 DEF Raise, Tables
        <5>4. w.raised = "unwritable"
          BY <1>13, <4>7, <5>2, <5>3 DEF _write_audit, Do, Nothing
        <5>5. QED
          BY <1>2, <1>5, <1>14, <4>8, <5>4 DEF MigratedSo, Nothing
      <4>9. CASE free
        <5>1. BatchKeys(batch, n) = BatchKeys(batch, n - 1) \cup {key}
          BY <1>1, <1>2, <1>5, <1>12 DEF BatchKeys
        <5>2. key \notin BatchKeys(batch, n - 1)
          BY <1>1, <1>5, <1>12 DEF BatchKeys
        <5>3. key \notin keys
          BY <1>12, <4>9
        <5>4. {key} \cap K = {}
          BY <2>2, <5>2, <5>3
        <5>5. PICK V : V = derive_audit(T, x.user, c)
          OBVIOUS
        <5>6. _write_audit(b, x.user, c, {key}) = Tables(f, rs, K \cup {key}, V, Nothing)
          BY <4>5, <4>6, <5>4, <5>5, SameEvent
        <5>7. K \cup {key} = keys \cup BatchKeys(batch, n)
          BY <2>2, <5>1
        <5>8. V = ToldBy(t, q)
          <6>1. \A i, j \in DOMAIN q : q[i].user = q[j].user => i = j
            BY <4>3 DEF Unclaimed
          <6>2. derive_audit(ToldBy(t, p), q[n].user, c) = ToldBy(t, q)
            BY <1>5, <1>6, <1>8, <1>11, <6>1, ToldOneMore
          <6>3. QED
            BY <1>5, <1>8, <2>3, <5>5, <6>2
        <5>9. w = Tables(f, rs, keys \cup BatchKeys(batch, n), ToldBy(t, q), Nothing)
          BY <1>13, <4>7, <5>6, <5>7, <5>8
        <5>10. QED
          BY <1>2, <1>14, <4>3, <4>4, <4>9, <5>9 DEF MigratedSo
      <4>10. QED
        BY <4>8, <4>9
    <3>13. QED
      BY <3>11, <3>12
  <2>13. QED
    BY <2>11, <2>12
<1>17. QED
  BY <1>15, <1>16

\* A file is migrated alike: all of it in both, or refused in both.
LEMMA SameMigration ==
    ASSUME NEW d, DirectoryFits(d), NEW rs, NEW keys, NEW t, DOMAIN t = AuditFields, NEW batch,
           DOMAIN batch \subseteq DOMAIN LegacyDocument, DOMAIN batch # {},
           batch = [i \in DOMAIN batch |-> LegacyDocument[i]],
           NEW free \in BOOLEAN,
           \A i \in DOMAIN batch : <<BatchStage(batch), i>> \in keys <=> ~free
    PROVE  LET m == _migrate(Tables(d, rs, keys, t, Nothing), batch) IN
           IF MigrateLegacyIdentities(d, batch).ok /\ free
           THEN m = Tables(MigrateLegacyIdentities(d, batch).dir, rs,
                           keys \cup {<<BatchStage(batch), i>> : i \in DOMAIN batch},
                           derive_audit_batch(t, batch), Nothing)
           ELSE m.raised # Nothing
<1>0. LegacyDocument \in Seq({LegacyDocument[i] : i \in DOMAIN LegacyDocument})
      /\ \A i \in DOMAIN LegacyDocument : LegacyDocument[i].role \in ProductRole
  BY AccessAssumption
<1>1. PICK N \in Nat : N = Len(LegacyDocument) /\ DOMAIN LegacyDocument = 1 .. N
  BY <1>0
<1>2. PICK s : s = Tables(d, rs, keys, t, Nothing)
  OBVIOUS
<1>3. PICK after : /\ after[0] = s
                   /\ \A n \in 1 .. N :
                          after[n] = IF n \in DOMAIN batch
                                     THEN _migrate_entry(after[n - 1], batch, n)
                                     ELSE after[n - 1]
                   /\ _migrate(s, batch) = after[N]
  BY <1>1, MigratesInOrder
<1>4. PICK Good : Good = {n \in 0 .. N : MigratedSo(d, rs, keys, t, batch, n, free, after[n])}
  OBVIOUS
<1>5. \A i \in DOMAIN batch : i \in 1 .. N /\ i \in Nat /\ batch[i] = LegacyDocument[i]
  BY <1>1
<1>6. 0 \in Good
  <2>1. PICK p : p = Upto(batch, 0)
    OBVIOUS
  <2>2. DOMAIN p = {}
    BY <1>5, <2>1 DEF Upto
  <2>3. Unclaimed(d, p) /\ Migrated(d, p) = d /\ ToldBy(t, p) = t
    BY <2>2 DEF Unclaimed, Migrated, ToldBy
  <2>4. keys \cup BatchKeys(batch, 0) = keys
    BY <2>1, <2>2 DEF BatchKeys
  <2>5. MigratedSo(d, rs, keys, t, batch, 0, free, after[0])
    BY <1>2, <1>3, <2>1, <2>2, <2>3, <2>4 DEF MigratedSo
  <2>6. QED
    BY <1>4, <2>5
<1>7. ASSUME NEW n \in 0 .. N, n \in Good, n < N PROVE n + 1 \in Good
  <2>1. PICK k : k = n + 1
    OBVIOUS
  <2>2. k \in 1 .. N /\ k - 1 = n /\ k \in 0 .. N /\ n \in Nat
    BY <1>7, <2>1
  <2>3. MigratedSo(d, rs, keys, t, batch, k - 1, free, after[n])
    BY <1>4, <1>7, <2>2
  <2>4. CASE k \in DOMAIN batch
    <3>1. after[k] = _migrate_entry(after[n], batch, k)
      BY <1>3, <2>2, <2>4
    <3>2. batch[k].role \in ProductRole
      BY <1>0, <1>1, <1>5, <2>4
    <3>3. MigratedSo(d, rs, keys, t, batch, k, free, _migrate_entry(after[n], batch, k))
      BY <1>5, <2>3, <2>4, <3>2, MigratesEntry
    <3>4. QED
      BY <1>4, <2>1, <2>2, <3>1, <3>3
  <2>5. CASE k \notin DOMAIN batch
    <3>1. after[k] = after[n]
      BY <1>3, <2>2, <2>5
    <3>2. {j \in DOMAIN batch : j <= k} = {j \in DOMAIN batch : j <= n}
      BY <1>5, <2>1, <2>2, <2>5
    <3>3. Upto(batch, k) = Upto(batch, n)
      BY <3>2 DEF Upto
    <3>4. BatchKeys(batch, k) = BatchKeys(batch, n)
      BY <3>3 DEF BatchKeys
    <3>5. MigratedSo(d, rs, keys, t, batch, k, free, after[k])
      BY <2>2, <2>3, <3>1, <3>3, <3>4 DEF MigratedSo
    <3>6. QED
      BY <1>4, <2>1, <2>2, <3>5
  <2>6. QED
    BY <2>4, <2>5
<1>8. N \in Good
  BY <1>6, <1>7, CountingUp
<1>9. Upto(batch, N) = batch
  <2>1. {j \in DOMAIN batch : j <= N} = DOMAIN batch
    BY <1>5
  <2>2. batch = [i \in DOMAIN batch |-> batch[i]]
    BY <1>5
  <2>3. QED
    BY <2>1, <2>2 DEF Upto
<1>10. MigratedSo(d, rs, keys, t, batch, N, free, _migrate(s, batch))
  BY <1>3, <1>4, <1>8
<1>11. BatchKeys(batch, N) = {<<BatchStage(batch), i>> : i \in DOMAIN batch}
  BY <1>9 DEF BatchKeys
<1>12. Migrated(d, batch) = MigrateLegacyIdentities(d, batch).dir
       /\ ToldBy(t, batch) = derive_audit_batch(t, batch)
  BY DEF Migrated, ToldBy
<1>13. MigrateLegacyIdentities(d, batch).ok <=> Unclaimed(d, batch)
  BY MigratesUnclaimed
<1>14. QED
  BY <1>2, <1>9, <1>10, <1>11, <1>12, <1>13 DEF MigratedSo

-----------------------------------------------------------------------------
(***************************************************************************)
(* What the memory relies on beside AccessInv: who asks for something is   *)
(* somebody, a batch is cut from the identity file, a local session that   *)
(* is kept is live, and finitely many states are open.                     *)
(***************************************************************************)
RemembersWell(h) ==
    /\ h.pc = "gated" => h.actor # NoPrincipal
    /\ h.pc = "migrating" => /\ DOMAIN h.batch # {}
                             /\ DOMAIN h.batch \subseteq DOMAIN LegacyDocument
                             /\ h.batch = [i \in DOMAIN h.batch |-> LegacyDocument[i]]

MemoryInv ==
    /\ \A o \in Ops : RemembersWell(op[o])
    /\ \A c \in Cookies : sessions[c].source = "LOCAL_ADMIN" => sessions[c].live
    /\ IsFiniteSet(Open)

LEMMA InitMemoryInv == Init => MemoryInv
<1>1. ASSUME Init PROVE MemoryInv
  <2>1. \A o \in Ops : op[o] = Idle
    BY <1>1 DEF Init
  <2>2. \A c \in Cookies : sessions[c] = NoSession
    BY <1>1 DEF Init
  <2>3. \A t \in States : states[t] = NoState
    BY <1>1 DEF Init
  <2>4. Idle.pc = "idle"
    BY DEF Idle
  <2>5. NoSession.source = Nothing
    BY DEF NoSession
  <2>6. NoState.phase = Nothing
    BY DEF NoState
  <2>7. Open = {}
    BY <2>3, <2>6 DEF Open, Nothing
  <2>8. IsFiniteSet(Open)
    BY <2>7, FS_EmptySet
  <2>9. \A o \in Ops : RemembersWell(op[o])
    BY <2>1, <2>4 DEF RemembersWell
  <2>10. QED
    BY <2>2, <2>5, <2>8, <2>9 DEF MemoryInv, Nothing
<1>2. QED
  BY <1>1

\* What a handler goes on with.
LEMMA HandlersRemember ==
    ASSUME AccessInv, NEW q \in Ops,
           Callback(q) \/ LocalAdmin(q) \/ Administer(q) \/ Unavailable(q)
    PROVE  RemembersWell(op'[q])
<1>0. /\ DOMAIN op = Ops
      /\ DOMAIN op[q] = {"pc", "state", "cookie", "intent", "request", "subject", "version",
                         "actor", "command", "batch"}
  BY DEF AccessInv, HandlersFit, HandlerFits
<1>i. Idle.pc = "idle"
  BY DEF Idle
<1>e. ASSUME End(q) PROVE RemembersWell(op'[q])
  BY <1>0, <1>i, <1>e DEF End, RemembersWell
<1>p. ASSUME op'[q].pc \notin {"gated", "migrating"} PROVE RemembersWell(op'[q])
  BY <1>p DEF RemembersWell
<1>1. CASE \E t \in States, s \in Subjects : consume_oauth_login_state(q, t, s)
  <2>1. op'[q].pc = "exchanged"
    BY <1>0, <1>1 DEF consume_oauth_login_state
  <2>2. QED
    BY <1>p, <2>1
<1>2. CASE \E t \in States : consume_oauth_test_state(q, t)
  BY <1>e, <1>2 DEF consume_oauth_test_state
<1>3. CASE resume_web(q)
  <2>1. CASE End(q)
    BY <1>e, <2>1
  <2>2. CASE ~End(q)
    <3>1. op'[q].pc \in {"exchanged", "unknown"}
      BY <1>0, <1>3, <2>2 DEF resume_web
    <3>2. QED
      BY <1>p, <3>1
  <2>3. QED
    BY <2>1, <2>2
<1>4. CASE resolve_for_web(q)
  <2>1. CASE End(q)
    BY <1>e, <2>1
  <2>2. CASE op' = [op EXCEPT ![q].pc = "unknown"]
    BY <1>0, <1>p, <2>2
  <2>3. CASE op' = [op EXCEPT ![q].pc = "resolved", ![q].intent = Nothing]
    BY <1>0, <1>p, <2>3
  <2>4. QED
    BY <1>4, <2>1, <2>2, <2>3 DEF resolve_for_web
<1>5. CASE \E r \in Requests : request_web(q, r)
  BY <1>e, <1>5 DEF request_web
<1>6. CASE \E c \in Cookies, x \in Previous : complete_login(q, c, x)
  BY <1>e, <1>6 DEF complete_login
<1>7. CASE login(q)
  <2>1. op'[q].pc = "verified"
    BY <1>0, <1>7 DEF login
  <2>2. QED
    BY <1>p, <2>1
<1>8. CASE \E c \in Cookies, x \in Previous : login_session(q, c, x)
  BY <1>e, <1>8 DEF login_session
<1>9. CASE \E c \in Cookies : change_password_verify(q, c)
  <2>1. op'[q].pc = "changing"
    BY <1>0, <1>9 DEF change_password_verify
  <2>2. QED
    BY <1>p, <2>1
<1>10. CASE \E c \in Cookies : change_password_and_rotate_session(q, c)
  BY <1>e, <1>10 DEF change_password_and_rotate_session
<1>11. CASE \E c \in Cookies, k \in Commands, r \in Requests : AdminRequest(q, c, k, r)
  <2>1. PICK c \in Cookies, k \in Commands, r \in Requests : AdminRequest(q, c, k, r)
    BY <1>11
  <2>2. PICK p : p = PrincipalOf(c)
    OBVIOUS
  <2>3. p.source \in {"LOCAL_ADMIN", "FEISHU"}
    BY <2>1, <2>2, PrincipalsFit DEF AdminRequest
  <2>4. NoPrincipal.source = Nothing
    BY DEF NoPrincipal
  <2>5. p # NoPrincipal
    BY <2>3, <2>4 DEF Nothing
  <2>6. op'[q].pc = "gated" /\ op'[q].actor = p
    BY <1>0, <2>1, <2>2 DEF AdminRequest
  <2>7. QED
    BY <2>5, <2>6 DEF RemembersWell
<1>12. CASE decide(q)
  BY <1>e, <1>12 DEF decide
<1>13. CASE _apply_managed(q)
  BY <1>e, <1>13 DEF _apply_managed
<1>14. CASE Refuse(q)
  BY <1>e, <1>14 DEF Refuse
<1>15. CASE migrate_static_identities(q)
  <2>1. PICK pending : pending = {i \in DOMAIN LegacyDocument : ~_is_already_migrated(LegacyDocument[i])}
    OBVIOUS
  <2>2. PICK batch : batch = [i \in pending |-> LegacyDocument[i]]
    OBVIOUS
  <2>3. pending # {} /\ op' = [op EXCEPT ![q].pc = "migrating", ![q].batch = batch]
    BY <1>15, <2>1, <2>2 DEF migrate_static_identities
  <2>4. op'[q].pc = "migrating" /\ op'[q].batch = batch
    BY <1>0, <2>3
  <2>5. /\ DOMAIN batch = pending /\ pending \subseteq DOMAIN LegacyDocument
        /\ batch = [i \in DOMAIN batch |-> LegacyDocument[i]]
    BY <2>1, <2>2
  <2>6. QED
    BY <2>3, <2>4, <2>5 DEF RemembersWell
<1>16. CASE migrate_apply(q)
  BY <1>e, <1>16 DEF migrate_apply
<1>17. CASE Unavailable(q)
  BY <1>e, <1>17 DEF Unavailable
<1>18. CASE Callback(q)
  BY <1>1, <1>2, <1>3, <1>4, <1>5, <1>6, <1>18 DEF Callback
<1>19. CASE LocalAdmin(q)
  BY <1>7, <1>8, <1>9, <1>10, <1>19 DEF LocalAdmin
<1>20. CASE Administer(q)
  BY <1>11, <1>12, <1>13, <1>14, <1>15, <1>16, <1>20 DEF Administer
<1>21. QED
  BY <1>17, <1>18, <1>19, <1>20

LEMMA StateCloses ==
    ASSUME AccessInv, NEW t \in States, states' = [states EXCEPT ![t] = Closed(states[t])]
    PROVE  Open' \subseteq Open
<1>1. DOMAIN states = States /\ DOMAIN states[t] = {"kind", "intent", "request", "phase"}
  BY DEF AccessInv, StatesFit
<1>2. PICK row : row = Closed(states[t])
  OBVIOUS
<1>3. row.phase = "closed"
  BY <1>1, <1>2 DEF Closed
<1>4. QED
  BY <1>1, <1>2, <1>3 DEF Open

LEMMA SessionsRotate ==
    ASSUME MemoryInv, NEW c \in Cookies, NEW x, NEW session, session.live = TRUE,
           rotate_session(c, x, session)
    PROVE  \A y \in Cookies : sessions'[y].source = "LOCAL_ADMIN" => sessions'[y].live
<1>1. NoSession.source = Nothing
  BY DEF NoSession
<1>2. QED
  BY <1>1 DEF rotate_session, MemoryInv, Nothing

\* A handler leaves the maintenance alone, opens no state and keeps no dead local session.
LEMMA HandlersWrite ==
    ASSUME AccessInv, MemoryInv, NEW q \in Ops,
           Callback(q) \/ LocalAdmin(q) \/ Administer(q) \/ Unavailable(q)
    PROVE  /\ upkeep' = upkeep /\ Open' \subseteq Open
           /\ \A c \in Cookies : sessions'[c].source = "LOCAL_ADMIN" => sessions'[c].live
<1>s. ASSUME UNCHANGED sessions
      PROVE  \A c \in Cookies : sessions'[c].source = "LOCAL_ADMIN" => sessions'[c].live
  BY <1>s DEF MemoryInv
<1>o. ASSUME UNCHANGED states PROVE Open' \subseteq Open
  BY <1>o DEF Open
<1>1. CASE \E t \in States, s \in Subjects : consume_oauth_login_state(q, t, s)
  BY <1>s, <1>1, StateCloses DEF consume_oauth_login_state
<1>2. CASE \E t \in States : consume_oauth_test_state(q, t)
  BY <1>s, <1>2, StateCloses DEF consume_oauth_test_state
<1>3. CASE resume_web(q)
  BY <1>s, <1>o, <1>3 DEF resume_web
<1>4. CASE resolve_for_web(q)
  BY <1>s, <1>o, <1>4 DEF resolve_for_web
<1>5. CASE \E r \in Requests : request_web(q, r)
  BY <1>s, <1>o, <1>5 DEF request_web
<1>6. CASE \E c \in Cookies, x \in Previous : complete_login(q, c, x)
  <2>1. PICK c \in Cookies, x \in Previous : complete_login(q, c, x)
    BY <1>6
  <2>2. PICK new : new = [source |-> "FEISHU", subject |-> op[q].subject, live |-> TRUE,
                          version |-> 0, stored |-> 0, state |-> op[q].state]
    OBVIOUS
  <2>3. rotate_session(c, x, new) /\ UNCHANGED <<states, upkeep>> /\ new.live = TRUE
    BY <2>1, <2>2 DEF complete_login
  <2>4. QED
    BY <1>o, <2>3, SessionsRotate
<1>7. CASE login(q)
  BY <1>s, <1>o, <1>7 DEF login
<1>8. CASE \E c \in Cookies, x \in Previous : login_session(q, c, x)
  <2>1. PICK c \in Cookies, x \in Previous : login_session(q, c, x)
    BY <1>8
  <2>2. PICK new : new = LocalSession(op[q].version, dir.credential.version)
    OBVIOUS
  <2>3. rotate_session(c, x, new) /\ UNCHANGED <<states, upkeep>> /\ new.live = TRUE
    BY <2>1, <2>2 DEF login_session, LocalSession
  <2>4. QED
    BY <1>o, <2>3, SessionsRotate
<1>9. CASE \E c \in Cookies : change_password_verify(q, c)
  BY <1>s, <1>o, <1>9 DEF change_password_verify
<1>10. CASE \E c \in Cookies : change_password_and_rotate_session(q, c)
  <2>1. PICK c \in Cookies : change_password_and_rotate_session(q, c)
    BY <1>10
  <2>2. PICK new : new = LocalSession(dir.credential.version + 1, dir.credential.version + 1)
    OBVIOUS
  <2>3. /\ sessions' = [y \in Cookies |->
               IF y = c THEN new
               ELSE IF sessions[y].source = "LOCAL_ADMIN" THEN NoSession ELSE sessions[y]]
        /\ UNCHANGED <<states, upkeep>> /\ new.live = TRUE
    BY <2>1, <2>2 DEF change_password_and_rotate_session, LocalSession
  <2>4. NoSession.source = Nothing
    BY DEF NoSession
  <2>5. QED
    BY <1>o, <2>3, <2>4 DEF Nothing
<1>11. CASE \E c \in Cookies, k \in Commands, r \in Requests : AdminRequest(q, c, k, r)
  BY <1>s, <1>o, <1>11 DEF AdminRequest
<1>12. CASE decide(q)
  BY <1>s, <1>o, <1>12 DEF decide
<1>13. CASE _apply_managed(q)
  BY <1>s, <1>o, <1>13 DEF _apply_managed
<1>14. CASE Refuse(q)
  BY <1>s, <1>o, <1>14 DEF Refuse
<1>15. CASE migrate_static_identities(q)
  BY <1>s, <1>o, <1>15 DEF migrate_static_identities
<1>16. CASE migrate_apply(q)
  BY <1>s, <1>o, <1>16 DEF migrate_apply
<1>17. CASE Unavailable(q)
  BY <1>s, <1>o, <1>17 DEF Unavailable
<1>18. CASE Callback(q)
  BY <1>1, <1>2, <1>3, <1>4, <1>5, <1>6, <1>18 DEF Callback
<1>19. CASE LocalAdmin(q)
  BY <1>7, <1>8, <1>9, <1>10, <1>19 DEF LocalAdmin
<1>20. CASE Administer(q)
  BY <1>11, <1>12, <1>13, <1>14, <1>15, <1>16, <1>20 DEF Administer
<1>21. QED
  BY <1>17, <1>18, <1>19, <1>20

\* The steps of nobody's handler: who maintains, who opens a state.
LEMMA AroundWrites ==
    ASSUME AccessInv, MemoryInv, Browser \/ Around \/ UNCHANGED vars
    PROVE  /\ op' = op
           /\ upkeep' = upkeep \/ \E c \in Upkeep : Maintain(c)
           /\ Open' \subseteq Open \/ \E t \in States : \E state : Issue(t, state)
           /\ \A c \in Cookies : sessions'[c].source = "LOCAL_ADMIN" => sessions'[c].live
<1>s. ASSUME UNCHANGED sessions
      PROVE  \A c \in Cookies : sessions'[c].source = "LOCAL_ADMIN" => sessions'[c].live
  BY <1>s DEF MemoryInv
<1>o. ASSUME UNCHANGED states PROVE Open' \subseteq Open
  BY <1>o DEF Open
<1>1. ASSUME NEW t \in States, NEW state, Issue(t, state)
      PROVE  UNCHANGED <<op, upkeep, sessions>>
  BY <1>1 DEF Issue
<1>2. CASE \E t \in States : \/ \E i \in Intents : start_login(t, i)
                             \/ \E r \in Requests : start_login_status(t, r)
                             \/ start_connection_test(t)
  <2>1. PICK t \in States : \E state : Issue(t, state)
    BY <1>2 DEF start_login, start_login_status, start_connection_test
  <2>2. QED
    BY <1>s, <1>1, <2>1
<1>3. CASE \E t \in States : StateExpires(t)
  BY <1>s, <1>3, StateCloses DEF StateExpires
<1>4. CASE \E c \in Cookies : logout(c) \/ SessionExpires(c)
  <2>1. PICK c \in Cookies : logout(c) \/ SessionExpires(c)
    BY <1>4
  <2>2. sessions' = [sessions EXCEPT ![c] = NoSession] /\ UNCHANGED <<op, upkeep, states>>
    BY <2>1 DEF logout, SessionExpires
  <2>3. NoSession.source = Nothing
    BY DEF NoSession
  <2>4. DOMAIN sessions = Cookies
    BY DEF AccessInv, SessionsFit
  <2>5. QED
    BY <1>o, <2>2, <2>3, <2>4 DEF MemoryInv, Nothing
<1>5. CASE Browser
  BY <1>2, <1>3, <1>4, <1>5 DEF Browser
<1>6. CASE \E s \in Subjects, r \in Requests : request_group(s, r)
  BY <1>s, <1>o, <1>6 DEF request_group
<1>7. CASE \E r \in Requests : RequestLapses(r)
  BY <1>s, <1>o, <1>7 DEF RequestLapses
<1>8. CASE \E old \in SUBSET Requests : purge_expired_terminal(old)
  BY <1>s, <1>o, <1>8 DEF purge_expired_terminal
<1>9. CASE seed_if_absent
  BY <1>s, <1>o, <1>9 DEF seed_if_absent
<1>10. CASE \E c \in Upkeep : Maintain(c)
  BY <1>s, <1>o, <1>10 DEF Maintain
<1>11. CASE Around
  BY <1>6, <1>7, <1>8, <1>9, <1>10, <1>11 DEF Around
<1>12. CASE UNCHANGED vars
  BY <1>s, <1>o, <1>12 DEF vars
<1>13. QED
  BY <1>5, <1>11, <1>12

LEMMA NextMemoryInv == AccessInv /\ MemoryInv /\ [Next]_vars => MemoryInv'
<1>0. SUFFICES ASSUME AccessInv, MemoryInv, [Next]_vars PROVE MemoryInv'
  OBVIOUS
<1>1. CASE \E q \in Ops : Callback(q) \/ LocalAdmin(q) \/ Administer(q) \/ Unavailable(q)
  <2>1. PICK q \in Ops : Callback(q) \/ LocalAdmin(q) \/ Administer(q) \/ Unavailable(q)
    BY <1>1
  <2>2. \A o \in Ops \ {q} : op'[o] = op[o]
    BY <1>0, <2>1, HandlersMoveAlone
  <2>3. RemembersWell(op'[q])
    BY <1>0, <2>1, HandlersRemember
  <2>4. \A o \in Ops : RemembersWell(op'[o])
    BY <1>0, <2>2, <2>3 DEF MemoryInv
  <2>5. /\ Open' \subseteq Open
        /\ \A c \in Cookies : sessions'[c].source = "LOCAL_ADMIN" => sessions'[c].live
    BY <1>0, <2>1, HandlersWrite
  <2>6. IsFiniteSet(Open')
    BY <1>0, <2>5, FS_Subset DEF MemoryInv
  <2>7. QED
    BY <2>4, <2>5, <2>6 DEF MemoryInv
<1>2. CASE Browser \/ Around \/ UNCHANGED vars
  <2>1. /\ op' = op
        /\ Open' \subseteq Open \/ \E t \in States : \E state : Issue(t, state)
        /\ \A c \in Cookies : sessions'[c].source = "LOCAL_ADMIN" => sessions'[c].live
    BY <1>0, <1>2, AroundWrites
  <2>2. IsFiniteSet(Open')
    <3>1. CASE Open' \subseteq Open
      BY <1>0, <3>1, FS_Subset DEF MemoryInv
    <3>2. CASE \E t \in States : \E state : Issue(t, state)
      <4>1. PICK t \in States : \E state : Issue(t, state)
        BY <3>2
      <4>2. DOMAIN states = States
        BY <1>0 DEF AccessInv, StatesFit
      <4>3. Open' \subseteq Open \cup {t}
        BY <4>1, <4>2 DEF Issue, Open
      <4>4. IsFiniteSet(Open \cup {t})
        BY <1>0, FS_AddElement DEF MemoryInv
      <4>5. QED
        BY <4>3, <4>4, FS_Subset
    <3>3. QED
      BY <2>1, <3>1, <3>2
  <2>3. QED
    BY <1>0, <2>1, <2>2 DEF MemoryInv
<1>3. QED
  BY <1>0, <1>1, <1>2 DEF Next

\* What a handler of the Web carries from one await to the next is what its route built:
\* an administrator's command has its author, a batch of the migration is a part of the
\* identity file, a local session that is kept is live, and finitely many OAuth states are
\* open at a time (issue_oauth_state counts them against its bound).
THEOREM MemoryInvariant == Spec => [](AccessInv /\ MemoryInv)
<1>1. AccessInv /\ MemoryInv /\ [Next]_vars => AccessInv' /\ MemoryInv'
  BY NextAccessInv, NextMemoryInv
<1>2. Init => AccessInv /\ MemoryInv
  BY InitAccessInv, InitMemoryInv
<1>3. QED
  BY <1>1, <1>2, PTL DEF Spec

-----------------------------------------------------------------------------
(***************************************************************************)
(* The steps of both.  The memory is the directory, the requests, the keys *)
(* of the stages and what the audit says.                                  *)
(***************************************************************************)
KeysOf(st) == UNION {{<<b, i>> : i \in DOMAIN b[2]} : b \in st}

LEMMA MemoryIs ==
    /\ InMemoryPersistenceState = Tables(dir, requests, KeysOf(stages), told, Nothing)
    /\ InMemoryPersistenceState' = Tables(dir', requests', KeysOf(stages'), told', Nothing)
<1>1. InMemoryPersistenceState = Tables(dir, requests, KeysOf(stages), told, Nothing)
  BY DEF InMemoryPersistenceState, Tables, KeysOf
<1>2. InMemoryPersistenceState' = Tables(dir', requests', KeysOf(stages'), told', Nothing)
  BY DEF InMemoryPersistenceState, Tables, KeysOf
<1>3. QED
  BY <1>1, <1>2

LEMMA MemoryFollows ==
    ASSUME NEW m, m = Tables(dir', requests', KeysOf(stages'), told', Nothing)
    PROVE  SameTables(m)
<1>1. [m EXCEPT !.raised = Nothing] = m
  BY DEF Tables
<1>2. QED
  BY <1>1, MemoryIs DEF SameTables

\* An error puts the snapshot back and goes on.
LEMMA Applied ==
    ASSUME NEW actor, NEW c, NEW r,
           NEW m, m = _apply_locked(InMemoryPersistenceState, actor, c, r)
    PROVE  /\ apply(actor, c, r).raised = m.raised
           /\ m.raised = Nothing => apply(actor, c, r) = m
<1>1. PICK s : s = InMemoryPersistenceState
  OBVIOUS
<1>2. s = Tables(dir, requests, KeysOf(stages), told, Nothing)
  BY <1>1, MemoryIs
<1>3. PICK why : why = m.raised
  OBVIOUS
<1>4. [s EXCEPT !.raised = why].raised = why
  BY <1>2 DEF Tables
<1>5. apply(actor, c, r) = IF m.raised = Nothing THEN m ELSE _restore(m, s)
  BY <1>1 DEF apply
<1>6. _restore(m, s) = [s EXCEPT !.raised = why]
  BY <1>3 DEF _restore
<1>7. QED
  BY <1>3, <1>4, <1>5, <1>6

\* Whoever moves a handler is the handler.
LEMMA WhoMoves ==
    ASSUME AccessInv, MemoryInv, [Next]_vars, NEW o \in Ops, op'[o] # op[o]
    PROVE  /\ Callback(o) \/ LocalAdmin(o) \/ Administer(o) \/ Unavailable(o)
           /\ op[o].pc = "gated" => decide(o) \/ _apply_managed(o) \/ Refuse(o) \/ Unavailable(o)
           /\ op[o].pc = "migrating" => migrate_apply(o) \/ Unavailable(o)
           /\ op[o].pc = "unknown" => Unavailable(o) \/ \E r \in Requests : request_web(o, r)
<1>1. CASE \E q \in Ops : Callback(q) \/ LocalAdmin(q) \/ Administer(q) \/ Unavailable(q)
  <2>1. PICK q \in Ops : Callback(q) \/ LocalAdmin(q) \/ Administer(q) \/ Unavailable(q)
    BY <1>1
  <2>2. q = o
    BY <2>1, HandlersMoveAlone
  <2>3. Callback(o) \/ LocalAdmin(o) \/ Administer(o) \/ Unavailable(o)
    BY <2>1, <2>2
  <2>4. op[o].pc = "gated" => decide(o) \/ _apply_managed(o) \/ Refuse(o) \/ Unavailable(o)
    BY <2>3, HandlersMoveAlone
  <2>5. op[o].pc = "migrating" => migrate_apply(o) \/ Unavailable(o)
    BY <2>3, HandlersMoveAlone
  <2>6. op[o].pc = "unknown" => Unavailable(o) \/ \E r \in Requests : request_web(o, r)
    BY <2>3, HandlersMoveAlone
  <2>7. QED
    BY <2>3, <2>4, <2>5, <2>6
<1>2. CASE Browser \/ Around \/ UNCHANGED vars
  BY <1>2, AroundWrites
<1>3. QED
  BY <1>1, <1>2 DEF Next

LEMMA CommandsAgreeHere ==
    ASSUME AccessInv, MemoryInv, [Next]_vars PROVE CommandsAgree
<1>0. SUFFICES ASSUME NEW o \in Ops, At(o, "gated"), op'[o] = Idle,
                      NEW m, m = apply(op[o].actor, op[o].command, op[o].request)
               PROVE  /\ m.raised = Result(o).why
                      /\ SameTables(m) \/ InMemoryPersistenceState' = InMemoryPersistenceState
  BY DEF CommandsAgree
<1>1. op[o].pc = "gated" /\ op'[o] # op[o]
  BY <1>0 DEF At, Idle
<1>2. PICK actor : actor = op[o].actor
  OBVIOUS
<1>3. PICK c : c = op[o].command
  OBVIOUS
<1>4. PICK r : r = op[o].request
  OBVIOUS
<1>5. PICK result : result = Result(o)
  OBVIOUS
<1>6. PICK K : K = KeysOf(stages)
  OBVIOUS
<1>7. /\ c \in Commands /\ actor # NoPrincipal /\ DirectoryFits(dir)
      /\ c.kind \in {"approve", "reject", "set_status", "change_role"}
      /\ c.kind \in {"approve", "reject"} => r \in Requests
  BY <1>1, <1>2, <1>3, <1>4, AccessAssumption DEF AccessInv, MemoryInv, RemembersWell, HandlersFit, HandlerFits
<1>q. r \in Requests =>
          /\ r \in DOMAIN requests /\ DOMAIN requests[r] = RequestFields
          /\ requests[r].status # "APPROVED" => requests[r].role = Nothing
  BY DEF AccessInv, RequestsFit, Explained, Recorded, RecordedOne
<1>8. PICK n : n = _apply_locked(InMemoryPersistenceState, actor, c, r)
  OBVIOUS
<1>9. n = _apply_locked(Tables(dir, requests, K, told, Nothing), actor, c, r)
  BY <1>6, <1>8, MemoryIs
<1>10. m.raised = n.raised /\ (n.raised = Nothing => m = n)
  BY <1>0, <1>2, <1>3, <1>4, <1>8, Applied
<1>u. ASSUME UNCHANGED <<identityVars, requests>>
      PROVE  InMemoryPersistenceState' = InMemoryPersistenceState
  BY <1>u, MemoryIs DEF identityVars
<1>11. decide(o) \/ _apply_managed(o) \/ Refuse(o) \/ Unavailable(o)
  BY <1>1, WhoMoves
<1>12. ASSUME Refuse(o) \/ Unavailable(o)
       PROVE  InMemoryPersistenceState' = InMemoryPersistenceState
  BY <1>u, <1>12 DEF Refuse, Unavailable
<1>13. CASE c.kind \in {"approve", "reject"}
  <2>1. IsDecision(o) /\ result = _decide_activation(dir, actor, requests[r], c)
    BY <1>2, <1>3, <1>4, <1>5, <1>13 DEF IsDecision, Result
  <2>2. n.raised = result.why /\ (result.ok <=> result.why = Nothing)
    BY <1>7, <1>9, <1>13, <1>q, <2>1, SameDecision
  <2>3. CASE decide(o)
    <3>1. result.ok /\ n.raised = Nothing
      BY <1>5, <2>2, <2>3 DEF decide
    <3>2. PICK rs : rs = Decision(requests, r, c)
      OBVIOUS
    <3>3. PICK t : t = derive_audit(told, r, c)
      OBVIOUS
    <3>4. n = Tables(result.dir, rs, K, t, Nothing)
      BY <1>7, <1>9, <1>13, <1>q, <2>1, <3>1, <3>2, <3>3, SameDecision
    <3>5. dir' = result.dir /\ told' = t /\ requests' = rs /\ stages' = stages
      BY <1>3, <1>4, <1>5, <2>3, <3>2, <3>3 DEF decide, Commit, Decision
    <3>6. SameTables(n)
      BY <1>6, <3>4, <3>5, MemoryFollows
    <3>7. QED
      BY <1>5, <1>10, <2>2, <3>1, <3>6
  <2>4. CASE ~decide(o)
    <3>1. ~_apply_managed(o)
      BY <2>1 DEF _apply_managed
    <3>2. InMemoryPersistenceState' = InMemoryPersistenceState
      BY <1>11, <1>12, <2>4, <3>1
    <3>3. QED
      BY <1>5, <1>10, <2>2, <3>2
  <2>5. QED
    BY <2>3, <2>4
<1>14. CASE c.kind \in {"set_status", "change_role"}
  <2>1. ~IsDecision(o) /\ result = _apply_managed_user_change(dir, actor, c)
    BY <1>2, <1>3, <1>5, <1>14 DEF IsDecision, Result
  <2>2. n.raised = result.why /\ (result.ok <=> result.why = Nothing)
    BY <1>7, <1>9, <1>14, <2>1, SameManagedChange
  <2>3. CASE _apply_managed(o)
    <3>1. result.ok /\ n.raised = Nothing
      BY <1>5, <2>2, <2>3 DEF _apply_managed
    <3>2. PICK t : t = derive_audit(told, c.user, c)
      OBVIOUS
    <3>3. n = Tables(result.dir, requests, K, t, Nothing)
      BY <1>7, <1>9, <1>14, <2>1, <3>1, <3>2, SameManagedChange
    <3>4. dir' = result.dir /\ told' = t /\ requests' = requests /\ stages' = stages
      BY <1>3, <1>5, <2>3, <3>2 DEF _apply_managed, Commit
    <3>5. SameTables(n)
      BY <1>6, <3>3, <3>4, MemoryFollows
    <3>6. QED
      BY <1>5, <1>10, <2>2, <3>1, <3>5
  <2>4. CASE ~_apply_managed(o)
    <3>1. ~decide(o)
      BY <2>1 DEF decide
    <3>2. InMemoryPersistenceState' = InMemoryPersistenceState
      BY <1>11, <1>12, <2>4, <3>1
    <3>3. QED
      BY <1>5, <1>10, <2>2, <3>2
  <2>5. QED
    BY <2>3, <2>4
<1>15. QED
  BY <1>7, <1>13, <1>14

LEMMA KeysOfStage ==
    ASSUME NEW st, NEW B, NEW i \in DOMAIN B[2]
    PROVE  <<B, i>> \in KeysOf(st) <=> B \in st
<1>1. ASSUME B \in st PROVE <<B, i>> \in KeysOf(st)
  <2>1. PICK keys : keys = {<<B, j>> : j \in DOMAIN B[2]}
    OBVIOUS
  <2>2. <<B, i>> \in keys /\ keys \in {{<<b, j>> : j \in DOMAIN b[2]} : b \in st}
    BY <1>1, <2>1
  <2>3. QED
    BY <2>2 DEF KeysOf
<1>2. ASSUME <<B, i>> \in KeysOf(st) PROVE B \in st
  <2>1. PICK keys \in {{<<b, j>> : j \in DOMAIN b[2]} : b \in st} : <<B, i>> \in keys
    BY <1>2 DEF KeysOf
  <2>2. PICK b \in st : keys = {<<b, j>> : j \in DOMAIN b[2]}
    OBVIOUS
  <2>3. PICK j : <<B, i>> = <<b, j>>
    BY <2>1, <2>2
  <2>4. QED
    BY <2>3
<1>3. QED
  BY <1>1, <1>2

LEMMA MigrationsAgreeHere ==
    ASSUME AccessInv, MemoryInv, [Next]_vars PROVE MigrationsAgree
<1>0. SUFFICES ASSUME NEW o \in Ops, At(o, "migrating"), op'[o] = Idle,
                      NEW m, m = apply(NoPrincipal, [kind |-> "migrate", batch |-> op[o].batch], Nothing)
               PROVE  /\ (m.raised = Nothing) <=> MigrationSucceeds(op[o].batch)
                      /\ SameTables(m) \/ InMemoryPersistenceState' = InMemoryPersistenceState
  BY DEF MigrationsAgree
<1>1. op[o].pc = "migrating" /\ op'[o] # op[o]
  BY <1>0 DEF At, Idle
<1>2. PICK batch : batch = op[o].batch
  OBVIOUS
<1>3. PICK c : c = [kind |-> "migrate", batch |-> batch]
  OBVIOUS
<1>4. PICK K : K = KeysOf(stages)
  OBVIOUS
<1>5. PICK B : B = BatchStage(batch)
  OBVIOUS
<1>6. PICK free \in BOOLEAN : free = (B \notin stages)
  OBVIOUS
<1>7. /\ DirectoryFits(dir) /\ DOMAIN batch # {} /\ DOMAIN batch \subseteq DOMAIN LegacyDocument
      /\ batch = [i \in DOMAIN batch |-> LegacyDocument[i]] /\ DOMAIN told = AuditFields
  BY <1>1, <1>2 DEF AccessInv, MemoryInv, RemembersWell, Explained, Explains
<1>8. DOMAIN B[2] = DOMAIN batch
  BY <1>5 DEF BatchStage
<1>9. \A i \in DOMAIN batch : <<B, i>> \in K <=> ~free
  BY <1>4, <1>6, <1>8, KeysOfStage
<1>10. PICK n : n = _migrate(Tables(dir, requests, K, told, Nothing), batch)
  OBVIOUS
<1>11. _apply_locked(InMemoryPersistenceState, NoPrincipal, c, Nothing) = n
  BY <1>3, <1>4, <1>10, MemoryIs DEF _apply_locked
<1>12. m.raised = n.raised /\ (n.raised = Nothing => m = n)
  BY <1>0, <1>2, <1>3, <1>11, Applied
<1>13. PICK result : result = MigrateLegacyIdentities(dir, batch)
  OBVIOUS
<1>14. MigrationSucceeds(batch) <=> result.ok /\ free
  BY <1>5, <1>6, <1>13 DEF MigrationSucceeds
<1>15. PICK t : t = derive_audit_batch(told, batch)
  OBVIOUS
<1>16. PICK L : L = K \cup {<<B, i>> : i \in DOMAIN batch}
  OBVIOUS
<1>17. IF result.ok /\ free THEN n = Tables(result.dir, requests, L, t, Nothing)
       ELSE n.raised # Nothing
  BY <1>5, <1>7, <1>9, <1>10, <1>13, <1>15, <1>16, SameMigration
<1>18. (m.raised = Nothing) <=> MigrationSucceeds(batch)
  BY <1>12, <1>14, <1>17 DEF Tables
<1>19. migrate_apply(o) \/ Unavailable(o)
  BY <1>1, WhoMoves
<1>20. CASE Unavailable(o)
  BY <1>2, <1>18, <1>20, MemoryIs DEF Unavailable, identityVars
<1>21. CASE migrate_apply(o) /\ ~MigrationSucceeds(batch)
  BY <1>2, <1>18, <1>21, MemoryIs DEF migrate_apply, identityVars
<1>22. CASE migrate_apply(o) /\ MigrationSucceeds(batch)
  <2>1. dir' = result.dir /\ told' = t /\ stages' = stages \cup {B} /\ requests' = requests
    BY <1>2, <1>5, <1>13, <1>15, <1>22 DEF migrate_apply
  <2>2. KeysOf(stages') = L
    BY <1>4, <1>8, <1>16, <2>1 DEF KeysOf
  <2>3. n = Tables(dir', requests', KeysOf(stages'), told', Nothing)
    BY <1>14, <1>17, <1>22, <2>1, <2>2
  <2>4. SameTables(n)
    BY <2>3, MemoryFollows
  <2>5. m = n
    BY <1>12, <2>3 DEF Tables
  <2>6. QED
    BY <1>2, <1>18, <2>4, <2>5
<1>23. QED
  BY <1>19, <1>20, <1>21, <1>22

LEMMA UpkeepAgreesHere ==
    ASSUME AccessInv, MemoryInv, [Next]_vars PROVE UpkeepAgrees
<1>0. DirectoryFits(dir)
  BY DEF AccessInv
<1>g. PICK given : Explains(told, dir, given)
  BY DEF AccessInv, Explained
<1>1. PICK K : K = KeysOf(stages)
  OBVIOUS
<1>2. ASSUME upkeep' # upkeep
      PROVE  \E c \in Upkeep : SameTables(apply(NoPrincipal, c, Nothing))
  <2>1. PICK c \in Upkeep : Maintain(c)
    <3>1. CASE \E q \in Ops : Callback(q) \/ LocalAdmin(q) \/ Administer(q) \/ Unavailable(q)
      BY <1>2, <3>1, HandlersWrite
    <3>2. CASE Browser \/ Around \/ UNCHANGED vars
      BY <1>2, <3>2, AroundWrites
    <3>3. QED
      BY <3>1, <3>2 DEF Next
  <2>2. PICK e : e = ApplyCommand(dir, c).dir
    OBVIOUS
  <2>3. PICK t : t = derive_audit(told, c.user, c)
    OBVIOUS
  <2>4. /\ ApplyCommand(dir, c).ok /\ dir' = e /\ told' = t
        /\ stages' = stages /\ requests' = requests
    BY <2>1, <2>2, <2>3 DEF Maintain, Commit
  <2>5. PICK n : n = _apply_locked(InMemoryPersistenceState, NoPrincipal, c, Nothing)
    OBVIOUS
  <2>6. _apply_locked(Tables(dir, requests, K, told, Nothing), NoPrincipal, c, Nothing)
            = Tables(e, requests, K, t, Nothing)
    BY <1>0, <2>2, <2>3, <2>4, SameMaintenance
  <2>7. n = Tables(e, requests, K, t, Nothing)
    BY <1>1, <2>5, <2>6, MemoryIs
  <2>8. SameTables(n)
    BY <1>1, <2>4, <2>7, MemoryFollows
  <2>9. apply(NoPrincipal, c, Nothing) = n
    <3>1. n.raised = Nothing
      BY <2>7 DEF Tables
    <3>2. QED
      BY <2>5, <3>1, Applied
  <2>10. QED
    BY <2>8, <2>9
<1>3. ASSUME dir'.credential.linked # dir.credential.linked
      PROVE  SameTables(apply(NoPrincipal, [kind |-> "bootstrap"], Nothing))
  <2>1. seed_if_absent
    <3>1. CASE \E o \in Ops : decide(o) \/ _apply_managed(o) \/ migrate_apply(o)
      BY <1>3, <3>1, DecisionCommits, ChangeCommits, MigrationKeeps
    <3>2. CASE \E o \in Ops, c \in Cookies : change_password_and_rotate_session(o, c)
      <4>1. dir' = [dir EXCEPT !.credential.version = @ + 1, !.credential.must_change = FALSE]
        BY <3>2 DEF change_password_and_rotate_session
      <4>2. PasswordMoves(dir, dir')
        BY <1>0, <4>1, ChangedPassword
      <4>3. QED
        BY <1>3, <4>2 DEF PasswordMoves
    <3>3. CASE \E c \in Upkeep : Maintain(c)
      <4>1. PICK c \in Upkeep : Maintain(c)
        BY <3>3
      <4>2. dir' = ApplyCommand(dir, c).dir /\ ApplyCommand(dir, c).ok
        BY <4>1 DEF Maintain, Commit
      <4>3. dir'.credential = dir.credential
        BY <1>0, <1>g, <4>2, MaintenanceCommits DEF Committed
      <4>4. QED
        BY <1>3, <4>3
    <3>4. QED
      BY <1>3, <3>1, <3>2, <3>3, WhoWrites
  <2>2. PICK c : c = [kind |-> "bootstrap"]
    OBVIOUS
  <2>3. PICK e : e = _bootstrap_in_transaction(dir).dir
    OBVIOUS
  <2>4. PICK t : t = derive_audit(told, LOCAL_ADMIN_USER_ID, c)
    OBVIOUS
  <2>5. /\ _bootstrap_in_transaction(dir).ok /\ e # dir /\ dir' = e /\ told' = t
        /\ stages' = stages /\ requests' = requests
    BY <2>1, <2>2, <2>3, <2>4 DEF seed_if_absent, Commit
  <2>6. ~dir.credential.linked
    BY <1>0, <1>g, <2>3, <2>5, BootstrapCommits
  <2>7. PICK n : n = _apply_locked(InMemoryPersistenceState, NoPrincipal, c, Nothing)
    OBVIOUS
  <2>8. _apply_locked(Tables(dir, requests, K, told, Nothing), NoPrincipal, c, Nothing)
            = Tables(e, requests, K, t, Nothing)
    BY <1>0, <2>2, <2>3, <2>4, <2>5, <2>6, SameBootstrap
  <2>9. n = Tables(e, requests, K, t, Nothing)
    BY <1>1, <2>7, <2>8, MemoryIs
  <2>10. SameTables(n)
    BY <1>1, <2>5, <2>9, MemoryFollows
  <2>11. apply(NoPrincipal, c, Nothing) = n
    <3>1. n.raised = Nothing
      BY <2>9 DEF Tables
    <3>2. QED
      BY <2>7, <3>1, Applied
  <2>12. QED
    BY <2>2, <2>10, <2>11
<1>4. QED
  BY <1>2, <1>3 DEF UpkeepAgrees

\* Of two requests that differ in what the model keeps for the browser the store knows one.
LEMMA BareAlike ==
    ASSUME NEW rs, NEW qs,
           \A x \in Requests :
               /\ DOMAIN rs[x] = RequestFields
               /\ DOMAIN qs[x] = RequestFields
               /\ rs[x].status = qs[x].status /\ rs[x].subject = qs[x].subject
               /\ rs[x].intent = qs[x].intent /\ rs[x].age = qs[x].age
               /\ rs[x].role = qs[x].role
    PROVE  Bare(rs) = Bare(qs)
<1>1. ASSUME NEW x \in Requests
      PROVE  [Reaped(rs)[x] EXCEPT !.link = FALSE] = [Reaped(qs)[x] EXCEPT !.link = FALSE]
  <2>1. PICK a : a = Reaped(rs)[x]
    OBVIOUS
  <2>2. PICK b : b = Reaped(qs)[x]
    OBVIOUS
  <2>3. /\ DOMAIN a = RequestFields /\ DOMAIN b = RequestFields
        /\ a.status = b.status /\ a.subject = b.subject /\ a.intent = b.intent /\ a.age = b.age
        /\ a.role = b.role
    BY <1>1, <2>1, <2>2 DEF Reaped, RequestFields
  <2>4. [a EXCEPT !.link = FALSE] = [b EXCEPT !.link = FALSE]
    <3>1. PICK a1 : a1 = [a EXCEPT !.link = FALSE]
      OBVIOUS
    <3>2. PICK b1 : b1 = [b EXCEPT !.link = FALSE]
      OBVIOUS
    <3>3. /\ a1 = [status |-> a.status, subject |-> a.subject, intent |-> a.intent,
                   age |-> a.age, role |-> a.role, link |-> FALSE]
          /\ b1 = [status |-> b.status, subject |-> b.subject, intent |-> b.intent,
                   age |-> b.age, role |-> b.role, link |-> FALSE]
      BY <2>3, <3>1, <3>2 DEF RequestFields
    <3>4. QED
      BY <2>3, <3>1, <3>2, <3>3
  <2>5. QED
    BY <2>1, <2>2, <2>4
<1>2. QED
  BY <1>1 DEF Bare

LEMMA RequestsAgreeHere ==
    ASSUME AccessInv, MemoryInv, [Next]_vars PROVE RequestsAgree
<1>0. SUFFICES ASSUME NEW o \in Ops, At(o, "unknown"), op'[o] = Idle, requests' # requests
               PROVE  \E r \in Requests :
                          Bare(mem_create_or_reuse(op[o].subject, op[o].intent, r).requests)
                              = Bare(requests')
  BY DEF RequestsAgree
<1>1. op[o].pc = "unknown" /\ op'[o] # op[o]
  BY <1>0 DEF At, Idle
<1>2. Unavailable(o) \/ \E r \in Requests : request_web(o, r)
  BY <1>1, WhoMoves
<1>3. PICK r \in Requests : request_web(o, r)
  BY <1>0, <1>2 DEF Unavailable
<1>4. PICK subject : subject = op[o].subject
  OBVIOUS
<1>5. PICK intent : intent = op[o].intent
  OBVIOUS
<1>6. create_or_reuse(subject, intent, r, TRUE)
  BY <1>0, <1>3, <1>4, <1>5 DEF request_web
<1>7. PICK reaped : reaped = Reaped(requests)
  OBVIOUS
<1>8. PICK mine : mine = {x \in Pending(reaped) : reaped[x].subject = subject}
  OBVIOUS
<1>9. RequestsFit(reaped)
  BY <1>7, ReapedFits DEF AccessInv
<1>10. /\ DOMAIN reaped = Requests
       /\ \A x \in Requests : DOMAIN reaped[x] = RequestFields
  BY <1>9 DEF RequestsFit
<1>11. Cardinality(Pending(reaped)) \in Nat
  <2>1. IsFiniteSet(Requests) /\ Pending(reaped) \subseteq Requests
    BY AccessAssumption DEF Pending
  <2>2. IsFiniteSet(Pending(reaped))
    BY <2>1, FS_Subset
  <2>3. QED
    BY <2>2, FS_CardinalityType
<1>12. Cardinality(Pending(reaped)) < MAX_PENDING_ACTIVATIONS
  BY <1>6, <1>7 DEF create_or_reuse
<1>13. ~(Cardinality(Pending(reaped)) >= MAX_PENDING_ACTIVATIONS)
  BY <1>11, <1>12, AccessAssumption
<1>14. PICK m : m = [InMemoryPersistenceState EXCEPT !.requests = reaped]
  OBVIOUS
<1>15. m = Tables(dir, reaped, KeysOf(stages), told, Nothing)
  BY <1>14, MemoryIs DEF Tables
<1>16. m.requests = reaped
  BY <1>15 DEF Tables
<1>17. m = [InMemoryPersistenceState EXCEPT !.requests = Reaped(@)]
  BY <1>7, <1>14, MemoryIs DEF Tables
<1>18. PICK row : row = [NoRequest EXCEPT !.status = "PENDING", !.subject = subject,
                                           !.intent = intent]
  OBVIOUS
<1>19. mem_create_or_reuse(subject, intent, r)
           = IF mine # {} THEN m ELSE [m EXCEPT !.requests[r] = row]
  BY <1>8, <1>13, <1>16, <1>17, <1>18 DEF mem_create_or_reuse
<1>20. CASE mine # {}
  <2>1. requests' = [reaped EXCEPT ![r].link = @ \/ TRUE]
    BY <1>6, <1>7, <1>8, <1>20 DEF create_or_reuse
  <2>2. Bare(reaped) = Bare(requests')
    BY <1>10, <2>1, BareAlike DEF RequestFields
  <2>3. QED
    BY <1>4, <1>5, <1>16, <1>19, <1>20, <2>2
<1>21. CASE mine = {}
  <2>1. PICK new : new = [status |-> "PENDING", subject |-> subject, intent |-> intent,
                          age |-> "fresh", role |-> Nothing, link |-> TRUE]
    OBVIOUS
  <2>2. requests' = [reaped EXCEPT ![r] = new]
    BY <1>6, <1>7, <1>8, <1>21, <2>1 DEF create_or_reuse
  <2>3. PICK rs : rs = [reaped EXCEPT ![r] = row]
    OBVIOUS
  <2>4. /\ DOMAIN row = RequestFields /\ DOMAIN new = RequestFields
        /\ row.status = new.status /\ row.subject = new.subject
        /\ row.intent = new.intent /\ row.age = new.age /\ row.role = new.role
    BY <1>18, <2>1 DEF NoRequest, RequestFields
  <2>5. Bare(rs) = Bare(requests')
    BY <1>10, <2>2, <2>3, <2>4, BareAlike
  <2>6. [m EXCEPT !.requests[r] = row].requests = rs
    BY <1>15, <1>16, <2>3 DEF Tables
  <2>7. QED
    BY <1>4, <1>5, <1>19, <1>21, <2>5, <2>6
<1>22. QED
  BY <1>20, <1>21

LEMMA StatesAgreeHere ==
    ASSUME AccessInv, MemoryInv, [Next]_vars PROVE StatesAgree
<1>0. SUFFICES ASSUME NEW t \in States, states[t].phase # "open", states'[t].phase = "open"
               PROVE  _issue_oauth_state(t, states'[t])
                          = [x \in {y \in States : states'[y].phase = "open"} |-> states'[x]]
  BY DEF StatesAgree
<1>1. ~(Open' \subseteq Open)
  BY <1>0 DEF Open
<1>2. PICK s \in States : \E state : Issue(s, state)
  <2>1. CASE \E q \in Ops : Callback(q) \/ LocalAdmin(q) \/ Administer(q) \/ Unavailable(q)
    BY <1>1, <2>1, HandlersWrite
  <2>2. CASE Browser \/ Around \/ UNCHANGED vars
    BY <1>1, <2>2, AroundWrites
  <2>3. QED
    BY <2>1, <2>2 DEF Next
<1>3. PICK state : Issue(s, state)
  BY <1>2
<1>4. DOMAIN states = States
  BY DEF AccessInv, StatesFit
<1>5. states' = [states EXCEPT ![s] = state] /\ Cardinality(Open) < OAuthCapacity
  BY <1>3 DEF Issue
<1>6. s = t /\ states'[t] = state /\ state.phase = "open"
  BY <1>0, <1>4, <1>5
<1>7. PICK kept : kept = _cleanup_oauth_states
  OBVIOUS
<1>8. DOMAIN kept = Open /\ \A x \in Open : kept[x] = states[x]
  BY <1>7 DEF _cleanup_oauth_states, Open
<1>9. Cardinality(Open) \in Nat
  BY FS_CardinalityType DEF MemoryInv
<1>10. ~(Cardinality(DOMAIN kept) >= OAuthCapacity)
  BY <1>5, <1>8, <1>9, AccessAssumption
<1>11. t \notin DOMAIN kept
  BY <1>0, <1>8 DEF Open
<1>12. _issue_oauth_state(t, states'[t]) = Put(kept, t, state)
  BY <1>6, <1>7, <1>10, <1>11 DEF _issue_oauth_state
<1>13. PICK now : now = {y \in States : states'[y].phase = "open"}
  OBVIOUS
<1>14. now = Open \cup {t}
  BY <1>4, <1>5, <1>6, <1>13 DEF Open
<1>15. \A x \in now : states'[x] = IF x = t THEN state ELSE kept[x]
  BY <1>4, <1>5, <1>6, <1>8, <1>14 DEF Open
<1>16. Put(kept, t, state) = [x \in now |-> states'[x]]
  BY <1>8, <1>14, <1>15 DEF Put
<1>17. QED
  BY <1>12, <1>13, <1>16

LEMMA PasswordsAgreeHere ==
    ASSUME AccessInv, MemoryInv, [Next]_vars PROVE PasswordsAgree
<1>0. SUFFICES ASSUME dir.credential.linked, dir'.credential.version # dir.credential.version
               PROVE  \E c \in Cookies : mem_change_password(c)
                          = [local_admin |-> dir'.credential, sessions |-> sessions']
  BY DEF PasswordsAgree
<1>1. DirectoryFits(dir)
  BY DEF AccessInv
<1>g. PICK given : Explains(told, dir, given)
  BY DEF AccessInv, Explained
<1>2. PICK o \in Ops, c \in Cookies : change_password_and_rotate_session(o, c)
  <2>1. CASE \E o \in Ops : decide(o) \/ _apply_managed(o) \/ migrate_apply(o)
    BY <1>0, <2>1, DecisionCommits, ChangeCommits, MigrationKeeps
  <2>2. CASE seed_if_absent
    <3>1. _bootstrap_in_transaction(dir).ok /\ _bootstrap_in_transaction(dir).dir # dir
      BY <2>2 DEF seed_if_absent
    <3>2. QED
      BY <1>0, <1>1, <1>g, <3>1, BootstrapCommits
  <2>3. CASE \E k \in Upkeep : Maintain(k)
    <3>1. PICK k \in Upkeep : Maintain(k)
      BY <2>3
    <3>2. dir' = ApplyCommand(dir, k).dir /\ ApplyCommand(dir, k).ok
      BY <3>1 DEF Maintain, Commit
    <3>3. dir'.credential = dir.credential
      BY <1>1, <1>g, <3>2, MaintenanceCommits DEF Committed
    <3>4. QED
      BY <1>0, <3>3
  <2>4. QED
    BY <1>0, <2>1, <2>2, <2>3, WhoWrites
<1>3. PICK record : record = [dir.credential EXCEPT !.version = @ + 1, !.must_change = FALSE]
  OBVIOUS
<1>4. dir' = [dir EXCEPT !.credential.version = @ + 1, !.credential.must_change = FALSE]
  BY <1>2 DEF change_password_and_rotate_session
<1>5. DOMAIN dir = {"account", "role", "bound", "credential"}
      /\ dir.credential \in [seeded : BOOLEAN, linked : BOOLEAN, version : Nat,
                             must_change : BOOLEAN]
  BY <1>1 DEF DirectoryFits
<1>6. dir'.credential = record /\ record.version = dir.credential.version + 1
  BY <1>3, <1>4, <1>5
<1>7. PICK new : new = LocalSession(record.version, record.version)
  OBVIOUS
<1>8. sessions' = [y \in Cookies |->
          IF y = c THEN new
          ELSE IF sessions[y].source = "LOCAL_ADMIN" THEN NoSession ELSE sessions[y]]
  BY <1>2, <1>6, <1>7 DEF change_password_and_rotate_session
<1>9. PICK revoked : revoked = [y \in Cookies |->
          IF sessions[y].source = "LOCAL_ADMIN" /\ sessions[y].live THEN NoSession
          ELSE sessions[y]]
  OBVIOUS
<1>10. [revoked EXCEPT ![c] = new] = sessions'
  BY <1>8, <1>9 DEF MemoryInv
<1>11. mem_change_password(c) = [local_admin |-> record, sessions |-> [revoked EXCEPT ![c] = new]]
  BY <1>3, <1>6, <1>7, <1>9 DEF mem_change_password
<1>12. QED
  BY <1>6, <1>10, <1>11

\* Administrators, maintenance, logins and the group listener meet the same directory in
\* memory and in PostgreSQL, whatever overlaps: a command is refused in both or in neither
\* and leaves the same tables with the same audit, a batch of the identity file is taken or
\* put back whole (apply, _restore), and requests, states and passwords move alike.
THEOREM DirectoriesAgree == Spec => AccessStoresAgree
<1>1. AccessInv /\ MemoryInv /\ [Next]_vars =>
          [/\ CommandsAgree /\ MigrationsAgree /\ UpkeepAgrees
           /\ RequestsAgree /\ StatesAgree /\ PasswordsAgree]_vars
  BY CommandsAgreeHere, MigrationsAgreeHere, UpkeepAgreesHere, RequestsAgreeHere,
     StatesAgreeHere, PasswordsAgreeHere
<1>2. QED
  BY <1>1, MemoryInvariant, PTL DEF Spec, AccessStoresAgree
=============================================================================
