---------------------------- MODULE AccessProofs ----------------------------
(***************************************************************************)
(* Proofs about signing in, administering users and reading tasks, for any *)
(* directory to start from, any commands, and any number of overlapping    *)
(* requests, sessions, states and activation requests.                     *)
(***************************************************************************)
EXTENDS InMemoryDirectory, TaskAccess, FiniteSetTheorems, TLAPS

-----------------------------------------------------------------------------
(***************************************************************************)
(* The inductive invariant of WebAccess.                                   *)
(*  - The directory keeps its keys.  What the events say of an account is  *)
(*    so; what they do not say was approved, and no step takes an approval *)
(*    away from the account it explains.                                   *)
(*  - A decided request has its event, and the event its role.             *)
(*  - A login state is spent by one handler, which hands it on to one      *)
(*    session: it is never named by two of them.                           *)
(*  - A local session was stored under the password of now, and there is   *)
(*    none before the credential is linked: what seeding may still write.  *)
(*  - Each session with an earlier password takes the place of a login that*)
(*    had verified it, and the change that made it earlier was no login.   *)
(***************************************************************************)
AuditFields == {"user", "unbound", "activation", "forgotten"}

\* ApprovedFor, of any audit, requests and directory, and as a set of pairs.
Approved(t, rs, d, u) ==
    Assignable \cap
        ({t.activation[r].role : r \in
             {x \in DOMAIN t.activation :
                 \/ u \in t.unbound
                 \/ /\ rs[x].subject \in DOMAIN d.bound
                    /\ d.bound[rs[x].subject] = u}}
         \cup t.forgotten)
Pair(u, role) == [user |-> u, role |-> role]
Given(t, rs, d) ==
    {p \in [user : DOMAIN d.account, role : Assignable] : p.role \in Approved(t, rs, d, p.user)}

\* What the audit says of the directory's accounts, with the approvals in `given'.
StatusExplained(t, d, given, u) ==
    IF SaidOf(t, u).status # Nothing THEN d.account[u].status = SaidOf(t, u).status
    ELSE d.account[u].status = "active" /\ \E role : Pair(u, role) \in given
RoleExplained(t, d, given, u) ==
    IF SaidOf(t, u).role # Nothing THEN RoleOf(d, u) = SaidOf(t, u).role
    ELSE RoleOf(d, u) = Nothing \/ Pair(u, RoleOf(d, u)) \in given
Explains(t, d, given) ==
    /\ DOMAIN t = AuditFields /\ DOMAIN t.user \subseteq DOMAIN d.account
    /\ \A u \in DOMAIN d.account :
           StatusExplained(t, d, given, u) /\ RoleExplained(t, d, given, u)

\* Decided requests and their events.
Undecided == {Nothing, "PENDING", "EXPIRED"}
RecordedOne(t, rs, r) ==
    /\ IF r \in DOMAIN t.activation
       THEN \/ rs[r].status = "APPROVED" /\ t.activation[r] = Effect(rs[r].role, "active")
            \/ rs[r].status = "REJECTED" /\ t.activation[r] = Effect(Unsaid, Unsaid)
       ELSE rs[r].status \in Undecided
    /\ rs[r].status # "APPROVED" => rs[r].role = Nothing
Recorded(t, rs) ==
    DOMAIN t.activation \subseteq Requests /\ \A r \in Requests : RecordedOne(t, rs, r)

Explained(t, rs, d) == Explains(t, d, Given(t, rs, d)) /\ Recorded(t, rs)

RequestStatus == {Nothing, "PENDING", "APPROVED", "REJECTED", "EXPIRED"}
RequestFields == {"status", "subject", "intent", "age", "role", "link"}
RequestsFit(rs) ==
    /\ DOMAIN rs = Requests
    /\ \A r \in Requests : /\ DOMAIN rs[r] = RequestFields
                           /\ rs[r].status \in RequestStatus
    /\ Cardinality(Pending(rs)) <= MAX_PENDING_ACTIVATIONS
    /\ \A r, q \in Pending(rs) : rs[r].subject = rs[q].subject => r = q

StatesFit(ss) ==
    /\ DOMAIN ss = States
    /\ \A t \in States : DOMAIN ss[t] = {"kind", "intent", "request", "phase"}

\* A login state that no callback can consume any more, and a handler that spent one.
Spent(ss, t) == t \in States /\ ss[t].phase = "closed" /\ ss[t].kind = "login"
Carries(h) == h.pc \in {"exchanged", "unknown", "resolved"}

SignInsFit(hs, ss, cs) ==
    /\ \A o \in Ops : Carries(hs[o]) => Spent(ss, hs[o].state)
    /\ \A o, q \in Ops :
           Carries(hs[o]) /\ Carries(hs[q]) /\ hs[o].state = hs[q].state => o = q
    /\ \A c \in Cookies : cs[c].source = "FEISHU" =>
           /\ Spent(ss, cs[c].state)
           /\ \A o \in Ops : Carries(hs[o]) => hs[o].state # cs[c].state
           /\ \A x \in Cookies :
                  cs[x].source = "FEISHU" /\ cs[x].state = cs[c].state => x = c

SessionsFit(cs, d) ==
    /\ DOMAIN cs = Cookies
    /\ \A c \in Cookies :
           /\ cs[c].live \in BOOLEAN
           /\ cs[c].live => cs[c].source \in {"LOCAL_ADMIN", "FEISHU"}
           /\ cs[c].source = "LOCAL_ADMIN" =>
                  d.credential.linked /\ cs[c].stored = d.credential.version

\* OldSessions and OldLogins, of any sessions and handlers.
OldIn(cs, d) ==
    {c \in Cookies : cs[c].source = "LOCAL_ADMIN" /\ cs[c].version # d.credential.version}
OldAt(hs, d) == {o \in Ops : hs[o].pc = "verified" /\ hs[o].version # d.credential.version}
OldAreFew(cs, hs, d) ==
    Cardinality(OldIn(cs, d)) + Cardinality(OldAt(hs, d)) < Cardinality(Ops)

HandlerFits(h, d) ==
    /\ DOMAIN h = {"pc", "state", "cookie", "intent", "request", "subject", "version",
                   "actor", "command", "batch"}
    /\ h.pc \in {"verified", "changing"} => d.credential.linked
    /\ h.pc = "gated" => /\ h.command \in Commands
                         /\ h.command.kind \in {"approve", "reject"} => h.request \in Requests
    /\ h.pc = "migrating" => \A i \in DOMAIN h.batch : h.batch[i].role \in ProductRole
HandlersFit(hs, d) == DOMAIN hs = Ops /\ \A o \in Ops : HandlerFits(hs[o], d)

AccessInv ==
    /\ DirectoryFits(dir) /\ Explained(told, requests, dir)
    /\ RequestsFit(requests) /\ StatesFit(states)
    /\ SignInsFit(op, states, sessions)
    /\ SessionsFit(sessions, dir) /\ HandlersFit(op, dir)
    /\ OldAreFew(sessions, op, dir)
    /\ upkeep \in Nat

-----------------------------------------------------------------------------
(***************************************************************************)
(* The commands of the directory.  Each keeps the rows' keys, and its      *)
(* event says what it changed of the account it is about.                  *)
(***************************************************************************)
LEMMA GivenPair ==
    ASSUME NEW t, NEW rs, NEW d, NEW u, NEW role
    PROVE  Pair(u, role) \in Given(t, rs, d) <=>
               u \in DOMAIN d.account /\ role \in Approved(t, rs, d, u)
<1>p. PICK p : p = Pair(u, role)
  OBVIOUS
<1>1. p = [user |-> u, role |-> role] /\ p.user = u /\ p.role = role
  BY <1>p DEF Pair
<1>2. role \in Approved(t, rs, d, u) => role \in Assignable
  BY DEF Approved
<1>3. p \in [user : DOMAIN d.account, role : Assignable] <=>
          u \in DOMAIN d.account /\ role \in Assignable
  BY <1>1
<1>4. QED
  BY <1>p, <1>1, <1>2, <1>3 DEF Given

\* More approvals explain as much.
LEMMA ExplainsGrows ==
    ASSUME NEW t, NEW d, NEW given, NEW more, Explains(t, d, given), given \subseteq more
    PROVE  Explains(t, d, more)
BY DEF Explains, StatusExplained, RoleExplained

\* Nothing that explains is lost: accounts stay, a binding stays or the audit has the event
\* of its end, an approval's event stays with its request's subject or counts for anybody.
Kept(d, t, rs, e, n, qs) ==
    /\ DOMAIN d.account \subseteq DOMAIN e.account
    /\ \A s \in DOMAIN d.bound :
           \/ s \in DOMAIN e.bound /\ e.bound[s] = d.bound[s]
           \/ d.bound[s] \in n.unbound
    /\ t.unbound \subseteq n.unbound /\ t.forgotten \subseteq n.forgotten
    /\ \A x \in DOMAIN t.activation :
           \/ /\ x \in DOMAIN n.activation /\ n.activation[x] = t.activation[x]
              /\ qs[x].subject = rs[x].subject
           \/ t.activation[x].role \in n.forgotten

LEMMA ApprovalsStay ==
    ASSUME NEW d, NEW t, NEW rs, NEW e, NEW n, NEW qs, Kept(d, t, rs, e, n, qs)
    PROVE  Given(t, rs, d) \subseteq Given(n, qs, e)
<1>1. SUFFICES ASSUME NEW p \in Given(t, rs, d) PROVE p \in Given(n, qs, e)
  OBVIOUS
<1>2. /\ p \in [user : DOMAIN d.account, role : Assignable]
      /\ p.role \in Approved(t, rs, d, p.user)
  BY <1>1 DEF Given
<1>3. p \in [user : DOMAIN e.account, role : Assignable]
  BY <1>2 DEF Kept
<1>4. p.role \in Approved(n, qs, e, p.user)
  <2>1. CASE p.role \in t.forgotten
    BY <1>2, <2>1 DEF Approved, Kept
  <2>2. CASE p.role \notin t.forgotten
    <3>1. PICK x \in DOMAIN t.activation :
              /\ p.role = t.activation[x].role
              /\ \/ p.user \in t.unbound
                 \/ rs[x].subject \in DOMAIN d.bound /\ d.bound[rs[x].subject] = p.user
      BY <1>2, <2>2 DEF Approved
    <3>2. CASE t.activation[x].role \in n.forgotten
      BY <1>2, <3>1, <3>2 DEF Approved
    <3>3. CASE /\ x \in DOMAIN n.activation /\ n.activation[x] = t.activation[x]
               /\ qs[x].subject = rs[x].subject
      <4>1. \/ p.user \in n.unbound
            \/ qs[x].subject \in DOMAIN e.bound /\ e.bound[qs[x].subject] = p.user
        BY <3>1, <3>3 DEF Kept
      <4>2. QED
        BY <1>2, <3>1, <3>3, <4>1 DEF Approved
    <3>4. QED
      BY <3>1, <3>2, <3>3 DEF Kept
  <2>3. QED
    BY <2>1, <2>2
<1>5. QED
  BY <1>3, <1>4 DEF Given

\* One more event of an account explains a directory that differs from the explained one at
\* that account only, and there as the event says.
LEMMA OneMoreEvent ==
    ASSUME NEW t, NEW n, NEW d, NEW e, NEW u, NEW effect, NEW given, Explains(t, d, given),
           DirectoryFits(e), DOMAIN n = AuditFields, n.user = Believes(t.user, u, effect),
           DOMAIN e.account = DOMAIN d.account \cup {u},
           \A v \in DOMAIN d.account \ {u} :
               RoleOf(e, v) = RoleOf(d, v) /\ e.account[v].status = d.account[v].status,
           IF effect.role = Unsaid THEN u \in DOMAIN d.account /\ RoleOf(e, u) = RoleOf(d, u)
           ELSE RoleOf(e, u) = effect.role,
           IF effect.status = Unsaid
           THEN u \in DOMAIN d.account /\ e.account[u].status = d.account[u].status
           ELSE e.account[u].status = effect.status
    PROVE  Explains(n, e, given)
<1>2. DOMAIN n.user = DOMAIN t.user \cup {u}
  BY DEF Believes, Put
<1>3. ASSUME NEW v \in DOMAIN e.account, v # u
      PROVE  StatusExplained(n, e, given, v) /\ RoleExplained(n, e, given, v)
  <2>1. SaidOf(n, v) = SaidOf(t, v)
    BY <1>2, <1>3 DEF SaidOf, Believes, Put
  <2>2. QED
    BY <1>3, <2>1 DEF Explains, StatusExplained, RoleExplained
<1>4. StatusExplained(n, e, given, u) /\ RoleExplained(n, e, given, u)
  <2>1. PICK was : was = SaidOf(t, u)
    OBVIOUS
  <2>2. n.user[u] = [role |-> IF effect.role = Unsaid THEN was.role ELSE effect.role,
                     status |-> IF effect.status = Unsaid THEN was.status ELSE effect.status]
    BY <2>1 DEF Believes, Put, SaidOf
  <2>3. /\ SaidOf(n, u).role = IF effect.role = Unsaid THEN was.role ELSE effect.role
        /\ SaidOf(n, u).status = IF effect.status = Unsaid THEN was.status ELSE effect.status
    BY <1>2, <2>2 DEF SaidOf
  <2>4. e.account[u].status \in UserStatus /\ Nothing \notin UserStatus
    BY DEF DirectoryFits, UserStatus, Nothing
  <2>5. u \in DOMAIN d.account =>
            StatusExplained(t, d, given, u) /\ RoleExplained(t, d, given, u)
    BY DEF Explains
  <2>6. StatusExplained(n, e, given, u)
    BY <2>1, <2>3, <2>4, <2>5 DEF StatusExplained
  <2>7. RoleExplained(n, e, given, u)
    BY <2>1, <2>3, <2>5 DEF RoleExplained
  <2>8. QED
    BY <2>6, <2>7
<1>5. DOMAIN n.user \subseteq DOMAIN e.account
  BY <1>2 DEF Explains
<1>6. QED
  BY <1>3, <1>4, <1>5 DEF Explains

\* The event of a command about an account.
LEMMA AccountEvent ==
    ASSUME NEW t, NEW u, NEW c, DOMAIN t = AuditFields, c.kind \notin {"approve", "reject"}
    PROVE  LET n == derive_audit(t, u, c) IN
           /\ DOMAIN n = AuditFields
           /\ n.user = Believes(t.user, u, EFFECT_FOR_COMMAND(c))
           /\ t.unbound \subseteq n.unbound /\ (c.kind = "unbind" => u \in n.unbound)
           /\ n.activation = t.activation /\ n.forgotten = t.forgotten
<1>1. PICK b : b = Believes(t.user, u, EFFECT_FOR_COMMAND(c))
  OBVIOUS
<1>2. PICK x : x = IF c.kind = "unbind" THEN t.unbound \cup {u} ELSE t.unbound
  OBVIOUS
<1>3. derive_audit(t, u, c) = [t EXCEPT !.user = b, !.unbound = x]
  BY <1>1, <1>2 DEF derive_audit, AuditFields
<1>4. QED
  BY <1>1, <1>2, <1>3 DEF AuditFields

\* What a committed transaction leaves: a sound directory, explained by the audit, with
\* everything kept that explains more.
Steady(d, t, e, n) ==
    /\ DOMAIN d.account \subseteq DOMAIN e.account
    /\ \A s \in DOMAIN d.bound :
           \/ s \in DOMAIN e.bound /\ e.bound[s] = d.bound[s]
           \/ d.bound[s] \in n.unbound
    /\ t.unbound \subseteq n.unbound
    /\ n.activation = t.activation /\ n.forgotten = t.forgotten
Committed(d, t, e, n, given) ==
    /\ DirectoryFits(e) /\ e.credential = d.credential
    /\ Explains(n, e, given) /\ Steady(d, t, e, n)

LEMMA InsertedAccount ==
    ASSUME NEW d, NEW u, NEW actor, NEW display, DirectoryFits(d),
           _insert_account(d, u, actor, display).ok
    PROVE  LET e == _insert_account(d, u, actor, display).dir IN
           /\ DirectoryFits(e)
           /\ u \notin DOMAIN d.account
           /\ DOMAIN e.account = DOMAIN d.account \cup {u}
           /\ e.account[u] = [actor |-> actor, display |-> display, status |-> "active"]
           /\ \A v \in DOMAIN d.account : e.account[v] = d.account[v]
           /\ e.role = d.role /\ e.bound = d.bound /\ e.credential = d.credential
<1>1. PICK row : row = [actor |-> actor, display |-> display, status |-> "active"]
  OBVIOUS
<1>2. PICK e : e = [d EXCEPT !.account = Put(@, u, row)]
  OBVIOUS
<1>3. u \notin DOMAIN d.account /\ _insert_account(d, u, actor, display).dir = e
  BY <1>1, <1>2 DEF _insert_account, Refused, Done
<1>4. /\ e.account = Put(d.account, u, row)
      /\ e.role = d.role /\ e.bound = d.bound /\ e.credential = d.credential
      /\ DOMAIN e = {"account", "role", "bound", "credential"}
  BY <1>2 DEF DirectoryFits
<1>5. /\ DOMAIN e.account = DOMAIN d.account \cup {u} /\ e.account[u] = row
      /\ \A v \in DOMAIN d.account : e.account[v] = d.account[v]
  BY <1>3, <1>4 DEF Put
<1>6. DOMAIN row = {"actor", "display", "status"} /\ row.status \in UserStatus
  BY <1>1 DEF UserStatus
<1>7. DirectoryFits(e)
  BY <1>4, <1>5, <1>6 DEF DirectoryFits
<1>8. QED
  BY <1>1, <1>3, <1>4, <1>5, <1>7

LEMMA UpsertedRole ==
    ASSUME NEW d, NEW u \in DOMAIN d.account, NEW role \in ProductRole, DirectoryFits(d)
    PROVE  LET e == _upsert_role(d, u, role) IN
           /\ DirectoryFits(e)
           /\ e.account = d.account /\ e.bound = d.bound /\ e.credential = d.credential
           /\ RoleOf(e, u) = role
           /\ \A v \in DOMAIN d.account \ {u} : RoleOf(e, v) = RoleOf(d, v)
<1>1. PICK e : e = _upsert_role(d, u, role)
  OBVIOUS
<1>2. /\ e.role = Put(d.role, u, role) /\ e.account = d.account
      /\ e.bound = d.bound /\ e.credential = d.credential
      /\ DOMAIN e = {"account", "role", "bound", "credential"}
  BY <1>1 DEF DirectoryFits, _upsert_role
<1>3. DOMAIN e.role = DOMAIN d.role \cup {u} /\ e.role[u] = role
      /\ \A v \in DOMAIN d.role \ {u} : e.role[v] = d.role[v]
  BY <1>2 DEF Put
<1>4. DirectoryFits(e)
  BY <1>2, <1>3 DEF DirectoryFits
<1>5. QED
  BY <1>1, <1>2, <1>3, <1>4 DEF RoleOf

LEMMA BoundSubject ==
    ASSUME NEW d, NEW u \in DOMAIN d.account, NEW subject, DirectoryFits(d),
           _bind_subject(d, u, subject).ok
    PROVE  LET e == _bind_subject(d, u, subject).dir IN
           /\ DirectoryFits(e)
           /\ e.account = d.account /\ e.role = d.role /\ e.credential = d.credential
           /\ DOMAIN e.bound = DOMAIN d.bound \cup {subject} /\ e.bound[subject] = u
           /\ \A s \in DOMAIN d.bound : e.bound[s] = d.bound[s]
<1>1. PICK e : e = [d EXCEPT !.bound = Put(@, subject, u)]
  OBVIOUS
<1>2. /\ subject \notin DOMAIN d.bound /\ \A s \in DOMAIN d.bound : d.bound[s] # u
      /\ _bind_subject(d, u, subject).dir = e
  BY <1>1 DEF _bind_subject, Refused, Done
<1>3. /\ e.bound = Put(d.bound, subject, u) /\ e.account = d.account
      /\ e.role = d.role /\ e.credential = d.credential
      /\ DOMAIN e = {"account", "role", "bound", "credential"}
  BY <1>1 DEF DirectoryFits
<1>4. DOMAIN e.bound = DOMAIN d.bound \cup {subject} /\ e.bound[subject] = u
      /\ \A s \in DOMAIN d.bound : e.bound[s] = d.bound[s]
  BY <1>2, <1>3 DEF Put
<1>5. DirectoryFits(e)
  BY <1>2, <1>3, <1>4 DEF DirectoryFits
<1>6. QED
  BY <1>2, <1>3, <1>4, <1>5

\* apply, as an operator's script calls it.
LEMMA MaintenanceCommits ==
    ASSUME NEW d, NEW t, NEW given, DirectoryFits(d), Explains(t, d, given),
           NEW c \in Upkeep, ApplyCommand(d, c).ok
    PROVE  Committed(d, t, ApplyCommand(d, c).dir, derive_audit(t, c.user, c), given)
<1>k. c.kind \in {"create_user", "set_status", "assign_role", "revoke_role", "bind", "unbind"}
      /\ (c.kind \in {"create_user", "assign_role"} => c.role \in ProductRole)
      /\ (c.kind = "set_status" => c.status \in UserStatus)
  BY AccessAssumption
<1>n. PICK n : n = derive_audit(t, c.user, c)
  OBVIOUS
<1>e. /\ DOMAIN n = AuditFields
      /\ n.user = Believes(t.user, c.user, EFFECT_FOR_COMMAND(c))
      /\ t.unbound \subseteq n.unbound /\ (c.kind = "unbind" => c.user \in n.unbound)
      /\ n.activation = t.activation /\ n.forgotten = t.forgotten
  BY <1>k, <1>n, AccountEvent DEF Explains
<1>1. CASE c.kind = "create_user"
  <2>1. ApplyCommand(d, c) = CreateUser(d, c)
    BY <1>1 DEF ApplyCommand
  <2>2. PICK r : r = _insert_account(d, c.user, c.actor, c.display)
    OBVIOUS
  <2>3. r.ok /\ ApplyCommand(d, c).dir = _upsert_role(r.dir, c.user, c.role)
    BY <2>1, <2>2 DEF CreateUser, Then, Done
  <2>4. PICK e : e = _upsert_role(r.dir, c.user, c.role)
    OBVIOUS
  <2>r. PICK row : row = [actor |-> c.actor, display |-> c.display, status |-> "active"]
    OBVIOUS
  <2>5. /\ DirectoryFits(r.dir) /\ c.user \notin DOMAIN d.account
        /\ DOMAIN r.dir.account = DOMAIN d.account \cup {c.user}
        /\ r.dir.account[c.user] = row /\ row.status = "active"
        /\ \A v \in DOMAIN d.account : r.dir.account[v] = d.account[v]
        /\ r.dir.role = d.role /\ r.dir.bound = d.bound /\ r.dir.credential = d.credential
    BY <2>2, <2>3, <2>r, InsertedAccount
  <2>6. /\ DirectoryFits(e) /\ e.account = r.dir.account /\ e.bound = d.bound
        /\ e.credential = d.credential
        /\ RoleOf(e, c.user) = c.role
        /\ \A v \in DOMAIN d.account \ {c.user} : RoleOf(e, v) = RoleOf(r.dir, v)
    BY <1>1, <1>k, <2>4, <2>5, UpsertedRole
  <2>7. EFFECT_FOR_COMMAND(c) = [role |-> c.role, status |-> "active"]
    BY <1>1 DEF EFFECT_FOR_COMMAND, Effect
  <2>8. c.role # Unsaid /\ "active" # Unsaid
    BY <1>1, <1>k DEF ProductRole, Unsaid
  <2>9. \A v \in DOMAIN d.account \ {c.user} : RoleOf(e, v) = RoleOf(d, v)
    BY <2>5, <2>6 DEF RoleOf
  <2>10. Explains(n, e, given)
    BY <1>e, <2>5, <2>6, <2>7, <2>8, <2>9, OneMoreEvent
  <2>11. QED
    BY <1>n, <1>e, <2>3, <2>4, <2>5, <2>6, <2>10 DEF Committed, Steady
<1>2. CASE c.kind = "set_status"
  <2>1. ApplyCommand(d, c) = SetUserStatus(d, c)
    BY <1>2 DEF ApplyCommand
  <2>2. PICK e : e = [d EXCEPT !.account[c.user].status = c.status]
    OBVIOUS
  <2>3. c.user \in DOMAIN d.account /\ ApplyCommand(d, c).dir = e
    BY <2>1, <2>2 DEF SetUserStatus, Refused, Done
  <2>4. PICK row : row = [d.account[c.user] EXCEPT !.status = c.status]
    OBVIOUS
  <2>5. DOMAIN row = {"actor", "display", "status"} /\ row.status = c.status
    BY <2>3, <2>4 DEF DirectoryFits
  <2>6. /\ DOMAIN e.account = DOMAIN d.account /\ e.account[c.user] = row
        /\ \A v \in DOMAIN d.account \ {c.user} : e.account[v] = d.account[v]
        /\ e.role = d.role /\ e.bound = d.bound /\ e.credential = d.credential
        /\ DOMAIN e = {"account", "role", "bound", "credential"}
    BY <2>2, <2>3, <2>4 DEF DirectoryFits
  <2>7. DirectoryFits(e)
    BY <1>2, <1>k, <2>5, <2>6 DEF DirectoryFits
  <2>8. EFFECT_FOR_COMMAND(c) = [role |-> Unsaid, status |-> c.status] /\ c.status # Unsaid
    BY <1>2, <1>k DEF EFFECT_FOR_COMMAND, Effect, UserStatus, Unsaid
  <2>9. \A v \in DOMAIN d.account : RoleOf(e, v) = RoleOf(d, v)
    BY <2>6 DEF RoleOf
  <2>10. Explains(n, e, given)
    BY <1>e, <2>3, <2>5, <2>6, <2>7, <2>8, <2>9, OneMoreEvent
  <2>11. QED
    BY <1>n, <1>e, <2>3, <2>6, <2>7, <2>10 DEF Committed, Steady
<1>3. CASE c.kind = "assign_role"
  <2>1. ApplyCommand(d, c) = AssignRole(d, c)
    BY <1>3 DEF ApplyCommand
  <2>2. PICK e : e = _upsert_role(d, c.user, c.role)
    OBVIOUS
  <2>3. c.user \in DOMAIN d.account /\ ApplyCommand(d, c).dir = e
    BY <2>1, <2>2 DEF AssignRole, Refused, Done
  <2>4. /\ DirectoryFits(e) /\ e.account = d.account /\ e.bound = d.bound
        /\ e.credential = d.credential /\ RoleOf(e, c.user) = c.role
        /\ \A v \in DOMAIN d.account \ {c.user} : RoleOf(e, v) = RoleOf(d, v)
    BY <1>3, <1>k, <2>2, <2>3, UpsertedRole
  <2>5. EFFECT_FOR_COMMAND(c) = [role |-> c.role, status |-> Unsaid] /\ c.role # Unsaid
    BY <1>3, <1>k DEF EFFECT_FOR_COMMAND, Effect, ProductRole, Unsaid
  <2>6. Explains(n, e, given)
    BY <1>e, <2>3, <2>4, <2>5, OneMoreEvent
  <2>7. QED
    BY <1>n, <1>e, <2>3, <2>4, <2>6 DEF Committed, Steady
<1>4. CASE c.kind = "revoke_role"
  <2>1. ApplyCommand(d, c) = RevokeRole(d, c)
    BY <1>4 DEF ApplyCommand
  <2>2. PICK e : e = [d EXCEPT !.role = Without(@, c.user)]
    OBVIOUS
  <2>3. c.user \in DOMAIN d.account /\ ApplyCommand(d, c).dir = e
    BY <2>1, <2>2 DEF RevokeRole, Refused, Done
  <2>4. /\ DOMAIN e.role = DOMAIN d.role \ {c.user}
        /\ \A v \in DOMAIN e.role : e.role[v] = d.role[v]
        /\ e.account = d.account /\ e.bound = d.bound /\ e.credential = d.credential
        /\ DOMAIN e = {"account", "role", "bound", "credential"}
    BY <2>2 DEF DirectoryFits, Without
  <2>5. DirectoryFits(e)
    BY <2>4 DEF DirectoryFits
  <2>6. RoleOf(e, c.user) = Nothing
        /\ \A v \in DOMAIN d.account \ {c.user} : RoleOf(e, v) = RoleOf(d, v)
    BY <2>4 DEF RoleOf
  <2>7. EFFECT_FOR_COMMAND(c) = [role |-> Nothing, status |-> Unsaid] /\ Nothing # Unsaid
    BY <1>4 DEF EFFECT_FOR_COMMAND, Effect, Unsaid, Nothing
  <2>8. Explains(n, e, given)
    BY <1>e, <2>3, <2>4, <2>5, <2>6, <2>7, OneMoreEvent
  <2>9. QED
    BY <1>n, <1>e, <2>3, <2>4, <2>5, <2>8 DEF Committed, Steady
<1>5. CASE c.kind = "bind"
  <2>1. ApplyCommand(d, c) = BindExternalIdentity(d, c)
    BY <1>5 DEF ApplyCommand
  <2>2. c.user \in DOMAIN d.account /\ ApplyCommand(d, c) = _bind_subject(d, c.user, c.subject)
    BY <2>1 DEF BindExternalIdentity, Refused
  <2>3. PICK e : e = _bind_subject(d, c.user, c.subject).dir
    OBVIOUS
  <2>4. /\ DirectoryFits(e) /\ e.account = d.account /\ e.role = d.role
        /\ e.credential = d.credential
        /\ DOMAIN e.bound = DOMAIN d.bound \cup {c.subject}
        /\ \A s \in DOMAIN d.bound : e.bound[s] = d.bound[s]
    BY <2>2, <2>3, BoundSubject
  <2>5. EFFECT_FOR_COMMAND(c) = [role |-> Unsaid, status |-> Unsaid]
    BY <1>5 DEF EFFECT_FOR_COMMAND, Effect
  <2>6. \A v \in DOMAIN d.account : RoleOf(e, v) = RoleOf(d, v)
    BY <2>4 DEF RoleOf
  <2>7. Explains(n, e, given)
    BY <1>e, <2>2, <2>4, <2>5, <2>6, OneMoreEvent
  <2>8. QED
    BY <1>n, <1>e, <2>2, <2>3, <2>4, <2>7 DEF Committed, Steady
<1>6. CASE c.kind = "unbind"
  <2>1. ApplyCommand(d, c) = UnbindExternalIdentity(d, c)
    BY <1>6 DEF ApplyCommand
  <2>2. PICK mine : mine = {s \in DOMAIN d.bound : d.bound[s] = c.user}
    OBVIOUS
  <2>3. PICK e : e = [d EXCEPT !.bound = [s \in DOMAIN @ \ mine |-> @[s]]]
    OBVIOUS
  <2>4. c.user \in DOMAIN d.account /\ ApplyCommand(d, c).dir = e
    BY <2>1, <2>2, <2>3 DEF UnbindExternalIdentity, Refused, Done
  <2>5. /\ e.bound = [s \in DOMAIN d.bound \ mine |-> d.bound[s]]
        /\ e.account = d.account /\ e.role = d.role /\ e.credential = d.credential
        /\ DOMAIN e = {"account", "role", "bound", "credential"}
    BY <2>3 DEF DirectoryFits
  <2>6. DirectoryFits(e)
    BY <2>5 DEF DirectoryFits
  <2>7. EFFECT_FOR_COMMAND(c) = [role |-> Unsaid, status |-> Unsaid]
    BY <1>6 DEF EFFECT_FOR_COMMAND, Effect
  <2>8. \A v \in DOMAIN d.account : RoleOf(e, v) = RoleOf(d, v)
    BY <2>5 DEF RoleOf
  <2>9. Explains(n, e, given)
    BY <1>e, <2>4, <2>5, <2>6, <2>7, <2>8, OneMoreEvent
  <2>10. QED
    BY <1>n, <1>e, <1>6, <2>2, <2>4, <2>5, <2>6, <2>9 DEF Committed, Steady
<1>7. QED
  BY <1>k, <1>1, <1>2, <1>3, <1>4, <1>5, <1>6

\* No administrator loses the role, and none is disabled.
AdminsKept(d, e) ==
    \A u \in DOMAIN d.role : d.role[u] = "ADMIN" =>
        RoleOf(e, u) = "ADMIN" /\ e.account[u].status = d.account[u].status

\* seed_if_absent: only what is missing is inserted, and a password is never rolled back.
LEMMA BootstrapCommits ==
    ASSUME NEW d, NEW t, NEW given, DirectoryFits(d), Explains(t, d, given),
           _bootstrap_in_transaction(d).ok, _bootstrap_in_transaction(d).dir # d
    PROVE  LET e == _bootstrap_in_transaction(d).dir
               n == derive_audit(t, LOCAL_ADMIN_USER_ID, [kind |-> "bootstrap"]) IN
           /\ DirectoryFits(e) /\ AdminsKept(d, e)
           /\ Explains(n, e, given) /\ Steady(d, t, e, n)
           /\ ~d.credential.linked
           /\ d.credential.seeded => /\ e.credential.version = d.credential.version
                                     /\ e.credential.must_change = d.credential.must_change
<1>1. PICK u : u = LOCAL_ADMIN_USER_ID
  OBVIOUS
<1>2. PICK r : r = _insert_account(d, u, LOCAL_ADMIN_ACTOR, LOCAL_ADMIN_ACTOR)
  OBVIOUS
<1>3. PICK k : k = IF d.credential.seeded THEN [d.credential EXCEPT !.linked = TRUE]
                   ELSE [seeded |-> TRUE, linked |-> TRUE, version |-> 1, must_change |-> TRUE]
  OBVIOUS
<1>4. PICK f : f = _upsert_role(r.dir, u, "ADMIN")
  OBVIOUS
<1>5. PICK e : e = [f EXCEPT !.credential = IF @.seeded THEN [@ EXCEPT !.linked = TRUE]
                   ELSE [seeded |-> TRUE, linked |-> TRUE, version |-> 1, must_change |-> TRUE]]
  OBVIOUS
<1>6. ~d.credential.linked /\ r.ok /\ _bootstrap_in_transaction(d).dir = e
  BY <1>1, <1>2, <1>4, <1>5 DEF _bootstrap_in_transaction, Then, Done, Refused
<1>r. PICK row : row = [actor |-> LOCAL_ADMIN_ACTOR, display |-> LOCAL_ADMIN_ACTOR,
                        status |-> "active"]
  OBVIOUS
<1>7. /\ DirectoryFits(r.dir) /\ u \notin DOMAIN d.account
      /\ DOMAIN r.dir.account = DOMAIN d.account \cup {u}
      /\ r.dir.account[u] = row /\ row.status = "active"
      /\ \A v \in DOMAIN d.account : r.dir.account[v] = d.account[v]
      /\ r.dir.role = d.role /\ r.dir.bound = d.bound /\ r.dir.credential = d.credential
  BY <1>2, <1>6, <1>r, InsertedAccount
<1>8. /\ DirectoryFits(f) /\ f.account = r.dir.account /\ f.bound = d.bound
      /\ f.credential = d.credential /\ RoleOf(f, u) = "ADMIN"
      /\ \A v \in DOMAIN d.account : RoleOf(f, v) = RoleOf(r.dir, v)
  BY <1>4, <1>7, UpsertedRole DEF ProductRole
<1>9. e = [f EXCEPT !.credential = k]
  BY <1>3, <1>5, <1>8 DEF DirectoryFits
<1>10. /\ e.account = f.account /\ e.role = f.role /\ e.bound = f.bound /\ e.credential = k
       /\ DOMAIN e = {"account", "role", "bound", "credential"}
  BY <1>8, <1>9 DEF DirectoryFits
<1>11. /\ k \in [seeded : BOOLEAN, linked : BOOLEAN, version : Nat, must_change : BOOLEAN]
       /\ d.credential.seeded => k.version = d.credential.version
                                 /\ k.must_change = d.credential.must_change
  BY <1>3 DEF DirectoryFits
<1>12. DirectoryFits(e)
  BY <1>8, <1>10, <1>11 DEF DirectoryFits
<1>13. RoleOf(e, u) = "ADMIN" /\ \A v \in DOMAIN d.account : RoleOf(e, v) = RoleOf(d, v)
  BY <1>7, <1>8, <1>10 DEF RoleOf
<1>c. PICK c : c = [kind |-> "bootstrap"]
  OBVIOUS
<1>b. c.kind = "bootstrap"
  BY <1>c
<1>14. EFFECT_FOR_COMMAND(c) = [role |-> "ADMIN", status |-> "active"]
  BY <1>b DEF EFFECT_FOR_COMMAND, Effect
<1>n. PICK n : n = derive_audit(t, u, c)
  OBVIOUS
<1>v. /\ DOMAIN n = AuditFields /\ n.user = Believes(t.user, u, EFFECT_FOR_COMMAND(c))
      /\ t.unbound \subseteq n.unbound
      /\ n.activation = t.activation /\ n.forgotten = t.forgotten
  BY <1>b, <1>n, AccountEvent DEF Explains
<1>15. Explains(n, e, given)
  BY <1>7, <1>8, <1>10, <1>12, <1>13, <1>14, <1>v, OneMoreEvent DEF Unsaid
<1>s. Steady(d, t, e, n)
  BY <1>7, <1>8, <1>10, <1>v DEF Steady
<1>16. AdminsKept(d, e)
  BY <1>7, <1>8, <1>10, <1>13 DEF AdminsKept, DirectoryFits, RoleOf
<1>17. QED
  BY <1>1, <1>6, <1>c, <1>n, <1>s, <1>10, <1>11, <1>12, <1>15, <1>16

\* A command of the Web about a user.
LEMMA ManagedChangeCommits ==
    ASSUME NEW d, NEW t, NEW given, DirectoryFits(d), Explains(t, d, given), NEW actor,
           NEW c \in Commands, c.kind \in {"set_status", "change_role"},
           _apply_managed_user_change(d, actor, c).ok
    PROVE  /\ Committed(d, t, _apply_managed_user_change(d, actor, c).dir,
                        derive_audit(t, c.user, c), given)
           /\ AdminsKept(d, _apply_managed_user_change(d, actor, c).dir)
           /\ _require_admin_for_update(d, actor)
<1>k. /\ c.kind = "change_role" => c.role \in ProductRole
      /\ c.kind = "set_status" => c.status \in UserStatus
  BY AccessAssumption DEF Assignable, ProductRole
<1>g. /\ _require_admin_for_update(d, actor)
      /\ c.user \in DOMAIN d.account /\ c.user \in DOMAIN d.role /\ d.role[c.user] # "ADMIN"
  BY DEF _apply_managed_user_change, Refused
<1>n. PICK n : n = derive_audit(t, c.user, c)
  OBVIOUS
<1>e. /\ DOMAIN n = AuditFields
      /\ n.user = Believes(t.user, c.user, EFFECT_FOR_COMMAND(c))
      /\ t.unbound \subseteq n.unbound
      /\ n.activation = t.activation /\ n.forgotten = t.forgotten
  BY <1>n, AccountEvent DEF Explains
<1>1. CASE c.kind = "set_status"
  <2>2. PICK e : e = [d EXCEPT !.account[c.user].status = c.status]
    OBVIOUS
  <2>3. _apply_managed_user_change(d, actor, c).dir = e
    BY <1>1, <1>g, <2>2 DEF _apply_managed_user_change, Refused, Done
  <2>4. PICK row : row = [d.account[c.user] EXCEPT !.status = c.status]
    OBVIOUS
  <2>5. DOMAIN row = {"actor", "display", "status"} /\ row.status = c.status
    BY <1>g, <2>4 DEF DirectoryFits
  <2>6. /\ DOMAIN e.account = DOMAIN d.account /\ e.account[c.user] = row
        /\ \A v \in DOMAIN d.account \ {c.user} : e.account[v] = d.account[v]
        /\ e.role = d.role /\ e.bound = d.bound /\ e.credential = d.credential
        /\ DOMAIN e = {"account", "role", "bound", "credential"}
    BY <1>g, <2>2, <2>4 DEF DirectoryFits
  <2>7. DirectoryFits(e)
    BY <1>1, <1>k, <2>5, <2>6 DEF DirectoryFits
  <2>8. EFFECT_FOR_COMMAND(c) = [role |-> Unsaid, status |-> c.status] /\ c.status # Unsaid
    BY <1>1, <1>k DEF EFFECT_FOR_COMMAND, Effect, UserStatus, Unsaid
  <2>9. \A v \in DOMAIN d.account : RoleOf(e, v) = RoleOf(d, v)
    BY <2>6 DEF RoleOf
  <2>10. Explains(n, e, given)
    BY <1>e, <1>g, <2>5, <2>6, <2>7, <2>8, <2>9, OneMoreEvent
  <2>11. AdminsKept(d, e)
    BY <1>g, <2>6 DEF AdminsKept, RoleOf, DirectoryFits
  <2>12. QED
    BY <1>n, <1>e, <1>g, <2>3, <2>6, <2>7, <2>10, <2>11 DEF Committed, Steady
<1>2. CASE c.kind = "change_role"
  <2>2. PICK e : e = [d EXCEPT !.role[c.user] = c.role]
    OBVIOUS
  <2>3. _apply_managed_user_change(d, actor, c).dir = e
    BY <1>2, <1>g, <2>2 DEF _apply_managed_user_change, Refused, Done
  <2>4. /\ DOMAIN e.role = DOMAIN d.role /\ e.role[c.user] = c.role
        /\ \A v \in DOMAIN d.role \ {c.user} : e.role[v] = d.role[v]
        /\ e.account = d.account /\ e.bound = d.bound /\ e.credential = d.credential
        /\ DOMAIN e = {"account", "role", "bound", "credential"}
    BY <1>g, <2>2 DEF DirectoryFits
  <2>5. DirectoryFits(e)
    BY <1>2, <1>k, <2>4 DEF DirectoryFits
  <2>6. RoleOf(e, c.user) = c.role
        /\ \A v \in DOMAIN d.account \ {c.user} : RoleOf(e, v) = RoleOf(d, v)
    BY <1>g, <2>4 DEF RoleOf
  <2>7. EFFECT_FOR_COMMAND(c) = [role |-> c.role, status |-> Unsaid] /\ c.role # Unsaid
    BY <1>2, <1>k DEF EFFECT_FOR_COMMAND, Effect, ProductRole, Unsaid
  <2>8. Explains(n, e, given)
    BY <1>e, <1>g, <2>4, <2>5, <2>6, <2>7, OneMoreEvent
  <2>9. AdminsKept(d, e)
    BY <1>g, <2>4 DEF AdminsKept, RoleOf
  <2>10. QED
    BY <1>n, <1>e, <1>g, <2>3, <2>4, <2>5, <2>8, <2>9 DEF Committed, Steady
<1>3. QED
  BY <1>1, <1>2

\* An approval inserts an account, a role and a binding, or finds them exactly so: an
\* account with a status, and a role where there was none, that the approval explains.
LEMMA ApprovalCommits ==
    ASSUME NEW d, NEW t, NEW given, DirectoryFits(d), Explains(t, d, given),
           NEW c \in Commands, c.kind = "approve", NEW subject,
           _approve_activation_facts(d, c, subject).ok,
           NEW more, given \subseteq more,
           Pair(ActivationAccount(d, c, subject), c.role) \in more
    PROVE  LET e == _approve_activation_facts(d, c, subject).dir
               u == ActivationAccount(d, c, subject) IN
           /\ DirectoryFits(e) /\ e.credential = d.credential /\ AdminsKept(d, e)
           /\ Explains(t, e, more)
<1>k. c.role \in Assignable /\ c.role \in ProductRole /\ c.role # "ADMIN"
  BY AccessAssumption DEF Assignable, ProductRole
<1>u. PICK u : u = ActivationAccount(d, c, subject)
  OBVIOUS
<1>1. PICK a : a = IF u \notin DOMAIN d.account THEN _insert_account(d, u, c.actor, c.display)
                   ELSE IF \/ d.account[u].actor # c.actor \/ d.account[u].display # c.display
                           \/ d.account[u].status # "active"
                        THEN Refused("conflict") ELSE Done(d)
  OBVIOUS
<1>2. PICK b : b = IF u \notin DOMAIN a.dir.role THEN Done(_upsert_role(a.dir, u, c.role))
                   ELSE IF a.dir.role[u] # c.role THEN Refused("conflict") ELSE Done(a.dir)
  OBVIOUS
<1>3. PICK f : f = IF subject \notin DOMAIN b.dir.bound THEN _bind_subject(b.dir, u, subject)
                   ELSE IF b.dir.bound[subject] # u THEN Refused("conflict") ELSE Done(b.dir)
  OBVIOUS
<1>4. a.ok /\ b.ok /\ f.ok /\ _approve_activation_facts(d, c, subject) = f
  BY <1>u, <1>1, <1>2, <1>3 DEF _approve_activation_facts, Then
<1>5. /\ DirectoryFits(a.dir) /\ a.dir.role = d.role /\ a.dir.credential = d.credential
      /\ DOMAIN a.dir.account = DOMAIN d.account \cup {u} /\ a.dir.account[u].status = "active"
      /\ \A v \in DOMAIN d.account : a.dir.account[v] = d.account[v]
  <2>1. CASE u \notin DOMAIN d.account
    <3>1. PICK row : row = [actor |-> c.actor, display |-> c.display, status |-> "active"]
      OBVIOUS
    <3>2. row.status = "active"
      BY <3>1
    <3>3. QED
      BY <1>1, <1>4, <2>1, <3>1, <3>2, InsertedAccount
  <2>2. CASE u \in DOMAIN d.account
    BY <1>1, <1>4, <2>2 DEF Done, Refused
  <2>3. QED
    BY <2>1, <2>2
<1>6. /\ DirectoryFits(b.dir) /\ b.dir.account = a.dir.account
      /\ b.dir.credential = d.credential /\ RoleOf(b.dir, u) = c.role
      /\ \A v \in DOMAIN d.account \ {u} : RoleOf(b.dir, v) = RoleOf(d, v)
      /\ u \in DOMAIN d.role => d.role[u] = c.role
  <2>1. CASE u \notin DOMAIN d.role
    <3>1. b.dir = _upsert_role(a.dir, u, c.role)
      BY <1>2, <1>5, <2>1 DEF Done
    <3>2. u \in DOMAIN a.dir.account
      BY <1>5
    <3>3. /\ DirectoryFits(b.dir) /\ b.dir.account = a.dir.account
          /\ b.dir.credential = d.credential /\ RoleOf(b.dir, u) = c.role
          /\ \A v \in DOMAIN d.account \ {u} : RoleOf(b.dir, v) = RoleOf(a.dir, v)
      BY <1>k, <1>5, <3>1, <3>2, UpsertedRole
    <3>4. QED
      BY <1>5, <2>1, <3>3 DEF RoleOf
  <2>2. CASE u \in DOMAIN d.role
    BY <1>2, <1>4, <1>5, <2>2 DEF Done, Refused, RoleOf
  <2>3. QED
    BY <2>1, <2>2
<1>7. /\ DirectoryFits(f.dir) /\ f.dir.account = b.dir.account /\ f.dir.role = b.dir.role
      /\ f.dir.credential = b.dir.credential
  <2>1. CASE subject \notin DOMAIN b.dir.bound
    BY <1>3, <1>4, <1>5, <1>6, <2>1, BoundSubject
  <2>2. CASE subject \in DOMAIN b.dir.bound
    BY <1>3, <1>4, <1>6, <2>2 DEF Done, Refused
  <2>3. QED
    BY <2>1, <2>2
<1>8. RoleOf(f.dir, u) = c.role
      /\ \A v \in DOMAIN d.account \ {u} : RoleOf(f.dir, v) = RoleOf(d, v)
  BY <1>6, <1>7 DEF RoleOf
<1>9. DOMAIN f.dir.account = DOMAIN d.account \cup {u} /\ f.dir.account[u].status = "active"
      /\ \A v \in DOMAIN d.account : f.dir.account[v] = d.account[v]
  BY <1>5, <1>6, <1>7
<1>10. ASSUME NEW v \in DOMAIN f.dir.account
       PROVE  StatusExplained(t, f.dir, more, v) /\ RoleExplained(t, f.dir, more, v)
  <2>1. CASE v # u
    BY <1>8, <1>9, <2>1 DEF Explains, StatusExplained, RoleExplained
  <2>2. CASE v = u /\ u \in DOMAIN d.account
    <3>1. StatusExplained(t, d, given, u) /\ RoleExplained(t, d, given, u)
      BY <2>2 DEF Explains
    <3>2. StatusExplained(t, f.dir, more, u)
      BY <1>9, <2>2, <3>1 DEF StatusExplained
    <3>3. RoleExplained(t, f.dir, more, u)
      BY <1>u, <1>6, <1>8, <3>1 DEF RoleExplained, RoleOf
    <3>4. QED
      BY <2>2, <3>2, <3>3
  <2>3. CASE v = u /\ u \notin DOMAIN d.account
    <3>1. u \notin DOMAIN t.user
      BY <2>3 DEF Explains
    <3>2. SaidOf(t, u).status = Nothing /\ SaidOf(t, u).role = Nothing
      BY <3>1 DEF SaidOf, Effect
    <3>3. QED
      BY <1>u, <1>8, <1>9, <2>3, <3>2 DEF StatusExplained, RoleExplained
  <2>4. QED
    BY <2>1, <2>2, <2>3
<1>11. Explains(t, f.dir, more)
  BY <1>9, <1>10 DEF Explains
<1>12. AdminsKept(d, f.dir)
  BY <1>k, <1>5, <1>6, <1>7, <1>8 DEF AdminsKept, RoleOf, DirectoryFits
<1>13. QED
  BY <1>u, <1>4, <1>6, <1>7, <1>11, <1>12

\* It binds the subject, and takes no account and no binding away.
LEMMA ApprovalBinds ==
    ASSUME NEW d, DirectoryFits(d), NEW c \in Commands, c.kind = "approve", NEW subject,
           _approve_activation_facts(d, c, subject).ok
    PROVE  LET e == _approve_activation_facts(d, c, subject).dir
               u == ActivationAccount(d, c, subject) IN
           /\ DOMAIN d.account \subseteq DOMAIN e.account /\ u \in DOMAIN e.account
           /\ \A s \in DOMAIN d.bound : s \in DOMAIN e.bound /\ e.bound[s] = d.bound[s]
           /\ subject \in DOMAIN e.bound /\ e.bound[subject] = u
<1>k. c.role \in ProductRole
  BY AccessAssumption DEF Assignable, ProductRole
<1>u. PICK u : u = ActivationAccount(d, c, subject)
  OBVIOUS
<1>1. PICK a : a = IF u \notin DOMAIN d.account THEN _insert_account(d, u, c.actor, c.display)
                   ELSE IF \/ d.account[u].actor # c.actor \/ d.account[u].display # c.display
                           \/ d.account[u].status # "active"
                        THEN Refused("conflict") ELSE Done(d)
  OBVIOUS
<1>2. PICK b : b = IF u \notin DOMAIN a.dir.role THEN Done(_upsert_role(a.dir, u, c.role))
                   ELSE IF a.dir.role[u] # c.role THEN Refused("conflict") ELSE Done(a.dir)
  OBVIOUS
<1>3. PICK f : f = IF subject \notin DOMAIN b.dir.bound THEN _bind_subject(b.dir, u, subject)
                   ELSE IF b.dir.bound[subject] # u THEN Refused("conflict") ELSE Done(b.dir)
  OBVIOUS
<1>4. a.ok /\ b.ok /\ f.ok /\ _approve_activation_facts(d, c, subject) = f
  BY <1>u, <1>1, <1>2, <1>3 DEF _approve_activation_facts, Then
<1>5. /\ DirectoryFits(a.dir) /\ a.dir.bound = d.bound
      /\ DOMAIN a.dir.account = DOMAIN d.account \cup {u}
  <2>1. CASE u \notin DOMAIN d.account
    <3>1. PICK row : row = [actor |-> c.actor, display |-> c.display, status |-> "active"]
      OBVIOUS
    <3>2. QED
      BY <1>1, <1>4, <2>1, <3>1, InsertedAccount
  <2>2. CASE u \in DOMAIN d.account
    BY <1>1, <1>4, <2>2 DEF Done, Refused
  <2>3. QED
    BY <2>1, <2>2
<1>6. /\ DirectoryFits(b.dir) /\ b.dir.bound = d.bound
      /\ b.dir.account = a.dir.account
  <2>1. CASE u \notin DOMAIN a.dir.role
    <3>1. b.dir = _upsert_role(a.dir, u, c.role) /\ u \in DOMAIN a.dir.account
      BY <1>2, <1>5, <2>1 DEF Done
    <3>2. QED
      BY <1>k, <1>5, <3>1, UpsertedRole
  <2>2. CASE u \in DOMAIN a.dir.role
    BY <1>2, <1>4, <1>5, <2>2 DEF Done, Refused
  <2>3. QED
    BY <2>1, <2>2
<1>7. /\ f.dir.account = b.dir.account
      /\ subject \in DOMAIN f.dir.bound /\ f.dir.bound[subject] = u
      /\ \A s \in DOMAIN d.bound : s \in DOMAIN f.dir.bound /\ f.dir.bound[s] = d.bound[s]
  <2>1. CASE subject \notin DOMAIN b.dir.bound
    <3>1. f = _bind_subject(b.dir, u, subject) /\ u \in DOMAIN b.dir.account
      BY <1>3, <1>5, <1>6, <2>1
    <3>2. PICK e : e = f.dir
      OBVIOUS
    <3>3. /\ e.account = b.dir.account
          /\ DOMAIN e.bound = DOMAIN b.dir.bound \cup {subject} /\ e.bound[subject] = u
          /\ \A s \in DOMAIN b.dir.bound : e.bound[s] = b.dir.bound[s]
      BY <1>4, <1>6, <3>1, <3>2, BoundSubject
    <3>4. QED
      BY <1>6, <3>2, <3>3
  <2>2. CASE subject \in DOMAIN b.dir.bound
    BY <1>3, <1>4, <1>6, <2>2 DEF Done, Refused
  <2>3. QED
    BY <2>1, <2>2
<1>8. QED
  BY <1>u, <1>4, <1>5, <1>6, <1>7

\* The batch of the static file: all of its entries, or none of them.
LEMMA MigrationCommits ==
    ASSUME NEW d, NEW t, NEW given, DirectoryFits(d), Explains(t, d, given), NEW entries,
           \A i \in DOMAIN entries : entries[i].role \in ProductRole,
           MigrateLegacyIdentities(d, entries).ok
    PROVE  /\ Committed(d, t, MigrateLegacyIdentities(d, entries).dir,
                        derive_audit_batch(t, entries), given)
           /\ AdminsKept(d, MigrateLegacyIdentities(d, entries).dir)
<1>1. PICK users : users = UsersOf(entries)
  OBVIOUS
<1>2. PICK subjects : subjects = {entries[i].subject : i \in DOMAIN entries}
  OBVIOUS
<1>3. PICK e : e = [d EXCEPT
             !.account = [u \in DOMAIN @ \cup users |->
                 IF u \in users THEN [actor |-> EntryOf(entries, u).actor,
                                      display |-> EntryOf(entries, u).actor,
                                      status |-> "active"]
                 ELSE @[u]],
             !.role = [u \in DOMAIN @ \cup users |->
                 IF u \in users THEN EntryOf(entries, u).role ELSE @[u]],
             !.bound = [s \in DOMAIN @ \cup subjects |->
                 IF s \in subjects THEN BoundBy(entries, s) ELSE @[s]]]
  OBVIOUS
<1>4. /\ MigrateLegacyIdentities(d, entries).dir = e
      /\ \A i \in DOMAIN entries :
             /\ _insert_account(d, entries[i].user, entries[i].actor, entries[i].actor).ok
             /\ _bind_subject(d, entries[i].user, entries[i].subject).ok
      /\ \A i, j \in DOMAIN entries :
             entries[i].user = entries[j].user \/ entries[i].subject = entries[j].subject => i = j
  BY <1>1, <1>2, <1>3 DEF MigrateLegacyIdentities, Done, Refused
<1>5. /\ DOMAIN e = {"account", "role", "bound", "credential"} /\ e.credential = d.credential
      /\ e.account = [u \in DOMAIN d.account \cup users |->
             IF u \in users THEN [actor |-> EntryOf(entries, u).actor,
                                  display |-> EntryOf(entries, u).actor,
                                  status |-> "active"]
             ELSE d.account[u]]
      /\ e.role = [u \in DOMAIN d.role \cup users |->
             IF u \in users THEN EntryOf(entries, u).role ELSE d.role[u]]
      /\ e.bound = [s \in DOMAIN d.bound \cup subjects |->
             IF s \in subjects THEN BoundBy(entries, s) ELSE d.bound[s]]
  BY <1>3 DEF DirectoryFits
<1>6. \A u \in users : u \notin DOMAIN d.account
  BY <1>1, <1>4 DEF UsersOf, _insert_account, Refused
<1>7. \A i \in DOMAIN entries : EntryOf(entries, entries[i].user) = entries[i]
  BY <1>4 DEF EntryOf
<1>8. \A u \in users : EntryOf(entries, u).role \in ProductRole
  BY <1>1, <1>7 DEF UsersOf
<1>9. \A i \in DOMAIN entries : BoundBy(entries, entries[i].subject) = entries[i].user
  <2>1. TAKE i \in DOMAIN entries
  <2>2. /\ entries[i].user \in UsersOf(entries)
        /\ EntryOf(entries, entries[i].user).subject = entries[i].subject
    BY <1>7 DEF UsersOf
  <2>3. \A u \in UsersOf(entries) :
            EntryOf(entries, u).subject = entries[i].subject => u = entries[i].user
    BY <1>4, <1>7 DEF UsersOf
  <2>4. QED
    BY <2>2, <2>3 DEF BoundBy
<1>10. \A s \in DOMAIN d.bound : d.bound[s] \notin users
  BY <1>6 DEF DirectoryFits
<1>11. \A u \in DOMAIN e.account : /\ DOMAIN e.account[u] = {"actor", "display", "status"}
                                   /\ e.account[u].status \in UserStatus
  <2>1. TAKE u \in DOMAIN e.account
  <2>2. CASE u \in users
    <3>1. PICK row : row = [actor |-> EntryOf(entries, u).actor,
                            display |-> EntryOf(entries, u).actor, status |-> "active"]
      OBVIOUS
    <3>2. DOMAIN row = {"actor", "display", "status"} /\ row.status = "active"
      BY <3>1
    <3>3. e.account[u] = row
      BY <1>5, <2>2, <3>1
    <3>4. QED
      BY <3>2, <3>3 DEF UserStatus
  <2>3. CASE u \notin users
    BY <1>5, <2>3 DEF DirectoryFits
  <2>4. QED
    BY <2>2, <2>3
<1>12. \A u \in DOMAIN e.role : e.role[u] \in ProductRole /\ u \in DOMAIN e.account
  BY <1>5, <1>8 DEF DirectoryFits
<1>13. \A s \in subjects : e.bound[s] \in users
       /\ \A x \in subjects : e.bound[s] = e.bound[x] => s = x
  BY <1>1, <1>2, <1>4, <1>5, <1>9 DEF UsersOf
<1>14. \A s \in DOMAIN e.bound : e.bound[s] \in DOMAIN e.account
  BY <1>5, <1>13 DEF DirectoryFits
<1>15. \A s, x \in DOMAIN e.bound : e.bound[s] = e.bound[x] => s = x
  BY <1>5, <1>10, <1>13 DEF DirectoryFits
<1>16. DirectoryFits(e)
  BY <1>5, <1>11, <1>12, <1>14, <1>15 DEF DirectoryFits
<1>17. AdminsKept(d, e)
  BY <1>5, <1>6 DEF AdminsKept, RoleOf, DirectoryFits
<1>18. PICK n : n = derive_audit_batch(t, entries)
  OBVIOUS
<1>b. PICK b : b = BelievesBatch(t.user, entries)
  OBVIOUS
<1>n. /\ DOMAIN n = AuditFields /\ n.user = b /\ n.unbound = t.unbound
      /\ n.activation = t.activation /\ n.forgotten = t.forgotten
  BY <1>18, <1>b DEF derive_audit_batch, Explains, AuditFields
<1>19. DOMAIN b = DOMAIN t.user \cup users
  BY <1>1, <1>b DEF BelievesBatch
<1>20. \A u \in DOMAIN e.account :
           StatusExplained(n, e, given, u) /\ RoleExplained(n, e, given, u)
  <2>1. TAKE u \in DOMAIN e.account
  <2>2. CASE u \in users
    <3>1. b[u] = Effect(EntryOf(entries, u).role, "active")
      BY <1>1, <1>b, <2>2 DEF BelievesBatch
    <3>2. PICK row : row = [actor |-> EntryOf(entries, u).actor,
                            display |-> EntryOf(entries, u).actor, status |-> "active"]
      OBVIOUS
    <3>3. row.status = "active" /\ e.account[u] = row
      BY <1>5, <2>2, <3>2
    <3>4. RoleOf(e, u) = EntryOf(entries, u).role
      BY <1>5, <2>2 DEF RoleOf
    <3>5. SaidOf(n, u).role = RoleOf(e, u) /\ SaidOf(n, u).status = "active"
      BY <1>n, <1>19, <2>2, <3>1, <3>4 DEF SaidOf, Effect
    <3>6. RoleOf(e, u) # Nothing /\ "active" # Nothing
      BY <1>8, <2>2, <3>4 DEF ProductRole, Nothing
    <3>7. QED
      BY <3>3, <3>5, <3>6 DEF StatusExplained, RoleExplained
  <2>3. CASE u \notin users
    <3>1. u \in DOMAIN d.account /\ e.account[u] = d.account[u] /\ RoleOf(e, u) = RoleOf(d, u)
      BY <1>5, <2>1, <2>3 DEF RoleOf
    <3>2. SaidOf(n, u) = SaidOf(t, u)
      BY <1>1, <1>b, <1>n, <1>19, <2>3 DEF SaidOf, BelievesBatch
    <3>3. QED
      BY <3>1, <3>2 DEF Explains, StatusExplained, RoleExplained
  <2>4. QED
    BY <2>2, <2>3
<1>21. Explains(n, e, given)
  BY <1>5, <1>n, <1>19, <1>20 DEF Explains
<1>22. \A s \in DOMAIN d.bound : s \notin subjects
  BY <1>2, <1>4 DEF _bind_subject, Refused
<1>23. Steady(d, t, e, n)
  BY <1>5, <1>n, <1>22 DEF Steady
<1>24. QED
  BY <1>4, <1>5, <1>16, <1>17, <1>18, <1>21, <1>23 DEF Committed

-----------------------------------------------------------------------------
(***************************************************************************)
(* The other tables: activation requests, states, sessions and handlers.   *)
(***************************************************************************)
\* Requests that only end, lapse or are purged.
LEMMA RequestsShrink ==
    ASSUME NEW rs, NEW qs, RequestsFit(rs), DOMAIN qs = Requests,
           \A r \in Requests : /\ DOMAIN qs[r] = RequestFields
                               /\ qs[r].status \in RequestStatus,
           \A r \in Requests : qs[r].status = "PENDING" =>
               rs[r].status = "PENDING" /\ qs[r].subject = rs[r].subject
    PROVE  RequestsFit(qs)
<1>1. Pending(qs) \subseteq Pending(rs) /\ Pending(rs) \subseteq Requests
  BY DEF Pending
<1>2. IsFiniteSet(Pending(rs))
  BY <1>1, FS_Subset, AccessAssumption
<1>3. /\ Cardinality(Pending(qs)) <= Cardinality(Pending(rs))
      /\ Cardinality(Pending(qs)) \in Nat /\ Cardinality(Pending(rs)) \in Nat
  BY <1>1, <1>2, FS_Subset, FS_CardinalityType
<1>4. Cardinality(Pending(qs)) <= MAX_PENDING_ACTIVATIONS
  BY <1>3, AccessAssumption DEF RequestsFit
<1>5. \A r, q \in Pending(qs) : qs[r].subject = qs[q].subject => r = q
  BY <1>1 DEF RequestsFit, Pending
<1>6. QED
  BY <1>4, <1>5 DEF RequestsFit

\* What only undecided requests have changed.
OnlyUndecided(rs, qs) ==
    \A r \in Requests :
        \/ /\ qs[r].status = rs[r].status /\ qs[r].role = rs[r].role
           /\ qs[r].subject = rs[r].subject
        \/ /\ rs[r].status \in Undecided /\ qs[r].status \in Undecided
           /\ qs[r].role \in {Nothing, rs[r].role}

LEMMA UndecidedExplain ==
    ASSUME NEW t, NEW d, NEW rs, NEW qs, Explained(t, rs, d), OnlyUndecided(rs, qs)
    PROVE  Explained(t, qs, d)
<1>1. \A r \in Requests : RecordedOne(t, rs, r)
  BY DEF Explained, Recorded
<1>2. \A r \in Requests : RecordedOne(t, qs, r)
  BY <1>1 DEF RecordedOne, OnlyUndecided, Undecided, Nothing
<1>3. \A x \in DOMAIN t.activation : x \in Requests /\ qs[x].subject = rs[x].subject
  BY <1>1 DEF RecordedOne, OnlyUndecided, Undecided, Nothing, Explained, Recorded
<1>4. Kept(d, t, rs, d, t, qs)
  BY <1>3 DEF Kept
<1>5. Explains(t, d, Given(t, qs, d))
  BY <1>4, ApprovalsStay, ExplainsGrows DEF Explained
<1>6. QED
  BY <1>2, <1>5 DEF Explained, Recorded

LEMMA ReapedFits ==
    ASSUME NEW rs, RequestsFit(rs)
    PROVE  RequestsFit(Reaped(rs)) /\ OnlyUndecided(rs, Reaped(rs))
<1>1. PICK qs : qs = Reaped(rs)
  OBVIOUS
<1>2. DOMAIN qs = Requests
      /\ \A r \in Requests : \/ qs[r] = rs[r]
                             \/ qs[r] = [rs[r] EXCEPT !.status = "EXPIRED", !.age = "fresh"]
  BY <1>1 DEF Reaped
<1>3. \A r \in Requests : /\ DOMAIN qs[r] = RequestFields
                          /\ qs[r].status \in RequestStatus
                          /\ qs[r].status = "PENDING" =>
                               rs[r].status = "PENDING" /\ qs[r].subject = rs[r].subject
  BY <1>2 DEF RequestsFit, RequestStatus, RequestFields
<1>4. ASSUME NEW r \in Requests
      PROVE  \/ qs[r] = rs[r]
             \/ /\ rs[r].status \in Undecided /\ qs[r].status \in Undecided
                /\ qs[r].role = rs[r].role
  <2>2. CASE qs[r] = rs[r]
    BY <2>2
  <2>3. CASE qs[r] # rs[r]
    <3>1. rs[r].status = "PENDING" /\ qs[r] = [rs[r] EXCEPT !.status = "EXPIRED", !.age = "fresh"]
      BY <1>1, <2>3 DEF Reaped
    <3>2. qs[r].status = "EXPIRED" /\ qs[r].role = rs[r].role
      BY <3>1 DEF RequestsFit, RequestFields
    <3>3. QED
      BY <3>1, <3>2 DEF Undecided
  <2>4. QED
    BY <2>2, <2>3
<1>5. OnlyUndecided(rs, qs)
  BY <1>4 DEF OnlyUndecided
<1>6. QED
  BY <1>1, <1>2, <1>3, <1>5, RequestsShrink

\* A new request only for a subject without one, and only below the capacity.
LEMMA CreatedFits ==
    ASSUME NEW subject, NEW intent, NEW r \in Requests, NEW web \in BOOLEAN,
           RequestsFit(requests), create_or_reuse(subject, intent, r, web)
    PROVE  RequestsFit(requests') /\ OnlyUndecided(Reaped(requests), requests')
<1>1. PICK rs : rs = Reaped(requests)
  OBVIOUS
<1>2. RequestsFit(rs)
  BY <1>1, ReapedFits
<1>3. PICK mine : mine = {x \in Pending(rs) : rs[x].subject = subject}
  OBVIOUS
<1>4. Cardinality(Pending(rs)) < MAX_PENDING_ACTIVATIONS
  BY <1>1 DEF create_or_reuse
<1>5. CASE mine # {}
  <2>1. requests' = [rs EXCEPT ![r].link = @ \/ web]
    BY <1>1, <1>3, <1>5 DEF create_or_reuse
  <2>2. PICK row : row = [rs[r] EXCEPT !.link = @ \/ web]
    OBVIOUS
  <2>3. /\ DOMAIN row = RequestFields
        /\ row.status = rs[r].status /\ row.subject = rs[r].subject
        /\ row.role = rs[r].role
    BY <1>2, <2>2 DEF RequestsFit, RequestFields
  <2>4. /\ DOMAIN requests' = Requests /\ requests'[r] = row
        /\ \A q \in Requests \ {r} : requests'[q] = rs[q]
    BY <1>2, <2>1, <2>2 DEF RequestsFit
  <2>5. \A q \in Requests : /\ DOMAIN requests'[q] = RequestFields
                            /\ requests'[q].status = rs[q].status
                            /\ requests'[q].subject = rs[q].subject
                            /\ requests'[q].role = rs[q].role
                            /\ rs[q].status \in RequestStatus
    BY <1>2, <2>3, <2>4 DEF RequestsFit
  <2>6. RequestsFit(requests')
    BY <1>2, <2>4, <2>5, RequestsShrink
  <2>7. QED
    BY <1>1, <2>5, <2>6 DEF OnlyUndecided
<1>6. CASE mine = {}
  <2>1. PICK row : row = [status |-> "PENDING", subject |-> subject, intent |-> intent,
                          age |-> "fresh", role |-> Nothing, link |-> web]
    OBVIOUS
  <2>2. FreshId(r) /\ requests' = [rs EXCEPT ![r] = row]
    BY <1>1, <1>3, <1>6, <2>1 DEF create_or_reuse
  <2>3. /\ DOMAIN row = RequestFields
        /\ row.status = "PENDING" /\ row.subject = subject /\ row.role = Nothing
    BY <2>1 DEF RequestFields
  <2>4. /\ DOMAIN requests' = Requests /\ requests'[r] = row
        /\ \A q \in Requests \ {r} : requests'[q] = rs[q]
    BY <1>2, <2>2 DEF RequestsFit
  <2>5. r \notin Pending(rs)
    BY <1>1, <2>2 DEF FreshId, Reaped, Pending, Nothing
  <2>6. Pending(requests') = Pending(rs) \cup {r}
    BY <2>3, <2>4 DEF Pending
  <2>7. IsFiniteSet(Pending(rs))
    BY FS_Subset, AccessAssumption DEF Pending
  <2>8. Cardinality(Pending(requests')) = Cardinality(Pending(rs)) + 1
        /\ Cardinality(Pending(rs)) \in Nat
    BY <2>5, <2>6, <2>7, FS_AddElement, FS_CardinalityType
  <2>9. Cardinality(Pending(requests')) <= MAX_PENDING_ACTIVATIONS
    BY <1>4, <2>8, AccessAssumption
  <2>10. \A q \in Pending(rs) : rs[q].subject # subject
    BY <1>3, <1>6
  <2>11. \A q, x \in Pending(requests') :
             requests'[q].subject = requests'[x].subject => q = x
    BY <1>2, <2>3, <2>4, <2>5, <2>6, <2>10 DEF RequestsFit, Pending
  <2>12. \A q \in Requests : /\ DOMAIN requests'[q] = RequestFields
                             /\ requests'[q].status \in RequestStatus
    BY <1>2, <2>3, <2>4 DEF RequestsFit, RequestStatus
  <2>13. RequestsFit(requests')
    BY <2>4, <2>9, <2>11, <2>12 DEF RequestsFit
  <2>14. rs[r].status = Nothing
    BY <1>1, <2>2 DEF FreshId, Reaped, Nothing
  <2>15. OnlyUndecided(rs, requests')
    BY <2>3, <2>4, <2>14 DEF OnlyUndecided, Undecided
  <2>16. QED
    BY <1>1, <2>13, <2>15
<1>7. QED
  BY <1>5, <1>6

LEMMA CreatedExplained ==
    ASSUME NEW subject, NEW intent, NEW r \in Requests, NEW web \in BOOLEAN,
           RequestsFit(requests), create_or_reuse(subject, intent, r, web),
           Explained(told, requests, dir)
    PROVE  Explained(told, requests', dir)
<1>1. PICK rs : rs = Reaped(requests)
  OBVIOUS
<1>2. OnlyUndecided(requests, rs) /\ OnlyUndecided(rs, requests')
  BY <1>1, ReapedFits, CreatedFits
<1>3. Explained(told, rs, dir)
  BY <1>2, UndecidedExplain
<1>4. QED
  BY <1>2, <1>3, UndecidedExplain

\* A purged request takes its event's meaning along, and leaves the role to anybody.
LEMMA PurgedExplained ==
    ASSUME NEW t, NEW d, NEW rs, NEW qs, NEW old \in SUBSET Requests, Explained(t, rs, d),
           \A r \in Requests :
               IF r \in old THEN qs[r].status = Nothing /\ qs[r].role = Nothing
               ELSE qs[r] = rs[r]
    PROVE  Explained(Anonymous(t, old), qs, d)
<1>1. PICK kept : kept = [r \in DOMAIN t.activation \ old |-> t.activation[r]]
  OBVIOUS
<1>2. PICK roles : roles = {t.activation[r].role : r \in DOMAIN t.activation \cap old}
  OBVIOUS
<1>3. PICK n : n = [t EXCEPT !.activation = kept, !.forgotten = @ \cup roles]
  OBVIOUS
<1>4. /\ DOMAIN n = AuditFields /\ n.user = t.user /\ n.unbound = t.unbound
      /\ n.activation = kept /\ n.forgotten = t.forgotten \cup roles
  BY <1>3 DEF Explained, Explains, AuditFields
<1>5. Anonymous(t, old) = n
  BY <1>1, <1>2, <1>3 DEF Anonymous
<1>6. Kept(d, t, rs, d, n, qs)
  BY <1>1, <1>2, <1>4 DEF Kept, Explained, Recorded
<1>7. Explains(t, d, Given(n, qs, d))
  BY <1>6, ApprovalsStay, ExplainsGrows DEF Explained
<1>8. \A u : SaidOf(n, u) = SaidOf(t, u)
  BY <1>4 DEF SaidOf
<1>9. Explains(n, d, Given(n, qs, d))
  BY <1>4, <1>7, <1>8 DEF Explains, StatusExplained, RoleExplained
<1>10. DOMAIN n.activation = DOMAIN t.activation \ old
       /\ \A r \in DOMAIN n.activation : n.activation[r] = t.activation[r]
  BY <1>1, <1>4
<1>11. \A r \in Requests : RecordedOne(t, rs, r)
  BY DEF Explained, Recorded
<1>12. \A r \in Requests : RecordedOne(n, qs, r)
  BY <1>10, <1>11 DEF RecordedOne, Undecided, Nothing
<1>13. QED
  BY <1>5, <1>9, <1>10, <1>12 DEF Explained, Recorded

\* Handlers that end or go on with the state they have, sessions that end or stay, states
\* that stay spent.
LEMMA SignInsShrink ==
    ASSUME NEW hs, NEW ss, NEW cs, NEW hn, NEW sn, NEW cn, SignInsFit(hs, ss, cs),
           \A o \in Ops : Carries(hn[o]) => Carries(hs[o]) /\ hn[o].state = hs[o].state,
           \A c \in Cookies : cn[c].source = "FEISHU" =>
               cs[c].source = "FEISHU" /\ cn[c].state = cs[c].state,
           \A t \in States : Spent(ss, t) => Spent(sn, t)
    PROVE  SignInsFit(hn, sn, cn)
<1>1. \A o \in Ops : Carries(hn[o]) => Spent(sn, hn[o].state)
  BY DEF SignInsFit, Spent
<1>2. \A o, q \in Ops :
          Carries(hn[o]) /\ Carries(hn[q]) /\ hn[o].state = hn[q].state => o = q
  BY DEF SignInsFit
<1>3. ASSUME NEW c \in Cookies, cn[c].source = "FEISHU"
      PROVE  /\ Spent(sn, cn[c].state)
             /\ \A o \in Ops : Carries(hn[o]) => hn[o].state # cn[c].state
             /\ \A x \in Cookies :
                    cn[x].source = "FEISHU" /\ cn[x].state = cn[c].state => x = c
  BY <1>3 DEF SignInsFit, Spent
<1>4. QED
  BY <1>1, <1>2, <1>3 DEF SignInsFit

\* No session and no login becomes older while the password stays.
LEMMA FewStay ==
    ASSUME NEW cs, NEW hs, NEW d, NEW cn, NEW hn, NEW e, OldAreFew(cs, hs, d),
           e.credential.version = d.credential.version,
           \A c \in Cookies : cn[c].source = "LOCAL_ADMIN" =>
               \/ cn[c].version = e.credential.version
               \/ cs[c].source = "LOCAL_ADMIN" /\ cn[c].version = cs[c].version,
           \A o \in Ops : hn[o].pc = "verified" =>
               \/ hn[o].version = e.credential.version
               \/ hs[o].pc = "verified" /\ hn[o].version = hs[o].version
    PROVE  OldAreFew(cn, hn, e)
<1>1. OldIn(cn, e) \subseteq OldIn(cs, d) /\ OldIn(cs, d) \subseteq Cookies
  BY DEF OldIn
<1>2. OldAt(hn, e) \subseteq OldAt(hs, d) /\ OldAt(hs, d) \subseteq Ops
  BY DEF OldAt
<1>3. /\ Cardinality(OldIn(cn, e)) <= Cardinality(OldIn(cs, d))
      /\ Cardinality(OldIn(cn, e)) \in Nat /\ Cardinality(OldIn(cs, d)) \in Nat
  <2>1. IsFiniteSet(OldIn(cs, d))
    BY <1>1, FS_Subset, AccessAssumption
  <2>2. QED
    BY <1>1, <2>1, FS_Subset, FS_CardinalityType
<1>4. /\ Cardinality(OldAt(hn, e)) <= Cardinality(OldAt(hs, d))
      /\ Cardinality(OldAt(hn, e)) \in Nat /\ Cardinality(OldAt(hs, d)) \in Nat
  <2>1. IsFiniteSet(OldAt(hs, d))
    BY <1>2, FS_Subset, AccessAssumption
  <2>2. QED
    BY <1>2, <2>1, FS_Subset, FS_CardinalityType
<1>5. Cardinality(Ops) \in Nat
  BY FS_CardinalityType, AccessAssumption
<1>6. QED
  BY <1>3, <1>4, <1>5 DEF OldAreFew

\* One handler moves.
LEMMA HandlerMoves ==
    ASSUME NEW hs, NEW hn, NEW d, NEW e, NEW o \in Ops, HandlersFit(hs, d),
           DOMAIN hn = Ops, HandlerFits(hn[o], e), \A q \in Ops \ {o} : hn[q] = hs[q],
           d.credential.linked => e.credential.linked
    PROVE  HandlersFit(hn, e)
<1>1. \A q \in Ops : HandlerFits(hn[q], e)
  BY DEF HandlersFit, HandlerFits
<1>2. QED
  BY <1>1 DEF HandlersFit

LEMMA HandlersKeep ==
    ASSUME NEW hs, NEW d, NEW e, HandlersFit(hs, d),
           d.credential.linked => e.credential.linked
    PROVE  HandlersFit(hs, e)
BY DEF HandlersFit, HandlerFits

LEMMA IdleFits == ASSUME NEW d PROVE HandlerFits(Idle, d) /\ ~Carries(Idle) /\ Idle.pc = "idle"
<1>1. DOMAIN Idle = {"pc", "state", "cookie", "intent", "request", "subject", "version",
                     "actor", "command", "batch"}
      /\ Idle.pc = "idle"
  BY DEF Idle
<1>2. QED
  BY <1>1 DEF HandlerFits, Carries

\* The handler of a request that is answered.
LEMMA EndFits ==
    ASSUME NEW o \in Ops, NEW e, HandlersFit(op, dir), End(o),
           dir.credential.linked => e.credential.linked
    PROVE  /\ HandlersFit(op', e)
           /\ \A q \in Ops : Carries(op'[q]) => Carries(op[q]) /\ op'[q].state = op[q].state
           /\ \A q \in Ops : op'[q].pc = "verified" => op'[q] = op[q]
           /\ op'[o].pc # "verified"
<1>1. op' = [op EXCEPT ![o] = Idle]
  BY DEF End
<1>i. HandlerFits(Idle, e)
  BY IdleFits
<1>2. DOMAIN op' = Ops /\ op'[o] = Idle /\ \A q \in Ops \ {o} : op'[q] = op[q]
  BY <1>1 DEF HandlersFit
<1>h. HandlersFit(op', e)
  BY <1>2, <1>i, HandlerMoves
<1>3. QED
  BY <1>2, <1>h, IdleFits

\* A directory with the same credential lets sessions be.
LEMMA SessionsKeep ==
    ASSUME NEW cs, NEW d, NEW e, SessionsFit(cs, d), e.credential = d.credential
    PROVE  SessionsFit(cs, e)
BY DEF SessionsFit

-----------------------------------------------------------------------------
(***************************************************************************)
(* The steps.                                                              *)
(***************************************************************************)
\* There is a handler at all.
LEMMA NoneAreFew == Cardinality({}) + Cardinality({}) < Cardinality(Ops)
<1>1. Cardinality({}) = 0
  BY FS_EmptySet
<1>2. IsFiniteSet(Ops) /\ Ops # {}
  BY AccessAssumption
<1>3. Cardinality(Ops) \in Nat /\ Cardinality(Ops) # 0
  BY <1>2, FS_CardinalityType, FS_EmptySet
<1>4. QED
  BY <1>1, <1>3

LEMMA InitAccessInv == Init => AccessInv
<1>1. SUFFICES ASSUME Init PROVE AccessInv
  OBVIOUS
<1>2. DirectoryFits(dir) /\ upkeep \in Nat
  BY <1>1, DirectoryAssumption DEF Init
<1>3. Explained(told, requests, dir)
  <2>1. PICK users : users = [u \in DOMAIN dir.account |->
                                  Effect(RoleOf(dir, u), dir.account[u].status)]
    OBVIOUS
  <2>2. told = [user |-> users, unbound |-> {}, activation |-> <<>>, forgotten |-> {}]
    BY <1>1, <2>1 DEF Init, ToldOf
  <2>3. /\ DOMAIN told = AuditFields /\ told.user = users
        /\ told.activation = <<>> /\ DOMAIN told.activation = {}
    BY <2>2 DEF AuditFields
  <2>4. ASSUME NEW u \in DOMAIN dir.account, NEW given
        PROVE  StatusExplained(told, dir, given, u) /\ RoleExplained(told, dir, given, u)
    <3>1. SaidOf(told, u) = Effect(RoleOf(dir, u), dir.account[u].status)
      BY <2>1, <2>3, <2>4 DEF SaidOf
    <3>2. /\ SaidOf(told, u).role = RoleOf(dir, u)
          /\ SaidOf(told, u).status = dir.account[u].status
      BY <3>1 DEF Effect
    <3>3. dir.account[u].status # Nothing
      BY <1>2, <2>4 DEF DirectoryFits, UserStatus, Nothing
    <3>4. QED
      BY <3>2, <3>3 DEF StatusExplained, RoleExplained
  <2>5. Explains(told, dir, Given(told, requests, dir))
    BY <2>1, <2>3, <2>4 DEF Explains
  <2>6. PICK none : none = NoRequest
    OBVIOUS
  <2>7. none.status = Nothing /\ none.role = Nothing
    BY <2>6 DEF NoRequest
  <2>8. \A r \in Requests : requests[r] = none
    BY <1>1, <2>6 DEF Init
  <2>9. Recorded(told, requests)
    BY <2>3, <2>7, <2>8 DEF Recorded, RecordedOne, Undecided, Nothing
  <2>10. QED
    BY <2>5, <2>9 DEF Explained
<1>4. RequestsFit(requests)
  <2>1. PICK none : none = NoRequest
    OBVIOUS
  <2>2. DOMAIN none = RequestFields /\ none.status = Nothing
    BY <2>1 DEF NoRequest, RequestFields
  <2>3. requests = [r \in Requests |-> none]
    BY <1>1, <2>1 DEF Init
  <2>4. Pending(requests) = {}
    BY <2>2, <2>3 DEF Pending, Nothing
  <2>5. Cardinality(Pending(requests)) <= MAX_PENDING_ACTIVATIONS
    <3>1. Cardinality(Pending(requests)) = 0
      BY <2>4, FS_EmptySet
    <3>2. QED
      BY <3>1, AccessAssumption
  <2>6. \A r \in Requests : requests[r] = none
    BY <2>3
  <2>7. QED
    BY <2>2, <2>3, <2>4, <2>5, <2>6 DEF RequestsFit, RequestStatus
<1>5. StatesFit(states)
  BY <1>1 DEF Init, StatesFit, NoState
<1>6. \A o \in Ops : op[o] = Idle
  BY <1>1 DEF Init
<1>7. \A c \in Cookies : sessions[c].source = Nothing /\ sessions[c].live = FALSE
  BY <1>1 DEF Init, NoSession
<1>8. SignInsFit(op, states, sessions)
  BY <1>6, <1>7, IdleFits DEF SignInsFit, Nothing
<1>9. SessionsFit(sessions, dir)
  BY <1>1, <1>7 DEF SessionsFit, Init, Nothing
<1>10. HandlersFit(op, dir)
  BY <1>1, <1>6, IdleFits DEF HandlersFit, Init
<1>11. OldAreFew(sessions, op, dir)
  <2>1. OldIn(sessions, dir) = {}
    BY <1>7 DEF OldIn, Nothing
  <2>2. OldAt(op, dir) = {}
    BY <1>6, IdleFits DEF OldAt
  <2>3. QED
    BY <2>1, <2>2, NoneAreFew DEF OldAreFew
<1>12. QED
  BY <1>2, <1>3, <1>4, <1>5, <1>8, <1>9, <1>10, <1>11 DEF AccessInv

\* Requests, states and sessions that end, and new requests of the group.
LEMMA RequestsMove ==
    ASSUME AccessInv, RequestsFit(requests'), Explained(told', requests', dir),
           UNCHANGED <<dir, states, sessions, op, upkeep>>
    PROVE  AccessInv'
BY DEF AccessInv

LEMMA AroundKeeps ==
    ASSUME AccessInv,
           \/ \E s \in Subjects, r \in Requests : request_group(s, r)
           \/ \E r \in Requests : RequestLapses(r)
           \/ \E old \in SUBSET Requests : purge_expired_terminal(old)
    PROVE  AccessInv'
<1>0. RequestsFit(requests) /\ Explained(told, requests, dir)
  BY DEF AccessInv
<1>1. CASE \E s \in Subjects, r \in Requests : request_group(s, r)
  BY <1>0, <1>1, CreatedFits, CreatedExplained, RequestsMove DEF request_group, identityVars
<1>2. CASE \E r \in Requests : RequestLapses(r)
  <2>1. PICK r \in Requests : RequestLapses(r)
    BY <1>2
  <2>2. PICK row : row = [requests[r] EXCEPT !.age = "lapsed"]
    OBVIOUS
  <2>3. requests' = [requests EXCEPT ![r] = row]
    BY <1>0, <2>1, <2>2 DEF RequestLapses, RequestsFit
  <2>4. /\ DOMAIN row = RequestFields
        /\ row.status = requests[r].status /\ row.subject = requests[r].subject
        /\ row.role = requests[r].role
    BY <1>0, <2>2 DEF RequestsFit, RequestFields
  <2>5. \A q \in Requests : /\ DOMAIN requests'[q] = RequestFields
                            /\ requests'[q].status = requests[q].status
                            /\ requests'[q].subject = requests[q].subject
                            /\ requests'[q].role = requests[q].role
                            /\ requests[q].status \in RequestStatus
    BY <1>0, <2>3, <2>4 DEF RequestsFit
  <2>6. DOMAIN requests' = Requests
    BY <1>0, <2>3 DEF RequestsFit
  <2>7. RequestsFit(requests')
    BY <1>0, <2>5, <2>6, RequestsShrink
  <2>8. OnlyUndecided(requests, requests')
    BY <2>5 DEF OnlyUndecided
  <2>9. Explained(told, requests', dir)
    BY <1>0, <2>8, UndecidedExplain
  <2>10. QED
    BY <2>1, <2>7, <2>9, RequestsMove DEF RequestLapses, identityVars
<1>3. CASE \E old \in SUBSET Requests : purge_expired_terminal(old)
  <2>1. PICK old \in SUBSET Requests : purge_expired_terminal(old)
    BY <1>3
  <2>2. PICK rs : rs = Reaped(requests)
    OBVIOUS
  <2>3. RequestsFit(rs) /\ Explained(told, rs, dir)
    BY <1>0, <2>2, ReapedFits, UndecidedExplain
  <2>4. PICK none : none = NoRequest
    OBVIOUS
  <2>5. DOMAIN none = RequestFields /\ none.status = Nothing /\ none.role = Nothing
    BY <2>4 DEF NoRequest, RequestFields
  <2>6. requests' = [r \in Requests |-> IF r \in old THEN none ELSE rs[r]]
    BY <2>1, <2>2, <2>4 DEF purge_expired_terminal
  <2>7. \A q \in Requests : /\ DOMAIN requests'[q] = RequestFields
                            /\ requests'[q].status \in RequestStatus
                            /\ requests'[q].status = "PENDING" =>
                                 rs[q].status = "PENDING" /\ requests'[q].subject = rs[q].subject
    BY <2>3, <2>5, <2>6 DEF RequestsFit, RequestStatus, Nothing
  <2>8. RequestsFit(requests')
    BY <2>3, <2>6, <2>7, RequestsShrink
  <2>9. \A r \in Requests :
            IF r \in old THEN requests'[r].status = Nothing /\ requests'[r].role = Nothing
            ELSE requests'[r] = rs[r]
    BY <2>5, <2>6
  <2>10. told' = Anonymous(told, old)
         /\ UNCHANGED <<dir, states, sessions, op, upkeep>>
    BY <2>1 DEF purge_expired_terminal
  <2>11. Explained(told', requests', dir)
    BY <2>3, <2>9, <2>10, PurgedExplained
  <2>12. QED
    BY <2>8, <2>10, <2>11, RequestsMove
<1>4. QED
  BY <1>1, <1>2, <1>3

\* A state is issued only under a name that no handler and no session has.
LEMMA IssueKeeps ==
    ASSUME AccessInv, NEW t \in States, NEW state,
           DOMAIN state = {"kind", "intent", "request", "phase"}, Issue(t, state)
    PROVE  AccessInv'
<1>1. /\ \A o \in Ops : op[o].state # t
      /\ \A c \in Cookies : sessions[c].state # t
      /\ states' = [states EXCEPT ![t] = state]
      /\ UNCHANGED <<identityVars, requests, sessions, op, served, upkeep>>
  BY DEF Issue
<1>2. StatesFit(states')
  BY <1>1 DEF AccessInv, StatesFit
<1>3. \A x \in States \ {t} : states'[x] = states[x]
  BY <1>1 DEF AccessInv, StatesFit
<1>4. SignInsFit(op, states', sessions)
  BY <1>1, <1>3 DEF AccessInv, SignInsFit, Spent
<1>5. QED
  BY <1>1, <1>2, <1>4 DEF AccessInv, identityVars

\* Closing an open state leaves the spent ones as they are.
LEMMA ClosedFits ==
    ASSUME NEW t \in States, StatesFit(states), states[t].phase = "open",
           states' = [states EXCEPT ![t] = Closed(states[t])]
    PROVE  /\ StatesFit(states')
           /\ states'[t].phase = "closed" /\ states'[t].kind = states[t].kind
           /\ ~Spent(states, t)
           /\ \A x \in States : Spent(states, x) => Spent(states', x)
<1>1. PICK n : n = Closed(states[t])
  OBVIOUS
<1>2. DOMAIN n = {"kind", "intent", "request", "phase"} /\ n.phase = "closed"
      /\ n.kind = states[t].kind
  BY <1>1 DEF Closed, StatesFit
<1>3. states'[t] = n /\ DOMAIN states' = States
      /\ \A x \in States \ {t} : states'[x] = states[x]
  BY <1>1 DEF StatesFit
<1>4. QED
  BY <1>2, <1>3 DEF StatesFit, Spent

LEMMA BrowserKeeps ==
    ASSUME AccessInv, Browser
    PROVE  AccessInv'
<1>1. CASE \E t \in States : \/ \E i \in Intents : start_login(t, i)
                             \/ \E r \in Requests : start_login_status(t, r)
                             \/ start_connection_test(t)
  <2>1. PICK t \in States : \/ \E i \in Intents : start_login(t, i)
                            \/ \E r \in Requests : start_login_status(t, r)
                            \/ start_connection_test(t)
    BY <1>1
  <2>2. \E kind, intent, request :
            Issue(t, [kind |-> kind, intent |-> intent, request |-> request, phase |-> "open"])
    BY <2>1 DEF start_login, start_login_status, start_connection_test
  <2>3. PICK kind, intent, request :
            Issue(t, [kind |-> kind, intent |-> intent, request |-> request, phase |-> "open"])
    BY <2>2
  <2>4. PICK state : state = [kind |-> kind, intent |-> intent, request |-> request,
                              phase |-> "open"]
    OBVIOUS
  <2>5. DOMAIN state = {"kind", "intent", "request", "phase"} /\ Issue(t, state)
    BY <2>3, <2>4
  <2>6. QED
    BY <2>5, IssueKeeps
<1>2. CASE \E t \in States : StateExpires(t)
  <2>1. PICK t \in States : StateExpires(t)
    BY <1>2
  <2>2. /\ states[t].phase = "open" /\ states' = [states EXCEPT ![t] = Closed(states[t])]
        /\ UNCHANGED <<identityVars, requests, sessions, op, served, upkeep>>
    BY <2>1 DEF StateExpires
  <2>3. StatesFit(states') /\ \A x \in States : Spent(states, x) => Spent(states', x)
    BY <2>2, ClosedFits DEF AccessInv
  <2>4. SignInsFit(op, states, sessions)
    BY DEF AccessInv
  <2>5. SignInsFit(op, states', sessions)
    BY <2>3, <2>4, SignInsShrink
  <2>6. QED
    BY <2>2, <2>3, <2>5 DEF AccessInv, identityVars
<1>3. CASE \E c \in Cookies : logout(c) \/ SessionExpires(c)
  <2>1. PICK c \in Cookies :
            /\ sessions' = [sessions EXCEPT ![c] = NoSession]
            /\ UNCHANGED <<identityVars, requests, states, op, served, upkeep>>
    BY <1>3 DEF logout, SessionExpires
  <2>2. NoSession.source = Nothing /\ NoSession.live = FALSE
    BY DEF NoSession
  <2>3. DOMAIN sessions' = Cookies /\ sessions'[c] = NoSession
        /\ \A x \in Cookies \ {c} : sessions'[x] = sessions[x]
    BY <2>1 DEF AccessInv, SessionsFit
  <2>4. SessionsFit(sessions', dir)
    BY <2>2, <2>3 DEF AccessInv, SessionsFit, Nothing
  <2>5. \A x \in Cookies : sessions'[x].source = "FEISHU" =>
            sessions[x].source = "FEISHU" /\ sessions'[x].state = sessions[x].state
    BY <2>2, <2>3 DEF Nothing
  <2>6. SignInsFit(op, states, sessions)
    BY DEF AccessInv
  <2>7. SignInsFit(op, states, sessions')
    BY <2>5, <2>6, SignInsShrink
  <2>8. \A x \in Cookies : sessions'[x].source = "LOCAL_ADMIN" =>
            sessions[x].source = "LOCAL_ADMIN" /\ sessions'[x].version = sessions[x].version
    BY <2>2, <2>3 DEF Nothing
  <2>9. OldAreFew(sessions', op, dir)
    BY <2>8, FewStay DEF AccessInv
  <2>10. QED
    BY <2>1, <2>4, <2>7, <2>9 DEF AccessInv, identityVars
<1>4. QED
  BY <1>1, <1>2, <1>3 DEF Browser

\* What AccessInv takes when only the handlers, the requests and the sessions move.
LEMMA AccountsStay ==
    ASSUME AccessInv, UNCHANGED <<identityVars, upkeep>>, RequestsFit(requests'),
           Explained(told, requests', dir),
           StatesFit(states'), SignInsFit(op', states', sessions'),
           SessionsFit(sessions', dir), HandlersFit(op', dir), OldAreFew(sessions', op', dir)
    PROVE  AccessInv'
BY DEF AccessInv, identityVars

\* A handler that ends without a trace.
LEMMA EndKeeps ==
    ASSUME AccessInv, NEW o \in Ops, End(o),
           UNCHANGED <<identityVars, requests, states, sessions, upkeep>>
    PROVE  AccessInv'
<1>1. /\ HandlersFit(op', dir)
      /\ \A q \in Ops : Carries(op'[q]) => Carries(op[q]) /\ op'[q].state = op[q].state
      /\ \A q \in Ops : op'[q].pc = "verified" => op'[q] = op[q]
  BY EndFits DEF AccessInv
<1>2. SignInsFit(op, states, sessions)
  BY DEF AccessInv
<1>3. SignInsFit(op', states, sessions)
  BY <1>1, <1>2, SignInsShrink
<1>4. OldAreFew(sessions, op', dir)
  BY <1>1, FewStay DEF AccessInv
<1>5. QED
  BY <1>1, <1>3, <1>4 DEF AccessInv, identityVars

\* A handler that goes on: it carries no state it did not carry before.
LEMMA GoesOn ==
    ASSUME AccessInv, NEW o \in Ops, NEW h, op' = [op EXCEPT ![o] = h], HandlerFits(h, dir),
           Carries(h) => Carries(op[o]) /\ h.state = op[o].state,
           h.pc = "verified" => h.version = dir.credential.version,
           UNCHANGED <<identityVars, requests, states, sessions, upkeep>>
    PROVE  AccessInv'
<1>0. DOMAIN op' = Ops /\ op'[o] = h /\ \A q \in Ops \ {o} : op'[q] = op[q]
  BY DEF AccessInv, HandlersFit
<1>1. HandlersFit(op', dir)
  BY <1>0, HandlerMoves DEF AccessInv
<1>2. SignInsFit(op, states, sessions)
  BY DEF AccessInv
<1>3. \A q \in Ops : Carries(op'[q]) => Carries(op[q]) /\ op'[q].state = op[q].state
  BY <1>0
<1>4. SignInsFit(op', states, sessions)
  BY <1>2, <1>3, SignInsShrink
<1>5. OldAreFew(sessions, op', dir)
  BY <1>0, FewStay DEF AccessInv
<1>6. QED
  BY <1>1, <1>4, <1>5 DEF AccessInv, identityVars

LEMMA CallbackKeeps ==
    ASSUME AccessInv, NEW o \in Ops, Callback(o)
    PROVE  AccessInv'
<1>0. /\ DOMAIN op[o] = {"pc", "state", "cookie", "intent", "request", "subject", "version",
                         "actor", "command", "batch"}
      /\ SignInsFit(op, states, sessions) /\ StatesFit(states) /\ HandlersFit(op, dir)
      /\ RequestsFit(requests) /\ SessionsFit(sessions, dir)
      /\ Explained(told, requests, dir) /\ OldAreFew(sessions, op, dir)
  BY DEF AccessInv, HandlersFit, HandlerFits
<1>1. CASE \E t \in States, s \in Subjects : consume_oauth_login_state(o, t, s)
  <2>1. PICK t \in States, s \in Subjects : consume_oauth_login_state(o, t, s)
    BY <1>1
  <2>2. PICK h : h = [op[o] EXCEPT !.pc = "exchanged", !.state = t, !.intent = states[t].intent,
                                   !.request = states[t].request, !.subject = s]
    OBVIOUS
  <2>3. /\ op' = [op EXCEPT ![o] = h]
        /\ states[t].kind = "login" /\ states[t].phase = "open"
        /\ states' = [states EXCEPT ![t] = Closed(states[t])]
        /\ UNCHANGED <<identityVars, requests, sessions, upkeep>>
    BY <1>0, <2>1, <2>2 DEF consume_oauth_login_state
  <2>4. /\ DOMAIN h = DOMAIN op[o] /\ h.pc = "exchanged" /\ h.state = t
    BY <1>0, <2>2
  <2>5. HandlerFits(h, dir)
    BY <1>0, <2>4 DEF HandlerFits
  <2>m. DOMAIN op' = Ops /\ op'[o] = h /\ \A q \in Ops \ {o} : op'[q] = op[q]
    BY <1>0, <2>3 DEF HandlersFit
  <2>n. HandlersFit(op', dir)
    BY <1>0, <2>5, <2>m, HandlerMoves
  <2>6. HandlersFit(op', dir) /\ op'[o] = h /\ \A q \in Ops \ {o} : op'[q] = op[q]
    BY <2>m, <2>n
  <2>7. /\ StatesFit(states') /\ states'[t].phase = "closed" /\ states'[t].kind = "login"
        /\ ~Spent(states, t)
        /\ \A x \in States : Spent(states, x) => Spent(states', x)
    BY <1>0, <2>3, ClosedFits
  <2>8. SignInsFit(op', states', sessions)
    <3>1. Spent(states', t)
      BY <2>7 DEF Spent
    <3>2. /\ \A q \in Ops \ {o} : Carries(op'[q]) => op'[q].state # t
          /\ \A c \in Cookies : sessions[c].source = "FEISHU" => sessions[c].state # t
      BY <1>0, <2>6, <2>7 DEF SignInsFit
    <3>3. \A q \in Ops : Carries(op'[q]) => Spent(states', op'[q].state)
      BY <1>0, <2>4, <2>6, <2>7, <3>1 DEF SignInsFit, Spent
    <3>4. \A x, q \in Ops :
              Carries(op'[x]) /\ Carries(op'[q]) /\ op'[x].state = op'[q].state => x = q
      BY <1>0, <2>4, <2>6, <3>2 DEF SignInsFit
    <3>5. ASSUME NEW c \in Cookies, sessions[c].source = "FEISHU"
          PROVE  /\ Spent(states', sessions[c].state)
                 /\ \A q \in Ops : Carries(op'[q]) => op'[q].state # sessions[c].state
                 /\ \A x \in Cookies :
                        sessions[x].source = "FEISHU" /\ sessions[x].state = sessions[c].state
                            => x = c
      <4>1. /\ Spent(states, sessions[c].state)
            /\ \A q \in Ops : Carries(op[q]) => op[q].state # sessions[c].state
            /\ \A x \in Cookies :
                   sessions[x].source = "FEISHU" /\ sessions[x].state = sessions[c].state
                       => x = c
        BY <1>0, <3>5 DEF SignInsFit
      <4>2. Spent(states', sessions[c].state)
        BY <2>7, <4>1 DEF Spent
      <4>3. \A q \in Ops : Carries(op'[q]) => op'[q].state # sessions[c].state
        BY <2>4, <2>6, <3>2, <3>5, <4>1
      <4>4. QED
        BY <4>1, <4>2, <4>3
    <3>6. QED
      BY <3>3, <3>4, <3>5 DEF SignInsFit
  <2>9. OldAreFew(sessions, op', dir)
    BY <1>0, <2>4, <2>6, FewStay
  <2>10. QED
    BY <1>0, <2>3, <2>6, <2>7, <2>8, <2>9, AccountsStay
<1>2. CASE \E t \in States : consume_oauth_test_state(o, t)
  <2>1. PICK t \in States : consume_oauth_test_state(o, t)
    BY <1>2
  <2>2. /\ states[t].phase = "open" /\ states' = [states EXCEPT ![t] = Closed(states[t])]
        /\ End(o) /\ UNCHANGED <<identityVars, requests, sessions, upkeep>>
    BY <2>1 DEF consume_oauth_test_state
  <2>3. StatesFit(states') /\ \A x \in States : Spent(states, x) => Spent(states', x)
    BY <1>0, <2>2, ClosedFits
  <2>4. /\ HandlersFit(op', dir)
        /\ \A q \in Ops : Carries(op'[q]) => Carries(op[q]) /\ op'[q].state = op[q].state
        /\ \A q \in Ops : op'[q].pc = "verified" => op'[q] = op[q]
    BY <1>0, <2>2, EndFits
  <2>5. SignInsFit(op', states', sessions)
    BY <1>0, <2>3, <2>4, SignInsShrink
  <2>6. OldAreFew(sessions, op', dir)
    BY <1>0, <2>4, FewStay
  <2>7. QED
    BY <1>0, <2>2, <2>3, <2>4, <2>5, <2>6, AccountsStay
<1>3. CASE resume_web(o)
  <2>1. Carries(op[o]) /\ UNCHANGED <<identityVars, requests, states, sessions, upkeep>>
    BY <1>3 DEF resume_web, At, Carries
  <2>2. CASE End(o)
    BY <2>1, <2>2, EndKeeps
  <2>3. CASE op' = [op EXCEPT ![o].intent = requests[op[o].request].intent,
                      ![o].request = Nothing,
                      ![o].pc = IF requests[op[o].request].status = "APPROVED"
                                THEN "exchanged" ELSE "unknown"]
    <3>1. PICK pc : pc = IF requests[op[o].request].status = "APPROVED"
                         THEN "exchanged" ELSE "unknown"
      OBVIOUS
    <3>2. PICK h : h = [op[o] EXCEPT !.intent = requests[op[o].request].intent,
                                     !.request = Nothing, !.pc = pc]
      OBVIOUS
    <3>3. /\ DOMAIN h = DOMAIN op[o] /\ h.pc = pc /\ h.state = op[o].state
      BY <1>0, <3>2
    <3>4. op' = [op EXCEPT ![o] = h]
      BY <1>0, <2>3, <3>1, <3>2 DEF HandlersFit
    <3>5. pc \in {"exchanged", "unknown"}
      BY <3>1
    <3>6. HandlerFits(h, dir)
      BY <1>0, <3>3, <3>5 DEF HandlerFits
    <3>7. QED
      BY <2>1, <3>3, <3>4, <3>5, <3>6, GoesOn
  <2>4. QED
    BY <1>3, <2>2, <2>3 DEF resume_web
<1>4. CASE resolve_for_web(o)
  <2>1. Carries(op[o]) /\ UNCHANGED <<identityVars, requests, states, sessions, upkeep>>
    BY <1>4 DEF resolve_for_web, At, Carries
  <2>2. CASE End(o)
    BY <2>1, <2>2, EndKeeps
  <2>3. CASE op' = [op EXCEPT ![o].pc = "unknown"]
    <3>1. PICK h : h = [op[o] EXCEPT !.pc = "unknown"]
      OBVIOUS
    <3>2. /\ DOMAIN h = DOMAIN op[o] /\ h.pc = "unknown" /\ h.state = op[o].state
      BY <1>0, <3>1
    <3>3. op' = [op EXCEPT ![o] = h]
      BY <1>0, <2>3, <3>1 DEF HandlersFit
    <3>4. HandlerFits(h, dir)
      BY <1>0, <3>2 DEF HandlerFits
    <3>5. QED
      BY <2>1, <3>2, <3>3, <3>4, GoesOn
  <2>4. CASE op' = [op EXCEPT ![o].pc = "resolved", ![o].intent = Nothing]
    <3>1. PICK h : h = [op[o] EXCEPT !.pc = "resolved", !.intent = Nothing]
      OBVIOUS
    <3>2. /\ DOMAIN h = DOMAIN op[o] /\ h.pc = "resolved" /\ h.state = op[o].state
      BY <1>0, <3>1
    <3>3. op' = [op EXCEPT ![o] = h]
      BY <1>0, <2>4, <3>1 DEF HandlersFit
    <3>4. HandlerFits(h, dir)
      BY <1>0, <3>2 DEF HandlerFits
    <3>5. QED
      BY <2>1, <3>2, <3>3, <3>4, GoesOn
  <2>5. QED
    BY <1>4, <2>2, <2>3, <2>4 DEF resolve_for_web
<1>5. CASE \E r \in Requests : request_web(o, r)
  <2>1. PICK r \in Requests : request_web(o, r)
    BY <1>5
  <2>2. End(o) /\ UNCHANGED <<identityVars, states, sessions, upkeep>>
    BY <2>1 DEF request_web
  <2>3. RequestsFit(requests') /\ Explained(told, requests', dir)
    <3>1. CASE create_or_reuse(op[o].subject, op[o].intent, r, TRUE)
      BY <1>0, <3>1, CreatedFits, CreatedExplained
    <3>2. CASE UNCHANGED requests
      BY <1>0, <3>2
    <3>3. QED
      BY <2>1, <3>1, <3>2 DEF request_web
  <2>4. /\ HandlersFit(op', dir)
        /\ \A q \in Ops : Carries(op'[q]) => Carries(op[q]) /\ op'[q].state = op[q].state
        /\ \A q \in Ops : op'[q].pc = "verified" => op'[q] = op[q]
    BY <1>0, <2>2, EndFits
  <2>5. SignInsFit(op', states, sessions)
    BY <1>0, <2>4, SignInsShrink
  <2>6. OldAreFew(sessions, op', dir)
    BY <1>0, <2>4, FewStay
  <2>7. QED
    BY <1>0, <2>2, <2>3, <2>4, <2>5, <2>6, AccountsStay
<1>6. CASE \E c \in Cookies, x \in Previous : complete_login(o, c, x)
  <2>1. PICK c \in Cookies, x \in Previous : complete_login(o, c, x)
    BY <1>6
  <2>2. PICK new : new = [source |-> "FEISHU", subject |-> op[o].subject, live |-> TRUE,
                          version |-> 0, stored |-> 0, state |-> op[o].state]
    OBVIOUS
  <2>3. /\ op[o].pc = "resolved" /\ End(o)
        /\ sessions' = [y \in Cookies |->
               IF y = c THEN new ELSE IF y = x THEN NoSession ELSE sessions[y]]
        /\ UNCHANGED <<identityVars, requests, states, upkeep>>
    BY <2>1, <2>2 DEF complete_login, rotate_session, At
  <2>4. new.source = "FEISHU" /\ new.live = TRUE /\ new.state = op[o].state
    BY <2>2
  <2>5. NoSession.source = Nothing /\ NoSession.live = FALSE
    BY DEF NoSession
  <2>6. SessionsFit(sessions', dir)
    BY <1>0, <2>3, <2>4, <2>5 DEF SessionsFit, Nothing
  <2>7. HandlersFit(op', dir) /\ \A q \in Ops : op'[q].pc = "verified" => op'[q] = op[q]
    BY <1>0, <2>3, EndFits
  <2>e. /\ ~Carries(op'[o])
        /\ \A q \in Ops \ {o} : op'[q] = op[q]
    BY <1>0, <2>3, IdleFits DEF End, HandlersFit
  <2>8. \A q \in Ops : Carries(op'[q]) => /\ Carries(op[q]) /\ op'[q].state = op[q].state
                                           /\ op'[q].state # op[o].state
    BY <1>0, <2>3, <2>e DEF SignInsFit, Carries
  <2>9. /\ Spent(states, op[o].state)
        /\ \A y \in Cookies : sessions[y].source = "FEISHU" => sessions[y].state # op[o].state
    BY <1>0, <2>3 DEF SignInsFit, Carries
  <2>10. \A y \in Cookies : sessions'[y].source = "FEISHU" =>
             \/ y = c /\ sessions'[y].state = op[o].state
             \/ /\ y # c /\ sessions[y].source = "FEISHU"
                /\ sessions'[y].state = sessions[y].state
    BY <2>3, <2>4, <2>5 DEF Nothing
  <2>11. SignInsFit(op', states, sessions')
    <3>1. \A q \in Ops : Carries(op'[q]) => Spent(states, op'[q].state)
      BY <1>0, <2>8 DEF SignInsFit
    <3>2. \A y, q \in Ops :
              Carries(op'[y]) /\ Carries(op'[q]) /\ op'[y].state = op'[q].state => y = q
      BY <1>0, <2>8 DEF SignInsFit
    <3>3. ASSUME NEW y \in Cookies, sessions'[y].source = "FEISHU"
          PROVE  /\ Spent(states, sessions'[y].state)
                 /\ \A q \in Ops : Carries(op'[q]) => op'[q].state # sessions'[y].state
                 /\ \A z \in Cookies :
                        sessions'[z].source = "FEISHU" /\ sessions'[z].state = sessions'[y].state
                            => z = y
      BY <1>0, <2>8, <2>9, <2>10, <3>3 DEF SignInsFit
    <3>4. QED
      BY <3>1, <3>2, <3>3 DEF SignInsFit
  <2>12. \A y \in Cookies : sessions'[y].source = "LOCAL_ADMIN" =>
             sessions[y].source = "LOCAL_ADMIN" /\ sessions'[y].version = sessions[y].version
    BY <2>3, <2>4, <2>5 DEF Nothing
  <2>13. OldAreFew(sessions', op', dir)
    BY <1>0, <2>7, <2>12, FewStay
  <2>14. QED
    BY <1>0, <2>3, <2>6, <2>7, <2>11, <2>13, AccountsStay
<1>7. QED
  BY <1>1, <1>2, <1>3, <1>4, <1>5, <1>6 DEF Callback

\* A new password changes nothing but the credential, and the first one need not be changed.
PasswordMoves(d, e) ==
    /\ DOMAIN e = {"account", "role", "bound", "credential"}
    /\ e.account = d.account /\ e.role = d.role /\ e.bound = d.bound
    /\ e.credential \in [seeded : BOOLEAN, linked : BOOLEAN, version : Nat, must_change : BOOLEAN]
    /\ e.credential.linked = d.credential.linked
    /\ e.credential.version = d.credential.version + 1
    /\ e.credential.must_change = FALSE

LEMMA ChangedPassword ==
    ASSUME NEW d, DirectoryFits(d)
    PROVE  PasswordMoves(d, [d EXCEPT !.credential.version = @ + 1,
                                      !.credential.must_change = FALSE])
<1>1. PICK k : k = [d.credential EXCEPT !.version = @ + 1, !.must_change = FALSE]
  OBVIOUS
<1>2. PICK e : e = [d EXCEPT !.credential.version = @ + 1, !.credential.must_change = FALSE]
  OBVIOUS
<1>3. /\ d.credential \in [seeded : BOOLEAN, linked : BOOLEAN, version : Nat, must_change : BOOLEAN]
      /\ DOMAIN d = {"account", "role", "bound", "credential"}
  BY DEF DirectoryFits
<1>n. d.credential.version + 1 \in Nat
  BY <1>3
<1>4. /\ k \in [seeded : BOOLEAN, linked : BOOLEAN, version : Nat, must_change : BOOLEAN]
      /\ k.linked = d.credential.linked /\ k.version = d.credential.version + 1
      /\ k.must_change = FALSE
  <2>1. PICK v : v = d.credential.version + 1
    OBVIOUS
  <2>2. k = [d.credential EXCEPT !.version = v, !.must_change = FALSE]
    BY <1>1, <2>1
  <2>3. v \in Nat
    BY <1>n, <2>1
  <2>4. /\ k \in [seeded : BOOLEAN, linked : BOOLEAN, version : Nat, must_change : BOOLEAN]
        /\ k.linked = d.credential.linked /\ k.version = v /\ k.must_change = FALSE
    BY <1>3, <2>2, <2>3
  <2>5. QED
    BY <2>1, <2>4
<1>5. /\ DOMAIN e = {"account", "role", "bound", "credential"}
      /\ e.account = d.account /\ e.role = d.role /\ e.bound = d.bound /\ e.credential = k
  BY <1>1, <1>2, <1>3
<1>6. QED
  BY <1>2, <1>4, <1>5 DEF PasswordMoves

LEMMA PasswordExplains ==
    ASSUME NEW t, NEW rs, NEW d, NEW e, Explained(t, rs, d), PasswordMoves(d, e)
    PROVE  Explained(t, rs, e)
<1>1. e.account = d.account /\ e.role = d.role /\ e.bound = d.bound
  BY DEF PasswordMoves
<1>2. Given(t, rs, e) = Given(t, rs, d)
  BY <1>1 DEF Given, Approved
<1>3. QED
  BY <1>1, <1>2 DEF Explained, Explains, StatusExplained, RoleExplained, RoleOf

\* An old login's session takes the place of the login.
TakesPlace(cs, hs, d, cn, hn, o, c) ==
    /\ hs[o].pc = "verified" /\ hs[o].version # d.credential.version
    /\ hn[o].pc # "verified" /\ \A q \in Ops : hn[q].pc = "verified" => hn[q] = hs[q]
    /\ \A y \in Cookies : cn[y].source = "LOCAL_ADMIN" =>
           \/ y = c /\ cn[y].version = hs[o].version
           \/ cs[y].source = "LOCAL_ADMIN" /\ cn[y].version = cs[y].version

LEMMA OldTakesPlace ==
    ASSUME NEW cs, NEW hs, NEW d, NEW cn, NEW hn, NEW o \in Ops, NEW c \in Cookies,
           OldAreFew(cs, hs, d), TakesPlace(cs, hs, d, cn, hn, o, c)
    PROVE  OldAreFew(cn, hn, d)
<1>1. /\ OldIn(cn, d) \subseteq OldIn(cs, d) \cup {c}
      /\ OldIn(cs, d) \subseteq Cookies /\ OldIn(cs, d) \cup {c} \subseteq Cookies
  BY DEF OldIn, TakesPlace
<1>2. /\ OldAt(hn, d) \subseteq OldAt(hs, d) \ {o} /\ o \in OldAt(hs, d)
      /\ OldAt(hs, d) \subseteq Ops /\ OldAt(hs, d) \ {o} \subseteq Ops
  BY DEF OldAt, TakesPlace
<1>3. /\ IsFiniteSet(OldIn(cs, d)) /\ IsFiniteSet(OldIn(cs, d) \cup {c})
      /\ IsFiniteSet(OldAt(hs, d)) /\ IsFiniteSet(OldAt(hs, d) \ {o})
  BY <1>1, <1>2, FS_Subset, AccessAssumption
<1>a. Cardinality(OldIn(cn, d)) <= Cardinality(OldIn(cs, d) \cup {c})
      /\ IsFiniteSet(OldIn(cn, d))
  BY <1>1, <1>3, FS_Subset
<1>b. /\ Cardinality(OldIn(cn, d)) \in Nat /\ Cardinality(OldIn(cs, d)) \in Nat
      /\ Cardinality(OldIn(cs, d) \cup {c}) \in Nat
  BY <1>3, <1>a, FS_CardinalityType
<1>c. Cardinality(OldIn(cs, d) \cup {c}) =
          IF c \in OldIn(cs, d) THEN Cardinality(OldIn(cs, d)) ELSE Cardinality(OldIn(cs, d)) + 1
  BY <1>3, FS_AddElement
<1>4. /\ Cardinality(OldIn(cn, d)) <= Cardinality(OldIn(cs, d)) + 1
      /\ Cardinality(OldIn(cn, d)) \in Nat /\ Cardinality(OldIn(cs, d)) \in Nat
  BY <1>a, <1>b, <1>c
<1>5. /\ Cardinality(OldAt(hn, d)) <= Cardinality(OldAt(hs, d) \ {o})
      /\ Cardinality(OldAt(hs, d) \ {o}) = Cardinality(OldAt(hs, d)) - 1
      /\ Cardinality(OldAt(hn, d)) \in Nat /\ Cardinality(OldAt(hs, d)) \in Nat
      /\ Cardinality(OldAt(hs, d) \ {o}) \in Nat
  BY <1>2, <1>3, FS_Subset, FS_CardinalityType, FS_RemoveElement
<1>6. Cardinality(Ops) \in Nat
  BY FS_CardinalityType, AccessAssumption
<1>7. QED
  BY <1>4, <1>5, <1>6 DEF OldAreFew

\* The handler that changes the password is no login.
LEMMA ChangeLeavesFew ==
    ASSUME NEW cn, NEW hn, NEW e, NEW o \in Ops, hn[o].pc # "verified",
           \A y \in Cookies : cn[y].source = "LOCAL_ADMIN" =>
               cn[y].version = e.credential.version
    PROVE  OldAreFew(cn, hn, e)
<1>1. Cardinality(OldIn(cn, e)) = 0
  <2>1. OldIn(cn, e) = {}
    BY DEF OldIn
  <2>2. QED
    BY <2>1, FS_EmptySet
<1>2. OldAt(hn, e) \subseteq Ops \ {o} /\ IsFiniteSet(Ops) /\ IsFiniteSet(Ops \ {o})
  BY FS_Subset, AccessAssumption DEF OldAt
<1>3. /\ Cardinality(OldAt(hn, e)) <= Cardinality(Ops \ {o})
      /\ Cardinality(Ops \ {o}) = Cardinality(Ops) - 1
      /\ Cardinality(OldAt(hn, e)) \in Nat /\ Cardinality(Ops) \in Nat
      /\ Cardinality(Ops \ {o}) \in Nat
  BY <1>2, FS_Subset, FS_CardinalityType, FS_RemoveElement
<1>4. QED
  BY <1>1, <1>3 DEF OldAreFew

\* A login stores its session under the password of then, the one that it verified or a
\* later one; a change of the password ends the sessions stored before it.
LEMMA LocalAdminKeeps ==
    ASSUME AccessInv, NEW o \in Ops, LocalAdmin(o)
    PROVE  AccessInv'
<1>0. /\ DOMAIN op[o] = {"pc", "state", "cookie", "intent", "request", "subject", "version",
                         "actor", "command", "batch"}
      /\ SignInsFit(op, states, sessions) /\ StatesFit(states) /\ HandlersFit(op, dir)
      /\ RequestsFit(requests) /\ SessionsFit(sessions, dir) /\ HandlerFits(op[o], dir)
      /\ Explained(told, requests, dir) /\ OldAreFew(sessions, op, dir)
  BY DEF AccessInv, HandlersFit, HandlerFits
<1>1. CASE login(o)
  <2>1. PICK h : h = [op[o] EXCEPT !.pc = "verified", !.version = dir.credential.version]
    OBVIOUS
  <2>2. DOMAIN h = DOMAIN op[o] /\ h.pc = "verified" /\ h.version = dir.credential.version
    BY <1>0, <2>1
  <2>3. /\ op' = [op EXCEPT ![o] = h] /\ dir.credential.linked
        /\ UNCHANGED <<identityVars, requests, states, sessions, upkeep>>
    BY <1>0, <1>1, <2>1 DEF login, Serving, HandlersFit
  <2>4. HandlerFits(h, dir) /\ ~Carries(h)
    BY <1>0, <2>2, <2>3 DEF HandlerFits, Carries
  <2>5. QED
    BY <2>2, <2>3, <2>4, GoesOn
<1>2. CASE \E c \in Cookies, x \in Previous : login_session(o, c, x)
  <2>1. PICK c \in Cookies, x \in Previous : login_session(o, c, x)
    BY <1>2
  <2>2. PICK new : new = LocalSession(op[o].version, dir.credential.version)
    OBVIOUS
  <2>3. /\ op[o].pc = "verified" /\ End(o)
        /\ sessions' = [y \in Cookies |->
               IF y = c THEN new ELSE IF y = x THEN NoSession ELSE sessions[y]]
        /\ UNCHANGED <<identityVars, requests, states, upkeep>>
    BY <2>1, <2>2 DEF login_session, rotate_session, At
  <2>4. /\ new.source = "LOCAL_ADMIN" /\ new.live = TRUE
        /\ new.version = op[o].version /\ new.stored = dir.credential.version
    BY <2>2 DEF LocalSession
  <2>5. NoSession.source = Nothing /\ NoSession.live = FALSE
    BY DEF NoSession
  <2>6. dir.credential.linked
    BY <1>0, <2>3 DEF HandlerFits
  <2>7. SessionsFit(sessions', dir)
    BY <1>0, <2>3, <2>4, <2>5, <2>6 DEF SessionsFit, Nothing
  <2>8. /\ HandlersFit(op', dir)
        /\ \A q \in Ops : Carries(op'[q]) => Carries(op[q]) /\ op'[q].state = op[q].state
        /\ \A q \in Ops : op'[q].pc = "verified" => op'[q] = op[q]
        /\ op'[o].pc # "verified"
    BY <1>0, <2>3, EndFits
  <2>9. \A y \in Cookies : sessions'[y].source = "FEISHU" =>
            sessions[y].source = "FEISHU" /\ sessions'[y].state = sessions[y].state
    BY <2>3, <2>4, <2>5 DEF Nothing
  <2>10. SignInsFit(op', states, sessions')
    BY <1>0, <2>8, <2>9, SignInsShrink
  <2>11. \A y \in Cookies : sessions'[y].source = "LOCAL_ADMIN" =>
             \/ y = c /\ sessions'[y].version = op[o].version
             \/ sessions[y].source = "LOCAL_ADMIN" /\ sessions'[y].version = sessions[y].version
    BY <2>3, <2>4, <2>5 DEF Nothing
  <2>12. OldAreFew(sessions', op', dir)
    <3>1. CASE op[o].version = dir.credential.version
      <4>1. \A y \in Cookies : sessions'[y].source = "LOCAL_ADMIN" =>
                \/ sessions'[y].version = dir.credential.version
                \/ /\ sessions[y].source = "LOCAL_ADMIN"
                   /\ sessions'[y].version = sessions[y].version
        BY <2>11, <3>1
      <4>2. QED
        BY <1>0, <2>8, <4>1, FewStay
    <3>2. CASE op[o].version # dir.credential.version
      <4>1. TakesPlace(sessions, op, dir, sessions', op', o, c)
        BY <2>3, <2>8, <2>11, <3>2 DEF TakesPlace
      <4>2. QED
        BY <1>0, <2>1, <4>1, OldTakesPlace
    <3>3. QED
      BY <3>1, <3>2
  <2>13. QED
    BY <1>0, <2>3, <2>7, <2>8, <2>10, <2>12, AccountsStay
<1>3. CASE \E c \in Cookies : change_password_verify(o, c)
  <2>1. PICK c \in Cookies : change_password_verify(o, c)
    BY <1>3
  <2>2. PICK h : h = [op[o] EXCEPT !.pc = "changing", !.cookie = c]
    OBVIOUS
  <2>3. DOMAIN h = DOMAIN op[o] /\ h.pc = "changing"
    BY <1>0, <2>2
  <2>4. /\ op' = [op EXCEPT ![o] = h] /\ PrincipalOf(c).source = "LOCAL_ADMIN"
        /\ UNCHANGED <<identityVars, requests, states, sessions, upkeep>>
    BY <1>0, <2>1, <2>2 DEF change_password_verify, HandlersFit, change_password, Write
  <2>5. sessions[c].source = "LOCAL_ADMIN"
    BY <2>4 DEF PrincipalOf
  <2>6. dir.credential.linked
    BY <1>0, <2>5 DEF SessionsFit
  <2>7. HandlerFits(h, dir) /\ ~Carries(h)
    BY <1>0, <2>3, <2>6 DEF HandlerFits, Carries
  <2>8. QED
    BY <2>3, <2>4, <2>7, GoesOn
<1>4. CASE \E c \in Cookies : change_password_and_rotate_session(o, c)
  <2>1. PICK c \in Cookies : change_password_and_rotate_session(o, c)
    BY <1>4
  <2>2. PICK new : new = LocalSession(dir.credential.version + 1, dir.credential.version + 1)
    OBVIOUS
  <2>3. /\ op[o].pc = "changing" /\ End(o)
        /\ dir' = [dir EXCEPT !.credential.version = @ + 1, !.credential.must_change = FALSE]
        /\ sessions' = [y \in Cookies |->
               IF y = c THEN new
               ELSE IF sessions[y].source = "LOCAL_ADMIN" THEN NoSession ELSE sessions[y]]
        /\ UNCHANGED <<told, stages, requests, states, served, upkeep>>
    BY <2>1, <2>2 DEF change_password_and_rotate_session, At
  <2>4. PasswordMoves(dir, dir')
    BY <2>3, ChangedPassword DEF AccessInv
  <2>5. DirectoryFits(dir') /\ Explained(told', requests', dir')
    BY <2>3, <2>4, PasswordExplains DEF AccessInv, PasswordMoves, DirectoryFits
  <2>6. dir.credential.linked /\ dir'.credential.linked
    BY <1>0, <2>3, <2>4 DEF HandlerFits, PasswordMoves
  <2>7. /\ new.source = "LOCAL_ADMIN" /\ new.live = TRUE
        /\ new.version = dir'.credential.version /\ new.stored = dir'.credential.version
    BY <2>2, <2>4 DEF PasswordMoves, LocalSession
  <2>8. NoSession.source = Nothing /\ NoSession.live = FALSE
    BY DEF NoSession
  <2>9. SessionsFit(sessions', dir')
    BY <1>0, <2>3, <2>6, <2>7, <2>8 DEF SessionsFit, Nothing
  <2>10. /\ HandlersFit(op', dir')
         /\ \A q \in Ops : Carries(op'[q]) => Carries(op[q]) /\ op'[q].state = op[q].state
         /\ op'[o].pc # "verified"
    BY <1>0, <2>3, <2>6, EndFits
  <2>11. \A y \in Cookies : sessions'[y].source = "FEISHU" =>
             sessions[y].source = "FEISHU" /\ sessions'[y].state = sessions[y].state
    BY <2>3, <2>7, <2>8 DEF Nothing
  <2>12. SignInsFit(op', states, sessions')
    BY <1>0, <2>10, <2>11, SignInsShrink
  <2>13. \A y \in Cookies : sessions'[y].source = "LOCAL_ADMIN" =>
             sessions'[y].version = dir'.credential.version
    BY <2>3, <2>7, <2>8 DEF Nothing
  <2>14. OldAreFew(sessions', op', dir')
    BY <2>10, <2>13, ChangeLeavesFew
  <2>15. QED
    BY <1>0, <2>3, <2>5, <2>9, <2>10, <2>12, <2>14 DEF AccessInv
<1>5. QED
  BY <1>1, <1>2, <1>3, <1>4 DEF LocalAdmin

\* A decision that is not refused is an administrator's, about a pending request.
LEMMA DecisionCommits ==
    ASSUME AccessInv, NEW o \in Ops, decide(o)
    PROVE  /\ DirectoryFits(dir') /\ dir'.credential = dir.credential
           /\ Explained(told', requests', dir') /\ AdminsKept(dir, dir')
           /\ _require_admin_for_update(dir, op[o].actor)
           /\ RequestsFit(requests')
<1>1. PICK c : c = op[o].command
  OBVIOUS
<1>2. PICK r : r = op[o].request
  OBVIOUS
<1>3. /\ c \in Commands /\ c.kind \in {"approve", "reject"} /\ r \in Requests
      /\ DirectoryFits(dir) /\ Explained(told, requests, dir) /\ RequestsFit(requests)
  BY <1>1, <1>2 DEF decide, At, IsDecision, AccessInv, HandlersFit, HandlerFits
<1>4. Result(o) = _decide_activation(dir, op[o].actor, requests[r], c)
  BY <1>1, <1>2 DEF Result, decide
<1>5. Result(o).ok
  BY DEF decide
<1>6. _require_admin_for_update(dir, op[o].actor) /\ requests[r].status = "PENDING"
  BY <1>4, <1>5 DEF _decide_activation, Refused
<1>7. PICK row : row = Decided(requests[r], c)
  OBVIOUS
<1>8. /\ requests' = [requests EXCEPT ![r] = row] /\ dir' = Result(o).dir
      /\ told' = derive_audit(told, r, c)
  BY <1>1, <1>2, <1>3, <1>7 DEF decide, RequestsFit, Commit
<1>9. /\ DOMAIN row = RequestFields /\ row.subject = requests[r].subject
      /\ c.kind = "approve" => row.status = "APPROVED" /\ row.role = c.role
      /\ c.kind = "reject" => row.status = "REJECTED" /\ row.role = Nothing
  BY <1>3, <1>7 DEF RequestsFit, RequestFields, Decided
<1>10. \A q \in Requests : /\ DOMAIN requests'[q] = RequestFields
                           /\ requests'[q].status \in RequestStatus
                           /\ requests'[q].subject = requests[q].subject
                           /\ requests'[q].status = "PENDING" => requests[q].status = "PENDING"
  BY <1>3, <1>6, <1>8, <1>9 DEF RequestsFit, RequestStatus
<1>11. DOMAIN requests' = Requests /\ requests'[r] = row
       /\ \A q \in Requests \ {r} : requests'[q] = requests[q]
  BY <1>3, <1>8 DEF RequestsFit
<1>12. RequestsFit(requests')
  BY <1>3, <1>10, <1>11, RequestsShrink
<1>13. PICK effect : effect = EFFECT_FOR_COMMAND(c)
  OBVIOUS
<1>14. /\ c.kind = "approve" => effect = Effect(c.role, "active")
       /\ c.kind = "reject" => effect = Effect(Unsaid, Unsaid)
  BY <1>3, <1>13 DEF EFFECT_FOR_COMMAND
<1>15. /\ DOMAIN told' = AuditFields /\ told'.user = told.user /\ told'.unbound = told.unbound
       /\ told'.activation = Put(told.activation, r, effect)
       /\ told'.forgotten = told.forgotten
  BY <1>3, <1>8, <1>13 DEF derive_audit, Explained, Explains, AuditFields
<1>16. r \notin DOMAIN told.activation
  BY <1>3, <1>6 DEF Explained, Recorded, RecordedOne
<1>17. /\ DOMAIN told'.activation = DOMAIN told.activation \cup {r}
       /\ told'.activation[r] = effect
       /\ \A x \in DOMAIN told.activation : told'.activation[x] = told.activation[x]
  BY <1>15, <1>16 DEF Put
<1>18. Recorded(told', requests')
  <2>1. \A q \in Requests : RecordedOne(told, requests, q)
    BY <1>3 DEF Explained, Recorded
  <2>2. \A q \in Requests \ {r} : RecordedOne(told', requests', q)
    BY <1>11, <1>17, <2>1 DEF RecordedOne
  <2>3. RecordedOne(told', requests', r)
    BY <1>3, <1>9, <1>11, <1>14, <1>17 DEF RecordedOne
  <2>4. QED
    BY <1>3, <1>17, <2>2, <2>3 DEF Explained, Recorded
<1>19. PICK more : more = Given(told', requests', dir')
  OBVIOUS
<1>20. /\ DOMAIN dir.account \subseteq DOMAIN dir'.account
       /\ \A s \in DOMAIN dir.bound : s \in DOMAIN dir'.bound /\ dir'.bound[s] = dir.bound[s]
       => Given(told, requests, dir) \subseteq more
  <2>1. SUFFICES
          ASSUME DOMAIN dir.account \subseteq DOMAIN dir'.account,
                 \A s \in DOMAIN dir.bound : s \in DOMAIN dir'.bound /\ dir'.bound[s] = dir.bound[s]
          PROVE  Given(told, requests, dir) \subseteq more
    OBVIOUS
  <2>2. Kept(dir, told, requests, dir', told', requests')
    BY <1>3, <1>10, <1>15, <1>17, <2>1 DEF Kept, Explained, Recorded
  <2>3. QED
    BY <1>19, <2>2, ApprovalsStay
<1>21. ASSUME Explains(told, dir', more) PROVE Explained(told', requests', dir')
  <2>1. \A u : SaidOf(told', u) = SaidOf(told, u)
    BY <1>15 DEF SaidOf
  <2>2. Explains(told', dir', more)
    BY <1>15, <1>21, <2>1 DEF Explains, StatusExplained, RoleExplained
  <2>3. QED
    BY <1>18, <1>19, <2>2 DEF Explained
<1>22. CASE c.kind = "approve"
  <2>1. PICK subject : subject = requests[r].subject
    OBVIOUS
  <2>2. Result(o) = _approve_activation_facts(dir, c, subject)
    BY <1>4, <1>5, <1>22, <2>1 DEF _decide_activation, Refused
  <2>3. PICK u : u = ActivationAccount(dir, c, subject)
    OBVIOUS
  <2>4. /\ DOMAIN dir.account \subseteq DOMAIN dir'.account /\ u \in DOMAIN dir'.account
        /\ \A s \in DOMAIN dir.bound : s \in DOMAIN dir'.bound /\ dir'.bound[s] = dir.bound[s]
        /\ subject \in DOMAIN dir'.bound /\ dir'.bound[subject] = u
    BY <1>3, <1>5, <1>8, <1>22, <2>2, <2>3, ApprovalBinds
  <2>5. c.role \in Assignable /\ effect.role = c.role
    BY <1>3, <1>14, <1>22, AccessAssumption DEF Effect
  <2>6. c.role \in Approved(told', requests', dir', u)
    BY <1>3, <1>9, <1>11, <1>17, <2>1, <2>4, <2>5 DEF Approved
  <2>7. Pair(u, c.role) \in more /\ Given(told, requests, dir) \subseteq more
    BY <1>19, <1>20, <2>4, <2>6, GivenPair
  <2>8. /\ DirectoryFits(dir') /\ dir'.credential = dir.credential /\ AdminsKept(dir, dir')
        /\ Explains(told, dir', more)
    <3>1. PICK given : given = Given(told, requests, dir)
      OBVIOUS
    <3>2. Explains(told, dir, given) /\ given \subseteq more
      BY <1>3, <2>7, <3>1 DEF Explained
    <3>3. Pair(ActivationAccount(dir, c, subject), c.role) \in more
      BY <2>3, <2>7
    <3>4. _approve_activation_facts(dir, c, subject).ok
          /\ dir' = _approve_activation_facts(dir, c, subject).dir
      BY <1>5, <1>8, <2>2
    <3>5. PICK e : e = _approve_activation_facts(dir, c, subject).dir
      OBVIOUS
    <3>6. DirectoryFits(dir) /\ c \in Commands
      BY <1>3
    <3>7. /\ DirectoryFits(e) /\ e.credential = dir.credential /\ AdminsKept(dir, e)
          /\ Explains(told, e, more)
      BY <1>22, <3>2, <3>3, <3>4, <3>5, <3>6, ApprovalCommits
    <3>8. dir' = e
      BY <3>4, <3>5
    <3>9. QED
      BY <3>7, <3>8
  <2>9. QED
    BY <1>6, <1>12, <1>21, <2>8
<1>23. CASE c.kind = "reject"
  <2>1. dir' = dir
    BY <1>4, <1>5, <1>8, <1>23 DEF _decide_activation, Refused, Done
  <2>2. Explains(told, dir', more)
    BY <1>3, <1>20, <2>1, ExplainsGrows DEF Explained
  <2>3. AdminsKept(dir, dir')
    BY <2>1 DEF AdminsKept, RoleOf
  <2>4. QED
    BY <1>3, <1>6, <1>12, <1>21, <2>1, <2>2, <2>3
<1>24. QED
  BY <1>3, <1>22, <1>23

\* A transaction about accounts explains with what was approved before it.
LEMMA SteadyExplained ==
    ASSUME NEW t, NEW rs, NEW d, NEW n, NEW e, Explained(t, rs, d),
           Explains(n, e, Given(t, rs, d)), Steady(d, t, e, n)
    PROVE  Explained(n, rs, e)
<1>1. Kept(d, t, rs, e, n, rs)
  BY DEF Kept, Steady
<1>2. Explains(n, e, Given(n, rs, e))
  BY <1>1, ApprovalsStay, ExplainsGrows
<1>3. Recorded(n, rs)
  BY DEF Explained, Recorded, RecordedOne, Steady
<1>4. QED
  BY <1>2, <1>3 DEF Explained

LEMMA ChangeCommits ==
    ASSUME AccessInv, NEW o \in Ops, _apply_managed(o)
    PROVE  /\ DirectoryFits(dir') /\ dir'.credential = dir.credential
           /\ Explained(told', requests, dir') /\ AdminsKept(dir, dir')
           /\ _require_admin_for_update(dir, op[o].actor)
<1>1. PICK c : c = op[o].command
  OBVIOUS
<1>2. /\ c \in Commands /\ c.kind \notin {"approve", "reject"}
      /\ DirectoryFits(dir) /\ Explained(told, requests, dir)
  BY <1>1 DEF _apply_managed, At, IsDecision, AccessInv, HandlersFit, HandlerFits
<1>3. c.kind \in {"set_status", "change_role"}
  BY <1>2, AccessAssumption
<1>4. Result(o) = _apply_managed_user_change(dir, op[o].actor, c) /\ Result(o).ok
  BY <1>1 DEF Result, _apply_managed
<1>5. dir' = Result(o).dir /\ told' = derive_audit(told, c.user, c)
  BY <1>1 DEF _apply_managed, Commit
<1>6. /\ Committed(dir, told, dir', told', Given(told, requests, dir))
      /\ AdminsKept(dir, dir') /\ _require_admin_for_update(dir, op[o].actor)
  BY <1>2, <1>3, <1>4, <1>5, ManagedChangeCommits DEF Explained
<1>7. Explained(told', requests, dir')
  BY <1>2, <1>6, SteadyExplained DEF Committed
<1>8. QED
  BY <1>6, <1>7 DEF Committed

LEMMA MigrationKeeps ==
    ASSUME AccessInv, NEW o \in Ops, migrate_apply(o)
    PROVE  /\ DirectoryFits(dir') /\ dir'.credential = dir.credential
           /\ Explained(told', requests, dir') /\ AdminsKept(dir, dir')
<1>1. PICK batch : batch = op[o].batch
  OBVIOUS
<1>2. /\ \A i \in DOMAIN batch : batch[i].role \in ProductRole
      /\ DirectoryFits(dir) /\ Explained(told, requests, dir)
  BY <1>1 DEF migrate_apply, At, AccessInv, HandlersFit, HandlerFits
<1>3. CASE /\ MigrateLegacyIdentities(dir, batch).ok
           /\ dir' = MigrateLegacyIdentities(dir, batch).dir
           /\ told' = derive_audit_batch(told, batch)
  <2>1. /\ Committed(dir, told, dir', told', Given(told, requests, dir))
        /\ AdminsKept(dir, dir')
    BY <1>2, <1>3, MigrationCommits DEF Explained
  <2>2. Explained(told', requests, dir')
    BY <1>2, <2>1, SteadyExplained DEF Committed
  <2>3. QED
    BY <2>1, <2>2 DEF Committed
<1>4. CASE UNCHANGED <<dir, told>>
  <2>1. AdminsKept(dir, dir')
    BY <1>4 DEF AdminsKept, RoleOf
  <2>2. QED
    BY <1>2, <1>4, <2>1
<1>5. QED
  BY <1>1, <1>3, <1>4 DEF migrate_apply, MigrationSucceeds, identityVars

\* A handler that ends with a change of the directory which leaves the credential.
LEMMA EndWithChange ==
    ASSUME AccessInv, NEW o \in Ops, End(o), RequestsFit(requests'),
           DirectoryFits(dir'), dir'.credential = dir.credential,
           Explained(told', requests', dir'),
           UNCHANGED <<states, sessions, upkeep>>
    PROVE  AccessInv'
<1>0. HandlersFit(op, dir) /\ SignInsFit(op, states, sessions) /\ SessionsFit(sessions, dir)
  BY DEF AccessInv
<1>1. /\ HandlersFit(op', dir')
      /\ \A q \in Ops : Carries(op'[q]) => Carries(op[q]) /\ op'[q].state = op[q].state
      /\ \A q \in Ops : op'[q].pc = "verified" => op'[q] = op[q]
  BY <1>0, EndFits
<1>2. SignInsFit(op', states, sessions)
  BY <1>0, <1>1, SignInsShrink
<1>3. SessionsFit(sessions, dir')
  BY <1>0, SessionsKeep
<1>4. OldAreFew(sessions, op', dir')
  BY <1>1, FewStay DEF AccessInv
<1>5. QED
  BY <1>1, <1>2, <1>3, <1>4 DEF AccessInv

LEMMA AdministerKeeps ==
    ASSUME AccessInv, NEW o \in Ops, Administer(o)
    PROVE  AccessInv'
<1>0. /\ DOMAIN op[o] = {"pc", "state", "cookie", "intent", "request", "subject", "version",
                         "actor", "command", "batch"}
      /\ HandlersFit(op, dir) /\ RequestsFit(requests)
  BY DEF AccessInv, HandlersFit, HandlerFits
<1>1. CASE \E c \in Cookies, k \in Commands, r \in Requests : AdminRequest(o, c, k, r)
  <2>1. PICK c \in Cookies, k \in Commands, r \in Requests : AdminRequest(o, c, k, r)
    BY <1>1
  <2>2. PICK x : x = IF k.kind \in {"approve", "reject"} THEN r ELSE Nothing
    OBVIOUS
  <2>3. PICK h : h = [op[o] EXCEPT !.pc = "gated", !.actor = PrincipalOf(c), !.command = k,
                                   !.request = x]
    OBVIOUS
  <2>4. /\ DOMAIN h = DOMAIN op[o] /\ h.pc = "gated" /\ h.command = k /\ h.request = x
    BY <1>0, <2>3
  <2>5. /\ op' = [op EXCEPT ![o] = h]
        /\ UNCHANGED <<identityVars, requests, states, sessions, upkeep>>
    BY <1>0, <2>1, <2>2, <2>3 DEF AdminRequest, HandlersFit
  <2>6. HandlerFits(h, dir) /\ ~Carries(h)
    BY <1>0, <2>2, <2>4 DEF HandlerFits, Carries
  <2>7. QED
    BY <2>4, <2>5, <2>6, GoesOn
<1>2. CASE decide(o)
  BY <1>2, DecisionCommits, EndWithChange DEF decide
<1>3. CASE _apply_managed(o)
  BY <1>0, <1>3, ChangeCommits, EndWithChange DEF _apply_managed
<1>4. CASE Refuse(o)
  BY <1>4, EndKeeps DEF Refuse
<1>5. CASE migrate_static_identities(o)
  <2>1. PICK pending : pending = {i \in DOMAIN LegacyDocument :
                                      ~_is_already_migrated(LegacyDocument[i])}
    OBVIOUS
  <2>2. PICK batch : batch = [i \in pending |-> LegacyDocument[i]]
    OBVIOUS
  <2>3. PICK h : h = [op[o] EXCEPT !.pc = "migrating", !.batch = batch]
    OBVIOUS
  <2>4. DOMAIN h = DOMAIN op[o] /\ h.pc = "migrating" /\ h.batch = batch
    BY <1>0, <2>3
  <2>5. /\ op' = [op EXCEPT ![o] = h]
        /\ UNCHANGED <<identityVars, requests, states, sessions, upkeep>>
    BY <1>0, <1>5, <2>1, <2>2, <2>3 DEF migrate_static_identities, HandlersFit
  <2>6. \A i \in DOMAIN batch : batch[i].role \in ProductRole
    BY <2>1, <2>2, AccessAssumption
  <2>7. HandlerFits(h, dir) /\ ~Carries(h)
    BY <1>0, <2>4, <2>6 DEF HandlerFits, Carries
  <2>8. QED
    BY <2>4, <2>5, <2>7, GoesOn
<1>6. CASE migrate_apply(o)
  BY <1>0, <1>6, MigrationKeeps, EndWithChange DEF migrate_apply
<1>7. QED
  BY <1>1, <1>2, <1>3, <1>4, <1>5, <1>6 DEF Administer

\* Seeding finds no local session: none is opened before the credential is linked.
LEMMA SeedKeeps ==
    ASSUME AccessInv, seed_if_absent
    PROVE  AccessInv'
<1>0. /\ DirectoryFits(dir) /\ Explained(told, requests, dir)
      /\ HandlersFit(op, dir) /\ SessionsFit(sessions, dir)
  BY DEF AccessInv
<1>1. /\ dir' = _bootstrap_in_transaction(dir).dir
      /\ told' = derive_audit(told, LOCAL_ADMIN_USER_ID, [kind |-> "bootstrap"])
      /\ _bootstrap_in_transaction(dir).ok /\ _bootstrap_in_transaction(dir).dir # dir
      /\ UNCHANGED <<requests, states, sessions, op, upkeep>>
  BY DEF seed_if_absent, Commit
<1>2. /\ DirectoryFits(dir') /\ ~dir.credential.linked
      /\ Explains(told', dir', Given(told, requests, dir)) /\ Steady(dir, told, dir', told')
  BY <1>0, <1>1, BootstrapCommits DEF Explained
<1>e. Explained(told', requests, dir')
  BY <1>0, <1>2, SteadyExplained
<1>3. HandlersFit(op, dir')
  BY <1>0, <1>2, HandlersKeep
<1>4. SessionsFit(sessions, dir')
  BY <1>0, <1>2 DEF SessionsFit
<1>5. OldAreFew(sessions, op, dir')
  <2>1. OldIn(sessions, dir') = {}
    BY <1>0, <1>2 DEF SessionsFit, OldIn
  <2>2. OldAt(op, dir') = {}
    BY <1>0, <1>2 DEF HandlersFit, HandlerFits, OldAt
  <2>3. QED
    BY <2>1, <2>2, NoneAreFew DEF OldAreFew
<1>6. QED
  BY <1>1, <1>2, <1>e, <1>3, <1>4, <1>5 DEF AccessInv

LEMMA MaintainKeeps ==
    ASSUME AccessInv, NEW c \in Upkeep, Maintain(c)
    PROVE  AccessInv'
<1>0. /\ DirectoryFits(dir) /\ Explained(told, requests, dir)
      /\ HandlersFit(op, dir) /\ SessionsFit(sessions, dir)
  BY DEF AccessInv
<1>1. /\ dir' = ApplyCommand(dir, c).dir /\ ApplyCommand(dir, c).ok
      /\ told' = derive_audit(told, c.user, c)
      /\ UNCHANGED <<requests, states, sessions, op>>
  BY DEF Maintain, Commit
<1>2. Committed(dir, told, dir', told', Given(told, requests, dir))
  BY <1>0, <1>1, MaintenanceCommits DEF Explained
<1>3. /\ DirectoryFits(dir') /\ dir'.credential = dir.credential
      /\ Explained(told', requests, dir')
  BY <1>0, <1>2, SteadyExplained DEF Committed
<1>4. HandlersFit(op, dir') /\ SessionsFit(sessions, dir')
  BY <1>0, <1>3, HandlersKeep, SessionsKeep
<1>5. upkeep' \in Nat
  BY DEF AccessInv, Maintain
<1>6. OldAreFew(sessions, op, dir')
  BY <1>3, FewStay DEF AccessInv
<1>7. QED
  BY <1>1, <1>3, <1>4, <1>5, <1>6 DEF AccessInv

LEMMA NextAccessInv == AccessInv /\ [Next]_vars => AccessInv'
<1>1. SUFFICES ASSUME AccessInv, [Next]_vars PROVE AccessInv'
  OBVIOUS
<1>2. CASE \E o \in Ops : Callback(o) \/ LocalAdmin(o) \/ Administer(o) \/ Unavailable(o)
  <2>1. PICK o \in Ops : Callback(o) \/ LocalAdmin(o) \/ Administer(o) \/ Unavailable(o)
    BY <1>2
  <2>2. CASE Callback(o)
    BY <1>1, <2>2, CallbackKeeps
  <2>3. CASE LocalAdmin(o)
    BY <1>1, <2>3, LocalAdminKeeps
  <2>4. CASE Administer(o)
    BY <1>1, <2>4, AdministerKeeps
  <2>5. CASE Unavailable(o)
    BY <1>1, <2>5, EndKeeps DEF Unavailable
  <2>6. QED
    BY <2>1, <2>2, <2>3, <2>4, <2>5
<1>3. CASE Browser
  BY <1>1, <1>3, BrowserKeeps
<1>4. CASE Around
  <2>1. CASE seed_if_absent
    BY <1>1, <2>1, SeedKeeps
  <2>2. CASE \E c \in Upkeep : Maintain(c)
    BY <1>1, <2>2, MaintainKeeps
  <2>3. QED
    BY <1>1, <1>4, <2>1, <2>2, AroundKeeps DEF Around
<1>5. CASE UNCHANGED vars
  BY <1>1, <1>5 DEF AccessInv, vars
<1>6. QED
  BY <1>1, <1>2, <1>3, <1>4, <1>5 DEF Next

\* Everything AccessInv says holds in every reachable state.
THEOREM AccessInvariant == Spec => []AccessInv
<1>1. Init => AccessInv
  BY InitAccessInv
<1>2. AccessInv /\ [Next]_vars => AccessInv'
  BY NextAccessInv
<1>3. QED
  BY <1>1, <1>2, PTL DEF Spec

-----------------------------------------------------------------------------
(***************************************************************************)
(* What the runs check.                                                    *)
(***************************************************************************)
\* However logins, decisions, migrations, maintenance, expiries and purges overlap, the keys
\* of the directory hold, a subject has at most one pending request within the capacity,
\* every kept decision has its event and its role, what the last event that names an account
\* says of it is so, and what no such event says was approved in an event of a request
\* (derive_audit).
THEOREM DirectoryStaysSound == Spec => []DirectoryIsSound
<1>1. AccessInv => DirectoryIsSound
  <2>1. SUFFICES ASSUME AccessInv PROVE DirectoryIsSound
    OBVIOUS
  <2>2. AccessTypeOK
    BY <2>1 DEF AccessInv, AccessTypeOK, RequestsFit, RequestStatus, SessionsFit
  <2>3. OnePendingPerSubject
    BY <2>1 DEF AccessInv, OnePendingPerSubject, RequestsFit
  <2>4. AuditExplainsDirectory
    <3>1. /\ Explains(told, dir, Given(told, requests, dir)) /\ Recorded(told, requests)
      BY <2>1 DEF AccessInv, Explained
    <3>2. \A u : ApprovedFor(u) = Approved(told, requests, dir, u)
      BY DEF ApprovedFor, Approved
    <3>3. \A r \in Requests : RecordedOne(told, requests, r)
      BY <3>1 DEF Recorded
    <3>4. \A r \in Requests :
              IF r \in DOMAIN told.activation
              THEN \/ /\ requests[r].status = "APPROVED"
                      /\ told.activation[r] = Effect(requests[r].role, "active")
                   \/ /\ requests[r].status = "REJECTED"
                      /\ told.activation[r] = Effect(Unsaid, Unsaid)
              ELSE requests[r].status \in {Nothing, "PENDING", "EXPIRED"}
      BY <3>3 DEF RecordedOne, Undecided
    <3>5. ASSUME NEW u \in DOMAIN dir.account
          PROVE  /\ IF SaidOf(told, u).status # Nothing
                    THEN dir.account[u].status = SaidOf(told, u).status
                    ELSE dir.account[u].status = "active" /\ ApprovedFor(u) # {}
                 /\ IF SaidOf(told, u).role # Nothing
                    THEN RoleOf(dir, u) = SaidOf(told, u).role
                    ELSE RoleOf(dir, u) \in {Nothing} \cup ApprovedFor(u)
      <4>1. /\ StatusExplained(told, dir, Given(told, requests, dir), u)
            /\ RoleExplained(told, dir, Given(told, requests, dir), u)
        BY <3>1 DEF Explains
      <4>2. \A role : Pair(u, role) \in Given(told, requests, dir) => role \in ApprovedFor(u)
        BY <3>2, GivenPair
      <4>3. QED
        BY <4>1, <4>2 DEF StatusExplained, RoleExplained
    <3>6. DOMAIN told.user \subseteq DOMAIN dir.account
      BY <3>1 DEF Explains
    <3>7. QED
      BY <3>4, <3>5, <3>6 DEF AuditExplainsDirectory
  <2>5. QED
    BY <2>2, <2>3, <2>4 DEF DirectoryIsSound
<1>2. QED
  BY <1>1, AccessInvariant, PTL

\* The gates agree for whoever may be signed in: the local administrator, and a Feishu
\* user with any role.
GatesAgreeFor(p) ==
    IF p.must_change
    THEN /\ \A r \in boot(p) \cup loadIdentity(p) \cup ConfigWrites(p) : ~r.admits
         /\ change_password(p).admits /\ logout_route(p).admits
    ELSE /\ \A intent \in ReturnIntent : web_return_intent_allowed(p.source, p.role, intent) =>
               \A r \in {Landing(p, intent)} \cup PageCalls(p, intent) : r.admits
         /\ \A r \in ConfigReads(p), w \in ConfigWrites(p) : r.admits = w.admits

LEMMA GatesOpenTogether ==
    ASSUME NEW p,
           \/ p.source = "LOCAL_ADMIN" /\ p.role = "ADMIN"
           \/ p.source = "FEISHU" /\ p.role \in ProductRole /\ ~p.must_change
    PROVE  GatesAgreeFor(p)
<1>g. /\ current_user(p).admits = session_allowed_to_work(p)
      /\ list_tasks_route(p).admits = workbench_session(p)
      /\ get_task_route(p).admits = safe_task_session(p)
      /\ read_integration_status(p).admits = admin_session(p)
      /\ list_admin_users(p).admits = identity_admin_session(p, "manage_users")
      /\ list_admin_activations(p).admits = identity_admin_session(p, "manage_users")
      /\ list_admin_audit(p).admits = identity_admin_session(p, "view_admin_audit")
      /\ read_ai_config(p).admits = local_admin_session(p)
      /\ read_feishu_config(p).admits = local_admin_session(p)
      /\ read_resources(p).admits = local_admin_session(p)
  BY DEF current_user, list_tasks_route, get_task_route, read_integration_status,
     list_admin_users, list_admin_activations, list_admin_audit, read_ai_config,
     read_feishu_config, read_resources, Read
<1>s. /\ shell(p).admits = workbench_session(p)
      /\ admin_shell_route(p).admits = admin_session(p)
      /\ detail_shell_route(p).admits = safe_task_session(p)
      /\ change_password(p).admits = (p.source = "LOCAL_ADMIN")
      /\ logout_route(p).admits = TRUE
  BY DEF shell, admin_shell_route, detail_shell_route, change_password, logout_route, Page, Write
<1>w. \A w \in ConfigWrites(p) :
          \/ w.admits = (session_allowed_to_work(p) /\ ConfigurationAllows(p, "manage_integrations"))
          \/ w.admits = (session_allowed_to_work(p) /\ ConfigurationAllows(p, "run_connection_tests"))
  BY DEF ConfigWrites, Configure, save_ai_config, save_feishu_config,
     clear_ai_config, clear_feishu_config, create_starrocks_resource,
     create_prometheus_resource, update_resource_route, clear_resource_secret_route,
     delete_resource_route, start_oauth_test_route, run_provider_test, Write
<1>c. /\ p.source = "LOCAL_ADMIN" => Capabilities(p) = AdminCapability
      /\ p.source = "FEISHU" /\ p.role = "ADMIN" =>
             Capabilities(p) = AdminCapability \ {"manage_integrations", "run_connection_tests"}
      /\ p.role # "ADMIN" => Capabilities(p) = {}
  BY DEF Capabilities, admin_capabilities
<1>v. "view_safe_task" \in channel_permissions(p.role)
  BY DEF channel_permissions, ProductRole
<1>1. CASE p.must_change
  <2>1. ~session_allowed_to_work(p) /\ p.source = "LOCAL_ADMIN"
    BY <1>1 DEF session_allowed_to_work
  <2>2. /\ ~workbench_session(p) /\ ~admin_session(p) /\ ~local_admin_session(p)
        /\ \A k : ~identity_admin_session(p, k)
    BY <2>1 DEF workbench_session, admin_session, local_admin_session, identity_admin_session
  <2>3. \A r \in boot(p) : ~r.admits
    BY <1>g, <2>1, <2>2 DEF boot
  <2>4. \A r \in loadIdentity(p) : ~r.admits
    BY <1>g, <2>1, <2>2 DEF loadIdentity
  <2>5. \A r \in ConfigWrites(p) : ~r.admits
    BY <1>w, <2>1
  <2>6. change_password(p).admits /\ logout_route(p).admits
    BY <1>s, <2>1
  <2>7. QED
    BY <1>1, <2>3, <2>4, <2>5, <2>6 DEF GatesAgreeFor
<1>2. CASE ~p.must_change
  <2>1. session_allowed_to_work(p)
    BY <1>2 DEF session_allowed_to_work
  <2>2. ASSUME NEW intent \in ReturnIntent,
               web_return_intent_allowed(p.source, p.role, intent)
        PROVE  \A r \in {Landing(p, intent)} \cup PageCalls(p, intent) : r.admits
    <3>1. CASE intent = "workbench"
      <4>1. p.role \in {"ADMIN", "OPERATOR"}
        BY <2>2, <3>1 DEF web_return_intent_allowed, ProductRole
      <4>2. workbench_session(p)
        BY <2>1, <4>1 DEF workbench_session
      <4>3. QED
        BY <1>g, <1>s, <2>1, <3>1, <4>2 DEF Landing, PageCalls, loadIdentity
    <3>2. CASE intent = "admin_center"
      <4>1. p.role = "ADMIN"
        BY <2>2, <3>2 DEF web_return_intent_allowed, ProductRole
      <4>2. {"manage_users", "view_admin_audit", "view_integration_status"}
                \subseteq Capabilities(p)
        BY <1>c, <4>1 DEF AdminCapability
      <4>3. "manage_integrations" \in Capabilities(p) => p.source = "LOCAL_ADMIN"
        BY <1>c, <4>1
      <4>4. /\ admin_session(p) /\ identity_admin_session(p, "manage_users")
            /\ identity_admin_session(p, "view_admin_audit")
            /\ p.source = "LOCAL_ADMIN" => local_admin_session(p)
        BY <2>1, <4>1, <4>2 DEF admin_session, identity_admin_session, local_admin_session
      <4>5. Landing(p, intent).admits
        BY <1>s, <3>2, <4>4 DEF Landing
      <4>6. \A r \in boot(p) : r.admits
        BY <1>g, <2>1, <4>3, <4>4 DEF boot
      <4>7. PageCalls(p, intent) = boot(p)
        BY <3>2 DEF PageCalls
      <4>8. QED
        BY <4>5, <4>6, <4>7
    <3>3. CASE intent = "safe_task_detail"
      <4>1. safe_task_session(p)
        BY <1>v, <2>1 DEF safe_task_session
      <4>2. QED
        BY <1>g, <1>s, <3>3, <4>1 DEF Landing, PageCalls, readTask
    <3>4. CASE intent = "activation_status"
      BY <2>2, <3>4 DEF web_return_intent_allowed
    <3>5. QED
      BY <3>1, <3>2, <3>3, <3>4 DEF ReturnIntent
  <2>3. /\ ConfigurationAllows(p, "manage_integrations") <=> p.source = "LOCAL_ADMIN"
        /\ ConfigurationAllows(p, "run_connection_tests") <=> p.source = "LOCAL_ADMIN"
    BY <1>c DEF ConfigurationAllows, AdminCapability
  <2>5. \A r \in ConfigReads(p) : r.admits = (p.source = "LOCAL_ADMIN")
    BY <1>g, <2>1 DEF ConfigReads, local_admin_session
  <2>6. \A w \in ConfigWrites(p) : w.admits = (p.source = "LOCAL_ADMIN")
    BY <1>w, <2>1, <2>3
  <2>7. QED
    BY <1>2, <2>2, <2>5, <2>6 DEF GatesAgreeFor
<1>3. QED
  BY <1>1, <1>2

\* Whoever a session stands for is the local administrator, or a Feishu user with a role.
LEMMA PrincipalsFit ==
    ASSUME AccessInv, NEW c \in Cookies, Authenticates(c)
    PROVE  LET p == PrincipalOf(c) IN
           \/ p.source = "LOCAL_ADMIN" /\ p.role = "ADMIN"
           \/ p.source = "FEISHU" /\ p.role \in ProductRole /\ ~p.must_change
<1>1. /\ sessions[c].source \in {"LOCAL_ADMIN", "FEISHU"}
      /\ DirectoryFits(dir)
  BY DEF AccessInv, SessionsFit, Authenticates
<1>2. PICK p : p = PrincipalOf(c)
  OBVIOUS
<1>3. CASE sessions[c].source = "LOCAL_ADMIN"
  <2>1. p = [user |-> LOCAL_ADMIN_USER_ID, actor |-> LOCAL_ADMIN_ACTOR,
             source |-> "LOCAL_ADMIN", role |-> "ADMIN",
             must_change |-> dir.credential.must_change]
    BY <1>2, <1>3 DEF PrincipalOf
  <2>2. QED
    BY <1>2, <2>1
<1>4. CASE sessions[c].source = "FEISHU"
  <2>1. PICK u : u = dir.bound[sessions[c].subject]
    OBVIOUS
  <2>2. p = [user |-> u, actor |-> dir.account[u].actor, source |-> "FEISHU",
             role |-> dir.role[u], must_change |-> FALSE]
    BY <1>2, <1>4, <2>1 DEF PrincipalOf
  <2>3. resolve_by_subject(dir, sessions[c].subject) = "resolved"
    BY <1>4 DEF Authenticates
  <2>4. _facts(dir, u)
    BY <2>1, <2>3 DEF resolve_by_subject
  <2>5. dir.role[u] \in ProductRole
    BY <1>1, <2>4 DEF _facts, DirectoryFits
  <2>6. QED
    BY <1>2, <2>2, <2>5
<1>5. QED
  BY <1>1, <1>3, <1>4

\* Two callbacks with one login state never give two sessions, no local session stored before
\* a password change outlives it, the sessions with an earlier password are never more than
\* the requests beside the change, and a login never returns to a page whose own calls the
\* gates refuse.
THEOREM SessionsStaySound == Spec => []SessionsAreSound
<1>1. AccessInv => SessionsAreSound
  <2>1. SUFFICES ASSUME AccessInv PROVE SessionsAreSound
    OBVIOUS
  <2>2. SessionsAreEarned
    BY <2>1 DEF AccessInv, SessionsAreEarned, SignInsFit, Spent
  <2>3. OldSessionsEnd
    <3>1. OldSessions = OldIn(sessions, dir) /\ OldLogins = OldAt(op, dir)
      BY DEF OldSessions, OldIn, OldLogins, OldAt, At
    <3>2. QED
      BY <2>1, <3>1 DEF AccessInv, OldSessionsEnd, SessionsFit, OldAreFew
  <2>4. GatesAgree
    <3>1. SUFFICES ASSUME NEW c \in Cookies, Authenticates(c)
                   PROVE  GatesAgreeFor(PrincipalOf(c))
      BY DEF GatesAgree, GatesAgreeFor
    <3>2. PICK p : p = PrincipalOf(c)
      OBVIOUS
    <3>3. \/ p.source = "LOCAL_ADMIN" /\ p.role = "ADMIN"
          \/ p.source = "FEISHU" /\ p.role \in ProductRole /\ ~p.must_change
      BY <2>1, <3>1, <3>2, PrincipalsFit
    <3>4. QED
      BY <3>2, <3>3, GatesOpenTogether
  <2>5. QED
    BY <2>2, <2>3, <2>4 DEF SessionsAreSound
<1>2. QED
  BY <1>1, AccessInvariant, PTL

-----------------------------------------------------------------------------
(***************************************************************************)
(* What a step may never do.                                               *)
(***************************************************************************)
\* The steps that write the directory or end a decision.
LEMMA WhoWrites ==
    ASSUME AccessInv, [Next]_vars
    PROVE  \/ UNCHANGED dir
           \/ \E o \in Ops : \/ decide(o) \/ _apply_managed(o) \/ migrate_apply(o)
                             \/ \E c \in Cookies : change_password_and_rotate_session(o, c)
           \/ seed_if_absent
           \/ \E c \in Upkeep : Maintain(c)
<1>1. ASSUME NEW o \in Ops, Callback(o) PROVE UNCHANGED dir
  <2>1. CASE resume_web(o) \/ resolve_for_web(o)
    BY <2>1 DEF resume_web, resolve_for_web, identityVars
  <2>2. CASE \E t \in States : \/ \E s \in Subjects : consume_oauth_login_state(o, t, s)
                              \/ consume_oauth_test_state(o, t)
    BY <2>2 DEF consume_oauth_login_state, consume_oauth_test_state, identityVars
  <2>3. CASE \E r \in Requests : request_web(o, r)
    BY <2>3 DEF request_web, identityVars
  <2>4. CASE \E c \in Cookies, x \in Previous : complete_login(o, c, x)
    BY <2>4 DEF complete_login, identityVars
  <2>5. QED
    BY <1>1, <2>1, <2>2, <2>3, <2>4 DEF Callback
<1>2. ASSUME NEW o \in Ops, LocalAdmin(o)
      PROVE  UNCHANGED dir \/ \E c \in Cookies : change_password_and_rotate_session(o, c)
  <2>1. CASE login(o)
    BY <2>1 DEF login, identityVars
  <2>2. CASE \E c \in Cookies, x \in Previous : login_session(o, c, x)
    BY <2>2 DEF login_session, identityVars
  <2>3. CASE \E c \in Cookies : change_password_verify(o, c)
    BY <2>3 DEF change_password_verify, identityVars
  <2>4. QED
    BY <1>2, <2>1, <2>2, <2>3 DEF LocalAdmin
<1>3. ASSUME NEW o \in Ops, Administer(o)
      PROVE  UNCHANGED dir \/ decide(o) \/ _apply_managed(o) \/ migrate_apply(o)
  <2>1. CASE \E c \in Cookies, k \in Commands, r \in Requests : AdminRequest(o, c, k, r)
    BY <2>1 DEF AdminRequest, identityVars
  <2>2. CASE Refuse(o)
    BY <2>2 DEF Refuse, identityVars
  <2>3. CASE migrate_static_identities(o)
    BY <2>3 DEF migrate_static_identities, identityVars
  <2>4. QED
    BY <1>3, <2>1, <2>2, <2>3 DEF Administer
<1>u. ASSUME NEW o \in Ops, Unavailable(o) PROVE UNCHANGED dir
  BY <1>u DEF Unavailable, identityVars
<1>4. CASE Browser
  BY <1>4 DEF Browser, start_login, start_login_status, start_connection_test, Issue,
     StateExpires, logout, SessionExpires, identityVars
<1>5. CASE Around
  BY <1>5 DEF Around, request_group, RequestLapses, purge_expired_terminal, identityVars
<1>6. CASE UNCHANGED vars
  BY <1>6 DEF vars
<1>7. QED
  BY <1>1, <1>2, <1>3, <1>u, <1>4, <1>5, <1>6 DEF Next

\* What a write of the directory keeps.
LEMMA WritesKeep ==
    ASSUME AccessInv, [Next]_vars
    PROVE  /\ upkeep' = upkeep => AdminsKept(dir, dir')
           /\ dir.credential.seeded =>
                /\ dir'.credential.version >= dir.credential.version
                /\ dir'.credential.must_change => dir.credential.must_change
<1>0. DirectoryFits(dir) /\ Explained(told, requests, dir) /\ upkeep \in Nat
      /\ dir.credential.version \in Nat /\ dir.credential.must_change \in BOOLEAN
  BY DEF AccessInv, DirectoryFits
<1>1. CASE UNCHANGED dir
  BY <1>0, <1>1 DEF AdminsKept, RoleOf
<1>2. CASE \E o \in Ops : decide(o) \/ _apply_managed(o) \/ migrate_apply(o)
  <2>1. AdminsKept(dir, dir') /\ dir'.credential = dir.credential
    BY <1>2, DecisionCommits, ChangeCommits, MigrationKeeps
  <2>2. QED
    BY <1>0, <2>1
<1>3. CASE \E o \in Ops, c \in Cookies : change_password_and_rotate_session(o, c)
  <2>1. dir' = [dir EXCEPT !.credential.version = @ + 1, !.credential.must_change = FALSE]
    BY <1>3 DEF change_password_and_rotate_session
  <2>2. PasswordMoves(dir, dir')
    BY <1>0, <2>1, ChangedPassword
  <2>3. AdminsKept(dir, dir')
    BY <2>2 DEF AdminsKept, PasswordMoves, RoleOf
  <2>4. dir'.credential.version = dir.credential.version + 1
        /\ dir'.credential.must_change = FALSE
    BY <2>2 DEF PasswordMoves
  <2>5. QED
    BY <1>0, <2>3, <2>4
<1>4. CASE seed_if_absent
  <2>1. /\ dir' = _bootstrap_in_transaction(dir).dir
        /\ _bootstrap_in_transaction(dir).ok /\ _bootstrap_in_transaction(dir).dir # dir
    BY <1>4 DEF seed_if_absent, Commit
  <2>2. /\ AdminsKept(dir, dir')
        /\ dir.credential.seeded => /\ dir'.credential.version = dir.credential.version
                                    /\ dir'.credential.must_change = dir.credential.must_change
    BY <1>0, <2>1, BootstrapCommits DEF Explained
  <2>3. QED
    BY <1>0, <2>2
<1>5. CASE \E c \in Upkeep : Maintain(c)
  <2>1. PICK c \in Upkeep : Maintain(c)
    BY <1>5
  <2>2. dir' = ApplyCommand(dir, c).dir /\ ApplyCommand(dir, c).ok /\ upkeep' = upkeep + 1
    BY <2>1 DEF Maintain, Commit
  <2>3. dir'.credential = dir.credential
    BY <1>0, <2>2, MaintenanceCommits DEF Committed, Explained
  <2>4. upkeep' # upkeep
    BY <1>0, <2>2
  <2>5. QED
    BY <1>0, <2>3, <2>4
<1>6. QED
  BY <1>1, <1>2, <1>3, <1>4, <1>5, WhoWrites

\* A handler moves alone, and what it is about to do it does, or fails.
LEMMA HandlersMoveAlone ==
    ASSUME AccessInv, NEW q \in Ops,
           Callback(q) \/ LocalAdmin(q) \/ Administer(q) \/ Unavailable(q)
    PROVE  /\ \A o \in Ops \ {q} : op'[o] = op[o]
           /\ op[q].pc = "gated" =>
                  decide(q) \/ _apply_managed(q) \/ Refuse(q) \/ Unavailable(q)
           /\ op[q].pc = "migrating" => migrate_apply(q) \/ Unavailable(q)
           /\ op[q].pc = "unknown" => Unavailable(q) \/ \E r \in Requests : request_web(q, r)
<1>0. DOMAIN op = Ops
  BY DEF AccessInv, HandlersFit
<1>e. ASSUME End(q) PROVE \A o \in Ops \ {q} : op'[o] = op[o]
  BY <1>0, <1>e DEF End
<1>1. CASE \E t \in States, s \in Subjects : consume_oauth_login_state(q, t, s)
  <2>1. PICK t \in States, s \in Subjects : consume_oauth_login_state(q, t, s)
    BY <1>1
  <2>2. \A o \in Ops \ {q} : op'[o] = op[o]
    BY <1>0, <2>1 DEF consume_oauth_login_state
  <2>3. op[q].pc = "idle"
    BY <2>1 DEF consume_oauth_login_state, Begin, At
  <2>4. QED
    BY <2>2, <2>3
<1>2. CASE \E t \in States : consume_oauth_test_state(q, t)
  BY <1>e, <1>2 DEF consume_oauth_test_state, Begin, At
<1>3. CASE resume_web(q)
  <2>1. op[q].pc = "exchanged"
    BY <1>3 DEF resume_web, At
  <2>2. CASE End(q)
    BY <1>e, <2>1, <2>2
  <2>3. CASE ~End(q)
    BY <1>0, <1>3, <2>1, <2>3 DEF resume_web
  <2>4. QED
    BY <2>2, <2>3
<1>4. CASE resolve_for_web(q)
  <2>1. op[q].pc = "exchanged"
    BY <1>4 DEF resolve_for_web, At
  <2>2. CASE End(q)
    BY <1>e, <2>1, <2>2
  <2>3. CASE op' = [op EXCEPT ![q].pc = "unknown"]
    BY <1>0, <2>1, <2>3
  <2>4. CASE op' = [op EXCEPT ![q].pc = "resolved", ![q].intent = Nothing]
    BY <1>0, <2>1, <2>4
  <2>5. QED
    BY <1>4, <2>2, <2>3, <2>4 DEF resolve_for_web
<1>5. CASE \E r \in Requests : request_web(q, r)
  BY <1>e, <1>5 DEF request_web, At
<1>6. CASE \E c \in Cookies, x \in Previous : complete_login(q, c, x)
  BY <1>e, <1>6 DEF complete_login, At
<1>7. CASE login(q)
  BY <1>0, <1>7 DEF login, Begin, At
<1>8. CASE \E c \in Cookies, x \in Previous : login_session(q, c, x)
  BY <1>e, <1>8 DEF login_session, At
<1>9. CASE \E c \in Cookies : change_password_verify(q, c)
  BY <1>0, <1>9 DEF change_password_verify, Begin, At
<1>10. CASE \E c \in Cookies : change_password_and_rotate_session(q, c)
  BY <1>e, <1>10 DEF change_password_and_rotate_session, At
<1>11. CASE \E c \in Cookies, k \in Commands, r \in Requests : AdminRequest(q, c, k, r)
  <2>1. PICK c \in Cookies, k \in Commands, r \in Requests : AdminRequest(q, c, k, r)
    BY <1>11
  <2>2. \A o \in Ops \ {q} : op'[o] = op[o]
    BY <1>0, <2>1 DEF AdminRequest
  <2>3. op[q].pc = "idle"
    BY <2>1 DEF AdminRequest, Begin, At
  <2>4. QED
    BY <2>2, <2>3
<1>12. CASE decide(q)
  BY <1>e, <1>12 DEF decide, At
<1>13. CASE _apply_managed(q)
  BY <1>e, <1>13 DEF _apply_managed, At
<1>14. CASE Refuse(q)
  BY <1>e, <1>14 DEF Refuse, At
<1>15. CASE migrate_static_identities(q)
  <2>1. \A o \in Ops \ {q} : op'[o] = op[o]
    BY <1>0, <1>15 DEF migrate_static_identities
  <2>2. op[q].pc = "idle"
    BY <1>15 DEF migrate_static_identities, Begin, At
  <2>3. QED
    BY <2>1, <2>2
<1>16. CASE migrate_apply(q)
  BY <1>e, <1>16 DEF migrate_apply, At
<1>17. CASE Unavailable(q)
  BY <1>e, <1>17 DEF Unavailable
<1>18. CASE Callback(q)
  BY <1>1, <1>2, <1>3, <1>4, <1>5, <1>6, <1>18 DEF Callback
<1>19. CASE LocalAdmin(q)
  BY <1>7, <1>8, <1>9, <1>10, <1>19 DEF LocalAdmin
<1>20. CASE Administer(q)
  BY <1>11, <1>12, <1>13, <1>14, <1>15, <1>16, <1>20 DEF Administer
<1>21. QED
  BY <1>17, <1>18, <1>19, <1>20

\* A decision that wrote something was made by an administrator of that moment.
LEMMA DecidersAreAdmins ==
    ASSUME AccessInv, [Next]_vars, NEW o \in Ops, op[o].pc = "gated", op'[o].pc = "idle",
           <<dir, requests>>' # <<dir, requests>>
    PROVE  _require_admin_for_update(dir, op[o].actor)
<1>1. op' # op
  OBVIOUS
<1>2. CASE \E q \in Ops : Callback(q) \/ LocalAdmin(q) \/ Administer(q) \/ Unavailable(q)
  <2>1. PICK q \in Ops : Callback(q) \/ LocalAdmin(q) \/ Administer(q) \/ Unavailable(q)
    BY <1>2
  <2>2. q = o
    BY <2>1, HandlersMoveAlone
  <2>3. decide(o) \/ _apply_managed(o) \/ Refuse(o) \/ Unavailable(o)
    BY <2>1, <2>2, HandlersMoveAlone
  <2>4. ~Refuse(o) /\ ~Unavailable(o)
    BY DEF Refuse, Unavailable, identityVars
  <2>5. QED
    BY <2>3, <2>4, DecisionCommits, ChangeCommits
<1>3. CASE Browser
  BY <1>1, <1>3 DEF Browser, start_login, start_login_status, start_connection_test, Issue,
     StateExpires, logout, SessionExpires
<1>4. CASE Around
  BY <1>1, <1>4 DEF Around, request_group, RequestLapses, purge_expired_terminal,
     seed_if_absent, Maintain
<1>5. CASE UNCHANGED vars
  BY <1>1, <1>5 DEF vars
<1>6. QED
  BY <1>2, <1>3, <1>4, <1>5 DEF Next

\* Authority is judged when it is used: a decision commits only for an active administrator
\* of that moment, signed in by a way that is still current; no request of the Web takes an
\* administrator's role or disables one; and no start of the Web process brings an earlier
\* password back.
THEOREM AuthorityStaysCurrent == Spec => AuthorityIsCurrent
<1>1. AccessInv /\ [Next]_vars =>
          [\A o \in Ops :
             op[o].pc = "gated" /\ op'[o].pc = "idle" /\ <<dir, requests>>' # <<dir, requests>> =>
                 LET u == op[o].actor.user IN
                 /\ u \in DOMAIN dir.account /\ dir.account[u].status = "active"
                 /\ RoleOf(dir, u) = "ADMIN"
                 /\ op[o].actor.source = "FEISHU" =>
                        \E s \in DOMAIN dir.bound : dir.bound[s] = u]_vars
  <2>1. ASSUME AccessInv, [Next]_vars, NEW o \in Ops, op[o].pc = "gated", op'[o].pc = "idle",
               <<dir, requests>>' # <<dir, requests>>
        PROVE  LET u == op[o].actor.user IN
               /\ u \in DOMAIN dir.account /\ dir.account[u].status = "active"
               /\ RoleOf(dir, u) = "ADMIN"
               /\ op[o].actor.source = "FEISHU" => \E s \in DOMAIN dir.bound : dir.bound[s] = u
    BY <2>1, DecidersAreAdmins DEF _require_admin_for_update
  <2>2. QED
    BY <2>1
<1>2. AccessInv /\ [Next]_vars =>
          [upkeep' = upkeep =>
             \A u \in DOMAIN dir.role : dir.role[u] = "ADMIN" =>
                 /\ RoleOf(dir', u) = "ADMIN"
                 /\ dir'.account[u].status = dir.account[u].status]_vars
  BY WritesKeep DEF AdminsKept
<1>3. AccessInv /\ [Next]_vars =>
          [dir.credential.seeded =>
             /\ dir'.credential.version >= dir.credential.version
             /\ dir'.credential.must_change => dir.credential.must_change]_vars
  BY WritesKeep
<1>4. Spec => DecisionsByCurrentAdmins
  BY <1>1, AccessInvariant, PTL DEF Spec, DecisionsByCurrentAdmins
<1>5. Spec => AdminsKeepTheirRole
  BY <1>2, AccessInvariant, PTL DEF Spec, AdminsKeepTheirRole
<1>6. Spec => PasswordNeverRolledBack
  BY <1>3, AccessInvariant, PTL DEF Spec, PasswordNeverRolledBack
<1>7. QED
  BY <1>4, <1>5, <1>6 DEF AuthorityIsCurrent

-----------------------------------------------------------------------------
(***************************************************************************)
(* Reading a task.  A version names a status: the detail that is taken     *)
(* when the version has not moved since the record was read was true at    *)
(* the moment the plan was read.                                           *)
(***************************************************************************)
RowFits(row) ==
    /\ DOMAIN row = {"at", "actor", "channel", "bound", "version", "status", "plan"}
    /\ row.version \in Nat

\* What a write does to a row that can be seen: the owner stays, an open task may move on,
\* and a new status is a new version.
RowMoves(a, b) ==
    a.at = "committed" =>
        /\ b.at = "committed" /\ b.actor = a.actor /\ b.channel = a.channel
        /\ a.bound => b.bound
        /\ a.version <= b.version
        /\ a.version = b.version => a.status = b.status
        /\ a.status = "CLARIFICATION_REQUIRED" => b.status = a.status

\* The detail a reader is about to show.
Detail(rd) == [version |-> rd.record.version, status |-> rd.record.status, plan |-> rd.plan]

ReaderFits(rd, row, m) ==
    /\ DOMAIN rd = {"pc", "who", "t", "record", "plan", "tries", "cursor", "page", "more",
                    "shown", "began", "wasMember", "moments", "answer", "calls"}
    /\ rd.pc \in {"authorize", "membership", "project", "compare", "shown"} =>
           /\ rd.t \in Seqs /\ Look(rd.t, row) \in rd.moments
           /\ m => rd.wasMember
    /\ rd.pc \in {"membership", "project", "compare", "shown"} =>
           /\ row.at = "committed" /\ rd.record.version \in Nat
           /\ rd.record.version <= row.version
           /\ rd.record.version = row.version => rd.record.status = row.status
    /\ rd.pc = "membership" => row.channel = "FEISHU_GROUP"
    /\ rd.pc \in {"project", "compare", "shown"} =>
           \/ rd.who = "admin" \/ row.actor = rd.who
           \/ row.channel = "FEISHU_GROUP" /\ rd.wasMember
    /\ rd.pc = "compare" => (rd.record.version = row.version => Detail(rd) \in rd.moments)
    /\ rd.pc = "shown" => Detail(rd) \in rd.moments
    /\ rd.pc \in {"parent", "binding", "parent_ok"} => rd.t \in Seqs
    /\ rd.pc = "binding" =>
           /\ row.at = "committed" /\ rd.record.actor = row.actor
           /\ rd.record.status = "CLARIFICATION_REQUIRED" => row.status = rd.record.status
    /\ rd.pc = "parent_ok" =>
           row.at = "committed" /\ row.status = "CLARIFICATION_REQUIRED" /\ row.actor = "alice"

ReadInv ==
    /\ DOMAIN task = Seqs /\ \A s \in Seqs : RowFits(task[s])
    /\ ReaderFits(reader, task[reader.t], member)

\* A row that moves under a reader's eyes, with its new look among the moments.
LEMMA RowMovesUnder ==
    ASSUME NEW rd, NEW a, NEW b, NEW m, ReaderFits(rd, a, m), RowFits(a), RowFits(b),
           RowMoves(a, b), NEW rn, DOMAIN rn = DOMAIN rd, rn.pc = rd.pc, rn.who = rd.who,
           rn.t = rd.t, rn.record = rd.record, rn.plan = rd.plan, rn.wasMember = rd.wasMember,
           rn.moments = rd.moments \cup {Look(rd.t, b)}
    PROVE  ReaderFits(rn, b, m)
<1>1. Detail(rn) = Detail(rd) /\ Look(rn.t, b) \in rn.moments /\ rd.moments \subseteq rn.moments
  BY DEF Detail
<1>2. rd.pc \in {"membership", "project", "compare", "shown"} =>
          /\ b.at = "committed" /\ rd.record.version \in Nat
          /\ rd.record.version <= b.version
          /\ rd.record.version = b.version =>
                 rd.record.status = b.status /\ rd.record.version = a.version
  BY DEF ReaderFits, RowMoves, RowFits
<1>3. rd.pc = "compare" => (rd.record.version = b.version => Detail(rd) \in rd.moments)
  BY <1>2 DEF ReaderFits
<1>4. rd.pc \in {"project", "compare", "shown"} =>
          \/ rd.who = "admin" \/ b.actor = rd.who
          \/ b.channel = "FEISHU_GROUP" /\ rd.wasMember
  BY DEF ReaderFits, RowMoves
<1>5. rd.pc = "membership" => b.channel = "FEISHU_GROUP"
  BY DEF ReaderFits, RowMoves
<1>6. rd.pc = "binding" =>
          /\ b.at = "committed" /\ rd.record.actor = b.actor
          /\ rd.record.status = "CLARIFICATION_REQUIRED" => b.status = rd.record.status
  BY DEF ReaderFits, RowMoves
<1>7. rd.pc = "parent_ok" =>
          b.at = "committed" /\ b.status = "CLARIFICATION_REQUIRED" /\ b.actor = "alice"
  BY DEF ReaderFits, RowMoves
<1>8. QED
  BY <1>1, <1>2, <1>3, <1>4, <1>5, <1>6, <1>7 DEF ReaderFits

LEMMA WriteKeeps ==
    ASSUME ReadInv, NEW s \in Seqs, NEW row, RowFits(row), RowMoves(task[s], row),
           WriteTask(s, row)
    PROVE  ReadInv'
<1>1. /\ DOMAIN task' = Seqs /\ task'[s] = row
      /\ \A r \in Seqs \ {s} : task'[r] = task[r]
      /\ task' = [task EXCEPT ![s] = row]
  BY DEF WriteTask, ReadInv
<1>2. member' = member
  BY DEF WriteTask
<1>3. \A r \in Seqs : RowFits(task'[r])
  BY <1>1 DEF ReadInv
<1>4. CASE reader.t = s
  <2>1. PICK moments : moments = reader.moments \cup {Look(s, row)}
    OBVIOUS
  <2>2. reader' = [reader EXCEPT !.moments = moments]
    BY <1>4, <2>1 DEF WriteTask
  <2>3. PICK rn : rn = [reader EXCEPT !.moments = moments]
    OBVIOUS
  <2>4. /\ DOMAIN rn = DOMAIN reader /\ rn.pc = reader.pc /\ rn.who = reader.who
        /\ rn.t = reader.t /\ rn.record = reader.record /\ rn.plan = reader.plan
        /\ rn.wasMember = reader.wasMember /\ rn.moments = moments
    BY <2>3 DEF ReadInv, ReaderFits
  <2>5. RowFits(task[s]) /\ ReaderFits(reader, task[s], member)
    BY <1>4 DEF ReadInv
  <2>6. ReaderFits(rn, row, member)
    BY <1>4, <2>1, <2>4, <2>5, RowMovesUnder
  <2>7. QED
    BY <1>1, <1>2, <1>3, <1>4, <2>2, <2>3, <2>4, <2>6 DEF ReadInv
<1>5. CASE reader.t # s
  <2>1. reader' = reader
    BY <1>5 DEF WriteTask
  <2>2. task'[reader.t] = task[reader.t]
    BY <1>1, <1>5 DEF ReadInv
  <2>3. QED
    BY <1>1, <1>2, <1>3, <2>1, <2>2 DEF ReadInv
<1>6. QED
  BY <1>4, <1>5

\* A reader that has nothing of a task in hand.
LEMMA RestingFits ==
    ASSUME NEW rd, NEW row, NEW m,
           DOMAIN rd = {"pc", "who", "t", "record", "plan", "tries", "cursor", "page", "more",
                        "shown", "began", "wasMember", "moments", "answer", "calls"},
           rd.pc \in {"idle", "fetch", "filter", "listed"}
    PROVE  ReaderFits(rd, row, m)
BY DEF ReaderFits

\* The reader moves, the tasks do not.
LEMMA ReaderMoves ==
    ASSUME ReadInv, UNCHANGED <<task, member>>, ReaderFits(reader', task[reader'.t], member)
    PROVE  ReadInv'
BY DEF ReadInv

LEMMA FreshReader ==
    /\ DOMAIN Reader = {"pc", "who", "t", "record", "plan", "tries", "cursor", "page", "more",
                        "shown", "began", "wasMember", "moments", "answer", "calls"}
    /\ Reader.pc = "idle"
BY DEF Reader

LEMMA InitReadInv == ReadInit => ReadInv
<1>1. SUFFICES ASSUME ReadInit PROVE ReadInv
  OBVIOUS
<1>2. PICK none : none = NoTask
  OBVIOUS
<1>3. RowFits(none)
  BY <1>2 DEF RowFits, NoTask
<1>4. DOMAIN task = Seqs /\ \A s \in Seqs : task[s] = none
  BY <1>1, <1>2 DEF ReadInit
<1>5. ReaderFits(reader, task[reader.t], member)
  BY <1>1, FreshReader, RestingFits DEF ReadInit
<1>6. QED
  BY <1>3, <1>4, <1>5 DEF ReadInv

\* Submitters and workers.
OthersMove ==
    \/ \E s \in Seqs, actor \in {"alice", "bob"}, channel \in Channels : nextval(s, actor, channel)
    \/ \E s \in Seqs : CommitTask(s) \/ Bind(s) \/ PlanSaved(s)
    \/ \E s \in Seqs, status \in Statuses : Advance(s, status)

LEMMA OthersWrite ==
    ASSUME ReadInv, OthersMove
    PROVE  \E s \in Seqs : \E row : WriteTask(s, row) /\ RowFits(row) /\ RowMoves(task[s], row)
<1>1. CASE \E s \in Seqs, actor \in {"alice", "bob"}, channel \in Channels :
               nextval(s, actor, channel)
  <2>1. PICK s \in Seqs, actor \in {"alice", "bob"}, channel \in Channels :
            nextval(s, actor, channel)
    BY <1>1
  <2>2. PICK row : row = [NoTask EXCEPT !.at = "open", !.actor = actor, !.channel = channel,
                                        !.status = "CREATED"]
    OBVIOUS
  <2>3. WriteTask(s, row) /\ task[s].at = "free"
    BY <2>1, <2>2 DEF nextval
  <2>4. RowFits(row)
    BY <2>2 DEF RowFits, NoTask
  <2>5. RowMoves(task[s], row)
    BY <2>3 DEF RowMoves
  <2>6. QED
    BY <2>3, <2>4, <2>5
<1>2. CASE \E s \in Seqs : CommitTask(s) \/ Bind(s) \/ PlanSaved(s)
  <2>1. PICK s \in Seqs : CommitTask(s) \/ Bind(s) \/ PlanSaved(s)
    BY <1>2
  <2>2. RowFits(task[s])
    BY DEF ReadInv
  <2>3. CASE CommitTask(s)
    <3>1. PICK row : row = [task[s] EXCEPT !.at = "committed"]
      OBVIOUS
    <3>2. WriteTask(s, row) /\ task[s].at = "open"
      BY <2>3, <3>1 DEF CommitTask
    <3>3. RowFits(row) /\ RowMoves(task[s], row)
      BY <2>2, <3>1, <3>2 DEF RowFits, RowMoves
    <3>4. QED
      BY <3>2, <3>3
  <2>4. CASE Bind(s)
    <3>1. PICK row : row = [task[s] EXCEPT !.bound = TRUE]
      OBVIOUS
    <3>2. WriteTask(s, row)
      BY <2>4, <3>1 DEF Bind
    <3>3. RowFits(row) /\ RowMoves(task[s], row)
      BY <2>2, <3>1 DEF RowFits, RowMoves
    <3>4. QED
      BY <3>2, <3>3
  <2>5. CASE PlanSaved(s)
    <3>1. PICK row : row = [task[s] EXCEPT !.plan = TRUE]
      OBVIOUS
    <3>2. WriteTask(s, row)
      BY <2>5, <3>1 DEF PlanSaved
    <3>3. RowFits(row) /\ RowMoves(task[s], row)
      BY <2>2, <3>1 DEF RowFits, RowMoves
    <3>4. QED
      BY <3>2, <3>3
  <2>6. QED
    BY <2>1, <2>3, <2>4, <2>5
<1>3. CASE \E s \in Seqs, status \in Statuses : Advance(s, status)
  <2>1. PICK s, status : s \in Seqs /\ Advance(s, status)
    BY <1>3
  <2>2. s \in Seqs /\ RowFits(task[s])
    BY <2>1 DEF ReadInv
  <2>3. PICK version : version = task[s].version + 1
    OBVIOUS
  <2>4. PICK row : row = [task[s] EXCEPT !.version = version, !.status = status]
    OBVIOUS
  <2>5. /\ WriteTask(s, row)
        /\ task[s].status # "CLARIFICATION_REQUIRED"
    BY <2>1, <2>2, <2>3, <2>4
       DEF Advance, RowFits, AllowedTransitions, DispatchStatuses
  <2>6. version \in Nat /\ task[s].version < version
    BY <2>2, <2>3 DEF RowFits
  <2>7. RowFits(row)
    BY <2>2, <2>4, <2>6 DEF RowFits
  <2>8. row.at = task[s].at /\ row.actor = task[s].actor /\ row.channel = task[s].channel
        /\ row.bound = task[s].bound /\ row.version = version
    BY <2>2, <2>4 DEF RowFits
  <2>9. RowMoves(task[s], row)
    <3>1. task[s].version <= version /\ task[s].version # version
      BY <2>2, <2>6 DEF RowFits
    <3>2. QED
      BY <2>5, <2>8, <3>1 DEF RowMoves
  <2>10. QED
    BY <2>2, <2>5, <2>7, <2>9
<1>4. QED
  BY <1>1, <1>2, <1>3 DEF OthersMove

LEMMA OthersKeep == ASSUME ReadInv, OthersMove PROVE ReadInv'
BY OthersWrite, WriteKeeps

LEMMA MembershipKeeps == ASSUME ReadInv, MembershipChanges PROVE ReadInv'
<1>1. PICK was : was = (reader.wasMember \/ member')
  OBVIOUS
<1>2. reader' = [reader EXCEPT !.wasMember = was] /\ task' = task
  BY <1>1 DEF MembershipChanges
<1>3. PICK rn : rn = [reader EXCEPT !.wasMember = was]
  OBVIOUS
<1>4. /\ DOMAIN rn = DOMAIN reader /\ rn.pc = reader.pc /\ rn.who = reader.who
      /\ rn.t = reader.t /\ rn.record = reader.record /\ rn.plan = reader.plan
      /\ rn.wasMember = was /\ rn.moments = reader.moments
  BY <1>3 DEF ReadInv, ReaderFits
<1>5. Detail(rn) = Detail(reader)
  BY <1>4 DEF Detail
<1>6. ReaderFits(rn, task[reader.t], member')
  BY <1>1, <1>4, <1>5 DEF ReadInv, ReaderFits
<1>7. QED
  BY <1>2, <1>3, <1>4, <1>6 DEF ReadInv

\* A walk through the list.
LEMMA ListKeeps ==
    ASSUME ReadInv,
           \/ \E who \in Who : StartList(who)
           \/ list_tasks_for_scope \/ list_tasks_for_actor \/ list_tasks \/ Finish
    PROVE  ReadInv'
<1>0. DOMAIN reader = DOMAIN Reader
  BY FreshReader DEF ReadInv, ReaderFits
<1>1. CASE \E who \in Who : StartList(who)
  <2>1. PICK who, began : /\ reader' = [Reader EXCEPT !.pc = "fetch", !.who = who,
                                                      !.calls = reader.calls + 1, !.began = began]
                          /\ UNCHANGED <<task, member>>
    BY <1>1 DEF StartList
  <2>2. DOMAIN reader' = DOMAIN Reader /\ reader'.pc = "fetch"
    BY <2>1, FreshReader
  <2>3. QED
    BY <2>1, <2>2, FreshReader, RestingFits, ReaderMoves
<1>2. CASE list_tasks_for_scope
  <2>1. PICK stored :
            /\ reader' = [reader EXCEPT !.shown = Append(@, stored.items), !.more = stored.more,
                              !.cursor = IF stored.more THEN Lowest(stored.items) ELSE None,
                              !.pc = IF stored.more THEN "fetch" ELSE "listed"]
            /\ UNCHANGED <<task, member>>
    BY <1>2 DEF list_tasks_for_scope
  <2>2. DOMAIN reader' = DOMAIN Reader /\ reader'.pc \in {"fetch", "listed"}
    BY <1>0, <2>1, FreshReader
  <2>3. QED
    BY <2>1, <2>2, FreshReader, RestingFits, ReaderMoves
<1>3. CASE list_tasks_for_actor
  <2>1. PICK stored :
            /\ reader' = [reader EXCEPT !.page = stored.items, !.more = stored.more,
                                        !.pc = "filter"]
            /\ UNCHANGED <<task, member>>
    BY <1>3 DEF list_tasks_for_actor
  <2>2. DOMAIN reader' = DOMAIN Reader /\ reader'.pc = "filter"
    BY <1>0, <2>1, FreshReader
  <2>3. QED
    BY <2>1, <2>2, FreshReader, RestingFits, ReaderMoves
<1>4. CASE list_tasks
  <2>1. PICK page :
            /\ reader' = [reader EXCEPT !.shown = Append(@, page.items), !.page = {},
                              !.cursor = IF page.more THEN page.cursor ELSE None,
                              !.more = page.more,
                              !.pc = IF page.more THEN "fetch" ELSE "listed"]
            /\ UNCHANGED <<task, member>>
    BY <1>4 DEF list_tasks
  <2>2. DOMAIN reader' = DOMAIN Reader /\ reader'.pc \in {"fetch", "listed"}
    BY <1>0, <2>1, FreshReader
  <2>3. QED
    BY <2>1, <2>2, FreshReader, RestingFits, ReaderMoves
<1>5. CASE Finish
  <2>1. reader' = [Reader EXCEPT !.calls = reader.calls] /\ UNCHANGED <<task, member>>
    BY <1>5 DEF Finish
  <2>2. DOMAIN reader' = DOMAIN Reader /\ reader'.pc = "idle"
    BY <2>1, FreshReader
  <2>3. QED
    BY <2>1, <2>2, FreshReader, RestingFits, ReaderMoves
<1>6. QED
  BY <1>1, <1>2, <1>3, <1>4, <1>5

\* A reader that goes away empty-handed.
LEMMA DeniedKeeps ==
    ASSUME ReadInv, UNCHANGED <<task, member>>, NEW answer,
           reader' = [Reader EXCEPT !.calls = reader.calls, !.answer = answer]
    PROVE  ReadInv'
<1>1. DOMAIN reader' = DOMAIN Reader /\ reader'.pc = "idle"
  BY FreshReader
<1>2. QED
  BY <1>1, FreshReader, RestingFits, ReaderMoves

\* The detail of a task.
LEMMA DetailKeeps ==
    ASSUME ReadInv,
           \/ \E who \in Who, s \in Seqs : StartDetail(who, s)
           \/ _authorized_record \/ project_task \/ get_task
           \/ \E answers \in BOOLEAN : is_current_group_member(answers)
    PROVE  ReadInv'
<1>0. /\ DOMAIN reader = DOMAIN Reader
      /\ ReaderFits(reader, task[reader.t], member)
  BY FreshReader DEF ReadInv, ReaderFits
<1>d. PICK row : row = task[reader.t]
  OBVIOUS
<1>1. CASE \E who \in Who, s \in Seqs : StartDetail(who, s)
  <2>1. PICK who \in Who, s \in Seqs : StartDetail(who, s)
    BY <1>1
  <2>2. PICK moments : moments = {Look(s, task[s])}
    OBVIOUS
  <2>3. /\ reader' = [Reader EXCEPT !.pc = "authorize", !.who = who, !.t = s,
                                    !.wasMember = member, !.calls = reader.calls + 1,
                                    !.moments = moments]
        /\ UNCHANGED <<task, member>>
    BY <2>1, <2>2 DEF StartDetail
  <2>4. /\ DOMAIN reader' = DOMAIN Reader /\ reader'.pc = "authorize" /\ reader'.t = s
        /\ reader'.wasMember = member /\ reader'.moments = moments
    BY <2>3, FreshReader
  <2>5. ReaderFits(reader', task[reader'.t], member)
    BY <2>2, <2>4, FreshReader DEF ReaderFits
  <2>6. QED
    BY <2>3, <2>5, ReaderMoves
<1>2. CASE _authorized_record
  <2>1. reader.pc = "authorize" /\ UNCHANGED <<task, member>>
    BY <1>2 DEF _authorized_record
  <2>2. CASE reader' = Denied
    BY <2>1, <2>2, DeniedKeeps DEF Denied
  <2>3. CASE reader' # Denied
    <3>1. /\ row.at = "committed"
          /\ \/ /\ reader.who = "admin" \/ row.actor = reader.who
                /\ reader' = [reader EXCEPT !.record = row, !.pc = "project"]
             \/ /\ row.channel = "FEISHU_GROUP"
                /\ reader' = [reader EXCEPT !.record = row, !.pc = "membership"]
      BY <1>2, <1>d, <2>3 DEF _authorized_record, Visible, Owned
    <3>2. PICK pc : reader' = [reader EXCEPT !.record = row, !.pc = pc]
                    /\ \/ pc = "project" /\ (reader.who = "admin" \/ row.actor = reader.who)
                       \/ pc = "membership" /\ row.channel = "FEISHU_GROUP"
      BY <3>1
    <3>3. /\ DOMAIN reader' = DOMAIN Reader /\ reader'.pc = pc /\ reader'.t = reader.t
          /\ reader'.wasMember = reader.wasMember /\ reader'.moments = reader.moments
          /\ reader'.record = row /\ reader'.who = reader.who
      BY <1>0, <3>2, FreshReader
    <3>4. /\ reader.t \in Seqs /\ Look(reader.t, row) \in reader.moments
          /\ member => reader.wasMember
      BY <1>0, <1>d, <2>1 DEF ReaderFits
    <3>5. row.version \in Nat
      BY <1>d, <3>4 DEF ReadInv, RowFits
    <3>6. ReaderFits(reader', row, member)
      BY <3>1, <3>2, <3>3, <3>4, <3>5, FreshReader DEF ReaderFits
    <3>7. QED
      BY <1>d, <2>1, <3>3, <3>6, ReaderMoves
  <2>4. QED
    BY <2>2, <2>3
<1>3. CASE \E answers \in BOOLEAN : is_current_group_member(answers)
  <2>1. PICK answers \in BOOLEAN : is_current_group_member(answers)
    BY <1>3
  <2>2. reader.pc = "membership" /\ UNCHANGED <<task, member>>
    BY <2>1 DEF is_current_group_member
  <2>3. CASE reader' = Denied
    BY <2>2, <2>3, DeniedKeeps DEF Denied
  <2>4. CASE reader' # Denied
    <3>1. member /\ reader' = [reader EXCEPT !.pc = "project"]
      BY <2>1, <2>4 DEF is_current_group_member
    <3>2. /\ DOMAIN reader' = DOMAIN Reader /\ reader'.pc = "project" /\ reader'.t = reader.t
          /\ reader'.wasMember = reader.wasMember /\ reader'.moments = reader.moments
          /\ reader'.record = reader.record /\ reader'.who = reader.who
      BY <1>0, <3>1, FreshReader
    <3>3. ReaderFits(reader', row, member)
      BY <1>0, <1>d, <2>2, <3>1, <3>2, FreshReader DEF ReaderFits
    <3>4. QED
      BY <1>d, <2>2, <3>2, <3>3, ReaderMoves
  <2>5. QED
    BY <2>3, <2>4
<1>4. CASE project_task
  <2>0. reader.pc = "project" /\ UNCHANGED <<task, member>>
    BY <1>4 DEF project_task
  <2>f. CASE reader' = [Denied EXCEPT !.answer = "plan_not_found"]
    <3>1. reader' = [Reader EXCEPT !.calls = reader.calls, !.answer = "plan_not_found"]
      BY <2>f DEF Denied, Reader
    <3>2. QED
      BY <2>0, <3>1, DeniedKeeps
  <2>g. CASE reader' # [Denied EXCEPT !.answer = "plan_not_found"]
    <3>1. reader' = [reader EXCEPT !.plan = row.plan, !.pc = "compare"]
      BY <1>4, <1>d, <2>g DEF project_task
    <3>2. /\ DOMAIN reader' = DOMAIN Reader /\ reader'.pc = "compare" /\ reader'.t = reader.t
          /\ reader'.wasMember = reader.wasMember /\ reader'.moments = reader.moments
          /\ reader'.record = reader.record /\ reader'.who = reader.who
          /\ reader'.plan = row.plan
      BY <1>0, <3>1, FreshReader
    <3>3. reader.record.version = row.version => Detail(reader') = Look(reader.t, row)
      BY <1>0, <1>d, <2>0, <3>2 DEF ReaderFits, Detail, Look
    <3>4. ReaderFits(reader', row, member)
      BY <1>0, <1>d, <2>0, <3>2, <3>3, FreshReader DEF ReaderFits
    <3>5. QED
      BY <1>d, <2>0, <3>2, <3>4, ReaderMoves
  <2>h. QED
    BY <2>f, <2>g
<1>5. CASE get_task
  <2>1. /\ reader.pc = "compare" /\ UNCHANGED <<task, member>>
        /\ \/ /\ row.version = reader.record.version
              /\ reader' = [reader EXCEPT !.pc = "shown"]
           \/ reader' = [Reader EXCEPT !.calls = reader.calls, !.answer = "unavailable"]
           \/ reader' = [reader EXCEPT !.record = row, !.tries = @ + 1, !.pc = "project"]
    BY <1>5, <1>d DEF get_task
  <2>2. CASE row.version = reader.record.version /\ reader' = [reader EXCEPT !.pc = "shown"]
    <3>1. /\ DOMAIN reader' = DOMAIN Reader /\ reader'.pc = "shown" /\ reader'.t = reader.t
          /\ reader'.wasMember = reader.wasMember /\ reader'.moments = reader.moments
          /\ reader'.record = reader.record /\ reader'.who = reader.who
          /\ reader'.plan = reader.plan
      BY <1>0, <2>2, FreshReader
    <3>2. Detail(reader') = Detail(reader)
      BY <3>1 DEF Detail
    <3>3. ReaderFits(reader', row, member)
      BY <1>0, <1>d, <2>1, <2>2, <3>1, <3>2, FreshReader DEF ReaderFits
    <3>4. QED
      BY <1>d, <2>1, <3>1, <3>3, ReaderMoves
  <2>3. CASE reader' = [Reader EXCEPT !.calls = reader.calls, !.answer = "unavailable"]
    BY <2>1, <2>3, DeniedKeeps
  <2>4. CASE reader' = [reader EXCEPT !.record = row, !.tries = @ + 1, !.pc = "project"]
    <3>1. /\ DOMAIN reader' = DOMAIN Reader /\ reader'.pc = "project" /\ reader'.t = reader.t
          /\ reader'.wasMember = reader.wasMember /\ reader'.moments = reader.moments
          /\ reader'.record = row /\ reader'.who = reader.who
      BY <1>0, <2>4, FreshReader
    <3>2. reader.t \in Seqs
      BY <1>0, <2>1 DEF ReaderFits
    <3>3. row.version \in Nat
      BY <1>d, <3>2 DEF ReadInv, RowFits
    <3>4. ReaderFits(reader', row, member)
      BY <1>0, <1>d, <2>1, <3>1, <3>3, FreshReader DEF ReaderFits
    <3>5. QED
      BY <1>d, <2>1, <3>1, <3>4, ReaderMoves
  <2>5. QED
    BY <2>1, <2>2, <2>3, <2>4
<1>6. QED
  BY <1>1, <1>2, <1>3, <1>4, <1>5

\* The check of a parent task.
LEMMA ParentKeeps ==
    ASSUME ReadInv,
           \/ \E s \in Seqs : StartParent(s)
           \/ ParentRecord \/ require_web_parent_access
    PROVE  ReadInv'
<1>0. /\ DOMAIN reader = DOMAIN Reader
      /\ ReaderFits(reader, task[reader.t], member)
  BY FreshReader DEF ReadInv, ReaderFits
<1>d. PICK row : row = task[reader.t]
  OBVIOUS
<1>1. CASE \E s \in Seqs : StartParent(s)
  <2>1. PICK s \in Seqs : StartParent(s)
    BY <1>1
  <2>2. /\ reader' = [Reader EXCEPT !.pc = "parent", !.who = "alice", !.t = s,
                                    !.calls = reader.calls + 1]
        /\ UNCHANGED <<task, member>>
    BY <2>1 DEF StartParent
  <2>3. DOMAIN reader' = DOMAIN Reader /\ reader'.pc = "parent" /\ reader'.t = s
    BY <2>2, FreshReader
  <2>4. ReaderFits(reader', task[reader'.t], member)
    BY <2>3, FreshReader DEF ReaderFits
  <2>5. QED
    BY <2>2, <2>4, ReaderMoves
<1>2. CASE ParentRecord
  <2>1. reader.pc = "parent" /\ UNCHANGED <<task, member>>
    BY <1>2 DEF ParentRecord
  <2>2. CASE reader' = Denied
    BY <2>1, <2>2, DeniedKeeps DEF Denied
  <2>3. CASE reader' # Denied
    <3>1. /\ row.at = "committed"
          /\ reader' = [reader EXCEPT !.record = row, !.pc = "binding"]
      BY <1>2, <1>d, <2>3 DEF ParentRecord, Visible
    <3>2. /\ DOMAIN reader' = DOMAIN Reader /\ reader'.pc = "binding" /\ reader'.t = reader.t
          /\ reader'.record = row
      BY <1>0, <3>1, FreshReader
    <3>3. ReaderFits(reader', row, member)
      BY <1>0, <2>1, <3>1, <3>2, FreshReader DEF ReaderFits
    <3>4. QED
      BY <1>d, <2>1, <3>2, <3>3, ReaderMoves
  <2>4. QED
    BY <2>2, <2>3
<1>3. CASE require_web_parent_access
  <2>1. reader.pc = "binding" /\ UNCHANGED <<task, member>>
    BY <1>3 DEF require_web_parent_access
  <2>2. CASE reader' = Denied
    BY <2>1, <2>2, DeniedKeeps DEF Denied
  <2>3. CASE reader' # Denied
    <3>1. /\ reader.record.status = "CLARIFICATION_REQUIRED" /\ reader.record.actor = "alice"
          /\ reader' = [reader EXCEPT !.pc = "parent_ok"]
      BY <1>3, <2>3 DEF require_web_parent_access
    <3>2. /\ DOMAIN reader' = DOMAIN Reader /\ reader'.pc = "parent_ok" /\ reader'.t = reader.t
      BY <1>0, <3>1, FreshReader
    <3>3. ReaderFits(reader', row, member)
      BY <1>0, <1>d, <2>1, <3>1, <3>2, FreshReader DEF ReaderFits
    <3>4. QED
      BY <1>d, <2>1, <3>2, <3>3, ReaderMoves
  <2>4. QED
    BY <2>2, <2>3
<1>4. QED
  BY <1>1, <1>2, <1>3

LEMMA NextReadInv == ReadInv /\ [ReadNext]_readVars => ReadInv'
<1>1. SUFFICES ASSUME ReadInv, [ReadNext]_readVars PROVE ReadInv'
  OBVIOUS
<1>2. CASE UNCHANGED readVars
  BY <1>1, <1>2 DEF ReadInv, readVars
<1>3. CASE ReadNext
  BY <1>1, <1>3, OthersKeep, MembershipKeeps, ListKeeps, DetailKeeps, ParentKeeps
  DEF ReadNext, OthersMove
<1>4. QED
  BY <1>1, <1>2, <1>3

-----------------------------------------------------------------------------
(***************************************************************************)
(* A walk through the list.  The cursor parts the tasks: those at or above *)
(* it that were there when the walk began have been shown (or belong to a  *)
(* group), those below are still to come.  The page that was fetched is    *)
(* the top of what is below the cursor, and what is looked at of it is its *)
(* top again.                                                              *)
(***************************************************************************)
\* Finite sets of creation numbers have a lowest and a highest one: among the sets of
\* numbers below (above) each, one is smallest.
LEMMA Extremes ==
    ASSUME NEW S, IsFiniteSet(S), S \subseteq Nat, S # {}
    PROVE  /\ \E s \in S : \A r \in S : s <= r
           /\ \E s \in S : \A r \in S : r <= s
<1>1. IsWellFoundedOn(StrictSubsetOrdering(S), FiniteSubsetsOf(S))
  BY FS_StrictSubsetOrderingWellFounded
<1>2. \E s \in S : \A r \in S : s <= r
  <2>1. PICK T : T = {{r \in S : r < s} : s \in S}
    OBVIOUS
  <2>2. \A X \in T : X \subseteq S /\ IsFiniteSet(X)
    BY <2>1, FS_Subset
  <2>3. T \subseteq FiniteSubsetsOf(S) /\ T # {}
    BY <2>1, <2>2 DEF FiniteSubsetsOf
  <2>4. PICK X \in T : \A Y \in T : ~(<<Y, X>> \in StrictSubsetOrdering(S))
    BY <1>1, <2>3, WFMin
  <2>5. PICK s \in S : X = {r \in S : r < s}
    BY <2>1
  <2>6. SUFFICES ASSUME NEW r \in S, r < s PROVE FALSE
    BY <2>5
  <2>7. PICK Y : Y = {q \in S : q < r}
    OBVIOUS
  <2>8. Y \in T /\ Y \subseteq X /\ Y # X /\ X \subseteq S
    <3>1. r \in Nat /\ s \in Nat /\ \A q \in S : q \in Nat
      OBVIOUS
    <3>2. r \in X /\ r \notin Y
      BY <2>5, <2>6, <2>7, <3>1
    <3>3. \A q \in Y : q \in X
      BY <2>5, <2>6, <2>7, <3>1
    <3>4. QED
      BY <2>1, <2>5, <2>7, <3>2, <3>3
  <2>9. <<Y, X>> \in StrictSubsetOrdering(S)
    BY <2>8 DEF StrictSubsetOrdering
  <2>10. QED
    BY <2>4, <2>8, <2>9
<1>3. \E s \in S : \A r \in S : r <= s
  <2>1. PICK T : T = {{r \in S : r > s} : s \in S}
    OBVIOUS
  <2>2. \A X \in T : X \subseteq S /\ IsFiniteSet(X)
    BY <2>1, FS_Subset
  <2>3. T \subseteq FiniteSubsetsOf(S) /\ T # {}
    BY <2>1, <2>2 DEF FiniteSubsetsOf
  <2>4. PICK X \in T : \A Y \in T : ~(<<Y, X>> \in StrictSubsetOrdering(S))
    BY <1>1, <2>3, WFMin
  <2>5. PICK s \in S : X = {r \in S : r > s}
    BY <2>1
  <2>6. SUFFICES ASSUME NEW r \in S, r > s PROVE FALSE
    BY <2>5
  <2>7. PICK Y : Y = {q \in S : q > r}
    OBVIOUS
  <2>8. Y \in T /\ Y \subseteq X /\ Y # X /\ X \subseteq S
    <3>1. r \in Nat /\ s \in Nat /\ \A q \in S : q \in Nat
      OBVIOUS
    <3>2. r \in X /\ r \notin Y
      BY <2>5, <2>6, <2>7, <3>1
    <3>3. \A q \in Y : q \in X
      BY <2>5, <2>6, <2>7, <3>1
    <3>4. QED
      BY <2>1, <2>5, <2>7, <3>2, <3>3
  <2>9. <<Y, X>> \in StrictSubsetOrdering(S)
    BY <2>8 DEF StrictSubsetOrdering
  <2>10. QED
    BY <2>4, <2>8, <2>9
<1>4. QED
  BY <1>2, <1>3

LEMMA LowestIsLeast ==
    ASSUME NEW S, IsFiniteSet(S), S \subseteq Nat, S # {}
    PROVE  Lowest(S) \in S /\ \A r \in S : Lowest(S) <= r
BY Extremes DEF Lowest

\* The rows with fewer than n of K above them are the top of the rows: the others are
\* all below.
Top(rows, K, n) == {s \in rows : Cardinality({r \in K : r > s}) < n}
LEMMA TopOf ==
    ASSUME NEW rows, IsFiniteSet(rows), rows \subseteq Nat, NEW K \in SUBSET rows,
           NEW n \in Nat \ {0}
    PROVE  /\ Top(rows, K, n) \subseteq rows /\ IsFiniteSet(Top(rows, K, n))
           /\ \A s \in rows \ Top(rows, K, n), l \in Top(rows, K, n) : s < l
           /\ rows # {} => Top(rows, K, n) # {}
<1>0. PICK top : top = Top(rows, K, n) /\ top = {s \in rows : Cardinality({r \in K : r > s}) < n}
  BY DEF Top
<1>1. top \subseteq rows /\ IsFiniteSet(top)
  BY <1>0, FS_Subset
<1>2. ASSUME NEW s \in rows \ top, NEW l \in top PROVE s < l
  <2>1. SUFFICES ASSUME l <= s PROVE FALSE
    BY <1>1, <1>2
  <2>2. PICK A : A = {r \in K : r > s}
    OBVIOUS
  <2>3. PICK B : B = {r \in K : r > l}
    OBVIOUS
  <2>4. A \in SUBSET B
    <3>1. s \in Nat /\ l \in Nat /\ \A r \in K : r \in Nat
      BY <1>1, <1>2
    <3>2. \A r \in K : r > s => r > l
      BY <2>1, <3>1
    <3>3. QED
      BY <2>2, <2>3, <3>2
  <2>5. IsFiniteSet(B)
    BY <2>3, FS_Subset
  <2>6. Cardinality(A) <= Cardinality(B)
    BY <2>4, <2>5, FS_Subset
  <2>7. Cardinality(A) \in Nat /\ Cardinality(B) \in Nat
    BY <2>4, <2>5, FS_Subset, FS_CardinalityType
  <2>8. Cardinality(B) < n /\ ~(Cardinality(A) < n)
    BY <1>0, <1>2, <2>2, <2>3
  <2>9. QED
    BY <2>6, <2>7, <2>8
<1>3. ASSUME rows # {} PROVE top # {}
  <2>1. PICK s \in rows : \A r \in rows : r <= s
    BY <1>3, Extremes
  <2>2. {r \in K : r > s} = {}
    <3>1. \A r \in K : r \in Nat /\ s \in Nat /\ r <= s
      BY <2>1
    <3>2. \A r \in K : ~(r > s)
      BY <3>1
    <3>3. QED
      BY <3>2
  <2>3. Cardinality({r \in K : r > s}) = 0
    BY <2>2, FS_EmptySet
  <2>4. QED
    BY <1>0, <2>3
<1>4. QED
  BY <1>0, <1>1, <1>2, <1>3

\* A page of the store: the top of the rows, and all of them if there are no more.
LEMMA PageIsTop ==
    ASSUME NEW rows, IsFiniteSet(rows), rows \subseteq Nat, NEW n \in Nat \ {0}
    PROVE  /\ Newest(rows, n) \subseteq rows /\ IsFiniteSet(Newest(rows, n))
           /\ \A s \in rows \ Newest(rows, n), l \in Newest(rows, n) : s < l
           /\ Cardinality(rows) > n => Newest(rows, n) # {}
           /\ ~(Cardinality(rows) > n) => Newest(rows, n) = rows
<1>1. PICK top : top = Newest(rows, n)
  OBVIOUS
<1>2. top = {s \in rows : Cardinality({r \in rows : r > s}) < n}
  BY <1>1 DEF Newest
<1>3. /\ top \subseteq rows /\ IsFiniteSet(top)
      /\ \A s \in rows \ top, l \in top : s < l
      /\ rows # {} => top # {}
  <2>1. rows \in SUBSET rows /\ top = Top(rows, rows, n)
    BY <1>2 DEF Top
  <2>2. QED
    BY <2>1, TopOf
<1>4. ASSUME Cardinality(rows) > n PROVE rows # {}
  BY <1>4, FS_EmptySet
<1>5. ASSUME ~(Cardinality(rows) > n), NEW s \in rows PROVE s \in top
  <2>1. PICK A : A = {r \in rows : r > s}
    OBVIOUS
  <2>2. A \in SUBSET rows /\ s \notin A
    BY <2>1
  <2>3. Cardinality(A) <= Cardinality(rows) /\ Cardinality(A) # Cardinality(rows)
    BY <1>5, <2>2, FS_Subset
  <2>4. Cardinality(A) \in Nat /\ Cardinality(rows) \in Nat
    BY <2>2, FS_Subset, FS_CardinalityType
  <2>5. Cardinality(A) < n
    BY <1>5, <2>3, <2>4
  <2>6. QED
    BY <1>2, <1>5, <2>1, <2>5
<1>6. QED
  BY <1>1, <1>3, <1>4, <1>5

Mine(tk, who, s) == tk[s].at = "committed" /\ (who = "admin" \/ tk[s].actor = who)
Grouped(tk, s) == tk[s].bound /\ tk[s].channel = "FEISHU_GROUP"
\* A task that the walk has dealt with.
Dealt(tk, rd, s) ==
    \/ \E i \in DOMAIN rd.shown : s \in rd.shown[i]
    \/ rd.who # "admin" /\ Grouped(tk, s)
IsBelow(s, cursor) == cursor = None \/ s < cursor

PagesFit(tk, rd) ==
    /\ rd.shown \in Seq(SUBSET Seqs) /\ rd.cursor \in Nat
    /\ \A s \in rd.began : s \in Seqs /\ Mine(tk, rd.who, s)
    /\ \A i \in DOMAIN rd.shown : \A s \in rd.shown[i] : Mine(tk, rd.who, s)
    /\ \A i, j \in DOMAIN rd.shown :
           i < j => \A s \in rd.shown[i], r \in rd.shown[j] : s > r
CursorFits(rd) ==
    \A i \in DOMAIN rd.shown : \A s \in rd.shown[i] : rd.cursor # None /\ rd.cursor <= s
WalkFits(tk, rd) ==
    /\ rd.pc \in {"fetch", "filter", "listed"} => PagesFit(tk, rd)
    /\ rd.pc \in {"fetch", "filter"} => CursorFits(rd)
    /\ rd.pc = "fetch" => \A s \in rd.began : Dealt(tk, rd, s) \/ IsBelow(s, rd.cursor)
    /\ rd.pc = "filter" =>
           /\ rd.who # "admin" /\ rd.more \in BOOLEAN
           /\ rd.page \subseteq Seqs /\ (rd.more => rd.page # {})
           /\ \A s \in rd.page : Mine(tk, rd.who, s) /\ IsBelow(s, rd.cursor)
           /\ \A s \in rd.began : \/ Dealt(tk, rd, s) \/ s \in rd.page
                                  \/ rd.more /\ \A r \in rd.page : s < r
    /\ rd.pc = "listed" => \A s \in rd.began : Dealt(tk, rd, s)

WalkInv == WalkFits(task, reader)

\* Tasks move under a walk: what was a reader's stays so, and a binding is not undone.
LEMMA WalkUnderRows ==
    ASSUME NEW tk, NEW tn, NEW rd, NEW rn, WalkFits(tk, rd),
           rn.pc = rd.pc, rn.who = rd.who, rn.shown = rd.shown, rn.cursor = rd.cursor,
           rn.page = rd.page, rn.more = rd.more, rn.began = rd.began,
           \A s \in Seqs : Mine(tk, rd.who, s) =>
               Mine(tn, rd.who, s) /\ (Grouped(tk, s) => Grouped(tn, s))
    PROVE  WalkFits(tn, rn)
<1>1. ASSUME PagesFit(tk, rd) PROVE PagesFit(tn, rn)
  <2>1. \A i \in DOMAIN rd.shown : rd.shown[i] \subseteq Seqs
    BY <1>1 DEF PagesFit
  <2>2. \A i \in DOMAIN rn.shown : \A s \in rn.shown[i] : Mine(tn, rn.who, s)
    BY <1>1, <2>1 DEF PagesFit
  <2>3. QED
    BY <1>1, <2>2 DEF PagesFit
<1>2. ASSUME PagesFit(tk, rd), NEW s \in rd.began, Dealt(tk, rd, s) PROVE Dealt(tn, rn, s)
  BY <1>2 DEF PagesFit, Dealt
<1>3. CursorFits(rd) => CursorFits(rn)
  BY DEF CursorFits
<1>4. rd.pc = "filter" => \A s \in rd.page : Mine(tn, rd.who, s)
  BY DEF WalkFits
<1>5. QED
  BY <1>1, <1>2, <1>3, <1>4 DEF WalkFits

\* A page is returned: it lies below everything shown before, and what it does not show is
\* a group's or lies below its cursor.
LEMMA PageShown ==
    ASSUME NEW tk, NEW rd, NEW rn, PagesFit(tk, rd), CursorFits(rd),
           NEW items \in SUBSET Seqs, NEW cursor \in Nat, NEW more \in BOOLEAN,
           \A s \in items : Mine(tk, rd.who, s) /\ IsBelow(s, rd.cursor),
           more => /\ cursor # None /\ IsBelow(cursor, rd.cursor)
                   /\ \A s \in items : cursor <= s,
           rn.shown = Append(rd.shown, items), rn.cursor = cursor,
           rn.pc = (IF more THEN "fetch" ELSE "listed"),
           rn.who = rd.who, rn.began = rd.began,
           \A s \in rd.began : \/ Dealt(tk, rd, s) \/ s \in items
                               \/ rd.who # "admin" /\ Grouped(tk, s)
                               \/ more /\ s < cursor
    PROVE  WalkFits(tk, rn)
<1>1. PICK n \in Nat : n = Len(rd.shown)
  BY DEF PagesFit
<1>2. /\ rn.shown \in Seq(SUBSET Seqs)
      /\ DOMAIN rd.shown = 1 .. n /\ DOMAIN rn.shown = 1 .. n + 1
      /\ \A i \in 1 .. n : rn.shown[i] = rd.shown[i] /\ rd.shown[i] \subseteq Seqs
      /\ rn.shown[n + 1] = items
  BY <1>1 DEF PagesFit
<1>3. \A i \in DOMAIN rn.shown : i \in DOMAIN rd.shown \/ i = n + 1
  BY <1>2
<1>4. \A i \in DOMAIN rd.shown : \A s \in rd.shown[i] :
          /\ s \in Nat /\ rd.cursor \in Nat /\ rd.cursor # None /\ rd.cursor <= s
          /\ \A r \in items : s > r
          /\ more => cursor <= s
  BY <1>2 DEF PagesFit, CursorFits, IsBelow, Seqs
<1>5. PagesFit(tk, rn)
  <2>1. \A i \in DOMAIN rn.shown : \A s \in rn.shown[i] : Mine(tk, rn.who, s)
    BY <1>2, <1>3 DEF PagesFit
  <2>2. ASSUME NEW i \in DOMAIN rn.shown, NEW j \in DOMAIN rn.shown, i < j,
               NEW s \in rn.shown[i], NEW r \in rn.shown[j]
        PROVE  s > r
    <3>1. i \in 1 .. n
      BY <1>2, <2>2
    <3>2. CASE j \in 1 .. n
      BY <1>2, <2>2, <3>1, <3>2 DEF PagesFit
    <3>3. CASE j = n + 1
      BY <1>2, <1>4, <2>2, <3>1, <3>3
    <3>4. QED
      BY <1>2, <1>3, <3>2, <3>3
  <2>3. QED
    BY <1>2, <2>1, <2>2 DEF PagesFit
<1>6. more => CursorFits(rn)
  BY <1>2, <1>3, <1>4 DEF CursorFits
<1>7. \A s \in rn.began : Dealt(tk, rn, s) \/ (more /\ IsBelow(s, cursor))
  <2>1. SUFFICES ASSUME NEW s \in rd.began PROVE Dealt(tk, rn, s) \/ (more /\ IsBelow(s, cursor))
    OBVIOUS
  <2>2. CASE Dealt(tk, rd, s)
    BY <1>2, <2>2 DEF Dealt
  <2>3. CASE s \in items
    <3>1. n + 1 \in DOMAIN rn.shown
      BY <1>2
    <3>2. QED
      BY <1>2, <2>3, <3>1 DEF Dealt
  <2>4. CASE rd.who # "admin" /\ Grouped(tk, s)
    BY <2>4 DEF Dealt
  <2>5. CASE more /\ s < cursor
    BY <2>5 DEF IsBelow
  <2>6. QED
    BY <2>1, <2>2, <2>3, <2>4, <2>5
<1>8. CASE more
  BY <1>5, <1>6, <1>7, <1>8 DEF WalkFits
<1>9. CASE ~more
  BY <1>5, <1>7, <1>9 DEF WalkFits
<1>10. QED
  BY <1>8, <1>9

\* What the statement of a page selects.
LEMMA PageRows ==
    ASSUME NEW who, NEW cursor \in Nat, NEW rows, rows = _task_page_statement(who, cursor)
    PROVE  /\ IsFiniteSet(rows) /\ rows \subseteq Seqs /\ rows \subseteq Nat
           /\ \A s \in Seqs : s \in rows <=> Mine(task, who, s) /\ IsBelow(s, cursor)
<1>1. IsFiniteSet(Seqs)
  BY TaskAccessAssumption, FS_Interval DEF Seqs
<1>2. rows \in SUBSET Seqs /\ Seqs \subseteq Nat
  BY DEF _task_page_statement, Seqs
<1>3. QED
  BY <1>1, <1>2, FS_Subset DEF _task_page_statement, Mine, IsBelow, Visible, Owned

LEMMA StartWalk ==
    ASSUME NEW who, StartList(who) PROVE WalkInv'
<1>1. PICK began : began = {s \in Seqs : Visible(s) /\ Owned(who, s)}
  OBVIOUS
<1>2. /\ reader' = [Reader EXCEPT !.pc = "fetch", !.who = who, !.calls = reader.calls + 1,
                                  !.began = began]
      /\ task' = task
  BY <1>1 DEF StartList
<1>3. /\ reader'.pc = "fetch" /\ reader'.who = who /\ reader'.began = began
      /\ reader'.shown = <<>> /\ reader'.cursor = None
  BY <1>2 DEF Reader
<1>4. \A s \in began : s \in Seqs /\ Mine(task', who, s)
  BY <1>1, <1>2 DEF Mine, Visible, Owned
<1>5. PagesFit(task', reader') /\ CursorFits(reader')
  BY <1>3, <1>4 DEF PagesFit, CursorFits, None
<1>6. QED
  BY <1>3, <1>5 DEF WalkInv, WalkFits, IsBelow

LEMMA ScopePage ==
    ASSUME ReadInv, WalkInv, list_tasks_for_scope PROVE WalkInv'
<1>1. reader.pc = "fetch" /\ reader.who = "admin" /\ task' = task
  BY DEF list_tasks_for_scope
<1>2. /\ PagesFit(task, reader) /\ CursorFits(reader) /\ reader.cursor \in Nat
      /\ \A s \in reader.began : Dealt(task, reader, s) \/ IsBelow(s, reader.cursor)
  BY <1>1 DEF WalkInv, WalkFits, PagesFit
<1>3. PICK rows : rows = _task_page_statement("admin", reader.cursor)
  OBVIOUS
<1>4. PICK items : items = Newest(rows, PageLimit)
  OBVIOUS
<1>5. PICK more : more = (Cardinality(rows) > PageLimit)
  OBVIOUS
<1>6. /\ IsFiniteSet(rows) /\ rows \subseteq Seqs /\ rows \subseteq Nat
      /\ \A s \in Seqs : s \in rows <=> Mine(task, "admin", s) /\ IsBelow(s, reader.cursor)
  BY <1>2, <1>3, PageRows
<1>7. /\ items \subseteq rows /\ IsFiniteSet(items)
      /\ \A s \in rows \ items, l \in items : s < l
      /\ more => items # {}
      /\ ~more => items = rows
      /\ more \in BOOLEAN
  <2>1. Cardinality(rows) \in Nat /\ PageLimit \in Nat \ {0}
    BY <1>6, FS_CardinalityType, TaskAccessAssumption
  <2>2. more \in BOOLEAN
    BY <1>5, <2>1
  <2>3. /\ Newest(rows, PageLimit) \subseteq rows /\ IsFiniteSet(Newest(rows, PageLimit))
        /\ \A s \in rows \ Newest(rows, PageLimit), l \in Newest(rows, PageLimit) : s < l
        /\ Cardinality(rows) > PageLimit => Newest(rows, PageLimit) # {}
        /\ ~(Cardinality(rows) > PageLimit) => Newest(rows, PageLimit) = rows
    BY <1>6, <2>1, PageIsTop
  <2>4. QED
    BY <1>4, <1>5, <2>2, <2>3
<1>8. PICK cursor : cursor = IF more THEN Lowest(items) ELSE None
  OBVIOUS
<1>9. more => cursor \in items /\ \A r \in items : cursor <= r
  BY <1>6, <1>7, <1>8, LowestIsLeast
<1>10. reader' = [reader EXCEPT !.shown = Append(@, items), !.more = more, !.cursor = cursor,
                                !.pc = IF more THEN "fetch" ELSE "listed"]
  <2>1. PICK stored : stored = _list_task_page("admin", reader.cursor, PageLimit)
    OBVIOUS
  <2>2. stored.items = items /\ stored.more = more
    BY <1>3, <1>4, <1>5, <2>1 DEF _list_task_page
  <2>3. reader' = [reader EXCEPT !.shown = Append(@, stored.items), !.more = stored.more,
                                 !.cursor = IF stored.more THEN Lowest(stored.items) ELSE None,
                                 !.pc = IF stored.more THEN "fetch" ELSE "listed"]
    BY <2>1 DEF list_tasks_for_scope
  <2>4. QED
    BY <1>8, <2>2, <2>3
<1>11. /\ reader'.shown = Append(reader.shown, items) /\ reader'.cursor = cursor
       /\ reader'.pc = (IF more THEN "fetch" ELSE "listed")
       /\ reader'.who = reader.who /\ reader'.began = reader.began
  BY <1>10 DEF ReadInv, ReaderFits
<1>12. /\ items \in SUBSET Seqs /\ cursor \in Nat
       /\ \A s \in items : Mine(task, reader.who, s) /\ IsBelow(s, reader.cursor)
       /\ more => /\ cursor # None /\ IsBelow(cursor, reader.cursor)
                  /\ \A s \in items : cursor <= s
  <2>1. \A s \in items : /\ s \in Seqs /\ s \in Nat /\ s # None
                          /\ Mine(task, reader.who, s) /\ IsBelow(s, reader.cursor)
    BY <1>1, <1>6, <1>7 DEF None, Seqs
  <2>2. cursor \in Nat
    BY <1>8, <1>9, <2>1 DEF None
  <2>3. QED
    BY <1>9, <2>1, <2>2
<1>13. \A s \in reader.began : \/ Dealt(task, reader, s) \/ s \in items
                               \/ reader.who # "admin" /\ Grouped(task, s)
                               \/ more /\ s < cursor
  <2>1. SUFFICES ASSUME NEW s \in reader.began, ~Dealt(task, reader, s), s \notin items
                 PROVE  more /\ s < cursor
    OBVIOUS
  <2>2. s \in rows
    BY <1>1, <1>2, <1>6, <2>1 DEF PagesFit
  <2>3. QED
    BY <1>7, <1>9, <2>1, <2>2
<1>14. WalkFits(task, reader')
  BY <1>2, <1>11, <1>12, <1>13, PageShown
<1>15. QED
  BY <1>1, <1>14 DEF WalkInv

LEMMA ActorFetch ==
    ASSUME ReadInv, WalkInv, list_tasks_for_actor PROVE WalkInv'
<1>1. reader.pc = "fetch" /\ reader.who # "admin" /\ task' = task
  BY DEF list_tasks_for_actor
<1>2. /\ PagesFit(task, reader) /\ CursorFits(reader) /\ reader.cursor \in Nat
      /\ \A s \in reader.began : Dealt(task, reader, s) \/ IsBelow(s, reader.cursor)
  BY <1>1 DEF WalkInv, WalkFits, PagesFit
<1>3. PICK rows : rows = _task_page_statement(reader.who, reader.cursor)
  OBVIOUS
<1>4. PICK page : page = Newest(rows, FETCH_LIMIT)
  OBVIOUS
<1>5. PICK more : more = (Cardinality(rows) > FETCH_LIMIT)
  OBVIOUS
<1>6. /\ IsFiniteSet(rows) /\ rows \subseteq Seqs /\ rows \subseteq Nat
      /\ \A s \in Seqs : s \in rows <=> Mine(task, reader.who, s) /\ IsBelow(s, reader.cursor)
  BY <1>2, <1>3, PageRows
<1>7. /\ page \subseteq rows
      /\ \A s \in rows \ page, l \in page : s < l
      /\ more => page # {}
      /\ ~more => page = rows
      /\ more \in BOOLEAN
  <2>1. Cardinality(rows) \in Nat /\ FETCH_LIMIT \in Nat \ {0}
    BY <1>6, FS_CardinalityType, TaskAccessAssumption
  <2>2. more \in BOOLEAN
    BY <1>5, <2>1
  <2>3. /\ Newest(rows, FETCH_LIMIT) \subseteq rows /\ IsFiniteSet(Newest(rows, FETCH_LIMIT))
        /\ \A s \in rows \ Newest(rows, FETCH_LIMIT), l \in Newest(rows, FETCH_LIMIT) : s < l
        /\ Cardinality(rows) > FETCH_LIMIT => Newest(rows, FETCH_LIMIT) # {}
        /\ ~(Cardinality(rows) > FETCH_LIMIT) => Newest(rows, FETCH_LIMIT) = rows
    BY <1>6, <2>1, PageIsTop
  <2>4. QED
    BY <1>4, <1>5, <2>2, <2>3
<1>8. reader' = [reader EXCEPT !.page = page, !.more = more, !.pc = "filter"]
  <2>1. PICK stored : stored = _list_task_page(reader.who, reader.cursor, FETCH_LIMIT)
    OBVIOUS
  <2>2. stored.items = page /\ stored.more = more
    BY <1>3, <1>4, <1>5, <2>1 DEF _list_task_page
  <2>3. QED
    BY <2>1, <2>2 DEF list_tasks_for_actor
<1>9. /\ reader'.shown = reader.shown /\ reader'.cursor = reader.cursor /\ reader'.page = page
      /\ reader'.pc = "filter" /\ reader'.who = reader.who /\ reader'.began = reader.began
      /\ reader'.more = more
  BY <1>8 DEF ReadInv, ReaderFits
<1>10. PagesFit(task, reader') /\ CursorFits(reader')
  BY <1>2, <1>9 DEF PagesFit, CursorFits
<1>11. \A s \in reader.began : \/ Dealt(task, reader', s) \/ s \in page
                               \/ more /\ \A r \in page : s < r
  <2>1. SUFFICES ASSUME NEW s \in reader.began, ~Dealt(task, reader, s), s \notin page
                 PROVE  more /\ \A r \in page : s < r
    BY <1>9 DEF Dealt
  <2>2. s \in rows
    BY <1>2, <1>6, <2>1 DEF PagesFit
  <2>3. QED
    BY <1>7, <2>1, <2>2
<1>12. \A s \in page : s \in Seqs /\ Mine(task, reader.who, s) /\ IsBelow(s, reader.cursor)
  BY <1>6, <1>7
<1>13. WalkFits(task, reader')
  BY <1>1, <1>7, <1>9, <1>10, <1>11, <1>12 DEF WalkFits
<1>14. QED
  BY <1>1, <1>13 DEF WalkInv

LEMMA ActorPage ==
    ASSUME ReadInv, WalkInv, list_tasks PROVE WalkInv'
<1>1. reader.pc = "filter" /\ task' = task
  BY DEF list_tasks
<1>2. /\ PagesFit(task, reader) /\ CursorFits(reader) /\ reader.cursor \in Nat
      /\ reader.who # "admin" /\ reader.more \in BOOLEAN
      /\ reader.page \subseteq Seqs /\ (reader.more => reader.page # {})
      /\ \A s \in reader.page : Mine(task, reader.who, s) /\ IsBelow(s, reader.cursor)
      /\ \A s \in reader.began : \/ Dealt(task, reader, s) \/ s \in reader.page
                                 \/ reader.more /\ \A r \in reader.page : s < r
  BY <1>1 DEF WalkInv, WalkFits, PagesFit
<1>3. PICK page : page = reader.page
  OBVIOUS
<1>4. PICK grouped : grouped = list_group_bound_task_ids(page)
  OBVIOUS
<1>5. PICK looked : looked = Top(page, page \ grouped, PageLimit)
  OBVIOUS
<1>6. IsFiniteSet(page) /\ page \subseteq Nat
  <2>1. IsFiniteSet(Seqs)
    BY TaskAccessAssumption, FS_Interval DEF Seqs
  <2>2. page \in SUBSET Seqs /\ Seqs \subseteq Nat
    BY <1>2, <1>3 DEF Seqs
  <2>3. QED
    BY <2>1, <2>2, FS_Subset
<1>7. /\ looked \subseteq page /\ IsFiniteSet(looked)
      /\ \A s \in page \ looked, l \in looked : s < l
      /\ page # {} => looked # {}
  <2>1. page \ grouped \in SUBSET page /\ PageLimit \in Nat \ {0}
    BY TaskAccessAssumption
  <2>2. QED
    BY <1>5, <1>6, <2>1, TopOf
<1>8. PICK more \in BOOLEAN : more = (reader.more \/ looked # page)
  OBVIOUS
<1>9. more => looked # {}
  BY <1>2, <1>3, <1>7, <1>8
<1>10. PICK cursor : cursor = IF more THEN Lowest(looked) ELSE None
  OBVIOUS
<1>11. more => cursor \in looked /\ \A r \in looked : cursor <= r
  BY <1>6, <1>7, <1>9, <1>10, LowestIsLeast
<1>12. reader' = [reader EXCEPT !.shown = Append(@, looked \ grouped), !.page = {},
                                !.cursor = cursor, !.more = more,
                                !.pc = IF more THEN "fetch" ELSE "listed"]
  <2>1. PICK shown : shown = VisiblePage(page, grouped)
    OBVIOUS
  <2>2. /\ shown.items = looked \ grouped /\ shown.more = more
        /\ shown.cursor = IF looked = {} THEN None ELSE Lowest(looked)
    BY <1>3, <1>5, <1>8, <2>1 DEF VisiblePage, Top
  <2>3. cursor = IF shown.more THEN shown.cursor ELSE None
    BY <1>9, <1>10, <2>2
  <2>4. reader' = [reader EXCEPT !.shown = Append(@, shown.items), !.page = {},
                                 !.cursor = IF shown.more THEN shown.cursor ELSE None,
                                 !.more = shown.more,
                                 !.pc = IF shown.more THEN "fetch" ELSE "listed"]
    BY <1>3, <1>4, <2>1 DEF list_tasks
  <2>5. QED
    BY <2>2, <2>3, <2>4
<1>13. /\ reader'.shown = Append(reader.shown, looked \ grouped) /\ reader'.cursor = cursor
       /\ reader'.pc = (IF more THEN "fetch" ELSE "listed")
       /\ reader'.who = reader.who /\ reader'.began = reader.began
  BY <1>12 DEF ReadInv, ReaderFits
<1>14. /\ looked \ grouped \in SUBSET Seqs /\ cursor \in Nat
       /\ \A s \in looked \ grouped : Mine(task, reader.who, s) /\ IsBelow(s, reader.cursor)
       /\ more => /\ cursor # None /\ IsBelow(cursor, reader.cursor)
                  /\ \A s \in looked \ grouped : cursor <= s
  BY <1>2, <1>3, <1>7, <1>10, <1>11 DEF None, Seqs
<1>15. \A s \in reader.began : \/ Dealt(task, reader, s) \/ s \in looked \ grouped
                               \/ reader.who # "admin" /\ Grouped(task, s)
                               \/ more /\ s < cursor
  <2>1. SUFFICES ASSUME NEW s \in reader.began, ~Dealt(task, reader, s), s \notin looked \ grouped,
                        ~Grouped(task, s)
                 PROVE  more /\ s < cursor
    BY <1>2
  <2>2. s \notin grouped
    BY <1>4, <2>1 DEF list_group_bound_task_ids, Grouped
  <2>3. s \notin looked
    BY <2>1, <2>2
  <2>4. CASE s \in page
    BY <1>7, <1>8, <1>11, <2>3, <2>4
  <2>5. CASE s \notin page
    <3>1. reader.more /\ \A r \in page : s < r
      BY <1>2, <1>3, <2>1, <2>5
    <3>2. QED
      BY <1>7, <1>8, <1>11, <3>1
  <2>6. QED
    BY <2>4, <2>5
<1>16. WalkFits(task, reader')
  BY <1>2, <1>13, <1>14, <1>15, PageShown
<1>17. QED
  BY <1>1, <1>16 DEF WalkInv

LEMMA WalkOfOthers ==
    ASSUME ReadInv, WalkInv,
           \/ \E s \in Seqs : \E row : WriteTask(s, row) /\ RowMoves(task[s], row)
           \/ MembershipChanges
    PROVE  WalkInv'
<1>1. /\ reader'.pc = reader.pc /\ reader'.who = reader.who /\ reader'.shown = reader.shown
      /\ reader'.cursor = reader.cursor /\ reader'.page = reader.page
      /\ reader'.more = reader.more /\ reader'.began = reader.began
  BY DEF WriteTask, MembershipChanges, ReadInv, ReaderFits
<1>2. \A s \in Seqs : Mine(task, reader.who, s) =>
          Mine(task', reader.who, s) /\ (Grouped(task, s) => Grouped(task', s))
  BY DEF WriteTask, MembershipChanges, ReadInv, RowMoves, Mine, Grouped
<1>3. WalkFits(task', reader')
  BY <1>1, <1>2, WalkUnderRows DEF WalkInv
<1>4. QED
  BY <1>3 DEF WalkInv

LEMMA NextWalkInv == ReadInv /\ WalkInv /\ [ReadNext]_readVars => WalkInv'
<1>1. SUFFICES ASSUME ReadInv, WalkInv, [ReadNext]_readVars PROVE WalkInv'
  OBVIOUS
<1>0. DOMAIN reader = DOMAIN Reader
  BY <1>1, FreshReader DEF ReadInv, ReaderFits
<1>2. ASSUME reader'.pc \notin {"fetch", "filter", "listed"} PROVE WalkInv'
  BY <1>2 DEF WalkInv, WalkFits
<1>3. CASE UNCHANGED readVars
  BY <1>1, <1>3 DEF WalkInv, readVars
<1>4. CASE OthersMove \/ MembershipChanges
  BY <1>1, <1>4, OthersWrite, WalkOfOthers
<1>5. CASE \/ \E who \in Who : StartList(who)
           \/ list_tasks_for_scope \/ list_tasks_for_actor \/ list_tasks
  BY <1>1, <1>5, StartWalk, ScopePage, ActorFetch, ActorPage
<1>6. Denied.pc = "idle"
  BY DEF Denied, Reader
<1>7. CASE \/ \E who \in Who, s \in Seqs : StartDetail(who, s)
           \/ \E s \in Seqs : StartParent(s)
           \/ Finish
  <2>1. reader'.pc \in {"authorize", "parent", "idle"}
    BY <1>7 DEF StartDetail, StartParent, Finish, Reader
  <2>2. QED
    BY <1>2, <2>1
<1>8. CASE \/ _authorized_record \/ \E answers \in BOOLEAN : is_current_group_member(answers)
           \/ ParentRecord \/ require_web_parent_access
  <2>1. \/ reader' = Denied
        \/ \E record, pc : /\ pc \in {"project", "membership", "binding", "parent_ok"}
                           /\ \/ reader' = [reader EXCEPT !.record = record, !.pc = pc]
                              \/ reader' = [reader EXCEPT !.pc = pc]
    BY <1>8 DEF _authorized_record, is_current_group_member, ParentRecord,
                require_web_parent_access
  <2>2. reader'.pc \in {"idle", "project", "membership", "binding", "parent_ok"}
    BY <1>0, <1>6, <2>1, FreshReader
  <2>3. QED
    BY <1>2, <2>2
<1>9. CASE project_task \/ get_task
  <2>1. \/ \E plan : reader' = [reader EXCEPT !.plan = plan, !.pc = "compare"]
        \/ reader' = [reader EXCEPT !.pc = "shown"]
        \/ \E answer : reader' = [Reader EXCEPT !.calls = reader.calls, !.answer = answer]
        \/ reader' = [Denied EXCEPT !.answer = "plan_not_found"]
        \/ \E record : reader' = [reader EXCEPT !.record = record, !.tries = @ + 1,
                                                !.pc = "project"]
    BY <1>9 DEF project_task, get_task
  <2>2. reader'.pc \in {"compare", "shown", "idle", "project"}
    BY <1>0, <2>1, FreshReader DEF Denied
  <2>3. QED
    BY <1>2, <2>2
<1>10. QED
  BY <1>1, <1>3, <1>4, <1>5, <1>7, <1>8, <1>9 DEF ReadNext, OthersMove

\* However tasks are created out of order, bound to groups and finished while somebody pages
\* through them (list_tasks), a walk that ends has shown every task that was there when it
\* began, newest first, once, to its owner; an ordinary user misses only a group's.
THEOREM WalksAreComplete == ReadSpec => []PagesAreComplete
<1>1. ReadInit => ReadInv /\ WalkInv
  <2>1. ASSUME ReadInit PROVE WalkInv
    <3>1. reader.pc = "idle"
      BY <2>1, FreshReader DEF ReadInit
    <3>2. QED
      BY <3>1 DEF WalkInv, WalkFits
  <2>2. QED
    BY <2>1, InitReadInv
<1>2. ReadInv /\ WalkInv /\ [ReadNext]_readVars => (ReadInv /\ WalkInv)'
  BY NextReadInv, NextWalkInv
<1>3. ReadInv /\ WalkInv => PagesAreComplete
  <2>1. SUFFICES ASSUME WalkInv, reader.pc = "listed" PROVE PagesAreComplete
    BY DEF PagesAreComplete
  <2>2. PagesFit(task, reader) /\ \A s \in reader.began : Dealt(task, reader, s)
    BY <2>1 DEF WalkInv, WalkFits
  <2>3. QED
    BY <2>2 DEF PagesAreComplete, PagesFit, Dealt, Mine, Grouped, Owned
<1>4. QED
  BY <1>1, <1>2, <1>3, PTL DEF ReadSpec

\* However workers move a task and the group changes while it is read, a detail shows what
\* the task was at one moment of the call, to somebody who may see it, and a parent that
\* passes the check is still open for an answer.
THEOREM DetailsAreOneMoment == ReadSpec => []DetailIsOneMoment
<1>1. ReadInit => ReadInv
  BY InitReadInv
<1>2. ReadInv /\ [ReadNext]_readVars => ReadInv'
  BY NextReadInv
<1>3. ReadInv => DetailIsOneMoment
  BY DEF ReadInv, ReaderFits, DetailIsOneMoment, Owned, Detail
<1>4. QED
  BY <1>1, <1>2, <1>3, PTL DEF ReadSpec
=============================================================================
