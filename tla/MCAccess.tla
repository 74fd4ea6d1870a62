----------------------------- MODULE MCAccess -----------------------------
(* Who is let in and what they read.  A small deployment: two subjects, an *)
(* administrator who signs in with Feishu, a credential from before the    *)
(* directory, a static identity file; and the readers of three tasks.      *)
(* focus says what moves: sessions and accounts, a walk through the task   *)
(* list, or the detail of one task.                                        *)
EXTENDS InMemoryDirectory, TaskAccess

VARIABLE focus

CONSTANTS o1, o2, c1, c2, t1, r1, r2, s1, s2

MCSymmetry == Permutations({o1, o2}) \cup Permutations({c1, c2})
                  \cup Permutations({r1, r2})

Alice == legacy_user_id("alice")
Account(actor) == [actor |-> actor, display |-> actor, status |-> "active"]

\* An installation whose local credential, its password changed since, is older than the
\* directory: the directory holds one Feishu administrator and no local one.
Upgraded ==
    [account |-> (Alice :> Account("alice")), role |-> (Alice :> "ADMIN"), bound |-> (s1 :> Alice),
     credential |-> [seeded |-> TRUE, linked |-> FALSE, version |-> 2, must_change |-> FALSE]]
\* An installation whose local administrator has yet to change the first password.
Fresh ==
    [account |-> (LOCAL_ADMIN_USER_ID :> Account(LOCAL_ADMIN_ACTOR)) @@ (Alice :> Account("alice")),
     role |-> (LOCAL_ADMIN_USER_ID :> "ADMIN") @@ (Alice :> "ADMIN"),
     bound |-> (s1 :> Alice),
     credential |-> [seeded |-> TRUE, linked |-> TRUE, version |-> 1, must_change |-> TRUE]]
MCDirectories == {Upgraded, Fresh}

MCIntents == {"workbench", "activation_status"}
MCLegacy == <<LegacyIdentityEntry("alice", s1, {"admin", "dba"}),
              LegacyIdentityEntry("carol", s2, {"viewer", "approver"}),
              LegacyIdentityEntry("erin", "s3", {"dba"})>>
MCCommands ==
    {[kind |-> "approve", actor |-> "bob", display |-> "bob", role |-> "OPERATOR"],
     [kind |-> "approve", actor |-> "alice", display |-> "alice", role |-> "USER"],
     [kind |-> "reject"],
     [kind |-> "set_status", user |-> Alice, expected_status |-> "active",
      expected_role |-> "OPERATOR", status |-> "disabled"],
     [kind |-> "change_role", user |-> Alice, expected_role |-> "OPERATOR", role |-> "USER"]}
MCUpkeep ==
    {[kind |-> "assign_role", user |-> Alice, role |-> "OPERATOR"],
     [kind |-> "assign_role", user |-> activation_user_id(s2), role |-> "ADMIN"],
     [kind |-> "unbind", user |-> Alice],
     [kind |-> "unbind", user |-> activation_user_id(s2)],
     [kind |-> "bind", user |-> LOCAL_ADMIN_USER_ID, subject |-> s1],
     [kind |-> "create_user", user |-> <<"new", "bob">>, actor |-> "bob", display |-> "bob",
      role |-> "USER"],
     [kind |-> "revoke_role", user |-> LOCAL_ADMIN_USER_ID],
     [kind |-> "set_status", user |-> Alice, status |-> "disabled"]}

DirectoryRests == dir = Fresh
AllInit ==
    /\ \/ focus = "sessions" /\ member = TRUE
       \/ focus \in {"list", "detail"} /\ DirectoryRests
    /\ Init /\ ReadInit
\* A status that is retried, an end that needs a plan and one that waits for an answer.
MCStatuses == {"none", "CREATED", "FAILED", "CLARIFICATION_REQUIRED"}
\* When the last call has been answered nobody looks at what the others do.
Reads == reader.calls < MaxCalls \/ reader.pc # "idle"
\* A walk through the list meets new tasks; a detail meets changes of one.
AllNext ==
    \/ focus = "sessions" /\ Next /\ UNCHANGED <<focus, readVars>>
    \/ focus = "list" /\ Reads /\ ReadNext /\ UNCHANGED <<focus, vars, member>>
         /\ reader'.t = None /\ \A s \in Seqs : task'[s].version = 0 /\ ~task'[s].plan
    \/ focus = "detail" /\ Reads /\ ReadNext /\ UNCHANGED <<focus, vars>>
         /\ reader'.pc # "fetch" /\ task'[2].at = "free" /\ task'[1].status \in MCStatuses
AccessSpec == AllInit /\ [][AllNext]_<<focus, vars, readVars>>
=============================================================================
