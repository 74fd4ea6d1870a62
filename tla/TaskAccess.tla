----------------------------- MODULE TaskAccess -----------------------------
(***************************************************************************)
(* Reading tasks from the web workbench and from Feishu                    *)
(* (application/channel_access.py) while submitters create and bind tasks  *)
(* and workers move them.                                                  *)
(*                                                                         *)
(* Every read of a store is a step of its own.  A task takes its creation  *)
(* number before its transaction commits, so numbers may become visible    *)
(* out of order; its channel binding is written by a later transaction.    *)
(* One reader makes one call after another: a walk through the pages of    *)
(* the task list, a task's detail, or the check of a parent task.          *)
(***************************************************************************)
EXTENDS Naturals, Sequences, FiniteSets, SequencesExt, TaskStates

CONSTANTS
    MaxTasks,    \* creation numbers handed out
    MaxChanges,  \* version changes, over all tasks
    MaxCalls,    \* calls the reader makes
    FETCH_LIMIT, \* rows list_tasks reads from the store for an ordinary user
    PageLimit    \* the limit of a page

ASSUME TaskAccessAssumption ==
    /\ {MaxTasks, MaxChanges, MaxCalls} \subseteq Nat
    /\ {FETCH_LIMIT, PageLimit} \subseteq Nat \ {0}

VARIABLES task, member, reader
readVars == <<task, member, reader>>

Seqs == 1 .. MaxTasks
Who == {"alice", "admin"}
Channels == {"WEB", "FEISHU_GROUP"}
NoTask == [at |-> "free", actor |-> "none", channel |-> "none", bound |-> FALSE,
           version |-> 0, status |-> "none", plan |-> FALSE]
None == 0

\* record, plan: what the call has read; page, more: the rows a walk has fetched;
\* shown: the pages it has returned; began: what was visible when it began;
\* moments: what the task looked like since the call began.
Reader == [pc |-> "idle", who |-> "none", t |-> None, record |-> NoTask, plan |-> FALSE,
           tries |-> 0, cursor |-> None, page |-> {}, more |-> FALSE, shown |-> <<>>,
           began |-> {}, wasMember |-> FALSE, moments |-> {}, answer |-> "none", calls |-> 0]

ReadInit ==
    /\ task = [s \in Seqs |-> NoTask]
    /\ member \in BOOLEAN
    /\ reader = Reader

Visible(s) == task[s].at = "committed"
Look(s, row) == [version |-> row.version, status |-> row.status, plan |-> row.plan]

-----------------------------------------------------------------------------
\* The others: submitters, workers and the group.

\* A change of a row is one more moment of the task the reader looks at.
WriteTask(s, row) ==
    /\ task' = [task EXCEPT ![s] = row]
    /\ reader' = IF reader.t = s THEN [reader EXCEPT !.moments = @ \cup {Look(s, row)}] ELSE reader
    /\ UNCHANGED member

\* The sequence hands out the next number; the row is not yet visible.
nextval(s, actor, channel) ==
    /\ task[s].at = "free" /\ \A r \in 1 .. s - 1 : task[r].at # "free"
    /\ WriteTask(s, [NoTask EXCEPT !.at = "open", !.actor = actor, !.channel = channel,
                               !.status = "CREATED"])
CommitTask(s) == task[s].at = "open" /\ WriteTask(s, [task[s] EXCEPT !.at = "committed"])
Bind(s) == Visible(s) /\ ~task[s].bound /\ WriteTask(s, [task[s] EXCEPT !.bound = TRUE])

Changes == FoldSet(LAMBDA s, n : n + task[s].version, 0, Seqs)
\* A transition; a retry is a new version of the same status.
Advance(s, status) ==
    /\ Visible(s) /\ Changes < MaxChanges
    /\ \/ status \in AllowedTransitions(task[s].status)
       \/ status = task[s].status /\ status \in DispatchStatuses
    /\ WriteTask(s, [task[s] EXCEPT !.version = @ + 1, !.status = status])
\* PlanStore.save takes no grant: a late worker stores the plan of a task that has ended.
PlanSaved(s) ==
    /\ Visible(s) /\ ~task[s].plan
    /\ WriteTask(s, [task[s] EXCEPT !.plan = TRUE])

MembershipChanges ==
    /\ member' = ~member
    /\ reader' = [reader EXCEPT !.wasMember = @ \/ member']
    /\ UNCHANGED task

-----------------------------------------------------------------------------
\* Pages of the store.

Owned(who, s) == who = "admin" \/ task[s].actor = who

_task_page_statement(who, before) ==
    {s \in Seqs : Visible(s) /\ Owned(who, s) /\ (before = None \/ s < before)}

\* ORDER BY created_seq DESC LIMIT: a page is the set of the newest rows, since the
\* set gives the order; one row more than asked for tells whether there are others.
Newest(rows, limit) == {s \in rows : Cardinality({r \in rows : r > s}) < limit}
Lowest(rows) == CHOOSE s \in rows : \A r \in rows : s <= r

_list_task_page(who, before, limit) ==
    LET rows == _task_page_statement(who, before)
    IN [items |-> Newest(rows, limit), more |-> Cardinality(rows) > limit]

-----------------------------------------------------------------------------
\* list_tasks.

StartList(who) ==
    /\ reader.pc = "idle" /\ reader.calls < MaxCalls
    /\ reader' = [Reader EXCEPT !.pc = "fetch", !.who = who, !.calls = reader.calls + 1,
                                !.began = {s \in Seqs : Visible(s) /\ Owned(who, s)}]
    /\ UNCHANGED <<task, member>>

\* The page of an administrator is the store's.
list_tasks_for_scope ==
    /\ reader.pc = "fetch" /\ reader.who = "admin"
    /\ \E stored \in {_list_task_page("admin", reader.cursor, PageLimit)} :
         reader' = [reader EXCEPT !.shown = Append(@, stored.items), !.more = stored.more,
                                  !.cursor = IF stored.more THEN Lowest(stored.items) ELSE None,
                                  !.pc = IF stored.more THEN "fetch" ELSE "listed"]
    /\ UNCHANGED <<task, member>>

list_tasks_for_actor ==
    /\ reader.pc = "fetch" /\ reader.who # "admin"
    /\ \E stored \in {_list_task_page(reader.who, reader.cursor, FETCH_LIMIT)} :
         reader' = [reader EXCEPT !.page = stored.items, !.more = stored.more, !.pc = "filter"]
    /\ UNCHANGED <<task, member>>

list_group_bound_task_ids(items) ==
    {s \in items : task[s].bound /\ task[s].channel = "FEISHU_GROUP"}

\* Fault: the cursor is the last row fetched, not the last one looked at.
VisiblePage_LastFetched(items, grouped) ==
    [items |-> Newest(items \ grouped, PageLimit), cursor |-> IF items = {} THEN None ELSE Lowest(items),
     more |-> reader.more \/ Cardinality(items \ grouped) > PageLimit]

\* The loop looks at a row while fewer than the limit are kept, and keeps it if it is
\* not a group's; the cursor is the last row looked at, and there is more when the
\* loop stopped before the end.
VisiblePage(items, grouped) ==
    LET looked == {s \in items : Cardinality({r \in items \ grouped : r > s}) < PageLimit}
    IN [items |-> looked \ grouped, cursor |-> IF looked = {} THEN None ELSE Lowest(looked),
        more |-> reader.more \/ looked # items]

list_tasks ==
    /\ reader.pc = "filter"
    /\ \E page \in {VisiblePage(reader.page, list_group_bound_task_ids(reader.page))} :
         reader' = [reader EXCEPT !.shown = Append(@, page.items), !.page = {},
                                  !.cursor = IF page.more THEN page.cursor ELSE None,
                                  !.more = page.more,
                                  !.pc = IF page.more THEN "fetch" ELSE "listed"]
    /\ UNCHANGED <<task, member>>

-----------------------------------------------------------------------------
\* get_task.

Denied == [Reader EXCEPT !.calls = reader.calls, !.answer = "not_found"]

StartDetail(who, s) ==
    /\ reader.pc = "idle" /\ reader.calls < MaxCalls
    /\ reader' = [Reader EXCEPT !.pc = "authorize", !.who = who, !.t = s,
                                !.wasMember = member, !.calls = reader.calls + 1,
                                !.moments = {Look(s, task[s])}]
    /\ UNCHANGED <<task, member>>

\* _authorized_record: the owner and the administrator, or a member of the
\* group the task is bound to; the membership service may fail.
_authorized_record ==
    /\ reader.pc = "authorize"
    /\ reader' = IF ~Visible(reader.t) THEN Denied
                 ELSE IF Owned(reader.who, reader.t)
                 THEN [reader EXCEPT !.record = task[reader.t], !.pc = "project"]
                 ELSE IF task[reader.t].bound /\ task[reader.t].channel = "FEISHU_GROUP"
                 THEN [reader EXCEPT !.record = task[reader.t], !.pc = "membership"]
                 ELSE Denied
    /\ UNCHANGED <<task, member>>

is_current_group_member(answers) ==
    /\ reader.pc = "membership"
    /\ reader' = IF answers /\ member THEN [reader EXCEPT !.pc = "project"] ELSE Denied
    /\ UNCHANGED <<task, member>>

\* project_task: the status comes from the record, the disclosure from the plan
\* that is stored now.  Some ends cannot be shown without a plan, and then it raises.
project_task ==
    /\ reader.pc = "project"
    /\ \/ reader' = [reader EXCEPT !.plan = task[reader.t].plan, !.pc = "compare"]
       \/ /\ reader.record.status \in TerminalStatuses \ {"CLARIFICATION_REQUIRED"}
          /\ ~task[reader.t].plan
          /\ reader' = [Denied EXCEPT !.answer = "plan_not_found"]
    /\ UNCHANGED <<task, member>>

Attempts == 3

\* Fault: the detail is taken whatever the second read says.
get_task_NoCompare ==
    /\ reader.pc = "compare"
    /\ reader' = [reader EXCEPT !.pc = "shown", !.record = task[reader.t]]
    /\ UNCHANGED <<task, member>>

\* The record is read again; an unchanged version makes the view a snapshot.
get_task ==
    /\ reader.pc = "compare"
    /\ \E after \in {task[reader.t]} :
         reader' = IF after.version = reader.record.version
                   THEN [reader EXCEPT !.pc = "shown"]
                   ELSE IF reader.tries + 1 = Attempts
                   THEN [Reader EXCEPT !.calls = reader.calls, !.answer = "unavailable"]
                   ELSE [reader EXCEPT !.record = after, !.tries = @ + 1, !.pc = "project"]
    /\ UNCHANGED <<task, member>>

-----------------------------------------------------------------------------
\* require_web_parent_access: record and binding are read one after the other.

StartParent(s) ==
    /\ reader.pc = "idle" /\ reader.calls < MaxCalls
    /\ reader' = [Reader EXCEPT !.pc = "parent", !.who = "alice", !.t = s, !.calls = reader.calls + 1]
    /\ UNCHANGED <<task, member>>
ParentRecord ==
    /\ reader.pc = "parent"
    /\ reader' = IF Visible(reader.t) THEN [reader EXCEPT !.record = task[reader.t], !.pc = "binding"]
                 ELSE Denied
    /\ UNCHANGED <<task, member>>
require_web_parent_access ==
    /\ reader.pc = "binding"
    /\ reader' = IF /\ task[reader.t].bound /\ task[reader.t].channel = "WEB"
                    /\ reader.record.status = "CLARIFICATION_REQUIRED"
                    /\ reader.record.actor = "alice"
                 THEN [reader EXCEPT !.pc = "parent_ok"] ELSE Denied
    /\ UNCHANGED <<task, member>>

\* The answer is sent.
Finish ==
    /\ reader.pc \in {"listed", "shown", "parent_ok"}
    /\ reader' = [Reader EXCEPT !.calls = reader.calls]
    /\ UNCHANGED <<task, member>>

ReadNext ==
    \/ \E s \in Seqs, actor \in {"alice", "bob"}, channel \in Channels : nextval(s, actor, channel)
    \/ \E s \in Seqs : CommitTask(s) \/ Bind(s) \/ PlanSaved(s)
    \/ \E s \in Seqs, status \in Statuses : Advance(s, status)
    \/ MembershipChanges
    \/ \E who \in Who : StartList(who) \/ \E s \in Seqs : StartDetail(who, s)
    \/ \E s \in Seqs : StartParent(s)
    \/ list_tasks_for_scope \/ list_tasks_for_actor \/ list_tasks
    \/ _authorized_record \/ project_task \/ get_task
    \/ \E answers \in BOOLEAN : is_current_group_member(answers)
    \/ ParentRecord \/ require_web_parent_access \/ Finish

ReadSpec == ReadInit /\ [][ReadNext]_readVars

-----------------------------------------------------------------------------
\* Properties.

\* A walk through the pages (list_tasks, list_tasks_for_scope) shows every task that
\* was visible when it began, newest first and none twice, however tasks are created
\* and bound meanwhile; an ordinary user misses only tasks bound to a group, and sees
\* only tasks of their own.
PagesAreComplete ==
    reader.pc = "listed" =>
        /\ \A i, j \in DOMAIN reader.shown :
             i < j => \A s \in reader.shown[i], r \in reader.shown[j] : s > r
        /\ \A i \in DOMAIN reader.shown : \A s \in reader.shown[i] : Owned(reader.who, s)
        /\ \A s \in reader.began :
             \/ \E i \in DOMAIN reader.shown : s \in reader.shown[i]
             \/ reader.who # "admin" /\ task[s].bound /\ task[s].channel = "FEISHU_GROUP"

\* A detail (get_task) shows a status, a version and a disclosure the task had at one
\* moment of the call, and only to its owner, an administrator or one who was a
\* member of its group during the call; a parent that passes the check
\* (require_web_parent_access) is still open for an answer when it passes.
DetailIsOneMoment ==
    /\ reader.pc = "shown" =>
         /\ [version |-> reader.record.version, status |-> reader.record.status,
             plan |-> reader.plan] \in reader.moments
         /\ Owned(reader.who, reader.t) \/ (task[reader.t].channel = "FEISHU_GROUP" /\ reader.wasMember)
    /\ reader.pc = "parent_ok" =>
         task[reader.t].status = "CLARIFICATION_REQUIRED" /\ task[reader.t].actor = "alice"
=============================================================================
