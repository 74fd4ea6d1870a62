------------------------------ MODULE Rollout -------------------------------
(* The one-off commands of a release roll-out, run by an operator:           *)
(*   integration_config_migrate  splits the legacy integrations.json into     *)
(*                               the ai and feishu domain files;              *)
(*   config_preflight            proves the three domain directories usable;  *)
(*   release_preflight           scans the release scope for tasks that a     *)
(*                               release must not inherit.                    *)
(* Each is a short-lived process that may be killed between any two file or   *)
(* database operations and run again.  A document is a model value; its two   *)
(* halves, with the generation they share, are Half(domain, document).        *)
(* The file writer itself (temporary file and replace) is ConfigDocuments'.   *)
EXTENDS Integers, FiniteSets, Sequences

CONSTANTS
    Contents,      \* what the legacy file may hold
    MaxCrashes,     \* commands that are killed half way
    MaxEdits,       \* saves, replacements and task changes by others
    MaxTasks,       \* tasks the scope may come to hold
    PAGE_LIMIT      \* release_preflight._PAGE_LIMIT

ASSUME RolloutAssumption ==
    /\ MaxCrashes \in Nat /\ MaxEdits \in Nat /\ PAGE_LIMIT \in Nat \ {0}
    /\ MaxTasks \in Nat \ {0, 1}        \* a scope may start with two

VARIABLES
    legacy,     \* integrations.json: [inode, doc] or NoLegacy
    files,      \* [Domains -> NoFile, Corrupt, a half document or Saved]
    writable,   \* the domain directories exist and can be written
    mig,        \* the migration process
    pre,        \* the release preflight process
    tasks,      \* [1..n -> task], by created_seq, of the release scope
    db,         \* "ok", "behind" (schema not at head) or "down"
    budget,     \* crashes and edits left
    foreign     \* ghost: somebody else wrote a configuration file

rvars == <<legacy, files, writable, mig, pre, tasks, db, budget, foreign>>

Domains == {"ai", "feishu"}
Half(domain, doc) == <<domain, doc>>
NoFile == <<"absent">>
CorruptFile == <<"corrupt">>
Saved == <<"saved">>
FileValues == {NoFile, CorruptFile, Saved} \cup {Half(d, doc) : d \in Domains, doc \in Contents}
Present(f) == f # NoFile
CorruptDoc == "corrupt"
NoDocument == "none"
NoLegacy == [inode |-> 0, doc |-> NoDocument]
LegacyExists == legacy # NoLegacy
Legacies == {NoLegacy} \cup [inode: 1..(MaxEdits + 1), doc: Contents \cup {CorruptDoc}]

MigrationResults == {"nothing_to_migrate", "already_migrated", "migrated",
                     "migration_required", "unavailable"}
PreflightResults == {"ok", "tasks_not_drained", "historical_execution_data_present",
                     "database_unavailable", "schema_not_at_head", "preflight_failed",
                     "config_directory_missing", "config_directory_not_writable",
                     "config_migration_required", "config_existing_config_disturbed"}
NotRun == "not_run"

IdleMigration(result) == [pc |-> "idle", seen |-> NoLegacy, absent |-> {}, result |-> result]
\* `late' is a ghost: the tasks that stored a plan after this scan had read them.
IdlePreflight(result) ==
    [pc |-> "idle", cursor |-> 0, open |-> 0, data |-> 0, start |-> 0,
     before |-> [d \in Domains |-> NoFile], late |-> {}, result |-> result]

Tasks == [terminal: BOOLEAN, data: BOOLEAN]

RolloutTypeOK ==
    /\ legacy \in Legacies
    /\ files \in [Domains -> FileValues]
    /\ writable \in BOOLEAN
    /\ mig.pc \in {"idle", "read", "check", "write", "verify", "unlink"}
    /\ mig.absent \subseteq Domains /\ mig.seen \in Legacies
    /\ mig.result \in MigrationResults \cup {NotRun}
    /\ pre.pc \in {"idle", "probe", "settled", "database", "scan"}
    /\ pre.result \in PreflightResults \cup {NotRun}
    /\ Len(tasks) <= MaxTasks /\ \A i \in 1..Len(tasks) : tasks[i] \in Tasks
    /\ db \in {"ok", "behind", "down"}
    /\ budget \in [crashes: 0..MaxCrashes, edits: 0..MaxEdits]
    /\ foreign \in BOOLEAN

RolloutInit ==
    /\ legacy \in {NoLegacy} \cup [inode: {1}, doc: Contents \cup {CorruptDoc}]
    /\ files \in [Domains -> {NoFile, CorruptFile, Saved}]
    /\ writable \in BOOLEAN
    /\ mig = IdleMigration(NotRun) /\ pre = IdlePreflight(NotRun)
    /\ tasks \in {<<>>, <<[terminal |-> TRUE, data |-> FALSE],
                          [terminal |-> FALSE, data |-> FALSE]>>}
    /\ db \in {"ok", "behind", "down"}
    /\ budget = [crashes |-> MaxCrashes, edits |-> MaxEdits]
    /\ foreign = \E d \in Domains : Present(files[d])

-----------------------------------------------------------------------------
(* integration_config_migrate                                                 *)

Report(result) == mig' = IdleMigration(result)

\* _open_root and _require_domain_directories: the directories are there.
_require_domain_directories == writable
\* The device and inode of the legacy file; 0 when there is none.
_legacy_identity == legacy.inode
RolloutRest == <<pre, tasks, db, budget, foreign>>

\* _migrate up to the legacy file's identity; without a legacy file the two
\* domain files decide the result at once.
migrate_legacy_integration_config ==
    /\ mig.pc = "idle" /\ pre.pc = "idle"
    /\ \/ ~_require_domain_directories /\ Report("unavailable")
       \/ /\ _require_domain_directories /\ ~LegacyExists
          /\ Report(CASE \E d \in Domains : files[d] = CorruptFile -> "unavailable"
                      [] \E d \in Domains : ~Present(files[d]) -> "nothing_to_migrate"
                      [] OTHER -> "already_migrated")
       \/ /\ _require_domain_directories /\ LegacyExists
          /\ mig' = [mig EXCEPT !.pc = "read", !.seen = legacy, !.result = NotRun]
    /\ UNCHANGED <<legacy, files, writable, RolloutRest>>

\* The legacy file is read, and must still be the file whose identity was taken.
read_legacy_integration_config ==
    /\ mig.pc = "read"
    /\ \/ ~LegacyExists /\ Report("unavailable")
       \/ LegacyExists /\ legacy.doc = CorruptDoc /\ Report("migration_required")
       \/ /\ LegacyExists /\ legacy.doc # CorruptDoc
          /\ \/ _legacy_identity # mig.seen.inode /\ Report("unavailable")
             \/ _legacy_identity = mig.seen.inode /\ mig' = [mig EXCEPT !.pc = "check"]
    /\ UNCHANGED <<legacy, files, writable, RolloutRest>>

\* Fault: only the ai domain is looked at before the writes.
_existing_AiOnly ==
    /\ mig.pc = "check"
    /\ \/ /\ Present(files["ai"]) /\ files["ai"] # Half("ai", mig.seen.doc)
          /\ Report("migration_required")
       \/ /\ Present(files["ai"]) => files["ai"] = Half("ai", mig.seen.doc)
          /\ mig' = [mig EXCEPT !.pc = "write", !.absent = {d \in Domains : ~Present(files[d])}]
    /\ UNCHANGED <<legacy, files, writable, RolloutRest>>

\* Both domains are checked before either is written: one that exists must
\* equal its half of the legacy document.
_existing ==
    /\ mig.pc = "check"
    /\ \/ /\ \E d \in Domains : Present(files[d]) /\ files[d] # Half(d, mig.seen.doc)
          /\ Report("migration_required")
       \/ /\ \A d \in Domains : Present(files[d]) => files[d] = Half(d, mig.seen.doc)
          /\ mig' = [mig EXCEPT !.pc = "write", !.absent = {d \in Domains : ~Present(files[d])}]
    /\ UNCHANGED <<legacy, files, writable, RolloutRest>>

\* One missing domain is written, ai before feishu, and read back.
_write_and_verify ==
    /\ mig.pc = "write"
    /\ \/ mig.absent = {} /\ mig' = [mig EXCEPT !.pc = "verify"] /\ UNCHANGED files
       \/ /\ mig.absent # {} /\ ~writable
          /\ Report("unavailable") /\ UNCHANGED files
       \/ /\ writable
          /\ \E d \in mig.absent :
                /\ d = "ai" \/ "ai" \notin mig.absent
                /\ files' = [files EXCEPT ![d] = Half(d, mig.seen.doc)]
                /\ mig' = [mig EXCEPT !.absent = @ \ {d}]
    /\ UNCHANGED <<legacy, writable, RolloutRest>>

\* Both domains are read again and the legacy file must be the one read.
ConfirmMigration ==
    /\ mig.pc = "verify"
    /\ \/ /\ \E d \in Domains : files[d] # Half(d, mig.seen.doc)
          /\ Report("unavailable")
       \/ /\ \A d \in Domains : files[d] = Half(d, mig.seen.doc)
          /\ \/ _legacy_identity # mig.seen.inode /\ Report("unavailable")
             \/ _legacy_identity = mig.seen.inode /\ mig' = [mig EXCEPT !.pc = "unlink"]
    /\ UNCHANGED <<legacy, files, writable, RolloutRest>>

RemoveLegacy ==
    /\ mig.pc = "unlink"
    /\ \/ ~writable /\ Report("unavailable") /\ UNCHANGED legacy
       \/ writable /\ legacy' = NoLegacy /\ Report("migrated")
    /\ UNCHANGED <<files, writable, RolloutRest>>

-----------------------------------------------------------------------------
(* config_preflight and release_preflight                                     *)

Verdict(result) == pre' = IdlePreflight(result)
Others == <<legacy, files, writable, mig, tasks, db, budget, foreign>>

\* run_preflight up to the sentinels: directories, then no legacy file, then
\* the fingerprints of the real files.
run_preflight ==
    /\ pre.pc = "idle" /\ mig.pc = "idle"
    /\ \/ ~writable /\ Verdict("config_directory_missing")
       \/ LegacyExists /\ Verdict("config_migration_required")
       \/ /\ ~LegacyExists
          /\ pre' = [IdlePreflight(NotRun) EXCEPT !.pc = "probe", !.before = files]
    /\ UNCHANGED Others

\* _probe_one for each domain: the sentinel is written and removed again.
_probe_one ==
    /\ pre.pc = "probe"
    /\ \/ ~writable /\ Verdict("config_directory_not_writable")
       \/ writable /\ pre' = [pre EXCEPT !.pc = "settled"]
    /\ UNCHANGED Others

\* The real files must be as they were; then the engine is built.
CompareFingerprints ==
    /\ pre.pc = "settled"
    /\ \/ files # pre.before /\ Verdict("config_existing_config_disturbed")
       \/ files = pre.before /\ pre' = [pre EXCEPT !.pc = "database"]
    /\ UNCHANGED Others

\* PostgresReadinessProbe.check, then the scan starts at the newest task.
check_readiness ==
    /\ pre.pc = "database"
    /\ \/ db = "down" /\ Verdict("database_unavailable")
       \/ db = "behind" /\ Verdict("schema_not_at_head")
       \/ /\ db = "ok"
          /\ pre' = [pre EXCEPT !.pc = "scan", !.cursor = Len(tasks) + 1, !.start = Len(tasks)]
    /\ UNCHANGED Others

Page(cursor) == {i \in 1..Len(tasks) : i < cursor /\ i >= cursor - PAGE_LIMIT}
Larger(a, b) == IF a > b THEN a ELSE b

ScanVerdict(open, data) ==
    IF open > 0 THEN "tasks_not_drained"
    ELSE IF data > 0 THEN "historical_execution_data_present" ELSE "ok"

\* One page of _scan_history, newest first: tasks below the cursor are counted,
\* and the scan ends with the page that reaches the oldest task.  A task's plan is looked up
\* after its page: one step stands for both, an ended task being ended for good.
_scan_history ==
    /\ pre.pc = "scan"
    /\ \/ db = "down" /\ Verdict("database_unavailable")
       \/ /\ db # "down"
          /\ LET page == Page(pre.cursor)
                 open == pre.open + Cardinality({i \in page : ~tasks[i].terminal})
                 data == pre.data + Cardinality({i \in page : tasks[i].data})
                 next == Larger(pre.cursor - PAGE_LIMIT, 1)
             IN  IF next = 1 THEN Verdict(ScanVerdict(open, data))
                 ELSE pre' = [pre EXCEPT !.cursor = next, !.open = open, !.data = data]
    /\ UNCHANGED Others

-----------------------------------------------------------------------------
(* What others do meanwhile.                                                  *)

Crash ==
    /\ budget.crashes > 0 /\ (mig.pc # "idle" \/ pre.pc # "idle")
    /\ budget' = [budget EXCEPT !.crashes = @ - 1]
    /\ mig' = IdleMigration(mig.result) /\ pre' = IdlePreflight(NotRun)
    /\ UNCHANGED <<legacy, files, writable, tasks, db, foreign>>

Edit == budget.edits > 0 /\ budget' = [budget EXCEPT !.edits = @ - 1]

\* A Web process saves a domain.  The operator stops the consumers before
\* migrating, so not while the migration runs.
SaveDomain(d) ==
    /\ Edit /\ mig.pc = "idle" /\ writable
    /\ files' = [files EXCEPT ![d] = Saved] /\ foreign' = TRUE
    /\ UNCHANGED <<legacy, writable, mig, pre, tasks, db>>

\* The operator puts another legacy file in place; not between the last look
\* at it and its removal.
ReplaceLegacy ==
    /\ Edit /\ mig.pc # "unlink"
    /\ \E doc \in Contents : legacy' = [inode |-> MaxEdits - budget.edits + 2, doc |-> doc]
    /\ foreign' = TRUE
    /\ UNCHANGED <<files, writable, mig, pre, tasks, db>>

ChangeEnvironment ==
    /\ Edit
    /\ \/ writable' = ~writable /\ UNCHANGED db
       \/ db' \in {"ok", "behind", "down"} \ {db} /\ UNCHANGED writable
    /\ UNCHANGED <<legacy, files, mig, pre, tasks, foreign>>

\* Tasks are submitted, and executed, while the scan runs.  A plan and evidence stay.
TaskMoves ==
    /\ Edit
    /\ \/ Len(tasks) < MaxTasks /\ tasks' = Append(tasks, [terminal |-> FALSE, data |-> FALSE])
       \/ \E i \in 1..Len(tasks), t \in Tasks :
              /\ ~tasks[i].terminal /\ (tasks[i].data => t.data)
              /\ tasks' = [tasks EXCEPT ![i] = t]
    /\ UNCHANGED <<legacy, files, writable, mig, pre, db, foreign>>

\* An attempt that lost its task still stores its plan: PlanStore.save looks at neither
\* the lease nor the status, so also a task that has ended may come to have one.
LatePlan ==
    /\ Edit
    /\ \E i \in 1..Len(tasks) :
          /\ tasks[i].terminal /\ ~tasks[i].data
          /\ tasks' = [tasks EXCEPT ![i].data = TRUE]
          /\ pre' = IF pre.pc = "scan" /\ i >= pre.cursor
                    THEN [pre EXCEPT !.late = @ \cup {i}] ELSE pre
    /\ UNCHANGED <<legacy, files, writable, mig, db, foreign>>

RolloutNext ==
    \/ migrate_legacy_integration_config \/ read_legacy_integration_config
    \/ _existing \/ _write_and_verify \/ ConfirmMigration \/ RemoveLegacy
    \/ run_preflight \/ _probe_one \/ CompareFingerprints \/ check_readiness
    \/ _scan_history
    \/ Crash \/ ReplaceLegacy \/ ChangeEnvironment \/ TaskMoves \/ LatePlan
    \/ \E d \in Domains : SaveDomain(d)

RolloutSpec == RolloutInit /\ [][RolloutNext]_rvars

-----------------------------------------------------------------------------
(* Properties.                                                                *)

\* The migration removes only a legacy file whose two halves are on disk, writes
\* a domain only where there was none, and writes nothing at all when the other
\* domain contradicts the legacy file, whenever it was killed before.
\* (integration_config_migrate._migrate, "check first, then write".)
MigrationLosesNothing ==
    [][/\ LegacyExists /\ legacy' = NoLegacy =>
              \A d \in Domains : files[d] = Half(d, legacy.doc)
       /\ \A d \in Domains : mig.pc = "write" /\ files'[d] # files[d] =>
              /\ ~Present(files[d])
              /\ \A e \in Domains : Present(files[e]) => files[e] = Half(e, mig.seen.doc)]_rvars

\* While nobody else writes a configuration file, a migration run again after
\* any number of interruptions never meets a conflict of its own making.
RerunNeverConflicts ==
    ~foreign /\ legacy.doc # CorruptDoc => mig.result # "migration_required"

\* A release preflight that says ok has judged every task that existed when its scan
\* began: each has ended, and had no plan and no evidence when its page was read, however
\* tasks were submitted, executed and ended between the pages (_scan_history).  What it
\* cannot exclude is the plan of a lost attempt that arrives on an ended task behind the
\* scan: a plan that is there when ok is said is one of those, and never an older one.
PreflightOkIsTrue ==
    [][pre.pc = "scan" /\ pre'.result = "ok" =>
          \A i \in 1..pre.start :
              tasks[i].terminal /\ (tasks[i].data => i \in pre.late)]_rvars

\* Rolling out the split configuration: whatever is killed and run again, nothing is
\* lost, nothing contradicts itself, and a preflight that says ok has judged every task.
RolloutIsSafe ==
    /\ [](RolloutTypeOK /\ RerunNeverConflicts)
    /\ MigrationLosesNothing /\ PreflightOkIsTrue
=============================================================================
