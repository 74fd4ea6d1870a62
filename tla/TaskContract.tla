---------------------------- MODULE TaskContract ----------------------------
(***************************************************************************)
(* What a task promises to whoever watches it (a channel projection, the   *)
(* web page, an auditor), without leases, tokens or workers: the status    *)
(* follows the state machine, each step gets at most one result and only   *)
(* while the task runs, failures are counted up to a limit, and a reader   *)
(* that finds the version unchanged has missed no change of the status.    *)
(* The plan is the exception: it comes once, at any time, and no version   *)
(* tells.                                                                  *)
(***************************************************************************)
EXTENDS Naturals, TaskStates

CONSTANTS Steps, TaskFailureLimit

VARIABLES
    status, version,
    planned,    \* there is a task_plans row
    bare,       \* the task has ended in a way that is shown without a plan
    result,     \* of each step
    failures
vars == <<status, version, planned, bare, result, failures>>

Init ==
    /\ status = "CREATED" /\ version = 0
    /\ planned = FALSE /\ bare = FALSE
    /\ result = [s \in Steps |-> "none"]
    /\ failures = 0

\* Fault: an end that leaves the version as it was.
Move_KeepsVersion ==
    /\ status' \in AllowedTransitions(status)
    /\ bare' \in BOOLEAN /\ (bare' => status' \in BareStatuses)
    /\ UNCHANGED <<version, planned, result, failures>>

Move ==
    /\ status' \in AllowedTransitions(status)
    /\ version' = version + 1
    /\ bare' \in BOOLEAN /\ (bare' => status' \in BareStatuses)
    /\ UNCHANGED <<planned, result, failures>>

Commit(s) ==
    /\ status = "RUNNING" /\ result[s] = "none"
    /\ \E r \in ResultStatuses : result' = [result EXCEPT ![s] = r]
    /\ UNCHANGED <<status, version, planned, bare, failures>>

Fail ==
    /\ status \in DispatchStatuses /\ failures < TaskFailureLimit
    /\ failures' = failures + 1 /\ version' = version + 1
    /\ UNCHANGED <<status, planned, bare, result>>

StorePlan ==
    /\ ~planned /\ planned' = TRUE
    /\ UNCHANGED <<status, version, bare, result, failures>>

Next == Move \/ Fail \/ StorePlan \/ \E s \in Steps : Commit(s)

Spec == Init /\ [][Next]_vars
=============================================================================
