---------------------------- MODULE MCTaskStore ----------------------------
(***************************************************************************)
(* TaskStore with two clients in two worker processes, two steps and one   *)
(* plan that knows only the first of them.                                 *)
(***************************************************************************)
EXTENDS InMemoryTaskStore

CONSTANTS c1, c2, s1, s2, p1, d1

MCClients == {c1, c2}
MCOwnerOf == [c \in MCClients |-> IF c = c1 THEN "worker-1" ELSE "worker-2"]
MCSteps == {s1, s2}
MCPlans == {p1}
MCStepsOf == [p \in MCPlans |-> {s1}]
MCPayloads == {d1}
=============================================================================
