----------------------------- MODULE MCWorkers -----------------------------
(***************************************************************************)
(* The worker process beyond one attempt: the rounds of its loop, the tool *)
(* invocations of its attempts, and the guards both rely on.  focus says   *)
(* which is looked at; the others rest in one initial state.               *)
(***************************************************************************)
EXTENDS WorkerRounds, ToolInvocation, GuardInputs

CONSTANTS a1, a2, i1, i2

VARIABLE focus

WorkersInit ==
    /\ \/ focus = "rounds" /\ window = "open" /\ GuardRests
       \/ focus = "tools" /\ GuardRests
       \/ focus = "guards" /\ window = "open" /\ GuardInit
    /\ RoundsInit /\ ToolInit
WorkersNext ==
    \/ focus = "rounds" /\ RoundsNext /\ UNCHANGED <<focus, kind, input, toolVars>>
    \/ focus = "tools" /\ ToolNext /\ UNCHANGED <<focus, kind, input, wvars>>
WorkersSpec ==
    /\ WorkersInit /\ [][WorkersNext]_<<focus, kind, input, wvars, toolVars>>
    /\ RoundsFairness
=============================================================================
