--------------------------- MODULE MCTaskJourney ---------------------------
(***************************************************************************)
(* TaskJourney with one tool step, one charged failure and two worker      *)
(* processes, of which one runs ahead and takes claims over early.         *)
(***************************************************************************)
EXTENDS TaskJourney

MCWorkers == {"p1", "p2"}
MCInitialStates == {"PENDING_INITIAL", "WAITING_TERMINAL"}
FastClock == [w \in MCWorkers |-> IF w = "p1" THEN 0 ELSE 1]
=============================================================================
