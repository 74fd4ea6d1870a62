------------------------ MODULE MCChannelProjection ------------------------
(***************************************************************************)
(* ChannelProjection with two worker processes.                            *)
(***************************************************************************)
EXTENDS ChannelProjection

MCWorkers == {"p1", "p2"}
MCInitialStates == {"PENDING_INITIAL", "WAITING_TERMINAL"}
SameClocks == [w \in MCWorkers |-> 0]
=============================================================================
