---------------------------- MODULE TaskJourney ----------------------------
(***************************************************************************)
(* A task and the projection that follows it: the task moves as its        *)
(* contract allows, whoever implements it, and the ChannelProjectionService*)
(* reads the row between any two of its steps.  Nothing is shared but the  *)
(* row and the plan; the service never changes either.                     *)
(***************************************************************************)
EXTENDS ChannelProjection, TaskStates

CONSTANTS Steps, TaskFailureLimit

VARIABLES status, result, failures

taskVars == <<status, result, failures>>
channelVars == <<sub, local, cards, doubts, abandons, stalls>>
journeyVars == <<vars, taskVars>>

Task == INSTANCE TaskContract
            WITH version <- record.version, planned <- record.planned, bare <- record.bare

JourneyInit == Init /\ Task!Init

\* What the service reads of the row the task has become.
Rows == [version : {record.version, record.version + 1} \cap Versions, terminal : BOOLEAN,
         planned : BOOLEAN, bare : BOOLEAN]

TaskStep ==
    /\ record' \in Rows
    /\ Task!Next
    /\ record'.terminal = (status' \in TerminalStatuses)
    /\ UNCHANGED channelVars

ChannelStep ==
    /\ \/ \E w \in Workers : ListDue(w) \/ ProcessDue(w) \/ Abandon(w)
       \/ Tick
    /\ UNCHANGED taskVars

JourneyNext == TaskStep \/ ChannelStep

JourneySpec == JourneyInit /\ [][JourneyNext]_journeyVars

-----------------------------------------------------------------------------
\* Properties.

\* The projection service may take the task for what it takes it for: whatever
\* the task does under its contract, and the service beside it, is a behaviour
\* of ChannelProjection, whose promises therefore hold of real tasks.
FollowsTheTask == Spec

\* COMPLETED is the truth about the task for good: the user has been shown the end
\* of the task under its last version, and status, version and results of the task
\* are what they were from then on.
ToldOnce ==
    [][sub.state = "COMPLETED" =>
         /\ status \in TerminalStatuses
         /\ sub.last_projected_task_version = record'.version
         /\ UNCHANGED taskVars]_journeyVars
=============================================================================
