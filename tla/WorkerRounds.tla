---------------------------- MODULE WorkerRounds ----------------------------
(* The scheduling loop of one worker process (application/worker.py,        *)
(* WorkerLoop): it lists dispatchable tasks round by round, claims them      *)
(* while a slot is free, runs each claimed attempt in the background,        *)
(* reaps finished attempts, backs off while the database is unavailable,     *)
(* and stops on a signal, on a fatal result, or when an outage has lasted    *)
(* the whole failure window.  What an attempt does is TaskExecution's;       *)
(* here an attempt only ends, well or badly.                                 *)
(* Seconds are abstract ticks.  Ages are kept up to the window, and the      *)
(* failure counter as the back-off it stands for.                            *)
EXTENDS Integers, FiniteSets

CONSTANTS
    Attempts,                          \* asyncio tasks that run an attempt
    worker_max_concurrent_tasks,
    dispatch_batch_limit,
    BackoffBase, BackoffCap,           \* infrastructure_backoff_*_seconds
    FailureWindow                      \* continuous_infrastructure_failure_window_seconds

\* What Settings._worker_timings_are_consistent guarantees of these values.
ASSUME RoundsAssumption ==
    /\ IsFiniteSet(Attempts)
    /\ worker_max_concurrent_tasks \in 1..Cardinality(Attempts)
    /\ dispatch_batch_limit \in Nat \ {0}
    /\ BackoffBase \in 1..BackoffCap
    /\ BackoffCap \in 1..(FailureWindow - 1)
    /\ FailureWindow \in Nat

VARIABLES
    phase,         \* where run() stands
    rounds,     \* self._rounds: the open rounds
    dispatched, dirty,  \* the flags of the open rounds, as sets of rounds
    current,    \* the round _run is dispatching, or NoRound
    candidates, \* listed tasks this round has still to claim
    in_flight,  \* self._in_flight: the round and the result of each attempt
    failure_since,        \* age of the failure window, or None
    backoff,    \* min(cap, base * 2 ** self._consecutive_failures)
    delay,      \* what is left of the current back-off
    stop,       \* the stop event
    down,       \* the database refuses every call
    outage,     \* ghost: how long no whole round has succeeded, or None
    fresh       \* ghost: rounds opened since the last failure handled

wvars == <<phase, rounds, dispatched, dirty, current, candidates, in_flight, failure_since,
           backoff, delay, stop, down, outage, fresh>>

None == -1
NoRound == -1
\* An open round other than the current one has an attempt in flight.
RoundIds == 0..worker_max_concurrent_tasks
NoAttempt == [round |-> NoRound, result |-> "none"]
Ends == {"stopped", "exhausted", "failed"}
RoundsTypeOK ==
    /\ phase \in {"loop", "slot", "list", "claim", "begin", "poll", "backoff", "drain"} \cup Ends
    /\ rounds \subseteq RoundIds /\ dispatched \subseteq rounds /\ dirty \subseteq rounds
    /\ current \in RoundIds \cup {NoRound}
    /\ candidates \in 0..dispatch_batch_limit
    /\ in_flight \in [Attempts -> {NoAttempt} \cup
          [round: RoundIds, result: {"running", "done", "unavailable", "fatal"}]]
    /\ failure_since \in None..FailureWindow
    /\ backoff \in 1..BackoffCap
    /\ delay \in 0..BackoffCap
    /\ stop \in BOOLEAN /\ down \in BOOLEAN
    /\ outage \in None..FailureWindow
    /\ fresh \subseteq RoundIds

RoundsInit ==
    /\ phase = "loop" /\ rounds = {} /\ dispatched = {} /\ dirty = {} /\ current = NoRound
    /\ candidates = 0 /\ in_flight = [a \in Attempts |-> NoAttempt]
    /\ failure_since = None /\ backoff = BackoffBase /\ delay = 0
    /\ stop = FALSE /\ down = FALSE /\ outage = None /\ fresh = {}

-----------------------------------------------------------------------------
(* Parts of a step, on a scheduler state s = [rounds, dispatched, dirty,      *)
(* in_flight, age, backoff, outage, fresh], so that a step reaps, settles and *)
(* handles a failure in the order the code does.                              *)

Now == [rounds |-> rounds, dispatched |-> dispatched, dirty |-> dirty, in_flight |-> in_flight, age |-> failure_since,
        backoff |-> backoff, outage |-> outage, fresh |-> fresh]

\* (The next state is bound, here and below, so that it is computed once.)
Becomes(next) == \E s \in {next} :
    /\ rounds' = s.rounds /\ dispatched' = s.dispatched /\ dirty' = s.dirty
    /\ in_flight' = s.in_flight
    /\ failure_since' = s.age /\ backoff' = s.backoff
    /\ outage' = s.outage /\ fresh' = s.fresh

InFlight(s) == {a \in Attempts : s.in_flight[a] # NoAttempt}
AttemptsOf(s, r) == {a \in InFlight(s) : s.in_flight[a].round = r}
Ended(s) == {a \in InFlight(s) : s.in_flight[a].result # "running"}
EndedAs(s, result) == {a \in Ended(s) : s.in_flight[a].result = result}

Settled(s, r) == r \in s.rounds /\ r \in s.dispatched /\ AttemptsOf(s, r) = {}

\* Fault: a dirty round clears the failure window too.
_settle_AnyRound(s, touched) ==
    LET settled == {r \in touched : Settled(s, r)}
        clean == settled # {}
        whole == \E r \in settled : r \in s.fresh
    IN  [s EXCEPT !.rounds = @ \ settled, !.dispatched = @ \ settled, !.dirty = @ \ settled,
                  !.age = IF clean THEN None ELSE @,
                  !.backoff = IF clean THEN BackoffBase ELSE @,
                  !.outage = IF whole THEN None ELSE @,
                  !.fresh = @ \ settled]

\* The touched rounds that are complete leave self._rounds; one without a
\* failure clears the window.
_settle(s, touched) ==
    LET settled == {r \in touched : Settled(s, r)}
        clean == \E r \in settled : r \notin s.dirty
        whole == \E r \in settled : r \in s.fresh
    IN  [s EXCEPT !.rounds = @ \ settled, !.dispatched = @ \ settled, !.dirty = @ \ settled,
                  !.age = IF clean THEN None ELSE @,
                  !.backoff = IF clean THEN BackoffBase ELSE @,
                  !.outage = IF whole THEN None ELSE @,
                  !.fresh = @ \ settled]

\* The state _reap leaves behind: ended attempts are taken out, a failed one
\* dirties its round, and the rounds they belonged to are settled.
Reaped(s) ==
    LET ended == Ended(s)
        failed == ended \ EndedAs(s, "done")
        hit == {s.in_flight[a].round : a \in failed}
        marked == [s EXCEPT
            !.in_flight = [a \in Attempts |-> IF a \in ended THEN NoAttempt ELSE @[a]],
            !.dirty = @ \cup hit,
            !.fresh = @ \ hit]
    IN  _settle(marked, {s.in_flight[a].round : a \in ended})

\* _reap raises a fatal result before a transient one.
_reap(s) ==
    [state |-> Reaped(s),
     raised |-> IF EndedAs(s, "fatal") # {} THEN "fatal"
                ELSE IF EndedAs(s, "unavailable") # {} THEN "unavailable" ELSE "none"]

\* _cancel: every attempt has left before run() returns.
_cancel(s) == [s EXCEPT !.in_flight = [a \in Attempts |-> NoAttempt]]

\* Every open round has seen this failure; the current one ends here.
MarkDirty(s) ==
    [s EXCEPT !.dispatched = @ \cup {current}, !.dirty = s.rounds]

\* One failure more doubles the back-off, up to the cap.
Doubled(b) == IF 2 * b < BackoffCap THEN 2 * b ELSE BackoffCap

\* _run's handler of PersistenceUnavailableError, in scheduler state s.
Unavailable(s) ==
    \E settled \in {_settle([MarkDirty(s) EXCEPT !.fresh = {}], {current})} :
    LET age == IF settled.age = None THEN 0 ELSE settled.age
        out == IF settled.outage = None THEN 0 ELSE settled.outage
        aged == [settled EXCEPT !.age = age, !.outage = out]
    IN  /\ current' = NoRound /\ candidates' = 0
        /\ IF age >= FailureWindow
           THEN Becomes(_cancel(aged)) /\ phase' = "exhausted" /\ delay' = 0
           ELSE /\ Becomes([aged EXCEPT !.backoff = Doubled(@)])
                /\ phase' = "backoff" /\ delay' = aged.backoff

\* A fatal result ends run(); the other attempts are cancelled.
Fatal(s) ==
    /\ Becomes(_cancel(s)) /\ phase' = "failed" /\ current' = NoRound /\ candidates' = 0
    /\ UNCHANGED delay

-----------------------------------------------------------------------------
(* The loop.                                                                  *)

OpenRound ==
    /\ phase = "loop" /\ ~stop
    /\ \E r \in RoundIds \ rounds :
          /\ \A q \in RoundIds \ rounds : r <= q
          /\ current' = r
          /\ rounds' = rounds \cup {r}
          /\ fresh' = fresh \cup {r}
    /\ phase' = "slot"
    /\ UNCHANGED <<dispatched, dirty, candidates, in_flight, failure_since,
                   backoff, delay, stop, down, outage>>

\* Before the listing ("slot") and before every claim ("claim"): reap, and go
\* on only when an attempt may be added.
_wait_for_slot ==
    /\ phase \in {"slot", "claim"}
    /\ Ended(Now) # {} \/ Cardinality(InFlight(Now)) < worker_max_concurrent_tasks
    /\ \E reaped \in {_reap(Now)} :
       \/ /\ reaped.raised = "fatal"
          /\ Fatal(reaped.state)
       \/ /\ reaped.raised = "unavailable"
          /\ Unavailable(reaped.state)
       \/ /\ reaped.raised = "none"
          /\ Becomes(reaped.state)
          /\ phase' = IF Cardinality(InFlight(reaped.state)) >= worker_max_concurrent_tasks
                   THEN phase ELSE IF phase = "slot" THEN "list" ELSE "begin"
          /\ UNCHANGED <<current, candidates, delay>>
    /\ UNCHANGED <<stop, down>>

\* The end of _dispatch: the round is dispatched and, if nothing of it runs,
\* settled.
Dispatched(s) ==
    /\ Becomes(_settle([s EXCEPT !.dispatched = @ \cup {current}], {current}))
    /\ phase' = "poll" /\ current' = NoRound /\ candidates' = 0

list_dispatchable_tasks ==
    /\ phase = "list"
    /\ \/ Unavailable(Now)
       \/ ~down /\ Fatal(Now)
       \/ /\ ~down
          /\ Dispatched(Now)
          /\ UNCHANGED delay
       \/ /\ ~down
          /\ \E n \in 1..dispatch_batch_limit : candidates' = n
          /\ phase' = "claim"
          /\ UNCHANGED <<rounds, dispatched, dirty, current, in_flight, failure_since,
                         backoff, delay, outage, fresh>>
    /\ UNCHANGED <<stop, down>>

\* The claim of one candidate is answered: a candidate another worker has taken
\* is skipped, a granted one starts running in the background.
begin_task_attempt ==
    /\ phase = "begin"
    /\ \/ Unavailable(Now)
       \/ ~down /\ Fatal(Now)
       \/ /\ ~down
          /\ \/ candidates > 1 /\ phase' = "claim" /\ candidates' = candidates - 1
                /\ UNCHANGED <<rounds, dispatched, dirty, current, in_flight, failure_since,
                               backoff, outage, fresh>>
             \/ candidates = 1 /\ Dispatched(Now)
          /\ UNCHANGED delay
       \/ /\ ~down
          /\ \E a \in Attempts \ InFlight(Now) :
                LET s == [Now EXCEPT !.in_flight[a] = [round |-> current, result |-> "running"]]
                IN  \/ /\ candidates > 1 /\ phase' = "claim" /\ candidates' = candidates - 1
                       /\ Becomes(s) /\ UNCHANGED current
                    \/ candidates = 1 /\ Dispatched(s)
          /\ UNCHANGED delay
    /\ UNCHANGED <<stop, down>>

\* The poll interval elapsed, or an attempt in flight ended.
PollAgain ==
    /\ phase = "poll" /\ ~stop
    /\ phase' = "loop"
    /\ UNCHANGED <<rounds, dispatched, dirty, current, candidates, in_flight, failure_since,
                   backoff, delay, stop, down, outage, fresh>>

\* The back-off elapsed; unlike the poll wait nothing cuts it short but stop.
BackedOff ==
    /\ phase = "backoff" /\ delay = 0 /\ ~stop
    /\ phase' = "loop"
    /\ UNCHANGED <<rounds, dispatched, dirty, current, candidates, in_flight, failure_since,
                   backoff, delay, stop, down, outage, fresh>>

\* _dispatch_or_stop and _wait_or_stop: the stop event wins; a dispatcher at
\* work is cancelled and its round stays as it is.
StopSeen ==
    /\ stop /\ phase \in {"loop", "slot", "list", "claim", "begin", "poll", "backoff"}
    /\ phase' = "drain" /\ current' = NoRound /\ candidates' = 0 /\ delay' = 0
    /\ UNCHANGED <<rounds, dispatched, dirty, in_flight, failure_since, backoff,
                   stop, down, outage, fresh>>

\* Fault: on the way out nothing is reaped any more.
_drain_NoReap ==
    /\ phase = "drain"
    /\ Becomes(_cancel(Now)) /\ phase' = "stopped"
    /\ UNCHANGED <<current, candidates, delay, stop, down>>

\* Nothing runs any more, or the grace has elapsed: reap once, where a
\* transient failure is left to lease recovery and a fatal one still ends the
\* process with an error, then cancel what is left.
_drain ==
    /\ phase = "drain"
    /\ \E reaped \in {_reap(Now)} :
       /\ Becomes(_cancel(reaped.state))
       /\ phase' = IF reaped.raised = "fatal" THEN "failed" ELSE "stopped"
    /\ UNCHANGED <<current, candidates, delay, stop, down>>

-----------------------------------------------------------------------------
(* What happens around the loop.                                              *)

\* A background attempt ends: _run_attempt returns (committed, paused, retry
\* scheduled, or lost to another worker), or raises.
_run_attempt(a) ==
    /\ in_flight[a].result = "running"
    /\ \E result \in {"done", "unavailable", "fatal"} :
          in_flight' = [in_flight EXCEPT ![a].result = result]
    /\ UNCHANGED <<phase, rounds, dispatched, dirty, current, candidates, failure_since,
                   backoff, delay, stop, down, outage, fresh>>

Tick ==
    /\ phase \notin Ends
    /\ failure_since \in 0..(FailureWindow - 1) \/ delay > 0
    /\ delay' = IF delay > 0 THEN delay - 1 ELSE 0
    /\ failure_since' = IF failure_since \in 0..(FailureWindow - 1) THEN failure_since + 1 ELSE failure_since
    /\ outage' = IF outage \in 0..(FailureWindow - 1) THEN outage + 1 ELSE outage
    /\ UNCHANGED <<phase, rounds, dispatched, dirty, current, candidates, in_flight,
                   backoff, stop, down, fresh>>

RequestStop ==
    /\ ~stop /\ phase \notin Ends
    /\ stop' = TRUE
    /\ UNCHANGED <<phase, rounds, dispatched, dirty, current, candidates, in_flight, failure_since,
                   backoff, delay, down, outage, fresh>>

DatabaseChanges ==
    /\ phase \notin Ends
    /\ down' = ~down
    /\ UNCHANGED <<phase, rounds, dispatched, dirty, current, candidates, in_flight, failure_since,
                   backoff, delay, stop, outage, fresh>>

LoopStep ==
    \/ OpenRound \/ _wait_for_slot \/ list_dispatchable_tasks
    \/ begin_task_attempt \/ PollAgain \/ BackedOff \/ StopSeen \/ _drain

RoundsNext ==
    \/ LoopStep \/ Tick \/ RequestStop \/ DatabaseChanges
    \/ \E a \in Attempts : _run_attempt(a)

\* The event loop runs what is ready, time passes, and an attempt ends: every
\* await in it has a timeout or, at the latest, its lease is lost.
RoundsFairness ==
    /\ WF_wvars(LoopStep) /\ WF_wvars(Tick)
    /\ \A a \in Attempts : WF_wvars(_run_attempt(a))

-----------------------------------------------------------------------------
(* Properties.                                                                *)

\* The failure window measures the continuous outage: it starts with the first
\* failure handled after the last round that was listed, dispatched and finished
\* without any failure being handled meanwhile, and nothing else clears it.
\* (_settle and the dirty flags of overlapping rounds, worker.py 364-371.)
WindowIsContinuousOutage == phase \notin Ends => failure_since = outage

\* Open rounds do not pile up: each one but the round being dispatched has an
\* attempt in flight, every attempt in flight belongs to an open round, and
\* there are never more attempts than slots (_reap, _settle, _wait_for_slot).
RoundsAreOwned ==
    phase \notin Ends =>
        /\ \A r \in rounds :
              r = current \/ AttemptsOf(Now, r) # {} \/ phase = "drain"
        /\ \A a \in InFlight(Now) : in_flight[a].round \in rounds
        /\ Cardinality(InFlight(Now)) <= worker_max_concurrent_tasks

\* A fatal result that the loop takes out of flight ends the process with an
\* error, also when a transient failure was registered before it and also
\* during an orderly shutdown (_reap, _drain).
FatalIsNeverSwallowed ==
    [][\A a \in Attempts :
          in_flight[a].result = "fatal" /\ in_flight'[a].result # "fatal"
             => phase' \in {"failed", "exhausted"}]_wvars

\* A database that never answers again ends the process, and so does a stop
\* signal (_run's window, _dispatch_or_stop, _drain's grace).
OutageEndsTheWorker == (<>[]down \/ <>stop) => <>(phase \in Ends)

\* The rounds of the loop, however their attempts overlap: the window is the outage, and
\* every round and attempt is somebody's (_settle, _reap, _wait_for_slot).
RoundsAreAccountedFor == RoundsTypeOK /\ WindowIsContinuousOutage /\ RoundsAreOwned

\* A failure that must end the process ends it: a fatal one at once, an outage by its
\* window, a stop by its drain.
FailuresEndTheWorker == FatalIsNeverSwallowed /\ OutageEndsTheWorker
=============================================================================
