---------------------------- MODULE WorkerProofs ----------------------------
(***************************************************************************)
(* Proofs about the worker process beyond one attempt: the rounds of its   *)
(* loop (module WorkerRounds) and the tool calls of its attempts (module   *)
(* ToolInvocation), for any number of attempts, slots, invocations and     *)
(* threads, and the plans of those calls (module PlanInputs), for any      *)
(* request, conversation and answer.                                       *)
(***************************************************************************)
EXTENDS WorkerRounds, ToolInvocation, PlanInputs, FiniteSetTheorems, TLAPS

RoundsSpec == RoundsInit /\ [][RoundsNext]_wvars
ToolSpec == ToolInit /\ [][ToolNext]_toolVars

-----------------------------------------------------------------------------
(***************************************************************************)
(* The inductive invariant of the rounds, on a scheduler state s, which is *)
(* what every part of a step maps to the next one.                         *)
(*  - A round is fresh exactly when it is not dirty.  Then a settled round *)
(*    clears the failure window exactly when it ends the outage.           *)
(*  - A round that is dispatched has an attempt in flight: whatever takes  *)
(*    the last one out settles it in the same step.                        *)
(*  - A round is dispatched when it is not the current one any more.       *)
(***************************************************************************)
AttemptRecord ==
    {NoAttempt} \cup [round : RoundIds, result : {"running", "done", "unavailable", "fatal"}]

Scheduler ==
    [rounds : SUBSET RoundIds, dispatched : SUBSET RoundIds, dirty : SUBSET RoundIds,
     in_flight : [Attempts -> AttemptRecord], age : None..FailureWindow,
     backoff : 1..BackoffCap, outage : None..FailureWindow, fresh : SUBSET RoundIds]

\* Holds of every scheduler state, between the parts of a step too.
SchedulerFits(s) ==
    /\ s \in Scheduler /\ s.dispatched \subseteq s.rounds /\ s.dirty \subseteq s.rounds
    /\ s.fresh = s.rounds \ s.dirty
    /\ s.age = s.outage
    /\ \A a \in InFlight(s) : s.in_flight[a].round \in s.rounds

\* Every round but c is dispatched and has an attempt.
Owned(s, c) ==
    \A r \in s.rounds : r = c \/ (r \in s.dispatched /\ AttemptsOf(s, r) # {})

\* The run has ended: what is left is only of its type.
SchedulerEnded(s) ==
    s \in Scheduler /\ s.dispatched \subseteq s.rounds /\ s.dirty \subseteq s.rounds

Dispatching == {"slot", "list", "claim", "begin"}
Waiting == {"loop", "poll", "backoff"}

RoundsInv ==
    /\ phase \in Dispatching \cup Waiting \cup {"drain"} \cup Ends
    /\ stop \in BOOLEAN /\ down \in BOOLEAN
    /\ candidates \in 0..dispatch_batch_limit /\ delay \in 0..BackoffCap
    /\ SchedulerEnded(Now)
    /\ current \in RoundIds \cup {NoRound}
    /\ phase \notin Ends =>
         /\ SchedulerFits(Now)
         /\ Cardinality(InFlight(Now)) <= worker_max_concurrent_tasks
    /\ phase \in Dispatching => current \in rounds \ dispatched /\ Owned(Now, current)
    /\ phase \in Waiting => current = NoRound /\ Owned(Now, NoRound)
    /\ phase \in {"claim", "begin"} => candidates > 0
    /\ phase \in {"list", "begin"} => Cardinality(InFlight(Now)) < worker_max_concurrent_tasks

\* The parts of a scheduler state.
LEMMA SchedulerFields ==
    ASSUME NEW s \in Scheduler
    PROVE  /\ s.rounds \subseteq RoundIds /\ s.dispatched \subseteq RoundIds
           /\ s.dirty \subseteq RoundIds /\ s.fresh \subseteq RoundIds
           /\ s.in_flight \in [Attempts -> AttemptRecord]
           /\ s.age \in None..FailureWindow /\ s.outage \in None..FailureWindow
           /\ s.backoff \in 1..BackoffCap
           /\ s = [rounds |-> s.rounds, dispatched |-> s.dispatched, dirty |-> s.dirty,
                   in_flight |-> s.in_flight, age |-> s.age, backoff |-> s.backoff,
                   outage |-> s.outage, fresh |-> s.fresh]
BY DEF Scheduler

LEMMA InFlightIsFinite ==
    ASSUME NEW s
    PROVE  IsFiniteSet(InFlight(s)) /\ Cardinality(InFlight(s)) \in Nat
<1>1. InFlight(s) \subseteq Attempts /\ IsFiniteSet(Attempts)
  BY RoundsAssumption DEF InFlight
<1>2. QED
  BY <1>1, FS_Subset, FS_CardinalityType

LEMMA Limits ==
    /\ FailureWindow \in Nat /\ BackoffCap \in Nat /\ BackoffBase \in 1..BackoffCap
    /\ worker_max_concurrent_tasks \in Nat /\ worker_max_concurrent_tasks > 0
    /\ None \in None..FailureWindow /\ 0 \in None..FailureWindow
    /\ 0 \in 0..BackoffCap /\ NoRound \notin RoundIds
<1>1. Cardinality(Attempts) \in Nat
  BY RoundsAssumption, FS_CardinalityType
<1>2. QED
  BY <1>1, RoundsAssumption DEF None, NoRound, RoundIds

\* Settling takes out rounds without attempts, and clears the window with the outage.
LEMMA SettleFits ==
    ASSUME NEW s, SchedulerFits(s), NEW touched
    PROVE  LET t == _settle(s, touched)
               settled == {r \in touched : Settled(s, r)}
           IN  /\ SchedulerFits(t)
               /\ t.in_flight = s.in_flight /\ t.rounds = s.rounds \ settled
               /\ t.dispatched = s.dispatched \ settled
<1> DEFINE settled == {r \in touched : Settled(s, r)}
           clean == \E r \in settled : r \notin s.dirty
           whole == \E r \in settled : r \in s.fresh
<1>s. s \in Scheduler /\ s.dispatched \subseteq s.rounds /\ s.dirty \subseteq s.rounds
      /\ s.fresh = s.rounds \ s.dirty /\ s.age = s.outage
      /\ \A a \in InFlight(s) : s.in_flight[a].round \in s.rounds
  BY DEF SchedulerFits
<1>1. clean <=> whole
  BY <1>s DEF Settled
<1>2. PICK t : t = _settle(s, touched)
  OBVIOUS
<1>3. t = [rounds |-> s.rounds \ settled, dispatched |-> s.dispatched \ settled,
           dirty |-> s.dirty \ settled, in_flight |-> s.in_flight,
           age |-> IF clean THEN None ELSE s.age, backoff |-> IF clean THEN BackoffBase ELSE s.backoff,
           outage |-> IF whole THEN None ELSE s.outage, fresh |-> s.fresh \ settled]
  BY <1>2, <1>s DEF _settle, Scheduler
<1>4. t \in Scheduler
  <2>1. /\ (IF clean THEN None ELSE s.age) \in None..FailureWindow
        /\ (IF whole THEN None ELSE s.outage) \in None..FailureWindow
        /\ (IF clean THEN BackoffBase ELSE s.backoff) \in 1..BackoffCap
    BY <1>s, SchedulerFields, Limits
  <2>2. /\ s.rounds \ settled \in SUBSET RoundIds /\ s.dispatched \ settled \in SUBSET RoundIds
        /\ s.dirty \ settled \in SUBSET RoundIds /\ s.fresh \ settled \in SUBSET RoundIds
        /\ s.in_flight \in [Attempts -> AttemptRecord]
    BY <1>s, SchedulerFields
  <2> HIDE DEF settled, clean, whole
  <2>3. QED
    BY <1>3, <2>1, <2>2 DEF Scheduler
<1>5. /\ t.in_flight = s.in_flight /\ t.rounds = s.rounds \ settled
      /\ t.dispatched = s.dispatched \ settled /\ t.dirty = s.dirty \ settled
      /\ t.fresh = s.fresh \ settled /\ t.age = t.outage
  <2> HIDE DEF settled
  <2>1. QED
    BY <1>1, <1>3, <1>s
<1>6. InFlight(t) = InFlight(s)
  BY <1>5 DEF InFlight
<1>7. \A a \in InFlight(t) : t.in_flight[a].round \in t.rounds
  BY <1>s, <1>5, <1>6 DEF Settled, AttemptsOf
<1>8. SchedulerFits(t)
  BY <1>s, <1>4, <1>5, <1>7 DEF SchedulerFits
<1>9. QED
  BY <1>2, <1>5, <1>8

\* Reaping keeps every round owned, and the current one open.
LEMMA ReapFits ==
    ASSUME NEW s, SchedulerFits(s)
    PROVE  LET t == Reaped(s)
           IN  /\ SchedulerFits(t) /\ InFlight(t) \subseteq InFlight(s)
               /\ \A c \in s.rounds \ s.dispatched :
                    Owned(s, c) => c \in t.rounds \ t.dispatched /\ Owned(t, c)
<1> DEFINE ended == Ended(s)
           failed == ended \ EndedAs(s, "done")
           hit == {s.in_flight[a].round : a \in failed}
           touched == {s.in_flight[a].round : a \in ended}
           flights == [a \in Attempts |-> IF a \in ended THEN NoAttempt ELSE s.in_flight[a]]
<1>s. s \in Scheduler /\ s.dispatched \subseteq s.rounds /\ s.dirty \subseteq s.rounds
      /\ s.fresh = s.rounds \ s.dirty /\ s.age = s.outage
      /\ \A a \in InFlight(s) : s.in_flight[a].round \in s.rounds
  BY DEF SchedulerFits
<1>e. ended \subseteq InFlight(s) /\ failed \subseteq InFlight(s) /\ InFlight(s) \subseteq Attempts
  BY DEF Ended, InFlight
<1>1. PICK m : m = [s EXCEPT !.in_flight = flights, !.dirty = @ \cup hit, !.fresh = @ \ hit]
  OBVIOUS
<1>2. Reaped(s) = _settle(m, touched)
  BY <1>1 DEF Reaped
<1>3. m = [rounds |-> s.rounds, dispatched |-> s.dispatched, dirty |-> s.dirty \cup hit,
           in_flight |-> flights, age |-> s.age, backoff |-> s.backoff,
           outage |-> s.outage, fresh |-> s.fresh \ hit]
  <2> HIDE DEF flights, hit
  <2>1. QED
    BY <1>1, <1>s DEF Scheduler
<1>4. flights \in [Attempts -> AttemptRecord] /\ hit \subseteq s.rounds
  BY <1>s, <1>e, SchedulerFields DEF AttemptRecord
<1>5. m \in Scheduler
  <2>1. s.dirty \cup hit \in SUBSET RoundIds /\ s.fresh \ hit \in SUBSET RoundIds
    BY <1>s, <1>4, SchedulerFields
  <2> HIDE DEF flights, hit
  <2>2. QED
    BY <1>3, <1>4, <1>s, <2>1, SchedulerFields DEF Scheduler
<1>6. /\ m.rounds = s.rounds /\ m.dispatched = s.dispatched /\ m.dirty = s.dirty \cup hit
      /\ m.fresh = s.fresh \ hit /\ m.age = s.age /\ m.outage = s.outage
      /\ m.in_flight = flights
  <2> HIDE DEF flights, hit
  <2>1. QED
    BY <1>3
<1>7. InFlight(m) = InFlight(s) \ ended
      /\ \A a \in InFlight(m) : m.in_flight[a] = s.in_flight[a]
  BY <1>6, <1>e DEF InFlight
<1>8. SchedulerFits(m)
  BY <1>4, <1>5, <1>6, <1>7, <1>s DEF SchedulerFits
<1>9. PICK t : t = _settle(m, touched)
  OBVIOUS
<1>10. /\ SchedulerFits(t) /\ t.in_flight = m.in_flight
       /\ t.rounds = m.rounds \ {r \in touched : Settled(m, r)}
       /\ t.dispatched = m.dispatched \ {r \in touched : Settled(m, r)}
  <2> HIDE DEF touched
  <2>1. QED
    BY <1>8, <1>9, SettleFits
<1>11. InFlight(t) = InFlight(m) /\ \A r : AttemptsOf(t, r) = AttemptsOf(m, r)
  BY <1>10 DEF InFlight, AttemptsOf
<1>12. ASSUME NEW c \in s.rounds \ s.dispatched, Owned(s, c)
       PROVE  c \in t.rounds \ t.dispatched /\ Owned(t, c)
  <2>c. c \in t.rounds \ t.dispatched
    BY <1>6, <1>10, <1>12 DEF Settled
  <2> SUFFICES ASSUME NEW r \in t.rounds, r # c
               PROVE  r \in t.dispatched /\ AttemptsOf(t, r) # {}
    BY <2>c DEF Owned
  <2>1. r \in m.rounds /\ ~(r \in touched /\ Settled(m, r))
    BY <1>10
  <2>2. r \in m.dispatched /\ AttemptsOf(s, r) # {}
    BY <1>6, <1>12, <2>1 DEF Owned
  <2>3. r \in t.dispatched
    BY <1>10, <2>1, <2>2
  <2>4. CASE r \in touched
    BY <1>11, <2>1, <2>2, <2>3, <2>4 DEF Settled
  <2>5. CASE r \notin touched
    <3>1. AttemptsOf(s, r) \cap ended = {}
      BY <2>5 DEF AttemptsOf
    <3>2. AttemptsOf(m, r) = AttemptsOf(s, r)
      BY <1>7, <3>1 DEF AttemptsOf
    <3>3. QED
      BY <1>11, <2>2, <2>3, <3>2
  <2>6. QED
    BY <2>3, <2>4, <2>5
<1>13. QED
  BY <1>2, <1>7, <1>9, <1>10, <1>11, <1>12

-----------------------------------------------------------------------------
LEMMA BecomesNow ==
    ASSUME NEW s \in Scheduler, Becomes(s)
    PROVE  Now' = s
<1>1. Now' = [rounds |-> s.rounds, dispatched |-> s.dispatched, dirty |-> s.dirty,
              in_flight |-> s.in_flight, age |-> s.age, backoff |-> s.backoff,
              outage |-> s.outage, fresh |-> s.fresh]
  BY DEF Becomes, Now
<1>2. QED
  BY <1>1, SchedulerFields

LEMMA NowFields ==
    /\ Now.rounds = rounds /\ Now.dispatched = dispatched /\ Now.dirty = dirty
    /\ Now.in_flight = in_flight /\ Now.age = failure_since
    /\ Now.backoff = backoff /\ Now.outage = outage /\ Now.fresh = fresh
BY DEF Now

\* The invariant of the step's end, from the scheduler state it ends in.
LEMMA RunGoesOn ==
    ASSUME RoundsInv, NEW s, SchedulerFits(s), Becomes(s),
           Cardinality(InFlight(s)) <= worker_max_concurrent_tasks,
           UNCHANGED <<stop, down>>,
           candidates' \in 0..dispatch_batch_limit, delay' \in 0..BackoffCap,
           \/ phase' \in Waiting /\ current' = NoRound /\ Owned(s, NoRound)
           \/ /\ phase' \in Dispatching /\ current' \in s.rounds \ s.dispatched
              /\ Owned(s, current') /\ current' \in RoundIds,
           phase' \in {"claim", "begin"} => candidates' > 0,
           phase' \in {"list", "begin"} =>
             Cardinality(InFlight(s)) < worker_max_concurrent_tasks
    PROVE  RoundsInv'
<1>1. s \in Scheduler /\ SchedulerEnded(s)
  BY DEF SchedulerFits, SchedulerEnded
<1>2. Now' = s
  BY <1>1, BecomesNow
<1>3. rounds' = s.rounds /\ dispatched' = s.dispatched
  BY DEF Becomes
<1>4. /\ phase' \in Dispatching \cup Waiting /\ phase' \notin Ends
      /\ current' \in RoundIds \cup {NoRound}
      /\ phase' \in Dispatching => phase' \notin Waiting
  BY DEF Dispatching, Waiting, Ends
<1>5. QED
  BY <1>1, <1>2, <1>3, <1>4 DEF RoundsInv

LEMMA RunEnds ==
    ASSUME RoundsInv, NEW s, SchedulerEnded(s), Becomes(s), phase' \in Ends,
           UNCHANGED <<stop, down>>, current' \in RoundIds \cup {NoRound},
           candidates' \in 0..dispatch_batch_limit, delay' \in 0..BackoffCap
    PROVE  RoundsInv'
<1>1. Now' = s
  BY BecomesNow DEF SchedulerEnded
<1>2. phase' \notin Dispatching /\ phase' \notin Waiting
      /\ phase' \notin {"list", "claim", "begin"}
  BY DEF Ends, Dispatching, Waiting
<1>3. QED
  BY <1>1, <1>2 DEF RoundsInv

LEMMA CancelEnds ==
    ASSUME NEW s, SchedulerEnded(s)
    PROVE  SchedulerEnded(_cancel(s))
<1>1. PICK t : t = _cancel(s)
  OBVIOUS
<1>2. t = [rounds |-> s.rounds, dispatched |-> s.dispatched, dirty |-> s.dirty,
           in_flight |-> [a \in Attempts |-> NoAttempt], age |-> s.age, backoff |-> s.backoff,
           outage |-> s.outage, fresh |-> s.fresh]
  BY <1>1 DEF _cancel, SchedulerEnded, Scheduler
<1>3. [a \in Attempts |-> NoAttempt] \in [Attempts -> AttemptRecord]
  BY DEF AttemptRecord
<1>4. t \in Scheduler /\ t.dispatched \subseteq t.rounds /\ t.dirty \subseteq t.rounds
  BY <1>2, <1>3 DEF SchedulerEnded, Scheduler
<1>5. QED
  BY <1>1, <1>4 DEF SchedulerEnded

\* What an action of the dispatcher starts from.
LEMMA DispatcherView ==
    ASSUME RoundsInv, phase \in Dispatching
    PROVE  /\ SchedulerFits(Now) /\ Owned(Now, current)
           /\ current \in Now.rounds \ Now.dispatched /\ current \in RoundIds
           /\ Cardinality(InFlight(Now)) <= worker_max_concurrent_tasks
           /\ candidates \in 0..dispatch_batch_limit /\ delay \in 0..BackoffCap
<1>1. phase \notin Ends
  BY DEF Dispatching, Ends
<1>2. rounds \subseteq RoundIds
  BY NowFields, SchedulerFields DEF RoundsInv, SchedulerEnded
<1>3. QED
  BY <1>1, <1>2, NowFields DEF RoundsInv

LEMMA FatalKeeps ==
    ASSUME RoundsInv, phase \in Dispatching, NEW s, SchedulerFits(s), Fatal(s),
           UNCHANGED <<stop, down>>
    PROVE  RoundsInv'
<1>1. PICK t : t = _cancel(s)
  OBVIOUS
<1>2. SchedulerEnded(t)
  BY <1>1, CancelEnds DEF SchedulerFits, SchedulerEnded
<1>3. Becomes(t) /\ phase' = "failed" /\ current' = NoRound /\ candidates' = 0 /\ delay' = delay
  BY <1>1 DEF Fatal
<1>4. delay \in 0..BackoffCap /\ 0 \in 0..dispatch_batch_limit
  BY DispatcherView, RoundsAssumption
<1>5. QED
  BY <1>2, <1>3, <1>4, RunEnds DEF Ends

\* The current round leaves the dispatcher: it is settled or has attempts.
LEMMA LeavesOwned ==
    ASSUME NEW s, SchedulerFits(s), NEW c \in RoundIds, c \in s.dispatched,
           \A r \in s.rounds : r = c \/ (r \in s.dispatched /\ AttemptsOf(s, r) # {})
    PROVE  Owned(_settle(s, {c}), NoRound)
<1>1. PICK t : t = _settle(s, {c})
  OBVIOUS
<1>2. /\ t.in_flight = s.in_flight /\ t.rounds = s.rounds \ {r \in {c} : Settled(s, r)}
      /\ t.dispatched = s.dispatched \ {r \in {c} : Settled(s, r)}
  BY <1>1, SettleFits
<1>3. \A r : AttemptsOf(t, r) = AttemptsOf(s, r)
  BY <1>2 DEF AttemptsOf, InFlight
<1>4. ASSUME NEW r \in t.rounds PROVE r \in t.dispatched /\ AttemptsOf(t, r) # {}
  BY <1>2, <1>3 DEF Settled
<1>5. QED
  BY <1>1, <1>4 DEF Owned

LEMMA BackoffInCap ==
    ASSUME NEW b \in 1..BackoffCap
    PROVE  Doubled(b) \in 1..BackoffCap
BY RoundsAssumption DEF Doubled

LEMMA UnavailableKeeps ==
    ASSUME RoundsInv, phase \in Dispatching, NEW s, SchedulerFits(s), Owned(s, current),
           current \in s.rounds \ s.dispatched, current \in RoundIds,
           Cardinality(InFlight(s)) <= worker_max_concurrent_tasks,
           Unavailable(s), UNCHANGED <<stop, down>>
    PROVE  RoundsInv'
<1>s. s \in Scheduler /\ s.dispatched \subseteq s.rounds /\ s.dirty \subseteq s.rounds
      /\ s.age = s.outage /\ \A a \in InFlight(s) : s.in_flight[a].round \in s.rounds
  BY DEF SchedulerFits
<1>1. PICK m : m = [MarkDirty(s) EXCEPT !.fresh = {}]
  OBVIOUS
<1>2. m = [rounds |-> s.rounds, dispatched |-> s.dispatched \cup {current}, dirty |-> s.rounds,
           in_flight |-> s.in_flight, age |-> s.age, backoff |-> s.backoff,
           outage |-> s.outage, fresh |-> {}]
  BY <1>1, <1>s DEF MarkDirty, Scheduler
<1>3. m \in Scheduler
  BY <1>2, <1>s DEF Scheduler
<1>4. InFlight(m) = InFlight(s) /\ \A r : AttemptsOf(m, r) = AttemptsOf(s, r)
  BY <1>2 DEF InFlight, AttemptsOf
<1>5. SchedulerFits(m) /\ current \in m.dispatched
  BY <1>2, <1>3, <1>4, <1>s DEF SchedulerFits
<1>6. \A r \in m.rounds : r = current \/ (r \in m.dispatched /\ AttemptsOf(m, r) # {})
  BY <1>2, <1>4 DEF Owned
<1>7. PICK t : t = _settle(m, {current})
  OBVIOUS
<1>8. SchedulerFits(t) /\ Owned(t, NoRound) /\ InFlight(t) = InFlight(s)
  BY <1>4, <1>5, <1>6, <1>7, SettleFits, LeavesOwned DEF InFlight
<1>9. PICK age \in None..FailureWindow : age = (IF t.age = None THEN 0 ELSE t.age)
                                         /\ age = (IF t.outage = None THEN 0 ELSE t.outage)
  BY <1>8, SchedulerFields, Limits DEF SchedulerFits
<1>10. PICK aged : aged = [t EXCEPT !.age = age, !.outage = age]
  OBVIOUS
<1>11. /\ aged \in Scheduler /\ aged.rounds = t.rounds /\ aged.dispatched = t.dispatched
       /\ aged.dirty = t.dirty /\ aged.in_flight = t.in_flight /\ aged.age = age
       /\ aged.outage = age /\ aged.fresh = t.fresh /\ aged.backoff = t.backoff
  BY <1>8, <1>10 DEF SchedulerFits, Scheduler
<1>12. InFlight(aged) = InFlight(t) /\ \A r : AttemptsOf(aged, r) = AttemptsOf(t, r)
  BY <1>11 DEF InFlight, AttemptsOf
<1>13. SchedulerFits(aged) /\ Owned(aged, NoRound)
  BY <1>8, <1>11, <1>12 DEF SchedulerFits, Owned
<1>14. /\ current' = NoRound /\ candidates' = 0
       /\ IF age >= FailureWindow
          THEN Becomes(_cancel(aged)) /\ phase' = "exhausted" /\ delay' = 0
          ELSE /\ Becomes([aged EXCEPT !.backoff = Doubled(@)])
               /\ phase' = "backoff" /\ delay' = aged.backoff
  BY <1>1, <1>7, <1>9, <1>10 DEF Unavailable
<1>15. 0 \in 0..dispatch_batch_limit /\ 0 \in 0..BackoffCap
  BY RoundsAssumption, Limits
<1>16. CASE age >= FailureWindow
  <2>1. PICK u : u = _cancel(aged)
    OBVIOUS
  <2>2. SchedulerEnded(u) /\ Becomes(u) /\ phase' = "exhausted" /\ delay' = 0
    BY <1>13, <1>14, <1>16, <2>1, CancelEnds DEF SchedulerFits, SchedulerEnded
  <2>3. QED
    BY <1>14, <1>15, <2>2, RunEnds DEF Ends
<1>17. CASE ~(age >= FailureWindow)
  <2>1. PICK u : u = [aged EXCEPT !.backoff = Doubled(@)]
    OBVIOUS
  <2>2. Doubled(aged.backoff) \in 1..BackoffCap
        /\ aged.backoff \in 0..BackoffCap
    BY <1>11, SchedulerFields, BackoffInCap, Limits
  <2>3. /\ u \in Scheduler /\ u.rounds = aged.rounds /\ u.dispatched = aged.dispatched
        /\ u.dirty = aged.dirty /\ u.in_flight = aged.in_flight /\ u.age = aged.age
        /\ u.outage = aged.outage /\ u.fresh = aged.fresh
    BY <1>11, <2>1, <2>2 DEF Scheduler
  <2>4. InFlight(u) = InFlight(aged) /\ \A r : AttemptsOf(u, r) = AttemptsOf(aged, r)
    BY <2>3 DEF InFlight, AttemptsOf
  <2>5. SchedulerFits(u) /\ Owned(u, NoRound)
    BY <1>13, <2>3, <2>4 DEF SchedulerFits, Owned
  <2>6. Becomes(u) /\ phase' = "backoff" /\ delay' = aged.backoff
    BY <1>14, <1>17, <2>1
  <2>7. Cardinality(InFlight(u)) <= worker_max_concurrent_tasks
    BY <1>8, <1>12, <2>4
  <2>8. QED
    BY <1>14, <1>15, <2>2, <2>5, <2>6, <2>7, RunGoesOn DEF Waiting
<1>18. QED
  BY <1>16, <1>17

-----------------------------------------------------------------------------
(***************************************************************************)
(* The loop.                                                               *)
(***************************************************************************)
LEMMA OpenRoundStep ==
    ASSUME RoundsInv, OpenRound
    PROVE  RoundsInv'
<1>0. phase = "loop" /\ phase \in Waiting /\ phase \notin Ends
  BY DEF OpenRound, Waiting, Ends
<1>1. PICK r \in RoundIds \ rounds :
        current' = r /\ rounds' = rounds \cup {r} /\ fresh' = fresh \cup {r}
  BY DEF OpenRound
<1>2. PICK s : s = [Now EXCEPT !.rounds = @ \cup {r}, !.fresh = @ \cup {r}]
  OBVIOUS
<1>3. SchedulerFits(Now) /\ Owned(Now, NoRound)
      /\ Cardinality(InFlight(Now)) <= worker_max_concurrent_tasks
      /\ candidates \in 0..dispatch_batch_limit /\ delay \in 0..BackoffCap
  BY <1>0 DEF RoundsInv
<1>4. /\ s \in Scheduler /\ s.rounds = rounds \cup {r} /\ s.fresh = fresh \cup {r}
      /\ s.dispatched = dispatched /\ s.dirty = dirty /\ s.in_flight = in_flight
      /\ s.age = failure_since /\ s.outage = outage /\ s.backoff = backoff
  BY <1>2, <1>3, NowFields DEF SchedulerFits, Scheduler
<1>5. InFlight(s) = InFlight(Now) /\ \A q : AttemptsOf(s, q) = AttemptsOf(Now, q)
  BY <1>4, NowFields DEF InFlight, AttemptsOf
<1>6. SchedulerFits(s) /\ Owned(s, r) /\ r \in s.rounds \ s.dispatched
  <2>1. SchedulerFits(s)
    BY <1>3, <1>4, <1>5, NowFields DEF SchedulerFits
  <2>2. \A q \in rounds : q \in dispatched /\ AttemptsOf(Now, q) # {}
    BY <1>3, NowFields, SchedulerFields, Limits DEF Owned, SchedulerFits
  <2>3. QED
    BY <1>1, <1>3, <1>4, <1>5, <2>1, <2>2, NowFields DEF Owned, SchedulerFits
<1>7. Becomes(s) /\ phase' = "slot" /\ UNCHANGED <<stop, down, candidates, delay>>
  BY <1>1, <1>4 DEF OpenRound, Becomes
<1>8. QED
  BY <1>1, <1>3, <1>5, <1>6, <1>7, RunGoesOn DEF Dispatching, Waiting

LEMMA WaitForSlotStep ==
    ASSUME RoundsInv, _wait_for_slot
    PROVE  RoundsInv'
<1>0. phase \in {"slot", "claim"} /\ phase \in Dispatching /\ UNCHANGED <<stop, down>>
  BY DEF _wait_for_slot, Dispatching
<1>v. /\ SchedulerFits(Now) /\ Owned(Now, current)
      /\ current \in Now.rounds \ Now.dispatched /\ current \in RoundIds
      /\ Cardinality(InFlight(Now)) <= worker_max_concurrent_tasks
      /\ candidates \in 0..dispatch_batch_limit /\ delay \in 0..BackoffCap
  BY <1>0, DispatcherView
<1>1. PICK s : s = Reaped(Now)
  OBVIOUS
<1>2. SchedulerFits(s) /\ current \in s.rounds \ s.dispatched /\ Owned(s, current)
      /\ InFlight(s) \subseteq InFlight(Now)
  BY <1>1, <1>v, ReapFits
<1>3. Cardinality(InFlight(s)) <= worker_max_concurrent_tasks
      /\ Cardinality(InFlight(s)) \in Nat /\ worker_max_concurrent_tasks \in Nat
  <2>1. Cardinality(InFlight(s)) <= Cardinality(InFlight(Now))
    BY <1>2, InFlightIsFinite, FS_Subset
  <2>2. QED
    BY <1>v, <2>1, InFlightIsFinite, Limits
<1>4. \/ Fatal(s) \/ Unavailable(s)
      \/ /\ Becomes(s)
         /\ phase' = IF Cardinality(InFlight(s)) >= worker_max_concurrent_tasks
                     THEN phase ELSE IF phase = "slot" THEN "list" ELSE "begin"
         /\ UNCHANGED <<current, candidates, delay>>
  BY <1>1 DEF _wait_for_slot, _reap
<1>5. CASE Fatal(s)
  BY <1>0, <1>2, <1>5, FatalKeeps
<1>6. CASE Unavailable(s)
  BY <1>0, <1>v, <1>2, <1>3, <1>6, UnavailableKeeps
<1>7. CASE /\ Becomes(s)
           /\ phase' = IF Cardinality(InFlight(s)) >= worker_max_concurrent_tasks
                       THEN phase ELSE IF phase = "slot" THEN "list" ELSE "begin"
           /\ UNCHANGED <<current, candidates, delay>>
  <2>1. phase' \in Dispatching /\ (phase' \in {"claim", "begin"} => phase = "claim")
        /\ (phase' \in {"list", "begin"} =>
              Cardinality(InFlight(s)) < worker_max_concurrent_tasks)
    BY <1>0, <1>3, <1>7 DEF Dispatching
  <2>2. phase = "claim" => candidates > 0
    BY DEF RoundsInv
  <2>3. QED
    BY <1>0, <1>v, <1>2, <1>3, <1>7, <2>1, <2>2, RunGoesOn
<1>8. QED
  BY <1>4, <1>5, <1>6, <1>7

\* The end of _dispatch, in scheduler state s.
LEMMA DispatchedKeeps ==
    ASSUME RoundsInv, NEW s, SchedulerFits(s), current \in s.rounds, current \in RoundIds,
           Owned(s, current), Cardinality(InFlight(s)) <= worker_max_concurrent_tasks,
           Dispatched(s), UNCHANGED <<stop, down, delay>>
    PROVE  RoundsInv'
<1>1. PICK m : m = [s EXCEPT !.dispatched = @ \cup {current}]
  OBVIOUS
<1>2. /\ m \in Scheduler /\ m.rounds = s.rounds /\ m.dispatched = s.dispatched \cup {current}
      /\ m.dirty = s.dirty /\ m.in_flight = s.in_flight /\ m.age = s.age
      /\ m.outage = s.outage /\ m.fresh = s.fresh
  BY <1>1 DEF SchedulerFits, Scheduler
<1>3. InFlight(m) = InFlight(s) /\ \A r : AttemptsOf(m, r) = AttemptsOf(s, r)
  BY <1>2 DEF InFlight, AttemptsOf
<1>4. SchedulerFits(m)
  BY <1>2, <1>3 DEF SchedulerFits
<1>5. PICK t : t = _settle(m, {current})
  OBVIOUS
<1>6. SchedulerFits(t) /\ t.in_flight = m.in_flight
  BY <1>4, <1>5, SettleFits
<1>7. Owned(t, NoRound)
  BY <1>2, <1>3, <1>4, <1>5, LeavesOwned DEF Owned
<1>8. Becomes(t) /\ phase' = "poll" /\ current' = NoRound /\ candidates' = 0
  BY <1>1, <1>5 DEF Dispatched
<1>9. Cardinality(InFlight(t)) <= worker_max_concurrent_tasks
  BY <1>2, <1>6 DEF InFlight
<1>10. 0 \in 0..dispatch_batch_limit /\ delay \in 0..BackoffCap
  BY RoundsAssumption DEF RoundsInv
<1>11. QED
  BY <1>6, <1>7, <1>8, <1>9, <1>10, RunGoesOn DEF Waiting

\* A listing or a claim leaves the scheduler as it is and the dispatcher at work.
LEMMA DispatcherGoesOn ==
    ASSUME RoundsInv, phase \in Dispatching, NEW s, SchedulerFits(s), Becomes(s),
           Owned(s, current), current \in s.rounds \ s.dispatched,
           Cardinality(InFlight(s)) <= worker_max_concurrent_tasks,
           phase' = "claim", candidates' \in 1..dispatch_batch_limit,
           UNCHANGED <<stop, down, current, delay>>
    PROVE  RoundsInv'
<1>1. candidates' \in 0..dispatch_batch_limit /\ candidates' > 0
  BY RoundsAssumption
<1>2. current \in RoundIds /\ delay \in 0..BackoffCap
  BY DispatcherView
<1>3. QED
  BY <1>1, <1>2, RunGoesOn DEF Dispatching

LEMMA ListStep ==
    ASSUME RoundsInv, list_dispatchable_tasks
    PROVE  RoundsInv'
<1>0. phase = "list" /\ phase \in Dispatching /\ UNCHANGED <<stop, down>>
  BY DEF list_dispatchable_tasks, Dispatching
<1>v. /\ SchedulerFits(Now) /\ Owned(Now, current)
      /\ current \in Now.rounds \ Now.dispatched /\ current \in RoundIds
      /\ Cardinality(InFlight(Now)) <= worker_max_concurrent_tasks
      /\ candidates \in 0..dispatch_batch_limit /\ delay \in 0..BackoffCap
  BY <1>0, DispatcherView
<1>s. PICK s : s = Now
  OBVIOUS
<1>1. CASE Unavailable(s)
  BY <1>0, <1>v, <1>s, <1>1, UnavailableKeeps
<1>2. CASE Fatal(s)
  BY <1>0, <1>v, <1>s, <1>2, FatalKeeps
<1>3. CASE Dispatched(s) /\ UNCHANGED delay
  BY <1>0, <1>v, <1>s, <1>3, DispatchedKeeps
<1>4. CASE /\ \E n \in 1..dispatch_batch_limit : candidates' = n
           /\ phase' = "claim"
           /\ UNCHANGED <<rounds, dispatched, dirty, current, in_flight, failure_since,
                          backoff, delay, outage, fresh>>
  <2>1. Becomes(s)
    BY <1>s, <1>4, NowFields DEF Becomes
  <2>2. QED
    BY <1>0, <1>v, <1>s, <1>4, <2>1, DispatcherGoesOn
<1>5. QED
  BY <1>s, <1>1, <1>2, <1>3, <1>4 DEF list_dispatchable_tasks

\* A granted candidate is one more attempt of the current round.
LEMMA AttemptStarts ==
    ASSUME RoundsInv, phase = "begin", NEW a \in Attempts \ InFlight(Now), NEW s,
           s = [Now EXCEPT !.in_flight[a] = [round |-> current, result |-> "running"]]
    PROVE  /\ SchedulerFits(s) /\ Owned(s, current) /\ current \in s.rounds \ s.dispatched
           /\ Cardinality(InFlight(s)) <= worker_max_concurrent_tasks
<1>v. /\ SchedulerFits(Now) /\ Owned(Now, current)
      /\ current \in Now.rounds \ Now.dispatched /\ current \in RoundIds
  BY DispatcherView DEF Dispatching
<1>1. PICK attempt : attempt = [round |-> current, result |-> "running"]
  OBVIOUS
<1>2. attempt \in AttemptRecord /\ attempt # NoAttempt /\ attempt.round = current
  BY <1>v, <1>1, Limits DEF AttemptRecord, NoAttempt
<1>3. /\ s \in Scheduler /\ s.rounds = rounds /\ s.fresh = fresh
      /\ s.dispatched = dispatched /\ s.dirty = dirty
      /\ s.in_flight = [in_flight EXCEPT ![a] = attempt]
      /\ s.age = failure_since /\ s.outage = outage
  <2>1. in_flight \in [Attempts -> AttemptRecord] /\ Now \in Scheduler
    BY <1>v, NowFields, SchedulerFields DEF SchedulerFits
  <2>2. [in_flight EXCEPT ![a] = attempt] \in [Attempts -> AttemptRecord]
    BY <1>2, <2>1
  <2>3. s = [Now EXCEPT !.in_flight = [in_flight EXCEPT ![a] = attempt]]
    BY <1>1, <2>1, NowFields DEF Scheduler
  <2>4. QED
    BY <2>1, <2>2, <2>3, NowFields DEF Scheduler
<1>4. in_flight \in [Attempts -> AttemptRecord]
  BY <1>v, NowFields, SchedulerFields DEF SchedulerFits
<1>5. InFlight(s) = InFlight(Now) \cup {a}
      /\ \A d \in InFlight(Now) : s.in_flight[d] = in_flight[d]
  BY <1>2, <1>3, <1>4, NowFields DEF InFlight
<1>6. SchedulerFits(s)
  <2>1. s.in_flight[a].round = current /\ current \in rounds
    BY <1>v, <1>2, <1>3, <1>4, NowFields
  <2>2. \A d \in InFlight(s) : s.in_flight[d].round \in s.rounds
    BY <1>v, <1>3, <1>5, <2>1, NowFields DEF SchedulerFits
  <2>3. QED
    BY <1>v, <1>3, <2>2, NowFields DEF SchedulerFits
<1>7. Owned(s, current)
  <2>1. \A r : AttemptsOf(Now, r) \subseteq AttemptsOf(s, r)
    BY <1>5, NowFields DEF AttemptsOf
  <2>2. QED
    BY <1>v, <1>3, <2>1, NowFields DEF Owned
<1>8. Cardinality(InFlight(s)) <= worker_max_concurrent_tasks
  <2>1. Cardinality(InFlight(Now)) < worker_max_concurrent_tasks
    BY DEF RoundsInv
  <2>2. Cardinality(InFlight(s)) = Cardinality(InFlight(Now)) + 1
    BY <1>5, InFlightIsFinite, FS_AddElement
  <2>3. QED
    BY <2>1, <2>2, InFlightIsFinite, Limits
<1>9. QED
  BY <1>v, <1>3, <1>6, <1>7, <1>8, NowFields

LEMMA BeginStep ==
    ASSUME RoundsInv, begin_task_attempt
    PROVE  RoundsInv'
<1>0. phase = "begin" /\ phase \in Dispatching /\ UNCHANGED <<stop, down>>
  BY DEF begin_task_attempt, Dispatching
<1>v. /\ SchedulerFits(Now) /\ Owned(Now, current)
      /\ current \in Now.rounds \ Now.dispatched /\ current \in RoundIds
      /\ Cardinality(InFlight(Now)) <= worker_max_concurrent_tasks
      /\ candidates \in 0..dispatch_batch_limit /\ delay \in 0..BackoffCap
  BY <1>0, DispatcherView
<1>n. candidates > 1 => candidates - 1 \in 1..dispatch_batch_limit
  BY <1>v, RoundsAssumption
<1>s. PICK s : s = Now
  OBVIOUS
<1>1. CASE Unavailable(s)
  BY <1>0, <1>v, <1>s, <1>1, UnavailableKeeps
<1>2. CASE Fatal(s)
  BY <1>0, <1>v, <1>s, <1>2, FatalKeeps
<1>3. CASE /\ candidates > 1 /\ phase' = "claim" /\ candidates' = candidates - 1
           /\ UNCHANGED <<rounds, dispatched, dirty, current, in_flight, failure_since,
                          backoff, outage, fresh>>
           /\ UNCHANGED delay
  <2>1. Becomes(s)
    BY <1>s, <1>3, NowFields DEF Becomes
  <2>2. QED
    BY <1>0, <1>v, <1>n, <1>s, <1>3, <2>1, DispatcherGoesOn
<1>4. CASE Dispatched(s) /\ UNCHANGED delay
  BY <1>0, <1>v, <1>s, <1>4, DispatchedKeeps
<1>5. ASSUME NEW a \in Attempts \ InFlight(Now), NEW t,
             t = [Now EXCEPT !.in_flight[a] = [round |-> current, result |-> "running"]],
             \/ /\ candidates > 1 /\ phase' = "claim" /\ candidates' = candidates - 1
                /\ Becomes(t) /\ UNCHANGED current
             \/ candidates = 1 /\ Dispatched(t),
             UNCHANGED delay
      PROVE  RoundsInv'
  <2>1. /\ SchedulerFits(t) /\ Owned(t, current) /\ current \in t.rounds \ t.dispatched
        /\ Cardinality(InFlight(t)) <= worker_max_concurrent_tasks
    BY <1>0, <1>5, AttemptStarts
  <2>2. CASE candidates > 1 /\ phase' = "claim" /\ candidates' = candidates - 1
             /\ Becomes(t) /\ UNCHANGED current
    BY <1>0, <1>n, <1>5, <2>1, <2>2, DispatcherGoesOn
  <2>3. CASE Dispatched(t)
    BY <1>0, <1>v, <1>5, <2>1, <2>3, DispatchedKeeps
  <2>4. QED
    BY <1>5, <2>2, <2>3
<1>6. QED
  BY <1>s, <1>1, <1>2, <1>3, <1>4, <1>5 DEF begin_task_attempt

\* A step that leaves the scheduler and the dispatcher alone.
LEMMA SchedulerStays ==
    ASSUME RoundsInv, UNCHANGED <<rounds, dispatched, dirty, in_flight, failure_since,
                                  backoff, outage, fresh>>
    PROVE  Now' = Now
BY DEF Now

LEMMA WaitingSteps ==
    ASSUME RoundsInv, PollAgain \/ BackedOff \/ StopSeen \/ RequestStop \/ DatabaseChanges
    PROVE  RoundsInv'
<1>1. UNCHANGED <<rounds, dispatched, dirty, in_flight, failure_since, backoff,
                  outage, fresh>>
  BY DEF PollAgain, BackedOff, StopSeen, RequestStop, DatabaseChanges
<1>2. Now' = Now
  BY <1>1, SchedulerStays
<1>3. CASE PollAgain \/ BackedOff
  <2>1. phase \in Waiting /\ phase' = "loop" /\ phase' \in Waiting /\ phase \notin Ends
        /\ phase' \notin Dispatching /\ phase' \notin {"list", "claim", "begin"}
        /\ UNCHANGED <<current, candidates, delay, stop, down>>
    BY <1>3 DEF PollAgain, BackedOff, Waiting, Ends, Dispatching
  <2>2. QED
    BY <1>1, <1>2, <2>1 DEF RoundsInv
<1>4. CASE StopSeen
  <2>1. phase \notin Ends /\ phase' = "drain" /\ current' = NoRound /\ candidates' = 0
        /\ delay' = 0 /\ UNCHANGED <<stop, down>>
        /\ phase' \notin Dispatching \cup Waiting \cup {"list", "claim", "begin"}
    BY <1>4 DEF StopSeen, Ends, Dispatching, Waiting
  <2>2. 0 \in 0..dispatch_batch_limit /\ 0 \in 0..BackoffCap
    BY RoundsAssumption, Limits
  <2>3. QED
    BY <1>1, <1>2, <2>1, <2>2 DEF RoundsInv
<1>5. CASE RequestStop \/ DatabaseChanges
  <2>1. UNCHANGED <<phase, current, candidates, delay>> /\ stop' \in BOOLEAN /\ down' \in BOOLEAN
    BY <1>5 DEF RequestStop, DatabaseChanges, RoundsInv
  <2>2. QED
    BY <1>1, <1>2, <2>1 DEF RoundsInv
<1>6. QED
  BY <1>3, <1>4, <1>5

LEMMA DrainStep ==
    ASSUME RoundsInv, _drain
    PROVE  RoundsInv'
<1>0. phase = "drain" /\ phase \notin Ends /\ UNCHANGED <<current, candidates, delay, stop, down>>
  BY DEF _drain, Ends
<1>1. SchedulerFits(Now)
  BY <1>0 DEF RoundsInv
<1>2. PICK s : s = Reaped(Now)
  OBVIOUS
<1>3. SchedulerEnded(s)
  BY <1>1, <1>2, ReapFits DEF SchedulerFits, SchedulerEnded
<1>4. PICK t : t = _cancel(s)
  OBVIOUS
<1>5. SchedulerEnded(t)
  BY <1>3, <1>4, CancelEnds
<1>6. Becomes(t) /\ phase' \in {"failed", "stopped"}
  BY <1>2, <1>4 DEF _drain, _reap
<1>7. QED
  BY <1>0, <1>5, <1>6, RunEnds DEF RoundsInv, Ends

LEMMA AttemptEnds ==
    ASSUME RoundsInv, NEW a \in Attempts, _run_attempt(a)
    PROVE  RoundsInv'
<1>1. PICK result \in {"done", "unavailable", "fatal"} :
        in_flight' = [in_flight EXCEPT ![a].result = result]
  BY DEF _run_attempt
<1>2. PICK s : s = Now'
  OBVIOUS
<1>3. in_flight \in [Attempts -> AttemptRecord] /\ in_flight[a].result = "running"
      /\ Now \in Scheduler
  BY NowFields, SchedulerFields DEF RoundsInv, SchedulerEnded, _run_attempt
<1>4. PICK attempt : attempt = [in_flight[a] EXCEPT !.result = result]
  OBVIOUS
<1>5. attempt \in AttemptRecord /\ attempt # NoAttempt /\ attempt.round = in_flight[a].round
      /\ in_flight[a] # NoAttempt
  BY <1>3, <1>4, Limits DEF AttemptRecord, NoAttempt
<1>6. in_flight' = [in_flight EXCEPT ![a] = attempt]
  BY <1>1, <1>3, <1>4
<1>7. /\ s.rounds = rounds /\ s.dispatched = dispatched /\ s.dirty = dirty
      /\ s.fresh = fresh /\ s.age = failure_since /\ s.outage = outage
      /\ s.in_flight = in_flight' /\ s.backoff = backoff
      /\ UNCHANGED <<phase, current, candidates, delay, stop, down, rounds, dispatched>>
  BY <1>2 DEF Now, _run_attempt
<1>8. s \in Scheduler
  <2>1. in_flight' \in [Attempts -> AttemptRecord]
    BY <1>3, <1>5, <1>6
  <2>2. s = [Now EXCEPT !.in_flight = in_flight']
    BY <1>2 DEF Now, _run_attempt
  <2>3. QED
    BY <1>3, <2>1, <2>2 DEF Scheduler
<1>9. InFlight(s) = InFlight(Now)
      /\ \A d \in InFlight(s) : s.in_flight[d].round = in_flight[d].round
  BY <1>3, <1>5, <1>6, <1>7, NowFields DEF InFlight
<1>10. \A r : AttemptsOf(s, r) = AttemptsOf(Now, r)
  BY <1>9, NowFields DEF AttemptsOf
<1>11. SchedulerEnded(s) /\ (phase \notin Ends => SchedulerFits(s))
       /\ \A c : Owned(Now, c) => Owned(s, c)
  BY <1>7, <1>8, <1>9, <1>10, NowFields DEF RoundsInv, SchedulerEnded, SchedulerFits, Owned
<1>12. QED
  BY <1>2, <1>7, <1>9, <1>11 DEF RoundsInv

LEMMA TickStep ==
    ASSUME RoundsInv, Tick
    PROVE  RoundsInv'
<1>0. phase \notin Ends /\ SchedulerFits(Now)
  BY DEF Tick, RoundsInv
<1>1. /\ failure_since = outage /\ failure_since \in None..FailureWindow
      /\ delay \in 0..BackoffCap /\ FailureWindow \in Nat /\ BackoffCap \in Nat
  BY <1>0, NowFields, SchedulerFields, Limits DEF SchedulerFits, RoundsInv
<1>2. failure_since' = outage' /\ failure_since' \in None..FailureWindow
      /\ delay' \in 0..BackoffCap
  BY <1>1 DEF Tick, None
<1>3. PICK s : s = [Now EXCEPT !.age = failure_since', !.outage = outage']
  OBVIOUS
<1>4. Now' = s /\ UNCHANGED <<phase, current, candidates, stop, down, rounds, dispatched>>
  BY <1>3 DEF Now, Tick
<1>5. /\ s \in Scheduler /\ s.rounds = rounds /\ s.dispatched = dispatched /\ s.dirty = dirty
      /\ s.fresh = fresh /\ s.age = failure_since' /\ s.outage = outage'
      /\ s.in_flight = in_flight
  BY <1>0, <1>2, <1>3, NowFields DEF SchedulerFits, Scheduler
<1>6. InFlight(s) = InFlight(Now) /\ \A r : AttemptsOf(s, r) = AttemptsOf(Now, r)
  BY <1>5, NowFields DEF InFlight, AttemptsOf
<1>7. SchedulerEnded(s) /\ SchedulerFits(s) /\ \A c : Owned(Now, c) => Owned(s, c)
  BY <1>0, <1>2, <1>5, <1>6, NowFields DEF SchedulerFits, SchedulerEnded, Owned
<1>8. QED
  BY <1>2, <1>4, <1>6, <1>7 DEF RoundsInv

-----------------------------------------------------------------------------
LEMMA InitRoundsInv == RoundsInit => RoundsInv
<1> SUFFICES ASSUME RoundsInit PROVE RoundsInv
  OBVIOUS
<1>1. /\ phase = "loop" /\ rounds = {} /\ dispatched = {} /\ dirty = {} /\ current = NoRound
      /\ candidates = 0 /\ in_flight = [a \in Attempts |-> NoAttempt]
      /\ failure_since = None /\ backoff = BackoffBase /\ delay = 0
      /\ stop = FALSE /\ down = FALSE /\ outage = None /\ fresh = {}
  BY DEF RoundsInit
<1>2. PICK s : s = Now
  OBVIOUS
<1>3. /\ s.rounds = {} /\ s.dispatched = {} /\ s.dirty = {} /\ s.fresh = {}
      /\ s.age = None /\ s.outage = None /\ s.backoff = BackoffBase
      /\ s.in_flight = [a \in Attempts |-> NoAttempt]
  BY <1>1, <1>2 DEF Now
<1>4. s \in Scheduler
  <2>1. [a \in Attempts |-> NoAttempt] \in [Attempts -> AttemptRecord]
    BY DEF AttemptRecord
  <2>2. QED
    BY <1>1, <1>2, <2>1, Limits DEF Now, Scheduler
<1>5. InFlight(s) = {}
  BY <1>3 DEF InFlight
<1>6. Cardinality(InFlight(s)) = 0
  BY <1>5, FS_EmptySet
<1>7. SchedulerFits(s) /\ SchedulerEnded(s) /\ Owned(s, NoRound)
  BY <1>3, <1>4, <1>5 DEF SchedulerFits, SchedulerEnded, Owned
<1>8. 0 \in 0..dispatch_batch_limit /\ 0 \in 0..BackoffCap /\ 0 <= worker_max_concurrent_tasks
  BY RoundsAssumption, Limits
<1>9. phase \in Waiting /\ phase \notin Ends /\ phase \notin Dispatching
      /\ phase \notin {"list", "claim", "begin"}
  BY <1>1 DEF Waiting, Ends, Dispatching
<1>10. QED
  BY <1>1, <1>2, <1>6, <1>7, <1>8, <1>9 DEF RoundsInv

LEMMA NextRoundsInv == RoundsInv /\ [RoundsNext]_wvars => RoundsInv'
<1> SUFFICES ASSUME RoundsInv, [RoundsNext]_wvars PROVE RoundsInv'
  OBVIOUS
<1>1. CASE LoopStep
  BY <1>1, OpenRoundStep, WaitForSlotStep, ListStep, BeginStep, WaitingSteps, DrainStep
     DEF LoopStep
<1>2. CASE Tick \/ RequestStop \/ DatabaseChanges
  BY <1>2, TickStep, WaitingSteps
<1>3. CASE \E a \in Attempts : _run_attempt(a)
  BY <1>3, AttemptEnds
<1>4. CASE UNCHANGED wvars
  <2>1. UNCHANGED <<rounds, dispatched, dirty, in_flight, failure_since, backoff,
                    outage, fresh>>
        /\ UNCHANGED <<phase, current, candidates, delay, stop, down>>
    BY <1>4 DEF wvars
  <2>2. Now' = Now
    BY <2>1, SchedulerStays
  <2>3. QED
    BY <2>1, <2>2 DEF RoundsInv
<1>5. QED
  BY <1>1, <1>2, <1>3, <1>4 DEF RoundsNext

\* However their attempts overlap, the failure window of the loop measures one continuous
\* outage, and every open round and every attempt in flight is accounted for (_settle,
\* _reap, _wait_for_slot).
THEOREM RoundsStayAccountedFor == RoundsSpec => []RoundsAreAccountedFor
<1>1. RoundsInv => RoundsAreAccountedFor
  <2> SUFFICES ASSUME RoundsInv PROVE RoundsAreAccountedFor
    OBVIOUS
  <2>1. /\ Now \in Scheduler /\ dispatched \subseteq rounds /\ dirty \subseteq rounds
    BY NowFields DEF RoundsInv, SchedulerEnded
  <2>2. RoundsTypeOK
    <3>1. in_flight \in [Attempts -> {NoAttempt} \cup
            [round: RoundIds, result: {"running", "done", "unavailable", "fatal"}]]
      BY <2>1, NowFields, SchedulerFields DEF AttemptRecord
    <3>2. QED
      BY <2>1, <3>1, NowFields, SchedulerFields
         DEF RoundsInv, RoundsTypeOK, Dispatching, Waiting
  <2>3. WindowIsContinuousOutage
    BY NowFields DEF RoundsInv, SchedulerFits, WindowIsContinuousOutage
  <2>4. RoundsAreOwned
    <3> SUFFICES ASSUME phase \notin Ends
                 PROVE  /\ \A r \in rounds :
                             r = current \/ AttemptsOf(Now, r) # {} \/ phase = "drain"
                        /\ \A a \in InFlight(Now) : in_flight[a].round \in rounds
                        /\ Cardinality(InFlight(Now)) <= worker_max_concurrent_tasks
      BY DEF RoundsAreOwned
    <3>1. SchedulerFits(Now) /\ Cardinality(InFlight(Now)) <= worker_max_concurrent_tasks
      BY DEF RoundsInv
    <3>2. phase = "drain" \/ Owned(Now, current)
      BY DEF RoundsInv
    <3>3. QED
      BY <3>1, <3>2, NowFields DEF SchedulerFits, Owned
  <2>5. QED
    BY <2>2, <2>3, <2>4 DEF RoundsAreAccountedFor
<1>2. QED
  BY <1>1, InitRoundsInv, NextRoundsInv, PTL DEF RoundsSpec

-----------------------------------------------------------------------------
(***************************************************************************)
(* Fatal results.                                                          *)
(***************************************************************************)
Swallowed(a) ==
    /\ in_flight[a].result = "fatal" /\ in_flight'[a].result # "fatal"
    /\ phase' \notin {"failed", "exhausted"}

LEMMA UnavailableKeepsAttempts ==
    ASSUME NEW s \in Scheduler, Unavailable(s)
    PROVE  phase' = "exhausted" \/ in_flight' = s.in_flight
<1>1. PICK m : m = [MarkDirty(s) EXCEPT !.fresh = {}]
  OBVIOUS
<1>2. m.in_flight = s.in_flight /\ DOMAIN m = DOMAIN s
  BY <1>1 DEF MarkDirty, Scheduler
<1>3. PICK t : t = _settle(m, {current})
  OBVIOUS
<1>4. t.in_flight = s.in_flight
  BY <1>1, <1>2, <1>3 DEF _settle, MarkDirty, Scheduler
<1>5. \/ phase' = "exhausted"
      \/ \E age, out :
           Becomes([[t EXCEPT !.age = age, !.outage = out]
                      EXCEPT !.backoff = Doubled(@)])
  BY <1>1, <1>3 DEF Unavailable
<1>6. QED
  BY <1>4, <1>5 DEF Becomes

LEMMA FatalIsRaised ==
    ASSUME NEW s \in Scheduler, NEW a \in Attempts, s.in_flight[a].result = "fatal"
    PROVE  _reap(s).raised = "fatal"
<1>1. s.in_flight[a] # NoAttempt
  BY DEF NoAttempt
<1>2. a \in EndedAs(s, "fatal")
  BY <1>1 DEF EndedAs, Ended, InFlight
<1>3. QED
  BY <1>2 DEF _reap

LEMMA NothingIsSwallowed ==
    ASSUME RoundsInv, [RoundsNext]_wvars, NEW a \in Attempts
    PROVE  ~Swallowed(a)
<1> SUFFICES ASSUME Swallowed(a) PROVE FALSE
  OBVIOUS
<1>0. /\ in_flight[a].result = "fatal" /\ in_flight'[a].result # "fatal" /\ in_flight' # in_flight
      /\ phase' # "failed" /\ phase' # "exhausted"
  BY DEF Swallowed
<1>t. Now \in Scheduler /\ Now.in_flight = in_flight
  BY NowFields DEF RoundsInv, SchedulerEnded
<1>r. PICK raised : raised = _reap(Now).raised
  OBVIOUS
<1>f. raised = "fatal"
  BY <1>0, <1>t, <1>r, FatalIsRaised
<1>1. CASE _wait_for_slot
  <2>1. Fatal(_reap(Now).state)
    BY <1>1, <1>f, <1>r DEF _wait_for_slot
  <2>2. QED
    BY <1>0, <2>1 DEF Fatal
<1>2. CASE _drain
  <2>1. phase' = "failed"
    BY <1>2, <1>f, <1>r DEF _drain
  <2>2. QED
    BY <1>0, <2>1
<1>u. ~Unavailable(Now) /\ ~Fatal(Now)
  BY <1>0, <1>t, UnavailableKeepsAttempts DEF Fatal
<1>d. ASSUME NEW s, s.in_flight = in_flight \/ s.in_flight[a] = in_flight[a], s \in Scheduler
      PROVE  ~Becomes(s) /\ ~Dispatched(s)
  <2>1. s.in_flight[a] = in_flight[a]
    BY <1>d
  <2>2. ~Becomes(s)
    BY <1>0, <2>1 DEF Becomes
  <2>3. ~Dispatched(s)
    <3> SUFFICES ASSUME Dispatched(s) PROVE FALSE
      OBVIOUS
    <3>1. in_flight' = s.in_flight
      BY <1>d DEF Dispatched, Becomes, _settle, Scheduler
    <3>2. QED
      BY <1>0, <2>1, <3>1
  <2>4. QED
    BY <2>2, <2>3
<1>3. CASE list_dispatchable_tasks
  BY <1>0, <1>3, <1>u, <1>t, <1>d DEF list_dispatchable_tasks
<1>4. CASE begin_task_attempt
  <2>1. PICK b, s :
          /\ b \in Attempts \ InFlight(Now)
          /\ s = [Now EXCEPT !.in_flight[b] = [round |-> current, result |-> "running"]]
          /\ Becomes(s) \/ Dispatched(s)
    BY <1>0, <1>4, <1>u, <1>t, <1>d DEF begin_task_attempt
  <2>2. phase = "begin"
    BY <1>4 DEF begin_task_attempt
  <2>3. s \in Scheduler
    BY <2>1, <2>2, AttemptStarts DEF SchedulerFits
  <2>4. b # a
    BY <1>0, <1>t, <2>1 DEF InFlight, NoAttempt
  <2>5. s.in_flight[a] = in_flight[a]
    BY <1>t, <2>1, <2>4 DEF Scheduler
  <2>6. QED
    BY <1>d, <2>1, <2>3, <2>5
<1>5. CASE \/ OpenRound \/ PollAgain \/ BackedOff \/ StopSeen \/ Tick \/ RequestStop
           \/ DatabaseChanges \/ UNCHANGED wvars
  BY <1>0, <1>5 DEF OpenRound, PollAgain, BackedOff, StopSeen, Tick, RequestStop,
     DatabaseChanges, wvars
<1>6. CASE \E b \in Attempts : _run_attempt(b)
  <2>1. PICK b \in Attempts, result \in {"done", "unavailable", "fatal"} :
          in_flight[b].result = "running" /\ in_flight' = [in_flight EXCEPT ![b].result = result]
    BY <1>6 DEF _run_attempt
  <2>2. in_flight \in [Attempts -> AttemptRecord]
    BY <1>t, SchedulerFields
  <2>3. QED
    BY <1>0, <2>1, <2>2
<1>7. QED
  BY <1>1, <1>2, <1>3, <1>4, <1>5, <1>6 DEF RoundsNext, LoopStep

\* A fatal result that the loop takes out of flight ends the process with an error, also
\* behind a transient one and during a drain (_reap raises it first, _drain keeps it).
THEOREM FatalEndsTheProcess == RoundsSpec => FatalIsNeverSwallowed
<1>1. RoundsInv /\ [RoundsNext]_wvars =>
        [\A a \in Attempts :
            in_flight[a].result = "fatal" /\ in_flight'[a].result # "fatal"
               => phase' \in {"failed", "exhausted"}]_wvars
  BY NothingIsSwallowed DEF Swallowed
<1>2. QED
  BY <1>1, InitRoundsInv, NextRoundsInv, PTL DEF RoundsSpec, FatalIsNeverSwallowed

-----------------------------------------------------------------------------
(***************************************************************************)
(* Tool calls.  What a certificate of admit_step says of its call, for     *)
(* every proposal, deviating ones included.                                *)
(***************************************************************************)
\* What the runner's proposals and their deviations have in common.
ProposalFits(p, x) ==
    /\ p.step.operation = x /\ p.call.operation = x
    /\ p.call.query = p.step.query
    /\ p.context.revision = POLICY_REVISION \/ p.plan.revision # POLICY_REVISION

LEMMA RunnersProposal ==
    ASSUME NEW x \in Operations, NEW p, p = Proposal(x)
    PROVE  /\ p.step.operation = x /\ p.call.operation = x /\ p.step.query = "compiled"
           /\ p.call.query = "compiled" /\ p.context.revision = POLICY_REVISION
           /\ DOMAIN p = {"plan", "step", "call", "target", "context", "approval", "hydrated"}
           /\ DOMAIN p.plan = {"revision", "profile"}
           /\ DOMAIN p.step = {"operation", "effect", "read", "side_effect", "arguments",
                               "envelope", "query"}
           /\ DOMAIN p.call = {"gateway", "operation", "arguments", "query", "timeout"}
           /\ DOMAIN p.context = {"revision", "tenant", "environment", "actor"}
BY DEF Proposal, _build_call, RequestContext

LEMMA ProposalsFit ==
    ASSUME NEW p \in Proposals
    PROVE  \E x \in Operations : ProposalFits(p, x)
<1>1. PICK x \in Operations : p \in {Proposal(x)} \cup Deviations(Proposal(x))
  BY DEF Proposals
<1>2. PICK b : b = Proposal(x)
  OBVIOUS
<1>b. /\ b.step.operation = x /\ b.call.operation = x /\ b.step.query = "compiled"
      /\ b.call.query = "compiled" /\ b.context.revision = POLICY_REVISION
      /\ DOMAIN b = {"plan", "step", "call", "target", "context", "approval", "hydrated"}
      /\ DOMAIN b.plan = {"revision", "profile"}
      /\ DOMAIN b.step = {"operation", "effect", "read", "side_effect", "arguments",
                          "envelope", "query"}
      /\ DOMAIN b.call = {"gateway", "operation", "arguments", "query", "timeout"}
      /\ DOMAIN b.context = {"revision", "tenant", "environment", "actor"}
  BY <1>2, RunnersProposal
<1>3. CASE p = b
  BY <1>b, <1>3 DEF ProposalFits
<1>4. CASE p \in {[b EXCEPT !.plan.revision = "old"],
                  [b EXCEPT !.plan.revision = "old", !.context.revision = "old"]}
  <2>1. PICK plan : plan = [b.plan EXCEPT !.revision = "old"]
    OBVIOUS
  <2>2. plan.revision = "old"
    BY <1>b, <2>1
  <2>3. PICK context : context = [b.context EXCEPT !.revision = "old"]
    OBVIOUS
  <2>4. \/ p = [b EXCEPT !.plan = plan]
        \/ p = [b EXCEPT !.plan = plan, !.context = context]
    BY <1>4, <2>1, <2>3
  <2>5. p.plan = plan /\ p.step = b.step /\ p.call = b.call
    BY <1>b, <2>4
  <2>6. QED
    BY <1>b, <2>2, <2>5 DEF ProposalFits, POLICY_REVISION
<1>5. CASE p \in {[b EXCEPT !.step.effect = "WRITE"], [b EXCEPT !.step.read = "UNBOUNDED"],
                  [b EXCEPT !.step.side_effect = TRUE]}
  BY <1>b, <1>5 DEF ProposalFits
<1>6. CASE p \in {[b EXCEPT !.call.gateway = "other"], [b EXCEPT !.call.timeout = 600]}
  <2>1. PICK other : other = [b.call EXCEPT !.gateway = "other"]
    OBVIOUS
  <2>2. PICK slow : slow = [b.call EXCEPT !.timeout = 600]
    OBVIOUS
  <2>3. /\ other.operation = x /\ other.query = "compiled"
        /\ slow.operation = x /\ slow.query = "compiled"
    BY <1>b, <2>1, <2>2
  <2>4. p = [b EXCEPT !.call = other] \/ p = [b EXCEPT !.call = slow]
    BY <1>6, <2>1, <2>2
  <2>5. /\ p.call = other \/ p.call = slow
        /\ p.plan = b.plan /\ p.step = b.step /\ p.context = b.context
    BY <1>b, <2>4
  <2>6. QED
    BY <1>b, <2>3, <2>5 DEF ProposalFits
<1>7. CASE p \in {[b EXCEPT !.target.tenant = "u"], [b EXCEPT !.target.environment = "staging"],
                  [b EXCEPT !.target.environment = "prod", !.context.environment = "prod"]}
  <2>1. PICK context : context = [b.context EXCEPT !.environment = "prod"]
    OBVIOUS
  <2>2. context.revision = POLICY_REVISION
    BY <1>b, <2>1
  <2>3. \/ p = [b EXCEPT !.target = [b.target EXCEPT !.tenant = "u"]]
        \/ p = [b EXCEPT !.target = [b.target EXCEPT !.environment = "staging"]]
        \/ p = [b EXCEPT !.target = [b.target EXCEPT !.environment = "prod"],
                         !.context = context]
    BY <1>7, <2>1
  <2>4. /\ p.context = b.context \/ p.context = context
        /\ p.plan = b.plan /\ p.step = b.step /\ p.call = b.call
    BY <1>b, <2>3
  <2>5. QED
    BY <1>b, <2>2, <2>4 DEF ProposalFits
<1>8. CASE p \in {[b EXCEPT !.hydrated.given = ~@], [b EXCEPT !.hydrated.arguments = "other"],
                  [b EXCEPT !.hydrated.readonly = FALSE]}
  BY <1>b, <1>8 DEF ProposalFits
<1>9. CASE p = Edited(b)
  <2>1. PICK step : step = [b.step EXCEPT !.query = "edited"]
    OBVIOUS
  <2>2. step.operation = x /\ step.query = "edited"
    BY <1>b, <2>1
  <2>3. p = [b EXCEPT !.step = step, !.call = _build_call(step)]
    BY <1>b, <1>9, <2>1 DEF Edited
  <2>4. p.step = step /\ p.call = _build_call(step) /\ p.context = b.context
    BY <1>b, <2>3
  <2>5. QED
    BY <1>b, <2>2, <2>4 DEF _build_call, ProposalFits
<1>10. CASE \E y \in DOMAIN Profiles : p = [b EXCEPT !.plan.profile = y]
  BY <1>b, <1>10 DEF ProposalFits
<1>11. CASE \E y \in SUBSET (SqlKeys \cup PromqlKeys) : p = [b EXCEPT !.step.envelope = y]
  BY <1>b, <1>11 DEF ProposalFits
<1>12. QED
  BY <1>1, <1>2, <1>3, <1>4, <1>5, <1>6, <1>7, <1>8, <1>9, <1>10, <1>11 DEF Deviations

\* A certified list or count carries the text of its template, under the active policy.
LEMMA CertificatesFit ==
    ASSUME NEW cert \in Certificates
    PROVE  /\ cert.admitted /\ cert.revision = POLICY_REVISION
           /\ cert.call.operation \in {"list", "count"} => cert.call.query = "compiled"
<1>1. PICK p \in Proposals : cert = admit_step(p) /\ admit_step(p).admitted
  BY DEF Certificates
<1>2. PICK x \in Operations : ProposalFits(p, x)
  BY ProposalsFit
<1>3. verify_policy_revision(p) /\ _verify_step_query(p)
      /\ cert = issue_admission_certificate(p)
  BY <1>1 DEF admit_step, NoCertificate
<1>4. cert.admitted /\ cert.revision = POLICY_REVISION /\ cert.call = p.call
  BY <1>2, <1>3 DEF issue_admission_certificate, ProposalFits, verify_policy_revision
<1>5. ASSUME cert.call.operation \in {"list", "count"} PROVE cert.call.query = "compiled"
  <2>1. x \in {"list", "count"} /\ p.step.operation = x
    BY <1>2, <1>4, <1>5 DEF ProposalFits
  <2>2. derive_effect(p.step.operation).requirement = "TEMPLATE_LOCKED"
    BY <2>1 DEF derive_effect, Snapshot, Spec
  <2>3. p.step.query = "compiled"
    BY <1>3, <2>2 DEF _verify_step_query
  <2>4. QED
    BY <1>2, <1>4, <2>3 DEF ProposalFits
<1>6. QED
  BY <1>4, <1>5
-----------------------------------------------------------------------------
(***************************************************************************)
(* The inductive invariant of the tool calls.  A call that got a thread is *)
(* certified for the bound target, and its thread walks through the five   *)
(* probes in order: what was verified says where it is.  Whatever          *)
(* certificates, timeouts and drifts come between, nothing but _admit,     *)
(* Forget and a refusal replace the record, and none does while a thread   *)
(* runs.                                                                   *)
(***************************************************************************)
Threads == {"none", "queued", "connecting", "probing", "querying", "closing", "done"}

ToolRecord ==
    [pc : {"idle", "admitted", "running"}, cert : Certificates \cup {NoCertificate},
     call : Calls \cup {NoCall}, thread : Threads, conn : {"none", "open", "closed"},
     verified : 0..Len(Probes), sent : BOOLEAN, response : {"none", "OK", "ERROR"},
     answer : {"none", "OK", "ERROR", "TIMEOUT", "malformed", "refused"}]

\* What invoke has established of a call before the adapter sees it.
Certified(r) ==
    /\ r.call.query = "compiled" /\ r.call.operation \in {"list", "count"}
    /\ r.cert.target = Target /\ r.cert.revision = POLICY_REVISION

CallFits(r) ==
    /\ r \in ToolRecord
    /\ r.pc = "admitted" =>
         /\ r.cert \in Certificates /\ r.thread = "none"
         /\ r.verified = 0 /\ ~r.sent /\ r.response = "none"
    /\ r.thread # "none" \/ r.sent \/ r.response = "OK" \/ r.pc = "running" => Certified(r)
    /\ r.thread = "probing" => r.verified < Len(Probes)
    /\ r.thread \in {"queued", "connecting"} => r.verified = 0
    /\ r.thread = "querying" \/ r.sent \/ r.response = "OK" => r.verified = Len(Probes)

ToolInv == inv \in [Invocations -> ToolRecord] /\ \A i \in Invocations : CallFits(inv[i])

LEMMA InitToolInv == ToolInit => ToolInv
<1>1. SUFFICES ASSUME ToolInit PROVE ToolInv
  OBVIOUS
<1>2. CallFits(Idle)
  BY DEF CallFits, Idle, ToolRecord, Threads, NoCall, NoCertificate, Probes
<1>3. inv = [i \in Invocations |-> Idle]
  BY <1>1 DEF ToolInit
<1>4. QED
  BY <1>2, <1>3 DEF ToolInv, CallFits

\* A step of one invocation keeps the others as they are.
LEMMA OneCallMoves ==
    ASSUME ToolInv, NEW i \in Invocations, NEW r, CallFits(r), inv' = [inv EXCEPT ![i] = r]
    PROVE  ToolInv'
<1>1. \A j \in Invocations : CallFits(inv'[j])
  <2>1. TAKE j \in Invocations
  <2>2. inv'[j] = IF j = i THEN r ELSE inv[j]
    BY DEF ToolInv
  <2>3. QED
    BY <2>2 DEF ToolInv
<1>2. inv' \in [Invocations -> ToolRecord]
  BY DEF ToolInv, CallFits
<1>3. (\A j \in Invocations : CallFits(inv[j]))'
  BY <1>1 DEF CallFits, Certified, ToolRecord
<1>4. QED
  BY <1>2, <1>3 DEF ToolInv

\* A call that has ended, whatever its answer, claims nothing.
LEMMA EndedCallFits ==
    ASSUME NEW answer \in {"none", "OK", "ERROR", "TIMEOUT", "malformed", "refused"}
    PROVE  CallFits([Idle EXCEPT !.answer = answer])
<1>1. PICK n : n = [Idle EXCEPT !.answer = answer]
  OBVIOUS
<1>2. /\ n.pc = "idle" /\ n.answer = answer
      /\ n.call = NoCall /\ n.thread = "none" /\ n.conn = "none" /\ n.verified = 0
      /\ n.sent = FALSE /\ n.response = "none" /\ n.cert \in Certificates \cup {NoCertificate}
      /\ n = [pc |-> n.pc, cert |-> n.cert, call |-> n.call, thread |-> n.thread,
              conn |-> n.conn, verified |-> n.verified, sent |-> n.sent,
              response |-> n.response, answer |-> n.answer]
  BY <1>1 DEF Idle
<1>p. 0 \in 0..Len(Probes)
  BY DEF Probes
<1>3. n \in ToolRecord
  BY <1>2, <1>p DEF ToolRecord, Threads
<1>4. CallFits(n)
  BY <1>2, <1>3 DEF CallFits
<1>5. QED
  BY <1>1, <1>4

LEMMA NewCallFits ==
    ASSUME NEW cert \in Certificates
    PROVE  CallFits([Idle EXCEPT !.pc = "admitted", !.cert = cert])
<1>1. PICK n : n = [Idle EXCEPT !.pc = "admitted", !.cert = cert]
  OBVIOUS
<1>2. /\ n.pc = "admitted" /\ n.cert = cert /\ n.answer = "none"
      /\ n.call = NoCall /\ n.thread = "none" /\ n.conn = "none" /\ n.verified = 0
      /\ n.sent = FALSE /\ n.response = "none" /\ n.cert \in Certificates \cup {NoCertificate}
      /\ n = [pc |-> n.pc, cert |-> n.cert, call |-> n.call, thread |-> n.thread,
              conn |-> n.conn, verified |-> n.verified, sent |-> n.sent,
              response |-> n.response, answer |-> n.answer]
  BY <1>1 DEF Idle
<1>p. 0 \in 0..Len(Probes)
  BY DEF Probes
<1>3. n \in ToolRecord
  BY <1>2, <1>p DEF ToolRecord, Threads
<1>4. CallFits(n)
  BY <1>2, <1>3 DEF CallFits
<1>5. QED
  BY <1>1, <1>4

\* What invoke hands to the adapter: the certified call, for the bound target.
LEMMA InvokedCallFits ==
    ASSUME NEW r, CallFits(r), r.pc = "admitted", NEW call \in Calls, NEW context,
           CertificateMatches(r.cert, call, context), r.cert.target = Binding.target,
           _validate_call(call)
    PROVE  CallFits([r EXCEPT !.pc = "running", !.call = call, !.thread = "queued"])
<1>1. PICK n : n = [r EXCEPT !.pc = "running", !.call = call, !.thread = "queued"]
  OBVIOUS
<1>2. r \in ToolRecord /\ r.cert \in Certificates
      /\ r.thread = "none" /\ r.verified = 0 /\ ~r.sent /\ r.response = "none"
  BY DEF CallFits
<1>3. /\ n \in ToolRecord /\ n.pc = "running" /\ n.call = call /\ n.thread = "queued"
      /\ n.cert = r.cert /\ n.verified = 0 /\ ~n.sent /\ n.response = "none"
  BY <1>1, <1>2 DEF ToolRecord, Threads
<1>4. r.cert.call = call /\ call.operation \in {"list", "count"} /\ r.cert.target = Target
  BY DEF CertificateMatches, _validate_call, Binding
<1>5. r.cert.revision = POLICY_REVISION /\ call.query = "compiled"
  BY <1>2, <1>4, CertificatesFit
<1>6. Certified(n)
  BY <1>3, <1>4, <1>5 DEF Certified
<1>7. QED
  BY <1>1, <1>3, <1>6 DEF CallFits

\* An exception in the thread: nothing was learnt, nothing was sent by it.
LEMMA FailedCallFits ==
    ASSUME NEW i \in Invocations, CallFits(inv[i]), inv[i].thread \in Threads \ {"none", "queued"},
           inv[i].pc # "admitted"
    PROVE  /\ CallFits(_failure(i))
           /\ inv[i].verified = Len(Probes) => CallFits([_failure(i) EXCEPT !.sent = TRUE])
<1>1. PICK n : n = _failure(i)
  OBVIOUS
<1>2. inv[i] \in ToolRecord /\ Certified(inv[i])
  BY DEF CallFits
<1>3. /\ n \in ToolRecord /\ n.pc = inv[i].pc /\ n.call = inv[i].call /\ n.cert = inv[i].cert
      /\ n.verified = inv[i].verified /\ n.sent = inv[i].sent /\ n.response = "ERROR"
      /\ n.thread \in {"closing", "done"}
  BY <1>1, <1>2 DEF _failure, ToolRecord, Threads
<1>4. Certified(n)
  BY <1>2, <1>3 DEF Certified
<1>5. CallFits(n)
  BY <1>3, <1>4 DEF CallFits
<1>6. ASSUME inv[i].verified = Len(Probes) PROVE CallFits([_failure(i) EXCEPT !.sent = TRUE])
  <2>1. PICK m : m = [n EXCEPT !.sent = TRUE]
    OBVIOUS
  <2>2. /\ m \in ToolRecord /\ m.pc = n.pc /\ m.call = n.call /\ m.cert = n.cert
        /\ m.verified = n.verified /\ m.sent = TRUE /\ m.response = "ERROR"
        /\ m.thread = n.thread
    BY <1>3, <2>1 DEF ToolRecord
  <2>3. Certified(m)
    BY <1>4, <2>2 DEF Certified
  <2>4. QED
    BY <1>1, <1>3, <1>6, <2>1, <2>2, <2>3 DEF CallFits
<1>7. QED
  BY <1>1, <1>5, <1>6

\* The caller's side: _admit, Forget, invoke, the timeout, and taking the response.
LEMMA CallerKeepsToolInv ==
    ASSUME ToolInv, NEW i \in Invocations,
           \/ \E cert \in Certificates : _admit(i, cert)
           \/ Forget(i)
           \/ \E call \in Calls, context \in Contexts : invoke(i, call, context)
           \/ TimesOut(i) \/ _issue(i) \/ Dropped(i)
    PROVE  ToolInv'
<1>0. CallFits(inv[i]) /\ inv[i] \in ToolRecord
  BY DEF ToolInv, CallFits
<1>e. CallFits(Idle)
  BY DEF CallFits, Idle, ToolRecord, Threads, NoCall, NoCertificate, Probes
<1>1. CASE \E cert \in Certificates : _admit(i, cert)
  BY <1>1, NewCallFits, OneCallMoves DEF _admit
<1>2. CASE Forget(i)
  BY <1>2, <1>e, OneCallMoves DEF Forget
<1>3. CASE \E call \in Calls, context \in Contexts : invoke(i, call, context)
  <2>1. PICK call \in Calls, context \in Contexts : invoke(i, call, context)
    BY <1>3
  <2>2. CASE \E answer \in {"OK", "ERROR", "TIMEOUT", "malformed", "refused"} :
                 inv' = [inv EXCEPT ![i] = [Idle EXCEPT !.answer = answer]]
    BY <2>2, EndedCallFits, OneCallMoves
  <2>3. CASE /\ CertificateMatches(inv[i].cert, call, context)
             /\ inv[i].cert.target = Binding.target /\ _validate_call(call)
             /\ inv' = [inv EXCEPT ![i].pc = "running", ![i].call = call,
                                   ![i].thread = "queued"]
    <3>1. CallFits([inv[i] EXCEPT !.pc = "running", !.call = call, !.thread = "queued"])
      BY <1>0, <2>1, <2>3, InvokedCallFits DEF invoke, At
    <3>2. inv' = [inv EXCEPT ![i] =
                     [inv[i] EXCEPT !.pc = "running", !.call = call, !.thread = "queued"]]
      BY <2>3 DEF ToolInv
    <3>3. QED
      BY <3>1, <3>2, OneCallMoves
  <2>4. QED
    BY <2>1, <2>2, <2>3 DEF invoke, Refuse
<1>4. CASE TimesOut(i)
  <2>t. PICK t : t = IF inv[i].thread = "queued" THEN "none" ELSE inv[i].thread
    OBVIOUS
  <2>0. t \in Threads /\ t \in {"none", inv[i].thread}
    BY <1>0, <2>t DEF ToolRecord, Threads
  <2>1. PICK n : n = [inv[i] EXCEPT !.pc = "idle", !.answer = "TIMEOUT", !.thread = t]
    OBVIOUS
  <2>2. /\ n \in ToolRecord /\ n.pc = "idle" /\ n.cert = inv[i].cert /\ n.call = inv[i].call
        /\ n.verified = inv[i].verified /\ n.sent = inv[i].sent
        /\ n.response = inv[i].response /\ n.thread \in {"none", inv[i].thread}
    BY <1>0, <2>0, <2>1 DEF ToolRecord
  <2>3. Certified(inv[i]) => Certified(n)
    BY <2>2 DEF Certified
  <2>4. CallFits(n)
    BY <1>0, <2>2, <2>3 DEF CallFits
  <2>5. inv' = [inv EXCEPT ![i] = n]
    BY <1>4, <2>t, <2>1 DEF TimesOut, ToolInv
  <2>6. QED
    BY <2>4, <2>5, OneCallMoves
<1>5. CASE _issue(i)
  <2>1. PICK n : n = [inv[i] EXCEPT !.pc = "idle", !.thread = "none",
                                    !.answer = inv[i].response]
    OBVIOUS
  <2>2. /\ n \in ToolRecord /\ n.pc = "idle" /\ n.cert = inv[i].cert /\ n.call = inv[i].call
        /\ n.verified = inv[i].verified /\ n.sent = inv[i].sent
        /\ n.response = inv[i].response /\ n.thread = "none"
    BY <1>0, <2>1 DEF ToolRecord, Threads
  <2>3. Certified(inv[i]) => Certified(n)
    BY <2>2 DEF Certified
  <2>4. CallFits(n)
    BY <1>0, <2>2, <2>3 DEF CallFits
  <2>5. inv' = [inv EXCEPT ![i] = n]
    BY <1>5, <2>1 DEF _issue, ToolInv
  <2>6. QED
    BY <2>4, <2>5, OneCallMoves
<1>6. CASE Dropped(i)
  <2>1. PICK n : n = [inv[i] EXCEPT !.thread = "none"]
    OBVIOUS
  <2>2. /\ n \in ToolRecord /\ n.pc = inv[i].pc /\ n.cert = inv[i].cert
        /\ n.call = inv[i].call /\ n.verified = inv[i].verified /\ n.sent = inv[i].sent
        /\ n.response = inv[i].response /\ n.thread = "none"
    BY <1>0, <2>1 DEF ToolRecord, Threads
  <2>3. Certified(inv[i]) => Certified(n)
    BY <2>2 DEF Certified
  <2>4. CallFits(n)
    BY <1>0, <2>2, <2>3 DEF CallFits
  <2>5. inv' = [inv EXCEPT ![i] = n]
    BY <1>6, <2>1 DEF Dropped, ToolInv
  <2>6. QED
    BY <2>4, <2>5, OneCallMoves
<1>7. QED
  BY <1>1, <1>2, <1>3, <1>4, <1>5, <1>6

\* The thread's side.  It runs on when its call has timed out; no call of the same
\* invocation is admitted before it is done.
LEMMA WorkKeepsToolInv ==
    ASSUME ToolInv, NEW i \in Invocations, Work(i)
    PROVE  ToolInv'
<1>0. CallFits(inv[i]) /\ inv[i] \in ToolRecord
  BY DEF ToolInv, CallFits
<1>t. inv[i].thread # "none"
  BY DEF Work, execute, connection_factory, _preflight, query, close, Thread
<1>c. Certified(inv[i]) /\ inv[i].pc # "admitted"
  BY <1>0, <1>t DEF CallFits
<1>n. Len(Probes) = 5
  BY DEF Probes
<1>v. inv[i].verified \in 0..5
  BY <1>0, <1>n DEF ToolRecord
<1>1. CASE execute(i)
  <2>1. PICK n : n = [inv[i] EXCEPT !.thread = "connecting"]
    OBVIOUS
  <2>2. /\ n \in ToolRecord /\ n.pc = inv[i].pc /\ n.cert = inv[i].cert
        /\ n.call = inv[i].call /\ n.verified = inv[i].verified /\ n.sent = inv[i].sent
        /\ n.response = inv[i].response /\ n.thread = "connecting"
    BY <1>0, <2>1 DEF ToolRecord, Threads
  <2>3. inv[i].thread = "queued"
    BY <1>1 DEF execute, Thread
  <2>4. CallFits(n)
    BY <1>0, <1>c, <2>2, <2>3 DEF CallFits, Certified
  <2>5. inv' = [inv EXCEPT ![i] = n]
    BY <1>1, <2>1 DEF execute, ToolInv
  <2>6. QED
    BY <2>4, <2>5, OneCallMoves
<1>2. CASE inv' = [inv EXCEPT ![i] = _failure(i)] /\ inv[i].thread \in {"connecting", "probing"}
  BY <1>0, <1>2, <1>c, FailedCallFits, OneCallMoves DEF Threads
<1>3. CASE /\ inv[i].thread = "connecting"
           /\ inv' = [inv EXCEPT ![i].thread = "probing", ![i].conn = "open"]
  <2>1. PICK n : n = [inv[i] EXCEPT !.thread = "probing", !.conn = "open"]
    OBVIOUS
  <2>2. /\ n \in ToolRecord /\ n.pc = inv[i].pc /\ n.cert = inv[i].cert
        /\ n.call = inv[i].call /\ n.verified = inv[i].verified /\ n.sent = inv[i].sent
        /\ n.response = inv[i].response /\ n.thread = "probing"
    BY <1>0, <2>1 DEF ToolRecord, Threads
  <2>3. inv[i].verified = 0
    BY <1>0, <1>3 DEF CallFits
  <2>4. CallFits(n)
    BY <1>0, <1>c, <1>n, <2>2, <2>3 DEF CallFits, Certified
  <2>5. inv' = [inv EXCEPT ![i] = n]
    BY <1>3, <2>1 DEF ToolInv
  <2>6. QED
    BY <2>4, <2>5, OneCallMoves
<1>4. CASE /\ inv[i].thread = "probing"
           /\ inv' = [inv EXCEPT ![i].verified = @ + 1,
                  ![i].thread = IF inv[i].verified + 1 = Len(Probes) THEN "querying" ELSE @]
  <2>1. PICK n : n = [inv[i] EXCEPT !.verified = @ + 1,
                  !.thread = IF inv[i].verified + 1 = Len(Probes) THEN "querying" ELSE @]
    OBVIOUS
  <2>2. inv[i].verified < 5 /\ ~inv[i].sent /\ inv[i].response # "OK"
    BY <1>0, <1>4, <1>n DEF CallFits
  <2>v. PICK v : v = inv[i].verified + 1
    OBVIOUS
  <2>w. v \in 0..5
    BY <1>v, <2>2, <2>v
  <2>p. PICK t : t = IF v = 5 THEN "querying" ELSE "probing"
    OBVIOUS
  <2>q. n = [inv[i] EXCEPT !.verified = v, !.thread = t]
    BY <1>4, <1>n, <2>1, <2>v, <2>p
  <2>3. /\ n \in ToolRecord /\ n.pc = inv[i].pc /\ n.cert = inv[i].cert
        /\ n.call = inv[i].call /\ n.verified = v /\ n.sent = inv[i].sent
        /\ n.response = inv[i].response /\ n.thread = t
    BY <1>0, <1>n, <2>w, <2>p, <2>q DEF ToolRecord, Threads
  <2>4. (t = "querying" /\ v = 5) \/ (t = "probing" /\ v < 5)
    BY <2>p, <2>w
  <2>5. CallFits(n)
    BY <1>0, <1>c, <1>n, <2>2, <2>3, <2>4 DEF CallFits, Certified
  <2>6. inv' = [inv EXCEPT ![i] = n]
    BY <1>4, <2>1 DEF ToolInv
  <2>7. QED
    BY <2>5, <2>6, OneCallMoves
<1>5. CASE \E batch \in Batches : query(i, batch)
  <2>1. PICK batch \in Batches : query(i, batch)
    BY <1>5
  <2>2. inv[i].thread = "querying" /\ inv[i].verified = Len(Probes)
    BY <1>0, <2>1 DEF query, Thread, CallFits
  <2>3. CASE inv' = [inv EXCEPT ![i] = [_failure(i) EXCEPT !.sent = TRUE]]
    BY <1>0, <1>c, <2>2, <2>3, FailedCallFits, OneCallMoves DEF Threads
  <2>4. CASE inv' = [inv EXCEPT ![i] =
                 [inv[i] EXCEPT !.sent = TRUE, !.response = "OK", !.thread = "closing"]]
    <3>1. PICK n : n = [inv[i] EXCEPT !.sent = TRUE, !.response = "OK", !.thread = "closing"]
      OBVIOUS
    <3>2. /\ n \in ToolRecord /\ n.pc = inv[i].pc /\ n.cert = inv[i].cert
          /\ n.call = inv[i].call /\ n.verified = inv[i].verified /\ n.sent = TRUE
          /\ n.response = "OK" /\ n.thread = "closing"
      BY <1>0, <3>1 DEF ToolRecord, Threads
    <3>3. CallFits(n)
      BY <1>c, <2>2, <3>2 DEF CallFits, Certified
    <3>4. QED
      BY <2>4, <3>1, <3>3, OneCallMoves
  <2>5. QED
    BY <2>1, <2>3, <2>4 DEF query
<1>6. CASE close(i)
  <2>1. PICK n : n = [inv[i] EXCEPT !.thread = "done", !.conn = "closed"]
    OBVIOUS
  <2>2. /\ n \in ToolRecord /\ n.pc = inv[i].pc /\ n.cert = inv[i].cert
        /\ n.call = inv[i].call /\ n.verified = inv[i].verified /\ n.sent = inv[i].sent
        /\ n.response = inv[i].response /\ n.thread = "done"
    BY <1>0, <2>1 DEF ToolRecord, Threads
  <2>3. CallFits(n)
    BY <1>0, <1>c, <2>2 DEF CallFits, Certified
  <2>4. inv' = [inv EXCEPT ![i] = n]
    BY <1>6, <2>1 DEF close, ToolInv
  <2>5. QED
    BY <2>3, <2>4, OneCallMoves
<1>7. QED
  BY <1>1, <1>2, <1>3, <1>4, <1>5, <1>6 DEF Work, connection_factory, _preflight, Thread

LEMMA NextToolInv == ToolInv /\ [ToolNext]_toolVars => ToolInv'
<1>1. SUFFICES ASSUME ToolInv, [ToolNext]_toolVars PROVE ToolInv'
  OBVIOUS
<1>2. CASE inv' = inv
  <2>1. inv' \in [Invocations -> ToolRecord] /\ \A i \in Invocations : CallFits(inv'[i])
    BY <1>1, <1>2 DEF ToolInv
  <2>2. QED
    BY <2>1 DEF ToolInv, CallFits, Certified
<1>3. CASE \E i \in Invocations :
             \/ \E cert \in Certificates : _admit(i, cert)
             \/ Forget(i)
             \/ \E call \in Calls, context \in Contexts : invoke(i, call, context)
             \/ TimesOut(i) \/ _issue(i) \/ Dropped(i)
  BY <1>1, <1>3, CallerKeepsToolInv
<1>4. CASE \E i \in Invocations : Work(i)
  BY <1>1, <1>4, WorkKeepsToolInv
<1>5. QED
  BY <1>1, <1>2, <1>3, <1>4 DEF ToolNext, WindowMoves, Drift, toolVars

\* Whatever certificates are presented with whatever calls, and however calls, timeouts and
\* drifts of the server overlap: a query is sent, and rows become a result, only for a
\* certified call with its template's text, on the bound target, after all five facts of
\* the server were found as approved on that connection (invoke, _preflight).
THEOREM ResultsAreEarned == ToolSpec => []EvidenceIsEarned
<1>1. ToolInv => EvidenceIsEarned
  BY DEF ToolInv, CallFits, Certified, EvidenceIsEarned
<1>2. QED
  BY <1>1, InitToolInv, NextToolInv, PTL DEF ToolSpec

-----------------------------------------------------------------------------
(***************************************************************************)
(* The plans of the two read-only capabilities (modules SlowQuery and      *)
(* AlertEvidence), for any time, threshold, filter, spelling and answer.   *)
(***************************************************************************)

\* All strings: the provers do not know that a literal is one.
Words == STRING \cup
    {"none", "invalid", "[::1]", "[0:0::1]", "::1", "db1", "db1.", "DB1", "10.0.0.1", "10.0.0.1.", "80", "080", "0",
     "HostHighCpu", "InstanceDown", "f1", "f2", "d1", "u1"}

SlowRequests ==
    [as_of : Int, minutes : 1 .. Slow!MAX_WINDOW_MINUTES, row_limit : 1 .. Slow!MAX_ROW_LIMIT,
     min_query_time_ms : Int, database : Words, user_name : Words]

SlowParams ==
    [window_start : Int, window_end : Int, row_limit : 1 .. Slow!MAX_ROW_LIMIT,
     min_query_time_ms : Int, database : Words, user_name : Words]
WholeMinutes(params) ==
    /\ \E m \in Int : params.window_start = 4 * m
    /\ \E m \in Int : params.window_end = 4 * m

\* A request makes valid parameters on whole minutes (normalise_window).
LEMMA SlowParamsAreValid ==
  ASSUME NEW request \in SlowRequests
  PROVE  /\ Slow!Params(request) \in SlowParams /\ Slow!Valid(Slow!Params(request))
         /\ WholeMinutes(Slow!Params(request))
<1> DEFINE end == 4 * (request.as_of \div 4)
           params == Slow!Params(request)
<1>1. request.as_of \in Int /\ request.minutes \in 1 .. 2 /\ request.row_limit \in 1 .. 2
      /\ request.min_query_time_ms \in Int /\ request.database \in Words /\ request.user_name \in Words
  BY DEF SlowRequests, Slow!MAX_WINDOW_MINUTES, Slow!MAX_ROW_LIMIT
<1>2. request.as_of \div 4 \in Int
  BY <1>1
<1>3. params = [window_start |-> end - request.minutes * 4, window_end |-> end,
                row_limit |-> request.row_limit, min_query_time_ms |-> request.min_query_time_ms,
                database |-> request.database, user_name |-> request.user_name]
  BY DEF Slow!Params, Slow!normalise_window, Slow!Minute
<1>4. end \in Int /\ end - request.minutes * 4 \in Int
  BY <1>1, <1>2
<1>5. params \in [window_start : Int, window_end : Int, row_limit : 1 .. 2,
                  min_query_time_ms : Int, database : Words, user_name : Words]
  BY <1>1, <1>3, <1>4
<1>6. Slow!Valid(params)
  BY <1>1, <1>3, <1>4 DEF Slow!Valid, Slow!Minute, Slow!MAX_WINDOW_MINUTES, Slow!MAX_ROW_LIMIT
<1>7. end - request.minutes * 4 = 4 * (request.as_of \div 4 - request.minutes)
  BY <1>1, <1>2
<1>8. params.window_end = end /\ params.window_start = end - request.minutes * 4
  BY <1>3
<1>9. request.as_of \div 4 - request.minutes \in Int
  BY <1>1, <1>2
<1>10. (\E m \in Int : params.window_end = 4 * m) /\ \E m \in Int : params.window_start = 4 * m
  <2> HIDE DEF params
  <2>1. QED
    BY <1>2, <1>7, <1>8, <1>9
<1>11. QED
  BY <1>5, <1>6, <1>10 DEF SlowParams, WholeMinutes, Slow!MAX_ROW_LIMIT

From(params) == Slow!Predicate("GTE", "timestamp", [at |-> params.window_start])
Until(params) == Slow!Predicate("LT", "timestamp", [at |-> params.window_end])

\* What a text needs to pass every rule but the last.
Bounded(where, params) ==
    /\ From(params) \in where /\ Until(params) \in where
    /\ \A q \in where : /\ q.op = "GTE" /\ q.column = "timestamp" => q = From(params)
                        /\ q.op = "LT" => q = Until(params)
                        /\ q.column \in {"timestamp", "queryTime", "db", "user"}
Plain(sql, params) ==
    /\ sql = Slow!Select(sql.columns, sql.aliases, sql.star, sql.where, sql.limit)
    /\ sql.columns \subseteq {"timestamp", "queryTime", "db", "user"}
    /\ sql.aliases \subseteq {"query_count"}
    /\ sql.star # "bare" /\ sql.limit \in 1 .. 2
    /\ Bounded(sql.where, params)

\* Both templates bound the window once on each side (_scope_predicates).
LEMMA ScopeIsBounded ==
  ASSUME NEW params \in SlowParams, WholeMinutes(params)
  PROVE  Bounded(Slow!_scope_predicates(params), params)
<1>1. Slow!_timestamp_literal(params.window_start) = params.window_start
  <2>1. PICK m \in Int : params.window_start = 4 * m
    BY DEF WholeMinutes
  <2>2. 2 * ((4 * m) \div 2) = 4 * m
    BY <2>1
  <2>3. QED
    BY <2>1, <2>2 DEF Slow!_timestamp_literal
<1>2. Slow!_timestamp_literal(params.window_end) = params.window_end
  <2>1. PICK m \in Int : params.window_end = 4 * m
    BY DEF WholeMinutes
  <2>2. 2 * ((4 * m) \div 2) = 4 * m
    BY <2>1
  <2>3. QED
    BY <2>1, <2>2 DEF Slow!_timestamp_literal
<1> DEFINE asked == {f \in Slow!ScopeFilters : params[f.slot] # Slow!NoFilter}
           filters == {Slow!Predicate("EQ", f.column, [is |-> params[f.slot]]) : f \in asked}
<1>3. Slow!_scope_predicates(params) = {From(params), Until(params)} \cup filters
  BY <1>1, <1>2 DEF Slow!_scope_predicates, Slow!surface, From, Until
<1>4. \A q \in filters : q.op = "EQ" /\ q.column \in {"db", "user"}
  BY DEF Slow!ScopeFilters, Slow!Predicate
<1>5. /\ From(params).op = "GTE" /\ From(params).column = "timestamp"
      /\ Until(params).op = "LT" /\ Until(params).column = "timestamp"
  BY DEF From, Until, Slow!Predicate
<1> HIDE DEF filters
<1>6. QED
  BY <1>3, <1>4, <1>5 DEF Bounded

\* What compile_sql writes breaks no rule of verify_sql but perhaps the last.
LEMMA CompiledTextIsPlain ==
  ASSUME NEW params \in SlowParams, WholeMinutes(params), NEW template \in Slow!TEMPLATE_IDS
  PROVE  Plain(Slow!compile_sql(template, params), params)
<1>1. Bounded(Slow!_scope_predicates(params), params)
  BY ScopeIsBounded
<1> DEFINE threshold == Slow!Predicate("GTE", "queryTime", [number |-> params.min_query_time_ms])
           where == Slow!_scope_predicates(params) \cup {threshold}
<1>2. threshold.op = "GTE" /\ threshold.column = "queryTime"
  BY DEF Slow!Predicate
<1>3. Bounded(where, params)
  <2> HIDE DEF threshold
  <2>1. QED
    BY <1>1, <1>2 DEF Bounded
<1>4. params.row_limit \in 1 .. 2
  BY DEF SlowParams, Slow!MAX_ROW_LIMIT
<1>5. Plain(Slow!_compile_list(params), params)
  BY <1>3, <1>4 DEF Plain, Slow!_compile_list, Slow!Select, Slow!surface
<1>6. Plain(Slow!_compile_count(params), params)
  BY <1>1 DEF Plain, Slow!_compile_count, Slow!Select, Slow!surface, Slow!COUNT_ROW_LIMIT
<1>7. QED
  BY <1>5, <1>6 DEF Slow!compile_sql

\* What a step carries is enough to write its text again.
LEMMA RestoredTextIsTheSame ==
  ASSUME NEW params \in SlowParams, NEW template \in Slow!TEMPLATE_IDS
  PROVE  LET restored == Slow!from_typed_arguments(Slow!to_typed_arguments(params, template))
         IN /\ restored \in SlowParams
            /\ restored.window_start = params.window_start
            /\ restored.window_end = params.window_end
            /\ Slow!compile_sql(template, restored) = Slow!compile_sql(template, params)
<1> DEFINE arguments == Slow!to_typed_arguments(params, template)
           restored == Slow!from_typed_arguments(arguments)
<1>1. /\ {"window_start", "window_end", "database", "user_name", "row_limit"} \subseteq DOMAIN arguments
      /\ template = "list" => "min_query_time_ms" \in DOMAIN arguments
      /\ \A key \in DOMAIN arguments : arguments[key] = params[key]
  BY DEF Slow!to_typed_arguments, Slow!TEMPLATE_PARAM_KEYS, Slow!ScopeKeys, Slow!LIST_V1
<1>2. /\ restored = [window_start |-> params.window_start, window_end |-> params.window_end,
                     row_limit |-> params.row_limit, database |-> params.database,
                     user_name |-> params.user_name, min_query_time_ms |-> restored.min_query_time_ms]
      /\ restored.min_query_time_ms \in Int
      /\ template = "list" => restored.min_query_time_ms = params.min_query_time_ms
  <2> HIDE DEF arguments
  <2>1. /\ arguments["window_start"] = params.window_start /\ arguments["window_end"] = params.window_end
        /\ arguments["row_limit"] = params.row_limit /\ arguments["database"] = params.database
        /\ arguments["user_name"] = params.user_name
        /\ "min_query_time_ms" \in DOMAIN arguments =>
             arguments["min_query_time_ms"] = params.min_query_time_ms
        /\ "database" \in DOMAIN arguments /\ "user_name" \in DOMAIN arguments
        /\ template = "list" => "min_query_time_ms" \in DOMAIN arguments
    BY <1>1
  <2>2. params.min_query_time_ms \in Int
    BY DEF SlowParams
  <2>3. QED
    BY <2>1, <2>2 DEF Slow!from_typed_arguments, Slow!DEFAULT_MIN_QUERY_TIME_MS
<1> HIDE DEF restored
<1>3. restored \in SlowParams
  BY <1>2 DEF SlowParams
<1>4. \A f \in Slow!ScopeFilters : restored[f.slot] = params[f.slot]
  BY <1>2 DEF Slow!ScopeFilters
<1>5. Slow!_scope_predicates(restored) = Slow!_scope_predicates(params)
  <2>1. {f \in Slow!ScopeFilters : restored[f.slot] # Slow!NoFilter}
          = {f \in Slow!ScopeFilters : params[f.slot] # Slow!NoFilter}
    BY <1>4
  <2>2. {Slow!Predicate("EQ", f.column, [is |-> restored[f.slot]]) :
           f \in {f \in Slow!ScopeFilters : restored[f.slot] # Slow!NoFilter}}
          = {Slow!Predicate("EQ", f.column, [is |-> params[f.slot]]) :
               f \in {f \in Slow!ScopeFilters : params[f.slot] # Slow!NoFilter}}
    BY <1>4, <2>1
  <2>3. restored.window_start = params.window_start /\ restored.window_end = params.window_end
    BY <1>2
  <2>4. QED
    BY <2>2, <2>3 DEF Slow!_scope_predicates
<1>6. CASE template = "list"
  <2>1. Slow!compile_sql(template, restored) = Slow!compile_sql(template, params)
    BY <1>2, <1>5, <1>6 DEF Slow!compile_sql, Slow!_compile_list, Slow!LIST_V1
  <2>2. QED
    BY <1>2, <1>3, <2>1 DEF restored
<1>7. CASE template # "list"
  <2>1. Slow!compile_sql(template, restored) = Slow!compile_sql(template, params)
    BY <1>5, <1>7 DEF Slow!compile_sql, Slow!_compile_count, Slow!LIST_V1
  <2>2. QED
    BY <1>2, <1>3, <2>1 DEF restored
<1>8. QED
  BY <1>6, <1>7

\* The first rule that refuses names the reason; comparing texts comes last.
LEMMA RulesInOrder ==
  ASSUME NEW sql, NEW params, NEW template \in Slow!TEMPLATE_IDS
  PROVE  LET why == Slow!verify_sql(sql, params, template)
             single == Slow!_parse_single_statement(sql)
             nodes == Slow!_check_nodes(sql)
             limit == Slow!_check_limit(sql)
             bounds == Slow!_check_window(sql, params)
         IN /\ sql.odd_character => why = "AMBIGUOUS_CHARACTER"
            /\ ~sql.odd_character =>
                 /\ single # "none" => why = single
                 /\ single = "none" /\ nodes # "none" => why = nodes
                 /\ single = "none" /\ nodes = "none" /\ limit # "none" => why = limit
                 /\ single = "none" /\ nodes = "none" /\ limit = "none" /\ bounds # "none" => why = bounds
                 /\ single = "none" /\ nodes = "none" /\ limit = "none" /\ bounds = "none" =>
                      /\ sql = Slow!compile_sql(template, params) => why = "none"
                      /\ sql # Slow!compile_sql(template, params) => why = "RECOMPILE_MISMATCH"
<1> DEFINE rules == <<IF template \notin Slow!TEMPLATE_IDS THEN "UNKNOWN_TEMPLATE" ELSE "none",
                   IF sql.odd_character THEN "AMBIGUOUS_CHARACTER" ELSE "none",
                   Slow!_parse_single_statement(sql), Slow!_check_nodes(sql), Slow!_check_limit(sql),
                   Slow!_check_window(sql, params),
                   IF template \in Slow!TEMPLATE_IDS /\ sql = Slow!compile_sql(template, params)
                   THEN "none" ELSE "RECOMPILE_MISMATCH">>
           refusing == {i \in DOMAIN rules : rules[i] # "none"}
           why == Slow!verify_sql(sql, params, template)
<1>1. DOMAIN rules = 1 .. 7
  OBVIOUS
<1>2. why = IF refusing = {} THEN "none" ELSE rules[CHOOSE i \in refusing : \A j \in refusing : i <= j]
  BY DEF Slow!verify_sql
<1>3. /\ rules[1] = "none"
      /\ rules[2] = IF sql.odd_character THEN "AMBIGUOUS_CHARACTER" ELSE "none"
      /\ rules[3] = Slow!_parse_single_statement(sql) /\ rules[4] = Slow!_check_nodes(sql)
      /\ rules[5] = Slow!_check_limit(sql) /\ rules[6] = Slow!_check_window(sql, params)
      /\ rules[7] = IF sql = Slow!compile_sql(template, params) THEN "none" ELSE "RECOMPILE_MISMATCH"
  OBVIOUS
<1> HIDE DEF rules, why
<1>4. (\A i \in 1 .. 7 : rules[i] = "none") => why = "none"
  BY <1>1, <1>2
<1>5. ASSUME NEW n \in 1 .. 7, rules[n] # "none", \A i \in 1 .. 7 : i < n => rules[i] = "none"
      PROVE  why = rules[n]
  <2>1. n \in refusing /\ \A j \in refusing : n <= j
    BY <1>1, <1>5
  <2>2. \A i \in refusing : (\A j \in refusing : i <= j) => i = n
    BY <1>1, <2>1
  <2>3. (CHOOSE i \in refusing : \A j \in refusing : i <= j) = n
    BY <2>1, <2>2
  <2>4. QED
    BY <1>2, <2>1, <2>3
<1>6. /\ rules[2] # "none" => why = rules[2]
      /\ rules[2] = "none" /\ rules[3] # "none" => why = rules[3]
      /\ rules[2] = "none" /\ rules[3] = "none" /\ rules[4] # "none" => why = rules[4]
      /\ rules[2] = "none" /\ rules[3] = "none" /\ rules[4] = "none" /\ rules[5] # "none" => why = rules[5]
      /\ rules[2] = "none" /\ rules[3] = "none" /\ rules[4] = "none" /\ rules[5] = "none"
           /\ rules[6] # "none" => why = rules[6]
      /\ rules[2] = "none" /\ rules[3] = "none" /\ rules[4] = "none" /\ rules[5] = "none"
           /\ rules[6] = "none" /\ rules[7] # "none" => why = rules[7]
      /\ rules[2] = "none" /\ rules[3] = "none" /\ rules[4] = "none" /\ rules[5] = "none"
           /\ rules[6] = "none" /\ rules[7] = "none" => why = "none"
  BY <1>3, <1>4, <1>5
<1>7. QED
  BY <1>3, <1>6 DEF why

\* The rules on the bounds of a text that has one of each.
LEMMA BoundsAreRead ==
  ASSUME NEW params \in SlowParams, NEW sql, Bounded(sql.where, params)
  PROVE  /\ Slow!_window_literal(sql, "GTE") = {params.window_start}
         /\ Slow!_window_literal(sql, "LT") = {params.window_end}
<1>1. /\ From(params).op = "GTE" /\ From(params).column = "timestamp" /\ From(params).value.at = params.window_start
      /\ Until(params).op = "LT" /\ Until(params).column = "timestamp" /\ Until(params).value.at = params.window_end
  BY DEF From, Until, Slow!Predicate
<1>2. QED
  BY <1>1 DEF Slow!_window_literal, Bounded, Slow!surface

\* Every rule of verify_sql but the last admits such a text.
LEMMA PlainTextPasses ==
  ASSUME NEW params \in SlowParams, Slow!Valid(params), NEW sql, Plain(sql, params)
  PROVE  /\ ~sql.odd_character
         /\ Slow!_parse_single_statement(sql) = "none"
         /\ Slow!_check_nodes(sql) = "none"
         /\ Slow!_check_limit(sql) = "none"
         /\ Slow!_check_window(sql, params) = "none"
<1>1. /\ ~sql.odd_character /\ ~sql.comment /\ ~sql.odd_node /\ sql.table = "audit"
      /\ sql.statements = 1 /\ sql.root = "Select"
  BY DEF Plain, Slow!Select
<1>2. Slow!_parse_single_statement(sql) = "none"
  BY <1>1 DEF Slow!_parse_single_statement
<1>3. Slow!_check_nodes(sql) = "none"
  BY <1>1 DEF Slow!_check_nodes, Plain, Bounded, Slow!surface
<1>4. Slow!_check_limit(sql) = "none"
  BY DEF Slow!_check_limit, Plain, Slow!MAX_ROW_LIMIT
<1>5. Slow!_check_window(sql, params) = "none"
  <2>1. /\ Slow!_window_literal(sql, "GTE") = {params.window_start}
        /\ Slow!_window_literal(sql, "LT") = {params.window_end}
    BY BoundsAreRead DEF Plain
  <2>2. ~(params.window_end - params.window_start > Slow!MAX_WINDOW_MINUTES * Slow!Minute)
    BY DEF Slow!Valid, SlowParams, Slow!MAX_WINDOW_MINUTES, Slow!Minute
  <2>3. QED
    BY <2>1, <2>2 DEF Slow!_check_window
<1>6. QED
  BY <1>1, <1>2, <1>3, <1>4, <1>5

\* A text with other predicates is the same text otherwise.
LEMMA OtherRows ==
  ASSUME NEW c, NEW a, NEW st, NEW w, NEW l, NEW v
  PROVE  [Slow!Select(c, a, st, w, l) EXCEPT !.where = v] = Slow!Select(c, a, st, v, l)
<1> DEFINE old == Slow!Select(c, a, st, w, l)
           new == Slow!Select(c, a, st, v, l)
<1>1. old = [f \in DOMAIN old |-> old[f]] /\ new = [f \in DOMAIN new |-> new[f]]
  BY DEF Slow!Select
<1>2. DOMAIN old = DOMAIN new /\ "where" \in DOMAIN old
  BY DEF Slow!Select
<1>3. new["where"] = v /\ \A f \in DOMAIN old : f # "where" => new[f] = old[f]
  <2>1. /\ new["root"] = old["root"] /\ new["statements"] = old["statements"]
        /\ new["odd_character"] = old["odd_character"] /\ new["comment"] = old["comment"]
        /\ new["odd_node"] = old["odd_node"] /\ new["table"] = old["table"]
        /\ new["columns"] = old["columns"] /\ new["aliases"] = old["aliases"]
        /\ new["star"] = old["star"] /\ new["limit"] = old["limit"] /\ new["where"] = v
    BY DEF Slow!Select
  <2>2. DOMAIN old = {"root", "statements", "odd_character", "comment", "odd_node", "table", "columns",
                      "aliases", "star", "where", "limit"}
    BY DEF Slow!Select
  <2> HIDE DEF old, new
  <2>3. QED
    BY <2>1, <2>2
<1> HIDE DEF old, new
<1>4. [old EXCEPT !["where"] = v] = [f \in DOMAIN old |-> IF f = "where" THEN v ELSE old[f]]
  BY <1>1
<1>5. [old EXCEPT !["where"] = v] = new
  BY <1>1, <1>2, <1>3, <1>4
<1>6. QED
  BY <1>5 DEF old, new

\* One edit of a plain text makes the rule named for it the first to refuse.
LEMMA EditsAreNamed ==
  ASSUME NEW params \in SlowParams, Slow!Valid(params), NEW template \in Slow!TEMPLATE_IDS,
         NEW text, Plain(text, params), text = Slow!compile_sql(template, params),
         NEW edit \in Slow!Edits, Slow!Edited(text, edit) # text
  PROVE  Slow!verify_sql(Slow!Edited(text, edit), params, template) = edit.why
<1> DEFINE sql == Slow!Edited(text, edit)
<1>1. /\ ~text.odd_character /\ ~text.comment /\ ~text.odd_node /\ text.table = "audit"
      /\ text.statements = 1 /\ text.root = "Select"
      /\ text = Slow!Select(text.columns, text.aliases, text.star, text.where, text.limit)
  BY DEF Plain, Slow!Select
<1>2. DOMAIN text = {"root", "statements", "odd_character", "comment", "odd_node", "table", "columns",
                      "aliases", "star", "where", "limit"}
  <2>1. PICK c, a, st, w, l : text = Slow!Select(c, a, st, w, l)
    BY <1>1
  <2>2. QED
    BY <2>1 DEF Slow!Select
<1>3. /\ Slow!_parse_single_statement(text) = "none" /\ Slow!_check_nodes(text) = "none"
      /\ Slow!_check_limit(text) = "none" /\ Slow!_check_window(text, params) = "none"
  BY PlainTextPasses
<1>4. CASE edit.what = "odd_character"
  <2>1. sql.odd_character /\ edit.why = "AMBIGUOUS_CHARACTER"
    BY <1>1, <1>4 DEF Slow!Edited, Slow!Edits, Slow!Select
  <2>2. QED
    BY <2>1, RulesInOrder
<1>5. CASE edit.what \in {"second", "write"}
  <2>1. ~sql.odd_character /\ Slow!_parse_single_statement(sql) = edit.why /\ edit.why # "none"
    BY <1>1, <1>5 DEF Slow!Edited, Slow!Edits, Slow!Select, Slow!_parse_single_statement
  <2>2. QED
    BY <2>1, RulesInOrder
<1>6. CASE edit.what \in {"comment", "odd_node", "star", "table", "column", "alias"}
  <2>1. ~sql.odd_character /\ Slow!_parse_single_statement(sql) = "none"
    BY <1>1, <1>6 DEF Slow!Edited, Slow!Edits, Slow!Select, Slow!_parse_single_statement
  <2>2. Slow!_check_nodes(sql) = edit.why /\ edit.why # "none"
    <3>1. CASE edit.what = "comment"
      BY <1>1, <3>1 DEF Slow!Edited, Slow!Edits, Slow!Select, Slow!_check_nodes
    <3>2. CASE edit.what = "odd_node"
      BY <1>1, <3>2 DEF Slow!Edited, Slow!Edits, Slow!Select, Slow!_check_nodes
    <3>3. CASE edit.what = "star"
      BY <1>1, <3>3 DEF Slow!Edited, Slow!Edits, Slow!Select, Slow!_check_nodes
    <3>4. CASE edit.what = "table"
      BY <1>1, <3>4 DEF Slow!Edited, Slow!Edits, Slow!Select, Slow!_check_nodes, Slow!surface, Plain
    <3>5. CASE edit.what \in {"column", "alias"}
      <4>1. /\ ~sql.comment /\ ~sql.odd_node /\ sql.star # "bare" /\ sql.table = "audit"
            /\ "other_column" \in sql.columns \/ "other" \in sql.aliases
            /\ edit.why = "COLUMN_NOT_ALLOWED"
        <5>1. text.star # "bare"
          BY DEF Plain
        <5>2. CASE edit.what = "column"
          <6>1. sql = [text EXCEPT !.columns = @ \cup {"other_column"}] /\ edit.why = "COLUMN_NOT_ALLOWED"
            BY <5>2 DEF Slow!Edited, Slow!Edits
          <6>2. QED
            BY <1>1, <1>2, <5>1, <6>1
        <5>3. CASE edit.what = "alias"
          <6>1. sql = [text EXCEPT !.aliases = @ \cup {"other"}] /\ edit.why = "COLUMN_NOT_ALLOWED"
            BY <5>3 DEF Slow!Edited, Slow!Edits
          <6>2. QED
            BY <1>1, <1>2, <5>1, <6>1
        <5>4. QED
          BY <3>5, <5>2, <5>3
      <4> HIDE DEF sql
      <4>2. QED
        BY <4>1 DEF Slow!_check_nodes, Slow!surface
    <3>6. QED
      BY <1>6, <3>1, <3>2, <3>3, <3>4, <3>5
  <2>3. QED
    BY <2>1, <2>2, RulesInOrder
<1>7. CASE edit.what \in {"no_limit", "more"}
  <2>1. /\ ~sql.odd_character /\ Slow!_parse_single_statement(sql) = "none"
        /\ Slow!_check_nodes(sql) = Slow!_check_nodes(text)
    <3>1. PICK n \in Int : sql = [text EXCEPT !.limit = n]
      <4>1. CASE edit.what = "no_limit"
        BY <4>1 DEF Slow!Edited
      <4>2. CASE edit.what = "more"
        BY <4>2 DEF Slow!Edited, Slow!MAX_ROW_LIMIT
      <4>3. QED
        BY <1>7, <4>1, <4>2
    <3>2. /\ sql.odd_character = text.odd_character /\ sql.statements = text.statements
          /\ sql.root = text.root /\ sql.comment = text.comment /\ sql.odd_node = text.odd_node
          /\ sql.star = text.star /\ sql.table = text.table /\ sql.columns = text.columns
          /\ sql.aliases = text.aliases /\ sql.where = text.where
      BY <1>2, <3>1
    <3> HIDE DEF sql
    <3>3. QED
      BY <1>1, <3>2 DEF Slow!_parse_single_statement, Slow!_check_nodes
  <2>2. Slow!_check_limit(sql) = edit.why /\ edit.why # "none"
    BY <1>1, <1>7 DEF Slow!Edited, Slow!Edits, Slow!Select, Slow!_check_limit, Slow!MAX_ROW_LIMIT
  <2>3. QED
    BY <1>3, <2>1, <2>2, RulesInOrder
<1>8. CASE edit.what \in {"no_lower", "earlier", "no_filter"}
  <2> DEFINE where ==
        IF edit.what = "no_lower" THEN {p \in text.where : p.op # "GTE"}
        ELSE IF edit.what = "earlier"
        THEN {IF p.op = "GTE" /\ p.column = "timestamp"
              THEN [p EXCEPT !.value = [at |-> @.at - 2]] ELSE p : p \in text.where}
        ELSE {p \in text.where : p.op # "EQ"}
  <2>1. sql = [text EXCEPT !.where = where]
    BY <1>8 DEF Slow!Edited
  <2> HIDE DEF where, sql
  <2>2. sql = Slow!Select(text.columns, text.aliases, text.star, where, text.limit)
    <3>1. PICK c, a, st, w, l : text = Slow!Select(c, a, st, w, l)
      BY <1>1
    <3>2. text.columns = c /\ text.aliases = a /\ text.star = st /\ text.limit = l
      BY <3>1 DEF Slow!Select
    <3>3. [Slow!Select(c, a, st, w, l) EXCEPT !.where = where] = Slow!Select(c, a, st, where, l)
      BY OtherRows
    <3>4. sql = Slow!Select(c, a, st, where, l)
      BY <2>1, <3>1, <3>3
    <3>5. QED
      BY <3>2, <3>4
  <2>3. /\ ~sql.odd_character /\ Slow!_parse_single_statement(sql) = "none"
        /\ Slow!_check_limit(sql) = "none"
    BY <1>1, <1>3, <2>2 DEF Slow!Select, Slow!_parse_single_statement, Slow!_check_limit
  <2> DEFINE Earlier == Slow!Predicate("GTE", "timestamp", [at |-> params.window_start - 2])
  <2>4. \A p \in text.where : p.op = "GTE" /\ p.column = "timestamp" => p = From(params)
    BY DEF Plain, Bounded
  <2>5. /\ [From(params) EXCEPT !.value = [at |-> @.at - 2]] = Earlier
         /\ Earlier.op = "GTE" /\ Earlier.column = "timestamp" /\ Earlier.value.at = params.window_start - 2
         /\ From(params).op = "GTE" /\ From(params).column = "timestamp"
         /\ Until(params).op = "LT"
    BY DEF From, Until, Slow!Predicate
  <2> HIDE DEF Earlier
  <2>6. \A q \in where : q.column \in {"timestamp", "queryTime", "db", "user"}
    <3>1. \A q \in text.where : q.column \in {"timestamp", "queryTime", "db", "user"}
      BY DEF Plain, Bounded
    <3>2. CASE edit.what = "earlier"
      <4>1. \A q \in where : \E p \in text.where :
              q = IF p.op = "GTE" /\ p.column = "timestamp" THEN [p EXCEPT !.value = [at |-> @.at - 2]] ELSE p
        BY <3>2 DEF where
      <4>2. \A p \in text.where : p.op = "GTE" /\ p.column = "timestamp" =>
              [p EXCEPT !.value = [at |-> @.at - 2]] = Earlier
        BY <2>4, <2>5
      <4>3. ASSUME NEW q \in where
            PROVE  q.column \in {"timestamp", "queryTime", "db", "user"}
        <5>1. PICK p \in text.where :
                q = IF p.op = "GTE" /\ p.column = "timestamp" THEN [p EXCEPT !.value = [at |-> @.at - 2]] ELSE p
          BY <4>1, <4>3
        <5>2. CASE p.op = "GTE" /\ p.column = "timestamp"
          <6>1. q = Earlier
            BY <4>2, <5>1, <5>2
          <6>2. QED
            BY <2>5, <6>1
        <5>3. CASE ~(p.op = "GTE" /\ p.column = "timestamp")
          <6>1. q = p
            BY <5>1, <5>3
          <6>2. QED
            BY <3>1, <6>1
        <5>4. QED
          BY <5>2, <5>3
      <4>4. QED
        BY <4>3
    <3>3. CASE edit.what # "earlier"
      <4>1. where \subseteq text.where
        BY <3>3 DEF where
      <4>2. QED
        BY <3>1, <4>1
    <3>4. QED
      BY <3>2, <3>3
  <2>7. Slow!_check_nodes(sql) = "none"
    BY <1>1, <2>2, <2>6 DEF Slow!Select, Slow!_check_nodes, Slow!surface, Plain
  <2>8. CASE edit.what = "no_lower"
    <3>1. Slow!_window_literal(sql, "GTE") = {}
      BY <2>2, <2>8 DEF where, Slow!_window_literal, Slow!Select
    <3>2. Slow!_check_window(sql, params) = edit.why /\ edit.why # "none"
      BY <3>1, <2>8 DEF Slow!_check_window, Slow!Edits
    <3>3. QED
      BY <2>3, <2>7, <3>2, RulesInOrder DEF sql
  <2>9. CASE edit.what = "earlier"
    <3>1. \A q \in where : q.op = "GTE" /\ q.column = "timestamp" => q = Earlier
      <4>1. \A q \in where : \E p \in text.where :
              q = IF p.op = "GTE" /\ p.column = "timestamp" THEN [p EXCEPT !.value = [at |-> @.at - 2]] ELSE p
        BY <2>9 DEF where
      <4>2. QED
        BY <2>4, <2>5, <4>1
    <3>2. Earlier \in where
      <4>1. From(params) \in text.where
        BY DEF Plain, Bounded
      <4>2. (IF From(params).op = "GTE" /\ From(params).column = "timestamp"
             THEN [From(params) EXCEPT !.value = [at |-> @.at - 2]] ELSE From(params)) \in where
        BY <2>9, <4>1 DEF where
      <4>3. QED
        BY <2>5, <4>2
    <3>3. Until(params) \in where
      <4>1. Until(params) \in text.where
        BY DEF Plain, Bounded
      <4>2. (IF Until(params).op = "GTE" /\ Until(params).column = "timestamp"
             THEN [Until(params) EXCEPT !.value = [at |-> @.at - 2]] ELSE Until(params)) \in where
        BY <2>9, <4>1 DEF where
      <4>3. QED
        BY <2>5, <4>2
    <3>4. sql.where = where
      BY <2>2 DEF Slow!Select
    <3>5. Slow!_window_literal(sql, "GTE") = {params.window_start - 2}
      BY <2>5, <3>1, <3>2, <3>4 DEF Slow!_window_literal, Slow!surface
    <3>6. Slow!_window_literal(sql, "LT") # {}
      <4>1. Until(params).column = "timestamp"
        BY DEF Until, Slow!Predicate
      <4>2. QED
        BY <2>5, <3>3, <3>4, <4>1 DEF Slow!_window_literal, Slow!surface
    <3>7. params.window_start - 2 # params.window_start
      BY DEF SlowParams
    <3>8. Slow!_check_window(sql, params) = "WINDOW_MISMATCH" /\ edit.why = "WINDOW_MISMATCH"
      BY <2>9, <3>5, <3>6, <3>7 DEF Slow!_check_window, Slow!Edits
    <3>9. QED
      BY <2>3, <2>7, <3>8, RulesInOrder DEF sql
  <2>10. CASE edit.what = "no_filter"
    <3>1. Bounded(where, params)
      <4>1. From(params).op = "GTE" /\ Until(params).op = "LT"
        BY DEF From, Until, Slow!Predicate
      <4>2. QED
        BY <2>10, <4>1 DEF Plain, Bounded, where
    <3>2. Plain(sql, params)
      BY <2>2, <3>1 DEF Plain, Slow!Select
    <3>3. sql # text /\ edit.why = "RECOMPILE_MISMATCH"
      BY <2>10 DEF sql, Slow!Edits
    <3>4. QED
      BY <3>2, <3>3, PlainTextPasses, RulesInOrder DEF sql
  <2>11. QED
    BY <1>8, <2>8, <2>9, <2>10
<1>9. edit.what \in {"odd_character", "second", "write", "comment", "odd_node", "star", "table", "column", "alias",
                     "no_limit", "more", "no_lower", "earlier", "no_filter"}
  BY DEF Slow!Edits
<1>10. QED
  BY <1>4, <1>5, <1>6, <1>7, <1>8, <1>9

\* The list selects the rows of the count that are slow enough, and the count
\* those of the filters alone.
LEMMA SelectedRowsAgree ==
  ASSUME NEW params \in SlowParams
  PROVE  LET listed == Slow!SelectedRows(Slow!compile_sql("list", params))
             counted == Slow!SelectedRows(Slow!compile_sql("count", params))
         IN /\ listed = {row \in counted : row.slow >= params.min_query_time_ms}
            /\ \A row \in counted : /\ params.database \in {"none", row.db}
                                    /\ params.user_name \in {"none", row.user}
<1> DEFINE threshold == Slow!Predicate("GTE", "queryTime", [number |-> params.min_query_time_ms])
           scope == Slow!_scope_predicates(params)
           listed == Slow!SelectedRows(Slow!compile_sql("list", params))
           counted == Slow!SelectedRows(Slow!compile_sql("count", params))
<1>1. /\ Slow!compile_sql("list", params).where = scope \cup {threshold}
      /\ Slow!compile_sql("count", params).where = scope
  BY DEF Slow!compile_sql, Slow!LIST_V1, Slow!_compile_list, Slow!_compile_count, Slow!Select
<1>2. \A row \in Slow!Rows : Slow!Matches(row, threshold) <=> row.slow >= params.min_query_time_ms
  BY DEF Slow!Matches, Slow!Predicate
<1>3. listed = {row \in counted : row.slow >= params.min_query_time_ms}
  <2> HIDE DEF threshold, scope
  <2>1. QED
    BY <1>1, <1>2 DEF Slow!SelectedRows
<1>4. ASSUME NEW row \in counted
      PROVE  params.database \in {"none", row.db} /\ params.user_name \in {"none", row.user}
  <2>1. \A p \in scope : Slow!Matches(row, p)
    BY <1>1, <1>4 DEF Slow!SelectedRows
  <2>2. ASSUME NEW f \in Slow!ScopeFilters, params[f.slot] # "none"
        PROVE  Slow!Matches(row, Slow!Predicate("EQ", f.column, [is |-> params[f.slot]]))
    <3>1. Slow!Predicate("EQ", f.column, [is |-> params[f.slot]]) \in scope
      BY <2>2 DEF Slow!_scope_predicates, Slow!NoFilter
    <3>2. QED
      BY <2>1, <3>1
  <2>3. params.database = "none" \/ row.db = params.database
    <3>1. CASE params.database # "none"
      <4>1. [slot |-> "database", column |-> "db"] \in Slow!ScopeFilters
        BY DEF Slow!ScopeFilters
      <4>2. Slow!Matches(row, Slow!Predicate("EQ", "db", [is |-> params.database]))
        BY <2>2, <3>1, <4>1
      <4>3. QED
        BY <4>2 DEF Slow!Matches, Slow!Predicate
    <3>2. QED
      BY <3>1
  <2>4. params.user_name = "none" \/ row.user = params.user_name
    <3>1. CASE params.user_name # "none"
      <4>1. [slot |-> "user_name", column |-> "user"] \in Slow!ScopeFilters
        BY DEF Slow!ScopeFilters
      <4>2. Slow!Matches(row, Slow!Predicate("EQ", "user", [is |-> params.user_name]))
        BY <2>2, <3>1, <4>1
      <4>3. QED
        BY <4>2 DEF Slow!Matches, Slow!Predicate
    <3>2. QED
      BY <3>1
  <2>5. QED
    BY <2>3, <2>4
<1>5. QED
  BY <1>3, <1>4

\* Every plan for slow queries is admitted, its edits refused, its two steps
\* agree on the rows.
LEMMA SlowPlansAreAdmitted ==
  ASSUME NEW request \in SlowRequests
  PROVE  Slow!CompiledPlansAreAdmitted(request)
<1> DEFINE params == Slow!Params(request)
           text(template) == Slow!compile_sql(template, params)
           restored(template) == Slow!from_typed_arguments(Slow!to_typed_arguments(params, template))
<1>1. params \in SlowParams /\ Slow!Valid(params) /\ WholeMinutes(params)
  BY SlowParamsAreValid
<1> HIDE DEF params
<1>2. ASSUME NEW template \in Slow!TEMPLATE_IDS
      PROVE  /\ Slow!verify_sql(text(template), restored(template), template) = "none"
             /\ \A edit \in Slow!Edits :
                  Slow!Edited(text(template), edit) # text(template) =>
                    Slow!verify_sql(Slow!Edited(text(template), edit), restored(template), template) = edit.why
  <2>1. /\ restored(template) \in SlowParams
        /\ restored(template).window_start = params.window_start
        /\ restored(template).window_end = params.window_end
        /\ Slow!compile_sql(template, restored(template)) = text(template)
    BY <1>1, RestoredTextIsTheSame
  <2>2. restored(template).row_limit = params.row_limit
    BY DEF Slow!from_typed_arguments, Slow!to_typed_arguments, Slow!TEMPLATE_PARAM_KEYS
  <2> HIDE DEF restored
  <2>3. Slow!Valid(restored(template)) /\ WholeMinutes(restored(template))
    BY <1>1, <2>1, <2>2 DEF Slow!Valid, WholeMinutes
  <2>4. Plain(Slow!compile_sql(template, restored(template)), restored(template))
    BY <2>1, <2>3, CompiledTextIsPlain
  <2> HIDE DEF text
  <2>5. Slow!verify_sql(text(template), restored(template), template) = "none"
    BY <2>1, <2>3, <2>4, PlainTextPasses, RulesInOrder
  <2>6. QED
    BY <2>1, <2>3, <2>4, <2>5, EditsAreNamed
<1>3. \A template \in Slow!TEMPLATE_IDS :
        /\ Slow!Step(template, params).sql = text(template)
        /\ Slow!from_typed_arguments(Slow!Step(template, params).arguments) = restored(template)
  BY DEF Slow!Step
<1>4. "list" \in Slow!TEMPLATE_IDS /\ "count" \in Slow!TEMPLATE_IDS /\ Slow!LIST_V1 = "list" /\ Slow!COUNT_V1 = "count"
  BY DEF Slow!TEMPLATE_IDS, Slow!LIST_V1, Slow!COUNT_V1
<1> HIDE DEF restored
<1>5. LET listed == Slow!SelectedRows(text("list"))
          counted == Slow!SelectedRows(text("count"))
      IN /\ listed = {row \in counted : row.slow >= params.min_query_time_ms}
         /\ \A row \in counted : /\ params.database \in {Slow!NoFilter, row.db}
                                 /\ params.user_name \in {Slow!NoFilter, row.user}
  BY <1>1, SelectedRowsAgree DEF Slow!NoFilter
<1> HIDE DEF text
<1>6. QED
  BY <1>1, <1>2, <1>3, <1>4, <1>5 DEF Slow!CompiledPlansAreAdmitted, params

-----------------------------------------------------------------------------
Spellings == [host : Words, port : Words]
AlertTexts ==
    [alert_name : Words, instance : Spellings, fingerprint : {"none", "f1"}, minutes : Int,
     whole : [name : Words, instance : Spellings, fingerprint : Words]]
AlertTalks == [first : AlertTexts, first_at : Int, second : AlertTexts]

\* What a conversation may have confirmed.
ConfirmedSlots ==
    {c \in [alert_name : {"HostHighCpu", "InstanceDown", "none"}, instance : Spellings,
            fingerprint : {"none", "f1"}, window : [from : Int, to : Int]] :
       /\ c.instance = Alerts!NoInstance
            \/ (Alerts!_instance(c.instance) = c.instance /\ c.instance # Alerts!BadInstance)
       /\ c.window = Alerts!NoWindow \/ c.window.from < c.window.to}

\* Canonical form is kept (normalise_instance), and is never the empty one.
LEMMA OneSpellingIsKept ==
  ASSUME NEW raw \in Spellings
  PROVE  /\ Alerts!_instance(raw) \in Spellings /\ Alerts!_instance(raw) # Alerts!NoInstance
         /\ Alerts!_instance(raw) # Alerts!BadInstance =>
              Alerts!_instance(Alerts!_instance(raw)) = Alerts!_instance(raw)
<1> DEFINE host == IF raw.host \in {"[::1]", "[0:0::1]"} THEN "[::1]" ELSE Alerts!_hostname(raw.host)
           port == Alerts!_port(raw.port)
<1>1. raw.host \in Words /\ raw.port \in Words
  BY DEF Spellings
<1>2. host \in {"[::1]", "db1", "10.0.0.1", "invalid"}
  BY DEF Alerts!_hostname, Alerts!Invalid
<1>3. port \in {"80", "none", "invalid"}
  BY DEF Alerts!_port, Alerts!Invalid, Alerts!None
<1>4. Alerts!_instance(raw) = IF host = "invalid" \/ port = "invalid" THEN Alerts!BadInstance
                              ELSE [host |-> host, port |-> port]
  BY DEF Alerts!_instance, Alerts!Invalid, Alerts!Instance
<1> HIDE DEF host, port
<1>5. Alerts!BadInstance = [host |-> "invalid", port |-> "none"] /\ Alerts!NoInstance = [host |-> "none", port |-> "none"]
  BY DEF Alerts!BadInstance, Alerts!NoInstance, Alerts!Instance, Alerts!Invalid, Alerts!None
<1>6. Alerts!_instance(raw) \in Spellings /\ Alerts!_instance(raw) # Alerts!NoInstance
  <2>1. {"[::1]", "db1", "10.0.0.1", "80", "invalid", "none"} \subseteq Words
    BY DEF Words
  <2>2. host \in Words /\ port \in Words /\ host # "none"
    BY <1>2, <1>3, <2>1
  <2>3. CASE host = "invalid" \/ port = "invalid"
    <3>1. Alerts!_instance(raw) = [host |-> "invalid", port |-> "none"]
      BY <1>4, <1>5, <2>3
    <3>2. QED
      BY <1>5, <2>1, <3>1 DEF Spellings
  <2>4. CASE ~(host = "invalid" \/ port = "invalid")
    <3>1. Alerts!_instance(raw) = [host |-> host, port |-> port]
      BY <1>4, <2>4
    <3>2. QED
      BY <1>5, <2>2, <3>1 DEF Spellings
  <2>5. QED
    BY <2>3, <2>4
<1>7. ASSUME host # "invalid", port # "invalid"
      PROVE  Alerts!_instance([host |-> host, port |-> port]) = [host |-> host, port |-> port]
  <2>1. (IF host \in {"[::1]", "[0:0::1]"} THEN "[::1]" ELSE Alerts!_hostname(host)) = host
    BY <1>2, <1>7 DEF Alerts!_hostname
  <2>2. Alerts!_port(port) = port
    BY <1>3, <1>7 DEF Alerts!_port, Alerts!None
  <2>3. QED
    BY <1>7, <2>1, <2>2 DEF Alerts!_instance, Alerts!Invalid, Alerts!Instance
<1>8. QED
  BY <1>4, <1>6, <1>7

\* What one text does to what the conversation has confirmed, in v.
Merged(v, text, as_of, parent) ==
    LET c == v.confirmed IN
    /\ v.kind \in {"ready", "incomplete"} =>
         /\ c \in ConfirmedSlots
         /\ c.fingerprint = IF text.fingerprint = "none" THEN parent.confirmed.fingerprint
                            ELSE text.fingerprint
         /\ text.instance # Alerts!NoInstance => c.instance = Alerts!_instance(text.instance)
         /\ text.instance = Alerts!NoInstance /\ parent.missing # {"instance"} =>
              c.instance = parent.confirmed.instance
         /\ text.alert_name # "none" => c.alert_name = text.alert_name
         /\ text.alert_name = "none" /\ parent.missing # {"alert_name"} =>
              c.alert_name = parent.confirmed.alert_name
         /\ text.minutes = -1 => c.window = parent.confirmed.window
         /\ text.minutes # -1 => /\ c.window = Alerts!normalise_window(as_of, text.minutes)
                                 /\ text.minutes \in 1 .. 3 /\ c.window # Alerts!NoWindow
    /\ v.kind = "incomplete" =>
         /\ v.missing \subseteq {"alert_name", "instance"}
         /\ "alert_name" \in v.missing <=> c.alert_name = "none"
         /\ "instance" \in v.missing <=> c.instance = Alerts!NoInstance
    /\ v.kind = "ready" =>
         /\ v.params = Alerts!_params_from_confirmed_slots(c, as_of)
         /\ Alerts!ValidParams(v.params)
         /\ c.alert_name # "none" /\ c.instance # Alerts!NoInstance

\* merge_confirmed_slots and the verdict on it, for any text and any parent.
LEMMA TextIsMerged ==
  ASSUME NEW text \in AlertTexts, NEW as_of \in Int, NEW parent, parent.confirmed \in ConfirmedSlots,
         parent.missing \subseteq {"alert_name", "instance"}
  PROVE  Merged(Alerts!verify_prometheus_alert_slots(text, as_of, parent, FALSE), text, as_of, parent)
<1> DEFINE found == Alerts!_single_missing_text_slot(text, parent.missing)
           read == Alerts!_current_user_candidates(found, as_of)
           confirmed == Alerts!merge_confirmed_slots(parent.confirmed, read)
           missing == {f \in Alerts!_REQUIRED_FIELDS : confirmed[f] = Alerts!NoSlots[f]}
           params == Alerts!_params_from_confirmed_slots(confirmed, as_of)
           v == Alerts!verify_prometheus_alert_slots(text, as_of, parent, FALSE)
<1>1. /\ v = IF ~read.valid THEN Alerts!Refused
             ELSE IF missing # {}
             THEN [kind |-> "incomplete", missing |-> missing, confirmed |-> confirmed, params |-> Alerts!NoParams]
             ELSE IF Alerts!ValidParams(params)
             THEN [kind |-> "ready", missing |-> {}, confirmed |-> confirmed, params |-> params]
             ELSE Alerts!Refused
  <2> HIDE DEF found, read, confirmed, missing, params
  <2>1. read.valid \in BOOLEAN
    BY DEF read, Alerts!_current_user_candidates
  <2>2. v = CASE FALSE \/ ~read.valid -> Alerts!Refused
         [] ~FALSE /\ read.valid /\ missing # {} ->
              [kind |-> "incomplete", missing |-> missing, confirmed |-> confirmed, params |-> Alerts!NoParams]
         [] ~FALSE /\ read.valid /\ missing = {} ->
              IF Alerts!ValidParams(params)
              THEN [kind |-> "ready", missing |-> {}, confirmed |-> confirmed, params |-> params]
              ELSE Alerts!Refused
    BY DEF Alerts!verify_prometheus_alert_slots, found, read, confirmed, missing, params
  <2> HIDE DEF v
  <2>3. QED
    BY <2>1, <2>2
<1>2. /\ found.alert_name \in Words /\ found.instance \in Spellings /\ found.minutes = text.minutes
      /\ text.alert_name # "none" => found.alert_name = text.alert_name
      /\ text.alert_name = "none" /\ parent.missing # {"alert_name"} => found.alert_name = "none"
      /\ text.instance # Alerts!NoInstance => found.instance = text.instance
      /\ text.instance = Alerts!NoInstance /\ parent.missing # {"instance"} => found.instance = Alerts!NoInstance
      /\ found.fingerprint = text.fingerprint
  BY DEF Alerts!_single_missing_text_slot, AlertTexts, Alerts!None
<1>3. text.minutes \in Int /\ text.fingerprint \in {"none", "f1"}
  BY DEF AlertTexts
<1>4. ASSUME read.valid
      PROVE  /\ read.alert_name = found.alert_name
             /\ found.alert_name \in {"HostHighCpu", "InstanceDown", "none"}
             /\ found.instance = Alerts!NoInstance => read.instance = Alerts!NoInstance
             /\ found.instance # Alerts!NoInstance =>
                  /\ read.instance = Alerts!_instance(found.instance)
                  /\ read.instance # Alerts!BadInstance
             /\ read.fingerprint = found.fingerprint
             /\ text.minutes = -1 => read.window = Alerts!NoWindow
             /\ text.minutes # -1 => /\ read.window = Alerts!normalise_window(as_of, text.minutes)
                                     /\ text.minutes \in 1 .. 3
  <2> HIDE DEF found
  <2>1. QED
    BY <1>2, <1>3, <1>4 DEF Alerts!_current_user_candidates, Alerts!ALERT_NAMES, Alerts!None,
      Alerts!MAX_PROMQL_WINDOW_MINUTES
<1>5. /\ Alerts!NoSlots.alert_name = "none" /\ Alerts!NoSlots.instance = Alerts!NoInstance
      /\ Alerts!NoSlots.fingerprint = "none" /\ Alerts!NoSlots.window = Alerts!NoWindow
  BY DEF Alerts!NoSlots, Alerts!None
<1> HIDE DEF found, read
<1>6. confirmed = [alert_name |-> IF read.alert_name = "none" THEN parent.confirmed.alert_name
                                  ELSE read.alert_name,
                   instance |-> IF read.instance = Alerts!NoInstance THEN parent.confirmed.instance
                                ELSE read.instance,
                   fingerprint |-> IF read.fingerprint = "none" THEN parent.confirmed.fingerprint
                                   ELSE read.fingerprint,
                   window |-> IF read.window = Alerts!NoWindow THEN parent.confirmed.window
                              ELSE read.window]
  <2>1. DOMAIN Alerts!NoSlots = {"alert_name", "instance", "fingerprint", "window"}
    BY DEF Alerts!NoSlots
  <2>2. QED
    BY <1>5, <2>1 DEF Alerts!merge_confirmed_slots
<1> HIDE DEF confirmed
<1>7. ASSUME text.minutes \in 1 .. 3
      PROVE  LET w == Alerts!normalise_window(as_of, text.minutes)
             IN w \in [from : Int, to : Int] /\ w.from < w.to /\ w # Alerts!NoWindow
  <2>1. as_of \div 2 \in Int
    OBVIOUS
  <2> DEFINE to == 2 * (as_of \div 2)
  <2>2. Alerts!normalise_window(as_of, text.minutes) = [from |-> to - text.minutes * 2, to |-> to]
    BY DEF Alerts!normalise_window, Alerts!Minute
  <2>3. to \in Int /\ to - text.minutes * 2 \in Int /\ to - text.minutes * 2 < to
    BY <1>7, <2>1
  <2> HIDE DEF to
  <2>4. QED
    BY <2>2, <2>3 DEF Alerts!NoWindow
<1>8. ASSUME read.valid PROVE confirmed \in ConfirmedSlots
  <2>1. /\ parent.confirmed \in [alert_name : {"HostHighCpu", "InstanceDown", "none"}, instance : Spellings,
                                 fingerprint : {"none", "f1"}, window : [from : Int, to : Int]]
        /\ \/ parent.confirmed.instance = Alerts!NoInstance
           \/ /\ Alerts!_instance(parent.confirmed.instance) = parent.confirmed.instance
              /\ parent.confirmed.instance # Alerts!BadInstance
        /\ parent.confirmed.window = Alerts!NoWindow \/ parent.confirmed.window.from < parent.confirmed.window.to
    BY DEF ConfirmedSlots
  <2>2. confirmed.alert_name \in {"HostHighCpu", "InstanceDown", "none"}
    BY <1>4, <1>6, <1>8, <2>1
  <2>3. /\ confirmed.instance \in Spellings
        /\ \/ confirmed.instance = Alerts!NoInstance
           \/ /\ Alerts!_instance(confirmed.instance) = confirmed.instance
              /\ confirmed.instance # Alerts!BadInstance
    BY <1>2, <1>4, <1>6, <1>8, <2>1, OneSpellingIsKept
  <2>4. confirmed.fingerprint \in {"none", "f1"}
    BY <1>2, <1>3, <1>4, <1>6, <1>8, <2>1
  <2>5. /\ confirmed.window \in [from : Int, to : Int]
        /\ confirmed.window = Alerts!NoWindow \/ confirmed.window.from < confirmed.window.to
    BY <1>4, <1>6, <1>7, <1>8, <2>1
  <2>6. confirmed \in [alert_name : {"HostHighCpu", "InstanceDown", "none"}, instance : Spellings,
                       fingerprint : {"none", "f1"}, window : [from : Int, to : Int]]
    BY <1>6, <2>2, <2>3, <2>4, <2>5
  <2>7. QED
    BY <2>3, <2>5, <2>6 DEF ConfirmedSlots
<1>9. /\ "alert_name" \in missing <=> confirmed.alert_name = "none"
      /\ "instance" \in missing <=> confirmed.instance = Alerts!NoInstance
      /\ missing \subseteq {"alert_name", "instance"}
  BY <1>5 DEF Alerts!_REQUIRED_FIELDS
<1>10. Alerts!Refused.kind = "invalid"
  BY DEF Alerts!Refused
<1> HIDE DEF missing, params, v
<1>11. ASSUME read.valid
       PROVE  /\ confirmed.fingerprint = IF text.fingerprint = "none" THEN parent.confirmed.fingerprint
                                         ELSE text.fingerprint
              /\ text.instance # Alerts!NoInstance => confirmed.instance = Alerts!_instance(text.instance)
              /\ text.instance = Alerts!NoInstance /\ parent.missing # {"instance"} =>
                   confirmed.instance = parent.confirmed.instance
              /\ text.alert_name # "none" => confirmed.alert_name = text.alert_name
              /\ text.alert_name = "none" /\ parent.missing # {"alert_name"} =>
                   confirmed.alert_name = parent.confirmed.alert_name
              /\ text.minutes = -1 => confirmed.window = parent.confirmed.window
              /\ text.minutes # -1 => /\ confirmed.window = Alerts!normalise_window(as_of, text.minutes)
                                      /\ text.minutes \in 1 .. 3 /\ confirmed.window # Alerts!NoWindow
  BY <1>2, <1>4, <1>6, <1>7, <1>11, OneSpellingIsKept
<1>12. /\ v.kind \in {"ready", "incomplete"} => read.valid /\ v.confirmed = confirmed
       /\ v.kind = "incomplete" => v.missing = missing
       /\ v.kind = "ready" => v.params = params /\ Alerts!ValidParams(params) /\ missing = {}
  BY <1>1, <1>10
<1>13. v.kind = "ready" => v.params = Alerts!_params_from_confirmed_slots(v.confirmed, as_of)
  BY <1>12 DEF params
<1>14. QED
  BY <1>8, <1>9, <1>11, <1>12, <1>13 DEF v, Merged

\* The plan of confirmed slots asks for them and its own guard admits it alone.
PlanFollows(params, c, as_of) ==
    LET plan == Alerts!compile_alert_plan(params)
        target == Alerts!resolve_prometheus_alert_target("dev", params)
        metric == plan.metric
        range == IF c.window = Alerts!NoWindow THEN Alerts!normalise_window(as_of, 2) ELSE c.window
    IN /\ params.instance = c.instance /\ params.fingerprint = c.fingerprint
       /\ params.window_start = range.from /\ params.window_end = range.to
       /\ Alerts!verify_promql(metric.promql, metric.promql_template_id, metric.params) = Alerts!None
       /\ \A other : other # metric.promql =>
            Alerts!verify_promql(other, metric.promql_template_id, metric.params) # Alerts!None
       /\ Alerts!require_confirmed_projection(
             c, Alerts!project_prometheus_alert_confirmed_slots(plan, target))

\* compile_alert_plan and verify_promql, for any confirmed slots.
LEMMA PlanFollowsTheSlots ==
  ASSUME NEW c \in ConfirmedSlots, NEW as_of \in Int, c.alert_name # "none",
         c.instance # Alerts!NoInstance, NEW params,
         params = Alerts!_params_from_confirmed_slots(c, as_of), Alerts!ValidParams(params)
  PROVE  PlanFollows(params, c, as_of)
<1> DEFINE range == IF c.window = Alerts!NoWindow THEN Alerts!normalise_window(as_of, 2) ELSE c.window
           template == Alerts!template_for_alert(params.alert_name)
           carried == [params EXCEPT !.fingerprint = Alerts!None]
           text == Alerts!compile_promql(template, params)
           plan == Alerts!compile_alert_plan(params)
           target == Alerts!resolve_prometheus_alert_target("dev", params)
<1>1. /\ Alerts!_instance(c.instance) = c.instance /\ c.instance \in Spellings
      /\ c.instance # Alerts!BadInstance
  BY DEF ConfirmedSlots
<1>2. params = [alert_name |-> c.alert_name, instance |-> c.instance, fingerprint |-> c.fingerprint,
                window_start |-> range.from, window_end |-> range.to]
  BY <1>1 DEF Alerts!_params_from_confirmed_slots, Alerts!DEFAULT_WINDOW_MINUTES
<1> HIDE DEF range
<1>3. carried = [alert_name |-> c.alert_name, instance |-> c.instance, fingerprint |-> Alerts!None,
                 window_start |-> range.from, window_end |-> range.to]
  BY <1>2
<1>4. Alerts!from_typed_arguments(carried) = carried
  BY <1>1, <1>3 DEF Alerts!from_typed_arguments
<1>5. Alerts!ValidParams(carried)
  BY <1>2, <1>3 DEF Alerts!ValidParams, Alerts!Points
<1>6. text = [template |-> template, instance |-> c.instance] /\ template \in {"cpu_percent", "instance_up"}
  <2>1. template \in {"cpu_percent", "instance_up"}
    BY DEF Alerts!template_for_alert, Alerts!CPU_PERCENT_V1, Alerts!INSTANCE_UP_V1
  <2>2. QED
    BY <1>2, <2>1 DEF Alerts!compile_promql, Alerts!ValidParams, Alerts!PROMQL_SURFACE, Alerts!CPU_PERCENT_V1,
      Alerts!INSTANCE_UP_V1, Alerts!MAX_SERIES
<1>7. Alerts!compile_promql(template, carried) = text
  BY <1>2, <1>3 DEF Alerts!compile_promql, Alerts!Points
<1>8. /\ plan.metric.promql = text /\ plan.metric.promql_template_id = template /\ plan.metric.params = carried
      /\ plan.alerts.alert_name = c.alert_name /\ plan.alerts.instance = c.instance
      /\ plan.alerts.fingerprint = c.fingerprint
  BY <1>2 DEF Alerts!compile_alert_plan, Alerts!_metric_arguments, Alerts!_alert_arguments
<1>9. target.alert = c.alert_name /\ target.instance = c.instance
  BY <1>2 DEF Alerts!resolve_prometheus_alert_target
<1>10. template \in Alerts!PROMQL_SURFACE.allowed_template_ids /\ text.template # Alerts!Invalid
  BY <1>6 DEF Alerts!PROMQL_SURFACE, Alerts!CPU_PERCENT_V1, Alerts!INSTANCE_UP_V1, Alerts!Invalid
<1> HIDE DEF template, carried, text
<1>11. /\ Alerts!verify_promql(text, template, carried) = Alerts!None
       /\ \A other : other # text => Alerts!verify_promql(other, template, carried) # Alerts!None
  BY <1>4, <1>5, <1>7, <1>10 DEF Alerts!verify_promql, Alerts!None
<1> HIDE DEF plan, target
<1>12. Alerts!_params_from_plan(plan) = params
  <2>1. carried.alert_name = c.alert_name /\ carried.instance = c.instance
    BY <1>3
  <2>2. Alerts!_params_from_plan(plan) = [carried EXCEPT !.fingerprint = c.fingerprint]
    BY <1>1, <1>4, <1>8, <2>1 DEF Alerts!_params_from_plan
  <2>3. QED
    BY <1>2, <1>3, <2>2
<1>13. Alerts!project_prometheus_alert_confirmed_slots(plan, target)
         = [alert_name |-> c.alert_name, instance |-> c.instance, fingerprint |-> c.fingerprint,
            window |-> [from |-> range.from, to |-> range.to]]
  BY <1>2, <1>9, <1>12 DEF Alerts!project_prometheus_alert_confirmed_slots
<1>14. c.window # Alerts!NoWindow => [from |-> range.from, to |-> range.to] = c.window
  BY DEF ConfirmedSlots, range
<1>15. Alerts!require_confirmed_projection(c, Alerts!project_prometheus_alert_confirmed_slots(plan, target))
  <2>1. DOMAIN Alerts!NoSlots = {"alert_name", "instance", "fingerprint", "window"}
    BY DEF Alerts!NoSlots
  <2>2. Alerts!NoSlots.window = Alerts!NoWindow
    BY DEF Alerts!NoSlots
  <2>3. QED
    BY <1>13, <1>14, <2>1, <2>2 DEF Alerts!require_confirmed_projection
<1>16. QED
  BY <1>2, <1>8, <1>11, <1>15 DEF plan, target, range, PlanFollows

\* Two rounds of a conversation end in the plan of what was said last.
LEMMA TalksAreFollowed ==
  ASSUME NEW talk \in AlertTalks
  PROVE  Alerts!AlertPlansSayWhatWasAsked(talk)
<1> DEFINE Fresh == [missing |-> {}, confirmed |-> Alerts!NoSlots]
           one == Alerts!verify_prometheus_alert_slots(talk.first, talk.first_at, Fresh, FALSE)
           asks == one.kind = "incomplete"
           two == Alerts!verify_prometheus_alert_slots(talk.second, Alerts!SecondAt, one, FALSE)
           last == IF asks THEN two ELSE one
           at == IF asks THEN Alerts!SecondAt ELSE talk.first_at
           c == last.confirmed
           Said(f) == IF asks THEN {talk.first[f], talk.second[f]} ELSE {talk.first[f]}
           ends == IF asks /\ (talk.second.minutes # -1 \/ talk.first.minutes = -1)
                   THEN Alerts!SecondAt ELSE talk.first_at
           asked == IF asks /\ talk.second.minutes # -1 THEN talk.second.minutes
                    ELSE IF talk.first.minutes # -1 THEN talk.first.minutes ELSE Alerts!DEFAULT_WINDOW_MINUTES
           Window(time, minutes) == Alerts!normalise_window(time, minutes)
<1>1. talk.first \in AlertTexts /\ talk.second \in AlertTexts /\ talk.first_at \in Int /\ Alerts!SecondAt \in Int
  BY DEF AlertTalks, Alerts!SecondAt
<1>2. /\ Fresh.confirmed = Alerts!NoSlots /\ Fresh.missing = {}
      /\ Alerts!NoSlots.alert_name = "none" /\ Alerts!NoSlots.instance = Alerts!NoInstance
      /\ Alerts!NoSlots.fingerprint = "none" /\ Alerts!NoSlots.window = Alerts!NoWindow
  BY DEF Alerts!NoSlots, Alerts!None
<1>3. Fresh.confirmed \in ConfirmedSlots /\ Fresh.missing \subseteq {"alert_name", "instance"}
  <2>1. "none" \in Words
    BY DEF Words
  <2>2. Alerts!NoInstance \in Spellings
    BY <2>1 DEF Alerts!NoInstance, Alerts!Instance, Alerts!None, Spellings
  <2>3. Alerts!NoWindow \in [from : Int, to : Int]
    BY DEF Alerts!NoWindow
  <2>4. QED
    BY <2>2, <2>3 DEF ConfirmedSlots, Alerts!NoSlots, Alerts!None
<1> HIDE DEF Fresh
\* What the first text left, and the last.
<1>4. /\ one.kind \in {"ready", "incomplete"} =>
           /\ one.confirmed \in ConfirmedSlots
           /\ one.confirmed.fingerprint = talk.first.fingerprint
           /\ talk.first.instance # Alerts!NoInstance =>
                one.confirmed.instance = Alerts!_instance(talk.first.instance)
           /\ talk.first.instance = Alerts!NoInstance => one.confirmed.instance = Alerts!NoInstance
           /\ one.confirmed.alert_name = talk.first.alert_name
           /\ talk.first.minutes = -1 => one.confirmed.window = Alerts!NoWindow
           /\ talk.first.minutes # -1 => /\ one.confirmed.window = Window(talk.first_at, talk.first.minutes)
                                         /\ talk.first.minutes \in 1 .. 3
                                         /\ one.confirmed.window # Alerts!NoWindow
      /\ one.kind = "incomplete" =>
           /\ one.missing \subseteq {"alert_name", "instance"}
           /\ "alert_name" \in one.missing <=> one.confirmed.alert_name = "none"
           /\ "instance" \in one.missing <=> one.confirmed.instance = Alerts!NoInstance
      /\ one.kind = "ready" =>
           /\ one.params = Alerts!_params_from_confirmed_slots(one.confirmed, talk.first_at)
           /\ Alerts!ValidParams(one.params)
           /\ one.confirmed.alert_name # "none" /\ one.confirmed.instance # Alerts!NoInstance
  <2>1. Merged(one, talk.first, talk.first_at, Fresh)
    BY <1>1, <1>3, TextIsMerged
  <2> HIDE DEF one
  <2>2. talk.first.fingerprint = "none" => Fresh.confirmed.fingerprint = talk.first.fingerprint
    BY <1>2
  <2>3. Fresh.missing # {"alert_name"} /\ Fresh.missing # {"instance"}
    BY <1>2
  <2>4. QED
    BY <1>2, <2>1, <2>2, <2>3 DEF Merged
<1> HIDE DEF one
<1>5. asks =>
      /\ two.kind \in {"ready", "incomplete"} =>
           /\ two.confirmed \in ConfirmedSlots
           /\ two.confirmed.fingerprint = IF talk.second.fingerprint = "none" THEN talk.first.fingerprint
                                          ELSE talk.second.fingerprint
           /\ talk.second.instance # Alerts!NoInstance =>
                two.confirmed.instance = Alerts!_instance(talk.second.instance)
           /\ talk.second.instance = Alerts!NoInstance /\ talk.first.instance # Alerts!NoInstance =>
                two.confirmed.instance = Alerts!_instance(talk.first.instance)
           /\ talk.second.alert_name # "none" => two.confirmed.alert_name = talk.second.alert_name
           /\ talk.second.alert_name = "none" /\ talk.first.alert_name # "none" =>
                two.confirmed.alert_name = talk.first.alert_name
           /\ talk.second.minutes = -1 => two.confirmed.window = one.confirmed.window
           /\ talk.second.minutes # -1 => /\ two.confirmed.window = Window(Alerts!SecondAt, talk.second.minutes)
                                          /\ talk.second.minutes \in 1 .. 3
                                          /\ two.confirmed.window # Alerts!NoWindow
      /\ two.kind = "ready" =>
           /\ two.params = Alerts!_params_from_confirmed_slots(two.confirmed, Alerts!SecondAt)
           /\ Alerts!ValidParams(two.params)
           /\ two.confirmed.alert_name # "none" /\ two.confirmed.instance # Alerts!NoInstance
  <2>1. HAVE asks
  <2>2. /\ one.confirmed \in ConfirmedSlots /\ one.missing \subseteq {"alert_name", "instance"}
        /\ talk.first.instance # Alerts!NoInstance =>
             one.missing # {"instance"} /\ one.confirmed.instance = Alerts!_instance(talk.first.instance)
        /\ talk.first.alert_name # "none" => one.missing # {"alert_name"}
        /\ one.confirmed.alert_name = talk.first.alert_name
        /\ one.confirmed.fingerprint = talk.first.fingerprint
    <3>1. Alerts!_instance(talk.first.instance) # Alerts!NoInstance
      BY <1>1, OneSpellingIsKept DEF AlertTexts
    <3>2. QED
      BY <1>4, <2>1, <3>1
  <2>3. Merged(two, talk.second, Alerts!SecondAt, one)
    BY <1>1, <2>2, TextIsMerged
  <2> HIDE DEF two
  <2>4. QED
    BY <2>2, <2>3 DEF Merged
<1> HIDE DEF two
<1>6. /\ last.kind \in {"ready", "incomplete"} =>
           /\ c \in ConfirmedSlots
           /\ c.fingerprint = IF Said("fingerprint") = {"none"} THEN "none" ELSE "f1"
           /\ asks /\ talk.second.instance # Alerts!NoInstance =>
                c.instance = Alerts!_instance(talk.second.instance)
           /\ Said("instance") # {Alerts!NoInstance} =>
                c.instance \in {Alerts!_instance(i) : i \in Said("instance")}
           /\ \A f \in {"alert_name", "fingerprint"} : Said(f) # {"none"} => c[f] # "none"
      /\ last.kind = "ready" =>
           /\ last.params = Alerts!_params_from_confirmed_slots(c, at)
           /\ Alerts!ValidParams(last.params)
           /\ c.alert_name # "none" /\ c.instance # Alerts!NoInstance
  <2>1. talk.first.fingerprint \in {"none", "f1"} /\ talk.second.fingerprint \in {"none", "f1"}
    BY <1>1 DEF AlertTexts
  <2>2. CASE asks
    BY <1>5, <2>1, <2>2
  <2>3. CASE ~asks
    BY <1>4, <2>1, <2>3
  <2>4. QED
    BY <2>2, <2>3
<1>7. last.kind = "ready" =>
        LET w == IF c.window = Alerts!NoWindow THEN Window(at, 2) ELSE c.window
        IN w = Window(ends, asked) /\ asked \in 1 .. 3
  <2>1. HAVE last.kind = "ready"
  <2>2. CASE asks
    BY <1>4, <1>5, <2>1, <2>2 DEF Alerts!DEFAULT_WINDOW_MINUTES
  <2>3. CASE ~asks
    BY <1>4, <2>1, <2>3 DEF Alerts!DEFAULT_WINDOW_MINUTES
  <2>4. QED
    BY <2>2, <2>3
<1>8. ends \in Int /\ at \in Int
  BY <1>1
<1> HIDE DEF last, asked, ends, at, Said
<1>9. ASSUME last.kind = "ready"
      PROVE  LET plan == Alerts!compile_alert_plan(last.params)
                 target == Alerts!resolve_prometheus_alert_target("dev", last.params)
             IN /\ last.params.window_end \in ends - 1 .. ends
                /\ last.params.window_end - last.params.window_start = asked * 2
                /\ last.params.instance = c.instance /\ last.params.fingerprint = c.fingerprint
                /\ Alerts!verify_promql(plan.metric.promql, plan.metric.promql_template_id, plan.metric.params)
                     = Alerts!None
                /\ \A other : other # plan.metric.promql =>
                     Alerts!verify_promql(other, plan.metric.promql_template_id, plan.metric.params) # Alerts!None
                /\ Alerts!require_confirmed_projection(
                      c, Alerts!project_prometheus_alert_confirmed_slots(plan, target))
  <2>1. /\ c \in ConfirmedSlots /\ c.alert_name # "none" /\ c.instance # Alerts!NoInstance
        /\ last.params = Alerts!_params_from_confirmed_slots(c, at) /\ Alerts!ValidParams(last.params)
    BY <1>6, <1>9
  <2>2. PlanFollows(last.params, c, at)
    BY <1>8, <2>1, PlanFollowsTheSlots
  <2>3. /\ last.params.window_start = Window(ends, asked).from
        /\ last.params.window_end = Window(ends, asked).to
        /\ asked \in 1 .. 3
    BY <1>7, <1>9, <2>2 DEF PlanFollows
  <2>4. /\ Window(ends, asked).to \in ends - 1 .. ends
        /\ Window(ends, asked).to - Window(ends, asked).from = asked * 2
    <3>1. Window(ends, asked).to = 2 * (ends \div 2)
          /\ Window(ends, asked).from = 2 * (ends \div 2) - asked * 2
      BY DEF Alerts!normalise_window, Alerts!Minute
    <3>2. 2 * (ends \div 2) \in ends - 1 .. ends
      BY <1>8
    <3>3. QED
      BY <2>3, <3>1, <3>2
  <2>5. QED
    BY <2>3, <2>4, <2>2 DEF PlanFollows
<1> DEFINE plan == Alerts!compile_alert_plan(last.params)
           target == Alerts!resolve_prometheus_alert_target("dev", last.params)
           Ready ==
             /\ last.params.window_end \in ends - Alerts!Minute + 1 .. ends
             /\ last.params.window_end - last.params.window_start = asked * Alerts!Minute
             /\ asks /\ talk.second.instance # Alerts!NoInstance =>
                  last.params.instance = Alerts!_instance(talk.second.instance)
             /\ Said("instance") # {Alerts!NoInstance} =>
                  last.params.instance \in {Alerts!_instance(i) : i \in Said("instance")}
             /\ last.params.fingerprint = IF Said("fingerprint") = {Alerts!None} THEN Alerts!None ELSE "f1"
             /\ Alerts!verify_promql(plan.metric.promql, plan.metric.promql_template_id, plan.metric.params)
                  = Alerts!None
             /\ \A template \in Alerts!PROMQL_SURFACE.allowed_template_ids,
                   i \in {Alerts!Instance("db1", Alerts!None), Alerts!Instance("10.0.0.1", Alerts!None)} :
                  LET other == [template |-> template, instance |-> i] IN
                  other # plan.metric.promql =>
                      Alerts!verify_promql(other, plan.metric.promql_template_id, plan.metric.params) # Alerts!None
             /\ Alerts!require_confirmed_projection(
                   last.confirmed, Alerts!project_prometheus_alert_confirmed_slots(plan, target))
           Incomplete ==
             \A f \in {"alert_name", "fingerprint"} : Said(f) # {Alerts!None} => last.confirmed[f] # Alerts!None
<1>10. last.kind = "ready" => Ready
  <2>1. HAVE last.kind = "ready"
  <2> HIDE DEF asks
  <2>2. ends - Alerts!Minute + 1 .. ends = ends - 1 .. ends
    BY <1>8 DEF Alerts!Minute
  <2>3. /\ last.params.window_end \in ends - Alerts!Minute + 1 .. ends
        /\ last.params.window_end - last.params.window_start = asked * Alerts!Minute
    BY <1>9, <2>1, <2>2 DEF Alerts!Minute
  <2>4. last.params.fingerprint = IF Said("fingerprint") = {Alerts!None} THEN Alerts!None ELSE "f1"
    BY <1>6, <1>9, <2>1 DEF Alerts!None
  <2>5. /\ asks /\ talk.second.instance # Alerts!NoInstance =>
             last.params.instance = Alerts!_instance(talk.second.instance)
        /\ Said("instance") # {Alerts!NoInstance} =>
             last.params.instance \in {Alerts!_instance(i) : i \in Said("instance")}
    BY <1>6, <1>9, <2>1
  <2>6. QED
    BY <1>9, <2>1, <2>3, <2>4, <2>5
<1>11. last.kind = "incomplete" => Incomplete
  BY <1>6 DEF Alerts!None
<1>12. Alerts!AlertPlansSayWhatWasAsked(talk) <=>
         (last.kind = "ready" => Ready) /\ (last.kind = "incomplete" => Incomplete)
  BY DEF Alerts!AlertPlansSayWhatWasAsked, Fresh, one, two, last, asked, ends, Said
<1>13. QED
  BY <1>10, <1>11, <1>12

-----------------------------------------------------------------------------
\* Module AlertEvidence counts sets as this module does.
LEMMA SameCardinality == \A S : Alerts!Cardinality(S) = Cardinality(S)
BY DEF Alerts!Cardinality, Cardinality

\* A finite set of integers has a least and a greatest element.
LEMMA ExtremesOfIntegers ==
  ASSUME NEW S, IsFiniteSet(S), S \subseteq Int, S # {}
  PROVE  /\ \E s \in S : \A r \in S : s <= r
         /\ \E s \in S : \A r \in S : r <= s
<1>1. IsWellFoundedOn(StrictSubsetOrdering(S), FiniteSubsetsOf(S))
  BY FS_StrictSubsetOrderingWellFounded
<1>2. \E s \in S : \A r \in S : s <= r
  <2>1. PICK T : T = {{r \in S : r < s} : s \in S}
    OBVIOUS
  <2>2. \A X \in T : X \subseteq S /\ IsFiniteSet(X)
    BY <2>1, FS_Subset
  <2>3. T \subseteq FiniteSubsetsOf(S) /\ T # {}
    BY <2>1, <2>2 DEF FiniteSubsetsOf
  <2>4. PICK X \in T : \A Y \in T : ~(<<Y, X>> \in StrictSubsetOrdering(S))
    BY <1>1, <2>3, WFMin
  <2>5. PICK s \in S : X = {r \in S : r < s}
    BY <2>1
  <2>6. SUFFICES ASSUME NEW r \in S, r < s PROVE FALSE
    BY <2>5
  <2>7. PICK Y : Y = {q \in S : q < r}
    OBVIOUS
  <2>8. Y \in T /\ Y \subseteq X /\ Y # X /\ X \subseteq S
    <3>1. r \in Int /\ s \in Int /\ \A q \in S : q \in Int
      OBVIOUS
    <3>2. r \in X /\ r \notin Y
      BY <2>5, <2>6, <2>7, <3>1
    <3>3. \A q \in Y : q \in X
      BY <2>5, <2>6, <2>7, <3>1
    <3>4. QED
      BY <2>1, <2>5, <2>7, <3>2, <3>3
  <2>9. <<Y, X>> \in StrictSubsetOrdering(S)
    BY <2>8 DEF StrictSubsetOrdering
  <2>10. QED
    BY <2>4, <2>8, <2>9
<1>3. \E s \in S : \A r \in S : r <= s
  <2>1. PICK T : T = {{r \in S : r > s} : s \in S}
    OBVIOUS
  <2>2. \A X \in T : X \subseteq S /\ IsFiniteSet(X)
    BY <2>1, FS_Subset
  <2>3. T \subseteq FiniteSubsetsOf(S) /\ T # {}
    BY <2>1, <2>2 DEF FiniteSubsetsOf
  <2>4. PICK X \in T : \A Y \in T : ~(<<Y, X>> \in StrictSubsetOrdering(S))
    BY <1>1, <2>3, WFMin
  <2>5. PICK s \in S : X = {r \in S : r > s}
    BY <2>1
  <2>6. SUFFICES ASSUME NEW r \in S, r > s PROVE FALSE
    BY <2>5
  <2>7. PICK Y : Y = {q \in S : q > r}
    OBVIOUS
  <2>8. Y \in T /\ Y \subseteq X /\ Y # X /\ X \subseteq S
    <3>1. r \in Int /\ s \in Int /\ \A q \in S : q \in Int
      OBVIOUS
    <3>2. r \in X /\ r \notin Y
      BY <2>5, <2>6, <2>7, <3>1
    <3>3. \A q \in Y : q \in X
      BY <2>5, <2>6, <2>7, <3>1
    <3>4. QED
      BY <2>1, <2>5, <2>7, <3>2, <3>3
  <2>9. <<Y, X>> \in StrictSubsetOrdering(S)
    BY <2>8 DEF StrictSubsetOrdering
  <2>10. QED
    BY <2>4, <2>8, <2>9
<1>4. QED
  BY <1>2, <1>3

\* What the two providers may answer: any alerts, and points of two series on
\* the minutes of the query.
AlertRows == [alert_name : Words, instance : Spellings, fingerprint : Words]
MetricRows ==
    [series_key : {"a", "b"}, metric_name : {"up"}, instance : Spellings,
     at : {2 * m : m \in Int}, value : Int]
AlertAnswers ==
    [fingerprint : Words, minutes : 1 .. Alerts!MAX_PROMQL_WINDOW_MINUTES,
     alerts : Seq(AlertRows), points : Seq(MetricRows)]

\* Rows of different fingerprints are as many facts.
LEMMA OneFactIsOneRow ==
  ASSUME NEW rows \in Seq(AlertRows),
         \A i, j \in DOMAIN rows : i # j => rows[i].fingerprint # rows[j].fingerprint,
         Cardinality({rows[i] : i \in DOMAIN rows}) = 1
  PROVE  Len(rows) = 1
<1> DEFINE facts == {rows[i] : i \in DOMAIN rows}
<1>1. Len(rows) \in Nat /\ DOMAIN rows = 1 .. Len(rows)
  OBVIOUS
<1>2. IsFiniteSet(facts)
  <2>1. IsFiniteSet(DOMAIN rows)
    BY <1>1, FS_Interval
  <2>2. [i \in DOMAIN rows |-> rows[i]] \in Surjection(DOMAIN rows, facts)
    BY DEF Surjection
  <2>3. QED
    BY <2>1, <2>2, FS_Surjection
<1>3. PICK x : facts = {x}
  BY <1>2, FS_Singleton
<1>4. \A i, j \in DOMAIN rows : i = j
  <2>1. \A i \in DOMAIN rows : rows[i] = x
    BY <1>3
  <2>2. QED
    BY <2>1
<1>5. \E i \in DOMAIN rows : TRUE
  BY <1>3
<1>6. QED
  BY <1>1, <1>4, <1>5

\* A series that goes up in time has at most one point a minute.
LEMMA ASeriesFitsItsWindow ==
  ASSUME NEW rows \in Seq(MetricRows), NEW minutes \in 1 .. 3, NEW key,
         \A i \in DOMAIN rows : rows[i].at \in 6 - minutes * 2 .. 6,
         \A i, j \in DOMAIN rows : i < j => rows[i].at < rows[j].at
  PROVE  /\ IsFiniteSet(Alerts!SeriesOf(rows, key))
         /\ Cardinality(Alerts!SeriesOf(rows, key)) \in 0 .. 4
<1> DEFINE series == Alerts!SeriesOf(rows, key)
           minute == [i \in series |-> rows[i].at \div 2]
<1>1. Len(rows) \in Nat /\ DOMAIN rows = 1 .. Len(rows) /\ series \subseteq DOMAIN rows
  BY DEF Alerts!SeriesOf
<1>2. \A i \in DOMAIN rows : rows[i].at \in Int /\ \E m \in Int : rows[i].at = 2 * m
  <2>1. TAKE i \in DOMAIN rows
  <2>2. rows[i] \in MetricRows
    OBVIOUS
  <2>3. rows[i].at \in {2 * m : m \in Int}
    BY <2>2 DEF MetricRows
  <2>4. QED
    BY <2>3
<1>3. \A i \in DOMAIN rows : rows[i].at \div 2 \in 0 .. 3 /\ rows[i].at = 2 * (rows[i].at \div 2)
  <2>1. TAKE i \in DOMAIN rows
  <2>2. PICK m \in Int : rows[i].at = 2 * m
    BY <1>2
  <2>3. rows[i].at >= 0 /\ rows[i].at <= 6
    BY <1>2
  <2>4. (2 * m) \div 2 = m
    BY <2>2
  <2>5. QED
    BY <2>2, <2>3, <2>4
<1> HIDE DEF series
<1>4. \A i, j \in series : rows[i].at = rows[j].at => i = j
  BY <1>1, <1>2
<1>5. minute \in Injection(series, 0 .. 3)
  <2>1. minute \in [series -> 0 .. 3]
    BY <1>1, <1>3
  <2>2. \A i, j \in series : minute[i] = minute[j] => i = j
    BY <1>1, <1>3, <1>4
  <2>3. QED
    BY <2>1, <2>2 DEF Injection, IsInjective
<1>6. IsFiniteSet(0 .. 3) /\ Cardinality(0 .. 3) = 4
  <2>1. PICK top \in Int : top = 3
    OBVIOUS
  <2>2. PICK low \in Int : low = 0
    OBVIOUS
  <2>3. IsFiniteSet(low .. top) /\ Cardinality(low .. top) = IF low > top THEN 0 ELSE top - low + 1
    BY FS_Interval
  <2>4. QED
    BY <2>1, <2>2, <2>3
<1>7. IsFiniteSet(series) /\ Cardinality(series) <= 4
  BY <1>5, <1>6, FS_Injection
<1>8. QED
  BY <1>7, FS_CardinalityType DEF series

\* The extremes of a series bound its ends.
LEMMA SummariesBoundTheirEnds ==
  ASSUME NEW rows \in Seq(MetricRows), NEW series, IsFiniteSet(series), series \subseteq DOMAIN rows, series # {}
  PROVE  LET fact == Alerts!Summary(rows, series) IN fact.min <= fact.first /\ fact.latest <= fact.max
<1> DEFINE values == {rows[i].value : i \in series}
<1>1. series \subseteq Int /\ \A i \in series : rows[i].value \in Int
  <2>1. \A i \in DOMAIN rows : i \in Int /\ rows[i] \in MetricRows
    OBVIOUS
  <2>2. \A row \in MetricRows : row.value \in Int
    BY DEF MetricRows
  <2>3. QED
    BY <2>1, <2>2
<1>2. IsFiniteSet(values) /\ values \subseteq Int /\ values # {}
  <2>1. [i \in series |-> rows[i].value] \in Surjection(series, values)
    BY DEF Surjection
  <2>2. QED
    BY <1>1, <2>1, FS_Surjection
<1>3. Alerts!Min(series) \in series /\ Alerts!Max(series) \in series
  <2>1. /\ \E s \in series : \A r \in series : s <= r
        /\ \E s \in series : \A r \in series : r <= s
    BY <1>1, ExtremesOfIntegers
  <2>2. \E s \in series : \A r \in series : s >= r
    BY <1>1, <2>1
  <2>3. QED
    BY <2>1, <2>2 DEF Alerts!Min, Alerts!Max
<1>4. rows[Alerts!Min(series)].value \in values /\ rows[Alerts!Max(series)].value \in values
  BY <1>3
<1> HIDE DEF values
<1>5. /\ \A v \in values : Alerts!Min(values) <= v
      /\ \A v \in values : v <= Alerts!Max(values)
  <2>1. /\ \E s \in values : \A r \in values : s <= r
        /\ \E s \in values : \A r \in values : r <= s
    BY <1>2, ExtremesOfIntegers
  <2>2. \E s \in values : \A r \in values : s >= r
    BY <1>2, <2>1
  <2>3. Alerts!Max(values) \in values /\ \A v \in values : Alerts!Max(values) >= v
    BY <2>2 DEF Alerts!Max
  <2>4. QED
    BY <1>2, <2>1, <2>3 DEF Alerts!Min
<1>6. QED
  BY <1>4, <1>5 DEF Alerts!Summary, values

\* A verdict names the first thing missing.
LEMMA VerdictNamesWhatIsMissing ==
  ASSUME NEW alerts, NEW metrics, NEW n \in Nat, Alerts!Cardinality(alerts.facts) = n,
         n = 0 <=> alerts.facts = {}
  PROVE  LET verdict == Alerts!assess_prometheus_alert(alerts, metrics)
         IN /\ verdict.sufficient <=> verdict.missing = "none"
            /\ verdict.missing = "fingerprint" <=> alerts.built /\ n > 1
            /\ verdict.missing = "none" <=> alerts.built /\ n = 1 /\ metrics.built /\ metrics.facts # {}
<1> DEFINE verdict == Alerts!assess_prometheus_alert(alerts, metrics)
<1>1. verdict.sufficient <=> verdict.missing = "none"
  BY DEF Alerts!assess_prometheus_alert, Alerts!None
<1>2. ~alerts.built => verdict.missing = "active_alert"
  BY DEF Alerts!assess_prometheus_alert
<1>3. alerts.built /\ n > 1 => verdict.missing = "fingerprint"
  <2>1. HAVE alerts.built /\ n > 1
  <2>2. Alerts!Cardinality(alerts.facts) > 1 /\ alerts.facts # {} /\ Alerts!Cardinality(alerts.facts) # 1
    BY <2>1
  <2>3. QED
    BY <2>1, <2>2 DEF Alerts!assess_prometheus_alert
<1>4. alerts.built /\ n = 0 => verdict.missing = "active_alert"
  <2>1. HAVE alerts.built /\ n = 0
  <2>2. ~(Alerts!Cardinality(alerts.facts) > 1) /\ alerts.facts = {} /\ Alerts!Cardinality(alerts.facts) # 1
    BY <2>1
  <2>3. QED
    BY <2>1, <2>2 DEF Alerts!assess_prometheus_alert
<1>5. alerts.built /\ n = 1 =>
        verdict.missing = IF metrics.built /\ metrics.facts # {} THEN "none" ELSE "metric_series"
  <2>1. HAVE alerts.built /\ n = 1
  <2>2. ~(Alerts!Cardinality(alerts.facts) > 1) /\ alerts.facts # {} /\ Alerts!Cardinality(alerts.facts) = 1
    BY <2>1
  <2>3. QED
    BY <2>1, <2>2 DEF Alerts!assess_prometheus_alert, Alerts!None
<1> HIDE DEF verdict
<1>6. n > 1 \/ n = 0 \/ n = 1
  OBVIOUS
<1>7. QED
  BY <1>1, <1>2, <1>3, <1>4, <1>5, <1>6 DEF verdict

\* A verdict rests on one alert of the filter and on points of its instance
\* in the window, and a whole window of points is never refused.
LEMMA VerdictsAreBacked ==
  ASSUME NEW answer \in AlertAnswers
  PROVE  Alerts!AlertVerdictsAreBacked(answer)
<1> DEFINE rows == answer.alerts
           points == answer.points
           params == [alert_name |-> "InstanceDown", instance |-> Alerts!Here, fingerprint |-> answer.fingerprint,
                      window_start |-> 6 - answer.minutes * Alerts!Minute, window_end |-> 6]
           plan == Alerts!compile_alert_plan(params)
           alerts == Alerts!_build_prometheus_alert_evidence(plan, "get_active_alerts", rows)
           metrics == Alerts!_build_prometheus_alert_evidence(plan, "query_metric_range", points)
           verdict == Alerts!assess_prometheus_alert(alerts, metrics)
           start == 6 - answer.minutes * 2
           keys == {points[i].series_key : i \in DOMAIN points}
           Series(key) == Alerts!SeriesOf(points, key)
           inside == \A i \in DOMAIN points : points[i].at \in start .. 6
           here == \A i \in DOMAIN points : points[i].instance = Alerts!Here
           Ordered(series) == \A i, j \in series : i < j => points[i].at < points[j].at
<1>1. rows \in Seq(AlertRows) /\ points \in Seq(MetricRows) /\ answer.minutes \in 1 .. 3
  BY DEF AlertAnswers, Alerts!MAX_PROMQL_WINDOW_MINUTES
<1>2. Alerts!_instance(Alerts!Here) = Alerts!Here
  BY DEF Alerts!_instance, Alerts!Here, Alerts!Instance, Alerts!_hostname, Alerts!_port, Alerts!None, Alerts!Invalid
\* The evidence each step's arguments give.
<1>3. alerts = IF /\ Len(rows) <= 2
                  /\ \A i \in DOMAIN rows : Alerts!_alert_fact(rows[i], plan.alerts)
                  /\ \A i, j \in DOMAIN rows : i # j => rows[i].fingerprint # rows[j].fingerprint
               THEN Alerts!Evidence(TRUE, {rows[i] : i \in DOMAIN rows}, Len(rows) = 2) ELSE Alerts!Absent
  <2>1. plan.alerts.limit = 2
    BY DEF Alerts!compile_alert_plan, Alerts!_alert_arguments, Alerts!ALERT_LIMIT
  <2> HIDE DEF plan
  <2>2. QED
    BY <2>1 DEF Alerts!_build_prometheus_alert_evidence, Alerts!build_alert_evidence, Alerts!Range, Alerts!ALERT_LIMIT
<1>4. /\ plan.alerts.instance = Alerts!Here /\ plan.alerts.fingerprint = answer.fingerprint
  BY DEF Alerts!compile_alert_plan, Alerts!_alert_arguments
<1>5. /\ Alerts!from_typed_arguments(plan.metric.params)
           = [alert_name |-> "InstanceDown", instance |-> Alerts!Here, fingerprint |-> Alerts!None,
              window_start |-> start, window_end |-> 6]
      /\ Alerts!metric_name_for_template(plan.metric.promql_template_id) = "up"
  <2>1. plan.metric.params = [alert_name |-> "InstanceDown", instance |-> Alerts!Here, fingerprint |-> Alerts!None,
                              window_start |-> start, window_end |-> 6]
    BY DEF Alerts!compile_alert_plan, Alerts!_metric_arguments, Alerts!Minute
  <2>2. plan.metric.promql_template_id = "instance_up"
    BY DEF Alerts!compile_alert_plan, Alerts!_metric_arguments, Alerts!template_for_alert, Alerts!INSTANCE_UP_V1
  <2>3. QED
    BY <1>2, <2>1, <2>2 DEF Alerts!from_typed_arguments, Alerts!metric_name_for_template, Alerts!CPU_PERCENT_V1
<1> HIDE DEF plan
<1>6. /\ metrics.built =>
           /\ inside /\ here /\ metrics.facts = {Alerts!Summary(points, Series(key)) : key \in keys}
      /\ ~metrics.built => metrics.facts = {}
      /\ inside /\ here /\ (\A key \in keys : Ordered(Series(key)) /\ Cardinality(Series(key)) <= 4)
           /\ Cardinality(keys) <= 2 => metrics.built
  <2>1. \A i \in DOMAIN points : points[i].metric_name = "up"
    <3>1. \A row \in MetricRows : row.metric_name = "up"
      BY DEF MetricRows
    <3>2. \A i \in DOMAIN points : points[i] \in MetricRows
      BY <1>1
    <3>3. QED
      BY <3>1, <3>2
  <2> DEFINE expected == Alerts!from_typed_arguments(plan.metric.params)
  <2>2. expected.instance = Alerts!Here /\ expected.window_start = start /\ expected.window_end = 6
    BY <1>5
  <2> HIDE DEF expected, start
  <2>3. metrics = IF /\ inside /\ here
                     /\ \A key \in keys : Ordered(Series(key)) /\ Cardinality(Series(key)) <= 4
                     /\ Cardinality(keys) <= 2
                  THEN Alerts!Evidence(TRUE, {Alerts!Summary(points, Series(key)) : key \in keys},
                         Cardinality(keys) = 2 \/ \E key \in keys : Cardinality(Series(key)) = 4)
                  ELSE Alerts!Absent
    <3>1. metrics = Alerts!build_metric_evidence(points, expected, plan.metric.promql_template_id)
      BY DEF Alerts!_build_prometheus_alert_evidence, expected
    <3>2. (\A i \in DOMAIN points :
             /\ points[i].metric_name = Alerts!metric_name_for_template(plan.metric.promql_template_id)
             /\ points[i].instance = expected.instance
             /\ points[i].at \in expected.window_start .. expected.window_end) <=> inside /\ here
      BY <1>5, <2>1, <2>2
    <3> HIDE DEF inside, here
    <3>3. Alerts!MAX_POINTS_PER_SERIES = 4 /\ Alerts!MAX_SERIES = 2
      BY DEF Alerts!MAX_SERIES, Alerts!MAX_POINTS_PER_SERIES
    <3>4. QED
      <4>1. \A S : Alerts!Cardinality(S) = Cardinality(S)
        BY SameCardinality
      <4>2. QED
        BY <3>1, <3>2, <3>3, <4>1 DEF Alerts!build_metric_evidence
  <2> HIDE DEF metrics, inside, here
  <2>4. QED
    BY <2>3 DEF Alerts!Evidence, Alerts!Absent
<1>7. Cardinality(alerts.facts) \in Nat /\ (Cardinality(alerts.facts) = 0 <=> alerts.facts = {})
  <2> DEFINE facts == {rows[i] : i \in DOMAIN rows}
  <2>1. IsFiniteSet(DOMAIN rows)
    <3>1. DOMAIN rows = 1 .. Len(rows) /\ Len(rows) \in Int /\ 1 \in Int
      BY <1>1
    <3>2. QED
      BY <3>1, FS_Interval
  <2>2. [i \in DOMAIN rows |-> rows[i]] \in Surjection(DOMAIN rows, facts)
    BY DEF Surjection
  <2>3. IsFiniteSet(facts)
    BY <2>1, <2>2, FS_Surjection
  <2>4. alerts.facts = facts \/ alerts.facts = {}
    <3> HIDE DEF alerts
    <3>1. QED
      BY <1>3 DEF Alerts!Evidence, Alerts!Absent
  <2> HIDE DEF alerts, facts
  <2>5. IsFiniteSet(alerts.facts)
    BY <2>3, <2>4, FS_EmptySet
  <2>6. QED
    BY <2>5, FS_CardinalityType, FS_EmptySet
<1> HIDE DEF alerts, metrics
<1>8. /\ verdict.sufficient <=>
           alerts.built /\ Cardinality(alerts.facts) = 1 /\ metrics.built /\ metrics.facts # {}
      /\ verdict.missing = "fingerprint" <=> alerts.built /\ Cardinality(alerts.facts) > 1
  <2>1. PICK n \in Nat : n = Cardinality(alerts.facts)
    BY <1>7
  <2>2. Alerts!Cardinality(alerts.facts) = n /\ (n = 0 <=> alerts.facts = {})
    BY <1>7, <2>1, SameCardinality
  <2>3. /\ verdict.sufficient <=> verdict.missing = "none"
        /\ verdict.missing = "fingerprint" <=> alerts.built /\ n > 1
        /\ verdict.missing = "none" <=> alerts.built /\ n = 1 /\ metrics.built /\ metrics.facts # {}
    BY <2>2, VerdictNamesWhatIsMissing
  <2> HIDE DEF verdict
  <2>4. QED
    BY <2>1, <2>3
<1>9. verdict.sufficient =>
        alerts.built /\ Cardinality(alerts.facts) = 1 /\ metrics.built /\ metrics.facts # {}
  BY <1>8
<1> DEFINE distinct == \A i, j \in DOMAIN rows : i # j => rows[i].fingerprint # rows[j].fingerprint
<1>10. alerts.built => /\ alerts.facts = {rows[i] : i \in DOMAIN rows} /\ distinct
                      /\ \A i \in DOMAIN rows : Alerts!_alert_fact(rows[i], plan.alerts)
  BY <1>3 DEF Alerts!Evidence, Alerts!Absent
<1>11. verdict.sufficient =>
        /\ Len(rows) = 1 /\ rows[1].instance = Alerts!Here
        /\ answer.fingerprint \in {Alerts!None, rows[1].fingerprint}
        /\ points # <<>> /\ inside /\ here
  <2>1. HAVE verdict.sufficient
  <2>2. Len(rows) = 1
    BY <1>1, <1>9, <1>10, <2>1, OneFactIsOneRow
  <2>3. 1 \in DOMAIN rows
    BY <1>1, <2>2
  <2>4. rows[1].instance = Alerts!Here /\ answer.fingerprint \in {Alerts!None, rows[1].fingerprint}
    BY <1>4, <1>9, <1>10, <2>1, <2>3 DEF Alerts!_alert_fact
  <2>5. inside /\ here
    BY <1>6, <1>9, <2>1
  <2>6. keys # {}
    BY <1>6, <1>9, <2>1
  <2>7. points # <<>>
    BY <2>6
  <2>8. QED
    BY <2>2, <2>4, <2>5, <2>7
<1>12. ASSUME inside, here, Ordered(DOMAIN points)
       PROVE  /\ metrics.built
              /\ \A fact \in metrics.facts : fact.min <= fact.first /\ fact.latest <= fact.max
  <2>1. \A key \in keys : /\ IsFiniteSet(Series(key)) /\ Cardinality(Series(key)) \in 0 .. 4
    BY <1>1, <1>12, ASeriesFitsItsWindow
  <2>2. \A key \in keys : Series(key) \subseteq DOMAIN points /\ Series(key) # {}
    BY DEF Alerts!SeriesOf
  <2>3. Cardinality(keys) <= 2
    <3>1. keys \subseteq {"a", "b"}
      <4>1. \A row \in MetricRows : row.series_key \in {"a", "b"}
        BY DEF MetricRows
      <4>2. \A i \in DOMAIN points : points[i] \in MetricRows
        BY <1>1
      <4>3. QED
        BY <4>1, <4>2
    <3>2. IsFiniteSet({"a"}) /\ Cardinality({"a"}) = 1
      BY FS_Singleton
    <3>3. IsFiniteSet({"a"} \cup {"b"}) /\ Cardinality({"a"} \cup {"b"}) = 2
      BY <3>2, FS_AddElement
    <3>4. {"a", "b"} = {"a"} \cup {"b"}
      OBVIOUS
    <3>5. QED
      BY <3>1, <3>3, <3>4, FS_Subset
  <2>4. \A key \in keys : Ordered(Series(key))
    BY <1>12, <2>2
  <2>5. metrics.built
    BY <1>6, <1>12, <2>1, <2>3, <2>4
  <2>6. \A key \in keys : LET fact == Alerts!Summary(points, Series(key))
                          IN fact.min <= fact.first /\ fact.latest <= fact.max
    BY <1>1, <2>1, <2>2, SummariesBoundTheirEnds
  <2>7. QED
    BY <1>6, <2>5, <2>6
<1>13. verdict.missing = "fingerprint" => answer.fingerprint = Alerts!None
  <2>1. HAVE verdict.missing = "fingerprint"
  <2>2. alerts.built /\ Cardinality(alerts.facts) > 1
    BY <1>8, <2>1
  <2>3. SUFFICES ASSUME answer.fingerprint # Alerts!None PROVE FALSE
    OBVIOUS
  <2>4. \A i \in DOMAIN rows : rows[i].fingerprint = answer.fingerprint
    BY <1>4, <1>10, <2>2, <2>3 DEF Alerts!_alert_fact
  <2>5. \A i, j \in DOMAIN rows : i = j
    BY <1>10, <2>2, <2>4
  <2>6. alerts.facts = {} \/ \E x : alerts.facts = {x}
    <3>1. alerts.facts = {rows[i] : i \in DOMAIN rows}
      BY <1>10, <2>2
    <3>2. CASE DOMAIN rows = {}
      BY <3>1, <3>2
    <3>3. ASSUME NEW i \in DOMAIN rows PROVE alerts.facts = {rows[i]}
      BY <2>5, <3>1
    <3>4. QED
      BY <3>2, <3>3
  <2>7. QED
    BY <2>2, <2>6, FS_EmptySet, FS_Singleton
<1> HIDE DEF rows, verdict
<1>14. Alerts!AlertVerdictsAreBacked(answer)
         <=> /\ verdict.sufficient =>
                  /\ Len(rows) = 1 /\ rows[1].instance = Alerts!Here
                  /\ answer.fingerprint \in {Alerts!None, rows[1].fingerprint}
                  /\ points # <<>>
                  /\ {i \in DOMAIN points : points[i].at \in start .. 6} = DOMAIN points
                  /\ here
             /\ points # <<>> /\ {i \in DOMAIN points : points[i].at \in start .. 6} = DOMAIN points
                  /\ Ordered(DOMAIN points) /\ here
                => metrics.built
                     /\ (\A fact \in metrics.facts : fact.min <= fact.first /\ fact.latest <= fact.max)
             /\ verdict.missing = "fingerprint" => answer.fingerprint = Alerts!None
  BY DEF Alerts!AlertVerdictsAreBacked, rows, verdict, alerts, metrics, plan, Alerts!Minute
<1>15. {i \in DOMAIN points : points[i].at \in start .. 6} = DOMAIN points <=> inside
  OBVIOUS
<1> HIDE DEF inside, here, start, points
<1>16. QED
  BY <1>11, <1>12, <1>13, <1>14, <1>15

-----------------------------------------------------------------------------
\* Every input of the two capabilities.
AnyPlanInput ==
    \/ kind = "request" /\ input \in SlowRequests
    \/ kind = "talk" /\ input \in AlertTalks
    \/ kind = "answer" /\ input \in AlertAnswers
PlansSpec == AnyPlanInput /\ [][FALSE]_<<kind, input>>

\* The inputs the runs enumerate are among them.
LEMMA PlanInputsAreAmongThem == PlanInit => AnyPlanInput
<1>1. Slow!Requests \subseteq SlowRequests
  <2>1. {"none", "d1", "u1"} \subseteq Words
    BY DEF Words
  <2>2. QED
    BY <2>1 DEF Slow!Requests, SlowRequests, Slow!NoFilter
<1>2. Alerts!Talks \subseteq AlertTalks
  <2>1. {"none", "HostHighCpu", "InstanceDown", "invalid"} \subseteq Words
    BY DEF Words
  <2>2. /\ Alerts!NoInstance \in Spellings /\ Alerts!BadInstance \in Spellings
        /\ {Alerts!Instance("DB1", "080"), Alerts!Instance("10.0.0.1.", "none"), Alerts!Instance("[0:0::1]", "none"),
            Alerts!Instance("::1", "none"), Alerts!Instance("db1", "0"), Alerts!Instance("db1.", "none")}
             \subseteq Spellings
    BY DEF Words, Spellings, Alerts!NoInstance, Alerts!BadInstance, Alerts!Instance, Alerts!None, Alerts!Invalid
  <2>3. /\ Alerts!Whole("invalid", Alerts!BadInstance) \in [name : Words, instance : Spellings, fingerprint : Words]
        /\ Alerts!Whole("InstanceDown", Alerts!BadInstance) \in [name : Words, instance : Spellings, fingerprint : Words]
        /\ Alerts!Whole("invalid", Alerts!Instance("db1.", "none"))
             \in [name : Words, instance : Spellings, fingerprint : Words]
    BY <2>1, <2>2 DEF Alerts!Whole, Alerts!Invalid
  <2>4. ASSUME NEW minutes \in SUBSET Int,
               NEW wholes \in SUBSET [name : Words, instance : Spellings, fingerprint : Words]
        PROVE  Alerts!Texts(minutes, wholes) \subseteq AlertTexts
    BY <2>1, <2>2 DEF Alerts!Texts, AlertTexts, Alerts!None
  <2>5. {-1, 0, 1, 3, 4} \subseteq Int /\ {-1, 2} \subseteq Int /\ {8, 9} \subseteq Int
    OBVIOUS
  <2>6. /\ Alerts!Texts({-1, 0, 1, 3, 4}, {Alerts!Whole("invalid", Alerts!BadInstance)}) \subseteq AlertTexts
        /\ Alerts!Texts({-1, 2}, {Alerts!Whole("invalid", Alerts!BadInstance),
                                  Alerts!Whole("InstanceDown", Alerts!BadInstance),
                                  Alerts!Whole("invalid", Alerts!Instance("db1.", "none"))}) \subseteq AlertTexts
    BY <2>3, <2>4, <2>5
  <2>7. QED
    BY <2>5, <2>6 DEF Alerts!Talks, AlertTalks, Alerts!Invalid, Alerts!None
<1>3. Alerts!Answers \subseteq AlertAnswers
  <2>1. {"none", "f1", "f2", "InstanceDown", "db1", "10.0.0.1"} \subseteq Words
    BY DEF Words
  <2>2. Alerts!Here \in Spellings /\ Alerts!There \in Spellings
    BY <2>1 DEF Alerts!Here, Alerts!There, Alerts!Instance, Alerts!None, Spellings
  <2>3. ASSUME NEW instance \in Spellings, NEW fingerprint \in {"f1", "f2"}
        PROVE  Alerts!AlertRow(instance, fingerprint) \in AlertRows
    BY <2>1 DEF Alerts!AlertRow, AlertRows
  <2>4. ASSUME NEW series \in {"a", "b"}, NEW instance \in Spellings, NEW minute \in Int, NEW value \in Int
        PROVE  Alerts!Point(series, instance, 2 * minute, value) \in MetricRows
    BY DEF Alerts!Point, MetricRows
  <2>5. ASSUME NEW S, NEW T \in SUBSET S, NEW n \in Nat
        PROVE  Alerts!SeqOf(T, n) \subseteq Seq(S)
    BY DEF Alerts!SeqOf
  <2>6. Alerts!SeqOf({Alerts!AlertRow(Alerts!Here, "f1"), Alerts!AlertRow(Alerts!Here, "f2"),
                      Alerts!AlertRow(Alerts!There, "f1")}, Alerts!ALERT_LIMIT + 1) \subseteq Seq(AlertRows)
    BY <2>2, <2>3, <2>5 DEF Alerts!ALERT_LIMIT
  <2>7. Alerts!SeqOf({Alerts!Point("a", Alerts!Here, 2, 1), Alerts!Point("a", Alerts!Here, 4, 0),
                      Alerts!Point("b", Alerts!Here, 6, 2), Alerts!Point("a", Alerts!There, 6, 1)}, 2)
          \subseteq Seq(MetricRows)
    <3>1. /\ Alerts!Point("a", Alerts!Here, 2 * 1, 1) \in MetricRows
          /\ Alerts!Point("a", Alerts!Here, 2 * 2, 0) \in MetricRows
          /\ Alerts!Point("b", Alerts!Here, 2 * 3, 2) \in MetricRows
          /\ Alerts!Point("a", Alerts!There, 2 * 3, 1) \in MetricRows
      BY <2>2, <2>4
    <3>2. 2 * 1 = 2 /\ 2 * 2 = 4 /\ 2 * 3 = 6
      OBVIOUS
    <3>3. {Alerts!Point("a", Alerts!Here, 2, 1), Alerts!Point("a", Alerts!Here, 4, 0),
           Alerts!Point("b", Alerts!Here, 6, 2), Alerts!Point("a", Alerts!There, 6, 1)} \subseteq MetricRows
      BY <3>1, <3>2
    <3>4. QED
      BY <2>5, <3>3
  <2>8. ASSUME NEW n \in 3 .. Alerts!MAX_POINTS_PER_SERIES + 1
        PROVE  [k \in 1 .. n |-> Alerts!Point("a", Alerts!Here, 2 * (k - 1), 3 - k)] \in Seq(MetricRows)
    <3>1. n \in Nat
      BY DEF Alerts!MAX_POINTS_PER_SERIES
    <3>2. \A k \in 1 .. n : Alerts!Point("a", Alerts!Here, 2 * (k - 1), 3 - k) \in MetricRows
      <4>1. TAKE k \in 1 .. n
      <4>2. k - 1 \in Int /\ 3 - k \in Int /\ "a" \in {"a", "b"}
        BY <3>1
      <4>3. QED
        BY <2>2, <2>4, <4>2
    <3>3. [k \in 1 .. n |-> Alerts!Point("a", Alerts!Here, 2 * (k - 1), 3 - k)] \in [1 .. n -> MetricRows]
      BY <3>2
    <3>4. QED
      BY <3>1, <3>3
  <2>9. QED
    BY <2>1, <2>6, <2>7, <2>8 DEF Alerts!Answers, AlertAnswers, Alerts!None
<1>4. QED
  BY <1>1, <1>2, <1>3 DEF PlanInit, AnyPlanInput

\* For every request, conversation and answer, a plan asks for what the user
\* confirmed and nothing else, its own guard admits it and refuses every edit
\* of it, and a verdict is sufficient only on one alert and points of its
\* instance (compile_plan, verify_sql, compile_alert_plan, verify_promql,
\* assess_prometheus_alert).
THEOREM PlansAlwaysAskWhatWasConfirmed == PlansSpec => []PlansAskWhatWasConfirmed
<1>1. AnyPlanInput => PlansAskWhatWasConfirmed
  BY SlowPlansAreAdmitted, TalksAreFollowed, VerdictsAreBacked DEF AnyPlanInput, PlansAskWhatWasConfirmed
<1>2. PlansAskWhatWasConfirmed /\ [FALSE]_<<kind, input>> => PlansAskWhatWasConfirmed'
  BY DEF PlansAskWhatWasConfirmed, Slow!CompiledPlansAreAdmitted, Alerts!AlertPlansSayWhatWasAsked
<1>3. QED
  BY <1>1, <1>2, PTL DEF PlansSpec
=============================================================================
