----------------------- MODULE ChannelProjectionProofs -----------------------
(***************************************************************************)
(* What the Feishu projection promises for any number of workers, any      *)
(* clocks, any crashes and stalls.                                         *)
(***************************************************************************)
EXTENDS TaskJourney, FiniteSetTheorems, TLAPS

LEMMA ClockIsAReading ==
    ASSUME NEW w \in Workers
    PROVE  /\ ClockOf[w] \in Int /\ Past \in Deadlines
           /\ ClockOf[w] + ClaimTtl \in Deadlines /\ ClockOf[w] + Delay \in Deadlines
BY ProjectionAssumption DEF Deadlines, Past

LEMMA CloserIsADeadline ==
    ASSUME NEW d \in Deadlines
    PROVE  Closer(d) \in Deadlines
BY ProjectionAssumption DEF Closer, Deadlines, Past

\* What names a message, and what project_task may see.
LEMMA MessagesAreVersioned ==
    /\ NoMessage \notin Messages /\ NoMessage.version \in Int
    /\ \A m \in Messages : m.version \in Versions /\ m.version \in Int
    /\ Versions \subseteq Nat
BY DEF Messages, NoMessage, NoVersion, Versions

LEMMA FormNowIsAForm == FormNow \in Forms
BY DEF FormNow, Forms

LEMMA FormsAboveAreForms ==
    ASSUME NEW f \in Forms, NEW form \in f .. FormNow
    PROVE  form \in Forms
BY FormNowIsAForm DEF Forms

LEMMA IdempotencyRefIsAMessage ==
    ASSUME NEW w \in Workers, local[w] \in Coroutine
    PROVE  /\ IdempotencyRef(w) \in Messages
           /\ IdempotencyRef(w).version = local[w].version
BY DEF IdempotencyRef, Coroutine, Messages

LEMMA IdleIsACoroutine == Idle \in Coroutine
BY ProjectionAssumption
   DEF Idle, Coroutine, ProjectionStates, SettledStates, Versions, Deadlines, Past, Forms

LEMMA InitTypeOK == Init => TypeOK
<1> SUFFICES ASSUME Init PROVE TypeOK
  OBVIOUS
<1>1. Past \in Deadlines /\ 0 \in Versions
  BY ProjectionAssumption DEF Deadlines, Past, Versions
<1>2. InitialStates \subseteq ProjectionStates
  BY ProjectionAssumption DEF ProjectionStates, SendingStates
<1>3. sub \in ProjectionSubscription
  BY <1>1, <1>2 DEF Init, ProjectionSubscription
<1>4. QED
  BY <1>1, <1>3, IdleIsACoroutine, ProjectionAssumption DEF Init, TypeOK

\* The shapes in which the row is rewritten.
LEMMA ReleasedRow ==
    ASSUME NEW s \in ProjectionSubscription
    PROVE  /\ Released(s) \in ProjectionSubscription
           /\ Released(s).state = s.state
           /\ Released(s).source_message_ref = s.source_message_ref
           /\ Released(s).last_projected_task_version = s.last_projected_task_version
           /\ Released(s).provider_failure_count = s.provider_failure_count
           /\ Released(s).claim_owner = NoOwner
           /\ Released(s).fencing_token = NoToken
<1>1. Past \in Deadlines
  BY ProjectionAssumption DEF Deadlines, Past
<1>2. QED
  BY <1>1 DEF Released, ProjectionSubscription

LEMMA ClaimedRow ==
    ASSUME TypeOK, NEW w \in Workers, NEW token \in Tokens
    PROVE  /\ Claimed(w, token) \in ProjectionSubscription
           /\ Claimed(w, token).state = IF sub.state = "WAITING_TERMINAL"
                                        THEN "DELIVERING_TERMINAL" ELSE sub.state
           /\ Claimed(w, token).source_message_ref = sub.source_message_ref
           /\ Claimed(w, token).last_projected_task_version
                = sub.last_projected_task_version
           /\ Claimed(w, token).provider_failure_count = sub.provider_failure_count
           /\ Claimed(w, token).claim_owner = w
           /\ Claimed(w, token).fencing_token = token
           /\ Claimed(w, token).claim_expires_at \in Deadlines
<1>1. sub \in ProjectionSubscription
  BY DEF TypeOK
<1>2. (IF sub.state = "WAITING_TERMINAL" THEN "DELIVERING_TERMINAL" ELSE sub.state)
        \in ProjectionStates
  BY <1>1 DEF ProjectionSubscription, ProjectionStates, SendingStates
<1>3. QED
  BY <1>1, <1>2, ClockIsAReading DEF Claimed, ProjectionSubscription

LEMMA DeliveredRow ==
    ASSUME TypeOK, NEW w \in Workers
    PROVE  /\ Delivered(w) \in ProjectionSubscription
           /\ Delivered(w).state =
                IF local[w].state = "PENDING_INITIAL" /\ ~local[w].terminal
                THEN "WAITING_TERMINAL" ELSE "COMPLETED"
           /\ Delivered(w).source_message_ref = local[w].message
           /\ Delivered(w).last_projected_task_version = local[w].version
           /\ Delivered(w).provider_failure_count = sub.provider_failure_count
           /\ Delivered(w).claim_owner = NoOwner
           /\ Delivered(w).fencing_token = NoToken
<1> DEFINE shown == [sub EXCEPT !.source_message_ref = local[w].message,
                                !.last_projected_task_version = local[w].version]
<1>1. sub \in ProjectionSubscription /\ local[w] \in Coroutine
  BY DEF TypeOK
<1>2. /\ shown \in ProjectionSubscription
      /\ shown.provider_failure_count = sub.provider_failure_count
      /\ shown.source_message_ref = local[w].message
      /\ shown.last_projected_task_version = local[w].version
  BY <1>1 DEF ProjectionSubscription, Coroutine
<1>3. \A s \in ProjectionStates, d \in Deadlines :
        LET moved == [shown EXCEPT !.state = s, !.next_attempt_at = d]
        IN  /\ moved \in ProjectionSubscription /\ moved.state = s
            /\ moved.provider_failure_count = sub.provider_failure_count
            /\ moved.source_message_ref = local[w].message
            /\ moved.last_projected_task_version = local[w].version
  BY <1>2 DEF ProjectionSubscription
<1>4. LET ended == [shown EXCEPT !.state = "COMPLETED"]
      IN  /\ ended \in ProjectionSubscription /\ ended.state = "COMPLETED"
          /\ ended.provider_failure_count = sub.provider_failure_count
          /\ ended.source_message_ref = local[w].message
          /\ ended.last_projected_task_version = local[w].version
  BY <1>2 DEF ProjectionSubscription, ProjectionStates, SettledStates
<1>5. "COMPLETED" \in ProjectionStates /\ "WAITING_TERMINAL" \in ProjectionStates
  BY DEF ProjectionStates, SettledStates
<1> HIDE DEF shown
<1>6. CASE local[w].state = "PENDING_INITIAL"
  <2> DEFINE s == IF local[w].terminal THEN "COMPLETED" ELSE "WAITING_TERMINAL"
             row == [shown EXCEPT !.state = s, !.next_attempt_at = ClockOf[w] + Delay]
  <2>1. s \in ProjectionStates
    BY <1>5
  <2>2. Delivered(w) = Released(row)
    BY <1>6 DEF Delivered, shown
  <2>3. /\ row \in ProjectionSubscription /\ row.state = s
        /\ row.provider_failure_count = sub.provider_failure_count
        /\ row.source_message_ref = local[w].message
        /\ row.last_projected_task_version = local[w].version
    BY <1>3, <2>1, ClockIsAReading
  <2> HIDE DEF row
  <2>4. QED
    BY <1>6, <2>2, <2>3, ReleasedRow
<1>7. CASE local[w].state # "PENDING_INITIAL"
  <2> DEFINE row == [shown EXCEPT !.state = "COMPLETED"]
  <2>1. Delivered(w) = Released(row)
    BY <1>7 DEF Delivered, shown
  <2>2. /\ row \in ProjectionSubscription /\ row.state = "COMPLETED"
        /\ row.provider_failure_count = sub.provider_failure_count
        /\ row.source_message_ref = local[w].message
        /\ row.last_projected_task_version = local[w].version
    BY <1>4
  <2> HIDE DEF row
  <2>3. QED
    BY <1>7, <2>1, <2>2, ReleasedRow
<1>8. QED
  BY <1>6, <1>7

LEMMA RecheckedRow ==
    ASSUME TypeOK, NEW w \in Workers
    PROVE  /\ Rechecked(w) \in ProjectionSubscription
           /\ Rechecked(w).state = "WAITING_TERMINAL"
           /\ Rechecked(w).source_message_ref = sub.source_message_ref
           /\ Rechecked(w).last_projected_task_version = sub.last_projected_task_version
           /\ Rechecked(w).provider_failure_count = sub.provider_failure_count
           /\ Rechecked(w).claim_owner = NoOwner
           /\ Rechecked(w).fencing_token = NoToken
<1> DEFINE row == [sub EXCEPT !.state = "WAITING_TERMINAL",
                              !.next_attempt_at = ClockOf[w] + Delay]
<1>1. /\ row \in ProjectionSubscription /\ row.state = "WAITING_TERMINAL"
      /\ row.provider_failure_count = sub.provider_failure_count
      /\ row.source_message_ref = sub.source_message_ref
      /\ row.last_projected_task_version = sub.last_projected_task_version
  BY ClockIsAReading DEF TypeOK, ProjectionSubscription, ProjectionStates
<1>2. Rechecked(w) = Released(row)
  BY DEF Rechecked
<1> HIDE DEF row
<1>3. QED
  BY <1>1, <1>2, ReleasedRow

LEMMA FailedRow ==
    ASSUME TypeOK, NEW w \in Workers
    PROVE  /\ Failed(w) \in ProjectionSubscription
           /\ Failed(w).state = IF local[w].retryable /\ local[w].failures + 1 < MaxAttempts
                                THEN sub.state ELSE "DEAD_LETTER"
           /\ Failed(w).source_message_ref = sub.source_message_ref
           /\ Failed(w).last_projected_task_version = sub.last_projected_task_version
           /\ Failed(w).provider_failure_count = sub.provider_failure_count + 1
           /\ Failed(w).claim_owner = NoOwner
           /\ Failed(w).fencing_token = NoToken
<1> DEFINE count == sub.provider_failure_count + 1
           charged == [sub EXCEPT !.provider_failure_count = count]
           retried == [charged EXCEPT !.next_attempt_at = ClockOf[w] + Delay]
           dead == [charged EXCEPT !.state = "DEAD_LETTER"]
<1>1. sub \in ProjectionSubscription /\ count \in Nat
  BY DEF TypeOK, ProjectionSubscription
<1> HIDE DEF count
<1>2. /\ charged \in ProjectionSubscription /\ charged.state = sub.state
      /\ charged.provider_failure_count = count
      /\ charged.source_message_ref = sub.source_message_ref
      /\ charged.last_projected_task_version = sub.last_projected_task_version
  BY <1>1 DEF ProjectionSubscription
<1>3. Failed(w) = Released(IF local[w].retryable /\ local[w].failures + 1 < MaxAttempts
                           THEN retried ELSE dead)
  BY DEF Failed, count
<1> HIDE DEF charged
<1>4. /\ retried \in ProjectionSubscription /\ retried.state = sub.state
      /\ retried.provider_failure_count = count
      /\ retried.source_message_ref = sub.source_message_ref
      /\ retried.last_projected_task_version = sub.last_projected_task_version
  BY <1>2, ClockIsAReading DEF ProjectionSubscription
<1>5. /\ dead \in ProjectionSubscription /\ dead.state = "DEAD_LETTER"
      /\ dead.provider_failure_count = count
      /\ dead.source_message_ref = sub.source_message_ref
      /\ dead.last_projected_task_version = sub.last_projected_task_version
  BY <1>2 DEF ProjectionSubscription, ProjectionStates, SettledStates
<1> HIDE DEF retried, dead
<1>6. QED
  BY <1>3, <1>4, <1>5, ReleasedRow DEF count

LEMMA BecomeTyped ==
    ASSUME TypeOK, NEW w \in Workers, NEW l \in Coroutine, Become(w, l)
    PROVE  /\ local' \in [Workers -> Coroutine] /\ local'[w] = l
           /\ \A v \in Workers \ {w} : local'[v] = local[v]
BY DEF TypeOK, Become

\* Every action keeps the row, the coroutines and the cards well typed.
LEMMA ProcessDueTypeOK ==
    ASSUME TypeOK, NEW w \in Workers, ListDue(w) \/ ProcessDue(w) \/ Abandon(w)
    PROVE  TypeOK'
<1> USE IdleIsACoroutine
<1>t. sub \in ProjectionSubscription /\ local[w] \in Coroutine
      /\ record \in [version : Versions, terminal : BOOLEAN, planned : BOOLEAN,
                  bare : BOOLEAN]
  BY DEF TypeOK
<1>m. ASSUME NEW winner \in ProjectionSubscription, Mutate(w, winner)
      PROVE  TypeOK'
  BY <1>m, BecomeTyped DEF Mutate, StoreOnly, TypeOK
<1>1. CASE ListDue(w)
  <2>1. [Idle EXCEPT !.pc = "claim", !.state = sub.state] \in Coroutine
    BY <1>t DEF Coroutine, ProjectionSubscription
  <2>2. QED
    BY <1>1, <2>1, BecomeTyped DEF ListDue, LocalOnly, TypeOK
<1>2. CASE Claim(w)
  <2>1. CASE Due(ClockOf[w]) /\ sub.state = local[w].state
    <3>1. PICK token \in Tokens :
            /\ sub' = Claimed(w, token)
            /\ Become(w, [Idle EXCEPT !.pc = "resolve", !.state = sub'.state,
                            !.message = sub.source_message_ref,
                            !.failures = sub.provider_failure_count,
                            !.token = token, !.expires = sub'.claim_expires_at])
      BY <1>2, <2>1 DEF Claim, Unheld
    <3>2. sub' \in ProjectionSubscription
      BY <3>1, ClaimedRow
    <3>3. [Idle EXCEPT !.pc = "resolve", !.state = sub'.state,
                       !.message = sub.source_message_ref,
                       !.failures = sub.provider_failure_count,
                       !.token = token, !.expires = sub'.claim_expires_at] \in Coroutine
      BY <1>t, <3>2 DEF Coroutine, ProjectionSubscription
    <3>4. local' \in [Workers -> Coroutine]
      BY <3>1, <3>3, BecomeTyped
    <3>5. QED
      BY <1>2, <3>2, <3>4 DEF Claim, StoreOnly, TypeOK
  <2>2. QED
    BY <1>2, <2>1, BecomeTyped DEF Claim, StoreOnly, TypeOK
<1>3. ASSUME NEW pc \in {"get", "deliver"}
      PROVE  [local[w] EXCEPT !.pc = pc] \in Coroutine
  BY <1>t DEF Coroutine
<1>4. CASE Resolve(w)
  BY <1>4, <1>3, BecomeTyped DEF Resolve, Goto, LocalOnly, TypeOK
<1>5. CASE GetTask(w)
  <2>1. ASSUME NEW pc \in {"recheck", "project"}
        PROVE  [local[w] EXCEPT !.pc = pc, !.version = record.version,
                                !.terminal = record.terminal,
                                !.form = FormNow] \in Coroutine
    BY <1>t, FormNowIsAForm DEF Coroutine
  <2>2. QED
    BY <1>5, <2>1, BecomeTyped DEF GetTask, LocalOnly, TypeOK
<1>6. CASE ScheduleTaskRecheck(w)
  BY <1>6, <1>m, RecheckedRow DEF ScheduleTaskRecheck
<1>7. CASE StableCard(w)
  <2>f. PICK form \in local[w].form .. FormNow :
          Become(w, IF Unrenderable(w, form) THEN Idle
                    ELSE IF record.version = local[w].version
                    THEN [local[w] EXCEPT !.pc = "renew", !.form = form]
                    ELSE IF local[w].tries + 1 < ReadAttempts
                    THEN [local[w] EXCEPT !.version = record.version,
                                          !.terminal = record.terminal,
                                          !.form = FormNow, !.tries = @ + 1]
                    ELSE Idle)
    BY <1>7 DEF StableCard
  <2>g. form \in Forms
    BY <1>t, <2>f, FormsAboveAreForms DEF Coroutine
  <2>1. [local[w] EXCEPT !.pc = "renew", !.form = form] \in Coroutine
    BY <1>t, <2>g DEF Coroutine
  <2>2. ASSUME local[w].tries + 1 < ReadAttempts
        PROVE  [local[w] EXCEPT !.version = record.version, !.terminal = record.terminal,
                                !.form = FormNow, !.tries = @ + 1] \in Coroutine
    <3>1. local[w].tries + 1 \in 0 .. ReadAttempts - 1
      BY <1>t, <2>2, ProjectionAssumption DEF Coroutine
    <3>2. ASSUME NEW tries \in 0 .. ReadAttempts - 1
          PROVE  [local[w] EXCEPT !.version = record.version, !.terminal = record.terminal,
                                  !.form = FormNow, !.tries = tries]
                   \in Coroutine
      BY <1>t, FormNowIsAForm DEF Coroutine
    <3>3. QED
      BY <3>1, <3>2
  <2>3. QED
    BY <1>7, <2>f, <2>1, <2>2, BecomeTyped DEF StableCard, LocalOnly, TypeOK
<1>8. CASE RenewProjectionClaim(w)
  <2>1. RenewedExpiry(w) \in Deadlines
    BY <1>t, ClockIsAReading DEF RenewedExpiry, ProjectionSubscription
  <2>2. [sub EXCEPT !.claim_expires_at = RenewedExpiry(w)] \in ProjectionSubscription
    BY <1>t, <2>1 DEF ProjectionSubscription
  <2>3. [local[w] EXCEPT !.pc = "check", !.expires = RenewedExpiry(w)] \in Coroutine
    BY <1>t, <2>1 DEF Coroutine
  <2>4. QED
    BY <1>8, <2>2, <2>3, BecomeTyped DEF RenewProjectionClaim, StoreOnly, TypeOK
<1>9. CASE CheckClaim(w)
  BY <1>9, <1>3, BecomeTyped DEF CheckClaim, Goto, LocalOnly, TypeOK
<1>10. CASE Deliver(w)
  <2>1. MessageOf(w) \in Messages
    BY <1>t, IdempotencyRefIsAMessage DEF MessageOf, Coroutine
  <2>2. [local[w] EXCEPT !.pc = "record", !.message = MessageOf(w)] \in Coroutine
    BY <1>t, <2>1 DEF Coroutine
  <2>3. ASSUME NEW retryable \in BOOLEAN
        PROVE  [local[w] EXCEPT !.pc = "failure", !.retryable = retryable] \in Coroutine
    BY <1>t DEF Coroutine
  <2>4. local' \in [Workers -> Coroutine]
    BY <1>10, <2>2, <2>3, BecomeTyped DEF Deliver
  <2>5. Shown(w) \in [Messages -> {"none", "running", "terminal"}]
    BY <2>1 DEF Shown, CardOf, TypeOK
  <2>6. cards' \in [Messages -> {"none", "running", "terminal"}] /\ doubts' \in Nat
    <3>1. cards' = cards \/ cards' = Shown(w)
      BY <1>10 DEF Deliver
    <3>2. doubts' = doubts \/ doubts' = doubts + 1
      BY <1>10 DEF Deliver
    <3>3. QED
      BY <3>1, <3>2, <2>5 DEF TypeOK
  <2>7. QED
    BY <1>10, <2>4, <2>6 DEF Deliver, TypeOK
<1>11. CASE RecordDelivery(w)
  BY <1>11, <1>m, DeliveredRow DEF RecordDelivery
<1>12. CASE RecordProviderFailure(w)
  BY <1>12, <1>m, FailedRow DEF RecordProviderFailure
<1>13. CASE Abandon(w)
  BY <1>13, BecomeTyped, ProjectionAssumption DEF Abandon, TypeOK
<1>14. QED
  BY <1>1, <1>2, <1>4, <1>5, <1>6, <1>7, <1>8, <1>9, <1>10, <1>11, <1>12, <1>13
     DEF ProcessDue

LEMMA TickTyped ==
    ASSUME TypeOK, Tick
    PROVE  /\ TypeOK'
           /\ sub' = [sub EXCEPT !.claim_expires_at = sub'.claim_expires_at,
                                 !.next_attempt_at = sub'.next_attempt_at]
           /\ \A w \in Workers :
                local'[w] = [local[w] EXCEPT !.expires = local'[w].expires]
<1>t. sub \in ProjectionSubscription /\ local \in [Workers -> Coroutine]
  BY DEF TypeOK
<1>1. /\ Closer(sub.claim_expires_at) \in Deadlines
      /\ Closer(sub.next_attempt_at) \in Deadlines
  BY <1>t, CloserIsADeadline DEF ProjectionSubscription
<1>2. sub' \in ProjectionSubscription
      /\ sub' = [sub EXCEPT !.claim_expires_at = sub'.claim_expires_at,
                            !.next_attempt_at = sub'.next_attempt_at]
  BY <1>t, <1>1 DEF Tick, ProjectionSubscription
<1>3. ASSUME NEW w \in Workers
      PROVE  /\ [local[w] EXCEPT !.expires = Closer(@)] \in Coroutine
             /\ local'[w] = [local[w] EXCEPT !.expires = Closer(@)]
             /\ local'[w] = [local[w] EXCEPT !.expires = local'[w].expires]
  <2>1. local[w] \in Coroutine /\ Closer(local[w].expires) \in Deadlines
    BY <1>t, CloserIsADeadline DEF Coroutine
  <2>2. QED
    BY <2>1 DEF Tick, Coroutine
<1>4. local' \in [Workers -> Coroutine]
  BY <1>3 DEF Tick
<1>5. QED
  BY <1>2, <1>3, <1>4, ProjectionAssumption DEF Tick, TypeOK

LEMMA NextTypeOK == TypeOK /\ [Next]_vars => TypeOK'
<1> SUFFICES ASSUME TypeOK, [Next]_vars PROVE TypeOK'
  OBVIOUS
<1>1. CASE TaskMoves
  <2>1. record' \in [version : Versions, terminal : BOOLEAN, planned : BOOLEAN,
                     bare : BOOLEAN]
    <3>1. PICK terminal, bare \in BOOLEAN :
            record' = [record EXCEPT !.version = @ + 1, !.terminal = terminal, !.bare = bare]
      BY <1>1 DEF TaskMoves
    <3>2. record.version + 1 \in Versions
      BY <1>1, ProjectionAssumption DEF TaskMoves, TypeOK, Versions
    <3>3. QED
      BY <3>1, <3>2 DEF TypeOK
  <2>2. QED
    BY <1>1, <2>1 DEF TaskMoves, TypeOK
<1>p. CASE PlanStored
  BY <1>p DEF PlanStored, TypeOK
<1>2. CASE UNCHANGED vars
  BY <1>2 DEF vars, TypeOK
<1>3. QED
  BY <1>1, <1>p, <1>2, ProcessDueTypeOK, TickTyped DEF Next

\* Type correctness of the subscription row, the coroutines and the cards.
THEOREM ProjectionTypeCorrect == Spec => []TypeOK
BY InitTypeOK, NextTypeOK, PTL DEF Spec

-----------------------------------------------------------------------------
(***************************************************************************)
(* The inductive invariant.  CompletedShowsTerminal alone says nothing of  *)
(* the coroutines that will write the row: what each of them has read must *)
(* still be true of the task, and what it is about to record must be shown *)
(* by the provider.                                                        *)
(***************************************************************************)
Reading(w) == local[w].pc \in {"project", "renew", "check", "deliver", "record", "failure"}

\* A version is read with its own terminal flag, and a terminal one is last.
ReadingIsTrue(w) ==
    /\ local[w].version <= record.version
    /\ local[w].terminal <=> (local[w].version = record.version /\ record.terminal)
    /\ local[w].state = "DELIVERING_TERMINAL" => local[w].terminal

Claiming(w) == local[w].pc \notin {"idle", "claim"}

ClaimIsSending(w) ==
    /\ local[w].state \in SendingStates
    /\ local[w].message.version <= record.version
    /\ (local[w].state = "PENDING_INITIAL" /\ local[w].pc # "record")
          => local[w].message = NoMessage
    /\ (sub.claim_owner = w /\ sub.fencing_token = local[w].token)
          => local[w].failures = sub.provider_failure_count

RecordIsShown(w) ==
    /\ local[w].message # NoMessage
    /\ local[w].terminal => cards[local[w].message] = "terminal"

CardsFollowTask ==
    /\ \A m \in Messages : m.version > record.version => cards[m] = "none"
    /\ record.terminal =>
         \A m \in Messages : m.version = record.version => cards[m] # "running"

RowFollowsTask ==
    /\ sub.source_message_ref.version <= record.version
    /\ sub.state = "PENDING_INITIAL" => sub.source_message_ref = NoMessage
    /\ sub.state \notin SettledStates => sub.provider_failure_count < MaxAttempts
    /\ sub.state = "COMPLETED" => sub.provider_failure_count < MaxAttempts

RowInv ==
    SubscriptionDecodes /\ CompletedShowsTerminal /\ ProviderBudget /\ RowFollowsTask

WorkerInv(w) ==
    /\ Claiming(w) => ClaimIsSending(w)
    /\ Reading(w) => ReadingIsTrue(w)
    /\ At(w, "record") => RecordIsShown(w)

ProjectionInv ==
    /\ TypeOK /\ RowInv /\ CardsFollowTask
    /\ \A w \in Workers : WorkerInv(w)

LEMMA InitInv == Init => ProjectionInv
<1> SUFFICES ASSUME Init PROVE ProjectionInv
  OBVIOUS
<1>1. TypeOK
  BY InitTypeOK
<1>2. RowInv
  BY ProjectionAssumption
     DEF Init, RowInv, SubscriptionDecodes, CompletedShowsTerminal, ProviderBudget,
         RowFollowsTask, SettledStates, NoMessage, NoVersion
<1>3. CardsFollowTask
  BY DEF Init, CardsFollowTask
<1>4. ASSUME NEW w \in Workers PROVE WorkerInv(w)
  BY DEF Init, Idle, WorkerInv, Claiming, Reading, At
<1>5. QED
  BY <1>1, <1>2, <1>3, <1>4 DEF ProjectionInv

\* A coroutine that does not move keeps its facts, as long as the task stands
\* still, no terminal card is taken back and its claim is not rewritten.
LEMMA OthersKeep ==
    ASSUME ProjectionInv, NEW v \in Workers, local'[v] = local[v], record' = record,
           \A m \in Messages : cards[m] = "terminal" => cards'[m] = "terminal",
           sub'.claim_owner = v =>
              /\ sub.claim_owner = v /\ sub'.fencing_token = sub.fencing_token
              /\ sub'.provider_failure_count = sub.provider_failure_count
    PROVE  WorkerInv(v)'
<1>1. WorkerInv(v) /\ local[v] \in Coroutine
  BY DEF ProjectionInv, TypeOK
<1>2. (Claiming(v) => ClaimIsSending(v))'
  BY <1>1 DEF WorkerInv, Claiming, ClaimIsSending
<1>3. (Reading(v) => ReadingIsTrue(v))'
  BY <1>1 DEF WorkerInv, Reading, ReadingIsTrue
<1>4. (At(v, "record") => RecordIsShown(v))'
  BY <1>1 DEF WorkerInv, At, RecordIsShown, Coroutine
<1>5. QED
  BY <1>2, <1>3, <1>4 DEF WorkerInv

LEMMA IdleWorker ==
    ASSUME NEW w \in Workers, local'[w] = Idle
    PROVE  WorkerInv(w)'
BY DEF WorkerInv, Claiming, Reading, At, Idle

\* A step that only moves one coroutine.
LEMMA LocalStep ==
    ASSUME ProjectionInv, NEW w \in Workers, TypeOK', LocalOnly, WorkerInv(w)',
           \A v \in Workers \ {w} : local'[v] = local[v]
    PROVE  ProjectionInv'
<1>1. RowInv' /\ CardsFollowTask'
  BY DEF ProjectionInv, RowInv, SubscriptionDecodes, CompletedShowsTerminal,
         ProviderBudget, RowFollowsTask, CardsFollowTask, LocalOnly
<1>2. ASSUME NEW v \in Workers PROVE WorkerInv(v)'
  BY OthersKeep DEF LocalOnly
<1>3. QED
  BY <1>1, <1>2 DEF ProjectionInv

\* A mutation under the claim, in terms of the row it writes.
LEMMA MutateStep ==
    ASSUME ProjectionInv, TypeOK', NEW w \in Workers, NEW winner \in ProjectionSubscription,
           Mutate(w, winner),
           winner.claim_owner = NoOwner /\ winner.fencing_token = NoToken,
           ClaimMatches(w) =>
              /\ winner.source_message_ref.version <= record.version
              /\ winner.state # "PENDING_INITIAL" \/ winner.source_message_ref = NoMessage
              /\ winner.state = "COMPLETED" =>
                   /\ winner.source_message_ref # NoMessage
                   /\ record.terminal
                   /\ winner.last_projected_task_version = record.version
                   /\ cards[winner.source_message_ref] = "terminal"
              /\ \/ /\ winner.state # "DEAD_LETTER"
                    /\ winner.provider_failure_count < MaxAttempts
                 \/ /\ winner.state = "DEAD_LETTER"
                    /\ winner.provider_failure_count \in 1 .. MaxAttempts
    PROVE  ProjectionInv'
<1>1. /\ local'[w] = Idle /\ \A v \in Workers \ {w} : local'[v] = local[v]
      /\ record' = record /\ cards' = cards
  BY IdleIsACoroutine, BecomeTyped DEF Mutate, StoreOnly, ProjectionInv
<1>2. RowInv'
  <2>1. CASE ~ClaimMatches(w)
    BY <1>1, <2>1 DEF Mutate, ProjectionInv, RowInv, SubscriptionDecodes,
       CompletedShowsTerminal, ProviderBudget, RowFollowsTask
  <2>2. CASE ClaimMatches(w)
    <3>1. sub' = winner
      BY <2>2 DEF Mutate
    <3>2. /\ record.version \in Versions /\ record.version # NoVersion
          /\ winner.provider_failure_count \in Nat
      BY ProjectionAssumption DEF ProjectionInv, TypeOK, Versions, NoVersion,
         ProjectionSubscription
    <3>3. QED
      BY <1>1, <2>2, <3>1, <3>2, ProjectionAssumption
         DEF RowInv, SubscriptionDecodes, CompletedShowsTerminal, ProviderBudget,
             RowFollowsTask, SettledStates
  <2>3. QED
    BY <2>1, <2>2
<1>3. CardsFollowTask'
  BY <1>1 DEF ProjectionInv, CardsFollowTask
<1>4. ASSUME NEW v \in Workers \ {w} PROVE WorkerInv(v)'
  <2>1. sub' = sub \/ sub'.claim_owner = NoOwner
    BY DEF Mutate
  <2>2. NoOwner # v
    BY ProjectionAssumption
  <2>3. QED
    BY <1>1, <2>1, <2>2, OthersKeep
<1>5. QED
  BY <1>1, <1>2, <1>3, <1>4, IdleWorker DEF ProjectionInv

LEMMA ClaimInv ==
    ASSUME ProjectionInv, TypeOK', NEW w \in Workers, Claim(w)
    PROVE  ProjectionInv'
<1>1. CASE Due(ClockOf[w]) /\ sub.state = local[w].state
  <2> DEFINE l(token) == [Idle EXCEPT !.pc = "resolve", !.state = sub'.state,
                            !.message = sub.source_message_ref,
                            !.failures = sub.provider_failure_count,
                            !.token = token, !.expires = sub'.claim_expires_at]
  <2>1. PICK token \in Tokens : sub' = Claimed(w, token) /\ Become(w, l(token))
    BY <1>1 DEF Claim, Unheld
  <2>2. /\ sub'.state = IF sub.state = "WAITING_TERMINAL"
                        THEN "DELIVERING_TERMINAL" ELSE sub.state
        /\ sub'.source_message_ref = sub.source_message_ref
        /\ sub'.last_projected_task_version = sub.last_projected_task_version
        /\ sub'.provider_failure_count = sub.provider_failure_count
        /\ sub'.claim_owner = w /\ sub'.fencing_token = token
        /\ sub'.claim_expires_at \in Deadlines /\ sub' \in ProjectionSubscription
    BY <2>1, ClaimedRow DEF ProjectionInv
  <2>3. sub.state \notin SettledStates /\ sub.state \in ProjectionStates
        /\ sub \in ProjectionSubscription
    BY <1>1 DEF Due, ProjectionInv, TypeOK, ProjectionSubscription
  <2>4. record' = record /\ cards' = cards
    BY DEF Claim, StoreOnly
  <2>5. w # NoOwner /\ token # NoToken
    BY ProjectionAssumption
  <2>6. RowInv'
    <3>1. SubscriptionDecodes' /\ ProviderBudget'
      BY <2>2, <2>3, <2>5 DEF ProjectionInv, RowInv, SubscriptionDecodes, ProviderBudget,
         SettledStates
    <3>2. CompletedShowsTerminal'
      BY <2>2, <2>3 DEF CompletedShowsTerminal, SettledStates
    <3>3. RowFollowsTask'
      BY <2>2, <2>3, <2>4 DEF ProjectionInv, RowInv, RowFollowsTask, SettledStates
    <3>4. QED
      BY <3>1, <3>2, <3>3 DEF RowInv
  <2>7. CardsFollowTask'
    BY <2>4 DEF ProjectionInv, CardsFollowTask
  <2>8. l(token) \in Coroutine
    BY <2>2, <2>3, IdleIsACoroutine DEF Coroutine, ProjectionSubscription
  <2>9. /\ l(token).pc = "resolve" /\ l(token).state = sub'.state
        /\ l(token).message = sub.source_message_ref
        /\ l(token).failures = sub.provider_failure_count
    BY IdleIsACoroutine DEF Coroutine
  <2> HIDE DEF l
  <2>10. local'[w] = l(token) /\ \A v \in Workers \ {w} : local'[v] = local[v]
    BY <2>1, <2>8, BecomeTyped DEF ProjectionInv
  <2>11. WorkerInv(w)'
    <3>1. sub'.state \in SendingStates
      BY <2>2, <2>3 DEF ProjectionStates, SendingStates, SettledStates
    <3>2. sub.source_message_ref.version <= record.version
          /\ (sub'.state = "PENDING_INITIAL" => sub.source_message_ref = NoMessage)
      BY <2>2 DEF ProjectionInv, RowInv, RowFollowsTask
    <3>3. ClaimIsSending(w)'
      BY <2>2, <2>4, <2>9, <2>10, <3>1, <3>2 DEF ClaimIsSending
    <3>4. QED
      BY <2>9, <2>10, <3>3 DEF WorkerInv, Reading, At
  <2>12. ASSUME NEW v \in Workers \ {w} PROVE WorkerInv(v)'
    BY <2>2, <2>4, <2>10, OthersKeep
  <2>13. QED
    BY <2>6, <2>7, <2>11, <2>12 DEF ProjectionInv
<1>2. CASE ~(Due(ClockOf[w]) /\ sub.state = local[w].state)
  <2>1. sub' = sub /\ local'[w] = Idle /\ \A v \in Workers \ {w} : local'[v] = local[v]
    BY <1>2, IdleIsACoroutine, BecomeTyped DEF Claim, ProjectionInv
  <2>2. LocalOnly
    BY <2>1 DEF Claim, StoreOnly, LocalOnly
  <2>3. QED
    BY <2>1, <2>2, IdleWorker, LocalStep
<1>3. QED
  BY <1>1, <1>2

\* The reads: the task is read with its flag, and a terminal task stands still.
LEMMA ReadInv ==
    ASSUME ProjectionInv, TypeOK', NEW w \in Workers,
           \/ ListDue(w) \/ Resolve(w) \/ GetTask(w) \/ StableCard(w) \/ CheckClaim(w)
    PROVE  ProjectionInv'
<1>t. /\ local[w] \in Coroutine /\ WorkerInv(w)
      /\ record \in [version : Versions, terminal : BOOLEAN, planned : BOOLEAN,
                  bare : BOOLEAN]
      /\ sub \in ProjectionSubscription
      /\ Versions \subseteq Int
  BY DEF ProjectionInv, TypeOK, Versions
<1>u. LocalOnly
  BY DEF ListDue, Resolve, GetTask, StableCard, CheckClaim
<1>v. \A v \in Workers \ {w} : local'[v] = local[v]
  BY DEF ProjectionInv, TypeOK, ListDue, Resolve, GetTask, StableCard, CheckClaim,
         Goto, Become
<1>w. WorkerInv(w)'
  <2>0. CASE local'[w] = Idle
    BY <2>0, IdleWorker
  <2>1. CASE ListDue(w)
    <3>1. local'[w].pc = "claim"
      BY <2>1, IdleIsACoroutine DEF ListDue, Become, ProjectionInv, TypeOK, Coroutine
    <3>2. QED
      BY <3>1 DEF WorkerInv, Claiming, Reading, At
  <2>2. ASSUME NEW pc \in {"get", "renew", "deliver"}, NEW form \in Forms,
               local' = [local EXCEPT ![w] = [local[w] EXCEPT !.pc = pc, !.form = form]],
               Claiming(w), local[w].pc # "record", pc # "get" => Reading(w)
        PROVE  WorkerInv(w)'
    <3>1. /\ local'[w].pc = pc /\ local'[w].state = local[w].state
          /\ local'[w].message = local[w].message /\ local'[w].token = local[w].token
          /\ local'[w].failures = local[w].failures
          /\ local'[w].version = local[w].version
          /\ local'[w].terminal = local[w].terminal
      BY <1>t, <2>2 DEF ProjectionInv, TypeOK, Coroutine
    <3>2. ClaimIsSending(w)'
      BY <1>t, <1>u, <2>2, <3>1 DEF WorkerInv, ClaimIsSending, LocalOnly
    <3>3. pc # "get" => ReadingIsTrue(w)'
      BY <1>t, <1>u, <2>2, <3>1 DEF WorkerInv, ReadingIsTrue, LocalOnly
    <3>4. QED
      BY <2>2, <3>1, <3>2, <3>3 DEF WorkerInv, Reading, At
  <2>s. ASSUME NEW pc \in {"get", "deliver"}
        PROVE  [local[w] EXCEPT !.pc = pc]
                 = [local[w] EXCEPT !.pc = pc, !.form = local[w].form]
    BY <1>t DEF Coroutine
  <2>f. local[w].form \in Forms
    BY <1>t DEF Coroutine
  <2>3. CASE Resolve(w)
    <3>1. CASE local' = [local EXCEPT ![w] = [local[w] EXCEPT !.pc = "get"]]
      <4>1. local' = [local EXCEPT ![w] =
                        [local[w] EXCEPT !.pc = "get", !.form = local[w].form]]
        BY <3>1, <2>s
      <4>2. Claiming(w) /\ local[w].pc # "record"
        BY <2>3 DEF Resolve, At, Claiming
      <4>3. QED
        BY <4>1, <4>2, <2>f, <2>2
    <3>2. QED
      BY <2>0, <2>3, <3>1, IdleIsACoroutine, BecomeTyped
         DEF Resolve, Goto, Become, ProjectionInv
  <2>4. CASE CheckClaim(w)
    <3>1. CASE local' = [local EXCEPT ![w] = [local[w] EXCEPT !.pc = "deliver"]]
      <4>1. local' = [local EXCEPT ![w] =
                        [local[w] EXCEPT !.pc = "deliver", !.form = local[w].form]]
        BY <3>1, <2>s
      <4>2. Claiming(w) /\ local[w].pc # "record" /\ Reading(w)
        BY <2>4 DEF CheckClaim, At, Claiming, Reading
      <4>3. QED
        BY <4>1, <4>2, <2>f, <2>2
    <3>2. QED
      BY <2>0, <2>4, <3>1, IdleIsACoroutine, BecomeTyped
         DEF CheckClaim, Goto, Become, ProjectionInv
  <2>5. ASSUME NEW pc \in {"recheck", "project"}, NEW tries \in Nat,
               local' = [local EXCEPT ![w] =
                           [local[w] EXCEPT !.pc = pc, !.version = record.version,
                              !.terminal = record.terminal, !.form = FormNow,
                              !.tries = tries]],
               Claiming(w), local[w].pc # "record",
               (local[w].state = "DELIVERING_TERMINAL" /\ ~record.terminal)
                  => pc = "recheck"
        PROVE  WorkerInv(w)'
    <3>1. /\ local'[w].pc = pc /\ local'[w].state = local[w].state
          /\ local'[w].message = local[w].message /\ local'[w].token = local[w].token
          /\ local'[w].failures = local[w].failures
          /\ local'[w].version = record.version
          /\ local'[w].terminal = record.terminal
      BY <1>t, <2>5 DEF ProjectionInv, TypeOK, Coroutine
    <3>2. ClaimIsSending(w)'
      BY <1>t, <1>u, <2>5, <3>1 DEF WorkerInv, ClaimIsSending, LocalOnly
    <3>3. pc = "project" => ReadingIsTrue(w)'
      BY <1>t, <1>u, <2>5, <3>1 DEF ReadingIsTrue, LocalOnly
    <3>4. QED
      BY <2>5, <3>1, <3>2, <3>3 DEF WorkerInv, Reading, At
  <2>6. CASE GetTask(w)
    <3>1. PICK pc \in {"recheck", "project"} :
            /\ local' = [local EXCEPT ![w] =
                           [local[w] EXCEPT !.pc = pc, !.version = record.version,
                                            !.terminal = record.terminal,
                                            !.form = FormNow]]
            /\ (local[w].state = "DELIVERING_TERMINAL" /\ ~record.terminal)
                  => pc = "recheck"
      BY <2>6 DEF GetTask, Become
    <3>2. [local[w] EXCEPT !.pc = pc, !.version = record.version,
                           !.terminal = record.terminal, !.form = FormNow]
            = [local[w] EXCEPT !.pc = pc, !.version = record.version,
                               !.terminal = record.terminal, !.form = FormNow,
                               !.tries = local[w].tries]
      BY <1>t DEF Coroutine
    <3>n. local[w].tries \in Nat
      BY <1>t, ProjectionAssumption DEF Coroutine
    <3>3. Claiming(w) /\ local[w].pc # "record"
      BY <2>6 DEF GetTask, At, Claiming
    <3>4. QED
      BY <3>1, <3>2, <3>n, <3>3, <2>5
  <2>7. CASE StableCard(w)
    <3>1. Claiming(w) /\ local[w].pc = "project" /\ Reading(w)
      BY <2>7 DEF StableCard, At, Claiming, Reading
    <3>f. PICK form \in local[w].form .. FormNow :
            local' = [local EXCEPT ![w] =
                        IF Unrenderable(w, form) THEN Idle
                        ELSE IF record.version = local[w].version
                        THEN [local[w] EXCEPT !.pc = "renew", !.form = form]
                        ELSE IF local[w].tries + 1 < ReadAttempts
                        THEN [local[w] EXCEPT !.version = record.version,
                                              !.terminal = record.terminal,
                                              !.form = FormNow, !.tries = @ + 1]
                        ELSE Idle]
      BY <2>7 DEF StableCard, Become
    <3>g. form \in Forms
      BY <2>f, <3>f, FormsAboveAreForms
    <3>i. local' = [local EXCEPT ![w] = Idle] => local'[w] = Idle
      BY DEF ProjectionInv, TypeOK
    <3>r. CASE Unrenderable(w, form)
      BY <2>0, <3>f, <3>i, <3>r
    <3>2. CASE ~Unrenderable(w, form) /\ record.version = local[w].version
      BY <3>f, <3>g, <3>1, <3>2, <2>2
    <3>3. CASE /\ ~Unrenderable(w, form) /\ record.version # local[w].version
               /\ local[w].tries + 1 < ReadAttempts
      <4>1. local[w].state # "DELIVERING_TERMINAL"
        BY <1>t, <3>1, <3>3 DEF WorkerInv, ReadingIsTrue
      <4>2. local[w].tries + 1 \in Nat
        BY <1>t, ProjectionAssumption DEF Coroutine
      <4>3. local' = [local EXCEPT ![w] =
                        [local[w] EXCEPT !.version = record.version,
                                         !.terminal = record.terminal,
                                         !.form = FormNow,
                                         !.tries = local[w].tries + 1]]
        BY <3>f, <3>3
      <4>4. ASSUME NEW n \in Nat
            PROVE  [local[w] EXCEPT !.version = record.version,
                                    !.terminal = record.terminal,
                                    !.form = FormNow, !.tries = n]
                   = [local[w] EXCEPT !.pc = "project", !.version = record.version,
                                      !.terminal = record.terminal,
                                    !.form = FormNow, !.tries = n]
        BY <1>t, <3>1 DEF Coroutine
      <4>5. QED
        BY <3>1, <4>1, <4>2, <4>3, <4>4, <2>5
    <3>4. CASE /\ ~Unrenderable(w, form) /\ record.version # local[w].version
               /\ ~(local[w].tries + 1 < ReadAttempts)
      BY <2>0, <3>f, <3>i, <3>4
    <3>5. QED
      BY <3>r, <3>2, <3>3, <3>4
  <2>8. QED
    BY <2>1, <2>3, <2>4, <2>6, <2>7
<1>x. QED
  BY <1>u, <1>v, <1>w, LocalStep

LEMMA RenewInv ==
    ASSUME ProjectionInv, TypeOK', NEW w \in Workers, RenewProjectionClaim(w)
    PROVE  ProjectionInv'
<1>t. /\ local[w] \in Coroutine /\ WorkerInv(w) /\ sub \in ProjectionSubscription
  BY DEF ProjectionInv, TypeOK
<1>1. CASE ClaimMatches(w)
  <2>e. PICK e \in Deadlines :
          /\ sub' = [sub EXCEPT !.claim_expires_at = e]
          /\ local' = [local EXCEPT ![w] = [local[w] EXCEPT !.pc = "check", !.expires = e]]
    <3>1. RenewedExpiry(w) \in Deadlines
      BY <1>t, ClockIsAReading DEF RenewedExpiry, ProjectionSubscription
    <3>2. QED
      BY <1>1, <3>1 DEF RenewProjectionClaim, Become
  <2>1. /\ sub'.state = sub.state /\ sub'.source_message_ref = sub.source_message_ref
        /\ sub'.last_projected_task_version = sub.last_projected_task_version
        /\ sub'.provider_failure_count = sub.provider_failure_count
        /\ sub'.claim_owner = sub.claim_owner /\ sub'.fencing_token = sub.fencing_token
        /\ record' = record /\ cards' = cards
    BY <2>e, <1>t DEF RenewProjectionClaim, StoreOnly, ProjectionSubscription
  <2>2. /\ local'[w].pc = "check" /\ local'[w].state = local[w].state
        /\ local'[w].message = local[w].message /\ local'[w].token = local[w].token
        /\ local'[w].failures = local[w].failures
        /\ local'[w].version = local[w].version
        /\ local'[w].terminal = local[w].terminal
        /\ \A v \in Workers \ {w} : local'[v] = local[v]
    BY <2>e, <1>t DEF ProjectionInv, TypeOK, Coroutine
  <2>3. RowInv' /\ CardsFollowTask'
    <3>1. SubscriptionDecodes' /\ CompletedShowsTerminal'
      BY <2>1 DEF ProjectionInv, RowInv, SubscriptionDecodes, CompletedShowsTerminal
    <3>2. ProviderBudget' /\ RowFollowsTask' /\ CardsFollowTask'
      BY <2>1 DEF ProjectionInv, RowInv, ProviderBudget, RowFollowsTask, CardsFollowTask
    <3>3. QED
      BY <3>1, <3>2 DEF RowInv
  <2>4. WorkerInv(w)'
    <3>1. ClaimIsSending(w) /\ ReadingIsTrue(w) /\ local[w].pc # "record"
      BY <1>t DEF WorkerInv, RenewProjectionClaim, At, Claiming, Reading
    <3>2. ClaimIsSending(w)' /\ ReadingIsTrue(w)'
      BY <2>1, <2>2, <3>1 DEF ClaimIsSending, ReadingIsTrue
    <3>3. QED
      BY <2>2, <3>2 DEF WorkerInv, At
  <2>5. ASSUME NEW v \in Workers \ {w} PROVE WorkerInv(v)'
    BY <2>1, <2>2, OthersKeep
  <2>6. QED
    BY <2>3, <2>4, <2>5 DEF ProjectionInv
<1>2. CASE ~ClaimMatches(w)
  <2>1. sub' = sub /\ local'[w] = Idle /\ \A v \in Workers \ {w} : local'[v] = local[v]
    BY <1>2, IdleIsACoroutine, BecomeTyped DEF RenewProjectionClaim, ProjectionInv
  <2>2. LocalOnly
    BY <2>1 DEF RenewProjectionClaim, StoreOnly, LocalOnly
  <2>3. QED
    BY <2>1, <2>2, IdleWorker, LocalStep
<1>3. QED
  BY <1>1, <1>2

\* What the provider shows after a call, whatever it answered.
LEMMA ShownCards ==
    ASSUME ProjectionInv, NEW w \in Workers, At(w, "deliver")
    PROVE  /\ MessageOf(w) \in Messages /\ MessageOf(w).version <= record.version
           /\ \A m \in Messages : m # MessageOf(w) => Shown(w)[m] = cards[m]
           /\ cards[MessageOf(w)] = "terminal" => Shown(w)[MessageOf(w)] = "terminal"
           /\ local[w].terminal => Shown(w)[MessageOf(w)] = "terminal"
           /\ (record.terminal /\ MessageOf(w).version = record.version)
                => Shown(w)[MessageOf(w)] # "running"
<1>t. /\ local[w] \in Coroutine /\ WorkerInv(w) /\ CardsFollowTask
      /\ record \in [version : Versions, terminal : BOOLEAN, planned : BOOLEAN,
                  bare : BOOLEAN]
      /\ cards \in [Messages -> {"none", "running", "terminal"}]
      /\ Versions \subseteq Int
  BY DEF ProjectionInv, TypeOK, Versions
<1>1. ClaimIsSending(w) /\ ReadingIsTrue(w)
  BY <1>t DEF WorkerInv, At, Claiming, Reading
<1>r. IdempotencyRef(w) \in Messages /\ IdempotencyRef(w).version = local[w].version
  BY <1>t, IdempotencyRefIsAMessage
<1>2. MessageOf(w) \in Messages /\ MessageOf(w).version <= record.version
  BY <1>t, <1>r, <1>1 DEF MessageOf, ClaimIsSending, ReadingIsTrue, Coroutine
<1>3. local[w].message # NoMessage => local[w].terminal
  BY <1>1 DEF ClaimIsSending, ReadingIsTrue, SendingStates, At
<1>4. \A m \in Messages : m # MessageOf(w) => Shown(w)[m] = cards[m]
  BY <1>t, <1>2 DEF Shown
<1>5. cards[MessageOf(w)] = "terminal" => Shown(w)[MessageOf(w)] = "terminal"
  <2>1. CASE local[w].message # NoMessage
    BY <2>1, <1>t, <1>2, <1>3 DEF Shown, CardOf
  <2>2. CASE local[w].message = NoMessage
    BY <2>2, <1>t, <1>2 DEF Shown, MessageOf
  <2>3. QED
    BY <2>1, <2>2
<1>6. local[w].terminal => Shown(w)[MessageOf(w)] = "terminal"
  <2>1. CASE local[w].message # NoMessage \/ cards[IdempotencyRef(w)] = "none"
    BY <2>1, <1>t, <1>2 DEF Shown, CardOf
  <2>2. CASE ~(local[w].message # NoMessage \/ cards[IdempotencyRef(w)] = "none")
    BY <2>2, <1>t, <1>r, <1>1, <1>2 DEF Shown, MessageOf, ReadingIsTrue, CardsFollowTask
  <2>3. QED
    BY <2>1, <2>2
<1>7. (record.terminal /\ MessageOf(w).version = record.version)
         => Shown(w)[MessageOf(w)] # "running"
  <2>1. CASE local[w].terminal
    BY <2>1, <1>6
  <2>2. CASE ~local[w].terminal
    <3>1. MessageOf(w).version = local[w].version
      BY <2>2, <1>3, <1>r DEF MessageOf
    <3>2. ~(record.terminal /\ MessageOf(w).version = record.version)
      BY <2>2, <3>1, <1>1 DEF ReadingIsTrue
    <3>3. QED
      BY <3>2
  <2>3. QED
    BY <2>1, <2>2
<1>8. QED
  BY <1>2, <1>4, <1>5, <1>6, <1>7

LEMMA DeliverInv ==
    ASSUME ProjectionInv, TypeOK', NEW w \in Workers, Deliver(w)
    PROVE  ProjectionInv'
<1>t. /\ local[w] \in Coroutine /\ WorkerInv(w) /\ CardsFollowTask
      /\ record \in [version : Versions, terminal : BOOLEAN, planned : BOOLEAN,
                  bare : BOOLEAN]
      /\ Versions \subseteq Int /\ sub \in ProjectionSubscription
      /\ cards \in [Messages -> {"none", "running", "terminal"}]
  BY DEF ProjectionInv, TypeOK, Versions
<1>a. At(w, "deliver")
  BY DEF Deliver
<1>1. ClaimIsSending(w) /\ ReadingIsTrue(w)
  BY <1>t, <1>a DEF WorkerInv, At, Claiming, Reading
<1>2. record' = record /\ sub' = sub
  BY DEF Deliver
<1>3. cards' = cards \/ cards' = Shown(w)
  BY DEF Deliver
<1>s. /\ MessageOf(w) \in Messages /\ MessageOf(w).version <= record.version
      /\ \A m \in Messages : m # MessageOf(w) => Shown(w)[m] = cards[m]
      /\ cards[MessageOf(w)] = "terminal" => Shown(w)[MessageOf(w)] = "terminal"
      /\ local[w].terminal => Shown(w)[MessageOf(w)] = "terminal"
      /\ (record.terminal /\ MessageOf(w).version = record.version)
           => Shown(w)[MessageOf(w)] # "running"
  BY <1>a, ShownCards
<1>4. ASSUME NEW m \in Messages, cards[m] = "terminal" PROVE cards'[m] = "terminal"
  <2>1. CASE m = MessageOf(w)
    BY <1>3, <1>4, <1>s, <2>1
  <2>2. CASE m # MessageOf(w)
    BY <1>3, <1>4, <1>s, <2>2
  <2>3. QED
    BY <2>1, <2>2
<1>5. CardsFollowTask'
  <2>1. ASSUME NEW m \in Messages, m.version > record.version PROVE cards'[m] = "none"
    <3>1. cards[m] = "none" /\ m # MessageOf(w)
      <4>1. m.version \in Int /\ record.version \in Int
        BY <1>t, MessagesAreVersioned
      <4>2. QED
        BY <4>1, <1>t, <1>s, <2>1 DEF CardsFollowTask
    <3>2. QED
      BY <1>3, <1>s, <3>1
  <2>2. ASSUME record.terminal, NEW m \in Messages, m.version = record.version
        PROVE  cards'[m] # "running"
    <3>2. CASE m = MessageOf(w)
      BY <1>3, <1>t, <1>s, <2>2, <3>2 DEF CardsFollowTask
    <3>3. CASE m # MessageOf(w)
      BY <1>3, <1>t, <1>s, <2>2, <3>3 DEF CardsFollowTask
    <3>4. QED
      BY <3>2, <3>3
  <2>3. QED
    BY <1>2, <2>1, <2>2 DEF CardsFollowTask
<1>6. RowInv'
  <2>1. CompletedShowsTerminal'
    <3>1. sub.source_message_ref # NoMessage => sub.source_message_ref \in Messages
      BY <1>t DEF ProjectionSubscription
    <3>2. QED
      BY <1>2, <1>4, <3>1 DEF ProjectionInv, RowInv, CompletedShowsTerminal,
         SubscriptionDecodes
  <2>2. QED
    BY <1>2, <2>1 DEF ProjectionInv, RowInv, SubscriptionDecodes, ProviderBudget,
       RowFollowsTask
<1>7. ASSUME NEW message \in Messages \cup {NoMessage},
             NEW pc \in {"record", "failure"},
             local'[w].pc = pc, local'[w].state = local[w].state,
             local'[w].message = message, local'[w].token = local[w].token,
             local'[w].failures = local[w].failures,
             local'[w].version = local[w].version,
             local'[w].terminal = local[w].terminal,
             \/ pc = "failure" /\ message = local[w].message
             \/ pc = "record" /\ message = MessageOf(w) /\ cards' = Shown(w)
      PROVE  WorkerInv(w)'
  <2>1. ReadingIsTrue(w)'
    BY <1>1, <1>2, <1>7 DEF ReadingIsTrue
  <2>2. message.version <= record.version
    BY <1>1, <1>7, <1>t, <1>a, ShownCards DEF ClaimIsSending
  <2>3. ClaimIsSending(w)'
    <3>1. local[w].state = "PENDING_INITIAL" => local[w].message = NoMessage
      BY <1>1, <1>a DEF ClaimIsSending, At
    <3>2. QED
      BY <1>1, <1>2, <1>7, <2>2, <3>1 DEF ClaimIsSending
  <2>4. pc = "record" => RecordIsShown(w)'
    <3>1. MessageOf(w) # NoMessage
      BY <1>s, MessagesAreVersioned
    <3>2. QED
      BY <1>7, <1>s, <3>1 DEF RecordIsShown
  <2>5. QED
    BY <1>7, <2>1, <2>3, <2>4 DEF WorkerInv, At
<1>8. WorkerInv(w)'
  <2>1. CASE /\ cards' = Shown(w)
             /\ Become(w, [local[w] EXCEPT !.pc = "record", !.message = MessageOf(w)])
    <3>1. /\ local'[w].pc = "record" /\ local'[w].state = local[w].state
          /\ local'[w].message = MessageOf(w) /\ local'[w].token = local[w].token
          /\ local'[w].failures = local[w].failures
          /\ local'[w].version = local[w].version
          /\ local'[w].terminal = local[w].terminal
      BY <2>1, <1>t DEF Become, ProjectionInv, TypeOK, Coroutine
    <3>2. QED
      BY <2>1, <3>1, <1>7, <1>t, <1>a, ShownCards
  <2>2. ASSUME NEW retryable \in BOOLEAN,
               Become(w, [local[w] EXCEPT !.pc = "failure", !.retryable = retryable])
        PROVE  WorkerInv(w)'
    <3>1. /\ local'[w].pc = "failure" /\ local'[w].state = local[w].state
          /\ local'[w].message = local[w].message /\ local'[w].token = local[w].token
          /\ local'[w].failures = local[w].failures
          /\ local'[w].version = local[w].version
          /\ local'[w].terminal = local[w].terminal
      BY <2>2, <1>t DEF Become, ProjectionInv, TypeOK, Coroutine
    <3>2. local[w].message \in Messages \cup {NoMessage}
      BY <1>t DEF Coroutine
    <3>3. QED
      BY <3>1, <3>2, <1>7
  <2>3. QED
    BY <2>1, <2>2 DEF Deliver
<1>9. \A v \in Workers \ {w} : local'[v] = local[v]
  <2>1. PICK l : local' = [local EXCEPT ![w] = l]
    BY DEF Deliver, Become
  <2>2. QED
    BY <2>1 DEF ProjectionInv, TypeOK
<1>10. ASSUME NEW v \in Workers \ {w} PROVE WorkerInv(v)'
  BY <1>2, <1>4, <1>9, OthersKeep
<1>11. QED
  BY <1>5, <1>6, <1>8, <1>10 DEF ProjectionInv

LEMMA RecordInv ==
    ASSUME ProjectionInv, TypeOK', NEW w \in Workers,
           ScheduleTaskRecheck(w) \/ RecordDelivery(w) \/ RecordProviderFailure(w)
    PROVE  ProjectionInv'
<1>t. /\ TypeOK /\ RowInv /\ WorkerInv(w) /\ local[w] \in Coroutine
      /\ sub \in ProjectionSubscription /\ w # NoOwner
  BY ProjectionAssumption DEF ProjectionInv, TypeOK
<1>n. local[w].failures \in Nat /\ sub.provider_failure_count \in Nat /\ MaxAttempts \in Nat
  BY <1>t, ProjectionAssumption DEF Coroutine, ProjectionSubscription
<1>c. ASSUME ClaimMatches(w), Claiming(w)
      PROVE  /\ sub.state \in SendingStates /\ sub.state = local[w].state
             /\ local[w].failures = sub.provider_failure_count
             /\ sub.provider_failure_count < MaxAttempts
             /\ sub.source_message_ref.version <= record.version
             /\ sub.state = "PENDING_INITIAL" => sub.source_message_ref = NoMessage
  <2>1. ClaimIsSending(w)
    BY <1>t, <1>c DEF WorkerInv
  <2>2. sub.state \in SendingStates /\ sub.state = local[w].state
    BY <2>1, <1>c DEF ClaimIsSending, ClaimMatches
  <2>3. sub.state \notin SettledStates
    BY <2>2 DEF SendingStates, SettledStates
  <2>4. QED
    BY <1>t, <1>c, <2>1, <2>2, <2>3 DEF ClaimIsSending, ClaimMatches, RowInv, RowFollowsTask
<1>1. CASE ScheduleTaskRecheck(w)
  <2>1. Claiming(w) /\ Mutate(w, Rechecked(w))
    BY <1>1 DEF ScheduleTaskRecheck, Claiming, At
  <2>2. QED
    BY <1>t, <1>c, <2>1, RecheckedRow, MutateStep
<1>2. CASE RecordDelivery(w)
  <2>1. Claiming(w) /\ Reading(w) /\ At(w, "record") /\ Mutate(w, Delivered(w))
    BY <1>2 DEF RecordDelivery, Claiming, Reading, At
  <2>2. ClaimIsSending(w) /\ ReadingIsTrue(w) /\ RecordIsShown(w)
    BY <1>t, <2>1 DEF WorkerInv
  <2>3. CASE local[w].state = "PENDING_INITIAL" /\ ~local[w].terminal
    BY <1>t, <1>c, <2>1, <2>2, <2>3, DeliveredRow, MutateStep DEF ClaimIsSending
  <2>4. CASE ~(local[w].state = "PENDING_INITIAL" /\ ~local[w].terminal)
    <3>1. local[w].terminal
      BY <2>2, <2>4 DEF ClaimIsSending, ReadingIsTrue, SendingStates
    <3>2. /\ record.terminal /\ local[w].version = record.version
          /\ local[w].message # NoMessage /\ cards[local[w].message] = "terminal"
          /\ local[w].message.version <= record.version
      BY <2>2, <3>1 DEF ReadingIsTrue, RecordIsShown, ClaimIsSending
    <3>3. QED
      BY <1>t, <1>c, <2>1, <2>4, <3>2, DeliveredRow, MutateStep
  <2>5. QED
    BY <2>3, <2>4
<1>3. CASE RecordProviderFailure(w)
  <2>1. Claiming(w) /\ Mutate(w, Failed(w))
    BY <1>3 DEF RecordProviderFailure, Claiming, At
  <2>2. ASSUME ClaimMatches(w)
        PROVE  /\ Failed(w).source_message_ref.version <= record.version
               /\ Failed(w).state # "PENDING_INITIAL"
                    \/ Failed(w).source_message_ref = NoMessage
               /\ Failed(w).state # "COMPLETED"
               /\ \/ /\ Failed(w).state # "DEAD_LETTER"
                     /\ Failed(w).provider_failure_count < MaxAttempts
                  \/ /\ Failed(w).state = "DEAD_LETTER"
                     /\ Failed(w).provider_failure_count \in 1 .. MaxAttempts
    <3>1. sub.state # "COMPLETED" /\ sub.state # "DEAD_LETTER"
      BY <1>c, <2>1, <2>2 DEF SendingStates
    <3>2. QED
      BY <1>t, <1>n, <1>c, <2>1, <2>2, <3>1, FailedRow
  <2>3. QED
    BY <1>t, <2>1, <2>2, FailedRow, MutateStep
<1>4. QED
  BY <1>1, <1>2, <1>3

LEMMA AbandonInv ==
    ASSUME ProjectionInv, TypeOK', NEW w \in Workers, Abandon(w)
    PROVE  ProjectionInv'
<1>1. /\ local'[w] = Idle /\ \A v \in Workers \ {w} : local'[v] = local[v]
      /\ record' = record /\ sub' = sub /\ cards' = cards
  BY IdleIsACoroutine, BecomeTyped DEF Abandon, ProjectionInv
<1>2. RowInv' /\ CardsFollowTask'
  BY <1>1 DEF ProjectionInv, RowInv, SubscriptionDecodes, CompletedShowsTerminal,
     ProviderBudget, RowFollowsTask, CardsFollowTask
<1>3. ASSUME NEW v \in Workers \ {w} PROVE WorkerInv(v)'
  BY <1>1, OthersKeep
<1>4. QED
  BY <1>1, <1>2, <1>3, IdleWorker DEF ProjectionInv

\* A running task moves on: nothing that was read of it was terminal, and no
\* card of the next version was sent.
LEMMA TaskMovesInv ==
    ASSUME ProjectionInv, TypeOK', TaskMoves
    PROVE  ProjectionInv'
<1>t. /\ record.version \in Int /\ record.version \in Versions /\ Versions \subseteq Int
      /\ local \in [Workers -> Coroutine] /\ sub \in ProjectionSubscription
  BY DEF ProjectionInv, TypeOK, Versions
<1>1. /\ record'.version = record.version + 1 /\ ~record.terminal
      /\ record'.version \in Versions
      /\ sub' = sub /\ local' = local /\ cards' = cards
  BY DEF TaskMoves, TypeOK
<1>2. RowInv'
  <2>1. sub.source_message_ref.version \in Int
    BY <1>t, MessagesAreVersioned DEF ProjectionSubscription
  <2>2. sub.state # "COMPLETED"
    BY <1>1 DEF ProjectionInv, RowInv, CompletedShowsTerminal
  <2>3. RowFollowsTask' /\ CompletedShowsTerminal'
    BY <1>t, <1>1, <2>1, <2>2
       DEF ProjectionInv, RowInv, RowFollowsTask, CompletedShowsTerminal
  <2>4. SubscriptionDecodes' /\ ProviderBudget'
    BY <1>1 DEF ProjectionInv, RowInv, SubscriptionDecodes, ProviderBudget
  <2>5. QED
    BY <2>3, <2>4 DEF RowInv
<1>3. CardsFollowTask'
  <2>1. ASSUME NEW m \in Messages, m.version >= record'.version PROVE cards[m] = "none"
    <3>1. m.version \in Int /\ m.version > record.version
      BY <1>t, <1>1, <2>1, MessagesAreVersioned
    <3>2. QED
      BY <3>1 DEF ProjectionInv, CardsFollowTask
  <2>2. ASSUME NEW m \in Messages, m.version > record'.version PROVE cards'[m] = "none"
    BY <1>t, <1>1, <2>1, <2>2, MessagesAreVersioned
  <2>3. ASSUME NEW m \in Messages, m.version = record'.version PROVE cards'[m] # "running"
    BY <1>t, <1>1, <2>1, <2>3
  <2>4. QED
    BY <2>2, <2>3 DEF CardsFollowTask
<1>4. ASSUME NEW w \in Workers PROVE WorkerInv(w)'
  <2>1. WorkerInv(w) /\ local[w] \in Coroutine
    BY <1>t DEF ProjectionInv
  <2>2. local[w].version \in Int /\ local[w].message.version \in Int
    BY <1>t, <2>1, MessagesAreVersioned DEF Coroutine
  <2>3. (Claiming(w) => ClaimIsSending(w))'
    BY <1>t, <1>1, <2>1, <2>2 DEF WorkerInv, Claiming, ClaimIsSending
  <2>4. (Reading(w) => ReadingIsTrue(w))'
    BY <1>t, <1>1, <2>1, <2>2 DEF WorkerInv, Reading, ReadingIsTrue
  <2>5. (At(w, "record") => RecordIsShown(w))'
    BY <1>1, <2>1 DEF WorkerInv, At, RecordIsShown
  <2>6. QED
    BY <2>3, <2>4, <2>5 DEF WorkerInv
<1>5. QED
  BY <1>2, <1>3, <1>4 DEF ProjectionInv

\* The invariant asks for no plan.
LEMMA PlanStoredInv ==
    ASSUME ProjectionInv, TypeOK', PlanStored
    PROVE  ProjectionInv'
<1>1. /\ record'.version = record.version /\ record'.terminal = record.terminal
      /\ sub' = sub /\ local' = local /\ cards' = cards
  BY DEF PlanStored, ProjectionInv, TypeOK
<1>2. RowInv'
  <2>1. SubscriptionDecodes' /\ CompletedShowsTerminal'
    BY <1>1 DEF ProjectionInv, RowInv, SubscriptionDecodes, CompletedShowsTerminal
  <2>2. ProviderBudget' /\ RowFollowsTask'
    BY <1>1 DEF ProjectionInv, RowInv, ProviderBudget, RowFollowsTask
  <2>3. QED
    BY <2>1, <2>2 DEF RowInv
<1>3. CardsFollowTask'
  BY <1>1 DEF ProjectionInv, CardsFollowTask
<1>4. ASSUME NEW w \in Workers PROVE WorkerInv(w)'
  <2>1. WorkerInv(w)
    BY DEF ProjectionInv
  <2>2. (Claiming(w) => ClaimIsSending(w))'
    BY <1>1, <2>1 DEF WorkerInv, Claiming, ClaimIsSending
  <2>3. (Reading(w) => ReadingIsTrue(w))'
    BY <1>1, <2>1 DEF WorkerInv, Reading, ReadingIsTrue
  <2>4. (At(w, "record") => RecordIsShown(w))'
    BY <1>1, <2>1 DEF WorkerInv, At, RecordIsShown
  <2>5. QED
    BY <2>2, <2>3, <2>4 DEF WorkerInv
<1>5. QED
  BY <1>2, <1>3, <1>4 DEF ProjectionInv

\* The invariant reads no clock.
LEMMA TickInv ==
    ASSUME ProjectionInv, TypeOK', Tick
    PROVE  ProjectionInv'
<1>t. TypeOK /\ sub \in ProjectionSubscription
  BY DEF ProjectionInv, TypeOK
<1>1. PICK d, e :
        sub' = [sub EXCEPT !.claim_expires_at = d, !.next_attempt_at = e]
  BY <1>t, TickTyped
<1>2. /\ sub'.state = sub.state /\ sub'.source_message_ref = sub.source_message_ref
      /\ sub'.last_projected_task_version = sub.last_projected_task_version
      /\ sub'.provider_failure_count = sub.provider_failure_count
      /\ sub'.claim_owner = sub.claim_owner /\ sub'.fencing_token = sub.fencing_token
  BY <1>t, <1>1 DEF ProjectionSubscription
<1>3. record' = record /\ cards' = cards
  BY DEF Tick
<1>4. RowInv' /\ CardsFollowTask'
  <2>1. SubscriptionDecodes' /\ CompletedShowsTerminal'
    BY <1>2, <1>3 DEF ProjectionInv, RowInv, SubscriptionDecodes, CompletedShowsTerminal
  <2>2. ProviderBudget' /\ RowFollowsTask' /\ CardsFollowTask'
    BY <1>2, <1>3 DEF ProjectionInv, RowInv, ProviderBudget, RowFollowsTask,
       CardsFollowTask
  <2>3. QED
    BY <2>1, <2>2 DEF RowInv
<1>5. ASSUME NEW w \in Workers PROVE WorkerInv(w)'
  <2>1. WorkerInv(w) /\ local[w] \in Coroutine
    BY <1>t DEF ProjectionInv, TypeOK
  <2>2. PICK x : local'[w] = [local[w] EXCEPT !.expires = x]
    BY <1>t, TickTyped
  <2>3. /\ local'[w].pc = local[w].pc /\ local'[w].state = local[w].state
        /\ local'[w].message = local[w].message /\ local'[w].token = local[w].token
        /\ local'[w].failures = local[w].failures
        /\ local'[w].version = local[w].version
        /\ local'[w].terminal = local[w].terminal
    BY <2>1, <2>2 DEF Coroutine
  <2>4. (Claiming(w) => ClaimIsSending(w))'
    BY <1>2, <1>3, <2>1, <2>3 DEF WorkerInv, Claiming, ClaimIsSending
  <2>5. (Reading(w) => ReadingIsTrue(w))'
    BY <1>3, <2>1, <2>3 DEF WorkerInv, Reading, ReadingIsTrue
  <2>6. (At(w, "record") => RecordIsShown(w))'
    BY <1>3, <2>1, <2>3 DEF WorkerInv, At, RecordIsShown
  <2>7. QED
    BY <2>4, <2>5, <2>6 DEF WorkerInv
<1>6. QED
  BY <1>4, <1>5 DEF ProjectionInv

LEMMA NextInv == ProjectionInv /\ [Next]_vars => ProjectionInv'
<1> SUFFICES ASSUME ProjectionInv, [Next]_vars PROVE ProjectionInv'
  OBVIOUS
<1>1. TypeOK'
  BY NextTypeOK DEF ProjectionInv
<1>2. ASSUME NEW w \in Workers, ListDue(w) \/ ProcessDue(w) \/ Abandon(w)
      PROVE  ProjectionInv'
  BY <1>1, <1>2, ClaimInv, ReadInv, RenewInv, DeliverInv, RecordInv, AbandonInv
     DEF ProcessDue
<1>3. CASE TaskMoves \/ PlanStored
  BY <1>1, <1>3, TaskMovesInv, PlanStoredInv
<1>4. CASE Tick
  BY <1>1, <1>4, TickInv
<1>5. CASE UNCHANGED vars
  <2>1. record' = record /\ sub' = sub /\ local' = local /\ cards' = cards
    BY <1>5 DEF vars
  <2>2. RowInv' /\ CardsFollowTask'
    BY <2>1 DEF ProjectionInv, RowInv, SubscriptionDecodes, CompletedShowsTerminal,
       ProviderBudget, RowFollowsTask, CardsFollowTask
  <2>3. ASSUME NEW w \in Workers PROVE WorkerInv(w)'
    BY <2>1, OthersKeep
  <2>4. QED
    BY <1>1, <2>2, <2>3 DEF ProjectionInv
<1>6. QED
  BY <1>2, <1>3, <1>4, <1>5 DEF Next

LEMMA ProjectionInvariant == Spec => []ProjectionInv
BY InitInv, NextInv, PTL DEF Spec

\* A completed subscription shows the terminal card of the task's last version.
THEOREM CompletionIsShown == Spec => []CompletedShowsTerminal
<1>1. ProjectionInv => CompletedShowsTerminal
  BY DEF ProjectionInv, RowInv
<1>2. QED
  BY <1>1, ProjectionInvariant, PTL

\* No step of any worker, however late, takes a terminal card back.
THEOREM TerminalCardsStay == Spec => CardNeverRegresses
<1> DEFINE Keeps == \A m \in Messages : cards[m] = "terminal" => cards'[m] = "terminal"
<1>1. ProjectionInv /\ [Next]_vars => Keeps
  <2> SUFFICES ASSUME ProjectionInv, [Next]_vars,
                      NEW m \in Messages, cards[m] = "terminal"
               PROVE  cards'[m] = "terminal"
    OBVIOUS
  <2>1. ASSUME NEW w \in Workers, Deliver(w) PROVE cards'[m] = "terminal"
    <3>1. cards' = cards \/ cards' = Shown(w)
      BY <2>1 DEF Deliver
    <3>2. At(w, "deliver")
      BY <2>1 DEF Deliver
    <3>3. m = MessageOf(w) \/ Shown(w)[m] = cards[m]
      BY <3>2, ShownCards
    <3>4. m = MessageOf(w) => Shown(w)[m] = "terminal"
      BY <3>2, ShownCards
    <3>5. QED
      BY <3>1, <3>3, <3>4
  <2>2. CASE \A w \in Workers : ~Deliver(w)
    <3>1. cards' = cards
      BY <2>2 DEF Next, ProcessDue, vars, ListDue, Claim, Resolve, GetTask,
         ScheduleTaskRecheck, StableCard, RenewProjectionClaim, CheckClaim,
         RecordDelivery, RecordProviderFailure, Mutate, Abandon, TaskMoves, PlanStored, Tick,
         LocalOnly, StoreOnly
    <3>2. QED
      BY <3>1
  <2>3. QED
    BY <2>1, <2>2
<1>2. QED
  BY <1>1, ProjectionInvariant, PTL DEF Spec, CardNeverRegresses

\* A settled subscription is not opened again by a coroutine that comes late.
THEOREM SettlementIsFinal == Spec => SettledIsFinal
<1> DEFINE Stays == sub.state \in SettledStates =>
                      /\ sub'.state = sub.state
                      /\ sub'.source_message_ref = sub.source_message_ref
                      /\ sub'.provider_failure_count = sub.provider_failure_count
<1>1. ProjectionInv /\ [Next]_vars => Stays
  <2> SUFFICES ASSUME ProjectionInv, [Next]_vars, sub.state \in SettledStates
               PROVE  /\ sub'.state = sub.state
                      /\ sub'.source_message_ref = sub.source_message_ref
                      /\ sub'.provider_failure_count = sub.provider_failure_count
    OBVIOUS
  <2>1. \A w \in Workers : ~ClaimMatches(w)
    BY ProjectionAssumption
       DEF ProjectionInv, RowInv, SubscriptionDecodes, ClaimMatches
  <2>2. \A w \in Workers : ~Due(ClockOf[w])
    BY DEF Due
  <2>3. ASSUME NEW w \in Workers, ListDue(w) \/ ProcessDue(w) \/ Abandon(w)
        PROVE  sub' = sub
    BY <2>1, <2>2, <2>3 DEF ProcessDue, ListDue, Claim, Resolve, GetTask,
       ScheduleTaskRecheck, StableCard, RenewProjectionClaim, CheckClaim, Deliver,
       RecordDelivery, RecordProviderFailure, Mutate, Abandon, LocalOnly
  <2>4. CASE Tick
    <3>1. sub \in ProjectionSubscription
      BY DEF ProjectionInv, TypeOK
    <3>2. QED
      BY <2>4, <3>1 DEF Tick, ProjectionSubscription
  <2>5. CASE TaskMoves \/ PlanStored \/ UNCHANGED vars
    BY <2>5 DEF TaskMoves, PlanStored, vars
  <2>6. QED
    BY <2>3, <2>4, <2>5 DEF Next
<1>2. QED
  BY <1>1, ProjectionInvariant, PTL DEF Spec, SettledIsFinal

\* Every row the service writes is one the row's validator accepts.
THEOREM SubscriptionsDecode == Spec => []SubscriptionDecodes
<1>1. ProjectionInv => SubscriptionDecodes
  BY DEF ProjectionInv, RowInv
<1>2. QED
  BY <1>1, ProjectionInvariant, PTL

\* Provider failures never exceed projection_provider_max_attempts.
THEOREM ProviderFailuresAreBounded == Spec => []ProviderBudget
<1>1. ProjectionInv => ProviderBudget
  BY DEF ProjectionInv, RowInv
<1>2. QED
  BY <1>1, ProjectionInvariant, PTL

\* The subscription row decodes and, completed, shows the terminal card.
THEOREM SubscriptionsStaySound == Spec => []SubscriptionIsSound
BY ProjectionTypeCorrect, SubscriptionsDecode, CompletionIsShown, PTL DEF SubscriptionIsSound

\* What was shown as final, and the row that says so, stay.
THEOREM FinalIsFinal == Spec => FinalStays
BY TerminalCardsStay, SettlementIsFinal DEF FinalStays
-----------------------------------------------------------------------------
(***************************************************************************)
(* Every message has a reason.  When the clocks of the processes agree, at *)
(* most one claim is current, and it is the row's; the others have run out *)
(* under their coroutines and will not write.  A coroutine whose claim ran *)
(* out may still send: it is Waiting, and the stall that overtook it pays  *)
(* for its message.  One message is free (Reserve) until it is sent or     *)
(* recorded; the others are paid for by crashes, stalls and lost answers.  *)
(***************************************************************************)
AgreeingClocks == \A v, w \in Workers : ClockOf[v] = ClockOf[w]

Current(w) == Claiming(w) /\ local[w].expires > ClockOf[w]

CurrentFits(w) ==
    /\ sub.claim_owner = w /\ sub.fencing_token = local[w].token
    /\ sub.state = local[w].state /\ sub.claim_expires_at = local[w].expires
    /\ local[w].pc # "record" => local[w].message = sub.source_message_ref

ClaimFits(w) ==
    /\ Current(w) => CurrentFits(w)
    /\ Claiming(w) /\ ~Current(w) =>
           ~(/\ sub.claim_owner = w /\ sub.fencing_token = local[w].token
             /\ sub.claim_expires_at > ClockOf[w])
    /\ Claiming(w) => local[w].token \in Tokens
    /\ Claiming(w) /\ stalls = 0 => Current(w)

MessageIsSent(w) ==
    Claiming(w) => /\ local[w].message # NoMessage => local[w].message \in Sent
                   /\ local[w].pc = "record" => local[w].message # NoMessage

Waits(w) == /\ Claiming(w) /\ ~Current(w) /\ local[w].message = NoMessage
            /\ local[w].pc \notin {"record", "failure"}
Waiting == {w \in Workers : Waits(w)}
Recording == \E w \in Workers : Current(w) /\ At(w, "record")
Reserve == IF sub.source_message_ref # NoMessage \/ Recording THEN 0 ELSE 1

Charged ==
    /\ IsFiniteSet(Waiting)
    /\ Cardinality(Sent) + Cardinality(Waiting) + Reserve <= 1 + abandons + stalls + doubts

DeliveryInv ==
    /\ \A w \in Workers : ClaimFits(w) /\ MessageIsSent(w)
    /\ sub.source_message_ref # NoMessage => sub.source_message_ref \in Sent
    /\ Charged

LEMMA MessagesAreFinite == IsFiniteSet(Messages)
<1> DEFINE Pairs == Versions \X Forms
           name == [p \in Pairs |-> [version |-> p[1], form |-> p[2]]]
<1>1. IsFiniteSet(Versions) /\ IsFiniteSet(Forms)
  <2>1. IsFiniteSet(Versions)
    BY ProjectionAssumption, FS_Interval DEF Versions
  <2>2. IsFiniteSet(Forms)
    <3>1. PICK two \in Int : two = 2
      OBVIOUS
    <3>2. IsFiniteSet(0 .. two)
      BY FS_Interval
    <3>3. Forms = 0 .. two
      BY <3>1 DEF Forms
    <3>4. QED
      BY <3>2, <3>3
  <2>3. QED
    BY <2>1, <2>2
<1>2. IsFiniteSet(Pairs)
  BY <1>1, FS_Product
<1>3. \A m \in Messages : <<m.version, m.form>> \in Pairs /\ name[<<m.version, m.form>>] = m
  BY DEF Messages
<1>4. name \in [Pairs -> Messages]
  BY DEF Messages
<1>5. name \in Surjection(Pairs, Messages)
  BY <1>3, <1>4 DEF Surjection
<1>6. QED
  BY <1>2, <1>5, FS_Surjection

LEMMA SentIsFinite ==
    /\ IsFiniteSet(Sent) /\ Cardinality(Sent) \in Nat
    /\ (IsFiniteSet(Sent) /\ Cardinality(Sent) \in Nat)'
<1>2. Sent \in SUBSET Messages /\ Sent' \in SUBSET Messages
  BY DEF Sent
<1>3. QED
  BY <1>2, MessagesAreFinite, FS_Subset, FS_CardinalityType

\* No step makes the account worse: what it may add to the messages, the waiting and the
\* reserve is at most what it adds to the causes.
LEMMA Balance ==
    ASSUME TypeOK, TypeOK', Charged,
           NEW sent \in Int, NEW wait \in Int, NEW rest \in Int,
           Cardinality(Sent') <= Cardinality(Sent) + sent,
           IsFiniteSet(Waiting'), Cardinality(Waiting') <= Cardinality(Waiting) + wait,
           Reserve' <= Reserve + rest,
           abandons + stalls + doubts + sent + wait + rest <= abandons' + stalls' + doubts'
    PROVE  Charged'
<1>1. /\ Cardinality(Sent) \in Nat /\ Cardinality(Sent') \in Nat
      /\ Cardinality(Waiting) \in Nat /\ Cardinality(Waiting') \in Nat
  BY SentIsFinite, FS_CardinalityType DEF Charged
<1>2. Reserve \in {0, 1} /\ Reserve' \in {0, 1}
  BY DEF Reserve
<1>3. /\ abandons \in Nat /\ stalls \in Nat /\ doubts \in Nat
      /\ abandons' \in Nat /\ stalls' \in Nat /\ doubts' \in Nat
  BY ProjectionAssumption DEF TypeOK
<1>4. Cardinality(Sent') + Cardinality(Waiting') + Reserve' <= 1 + abandons' + stalls' + doubts'
  <2>1. Cardinality(Sent) + Cardinality(Waiting) + Reserve <= 1 + abandons + stalls + doubts
    BY DEF Charged
  <2>2. Reserve \in Int /\ Reserve' \in Int
    BY <1>2
  <2>3. PICK d : d = abandons + stalls + doubts
    OBVIOUS
  <2>4. PICK d2 : d2 = abandons' + stalls' + doubts'
    OBVIOUS
  <2>i. d \in Int /\ d2 \in Int
    BY <1>3, <2>3, <2>4
  <2>5. Cardinality(Sent) + Cardinality(Waiting) + Reserve <= 1 + d
    BY <1>3, <2>1, <2>3
  <2>6. d + sent + wait + rest <= d2
    BY <1>3, <2>3, <2>4
  <2>7. Cardinality(Sent') + Cardinality(Waiting') + Reserve' <= 1 + d2
    <3>1. PICK a \in Nat, b \in Nat, c \in Int :
              a = Cardinality(Sent) /\ b = Cardinality(Waiting) /\ c = Reserve
      BY <1>1, <2>2
    <3>2. PICK a2 \in Nat, b2 \in Nat, c2 \in Int :
              a2 = Cardinality(Sent') /\ b2 = Cardinality(Waiting') /\ c2 = Reserve'
      BY <1>1, <2>2
    <3>3. a2 <= a + sent /\ b2 <= b + wait /\ c2 <= c + rest
      BY <3>1, <3>2
    <3>4. a + b + c <= 1 + d
      BY <2>5, <3>1
    <3>5. a2 + b2 + c2 <= 1 + d2
      BY <2>i, <2>6, <3>3, <3>4
    <3>6. QED
      BY <3>2, <3>5
  <2>8. QED
    BY <1>3, <2>4, <2>7
<1>5. QED
  BY <1>4 DEF Charged

\* Messages are never taken back, and one more is one more.
LEMMA SentGrows ==
    ASSUME NEW m, Sent' \subseteq Sent \cup {m}
    PROVE  Cardinality(Sent') <= Cardinality(Sent) + 1
<1>1. /\ IsFiniteSet(Sent \cup {m})
      /\ Cardinality(Sent \cup {m}) <= Cardinality(Sent) + 1
  <2>1. CASE m \in Sent
    <3>1. Sent \cup {m} = Sent
      BY <2>1
    <3>2. QED
      BY <3>1, SentIsFinite
  <2>2. CASE m \notin Sent
    <3>1. IsFiniteSet(Sent) /\ Cardinality(Sent) \in Nat
      BY SentIsFinite
    <3>2. /\ IsFiniteSet(Sent \cup {m})
          /\ Cardinality(Sent \cup {m}) = Cardinality(Sent) + 1
      BY <2>2, <3>1, FS_AddElement
    <3>3. QED
      BY <3>1, <3>2
  <2>3. QED
    BY <2>1, <2>2
<1>2. Cardinality(Sent') <= Cardinality(Sent \cup {m})
  BY <1>1, FS_Subset
<1>3. Cardinality(Sent') \in Nat /\ Cardinality(Sent \cup {m}) \in Nat
  BY <1>1, SentIsFinite, FS_CardinalityType
<1>4. QED
  BY <1>1, <1>2, <1>3, SentIsFinite

LEMMA WaitingShrinks ==
    ASSUME Charged, Waiting' \subseteq Waiting
    PROVE  IsFiniteSet(Waiting') /\ Cardinality(Waiting') <= Cardinality(Waiting) + 0
<1>1. IsFiniteSet(Waiting)
  BY DEF Charged
<1>2. IsFiniteSet(Waiting') /\ Cardinality(Waiting') <= Cardinality(Waiting)
  BY <1>1, FS_Subset
<1>3. Cardinality(Waiting) \in Nat /\ Cardinality(Waiting') \in Nat
  BY <1>1, <1>2, FS_CardinalityType
<1>4. QED
  BY <1>2, <1>3

LEMMA WaitingLoses ==
    ASSUME Charged, NEW w \in Waiting, Waiting' \subseteq Waiting \ {w}
    PROVE  IsFiniteSet(Waiting') /\ Cardinality(Waiting') <= Cardinality(Waiting) + (-1)
<1>1. IsFiniteSet(Waiting)
  BY DEF Charged
<1>2. /\ IsFiniteSet(Waiting \ {w})
      /\ Cardinality(Waiting \ {w}) = Cardinality(Waiting) - 1
  BY <1>1, FS_RemoveElement
<1>3. IsFiniteSet(Waiting') /\ Cardinality(Waiting') <= Cardinality(Waiting \ {w})
  BY <1>2, FS_Subset
<1>4. Cardinality(Waiting) \in Nat /\ Cardinality(Waiting') \in Nat
  BY <1>1, <1>3, FS_CardinalityType
<1>5. QED
  BY <1>2, <1>3, <1>4

LEMMA WaitingGains ==
    ASSUME Charged, NEW w, Waiting' \subseteq Waiting \cup {w}
    PROVE  IsFiniteSet(Waiting') /\ Cardinality(Waiting') <= Cardinality(Waiting) + 1
<1>1. IsFiniteSet(Waiting) /\ Cardinality(Waiting) \in Nat
  BY FS_CardinalityType DEF Charged
<1>2. /\ IsFiniteSet(Waiting \cup {w})
      /\ Cardinality(Waiting \cup {w}) <= Cardinality(Waiting) + 1
  <2>1. CASE w \in Waiting
    <3>1. PICK W : W = Waiting \cup {w}
      OBVIOUS
    <3>2. W = Waiting
      BY <2>1, <3>1
    <3>3. IsFiniteSet(W) /\ Cardinality(W) <= Cardinality(Waiting) + 1
      BY <1>1, <3>2
    <3>4. QED
      BY <3>1, <3>3
  <2>2. CASE w \notin Waiting
    <3>1. IsFiniteSet(Waiting) /\ Cardinality(Waiting) \in Nat
      BY <1>1
    <3>2. /\ IsFiniteSet(Waiting \cup {w})
          /\ Cardinality(Waiting \cup {w}) = Cardinality(Waiting) + 1
      BY <2>2, <3>1, FS_AddElement
    <3>3. QED
      BY <3>1, <3>2
  <2>3. QED
    BY <2>1, <2>2
<1>3. IsFiniteSet(Waiting') /\ Cardinality(Waiting') <= Cardinality(Waiting \cup {w})
  BY <1>2, FS_Subset
<1>4. Cardinality(Waiting') \in Nat /\ Cardinality(Waiting \cup {w}) \in Nat
  BY <1>2, <1>3, FS_CardinalityType
<1>5. QED
  BY <1>1, <1>2, <1>3, <1>4
\* One coroutine moves; the row stays as the others know it.
OthersRest(w) ==
    /\ \A v \in Workers \ {w} : local'[v] = local[v]
    /\ stalls' = stalls /\ Sent \subseteq Sent'
    /\ \A v \in Workers \ {w} : Current(v) => sub' = sub
    /\ sub' # sub => sub'.claim_owner \in {w, NoOwner}

LEMMA RestingFits ==
    ASSUME DeliveryInv, NEW w \in Workers, OthersRest(w), NEW v \in Workers \ {w}
    PROVE  /\ Waits(v)' <=> Waits(v)
           /\ Current(v)' <=> Current(v)
           /\ At(v, "record")' <=> At(v, "record")
           /\ (ClaimFits(v) /\ MessageIsSent(v))'
<1>1. local'[v] = local[v] /\ ClaimFits(v) /\ MessageIsSent(v)
  BY DEF OthersRest, DeliveryInv
<1>2. /\ Claiming(v)' <=> Claiming(v)
      /\ Current(v)' <=> Current(v)
      /\ At(v, "record")' <=> At(v, "record")
  BY <1>1 DEF Claiming, Current, At
<1>3. Waits(v)' <=> Waits(v)
  BY <1>1, <1>2 DEF Waits
<1>4. MessageIsSent(v)'
  BY <1>1, <1>2 DEF MessageIsSent, OthersRest
<1>5. ClaimFits(v)'
  <2>1. CASE sub' = sub
    BY <1>1, <1>2, <2>1 DEF ClaimFits, CurrentFits, OthersRest
  <2>2. CASE sub' # sub
    <3>1. ~Current(v) /\ sub'.claim_owner # v
      BY <2>2, ProjectionAssumption DEF OthersRest
    <3>2. QED
      BY <1>1, <1>2, <3>1 DEF ClaimFits, OthersRest
  <2>3. QED
    BY <2>1, <2>2
<1>6. QED
  BY <1>2, <1>3, <1>4, <1>5

\* What is left to show of a step of one coroutine.
LEMMA StepFits ==
    ASSUME DeliveryInv, NEW w \in Workers, OthersRest(w),
           (ClaimFits(w) /\ MessageIsSent(w))',
           sub'.source_message_ref # NoMessage => sub'.source_message_ref \in Sent',
           Charged'
    PROVE  DeliveryInv'
BY RestingFits DEF DeliveryInv

LEMMA WaitingRests ==
    ASSUME DeliveryInv, NEW w \in Workers, OthersRest(w)
    PROVE  /\ (Waits(w)' => Waits(w)) => Waiting' \subseteq Waiting
           /\ ~Waits(w)' => Waiting' \subseteq Waiting \ {w}
           /\ Waiting' \subseteq Waiting \cup {w}
BY RestingFits DEF Waiting

\* The coroutine is gone, or has nothing in hand.
LEMMA DropStep ==
    ASSUME TypeOK, TypeOK', DeliveryInv, NEW w \in Workers,
           \A v \in Workers \ {w} : local'[v] = local[v],
           local'[w].pc \in {"idle", "claim"},
           UNCHANGED <<sub, cards, stalls, doubts>>,
           \/ abandons' = abandons /\ ~(Current(w) /\ At(w, "record"))
           \/ abandons' = abandons + 1
    PROVE  DeliveryInv'
<1>1. Sent' = Sent
  BY DEF Sent
<1>2. OthersRest(w)
  BY <1>1 DEF OthersRest
<1>3. ~Claiming(w)' /\ ~Current(w)' /\ ~Waits(w)'
  BY DEF Claiming, Current, Waits
<1>4. (ClaimFits(w) /\ MessageIsSent(w))'
  BY <1>3 DEF ClaimFits, MessageIsSent
<1>5. IsFiniteSet(Waiting') /\ Cardinality(Waiting') <= Cardinality(Waiting) + 0
  BY <1>2, <1>3, WaitingRests, WaitingShrinks DEF DeliveryInv
<1>6. Cardinality(Sent') <= Cardinality(Sent) + 0
  BY <1>1, SentIsFinite
<1>7. CASE abandons' = abandons /\ ~(Current(w) /\ At(w, "record"))
  <2>1. Recording => Recording'
    BY <1>2, <1>7, RestingFits DEF Recording
  <2>2. Reserve' <= Reserve + 0
    BY <2>1 DEF Reserve
  <2>3. abandons + stalls + doubts + 0 + 0 + 0 <= abandons' + stalls' + doubts'
    BY <1>7, ProjectionAssumption DEF TypeOK
  <2>4. Charged'
    BY <1>5, <1>6, <2>2, <2>3, Balance DEF DeliveryInv
  <2>5. QED
    BY <1>1, <1>2, <1>4, <2>4, StepFits DEF DeliveryInv
<1>8. CASE abandons' = abandons + 1
  <2>1. Reserve' <= Reserve + 1
    BY DEF Reserve
  <2>2. abandons + stalls + doubts + 0 + 0 + 1 <= abandons' + stalls' + doubts'
    BY <1>8, ProjectionAssumption DEF TypeOK
  <2>3. Charged'
    BY <1>5, <1>6, <2>1, <2>2, Balance DEF DeliveryInv
  <2>4. QED
    BY <1>1, <1>2, <1>4, <2>3, StepFits DEF DeliveryInv
<1>9. QED
  BY <1>7, <1>8

\* The coroutine goes on under the claim it has, before it sends.
LEMMA AdvanceStep ==
    ASSUME TypeOK, TypeOK', DeliveryInv, NEW w \in Workers, Claiming(w),
           \A v \in Workers \ {w} : local'[v] = local[v],
           local[w].pc \notin {"record", "failure"},
           local'[w].pc \notin {"idle", "claim", "record", "failure"},
           local'[w].expires = local[w].expires, local'[w].token = local[w].token,
           local'[w].state = local[w].state, local'[w].message = local[w].message,
           UNCHANGED <<sub, cards, stalls, doubts, abandons>>
    PROVE  DeliveryInv'
<1>1. Sent' = Sent
  BY DEF Sent
<1>2. OthersRest(w)
  BY <1>1 DEF OthersRest
<1>3. /\ Claiming(w)' /\ (Current(w)' <=> Current(w)) /\ (Waits(w)' <=> Waits(w))
      /\ ~At(w, "record") /\ ~At(w, "record")'
  BY DEF Claiming, Current, Waits, At
<1>4. (ClaimFits(w) /\ MessageIsSent(w))'
  BY <1>1, <1>3 DEF ClaimFits, CurrentFits, MessageIsSent, DeliveryInv
<1>5. IsFiniteSet(Waiting') /\ Cardinality(Waiting') <= Cardinality(Waiting) + 0
  BY <1>2, <1>3, WaitingRests, WaitingShrinks DEF DeliveryInv
<1>6. Cardinality(Sent') <= Cardinality(Sent) + 0
  BY <1>1, SentIsFinite
<1>7. Recording => Recording'
  BY <1>2, <1>3, RestingFits DEF Recording
<1>8. Reserve' <= Reserve + 0
  BY <1>7 DEF Reserve
<1>9. abandons + stalls + doubts + 0 + 0 + 0 <= abandons' + stalls' + doubts'
  BY ProjectionAssumption DEF TypeOK
<1>10. Charged'
  BY <1>5, <1>6, <1>8, <1>9, Balance DEF DeliveryInv
<1>11. QED
  BY <1>1, <1>2, <1>4, <1>10, StepFits DEF DeliveryInv

\* A claim that matches is current, and no other is.
LEMMA MatchIsCurrent ==
    ASSUME DeliveryInv, NEW w \in Workers, Claiming(w), ClaimMatches(w)
    PROVE  /\ Current(w)
           /\ \A v \in Workers \ {w} : ~Current(v)
BY DEF DeliveryInv, ClaimFits, CurrentFits, ClaimMatches

LEMMA CurrentMatches ==
    ASSUME DeliveryInv, NEW w \in Workers, Current(w)
    PROVE  ClaimMatches(w) /\ Claiming(w)
BY DEF DeliveryInv, ClaimFits, CurrentFits, ClaimMatches, Current

\* A result is written under the claim and the claim is given back.
LEMMA WriteStep ==
    ASSUME TypeOK, TypeOK', DeliveryInv, NEW w \in Workers, Claiming(w), ClaimMatches(w),
           \A v \in Workers \ {w} : local'[v] = local[v],
           local'[w].pc = "idle", sub'.claim_owner = NoOwner,
           UNCHANGED <<cards, stalls, doubts, abandons>>,
           \/ /\ ~At(w, "record")
              /\ sub'.source_message_ref = sub.source_message_ref
           \/ /\ At(w, "record")
              /\ sub'.source_message_ref = local[w].message
    PROVE  DeliveryInv'
<1>1. Sent' = Sent
  BY DEF Sent
<1>2. Current(w) /\ \A v \in Workers \ {w} : ~Current(v)
  BY MatchIsCurrent
<1>3. OthersRest(w)
  BY <1>1, <1>2 DEF OthersRest
<1>4. ~Claiming(w)' /\ ~Current(w)' /\ ~Waits(w)'
  BY DEF Claiming, Current, Waits
<1>5. (ClaimFits(w) /\ MessageIsSent(w))'
  BY <1>4 DEF ClaimFits, MessageIsSent
<1>6. IsFiniteSet(Waiting') /\ Cardinality(Waiting') <= Cardinality(Waiting) + 0
  BY <1>3, <1>4, WaitingRests, WaitingShrinks DEF DeliveryInv
<1>7. Cardinality(Sent') <= Cardinality(Sent) + 0
  BY <1>1, SentIsFinite
<1>8. At(w, "record") => local[w].message # NoMessage /\ local[w].message \in Sent
  BY DEF DeliveryInv, MessageIsSent, At
<1>9. Reserve' <= Reserve + 0
  <2>1. Recording => At(w, "record")
    BY <1>2 DEF Recording
  <2>2. QED
    BY <1>8, <2>1 DEF Reserve
<1>10. abandons + stalls + doubts + 0 + 0 + 0 <= abandons' + stalls' + doubts'
  BY ProjectionAssumption DEF TypeOK
<1>11. Charged'
  BY <1>6, <1>7, <1>9, <1>10, Balance DEF DeliveryInv
<1>12. sub'.source_message_ref # NoMessage => sub'.source_message_ref \in Sent'
  BY <1>1, <1>8 DEF DeliveryInv
<1>13. QED
  BY <1>3, <1>5, <1>11, <1>12, StepFits

LEMMA OneIsCurrent ==
    ASSUME DeliveryInv, NEW w \in Workers, Current(w), NEW v \in Workers, Current(v)
    PROVE  v = w
BY DEF DeliveryInv, ClaimFits, CurrentFits

\* A row is claimed when no claim on it is current.
LEMMA ClaimStep ==
    ASSUME AgreeingClocks, TypeOK, TypeOK', DeliveryInv, NEW w \in Workers, Claim(w)
    PROVE  DeliveryInv'
<1>t. /\ sub \in ProjectionSubscription /\ ClockOf[w] \in Int /\ ClaimTtl \in Nat \ {0}
      /\ At(w, "claim") /\ UNCHANGED <<cards, stalls, doubts, abandons>>
  <2>1. At(w, "claim") /\ UNCHANGED <<cards, stalls, doubts, abandons>>
    BY DEF Claim, StoreOnly
  <2>2. QED
    BY <2>1, ClockIsAReading, ProjectionAssumption DEF TypeOK
<1>1. CASE ~(Due(ClockOf[w]) /\ sub.state = local[w].state)
  <2>1. sub' = sub /\ local'[w] = Idle /\ \A v \in Workers \ {w} : local'[v] = local[v]
    BY <1>1, IdleIsACoroutine, BecomeTyped DEF Claim
  <2>2. ~Current(w) /\ ~At(w, "record")
    BY <1>t DEF Current, Claiming, At
  <2>3. local'[w].pc \in {"idle", "claim"}
    BY <2>1 DEF Idle
  <2>4. QED
    BY <1>t, <2>1, <2>2, <2>3, DropStep
<1>2. CASE Due(ClockOf[w]) /\ sub.state = local[w].state
  <2>1. PICK token \in Tokens :
          /\ sub' = Claimed(w, token)
          /\ Become(w, [Idle EXCEPT !.pc = "resolve", !.state = sub'.state,
                          !.message = sub.source_message_ref,
                          !.failures = sub.provider_failure_count,
                          !.token = token, !.expires = sub'.claim_expires_at])
    BY <1>2 DEF Claim, Unheld
  <2>2. /\ sub'.claim_owner = w /\ sub'.fencing_token = token
        /\ sub'.source_message_ref = sub.source_message_ref
    BY <2>1, ClaimedRow
  <2>3. sub'.claim_expires_at > ClockOf[w]
    <3>1. sub'.claim_expires_at = ClockOf[w] + ClaimTtl
      BY <1>t, <2>1 DEF Claimed, ProjectionSubscription
    <3>2. QED
      BY <1>t, <3>1
  <2>4. /\ local'[w].pc = "resolve" /\ local'[w].state = sub'.state
        /\ local'[w].message = sub.source_message_ref
        /\ local'[w].token = token /\ local'[w].expires = sub'.claim_expires_at
        /\ \A v \in Workers \ {w} : local'[v] = local[v]
    BY <2>1 DEF Become, TypeOK, Idle
  <2>5. \A v \in Workers : ~Current(v)
    <3>1. ASSUME NEW v \in Workers, Current(v) PROVE FALSE
      <4>1. CurrentFits(v) /\ ClockOf[v] = ClockOf[w]
        BY <3>1 DEF AgreeingClocks, DeliveryInv, ClaimFits
      <4>2. sub.claim_owner # NoOwner /\ sub.claim_expires_at > ClockOf[w]
        BY <3>1, <4>1, ProjectionAssumption DEF CurrentFits, Current
      <4>3. QED
        BY <1>2, <4>2 DEF Due
    <3>2. QED
      BY <3>1
  <2>6. Sent' = Sent
    BY <1>t DEF Sent
  <2>7. OthersRest(w)
    BY <1>t, <2>2, <2>4, <2>5, <2>6 DEF OthersRest
  <2>8. Claiming(w)' /\ Current(w)' /\ ~Waits(w)'
    BY <2>3, <2>4 DEF Claiming, Current, Waits
  <2>9. (ClaimFits(w) /\ MessageIsSent(w))'
    <3>1. ClaimFits(w)'
      BY <2>2, <2>4, <2>8 DEF ClaimFits, CurrentFits
    <3>2. MessageIsSent(w)'
      BY <2>4, <2>6 DEF MessageIsSent, DeliveryInv
    <3>3. QED
      BY <3>1, <3>2
  <2>10. IsFiniteSet(Waiting') /\ Cardinality(Waiting') <= Cardinality(Waiting) + 0
    BY <2>7, <2>8, WaitingRests, WaitingShrinks DEF DeliveryInv
  <2>11. Cardinality(Sent') <= Cardinality(Sent) + 0
    BY <2>6, SentIsFinite
  <2>12. Reserve' <= Reserve + 0
    BY <2>2, <2>5 DEF Reserve, Recording
  <2>13. abandons + stalls + doubts + 0 + 0 + 0 <= abandons' + stalls' + doubts'
    BY <1>t, ProjectionAssumption DEF TypeOK
  <2>14. Charged'
    BY <2>10, <2>11, <2>12, <2>13, Balance DEF DeliveryInv
  <2>15. QED
    BY <2>2, <2>6, <2>7, <2>9, <2>14, StepFits DEF DeliveryInv
<1>3. QED
  BY <1>1, <1>2

\* The claim is extended under the coroutine that holds it.
LEMMA RenewStep ==
    ASSUME TypeOK, TypeOK', DeliveryInv, NEW w \in Workers, RenewProjectionClaim(w)
    PROVE  DeliveryInv'
<1>t. /\ local[w] \in Coroutine /\ sub \in ProjectionSubscription
      /\ ClockOf[w] \in Int /\ ClaimTtl \in Nat \ {0}
      /\ At(w, "renew") /\ UNCHANGED <<cards, stalls, doubts, abandons>>
  BY ProjectionAssumption DEF TypeOK, RenewProjectionClaim, StoreOnly
<1>p. local[w].pc = "renew" /\ Claiming(w) /\ ~At(w, "record")
  BY <1>t DEF At, Claiming
<1>1. CASE ~ClaimMatches(w)
  <2>1. sub' = sub /\ local'[w] = Idle /\ \A v \in Workers \ {w} : local'[v] = local[v]
    BY <1>1, IdleIsACoroutine, BecomeTyped DEF RenewProjectionClaim
  <2>2. QED
    BY <1>t, <1>p, <2>1, DropStep DEF Idle
<1>2. CASE ClaimMatches(w)
  <2>1. PICK e : e = RenewedExpiry(w)
    OBVIOUS
  <2>2. e > ClockOf[w]
    BY <1>t, <2>1 DEF RenewedExpiry, ProjectionSubscription, Deadlines
  <2>3. /\ sub' = [sub EXCEPT !.claim_expires_at = e]
        /\ Become(w, [local[w] EXCEPT !.pc = "check", !.expires = e])
    BY <1>2, <2>1 DEF RenewProjectionClaim
  <2>4. /\ sub'.claim_owner = sub.claim_owner /\ sub'.fencing_token = sub.fencing_token
        /\ sub'.source_message_ref = sub.source_message_ref
        /\ sub'.state = sub.state /\ sub'.claim_expires_at = e
    BY <1>t, <2>3 DEF ProjectionSubscription
  <2>5. /\ local'[w].pc = "check" /\ local'[w].state = local[w].state
        /\ local'[w].message = local[w].message
        /\ local'[w].token = local[w].token /\ local'[w].expires = e
        /\ \A v \in Workers \ {w} : local'[v] = local[v]
    BY <1>t, <2>3 DEF Become, TypeOK, Coroutine
  <2>6. Current(w) /\ CurrentFits(w) /\ \A v \in Workers \ {w} : ~Current(v)
    BY <1>2, <1>p, MatchIsCurrent DEF DeliveryInv, ClaimFits
  <2>7. Sent' = Sent
    BY <1>t DEF Sent
  <2>8. OthersRest(w)
    BY <1>t, <2>4, <2>5, <2>6, <2>7 DEF OthersRest, CurrentFits
  <2>9. Claiming(w)' /\ Current(w)' /\ ~Waits(w)'
    BY <2>2, <2>5 DEF Claiming, Current, Waits
  <2>10. (ClaimFits(w) /\ MessageIsSent(w))'
    <3>1. ClaimFits(w)'
      BY <1>p, <2>4, <2>5, <2>6, <2>9 DEF ClaimFits, CurrentFits, DeliveryInv
    <3>2. MessageIsSent(w)'
      BY <1>p, <2>5, <2>7 DEF MessageIsSent, DeliveryInv
    <3>3. QED
      BY <3>1, <3>2
  <2>11. IsFiniteSet(Waiting') /\ Cardinality(Waiting') <= Cardinality(Waiting) + 0
    BY <2>8, <2>9, WaitingRests, WaitingShrinks DEF DeliveryInv
  <2>12. Cardinality(Sent') <= Cardinality(Sent) + 0
    BY <2>7, SentIsFinite
  <2>13. Reserve' <= Reserve + 0
    <3>1. ~Recording
      BY <1>p, <2>6 DEF Recording
    <3>2. QED
      BY <2>4, <3>1 DEF Reserve
  <2>14. abandons + stalls + doubts + 0 + 0 + 0 <= abandons' + stalls' + doubts'
    BY <1>t, ProjectionAssumption DEF TypeOK
  <2>15. Charged'
    BY <2>11, <2>12, <2>13, <2>14, Balance DEF DeliveryInv
  <2>16. QED
    BY <2>4, <2>7, <2>8, <2>10, <2>15, StepFits DEF DeliveryInv
<1>3. QED
  BY <1>1, <1>2

LEMMA ShownIsSent ==
    ASSUME TypeOK, TypeOK', NEW w \in Workers, cards' = Shown(w)
    PROVE  /\ Sent \subseteq Sent' /\ Sent' \subseteq Sent \cup {MessageOf(w)}
           /\ MessageOf(w) \in Sent' /\ MessageOf(w) # NoMessage
<1>1. /\ local[w] \in Coroutine /\ cards \in [Messages -> {"none", "running", "terminal"}]
      /\ NoMessage \notin Messages /\ IdempotencyRef(w) \in Messages
  BY MessagesAreVersioned, IdempotencyRefIsAMessage DEF TypeOK
<1>2. MessageOf(w) \in Messages /\ MessageOf(w) # NoMessage
  BY <1>1 DEF MessageOf, Coroutine
<1>3. CardOf(w) # "none"
  BY DEF CardOf
<1>4. CASE local[w].message # NoMessage \/ cards[IdempotencyRef(w)] = "none"
  <2>1. cards' = [cards EXCEPT ![MessageOf(w)] = CardOf(w)]
    BY <1>4 DEF Shown
  <2>2. QED
    BY <1>1, <1>2, <1>3, <2>1 DEF Sent
<1>5. CASE ~(local[w].message # NoMessage \/ cards[IdempotencyRef(w)] = "none")
  <2>1. cards' = cards /\ MessageOf(w) = IdempotencyRef(w)
    BY <1>5 DEF Shown, MessageOf
  <2>2. QED
    BY <1>1, <1>2, <1>5, <2>1 DEF Sent
<1>6. QED
  BY <1>4, <1>5

\* A card is sent: by the current claim, under the reserve, or late, under the stall that
\* made its sender wait; a send that may have failed is a doubt.
LEMMA DeliverStep ==
    ASSUME TypeOK, TypeOK', DeliveryInv, NEW w \in Workers, Deliver(w)
    PROVE  DeliveryInv'
<1>t. /\ local[w] \in Coroutine /\ local[w].pc = "deliver" /\ Claiming(w)
      /\ ~At(w, "record") /\ UNCHANGED <<sub, stalls, abandons>>
  BY DEF TypeOK, Deliver, At, Claiming
<1>f. ClaimFits(w) /\ MessageIsSent(w)
  BY DEF DeliveryInv
<1>n. doubts \in Nat /\ stalls \in Nat /\ abandons \in Nat
  BY ProjectionAssumption DEF TypeOK
<1>1. ASSUME /\ cards' = Shown(w) /\ doubts' = doubts
             /\ Become(w, [local[w] EXCEPT !.pc = "record", !.message = MessageOf(w)])
      PROVE  DeliveryInv'
  <2>1. /\ local'[w].pc = "record" /\ local'[w].message = MessageOf(w)
        /\ local'[w].state = local[w].state /\ local'[w].token = local[w].token
        /\ local'[w].expires = local[w].expires
        /\ \A v \in Workers \ {w} : local'[v] = local[v]
    BY <1>t, <1>1 DEF Become, TypeOK, Coroutine
  <2>2. /\ Sent \subseteq Sent' /\ Sent' \subseteq Sent \cup {MessageOf(w)}
        /\ MessageOf(w) \in Sent' /\ MessageOf(w) # NoMessage
    BY <1>1, ShownIsSent
  <2>3. OthersRest(w)
    BY <1>t, <2>1, <2>2 DEF OthersRest
  <2>4. Claiming(w)' /\ (Current(w)' <=> Current(w)) /\ At(w, "record")' /\ ~Waits(w)'
    BY <1>t, <2>1 DEF Claiming, Current, At, Waits
  <2>5. (ClaimFits(w) /\ MessageIsSent(w))'
    BY <1>t, <1>f, <2>1, <2>2, <2>4 DEF ClaimFits, CurrentFits, MessageIsSent
  <2>6. Recording => Recording'
    BY <1>t, <2>3, RestingFits DEF Recording
  <2>7. Reserve' <= Reserve + 0
    BY <1>t, <2>6 DEF Reserve
  <2>8. Waiting' \subseteq Waiting \ {w}
    BY <2>3, <2>4, WaitingRests
  <2>9. Charged'
    <3>1. CASE local[w].message # NoMessage
      <4>1. Sent' = Sent
        BY <1>t, <1>f, <2>2, <3>1 DEF MessageIsSent, MessageOf
      <4>2. Cardinality(Sent') <= Cardinality(Sent) + 0
        BY <4>1, SentIsFinite
      <4>3. IsFiniteSet(Waiting') /\ Cardinality(Waiting') <= Cardinality(Waiting) + 0
        BY <2>8, WaitingShrinks DEF DeliveryInv
      <4>4. abandons + stalls + doubts + 0 + 0 + 0 <= abandons' + stalls' + doubts'
        BY <1>t, <1>n, <1>1
      <4>5. QED
        BY <4>2, <4>3, <4>4, <2>7, Balance DEF DeliveryInv
    <3>2. CASE local[w].message = NoMessage /\ Current(w)
      <4>1. sub.source_message_ref = NoMessage
        BY <1>t, <1>f, <3>2 DEF ClaimFits, CurrentFits
      <4>2. ~Recording /\ Recording'
        BY <1>t, <2>4, <3>2, OneIsCurrent DEF Recording
      <4>3. Reserve' <= Reserve + (-1)
        BY <4>1, <4>2 DEF Reserve
      <4>4. Cardinality(Sent') <= Cardinality(Sent) + 1
        BY <2>2, SentGrows
      <4>5. IsFiniteSet(Waiting') /\ Cardinality(Waiting') <= Cardinality(Waiting) + 0
        BY <2>8, WaitingShrinks DEF DeliveryInv
      <4>6. abandons + stalls + doubts + 1 + 0 + (-1) <= abandons' + stalls' + doubts'
        BY <1>t, <1>n, <1>1
      <4>7. QED
        BY <4>3, <4>4, <4>5, <4>6, Balance DEF DeliveryInv
    <3>3. CASE local[w].message = NoMessage /\ ~Current(w)
      <4>1. w \in Waiting
        BY <1>t, <3>3 DEF Waiting, Waits
      <4>2. Cardinality(Sent') <= Cardinality(Sent) + 1
        BY <2>2, SentGrows
      <4>3. IsFiniteSet(Waiting') /\ Cardinality(Waiting') <= Cardinality(Waiting) + (-1)
        BY <2>8, <4>1, WaitingLoses DEF DeliveryInv
      <4>4. abandons + stalls + doubts + 1 + (-1) + 0 <= abandons' + stalls' + doubts'
        BY <1>t, <1>n, <1>1
      <4>5. QED
        BY <4>2, <4>3, <4>4, <2>7, Balance DEF DeliveryInv
    <3>4. QED
      BY <3>1, <3>2, <3>3
  <2>10. QED
    BY <1>t, <2>2, <2>3, <2>5, <2>9, StepFits DEF DeliveryInv
<1>2. ASSUME NEW retryable \in BOOLEAN,
             \/ UNCHANGED <<cards, doubts>>
             \/ cards' = Shown(w) /\ doubts' = doubts + 1,
             Become(w, [local[w] EXCEPT !.pc = "failure", !.retryable = retryable])
      PROVE  DeliveryInv'
  <2>1. /\ local'[w].pc = "failure" /\ local'[w].message = local[w].message
        /\ local'[w].state = local[w].state /\ local'[w].token = local[w].token
        /\ local'[w].expires = local[w].expires
        /\ \A v \in Workers \ {w} : local'[v] = local[v]
    BY <1>t, <1>2 DEF Become, TypeOK, Coroutine
  <2>2. Sent \subseteq Sent'
    BY <1>2, ShownIsSent DEF Sent
  <2>3. OthersRest(w)
    BY <1>t, <2>1, <2>2 DEF OthersRest
  <2>4. Claiming(w)' /\ (Current(w)' <=> Current(w)) /\ ~Waits(w)'
    BY <1>t, <2>1 DEF Claiming, Current, Waits
  <2>5. (ClaimFits(w) /\ MessageIsSent(w))'
    BY <1>t, <1>f, <2>1, <2>2, <2>4 DEF ClaimFits, CurrentFits, MessageIsSent
  <2>6. Recording => Recording'
    BY <1>t, <2>3, RestingFits DEF Recording
  <2>7. Reserve' <= Reserve + 0
    BY <1>t, <2>6 DEF Reserve
  <2>8. IsFiniteSet(Waiting') /\ Cardinality(Waiting') <= Cardinality(Waiting) + 0
    BY <2>3, <2>4, WaitingRests, WaitingShrinks DEF DeliveryInv
  <2>9. Charged'
    <3>1. CASE UNCHANGED <<cards, doubts>>
      <4>1. Cardinality(Sent') <= Cardinality(Sent) + 0
        BY <3>1, SentIsFinite DEF Sent
      <4>2. abandons + stalls + doubts + 0 + 0 + 0 <= abandons' + stalls' + doubts'
        BY <1>t, <1>n, <3>1
      <4>3. QED
        BY <4>1, <4>2, <2>7, <2>8, Balance DEF DeliveryInv
    <3>2. CASE cards' = Shown(w) /\ doubts' = doubts + 1
      <4>1. Cardinality(Sent') <= Cardinality(Sent) + 1
        BY <3>2, ShownIsSent, SentGrows
      <4>2. abandons + stalls + doubts + 1 + 0 + 0 <= abandons' + stalls' + doubts'
        BY <1>t, <1>n, <3>2
      <4>3. QED
        BY <4>1, <4>2, <2>7, <2>8, Balance DEF DeliveryInv
    <3>3. QED
      BY <1>2, <3>1, <3>2
  <2>10. QED
    BY <1>t, <2>2, <2>3, <2>5, <2>9, StepFits DEF DeliveryInv
<1>3. QED
  BY <1>1, <1>2 DEF Deliver

\* A second later a claim is as current as it was, or has run out: then a stall is counted.
LEMMA TickAges ==
    ASSUME TypeOK, DeliveryInv, Tick, NEW w \in Workers
    PROVE  /\ local'[w].pc = local[w].pc /\ local'[w].state = local[w].state
           /\ local'[w].message = local[w].message /\ local'[w].token = local[w].token
           /\ local'[w].expires = Closer(local[w].expires)
           /\ Current(w)' => Current(w)
           /\ Current(w) /\ ~Current(w)' => RunsOut
<1>t. /\ local[w] \in Coroutine /\ ClockOf[w] \in Int /\ ClockOf[w] >= Past /\ Past \in Int
      /\ local \in [Workers -> Coroutine]
  BY ProjectionAssumption DEF TypeOK, Past
<1>1. /\ local'[w].pc = local[w].pc /\ local'[w].state = local[w].state
      /\ local'[w].message = local[w].message /\ local'[w].token = local[w].token
      /\ local'[w].expires = Closer(local[w].expires)
  BY <1>t DEF Tick, Coroutine
<1>2. PICK d : d = local[w].expires
  OBVIOUS
<1>3. d \in Int
  BY <1>t, <1>2 DEF Coroutine, Deadlines
<1>4. Closer(d) > ClockOf[w] => d > ClockOf[w]
  BY <1>t, <1>3 DEF Closer
<1>5. d > ClockOf[w] /\ ~(Closer(d) > ClockOf[w]) => d - 1 <= ClockOf[w]
  BY <1>t, <1>3 DEF Closer
<1>6. Current(w)' => Current(w)
  BY <1>1, <1>2, <1>4 DEF Current, Claiming
<1>7. ASSUME Current(w), ~Current(w)' PROVE RunsOut
  <2>1. d > ClockOf[w] /\ d - 1 <= ClockOf[w]
    BY <1>1, <1>2, <1>5, <1>7 DEF Current, Claiming
  <2>2. local[w].token # NoToken /\ ~At(w, "idle")
    BY <1>7, ProjectionAssumption DEF DeliveryInv, ClaimFits, Current, Claiming, At
  <2>3. QED
    BY <1>2, <2>1, <2>2 DEF RunsOut
<1>8. QED
  BY <1>1, <1>6, <1>7

LEMMA TickFits ==
    ASSUME TypeOK, DeliveryInv, Tick, NEW w \in Workers
    PROVE  (ClaimFits(w) /\ MessageIsSent(w))'
<1>t. /\ sub \in ProjectionSubscription /\ ClockOf[w] \in Int /\ Past \in Int
      /\ ClockOf[w] >= Past
  BY ProjectionAssumption DEF TypeOK, Past
<1>s. /\ sub'.claim_owner = sub.claim_owner /\ sub'.fencing_token = sub.fencing_token
      /\ sub'.state = sub.state /\ sub'.source_message_ref = sub.source_message_ref
      /\ sub'.claim_expires_at = Closer(sub.claim_expires_at)
  BY <1>t DEF Tick, ProjectionSubscription
<1>1. /\ local'[w].pc = local[w].pc /\ local'[w].state = local[w].state
      /\ local'[w].message = local[w].message /\ local'[w].token = local[w].token
      /\ local'[w].expires = Closer(local[w].expires)
      /\ Current(w)' => Current(w)
      /\ Current(w) /\ ~Current(w)' => RunsOut
  BY TickAges
<1>f. ClaimFits(w) /\ MessageIsSent(w)
  BY DEF DeliveryInv
<1>2. Sent' = Sent
  BY DEF Tick, Sent
<1>3. MessageIsSent(w)'
  BY <1>1, <1>2, <1>f DEF MessageIsSent, Claiming
<1>4. (Current(w) => CurrentFits(w))'
  BY <1>1, <1>s, <1>f DEF ClaimFits, CurrentFits
<1>5. ASSUME Claiming(w)', ~Current(w)', sub'.claim_owner = w,
             sub'.fencing_token = local'[w].token, sub'.claim_expires_at > ClockOf[w]
      PROVE  FALSE
  <2>1. Claiming(w)
    BY <1>1, <1>5 DEF Claiming
  <2>2. sub.claim_expires_at > ClockOf[w]
    <3>1. PICK d : d = sub.claim_expires_at
      OBVIOUS
    <3>2. d \in Int
      BY <1>t, <3>1 DEF ProjectionSubscription, Deadlines
    <3>3. Closer(d) > ClockOf[w]
      BY <1>5, <1>s, <3>1
    <3>4. QED
      BY <1>t, <3>1, <3>2, <3>3 DEF Closer
  <2>3. Current(w)
    BY <1>1, <1>s, <1>f, <1>5, <2>1, <2>2 DEF ClaimFits
  <2>4. local'[w].expires = sub'.claim_expires_at
    BY <1>1, <1>s, <1>f, <2>3 DEF ClaimFits, CurrentFits
  <2>5. QED
    BY <1>5, <2>4 DEF Current
<1>6. Claiming(w)' => local'[w].token \in Tokens
  BY <1>1, <1>f DEF ClaimFits, Claiming
<1>7. Claiming(w)' /\ stalls' = 0 => Current(w)'
  <2>1. stalls \in Nat
    BY ProjectionAssumption DEF TypeOK
  <2>2. stalls' = 0 => stalls = 0 /\ ~RunsOut
    BY <2>1 DEF Tick
  <2>3. Claiming(w)' => Claiming(w)
    BY <1>1 DEF Claiming
  <2>4. QED
    BY <1>1, <1>f, <2>2, <2>3 DEF ClaimFits
<1>8. ClaimFits(w)'
  BY <1>4, <1>5, <1>6, <1>7 DEF ClaimFits
<1>9. QED
  BY <1>3, <1>8

\* The stall that overtakes a coroutine pays for the message it may still send, or, if it
\* has sent it already, for the one that the next claim will send.
LEMMA TickStep ==
    ASSUME TypeOK, TypeOK', DeliveryInv, Tick
    PROVE  DeliveryInv'
<1>n. doubts \in Nat /\ stalls \in Nat /\ abandons \in Nat
  BY ProjectionAssumption DEF TypeOK
<1>r. sub'.source_message_ref = sub.source_message_ref
  BY DEF Tick, TypeOK, ProjectionSubscription
<1>u. UNCHANGED <<cards, doubts, abandons>> /\ Sent' = Sent
  BY DEF Tick, Sent
<1>s. Cardinality(Sent') <= Cardinality(Sent) + 0
  BY <1>u, SentIsFinite
<1>a. ASSUME NEW v \in Workers
      PROVE  /\ Claiming(v)' <=> Claiming(v)
             /\ At(v, "record")' <=> At(v, "record")
             /\ Current(v)' => Current(v)
             /\ Waits(v)' => Waits(v) \/ (Current(v) /\ ~Current(v)' /\ ~At(v, "record"))
             /\ Current(v) /\ ~Current(v)' => RunsOut
  BY TickAges DEF Claiming, At, Waits
<1>1. CASE \A v \in Workers : Current(v) => Current(v)'
  <2>1. Waiting' \subseteq Waiting
    BY <1>1, <1>a DEF Waiting
  <2>2. IsFiniteSet(Waiting') /\ Cardinality(Waiting') <= Cardinality(Waiting) + 0
    BY <2>1, WaitingShrinks DEF DeliveryInv
  <2>3. Recording => Recording'
    BY <1>1, <1>a DEF Recording
  <2>4. Reserve' <= Reserve + 0
    BY <1>r, <2>3 DEF Reserve
  <2>5. abandons + stalls + doubts + 0 + 0 + 0 <= abandons' + stalls' + doubts'
    <3>1. stalls' = stalls \/ stalls' = stalls + 1
      BY DEF Tick
    <3>2. QED
      BY <1>n, <1>u, <3>1
  <2>6. Charged'
    BY <1>s, <2>2, <2>4, <2>5, Balance DEF DeliveryInv
  <2>7. QED
    BY <1>r, <1>u, <2>6, TickFits DEF DeliveryInv
<1>2. ASSUME NEW w \in Workers, Current(w), ~Current(w)'
      PROVE  DeliveryInv'
  <2>1. stalls' = stalls + 1
    BY <1>2, <1>a DEF Tick
  <2>2. \A v \in Workers \ {w} : ~Current(v)
    BY <1>2, OneIsCurrent
  <2>3. Charged'
    <3>1. CASE At(w, "record")
      <4>1. Waiting' \subseteq Waiting
        BY <1>a, <2>2, <3>1 DEF Waiting
      <4>2. IsFiniteSet(Waiting') /\ Cardinality(Waiting') <= Cardinality(Waiting) + 0
        BY <4>1, WaitingShrinks DEF DeliveryInv
      <4>3. Reserve' <= Reserve + 1
        BY DEF Reserve
      <4>4. abandons + stalls + doubts + 0 + 0 + 1 <= abandons' + stalls' + doubts'
        BY <1>n, <1>u, <2>1
      <4>5. QED
        BY <1>s, <4>2, <4>3, <4>4, Balance DEF DeliveryInv
    <3>2. CASE ~At(w, "record")
      <4>1. Waiting' \subseteq Waiting \cup {w}
        BY <1>a, <2>2 DEF Waiting
      <4>2. IsFiniteSet(Waiting') /\ Cardinality(Waiting') <= Cardinality(Waiting) + 1
        BY <4>1, WaitingGains DEF DeliveryInv
      <4>3. ~Recording
        BY <2>2, <3>2 DEF Recording
      <4>4. Reserve' <= Reserve + 0
        BY <1>r, <4>3 DEF Reserve
      <4>5. abandons + stalls + doubts + 0 + 1 + 0 <= abandons' + stalls' + doubts'
        BY <1>n, <1>u, <2>1
      <4>6. QED
        BY <1>s, <4>2, <4>4, <4>5, Balance DEF DeliveryInv
    <3>3. QED
      BY <3>1, <3>2
  <2>4. QED
    BY <1>r, <1>u, <2>3, TickFits DEF DeliveryInv
<1>3. QED
  BY <1>1, <1>2

\* A coroutine lists, looks up, reads, projects or checks: it goes on or ends.
LEMMA ReadStep ==
    ASSUME TypeOK, TypeOK', DeliveryInv, NEW w \in Workers,
           \/ ListDue(w) \/ Resolve(w) \/ GetTask(w) \/ StableCard(w) \/ CheckClaim(w)
    PROVE  DeliveryInv'
<1>t. local[w] \in Coroutine /\ UNCHANGED <<sub, cards, stalls, doubts, abandons>>
  BY DEF TypeOK, ListDue, Resolve, GetTask, StableCard, CheckClaim, LocalOnly
<1>p. local[w].pc \in {"idle", "resolve", "get", "project", "check"} /\ ~At(w, "record")
  BY DEF ListDue, Resolve, GetTask, StableCard, CheckClaim, At
<1>1. ASSUME Become(w, Idle) PROVE DeliveryInv'
  <2>1. local'[w] = Idle /\ \A v \in Workers \ {w} : local'[v] = local[v]
    BY <1>1, IdleIsACoroutine, BecomeTyped
  <2>2. local'[w].pc \in {"idle", "claim"}
    BY <2>1 DEF Idle
  <2>3. QED
    BY <1>t, <1>p, <2>1, <2>2, DropStep
<1>2. ASSUME NEW l, Become(w, l), local[w].pc # "idle",
             l.pc \notin {"idle", "claim", "record", "failure"},
             l.expires = local[w].expires, l.token = local[w].token,
             l.state = local[w].state, l.message = local[w].message
      PROVE  DeliveryInv'
  <2>1. local'[w] = l /\ \A v \in Workers \ {w} : local'[v] = local[v]
    BY <1>2 DEF Become, TypeOK
  <2>2. Claiming(w) /\ local[w].pc \notin {"record", "failure"}
    BY <1>2, <1>p DEF Claiming
  <2>3. QED
    BY <1>t, <1>2, <2>1, <2>2, AdvanceStep
<1>3. CASE ListDue(w)
  <2>1. /\ local'[w].pc \in {"idle", "claim"}
        /\ \A v \in Workers \ {w} : local'[v] = local[v]
    BY <1>3 DEF ListDue, Become, TypeOK, Idle
  <2>2. QED
    BY <1>t, <1>p, <2>1, DropStep
<1>4. CASE Resolve(w) \/ CheckClaim(w)
  <2>1. Become(w, Idle) \/ \E pc \in {"get", "deliver"} : Goto(w, pc)
    BY <1>4 DEF Resolve, CheckClaim
  <2>2. ASSUME NEW pc \in {"get", "deliver"}, Goto(w, pc) PROVE DeliveryInv'
    <3>1. PICK l : l = [local[w] EXCEPT !.pc = pc]
      OBVIOUS
    <3>2. /\ l.pc = pc /\ l.expires = local[w].expires /\ l.token = local[w].token
          /\ l.state = local[w].state /\ l.message = local[w].message
      BY <1>t, <3>1 DEF Coroutine
    <3>3. Become(w, l) /\ local[w].pc # "idle"
      BY <1>4, <2>2, <3>1 DEF Goto, Resolve, CheckClaim, At
    <3>4. QED
      BY <3>2, <3>3, <1>2
  <2>3. QED
    BY <2>1, <2>2, <1>1
<1>5. CASE GetTask(w)
  <2>1. PICK pc \in {"recheck", "project"} :
          Become(w, [local[w] EXCEPT !.pc = pc, !.version = record.version,
                                     !.terminal = record.terminal,
                                     !.form = FormNow])
    BY <1>5 DEF GetTask
  <2>2. PICK l : l = [local[w] EXCEPT !.pc = pc, !.version = record.version,
                                      !.terminal = record.terminal,
                                      !.form = FormNow]
    OBVIOUS
  <2>3. /\ l.pc = pc /\ l.expires = local[w].expires /\ l.token = local[w].token
        /\ l.state = local[w].state /\ l.message = local[w].message
    BY <1>t, <2>2 DEF Coroutine
  <2>4. Become(w, l) /\ local[w].pc # "idle"
    BY <1>5, <2>1, <2>2 DEF GetTask, At
  <2>5. QED
    BY <2>3, <2>4, <1>2
<1>6. CASE StableCard(w)
  <2>f. PICK form : Become(w, IF Unrenderable(w, form) THEN Idle
                              ELSE IF record.version = local[w].version
                              THEN [local[w] EXCEPT !.pc = "renew", !.form = form]
                              ELSE IF local[w].tries + 1 < ReadAttempts
                              THEN [local[w] EXCEPT !.version = record.version,
                                                    !.terminal = record.terminal,
                                                    !.form = FormNow, !.tries = @ + 1]
                              ELSE Idle)
    BY <1>6 DEF StableCard
  <2>1. PICK l \in {Idle, [local[w] EXCEPT !.pc = "renew", !.form = form],
                    [local[w] EXCEPT !.version = record.version,
                                     !.terminal = record.terminal,
                                     !.form = FormNow, !.tries = @ + 1]} :
          Become(w, l)
    BY <2>f
  <2>2. CASE l = Idle
    BY <2>1, <2>2, <1>1
  <2>3. CASE l # Idle
    <3>1. /\ l.pc \in {"renew", "project"}
          /\ l.expires = local[w].expires /\ l.token = local[w].token
          /\ l.state = local[w].state /\ l.message = local[w].message
      <4>1. local[w].pc = "project"
        BY <1>6 DEF StableCard, At
      <4>2. QED
        BY <1>t, <2>1, <2>3, <4>1 DEF Coroutine
    <3>2. local[w].pc # "idle"
      BY <1>6 DEF StableCard, At
    <3>3. QED
      BY <2>1, <3>1, <3>2, <1>2
  <2>4. QED
    BY <2>2, <2>3
<1>7. QED
  BY <1>3, <1>4, <1>5, <1>6

\* A result is written under the claim, or the claim is lost and nothing is written.
LEMMA ResultStep ==
    ASSUME TypeOK, TypeOK', DeliveryInv, NEW w \in Workers,
           ScheduleTaskRecheck(w) \/ RecordDelivery(w) \/ RecordProviderFailure(w)
    PROVE  DeliveryInv'
<1>1. PICK winner :
        /\ Mutate(w, winner) /\ winner.claim_owner = NoOwner
        /\ \/ At(w, "record") /\ winner.source_message_ref = local[w].message
           \/ /\ ~At(w, "record")
              /\ winner.source_message_ref = sub.source_message_ref
  <2>1. CASE ScheduleTaskRecheck(w)
    BY <2>1, RecheckedRow DEF ScheduleTaskRecheck, At
  <2>2. CASE RecordDelivery(w)
    BY <2>2, DeliveredRow DEF RecordDelivery
  <2>3. CASE RecordProviderFailure(w)
    BY <2>3, FailedRow DEF RecordProviderFailure, At
  <2>4. QED
    BY <2>1, <2>2, <2>3
<1>2. Claiming(w)
  BY DEF ScheduleTaskRecheck, RecordDelivery, RecordProviderFailure, At, Claiming
<1>3. /\ UNCHANGED <<cards, stalls, doubts, abandons>>
      /\ local'[w] = Idle /\ \A v \in Workers \ {w} : local'[v] = local[v]
  BY <1>1, IdleIsACoroutine, BecomeTyped DEF Mutate, StoreOnly
<1>4. local'[w].pc = "idle"
  BY <1>3 DEF Idle
<1>5. CASE ClaimMatches(w)
  <2>1. sub' = winner
    BY <1>1, <1>5 DEF Mutate
  <2>2. QED
    BY <1>1, <1>2, <1>3, <1>4, <1>5, <2>1, WriteStep
<1>6. CASE ~ClaimMatches(w)
  <2>1. sub' = sub /\ ~Current(w)
    BY <1>1, <1>6, CurrentMatches DEF Mutate
  <2>2. QED
    BY <1>3, <1>4, <2>1, DropStep
<1>7. QED
  BY <1>5, <1>6

LEMMA NextDelivery ==
    ASSUME AgreeingClocks
    PROVE  TypeOK /\ TypeOK' /\ DeliveryInv /\ [Next]_vars => DeliveryInv'
<1> SUFFICES ASSUME TypeOK, TypeOK', DeliveryInv, [Next]_vars PROVE DeliveryInv'
  OBVIOUS
<1>1. ASSUME NEW w \in Workers, Abandon(w) PROVE DeliveryInv'
  <2>1. /\ UNCHANGED <<sub, cards, stalls, doubts>> /\ abandons' = abandons + 1
        /\ local'[w] = Idle /\ \A v \in Workers \ {w} : local'[v] = local[v]
    BY <1>1, IdleIsACoroutine, BecomeTyped DEF Abandon
  <2>2. local'[w].pc \in {"idle", "claim"}
    BY <2>1 DEF Idle
  <2>3. QED
    BY <2>1, <2>2, DropStep
<1>2. ASSUME NEW w \in Workers, ListDue(w) \/ ProcessDue(w) PROVE DeliveryInv'
  BY <1>2, ReadStep, ClaimStep, RenewStep, DeliverStep, ResultStep DEF ProcessDue
<1>3. CASE TaskMoves \/ PlanStored \/ UNCHANGED vars
  <2>1. UNCHANGED <<sub, local, cards, doubts, abandons, stalls>>
    BY <1>3 DEF TaskMoves, PlanStored, vars
  <2>2. QED
    BY <2>1 DEF DeliveryInv, ClaimFits, CurrentFits, Current, Claiming, MessageIsSent,
       Sent, Charged, Waiting, Waits, Reserve, Recording, At
<1>4. CASE Tick
  BY <1>4, TickStep
<1>5. QED
  BY <1>1, <1>2, <1>3, <1>4 DEF Next

LEMMA InitDelivery == Init => DeliveryInv
<1> SUFFICES ASSUME Init PROVE DeliveryInv
  OBVIOUS
<1>1. \A w \in Workers : local[w].pc = "idle"
  BY DEF Init, Idle
<1>2. \A w \in Workers : ~Claiming(w) /\ ~Current(w) /\ ~Waits(w)
  BY <1>1 DEF Claiming, Current, Waits
<1>3. \A w \in Workers : ClaimFits(w) /\ MessageIsSent(w)
  BY <1>2 DEF ClaimFits, MessageIsSent
<1>4. sub.source_message_ref = NoMessage
  BY DEF Init
<1>5. Sent = {} /\ Waiting = {}
  BY <1>2 DEF Init, Sent, Waiting
<1>6. Charged
  BY <1>5, FS_EmptySet DEF Charged, Reserve, Init
<1>7. QED
  BY <1>3, <1>4, <1>6 DEF DeliveryInv

\* While the process clocks agree, at most one coroutine is between its claim check and the
\* write of its result as long as no claim ran out under one, and every message beyond the
\* first has a crash, a claim that ran out or a lost answer behind it (claim_projection,
\* renew_projection_claim, _deliver).
THEOREM DeliveriesStayAccountedFor ==
    AgreeingClocks => (Spec => []DeliveriesAreAccountedFor)
<1> SUFFICES ASSUME AgreeingClocks PROVE Spec => []DeliveriesAreAccountedFor
  OBVIOUS
<1>1. TypeOK /\ DeliveryInv => DeliveriesAreAccountedFor
  <2> SUFFICES ASSUME TypeOK, DeliveryInv PROVE DeliveriesAreAccountedFor
    OBVIOUS
  <2>1. SerialDelivery
    <3> SUFFICES ASSUME stalls = 0, NEW v \in Workers, NEW w \in Workers,
                        local[v].pc \in {"deliver", "record", "failure"},
                        local[w].pc \in {"deliver", "record", "failure"}
                 PROVE  v = w
      BY DEF SerialDelivery
    <3>1. Current(v) /\ Current(w)
      BY DEF DeliveryInv, ClaimFits, Claiming
    <3>2. QED
      BY <3>1, OneIsCurrent
  <2>2. DuplicatesAreAccountedFor
    <3>1. PICK s, n, r : s = Cardinality(Sent) /\ n = Cardinality(Waiting) /\ r = Reserve
      OBVIOUS
    <3>2. s \in Nat /\ n \in Nat /\ r \in {0, 1}
      BY <3>1, SentIsFinite, FS_CardinalityType DEF DeliveryInv, Charged, Reserve
    <3>3. PICK c : c = 1 + abandons + stalls + doubts
      OBVIOUS
    <3>4. c \in Int
      BY <3>3, ProjectionAssumption DEF TypeOK
    <3>5. s + n + r <= c
      BY <3>1, <3>3 DEF DeliveryInv, Charged
    <3>6. s <= c
      BY <3>2, <3>4, <3>5
    <3>7. QED
      BY <3>1, <3>3, <3>6 DEF DuplicatesAreAccountedFor
  <2>3. QED
    BY <2>1, <2>2 DEF DeliveriesAreAccountedFor
<1>2. TypeOK /\ DeliveryInv /\ [Next]_vars => (TypeOK /\ DeliveryInv)'
  BY NextTypeOK, NextDelivery
<1>3. QED
  BY InitTypeOK, InitDelivery, <1>1, <1>2, PTL DEF Spec

-----------------------------------------------------------------------------
(***************************************************************************)
(* Beside a task that keeps its contract.  What the projection module      *)
(* assumes of the task, that it ends once and for all and that only the    *)
(* plan comes without a version, is what the contract allows a row to do.  *)
(***************************************************************************)
RowTellsTheStatus ==
    /\ record \in [version : Versions, terminal : BOOLEAN, planned : BOOLEAN, bare : BOOLEAN]
    /\ record.terminal <=> status \in TerminalStatuses
    /\ record.bare => record.terminal

\* The shared sets of the task module, as its instance names them.
LEMMA SharedStates ==
    /\ Task!BareStatuses = BareStatuses /\ BareStatuses \subseteq TerminalStatuses
    /\ Task!DispatchStatuses \cap TerminalStatuses = {} /\ "RUNNING" \notin TerminalStatuses
    /\ \A s \in TerminalStatuses : Task!AllowedTransitions(s) = {}
BY DEF Task!BareStatuses, BareStatuses, TerminalStatuses, Task!DispatchStatuses,
   Task!AllowedTransitions

\* What a step of the task does to the row.
LEMMA TaskStepOfRow ==
    ASSUME RowTellsTheStatus, TaskStep
    PROVE  /\ RowTellsTheStatus'
           /\ TaskMoves \/ PlanStored \/ UNCHANGED vars
           /\ record.terminal => record'.version = record.version /\ UNCHANGED taskVars
<1>t. /\ record \in [version : Versions, terminal : BOOLEAN, planned : BOOLEAN,
                     bare : BOOLEAN]
      /\ record' \in [version : Versions, terminal : BOOLEAN, planned : BOOLEAN,
                      bare : BOOLEAN]
      /\ record'.version \in {record.version, record.version + 1}
      /\ record'.terminal <=> status' \in TerminalStatuses
      /\ UNCHANGED <<sub, local, cards, doubts, abandons, stalls>>
  BY DEF RowTellsTheStatus, TaskStep, Rows, channelVars
<1>1. CASE Task!Move
  <2>1. ~record.terminal
    BY <1>1, SharedStates DEF Task!Move, RowTellsTheStatus
  <2>2. /\ record'.version = record.version + 1 /\ record'.planned = record.planned
        /\ record'.bare => record'.terminal
    BY <1>1, <1>t, SharedStates DEF Task!Move
  <2>3. record.version < MaxVersion
    BY <1>t, <2>2, ProjectionAssumption DEF Versions
  <2>4. record' = [record EXCEPT !.version = @ + 1, !.terminal = record'.terminal,
                                 !.bare = record'.bare]
    BY <1>t, <2>2
  <2>5. TaskMoves
    BY <1>t, <2>1, <2>2, <2>3, <2>4 DEF TaskMoves
  <2>6. QED
    BY <1>t, <2>1, <2>2, <2>5 DEF RowTellsTheStatus
<1>2. CASE Task!Fail
  <2>1. status \notin TerminalStatuses /\ status' = status
    BY <1>2, SharedStates DEF Task!Fail
  <2>2. /\ record'.version = record.version + 1 /\ record'.planned = record.planned
        /\ ~record.terminal /\ ~record'.terminal /\ record'.bare = record.bare
        /\ ~record.bare
    BY <1>2, <1>t, <2>1 DEF Task!Fail, RowTellsTheStatus
  <2>3. record.version < MaxVersion
    BY <1>t, <2>2, ProjectionAssumption DEF Versions
  <2>4. record' = [record EXCEPT !.version = @ + 1, !.terminal = record'.terminal,
                                 !.bare = record'.bare]
    BY <1>t, <2>2
  <2>5. TaskMoves
    BY <1>t, <2>2, <2>3, <2>4 DEF TaskMoves
  <2>6. QED
    BY <1>t, <2>1, <2>2, <2>5 DEF RowTellsTheStatus
<1>3. CASE Task!StorePlan
  <2>1. /\ record'.version = record.version /\ record'.bare = record.bare
        /\ record'.terminal = record.terminal
        /\ ~record.planned /\ record'.planned = TRUE /\ UNCHANGED taskVars
    BY <1>3, <1>t DEF Task!StorePlan, RowTellsTheStatus, taskVars
  <2>2. record' = [record EXCEPT !.planned = TRUE]
    BY <1>t, <2>1
  <2>3. PlanStored
    BY <1>t, <2>1, <2>2 DEF PlanStored
  <2>4. QED
    BY <1>t, <2>1, <2>3 DEF RowTellsTheStatus, taskVars
<1>4. ASSUME NEW s \in Steps, Task!Commit(s)
      PROVE  /\ RowTellsTheStatus' /\ UNCHANGED vars /\ ~record.terminal
  <2>1. status \notin TerminalStatuses /\ status' = status
    BY <1>4, SharedStates DEF Task!Commit
  <2>2. /\ record'.version = record.version /\ record'.bare = record.bare
        /\ record'.terminal = record.terminal /\ record'.planned = record.planned
        /\ ~record.terminal
    BY <1>4, <1>t, <2>1 DEF Task!Commit, RowTellsTheStatus
  <2>3. record' = record
    BY <1>t, <2>2
  <2>4. QED
    BY <1>t, <2>1, <2>2, <2>3 DEF RowTellsTheStatus, vars
<1>5. QED
  BY <1>1, <1>2, <1>3, <1>4 DEF TaskStep, Task!Next

LEMMA ChannelStepOfRow ==
    ASSUME RowTellsTheStatus, ChannelStep
    PROVE  RowTellsTheStatus' /\ Next /\ record' = record /\ UNCHANGED taskVars
<1>1. record' = record
  BY DEF ChannelStep, ListDue, ProcessDue, Claim, Resolve, GetTask, ScheduleTaskRecheck,
     StableCard, RenewProjectionClaim, CheckClaim, Deliver, RecordDelivery,
     RecordProviderFailure, Mutate, Abandon, Tick, LocalOnly, StoreOnly
<1>2. Next /\ UNCHANGED taskVars
  BY DEF ChannelStep, Next
<1>3. QED
  BY <1>1, <1>2 DEF RowTellsTheStatus, taskVars

LEMMA JourneyInitMaps == JourneyInit => Init /\ RowTellsTheStatus
BY ProjectionAssumption
   DEF JourneyInit, Init, Task!Init, RowTellsTheStatus, TerminalStatuses, Versions

LEMMA JourneyStepMaps ==
    RowTellsTheStatus /\ [JourneyNext]_journeyVars => RowTellsTheStatus' /\ [Next]_vars
<1> SUFFICES ASSUME RowTellsTheStatus, [JourneyNext]_journeyVars
             PROVE  RowTellsTheStatus' /\ [Next]_vars
  OBVIOUS
<1>1. CASE UNCHANGED journeyVars
  BY <1>1 DEF journeyVars, taskVars, vars, RowTellsTheStatus
<1>2. CASE TaskStep
  BY <1>2, TaskStepOfRow DEF Next
<1>3. CASE ChannelStep
  BY <1>3, ChannelStepOfRow
<1>4. QED
  BY <1>1, <1>2, <1>3 DEF JourneyNext

\* Beside a task that keeps the contract of the task store, the projection service runs as
\* ChannelProjection describes it: for its purposes the task is what TaskMoves and
\* PlanStored say (_process_due, get_task, project_task).
THEOREM ProjectionFollowsTheTask == JourneySpec => FollowsTheTask
BY JourneyInitMaps, JourneyStepMaps, PTL DEF JourneySpec, FollowsTheTask, Spec

\* What the projection promises, it promises of every such task.
THEOREM JourneysAreSound == JourneySpec => []SubscriptionIsSound /\ FinalStays
BY ProjectionFollowsTheTask, SubscriptionsStaySound, FinalIsFinal, PTL DEF FollowsTheTask

\* A completed subscription names the last version of a task that has ended, and the task
\* never moves, retries or commits a step again (record_projection_delivery against
\* classify_transition, schedule_retry and commit_step_result).
THEOREM TaskIsToldOnce == JourneySpec => ToldOnce
<1>1. JourneySpec => []RowTellsTheStatus
  BY JourneyInitMaps, JourneyStepMaps, PTL DEF JourneySpec
<1>2. JourneySpec => []CompletedShowsTerminal
  BY ProjectionFollowsTheTask, CompletionIsShown, PTL DEF FollowsTheTask
<1>3. RowTellsTheStatus /\ CompletedShowsTerminal /\ [JourneyNext]_journeyVars
        => [sub.state = "COMPLETED" =>
              /\ status \in TerminalStatuses
              /\ sub.last_projected_task_version = record'.version
              /\ UNCHANGED taskVars]_journeyVars
  <2> SUFFICES ASSUME RowTellsTheStatus, CompletedShowsTerminal, JourneyNext,
                      sub.state = "COMPLETED"
               PROVE  /\ status \in TerminalStatuses
                      /\ sub.last_projected_task_version = record'.version
                      /\ UNCHANGED taskVars
    OBVIOUS
  <2>1. record.terminal /\ sub.last_projected_task_version = record.version
    BY DEF CompletedShowsTerminal
  <2>2. record'.version = record.version /\ UNCHANGED taskVars
    BY <2>1, TaskStepOfRow, ChannelStepOfRow DEF JourneyNext
  <2>3. QED
    BY <2>1, <2>2 DEF RowTellsTheStatus
<1>4. QED
  BY <1>1, <1>2, <1>3, PTL DEF JourneySpec, ToldOnce
=============================================================================
