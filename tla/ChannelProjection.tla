-------------------------- MODULE ChannelProjection --------------------------
(***************************************************************************)
(* The Feishu projection of one task: the subscription row with its claim, *)
(* the ChannelProjectionService of every worker process, the cards at the  *)
(* provider, and the task as the projection sees it.  A worker is one      *)
(* _process_due coroutine; each of its actions is one call to a store or   *)
(* to the provider.                                                        *)
(*                                                                         *)
(* Abstractions.                                                           *)
(*  - Of the task only the version is read, whether it is terminal,        *)
(*    whether there is a plan, and whether its end is bare, that is, can   *)
(*    be rendered without one: of a task that failed before it had a plan  *)
(*    there is nothing to render, and project_task raises.                 *)
(*  - The plan is not part of the version: PlanStore.save takes no grant,  *)
(*    and a worker that lost its own may store the plan at any time.       *)
(*    project_task looks for it twice, for the disclosure and for the      *)
(*    terminal view; the form of a card is how many of the two found it.   *)
(*  - A new card's idempotency_ref covers the subscription, the version    *)
(*    and the card, so the version and the form: they stand for the ref    *)
(*    and for the message the provider keeps under it.                     *)
(*  - PROJECTION_FENCING_SEQUENCE never repeats and a token is compared    *)
(*    only for equality: the next value is one that nobody holds.          *)
(*  - Deadlines are relative to true time, as in TaskStore; Past is also   *)
(*    the absent claim_expires_at.                                         *)
(*  - payload_digest is set with last_projected_task_version, and          *)
(*    last_error_code with a positive provider_failure_count.              *)
(***************************************************************************)
EXTENDS Integers, FiniteSets

CONSTANTS
    Workers,            \* claim owners
    Tokens,             \* fencing tokens
    InitialStates,      \* initial_state of the create command
    ClaimTtl,           \* projection_claim_ttl_seconds
    Delay,              \* a retry, recheck or poll delay
    MaxAttempts,        \* projection_provider_max_attempts
    ReadAttempts,       \* _PROJECTION_READ_ATTEMPTS
    Skew, ClockOf,      \* how far process clocks are off
    MaxVersion,         \* bound on the task version
    MaxFaults           \* bound on crashed coroutines and on claims that run out under a live one

Past == -Skew
NoOwner == "NoOwner"
NoToken == 0
Versions == 0 .. MaxVersion
NoVersion == -1
Forms == 0 .. 2
Messages == [version : Versions, form : Forms]
NoMessage == [version |-> NoVersion, form |-> 0]

ASSUME ProjectionAssumption ==
    /\ NoOwner \notin Workers
    /\ Tokens \subseteq Nat \ {NoToken}
    /\ IsFiniteSet(Tokens) /\ Cardinality(Tokens) > Cardinality(Workers)
    /\ InitialStates \subseteq {"PENDING_INITIAL", "WAITING_TERMINAL"}
    /\ ClaimTtl \in Nat \ {0} /\ Delay \in Nat \ {0} /\ MaxAttempts \in Nat \ {0}
    /\ ReadAttempts \in Nat \ {0} /\ Skew \in Nat
    /\ ClockOf \in [Workers -> -Skew .. Skew]
    /\ MaxVersion \in Nat /\ MaxFaults \in Nat

SettledStates == {"COMPLETED", "DEAD_LETTER"}
SendingStates == {"PENDING_INITIAL", "DELIVERING_TERMINAL"}
ProjectionStates == SettledStates \cup SendingStates \cup {"WAITING_TERMINAL"}

VARIABLES
    record,     \* the TaskRecord and whether project_task finds a plan for it
    sub,        \* the ProjectionSubscription row
    local,      \* each worker's coroutine
    cards,      \* the card of each message at the provider
    doubts,     \* sends whose outcome the database does not know
    abandons, stalls

vars == <<record, sub, local, cards, doubts, abandons, stalls>>

Deadlines == {d \in Int : d >= Past}

ProjectionSubscription ==
    [state : ProjectionStates, source_message_ref : Messages \cup {NoMessage},
     last_projected_task_version : Versions \cup {NoVersion},
     claim_owner : Workers \cup {NoOwner}, claim_expires_at : Deadlines,
     fencing_token : Tokens \cup {NoToken},
     next_attempt_at : Deadlines, provider_failure_count : Nat]

\* pc is where _process_due stands; the rest is what it has read and claimed.
Coroutine ==
    [pc : {"idle", "claim", "resolve", "get", "recheck", "project", "renew", "check",
           "deliver", "record", "failure"},
     state : ProjectionStates, message : Messages \cup {NoMessage}, failures : Nat,
     token : Tokens \cup {NoToken}, expires : Deadlines, version : Versions,
     terminal : BOOLEAN, form : Forms, tries : 0 .. ReadAttempts - 1, retryable : BOOLEAN]

Idle == [pc |-> "idle", state |-> "COMPLETED", message |-> NoMessage, failures |-> 0,
         token |-> NoToken, expires |-> Past, version |-> 0, terminal |-> FALSE,
         form |-> 0, tries |-> 0, retryable |-> FALSE]

Init ==
    /\ record = [version |-> 0, terminal |-> FALSE, planned |-> FALSE, bare |-> FALSE]
    /\ \E s \in InitialStates :
        sub = [state |-> s, source_message_ref |-> NoMessage,
               last_projected_task_version |-> NoVersion,
               claim_owner |-> NoOwner, claim_expires_at |-> Past,
               fencing_token |-> NoToken, next_attempt_at |-> Past,
               provider_failure_count |-> 0]
    /\ local = [w \in Workers |-> Idle]
    /\ cards = [m \in Messages |-> "none"]
    /\ doubts = 0 /\ abandons = 0 /\ stalls = 0

At(w, pc) == local[w].pc = pc
Become(w, l) == local' = [local EXCEPT ![w] = l]
Goto(w, pc) == Become(w, [local[w] EXCEPT !.pc = pc])
LocalOnly == UNCHANGED <<record, sub, cards, doubts, abandons, stalls>>
StoreOnly == UNCHANGED <<record, cards, doubts, abandons, stalls>>

-----------------------------------------------------------------------------
\* persistence/channel.py: the decisions on the locked subscription row.

\* Fault: a live claim does not keep others away.
Due_IgnoresClaim(now) ==
    sub.state \notin SettledStates /\ sub.next_attempt_at <= now

Due(now) ==
    /\ sub.state \notin SettledStates
    /\ sub.next_attempt_at <= now
    /\ ~(sub.claim_owner # NoOwner /\ sub.claim_expires_at > now)

Unheld == Tokens \ ({sub.fencing_token} \cup {local[w].token : w \in Workers})

\* claim_projection: a waiting row becomes a delivering one by the claim.
Claimed(w, token) ==
    [sub EXCEPT !.state = IF @ = "WAITING_TERMINAL" THEN "DELIVERING_TERMINAL" ELSE @,
                !.claim_owner = w, !.claim_expires_at = ClockOf[w] + ClaimTtl,
                !.fencing_token = token]

ClaimMatches(w) ==
    /\ sub.state = local[w].state
    /\ sub.claim_owner = w /\ sub.fencing_token = local[w].token
    /\ sub.claim_expires_at > ClockOf[w]

Released(s) == [s EXCEPT !.claim_owner = NoOwner, !.claim_expires_at = Past,
                         !.fencing_token = NoToken]

\* max(current.claim_expires_at, now + ttl): a claim is never shortened.
RenewedExpiry(w) ==
    IF sub.claim_expires_at > ClockOf[w] + ClaimTtl
    THEN sub.claim_expires_at ELSE ClockOf[w] + ClaimTtl

\* record_initial_projection and complete_projection
Delivered(w) ==
    LET shown == [sub EXCEPT !.source_message_ref = local[w].message,
                             !.last_projected_task_version = local[w].version]
    IN  Released(IF local[w].state = "PENDING_INITIAL"
                 THEN [shown EXCEPT
                         !.state = IF local[w].terminal THEN "COMPLETED"
                                   ELSE "WAITING_TERMINAL",
                         !.next_attempt_at = ClockOf[w] + Delay]
                 ELSE [shown EXCEPT !.state = "COMPLETED"])

Rechecked(w) ==
    Released([sub EXCEPT !.state = "WAITING_TERMINAL",
                         !.next_attempt_at = ClockOf[w] + Delay])

\* Fault: a retry is not charged.
Failed_Uncharged(w) ==
    Released(IF local[w].retryable /\ local[w].failures + 1 < MaxAttempts
             THEN [sub EXCEPT !.next_attempt_at = ClockOf[w] + Delay]
             ELSE [sub EXCEPT !.provider_failure_count = @ + 1, !.state = "DEAD_LETTER"])

\* _record_provider_failure: dead_letter_projection or schedule_provider_retry
Failed(w) ==
    LET charged == [sub EXCEPT !.provider_failure_count = @ + 1]
    IN  Released(IF local[w].retryable /\ local[w].failures + 1 < MaxAttempts
                 THEN [charged EXCEPT !.next_attempt_at = ClockOf[w] + Delay]
                 ELSE [charged EXCEPT !.state = "DEAD_LETTER"])

\* A mutation under the claim; a lost claim writes nothing.  Either way the
\* coroutine ends.
Mutate(w, winner) ==
    /\ sub' = IF ClaimMatches(w) THEN winner ELSE sub
    /\ Become(w, Idle)
    /\ StoreOnly

-----------------------------------------------------------------------------
\* ChannelProjectionService

\* poll_once: the row is listed in one read and claimed by a later command.
ListDue(w) ==
    /\ At(w, "idle") /\ Due(ClockOf[w])
    /\ Become(w, [Idle EXCEPT !.pc = "claim", !.state = sub.state])
    /\ LocalOnly

Claim(w) ==
    /\ At(w, "claim")
    /\ IF Due(ClockOf[w]) /\ sub.state = local[w].state
       THEN \E token \in Unheld :
              /\ \A t \in Unheld : token <= t
              /\ sub' = Claimed(w, token)
              /\ Become(w, [Idle EXCEPT !.pc = "resolve", !.state = sub'.state,
                              !.message = sub.source_message_ref,
                              !.failures = sub.provider_failure_count,
                              !.token = token, !.expires = sub'.claim_expires_at])
       ELSE sub' = sub /\ Become(w, Idle)
    /\ StoreOnly

\* resolve_claimed_task_lookup does not compare the state.
Resolve(w) ==
    /\ At(w, "resolve")
    /\ IF /\ sub.claim_owner = w /\ sub.fencing_token = local[w].token
          /\ sub.claim_expires_at > ClockOf[w]
       THEN Goto(w, "get") ELSE Become(w, Idle)
    /\ LocalOnly

\* What project_task would see if it ran at this moment.
FormNow == IF record.planned THEN 2 ELSE 0

\* Fault: the task's end is not waited for.
GetTask_NoRecheck(w) ==
    /\ At(w, "get")
    /\ Become(w, [local[w] EXCEPT !.pc = "project", !.version = record.version,
                                  !.terminal = record.terminal, !.form = FormNow])
    /\ LocalOnly

GetTask(w) ==
    /\ At(w, "get")
    /\ Become(w, [local[w] EXCEPT
                    !.pc = IF local[w].state = "DELIVERING_TERMINAL" /\ ~record.terminal
                           THEN "recheck" ELSE "project",
                    !.version = record.version, !.terminal = record.terminal,
                    !.form = FormNow])
    /\ LocalOnly

ScheduleTaskRecheck(w) == At(w, "recheck") /\ Mutate(w, Rechecked(w))

\* project_task raises where the end needs a plan and its second read has none.
Unrenderable(w, form) == local[w].terminal /\ ~record.bare /\ form = 0

\* _stable_card: the card counts only if the row did not move while it was
\* projected; otherwise it is projected again, a few times at most, and the
\* claim is left to run out.  A projection that raises stops the process.
\* The plan may have come meanwhile, before, between or after the reads of
\* it; a task that has not ended is read for its disclosure only.
StableCard(w) ==
    /\ At(w, "project")
    /\ \E form \in local[w].form .. FormNow :
        /\ ~local[w].terminal => form # 1
        /\ Become(w,
             IF Unrenderable(w, form) THEN Idle
             ELSE IF record.version = local[w].version
             THEN [local[w] EXCEPT !.pc = "renew", !.form = form]
             ELSE IF local[w].tries + 1 < ReadAttempts
             THEN [local[w] EXCEPT !.version = record.version,
                                   !.terminal = record.terminal, !.form = FormNow,
                                   !.tries = @ + 1]
             ELSE Idle)
    /\ LocalOnly

RenewProjectionClaim(w) ==
    /\ At(w, "renew")
    /\ IF ClaimMatches(w)
       THEN /\ sub' = [sub EXCEPT !.claim_expires_at = RenewedExpiry(w)]
            /\ Become(w, [local[w] EXCEPT !.pc = "check",
                                          !.expires = RenewedExpiry(w)])
       ELSE sub' = sub /\ Become(w, Idle)
    /\ StoreOnly

\* The renewed claim may have run out while the command returned.
CheckClaim(w) ==
    /\ At(w, "check")
    /\ IF local[w].expires > ClockOf[w] THEN Goto(w, "deliver") ELSE Become(w, Idle)
    /\ LocalOnly

CardOf(w) == IF local[w].terminal THEN "terminal" ELSE "running"

\* update_card on the recorded message; else a new card under its ref, which
\* the provider keeps once.
IdempotencyRef(w) == [version |-> local[w].version, form |-> local[w].form]

MessageOf(w) == IF local[w].message # NoMessage THEN local[w].message
                ELSE IdempotencyRef(w)

Shown(w) ==
    IF local[w].message # NoMessage \/ cards[IdempotencyRef(w)] = "none"
    THEN [cards EXCEPT ![MessageOf(w)] = CardOf(w)]
    ELSE cards

\* The provider shows the card and says so, or fails; a failure may come
\* from a call that was carried out all the same.
Deliver(w) ==
    /\ At(w, "deliver")
    /\ \/ /\ cards' = Shown(w)
          /\ Become(w, [local[w] EXCEPT !.pc = "record", !.message = MessageOf(w)])
          /\ UNCHANGED doubts
       \/ \E retryable \in BOOLEAN :
            /\ \/ UNCHANGED <<cards, doubts>>
               \/ cards' = Shown(w) /\ cards' # cards /\ doubts' = doubts + 1
            /\ Become(w, [local[w] EXCEPT !.pc = "failure", !.retryable = retryable])
    /\ UNCHANGED <<record, sub, abandons, stalls>>

RecordDelivery(w) == At(w, "record") /\ Mutate(w, Delivered(w))

RecordProviderFailure(w) == At(w, "failure") /\ Mutate(w, Failed(w))

-----------------------------------------------------------------------------
\* The task, crashes and time.

TaskMoves ==
    /\ ~record.terminal /\ record.version < MaxVersion
    /\ \E terminal, bare \in BOOLEAN :
        /\ bare => terminal
        /\ record' = [record EXCEPT !.version = @ + 1, !.terminal = terminal,
                                   !.bare = bare]
    /\ UNCHANGED <<sub, local, cards, doubts, abandons, stalls>>

\* PlanStore.save, before the end of the task or after it; no version tells.
PlanStored ==
    /\ ~record.planned
    /\ record' = [record EXCEPT !.planned = TRUE]
    /\ UNCHANGED <<sub, local, cards, doubts, abandons, stalls>>

\* A crash, or a fatal error that cancels the sibling coroutines.
Abandon(w) ==
    /\ ~At(w, "idle") /\ abandons + stalls < MaxFaults
    /\ abandons' = abandons + 1
    /\ Become(w, Idle)
    /\ UNCHANGED <<record, sub, cards, doubts, stalls>>

Closer(d) == IF d > Past THEN d - 1 ELSE d

\* The claim outlasts the provider timeout by configuration, so the claim of a
\* live coroutine runs out only if its process stalls or waits for a slot.
RunsOut ==
    \E w \in Workers : /\ ~At(w, "idle") /\ local[w].token # NoToken
                       /\ local[w].expires > ClockOf[w]
                       /\ local[w].expires - 1 <= ClockOf[w]

Tick ==
    /\ \/ ~RunsOut /\ UNCHANGED stalls
       \/ RunsOut /\ abandons + stalls < MaxFaults /\ stalls' = stalls + 1
    /\ sub' = [sub EXCEPT !.claim_expires_at = Closer(@), !.next_attempt_at = Closer(@)]
    /\ local' = [w \in Workers |-> [local[w] EXCEPT !.expires = Closer(@)]]
    /\ UNCHANGED <<record, cards, doubts, abandons>>

ProcessDue(w) ==
    \/ Claim(w) \/ Resolve(w) \/ GetTask(w) \/ ScheduleTaskRecheck(w) \/ StableCard(w)
    \/ RenewProjectionClaim(w) \/ CheckClaim(w) \/ Deliver(w) \/ RecordDelivery(w)
    \/ RecordProviderFailure(w)

Next ==
    \/ \E w \in Workers : ListDue(w) \/ ProcessDue(w) \/ Abandon(w)
    \/ TaskMoves \/ PlanStored
    \/ Tick

Spec == Init /\ [][Next]_vars

\* The poll loop keeps listing, the event loop runs what it started, and time
\* passes.  Nothing makes the task move, a plan come or a coroutine crash.
Fairness ==
    /\ \A w \in Workers : WF_vars(ListDue(w)) /\ WF_vars(ProcessDue(w))
    /\ WF_vars(Tick)

FairSpec == Spec /\ Fairness

-----------------------------------------------------------------------------
\* Properties.

TypeOK ==
    /\ record \in [version : Versions, terminal : BOOLEAN, planned : BOOLEAN, bare : BOOLEAN]
    /\ sub \in ProjectionSubscription
    /\ local \in [Workers -> Coroutine]
    /\ cards \in [Messages -> {"none", "running", "terminal"}]
    /\ {doubts, abandons, stalls} \subseteq Nat /\ abandons + stalls <= MaxFaults

\* Every row written can be read back through the validator of
\* ProjectionSubscription: the claim fields are set together, a settled row
\* keeps no claim, a completed one names its message and version, and a dead
\* letter was charged a failure.
SubscriptionDecodes ==
    /\ (sub.claim_owner # NoOwner) <=> (sub.fencing_token # NoToken)
    /\ sub.state \in SettledStates => sub.claim_owner = NoOwner
    /\ sub.state = "COMPLETED" => /\ sub.source_message_ref # NoMessage
                                  /\ sub.last_projected_task_version # NoVersion
    /\ sub.state = "DEAD_LETTER" => sub.provider_failure_count > 0

\* A completed subscription means that its message really shows the final
\* version of the terminal task, whatever stale coroutines did meanwhile.
CompletedShowsTerminal ==
    sub.state = "COMPLETED" =>
        /\ record.terminal /\ sub.last_projected_task_version = record.version
        /\ cards[sub.source_message_ref] = "terminal"

\* A message that shows the terminal card never shows a running one again.
CardNeverRegresses ==
    [][\A m \in Messages : cards[m] = "terminal" => cards'[m] = "terminal"]_vars

\* COMPLETED and DEAD_LETTER are final: no late event opens them again.
SettledIsFinal ==
    [][sub.state \in SettledStates =>
         /\ sub'.state = sub.state
         /\ sub'.source_message_ref = sub.source_message_ref
         /\ sub'.provider_failure_count = sub.provider_failure_count]_vars

\* The provider budget is spent by provider failures alone, never beyond its
\* limit: a row that reached the limit is a dead letter, and waiting for the
\* task costs nothing.
ProviderBudget ==
    /\ sub.provider_failure_count <= MaxAttempts
    /\ sub.provider_failure_count = MaxAttempts => sub.state = "DEAD_LETTER"

\* While claims do not run out under their coroutines, at most one coroutine
\* is between its last claim check and the write of the result.
SerialDelivery ==
    stalls = 0 => \A v, w \in Workers :
        (/\ local[v].pc \in {"deliver", "record", "failure"}
         /\ local[w].pc \in {"deliver", "record", "failure"}) => v = w

Sent == {m \in Messages : cards[m] # "none"}

\* A second message needs a crash, a stalled claim or a call whose answer was
\* lost: otherwise one subscription is one message.
DuplicatesAreAccountedFor ==
    Cardinality(Sent) <= 1 + abandons + stalls + doubts

\* Once the task has ended and its end can be rendered, by then or when its plan
\* comes late, the subscription is settled sooner or later, whatever claims ran
\* out and coroutines died.
NotificationSettles ==
    (record.terminal /\ (record.planned \/ record.bare)) ~> (sub.state \in SettledStates)

\* The channel's promise as documented: the final state is shown, or its
\* delivery is given up, however the task ended.
FinalStateIsShown == record.terminal ~> (sub.state \in SettledStates)

\* The row can be read back and tells the card: completed only when the terminal card of
\* the last version is the one shown.
SubscriptionIsSound == TypeOK /\ SubscriptionDecodes /\ CompletedShowsTerminal

\* What a user has been shown as final stays, and so does the row that says so.
FinalStays == CardNeverRegresses /\ SettledIsFinal

\* One coroutine delivers at a time while claims last, and every message beyond the first
\* has a crash, a stall or a lost answer behind it (claim_projection, _deliver).
DeliveriesAreAccountedFor == SerialDelivery /\ DuplicatesAreAccountedFor
=============================================================================
