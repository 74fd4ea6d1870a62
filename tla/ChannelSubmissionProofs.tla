---------------------- MODULE ChannelSubmissionProofs ----------------------
(***************************************************************************)
(* Proofs about ChannelSubmission, for any slots, sources, texts, parents  *)
(* and clocks.                                                             *)
(*                                                                         *)
(* The argument: a source claims one kind before anything else is written, *)
(* claims never change, and every later step of a handler is about the     *)
(* task of the claimed kind.  So all tasks, bindings and handlers of one   *)
(* source speak of one task, and the bind compares equals.                 *)
(***************************************************************************)
EXTENDS InMemorySubmission, TLAPS

\* A task has the kind its source claimed, and so has a handler past its
\* claim.
FollowsClaim ==
    /\ \A t \in TaskIds : Exists(t) => claims[t.source] = t.kind
    /\ \A s \in Slots : local[s].pc = "create" => claims[SourceOf[s]] = InputKind(s)

\* A handler past the creation has its task.
HasTask == \A s \in Slots : local[s].pc \in {"find", "bind"} => Exists(Own(s))

\* A binding is the one some slot would make for a task that exists.
BindingsFit ==
    \A b \in bindings : \E s \in Slots : b = BindingOf(s) /\ Exists(Own(s))

\* A question that was shown to the user who answers.
Shown(p, user) ==
    /\ UserOf[p.source] = user
    /\ \E b \in bindings : b.task = p /\ ChannelOf[b.source] = "web"

\* A handler past the access check answers such a question.
AccessChecked ==
    \A s \in Slots : ParentOf[s] # NoTask /\ local[s].pc \in {"claim", "create"} =>
        ParentOf[s] \in TaskIds /\ Shown(ParentOf[s], User(s))

\* Only an answer is checked for access.
AccessForAnswers ==
    \A s \in Slots : local[s].pc = "access" => ParentOf[s] # NoTask

\* The SQL a task works on was submitted with a task that exists.
SqlExists ==
    \A t \in TaskIds : Exists(t) /\ tasks[t].sql # NoTask =>
        tasks[t].sql \in TaskIds /\ Exists(tasks[t].sql)

Inv ==
    /\ TypeOK /\ FollowsClaim /\ HasTask /\ BindingsFit /\ CreatedIsBindable
    /\ AccessChecked /\ AccessForAnswers /\ AnswersAreLegitimate
    /\ SqlExists /\ SqlOutlivesAnswers

-----------------------------------------------------------------------------
(* Facts about the constants and the operators.                            *)

\* Every slot has a source, a user, a kind and a task of its own.
LEMMA SlotFacts ==
    ASSUME NEW s \in Slots
    PROVE  /\ SourceOf[s] \in Sources /\ TextOf[s] \in Texts
           /\ Channel(s) \in Channels /\ User(s) \in Users
           /\ ParentOf[s] \in TaskIds \cup {NoTask}
           /\ InputKind(s) \in Kinds /\ Own(s) \in TaskIds
           /\ Own(s).source = SourceOf[s] /\ Own(s).kind = InputKind(s)
           /\ BindingOf(s) \in Binding
           /\ ChatOf[s] \in Chats \cup {NoChat}
           /\ Ahead[s] \in Nat
BY SubmissionAssumption
   DEF Channel, User, InputKind, Kinds, Own, TaskIds, BindingOf, Binding

\* No task is the missing task.
LEMMA NoTaskIsNone == NoTask \notin TaskIds
BY SubmissionAssumption DEF NoTask, TaskIds

\* Going on to another step moves this handler only.
LEMMA GoMoves ==
    ASSUME TypeOK, NEW s \in Slots, NEW pc \in Pcs, Go(s, pc)
    PROVE  /\ local' \in [Slots -> Handler] /\ outcome' = outcome
           /\ local'[s].pc = pc
           /\ \A r \in Slots \ {s} : local'[r] = local[r]
BY DEF TypeOK, Go, Handler

\* Ending a delivery moves this handler only, and leaves its outcome.
LEMMA EndMoves ==
    ASSUME TypeOK, NEW s \in Slots, NEW o \in Outcomes, End(s, o)
    PROVE  /\ local' \in [Slots -> Handler] /\ outcome' \in [Slots -> Outcomes]
           /\ local'[s].pc = "idle" /\ outcome'[s] = o
           /\ \A r \in Slots \ {s} : local'[r] = local[r] /\ outcome'[r] = outcome[r]
BY DEF TypeOK, End, Handler, Pcs

\* What a step that goes on or ends does to the handlers.
Moved(s, pcs, os) ==
    /\ local' \in [Slots -> Handler] /\ outcome' \in [Slots -> Outcomes]
    /\ local'[s].pc \in pcs
    /\ outcome'[s] \in os \cup {outcome[s]}
    /\ \A r \in Slots \ {s} : local'[r] = local[r] /\ outcome'[r] = outcome[r]

\* After the creation the handler looks for the chat, binds, or fails.
LEMMA ProjectedMoves ==
    ASSUME TypeOK, NEW s \in Slots, NEW row, Projected(s, row)
    PROVE  Moved(s, {"find", "bind", "idle"}, {"failed"})
<1>1. CASE row.status = "ended" /\ ~row.renders
  <2>1. End(s, "failed")
    BY <1>1 DEF Projected
  <2>2. "failed" \in Outcomes
    BY DEF Outcomes
  <2> QED
    BY <2>1, <2>2, EndMoves DEF Moved
<1>2. CASE ~(row.status = "ended" /\ ~row.renders)
  <2>1. PICK pc \in {"find", "bind"} : Go(s, pc)
    BY <1>2 DEF Projected
  <2>2. pc \in Pcs
    BY DEF Pcs
  <2> QED
    BY <2>1, <2>2, GoMoves DEF Moved, TypeOK
<1> QED
  BY <1>1, <1>2

-----------------------------------------------------------------------------
(* The inductive step, by what a step writes.                              *)

\* A step of one handler that writes no task and no binding keeps the
\* invariant, if the handler only goes where it may.
LEMMA HandlerStep ==
    ASSUME Inv, NEW s \in Slots, UNCHANGED <<tasks, expires, bindings>>,
           claims' \in [Sources -> Kinds \cup {"none"}],
           \A r \in Sources : claims[r] # "none" => claims'[r] = claims[r],
           Moved(s, Pcs, Outcomes), outcome'[s] # "bind_conflict",
           subs' \subseteq Subscription, now' \in Nat, aborts' \in Nat,
           local'[s].pc = "create" => claims'[SourceOf[s]] = InputKind(s),
           local'[s].pc \in {"find", "bind"} => Exists(Own(s)),
           ParentOf[s] # NoTask /\ local'[s].pc \in {"claim", "create"}
             => Shown(ParentOf[s], User(s)),
           local'[s].pc = "access" => ParentOf[s] # NoTask
    PROVE  Inv'
<1>1. TypeOK'
  BY DEF Inv, TypeOK, Moved
<1>2. FollowsClaim'
  <2>1. \A t \in TaskIds : Exists(t)' => claims'[t.source] = t.kind
    BY DEF Inv, FollowsClaim, Exists, TaskIds, Kinds
  <2>2. ASSUME NEW r \in Slots, local'[r].pc = "create"
        PROVE  claims'[SourceOf[r]] = InputKind(r)
    <3>1. CASE r = s
      BY <3>1, <2>2
    <3>2. CASE r # s
      BY <3>2, <2>2, SlotFacts DEF Inv, FollowsClaim, Moved, Kinds
    <3> QED
      BY <3>1, <3>2
  <2>3. \A r \in Slots : InputKind(r)' = InputKind(r)
    BY DEF InputKind
  <2> QED
    BY <2>1, <2>2, <2>3 DEF FollowsClaim
<1>3. HasTask'
  BY DEF Inv, HasTask, Moved, Exists, Own, InputKind
<1>4. BindingsFit'
  BY DEF Inv, BindingsFit, BindingOf, Exists, Own, InputKind, Channel
<1>5. CreatedIsBindable'
  BY DEF Inv, CreatedIsBindable, Moved
<1>6. AccessChecked'
  BY SlotFacts DEF Inv, AccessChecked, Moved, Shown, User
<1>7. AccessForAnswers'
  BY DEF Inv, AccessForAnswers, Moved
<1>8. AnswersAreLegitimate'
  BY DEF Inv, AnswersAreLegitimate, Exists
<1>9. SqlExists' /\ SqlOutlivesAnswers'
  BY DEF Inv, SqlExists, SqlOutlivesAnswers, Exists
<1> QED
  BY <1>1, <1>2, <1>3, <1>4, <1>5, <1>6, <1>7, <1>8, <1>9 DEF Inv

\* The insert of a task keeps the invariant, if the SQL it takes over lives
\* long enough and the question it answers is free.
LEMMA InsertStep ==
    ASSUME Inv, NEW s \in Slots, local[s].pc = "create", ~Exists(Own(s)),
           NEW sql \in TaskIds \cup {NoTask}, Insert(s, sql),
           UNCHANGED <<claims, bindings, subs, now, aborts>>,
           expires' \in [TaskIds -> Nat],
           \A t \in TaskIds : Exists(t) => expires'[t] >= expires[t],
           sql # NoTask => /\ sql = Own(s) \/ Exists(sql)
                           /\ expires'[sql] >= Clock(s) + Ttl,
           ParentOf[s] # NoTask => ParentIsUsable(s) /\ ~Consumed(ParentOf[s])
    PROVE  Inv'
<1> DEFINE row == [status |-> "active", text |-> TextOf[s],
                   parent |-> ParentOf[s], sql |-> sql,
                   renders |-> TRUE, at |-> Clock(s)]
<1>1. tasks' = [tasks EXCEPT ![Own(s)] = row] /\ Projected(s, row)
  BY DEF Insert
<1>2. Moved(s, {"find", "bind", "idle"}, {"failed"})
  BY <1>1, ProjectedMoves DEF Inv
<1>3. Own(s) \in TaskIds /\ tasks \in [TaskIds -> TaskRow] /\ Clock(s) \in Nat
  BY SlotFacts DEF Inv, TypeOK, Clock
<1>4. row \in TaskRow
  BY <1>3, SlotFacts DEF TaskRow, Statuses
<1>5. /\ tasks'[Own(s)] = row
      /\ \A t \in TaskIds \ {Own(s)} : tasks'[t] = tasks[t]
  BY <1>1, <1>3
<1>6. /\ Exists(Own(s))'
      /\ \A t \in TaskIds \ {Own(s)} : Exists(t)' <=> Exists(t)
      /\ \A t \in TaskIds : Exists(t) => Exists(t)' /\ tasks'[t] = tasks[t]
  <2>1. Exists(Own(s))'
    BY <1>5 DEF Exists, Own, InputKind
  <2>2. \A t \in TaskIds \ {Own(s)} : Exists(t)' <=> Exists(t)
    BY <1>5 DEF Exists
  <2> QED
    BY <2>1, <2>2, <1>5, <1>3
<1>7. TypeOK'
  BY <1>1, <1>2, <1>3, <1>4 DEF Inv, TypeOK, Moved
<1>8. \A r \in Slots : Own(r)' = Own(r) /\ InputKind(r)' = InputKind(r)
                       /\ BindingOf(r)' = BindingOf(r)
  BY DEF Own, InputKind, BindingOf, Channel
<1>9. FollowsClaim'
  <2>1. ASSUME NEW t \in TaskIds, Exists(t)'
        PROVE  claims'[t.source] = t.kind
    <3>1. CASE t = Own(s)
      BY <3>1, SlotFacts DEF Inv, FollowsClaim
    <3>2. CASE t # Own(s)
      BY <3>2, <2>1, <1>6 DEF Inv, FollowsClaim
    <3> QED
      BY <3>1, <3>2
  <2>2. \A r \in Slots : local'[r].pc = "create" => claims'[SourceOf[r]] = InputKind(r)
    BY <1>2 DEF Inv, FollowsClaim, Moved
  <2> QED
    BY <2>1, <2>2, <1>8 DEF FollowsClaim
<1>10. HasTask'
  <2> SUFFICES ASSUME NEW r \in Slots, local'[r].pc \in {"find", "bind"}
               PROVE  Exists(Own(r))'
    BY <1>8 DEF HasTask
  <2>1. CASE r = s
    BY <2>1, <1>6
  <2>2. CASE r # s
    <3>1. Exists(Own(r))
      BY <2>2, <1>2 DEF Inv, HasTask, Moved
    <3>2. Exists(Own(r))' <=> tasks'[Own(r)].status # "absent"
      BY <1>8 DEF Exists
    <3>3. tasks'[Own(r)] = tasks[Own(r)]
      BY <3>1, <1>6, SlotFacts
    <3> QED
      BY <3>1, <3>2, <3>3 DEF Exists
  <2> QED
    BY <2>1, <2>2
<1>11. BindingsFit'
  <2> SUFFICES ASSUME NEW b \in bindings
               PROVE  \E r \in Slots : b = BindingOf(r) /\ tasks'[Own(r)].status # "absent"
    BY <1>8 DEF BindingsFit, Exists
  <2>1. PICK r \in Slots : b = BindingOf(r) /\ Exists(Own(r))
    BY DEF Inv, BindingsFit
  <2>2. tasks'[Own(r)] = tasks[Own(r)]
    BY <2>1, <1>6, SlotFacts
  <2> QED
    BY <2>1, <2>2 DEF Exists
<1>12. CreatedIsBindable'
  BY <1>2 DEF Inv, CreatedIsBindable, Moved
<1>13. AccessChecked' /\ AccessForAnswers'
  BY <1>2 DEF Inv, AccessChecked, AccessForAnswers, Moved, Shown, User
<1>14. AnswersAreLegitimate'
  <2> SUFFICES ASSUME NEW t \in TaskIds, Exists(t)', tasks'[t].parent # NoTask
               PROVE  LET p == tasks'[t].parent IN
                      /\ tasks'[p].status = "clarify"
                      /\ UserOf[p.source] = UserOf[t.source]
                      /\ \E b \in bindings : b.task = p /\ ChannelOf[b.source] = "web"
                      /\ \A u \in TaskIds : Exists(u)' /\ tasks'[u].parent = p => u = t
    BY DEF AnswersAreLegitimate
  <2>1. CASE t = Own(s)
    <3>1. tasks'[t].parent = ParentOf[s] /\ ParentOf[s] # NoTask
      BY <2>1, <1>5
    <3>2. /\ ParentOf[s] \in TaskIds /\ tasks[ParentOf[s]].status = "clarify"
          /\ UserOf[ParentOf[s].source] = User(s)
      BY <3>1, SlotFacts DEF ParentIsUsable
    <3>3. tasks'[ParentOf[s]].status = "clarify"
      BY <3>2, <1>6 DEF Exists
    <3>4. User(s) = UserOf[t.source]
      BY <2>1, SlotFacts DEF User
    <3>5. \E b \in bindings : b.task = ParentOf[s] /\ ChannelOf[b.source] = "web"
      BY <3>1 DEF Inv, AccessChecked, Shown
    <3>6. \A u \in TaskIds : Exists(u)' /\ tasks'[u].parent = ParentOf[s] => u = t
      BY <2>1, <3>1, <1>5, <1>6 DEF Consumed
    <3> QED
      BY <3>1, <3>2, <3>3, <3>4, <3>5, <3>6
  <2>2. CASE t # Own(s)
    <3>1. Exists(t) /\ tasks'[t] = tasks[t]
      BY <2>2, <1>5, <1>6
    <3> DEFINE p == tasks[t].parent
    <3>2. /\ tasks[p].status = "clarify"
          /\ UserOf[p.source] = UserOf[t.source]
          /\ \E b \in bindings : b.task = p /\ ChannelOf[b.source] = "web"
          /\ \A u \in TaskIds : Exists(u) /\ tasks[u].parent = p => u = t
      BY <3>1 DEF Inv, AnswersAreLegitimate
    <3>3. p \in TaskIds
      BY <3>1, <1>3 DEF TaskRow
    <3>4. tasks'[p] = tasks[p]
      BY <3>2, <3>3, <1>6 DEF Exists
    <3>5. ParentOf[s] # p
      BY <3>1, <3>3, NoTaskIsNone DEF Consumed
    <3>6. \A u \in TaskIds : Exists(u)' /\ tasks'[u].parent = p => u = t
      BY <3>2, <3>5, <1>5, <1>6
    <3> QED
      BY <3>1, <3>2, <3>4, <3>6
  <2> QED
    BY <2>1, <2>2
<1>15. SqlExists' /\ SqlOutlivesAnswers'
  <2> SUFFICES ASSUME NEW t \in TaskIds, Exists(t)', tasks'[t].sql # NoTask
               PROVE  /\ tasks'[t].sql \in TaskIds
                      /\ tasks'[tasks'[t].sql].status # "absent"
                      /\ expires'[tasks'[t].sql] >= tasks'[t].at + Ttl
    BY DEF SqlExists, SqlOutlivesAnswers, Exists
  <2>1. CASE t = Own(s)
    <3>1. tasks'[t].sql = sql /\ tasks'[t].at = Clock(s) /\ sql \in TaskIds
      BY <2>1, <1>5
    <3>2. tasks'[sql].status # "absent"
      BY <3>1, <1>5, <1>6 DEF Exists
    <3> QED
      BY <3>1, <3>2
  <2>2. CASE t # Own(s)
    <3>1. Exists(t) /\ tasks'[t] = tasks[t]
      BY <2>2, <1>5, <1>6
    <3> DEFINE q == tasks[t].sql
    <3>2. q \in TaskIds /\ Exists(q) /\ expires[q] >= tasks[t].at + Ttl
      BY <3>1 DEF Inv, SqlExists, SqlOutlivesAnswers
    <3>3. tasks'[q] = tasks[q] /\ expires'[q] >= expires[q]
      BY <3>2, <1>6
    <3>4. expires[q] \in Nat /\ expires'[q] \in Nat /\ tasks[t].at \in Nat /\ Ttl \in Nat
      BY <3>2, SubmissionAssumption DEF Inv, TypeOK, TaskRow
    <3>5. expires'[q] >= tasks[t].at + Ttl
      BY <3>2, <3>3, <3>4
    <3> QED
      BY <3>1, <3>2, <3>3, <3>5 DEF Exists
  <2> QED
    BY <2>1, <2>2
<1> QED
  BY <1>7, <1>9, <1>10, <1>11, <1>12, <1>13, <1>14, <1>15 DEF Inv

\* Whatever stands in the way of a bind is the binding it wants to make.
LEMMA CollidingIsOwn ==
    ASSUME Inv, NEW s \in Slots, local[s].pc = "bind"
    PROVE  Colliding(s) \subseteq {BindingOf(s)}
<1> SUFFICES ASSUME NEW b \in Colliding(s)
             PROVE  b = BindingOf(s)
  OBVIOUS
<1>1. b \in bindings /\ (b.task = Own(s) \/ b.source = SourceOf[s])
  BY DEF Colliding
<1>2. PICK r \in Slots : b = BindingOf(r) /\ Exists(Own(r))
  BY <1>1 DEF Inv, BindingsFit
<1>3. b.task = Own(r) /\ b.source = SourceOf[r]
  BY <1>2 DEF BindingOf
<1>4. SourceOf[r] = SourceOf[s]
  BY <1>1, <1>3, SlotFacts
<1>5. Exists(Own(s))
  BY DEF Inv, HasTask
<1>6. InputKind(r) = InputKind(s)
  BY <1>2, <1>4, <1>5, SlotFacts DEF Inv, FollowsClaim
<1>7. ChatOf[r] = ChatOf[s]
  BY <1>4, SubmissionAssumption
<1> QED
  BY <1>2, <1>4, <1>6, <1>7 DEF BindingOf, Own, Channel

\* The bind keeps the invariant.
LEMMA BindStep ==
    ASSUME Inv, NEW s \in Slots, BindTask(s)
    PROVE  Inv'
<1>1. local[s].pc = "bind" /\ UNCHANGED <<claims, tasks, expires, now, aborts>>
  BY DEF BindTask
<1>2. /\ bindings' = bindings \cup {BindingOf(s)}
      /\ subs' = subs \cup Projection(s)
      /\ End(s, "accepted")
  BY <1>1, CollidingIsOwn DEF BindTask
<1>3. Moved(s, {"idle"}, {"accepted"}) /\ outcome'[s] = "accepted"
  <2>1. "accepted" \in Outcomes
    BY DEF Outcomes
  <2> QED
    BY <1>2, <2>1, EndMoves DEF Inv, Moved
<1>4. Exists(Own(s))
  BY <1>1 DEF Inv, HasTask
<1>5. Projection(s) \subseteq Subscription
  <2>1. local[s].chat \in Chats \cup {NoChat}
    BY DEF Inv, TypeOK, Handler
  <2>2. Channel(s) # "web" => ChatOf[s] \in Chats
    BY SubmissionAssumption DEF Channel
  <2> QED
    BY <2>1, <2>2, SlotFacts DEF Projection, Subscription
<1>6. TypeOK'
  <2>1. bindings' \subseteq Binding /\ subs' \subseteq Subscription
    BY <1>2, <1>5, SlotFacts DEF Inv, TypeOK
  <2> QED
    BY <2>1, <1>1, <1>3 DEF Inv, TypeOK, Moved
<1>7. FollowsClaim' /\ HasTask'
  BY <1>1, <1>3 DEF Inv, FollowsClaim, HasTask, Moved, Exists, Own, InputKind
<1>8. BindingsFit'
  BY <1>1, <1>2, <1>4 DEF Inv, BindingsFit, BindingOf, Exists, Own, InputKind, Channel
<1>9. CreatedIsBindable'
  BY <1>3 DEF Inv, CreatedIsBindable, Moved
<1>10. AccessChecked' /\ AccessForAnswers'
  BY <1>2, <1>3 DEF Inv, AccessChecked, AccessForAnswers, Moved, Shown, User
<1>11. AnswersAreLegitimate'
  BY <1>1, <1>2 DEF Inv, AnswersAreLegitimate, Exists
<1>12. SqlExists' /\ SqlOutlivesAnswers'
  BY <1>1 DEF Inv, SqlExists, SqlOutlivesAnswers, Exists
<1> QED
  BY <1>6, <1>7, <1>8, <1>9, <1>10, <1>11, <1>12 DEF Inv

\* What happens to a task outside of the handlers changes only its status, from one
\* that was no question, and whether it has a view.
LEMMA TaskChanges ==
    ASSUME TypeOK, NEW t \in TaskIds, TaskEnds(t) \/ PlanComes(t)
    PROVE  /\ tasks[t].status \in {"active", "ended"}
           /\ \E status \in {"clarify", "ended"}, renders \in BOOLEAN :
                tasks' = [tasks EXCEPT ![t].status = status, ![t].renders = renders]
<1>1. CASE TaskEnds(t)
  BY <1>1 DEF TaskEnds
<1>2. CASE PlanComes(t)
  <2>1. tasks[t] \in TaskRow /\ tasks[t].status = "ended"
    BY <1>2 DEF TypeOK, PlanComes
  <2>2. [tasks[t] EXCEPT !.renders = TRUE]
          = [tasks[t] EXCEPT !.status = "ended", !.renders = TRUE]
    BY <2>1 DEF TaskRow
  <2>3. tasks' = [tasks EXCEPT ![t].status = "ended", ![t].renders = TRUE]
    BY <1>2, <2>2 DEF PlanComes, TypeOK
  <2> QED
    BY <2>1, <2>3
<1> QED
  BY <1>1, <1>2

\* The end of a task keeps the invariant: a question once asked stays.
LEMMA TaskEndsStep ==
    ASSUME Inv, NEW t \in TaskIds, TaskEnds(t) \/ PlanComes(t)
    PROVE  Inv'
<1>1. PICK status \in {"clarify", "ended"}, renders \in BOOLEAN :
        tasks' = [tasks EXCEPT ![t].status = status, ![t].renders = renders]
  BY TaskChanges DEF Inv
<1>2. tasks[t].status \in {"active", "ended"}
      /\ UNCHANGED <<claims, expires, bindings, subs, local, outcome, now, aborts>>
  BY TaskChanges DEF Inv, TaskEnds, PlanComes
<1>3. tasks \in [TaskIds -> TaskRow]
  BY DEF Inv, TypeOK
<1>4. /\ tasks' \in [TaskIds -> TaskRow]
      /\ \A u \in TaskIds \ {t} : tasks'[u] = tasks[u]
      /\ tasks'[t].status = status
      /\ \A u \in TaskIds : /\ tasks'[u].parent = tasks[u].parent
                            /\ tasks'[u].sql = tasks[u].sql
                            /\ tasks'[u].at = tasks[u].at
  <2> DEFINE new == [tasks[t] EXCEPT !.status = status, !.renders = renders]
  <2>1. tasks[t] \in TaskRow
    BY <1>3
  <2>2. /\ new \in TaskRow /\ new.status = status /\ new.parent = tasks[t].parent
        /\ new.sql = tasks[t].sql /\ new.at = tasks[t].at
    BY <2>1 DEF TaskRow, Statuses
  <2>3. tasks' = [tasks EXCEPT ![t] = new]
    BY <1>1, <1>3
  <2> HIDE DEF new
  <2>4. /\ tasks' \in [TaskIds -> TaskRow] /\ tasks'[t] = new
        /\ \A u \in TaskIds \ {t} : tasks'[u] = tasks[u]
    BY <2>2, <2>3, <1>3
  <2> QED
    BY <2>2, <2>4
<1>5. \A u \in TaskIds : tasks'[u].status # "absent" <=> tasks[u].status # "absent"
  BY <1>2, <1>4
<1>6. TypeOK'
  BY <1>2, <1>4 DEF Inv, TypeOK
<1>7. FollowsClaim' /\ HasTask'
  BY <1>2, <1>5, SlotFacts DEF Inv, FollowsClaim, HasTask, Exists, Own, InputKind
<1>8. BindingsFit'
  <2> SUFFICES ASSUME NEW b \in bindings
               PROVE  \E r \in Slots : b = BindingOf(r) /\ tasks'[Own(r)].status # "absent"
    BY <1>2 DEF BindingsFit, Exists, BindingOf, Own, InputKind, Channel
  <2>1. PICK r \in Slots : b = BindingOf(r) /\ Exists(Own(r))
    BY DEF Inv, BindingsFit
  <2> QED
    BY <2>1, <1>5, SlotFacts DEF Exists
<1>9. CreatedIsBindable' /\ AccessChecked' /\ AccessForAnswers'
  BY <1>2 DEF Inv, CreatedIsBindable, AccessChecked, AccessForAnswers, Shown, User
<1>10. AnswersAreLegitimate'
  <2> SUFFICES ASSUME NEW u \in TaskIds, tasks'[u].status # "absent",
                      tasks'[u].parent # NoTask
               PROVE  LET p == tasks'[u].parent IN
                      /\ tasks'[p].status = "clarify"
                      /\ UserOf[p.source] = UserOf[u.source]
                      /\ \E b \in bindings : b.task = p /\ ChannelOf[b.source] = "web"
                      /\ \A v \in TaskIds :
                            tasks'[v].status # "absent" /\ tasks'[v].parent = p => v = u
    BY <1>2 DEF AnswersAreLegitimate, Exists
  <2>1. tasks[u].status # "absent" /\ tasks[u].parent # NoTask
    BY <1>4, <1>5
  <2> DEFINE p == tasks[u].parent
  <2>2. /\ tasks[p].status = "clarify"
        /\ UserOf[p.source] = UserOf[u.source]
        /\ \E b \in bindings : b.task = p /\ ChannelOf[b.source] = "web"
        /\ \A v \in TaskIds :
              tasks[v].status # "absent" /\ tasks[v].parent = p => v = u
    BY <2>1 DEF Inv, AnswersAreLegitimate, Exists
  <2>3. p \in TaskIds
    BY <2>1, <1>3 DEF TaskRow
  <2>4. tasks'[p].status = "clarify"
    BY <2>2, <2>3, <1>2, <1>4
  <2> QED
    BY <2>2, <2>4, <1>4, <1>5
<1>11. SqlExists' /\ SqlOutlivesAnswers'
  BY <1>2, <1>4, <1>5 DEF Inv, SqlExists, SqlOutlivesAnswers, Exists
<1> QED
  BY <1>6, <1>7, <1>8, <1>9, <1>10, <1>11 DEF Inv

\* The end of a delivery that has written nothing keeps the invariant.
LEMMA EndStep ==
    ASSUME Inv, NEW s \in Slots, NEW o \in Outcomes \ {"bind_conflict"}, End(s, o),
           UNCHANGED <<claims, tasks, expires, bindings, subs, now, aborts>>
    PROVE  Inv'
<1>1. Moved(s, Pcs, Outcomes) /\ local'[s].pc = "idle" /\ outcome'[s] = o
  BY EndMoves DEF Inv, Moved, Pcs
<1>2. claims' \in [Sources -> Kinds \cup {"none"}] /\ subs' \subseteq Subscription
      /\ now' \in Nat /\ aborts' \in Nat
  BY DEF Inv, TypeOK
<1> QED
  BY <1>1, <1>2, HandlerStep

\* So does the answer to a request whose idempotency scope is taken.
LEMMA ReplayStep ==
    ASSUME Inv, NEW s \in Slots, Exists(Own(s)), ReplayOrConflict(s),
           UNCHANGED <<claims, bindings, subs, now, aborts>>
    PROVE  Inv'
<1>1. CASE SameRequest(s)
  <2>1. Projected(s, tasks[Own(s)]) /\ UNCHANGED <<tasks, expires>>
    BY <1>1 DEF ReplayOrConflict
  <2>2. Moved(s, {"find", "bind", "idle"}, {"failed"})
    BY <2>1, ProjectedMoves DEF Inv
  <2>3. outcome'[s] # "bind_conflict"
    BY <2>2 DEF Inv, Moved, CreatedIsBindable
  <2>4. Moved(s, Pcs, Outcomes)
    BY <2>2 DEF Moved, Pcs, Outcomes
  <2>5. claims' \in [Sources -> Kinds \cup {"none"}] /\ subs' \subseteq Subscription
        /\ now' \in Nat /\ aborts' \in Nat
    BY DEF Inv, TypeOK
  <2>6. local'[s].pc \in {"find", "bind", "idle"}
    BY <2>2 DEF Moved
  <2> QED
    BY <2>1, <2>3, <2>4, <2>5, <2>6, HandlerStep
<1>2. CASE ~SameRequest(s)
  BY <1>2, EndStep DEF ReplayOrConflict, Outcomes
<1> QED
  BY <1>1, <1>2

\* The creation of a task keeps the invariant, whichever way it was asked for.
LEMMA CreateStep ==
    ASSUME Inv, NEW s \in Slots,
           SubmitTask(s) \/ SubmitSqlQuery(s) \/ SubmitClarificationChild(s)
    PROVE  Inv'
<1> USE SlotFacts
<1>0. /\ local[s].pc = "create" /\ UNCHANGED <<claims, bindings, subs, now, aborts>>
      /\ expires \in [TaskIds -> Nat] /\ Clock(s) \in Nat /\ Ttl \in Nat
  BY SubmissionAssumption
     DEF Inv, TypeOK, Clock, SubmitTask, SubmitSqlQuery, SubmitClarificationChild
<1>1. CASE SubmitTask(s)
  <2>1. CASE Exists(Own(s))
    BY <1>0, <1>1, <2>1, ReplayStep DEF SubmitTask
  <2>2. CASE ~Exists(Own(s))
    <3>1. Insert(s, NoTask) /\ expires' = expires /\ ParentOf[s] = NoTask
      BY <1>1, <2>2 DEF SubmitTask
    <3>2. expires' \in [TaskIds -> Nat] /\ \A t \in TaskIds : expires'[t] >= expires[t]
      BY <1>0, <3>1
    <3> QED
      BY <1>0, <2>2, <3>1, <3>2, InsertStep
  <2> QED
    BY <2>1, <2>2
<1>2. CASE SubmitSqlQuery(s)
  <2>1. CASE Exists(Own(s))
    BY <1>0, <1>2, <2>1, ReplayStep DEF SubmitSqlQuery
  <2>2. CASE ~Exists(Own(s))
    <3>1. Insert(s, Own(s)) /\ expires' = [expires EXCEPT ![Own(s)] = Clock(s) + Ttl]
      BY <1>2, <2>2 DEF SubmitSqlQuery
    <3>2. /\ expires' \in [TaskIds -> Nat] /\ expires'[Own(s)] >= Clock(s) + Ttl
          /\ \A t \in TaskIds : Exists(t) => expires'[t] >= expires[t]
      <4>1. expires' \in [TaskIds -> Nat] /\ expires'[Own(s)] = Clock(s) + Ttl
            /\ \A t \in TaskIds \ {Own(s)} : expires'[t] = expires[t]
        BY <1>0, <3>1
      <4>2. \A t \in TaskIds : Exists(t) => t \in TaskIds \ {Own(s)}
        BY <2>2
      <4>3. \A t \in TaskIds : Exists(t) => expires'[t] = expires[t]
        BY <4>1, <4>2
      <4>4. \A t \in TaskIds : Exists(t) => expires'[t] >= expires[t]
        BY <4>3, <1>0
      <4> QED
        BY <4>1, <4>4, <1>0
    <3>3. ParentOf[s] = NoTask
      BY <1>2 DEF SubmitSqlQuery, InputKind
    <3> QED
      BY <1>0, <2>2, <3>1, <3>2, <3>3, InsertStep
  <2> QED
    BY <2>1, <2>2
<1>3. CASE SubmitClarificationChild(s)
  <2>1. CASE TextOf[s] \in SqlTexts
    BY <1>0, <1>3, <2>1, EndStep DEF SubmitClarificationChild, Outcomes
  <2>2. CASE TextOf[s] \notin SqlTexts /\ Exists(Own(s))
    BY <1>0, <1>3, <2>2, ReplayStep DEF SubmitClarificationChild
  <2>3. CASE TextOf[s] \notin SqlTexts /\ ~Exists(Own(s))
             /\ (~ParentIsUsable(s) \/ Consumed(ParentOf[s]))
    BY <1>0, <1>3, <2>3, EndStep DEF SubmitClarificationChild, Outcomes
  <2>4. CASE TextOf[s] \notin SqlTexts /\ ~Exists(Own(s))
             /\ ParentIsUsable(s) /\ ~Consumed(ParentOf[s])
    <3>1. Answer(s) /\ ParentOf[s] \in TaskIds
      BY <1>3, <2>4 DEF SubmitClarificationChild
    <3> DEFINE sql == tasks[ParentOf[s]].sql
    <3>2. sql \in TaskIds \cup {NoTask}
      BY <3>1 DEF Inv, TypeOK, TaskRow
    <3>3. sql # NoTask => sql \in TaskIds /\ Exists(sql)
      BY <3>1, <2>4 DEF Inv, SqlExists, Exists, ParentIsUsable
    <3>4. CASE sql # NoTask /\ expires[sql] <= Clock(s)
      BY <1>0, <3>1, <3>4, EndStep DEF Answer, Outcomes
    <3>5. CASE ~(sql # NoTask /\ expires[sql] <= Clock(s))
      <4>1. /\ Insert(s, sql)
            /\ expires' = IF sql = NoTask THEN expires
                          ELSE [expires EXCEPT ![sql] = ExtendedSqlExpiry(@, s)]
        BY <3>1, <3>5 DEF Answer
      <4>2. /\ expires' \in [TaskIds -> Nat]
            /\ \A t \in TaskIds : expires'[t] >= expires[t]
            /\ sql # NoTask => expires'[sql] >= Clock(s) + Ttl
        <5>1. CASE sql = NoTask
          BY <1>0, <4>1, <5>1
        <5>2. CASE sql # NoTask
          <6> DEFINE new == ExtendedSqlExpiry(expires[sql], s)
          <6>1. new \in Nat /\ new >= expires[sql] /\ new >= Clock(s) + Ttl
            BY <1>0, <3>3, <5>2 DEF ExtendedSqlExpiry
          <6>2. expires' = [expires EXCEPT ![sql] = new]
            BY <1>0, <4>1, <5>2
          <6> HIDE DEF new, sql
          <6> QED
            BY <1>0, <6>1, <6>2, <3>3, <5>2
        <5> QED
          BY <5>1, <5>2
      <4> HIDE DEF sql
      <4> QED
        BY <1>0, <2>4, <3>2, <3>3, <4>1, <4>2, InsertStep
    <3> QED
      BY <3>4, <3>5
  <2> QED
    BY <2>1, <2>2, <2>3, <2>4
<1> QED
  BY <1>1, <1>2, <1>3

\* The remaining steps of a handler keep the invariant.
LEMMA EarlyStep ==
    ASSUME Inv, NEW s \in Slots,
           \/ Submit(s) \/ RequireWebParentAccess(s) \/ ClaimSourceEvent(s)
           \/ FindPrivateChatRef(s) \/ Abort(s)
    PROVE  Inv'
<1> USE SlotFacts
<1>0. /\ local \in [Slots -> Handler] /\ outcome \in [Slots -> Outcomes]
      /\ claims \in [Sources -> Kinds \cup {"none"}] /\ subs \subseteq Subscription
      /\ now \in Nat /\ aborts \in Nat
  BY DEF Inv, TypeOK
<1>1. CASE Submit(s)
  <2>1. UNCHANGED <<claims, tasks, expires, bindings, subs, now, aborts>>
    BY <1>1 DEF Submit
  <2>2. /\ Moved(s, Pcs, Outcomes) /\ outcome'[s] # "bind_conflict"
        /\ local'[s].pc \in {"idle", "access", "claim"}
        /\ local'[s].pc = "access" => ParentOf[s] # NoTask
        /\ local'[s].pc = "claim" => ParentOf[s] = NoTask
    <3>1. PICK principal \in Principals :
            IF ~principal.permitted
            THEN /\ outcome' = [outcome EXCEPT ![s] = "forbidden"]
                 /\ local' = [local EXCEPT ![s] = Idle]
            ELSE /\ local' = [local EXCEPT ![s] =
                       [pc |-> IF ParentOf[s] = NoTask THEN "claim" ELSE "access",
                        admin |-> principal.admin /\ Channel(s) = "web",
                        chat |-> NoChat]]
                 /\ outcome' = [outcome EXCEPT ![s] = "none"]
      BY <1>1 DEF Submit
    <3>2. CASE ~principal.permitted
      <4>1. /\ outcome' = [outcome EXCEPT ![s] = "forbidden"]
            /\ local' = [local EXCEPT ![s] = Idle]
        BY <3>1, <3>2
      <4>2. Idle \in Handler /\ Idle.pc = "idle"
        BY DEF Idle, Handler, Pcs
      <4> QED
        BY <1>0, <4>1, <4>2 DEF Moved, Pcs, Outcomes
    <3>3. CASE principal.permitted
      <4> DEFINE new == [pc |-> IF ParentOf[s] = NoTask THEN "claim" ELSE "access",
                         admin |-> principal.admin /\ Channel(s) = "web",
                         chat |-> NoChat]
      <4>1. local' = [local EXCEPT ![s] = new] /\ outcome' = [outcome EXCEPT ![s] = "none"]
        BY <3>1, <3>3
      <4>2. (principal.admin /\ Channel(s) = "web") \in BOOLEAN
        OBVIOUS
      <4>3. new \in Handler /\ new.pc = IF ParentOf[s] = NoTask THEN "claim" ELSE "access"
        BY <4>2 DEF Handler, Pcs
      <4> HIDE DEF new
      <4> QED
        BY <1>0, <4>1, <4>3 DEF Moved, Handler, Pcs, Outcomes
    <3> QED
      BY <3>2, <3>3
  <2> QED
    BY <1>0, <2>1, <2>2, HandlerStep
<1>2. CASE RequireWebParentAccess(s)
  <2>0. UNCHANGED <<claims, tasks, expires, bindings, subs, now, aborts>>
    BY <1>2 DEF RequireWebParentAccess
  <2>1. CASE Go(s, "claim") /\ Shown(ParentOf[s], User(s))
    <3>1. Moved(s, Pcs, Outcomes) /\ local'[s].pc = "claim" /\ outcome' = outcome
      BY <1>0, <2>1, GoMoves DEF Inv, Moved, Pcs
    <3>2. outcome'[s] # "bind_conflict"
      BY <3>1 DEF Inv, CreatedIsBindable
    <3> QED
      BY <1>0, <2>0, <2>1, <3>1, <3>2, HandlerStep
  <2>2. CASE End(s, "not_found")
    BY <2>0, <2>2, EndStep DEF Outcomes
  <2> QED
    BY <1>2, <2>1, <2>2 DEF RequireWebParentAccess, Shown
<1>3. CASE ClaimSourceEvent(s)
  <2> DEFINE chosen == IF claims[SourceOf[s]] = "none" THEN InputKind(s)
                       ELSE claims[SourceOf[s]]
  <2>1. /\ local[s].pc = "claim" /\ claims' = [claims EXCEPT ![SourceOf[s]] = chosen]
        /\ IF chosen = InputKind(s) THEN Go(s, "create") ELSE End(s, "conflict")
        /\ UNCHANGED <<tasks, expires, bindings, subs, now, aborts>>
    BY <1>3 DEF ClaimSourceEvent
  <2>2. chosen \in Kinds \cup {"none"}
    BY <1>0
  <2>3. /\ claims' \in [Sources -> Kinds \cup {"none"}]
        /\ claims'[SourceOf[s]] = chosen
        /\ \A r \in Sources : claims[r] # "none" => claims'[r] = claims[r]
    BY <1>0, <2>1, <2>2
  <2>4. CASE chosen = InputKind(s)
    <3>1. Moved(s, Pcs, Outcomes) /\ local'[s].pc = "create" /\ outcome' = outcome
      BY <1>0, <2>1, <2>4, GoMoves DEF Inv, Moved, Pcs
    <3>2. outcome'[s] # "bind_conflict"
      BY <3>1 DEF Inv, CreatedIsBindable
    <3>3. ParentOf[s] # NoTask => Shown(ParentOf[s], User(s))
      BY <2>1 DEF Inv, AccessChecked
    <3> HIDE DEF chosen
    <3> QED
      BY <1>0, <2>1, <2>3, <2>4, <3>1, <3>2, <3>3, HandlerStep
  <2>5. CASE chosen # InputKind(s)
    <3>1. Moved(s, Pcs, Outcomes) /\ local'[s].pc = "idle" /\ outcome'[s] = "conflict"
      BY <2>1, <2>5, EndMoves DEF Inv, Moved, Pcs, Outcomes
    <3> HIDE DEF chosen
    <3> QED
      BY <1>0, <2>1, <2>3, <3>1, HandlerStep
  <2> QED
    BY <2>4, <2>5
<1>4. CASE FindPrivateChatRef(s)
  <2>1. /\ local[s].pc = "find"
        /\ UNCHANGED <<claims, tasks, expires, bindings, subs, outcome, now, aborts>>
    BY <1>4 DEF FindPrivateChatRef
  <2>2. PICK c \in Chats \cup {NoChat} :
           local' = [local EXCEPT ![s].pc = "bind", ![s].chat = c]
    <3>1. PrivateChats(User(s)) \subseteq Chats
      BY <1>0 DEF PrivateChats, Subscription
    <3> QED
      BY <1>4, <3>1 DEF FindPrivateChatRef
  <2>3. Moved(s, Pcs, Outcomes) /\ local'[s].pc = "bind"
    BY <1>0, <2>1, <2>2 DEF Moved, Handler, Pcs
  <2>4. Exists(Own(s)) /\ outcome'[s] # "bind_conflict"
    BY <2>1 DEF Inv, HasTask, CreatedIsBindable
  <2> QED
    BY <1>0, <2>1, <2>3, <2>4, HandlerStep
<1>5. CASE Abort(s)
  <2>1. /\ local' = [local EXCEPT ![s] = Idle] /\ aborts' = aborts + 1
        /\ UNCHANGED <<claims, tasks, expires, bindings, subs, outcome, now>>
    BY <1>5 DEF Abort
  <2>2. Moved(s, Pcs, Outcomes) /\ local'[s].pc = "idle" /\ aborts' \in Nat
    BY <1>0, <2>1 DEF Moved, Handler, Idle, Pcs
  <2>3. outcome'[s] # "bind_conflict"
    BY <2>1 DEF Inv, CreatedIsBindable
  <2> QED
    BY <1>0, <2>1, <2>2, <2>3, HandlerStep
<1> QED
  BY <1>1, <1>2, <1>3, <1>4, <1>5

\* A step that leaves everything but the time keeps the invariant.
LEMMA QuietStep ==
    ASSUME Inv, now' \in Nat,
           UNCHANGED <<claims, tasks, expires, bindings, subs, local, outcome, aborts>>
    PROVE  Inv'
<1>1. TypeOK'
  BY DEF Inv, TypeOK
<1>2. FollowsClaim' /\ HasTask' /\ CreatedIsBindable'
  BY DEF Inv, FollowsClaim, HasTask, CreatedIsBindable, Exists, Own, InputKind
<1>3. BindingsFit'
  BY DEF Inv, BindingsFit, BindingOf, Exists, Own, InputKind, Channel
<1>4. AccessChecked' /\ AccessForAnswers'
  BY DEF Inv, AccessChecked, AccessForAnswers, Shown, User
<1>5. AnswersAreLegitimate' /\ SqlExists' /\ SqlOutlivesAnswers'
  BY DEF Inv, AnswersAreLegitimate, SqlExists, SqlOutlivesAnswers, Exists
<1> QED
  BY <1>1, <1>2, <1>3, <1>4, <1>5 DEF Inv

\* The invariant holds at first.
LEMMA InitInv == Init => Inv
<1> SUFFICES ASSUME Init
             PROVE  Inv
  OBVIOUS
<1>1. TypeOK
  BY DEF Init, TypeOK, Absent, TaskRow, Statuses, Idle, Handler, Pcs, Outcomes
<1>2. \A t \in TaskIds : ~Exists(t)
  BY DEF Init, Exists, Absent
<1>3. \A s \in Slots : local[s].pc = "idle" /\ outcome[s] = "none"
  BY DEF Init, Idle
<1>4. bindings = {}
  BY DEF Init
<1> QED
  BY <1>1, <1>2, <1>3, <1>4
     DEF Inv, FollowsClaim, HasTask, BindingsFit, CreatedIsBindable, AccessChecked,
         AccessForAnswers, AnswersAreLegitimate, SqlExists, SqlOutlivesAnswers

\* Every step keeps the invariant.
LEMMA NextInv == Inv /\ [Next]_vars => Inv'
<1> SUFFICES ASSUME Inv, [Next]_vars
             PROVE  Inv'
  OBVIOUS
<1>1. CASE \E s \in Slots : \/ Submit(s) \/ RequireWebParentAccess(s)
                            \/ ClaimSourceEvent(s) \/ FindPrivateChatRef(s) \/ Abort(s)
  BY <1>1, EarlyStep
<1>2. CASE \E s \in Slots : \/ SubmitTask(s) \/ SubmitSqlQuery(s)
                            \/ SubmitClarificationChild(s)
  BY <1>2, CreateStep
<1>3. CASE \E s \in Slots : BindTask(s)
  BY <1>3, BindStep
<1>4. CASE \E t \in TaskIds : TaskEnds(t) \/ PlanComes(t)
  BY <1>4, TaskEndsStep
<1>5. CASE Tick
  <2>1. now' \in Nat
    BY <1>5 DEF Tick, Inv, TypeOK
  <2> QED
    BY <1>5, <2>1, QuietStep DEF Tick
<1>6. CASE UNCHANGED vars
  <2>1. now' \in Nat
    BY <1>6 DEF vars, Inv, TypeOK
  <2> QED
    BY <1>6, <2>1, QuietStep DEF vars
<1> QED
  BY <1>1, <1>2, <1>3, <1>4, <1>5, <1>6 DEF Next

\* The invariant holds in every reachable state of every instance.
THEOREM SubmissionInvariant == Spec => []Inv
BY InitInv, NextInv, PTL DEF Spec

-----------------------------------------------------------------------------
(* The results.                                                            *)

\* Every table and every handler keeps its shape.
THEOREM SubmissionTypeCorrect == Spec => []TypeOK
<1>1. Inv => TypeOK
  BY DEF Inv
<1> QED
  BY <1>1, SubmissionInvariant, PTL

\* The kind claimed by claim_source_event keeps a source to one task, although
\* conversations and SQL have separate idempotency scopes.
THEOREM SourcesHaveOneTask == Spec => []OneTaskPerSource
<1>1. Inv => OneTaskPerSource
  BY DEF Inv, FollowsClaim, OneTaskPerSource, TaskIds
<1> QED
  BY <1>1, SubmissionInvariant, PTL

\* bind_task never finds another task or another source in its way.
THEOREM BindsSucceed == Spec => []CreatedIsBindable
<1>1. Inv => CreatedIsBindable
  BY DEF Inv
<1> QED
  BY <1>1, SubmissionInvariant, PTL

\* create_clarification_child lets one task answer a question, and only one
\* of the user who was asked, on the web.
THEOREM OneLegitimateAnswer == Spec => []AnswersAreLegitimate
<1>1. Inv => AnswersAreLegitimate
  BY DEF Inv
<1> QED
  BY <1>1, SubmissionInvariant, PTL

\* _extend_selected_sql keeps the SQL for its time after each answer, for any
\* difference between the clocks of the processes.
THEOREM SqlIsKept == Spec => []SqlOutlivesAnswers
<1>1. Inv => SqlOutlivesAnswers
  BY DEF Inv
<1> QED
  BY <1>1, SubmissionInvariant, PTL

-----------------------------------------------------------------------------
(* Repeated answers.                                                       *)

\* A step leaves a handler alone, or is its own.
LEMMA OthersStay ==
    ASSUME Inv, NEW s \in Slots, Next,
           local'[s] # local[s] \/ outcome'[s] # outcome[s]
    PROVE  \/ Submit(s) \/ RequireWebParentAccess(s) \/ ClaimSourceEvent(s)
           \/ SubmitTask(s) \/ SubmitSqlQuery(s) \/ SubmitClarificationChild(s)
           \/ FindPrivateChatRef(s) \/ BindTask(s) \/ Abort(s)
<1> DEFINE Stays(r) == r # s => local'[s] = local[s] /\ outcome'[s] = outcome[s]
<1>0. local \in [Slots -> Handler] /\ outcome \in [Slots -> Outcomes]
  BY DEF Inv, TypeOK
<1>1. \A r \in Slots : (\E pc : Go(r, pc)) => Stays(r)
  BY <1>0 DEF Go
<1>2. \A r \in Slots : (\E o : End(r, o)) => Stays(r)
  BY <1>0 DEF End
<1>3. \A r \in Slots : (\E row : Projected(r, row)) => Stays(r)
  BY <1>1, <1>2 DEF Projected
<1>4. \A r \in Slots : Submit(r) => Stays(r)
  BY <1>0 DEF Submit
<1>5. \A r \in Slots : RequireWebParentAccess(r) => Stays(r)
  BY <1>1, <1>2 DEF RequireWebParentAccess
<1>6. \A r \in Slots : ClaimSourceEvent(r) => Stays(r)
  BY <1>1, <1>2 DEF ClaimSourceEvent
<1>7. \A r \in Slots : ReplayOrConflict(r) => Stays(r)
  BY <1>2, <1>3 DEF ReplayOrConflict
<1>8. \A r \in Slots : (\E q : Insert(r, q)) => Stays(r)
  BY <1>3 DEF Insert
<1>9. \A r \in Slots : SubmitTask(r) \/ SubmitSqlQuery(r) => Stays(r)
  BY <1>7, <1>8 DEF SubmitTask, SubmitSqlQuery
<1>10. \A r \in Slots : Answer(r) => Stays(r)
  BY <1>2, <1>8 DEF Answer
<1>11. \A r \in Slots : SubmitClarificationChild(r) => Stays(r)
  BY <1>2, <1>7, <1>10 DEF SubmitClarificationChild
<1>12. \A r \in Slots : FindPrivateChatRef(r) \/ Abort(r) => Stays(r)
  BY <1>0 DEF FindPrivateChatRef, Abort
<1>13. \A r \in Slots : BindTask(r) => Stays(r)
  BY <1>2 DEF BindTask
<1>14. ~Tick /\ \A t \in TaskIds : ~TaskEnds(t) /\ ~PlanComes(t)
  BY DEF Tick, TaskEnds, PlanComes
<1> QED
  BY <1>4, <1>5, <1>6, <1>9, <1>11, <1>12, <1>13, <1>14 DEF Next

\* create_clarification_child looks its own earlier insert up first, and the
\* access check still accepts the question that insert answered.
THEOREM RepeatedAnswersAreFound == Spec => RepeatedAnswerIsFound
<1> DEFINE A == \A s \in Slots :
        /\ local[s].pc \in {"access", "create"} /\ local'[s].pc = "idle"
        /\ Exists(Own(s)) /\ SameRequest(s) /\ aborts' = aborts
        => outcome'[s] # "not_found"
<1>1. Inv /\ [Next]_vars => [A]_vars
  <2> SUFFICES ASSUME Inv, Next, NEW s \in Slots,
                      local[s].pc \in {"access", "create"}, local'[s].pc = "idle",
                      Exists(Own(s)), SameRequest(s), aborts' = aborts
               PROVE  outcome'[s] # "not_found"
    OBVIOUS
  <2>1. \/ RequireWebParentAccess(s)
        \/ SubmitTask(s) \/ SubmitSqlQuery(s) \/ SubmitClarificationChild(s)
    <3>1. aborts \in Nat
      BY DEF Inv, TypeOK
    <3>2. ~Abort(s)
      BY <3>1 DEF Abort
    <3>3. ~Submit(s) /\ ~ClaimSourceEvent(s) /\ ~FindPrivateChatRef(s) /\ ~BindTask(s)
      BY DEF Submit, ClaimSourceEvent, FindPrivateChatRef, BindTask
    <3> QED
      BY <3>2, <3>3, OthersStay
  <2>2. CASE RequireWebParentAccess(s)
    <3> DEFINE p == ParentOf[s]
    <3>1. p # NoTask /\ tasks[Own(s)].parent = p
      BY <2>2 DEF Inv, AccessForAnswers, RequireWebParentAccess, SameRequest
    <3>2. /\ tasks[p].status = "clarify" /\ UserOf[p.source] = UserOf[Own(s).source]
          /\ \E b \in bindings : b.task = p /\ ChannelOf[b.source] = "web"
      BY <3>1, SlotFacts DEF Inv, AnswersAreLegitimate
    <3>3. UserOf[p.source] = User(s)
      BY <3>2, SlotFacts DEF User
    <3>4. \A b \in bindings : b.source = b.task.source
      BY SlotFacts DEF Inv, BindingsFit, BindingOf
    <3>5. Go(s, "claim")
      BY <2>2, <3>2, <3>3, <3>4 DEF RequireWebParentAccess
    <3>6. local'[s].pc = "claim"
      BY <3>5, GoMoves DEF Inv, Pcs
    <3> QED
      BY <3>6
  <2>3. CASE SubmitTask(s) \/ SubmitSqlQuery(s) \/ SubmitClarificationChild(s)
    <3>1. CASE ReplayOrConflict(s)
      <4>1. Projected(s, tasks[Own(s)])
        BY <3>1 DEF ReplayOrConflict
      <4>2. local'[s].pc = "idle" => End(s, "failed")
        <5>1. ~(End(s, "failed")) => \E pc \in {"find", "bind"} : Go(s, pc)
          BY <4>1 DEF Projected
        <5>2. \A pc \in {"find", "bind"} : Go(s, pc) => local'[s].pc = pc
          BY GoMoves DEF Inv, Pcs
        <5> QED
          BY <5>1, <5>2
      <4>3. outcome'[s] = "failed"
        BY <4>2, EndMoves DEF Inv, Outcomes
      <4> QED
        BY <4>3
    <3>2. CASE End(s, "refused")
      <4>1. outcome'[s] = "refused"
        BY <3>2, EndMoves DEF Inv, Outcomes
      <4> QED
        BY <4>1
    <3> QED
      BY <2>3, <3>1, <3>2 DEF SubmitTask, SubmitSqlQuery, SubmitClarificationChild
  <2> QED
    BY <2>1, <2>2, <2>3
<1> QED
  BY <1>1, SubmissionInvariant, PTL DEF Spec, RepeatedAnswerIsFound

-----------------------------------------------------------------------------
(* One destination.                                                        *)

\* The private chat of the user of a slot.
IsPrivateChat(s, c) ==
    \E r \in Slots : Channel(r) = "private" /\ User(r) = User(s) /\ c = ChatOf[r]

\* A chat that a handler found is the private chat of its user.
ChatsFit ==
    \A s \in Slots : local[s].chat # NoChat => IsPrivateChat(s, local[s].chat)

\* A card goes to the chat of its event, a notice to the private chat.
SubsFit ==
    \A d \in subs : \E s \in Slots :
        /\ d.task = Own(s)
        /\ IF Channel(s) = "web" THEN d.kind = "notice" /\ IsPrivateChat(s, d.chat)
           ELSE d.kind = "card" /\ d.chat = ChatOf[s]

\* What find_private_chat_ref finds is the private chat of the user.
LEMMA FoundChatsArePrivate ==
    ASSUME Inv, SubsFit, NEW s \in Slots, NEW c \in PrivateChats(User(s))
    PROVE  IsPrivateChat(s, c)
<1>1. PICK e \in subs : /\ e.kind = "card" /\ c = e.chat
                        /\ \E b \in bindings : /\ b.task = e.task
                                               /\ ChannelOf[b.source] = "private"
                                               /\ UserOf[b.source] = User(s)
  BY DEF PrivateChats
<1>2. PICK b \in bindings : /\ b.task = e.task
                            /\ ChannelOf[b.source] = "private"
                            /\ UserOf[b.source] = User(s)
  BY <1>1
<1>3. PICK r \in Slots : e.task = Own(r) /\ e.chat = ChatOf[r]
  BY <1>1 DEF SubsFit
<1>4. b.source = b.task.source
  BY SlotFacts DEF Inv, BindingsFit, BindingOf
<1>5. b.source = SourceOf[r]
  BY <1>2, <1>3, <1>4, SlotFacts
<1> QED
  BY <1>1, <1>2, <1>3, <1>5 DEF IsPrivateChat, Channel, User

\* Only the search for a chat gives a handler one.
LEMMA ChatsStay ==
    ASSUME Inv, NEW s \in Slots, Next, ~FindPrivateChatRef(s)
    PROVE  local'[s].chat \in {local[s].chat, NoChat}
<1>0. local \in [Slots -> Handler]
  BY DEF Inv, TypeOK
<1>1. (\E pc : Go(s, pc)) => local'[s].chat = local[s].chat
  BY <1>0 DEF Go, Handler
<1>2. (\E o : End(s, o)) => local'[s].chat = local[s].chat
  BY <1>0 DEF End, Handler
<1>3. (\E row : Projected(s, row)) => local'[s].chat = local[s].chat
  BY <1>1, <1>2 DEF Projected
<1>4. CASE Submit(s)
  BY <1>0, <1>4 DEF Submit, Idle
<1>5. CASE RequireWebParentAccess(s) \/ ClaimSourceEvent(s) \/ BindTask(s)
  BY <1>1, <1>2, <1>5 DEF RequireWebParentAccess, ClaimSourceEvent, BindTask
<1>6. CASE SubmitTask(s) \/ SubmitSqlQuery(s) \/ SubmitClarificationChild(s)
  BY <1>2, <1>3, <1>6
     DEF SubmitTask, SubmitSqlQuery, SubmitClarificationChild, ReplayOrConflict,
         Answer, Insert
<1>7. CASE Abort(s)
  BY <1>0, <1>7 DEF Abort, Idle
<1>8. CASE local'[s] = local[s]
  BY <1>8
<1> QED
  BY <1>4, <1>5, <1>6, <1>7, <1>8, OthersStay

\* Every step keeps chats and subscriptions in their places.
LEMMA PlacesStep ==
    ASSUME Inv, ChatsFit, SubsFit, [Next]_vars
    PROVE  ChatsFit' /\ SubsFit'
<1>1. \A r \in Slots : /\ Own(r)' = Own(r) /\ Channel(r)' = Channel(r)
                       /\ \A c : IsPrivateChat(r, c)' <=> IsPrivateChat(r, c)
  BY DEF Own, InputKind, Channel, User, IsPrivateChat
<1>2. CASE UNCHANGED vars
  BY <1>1, <1>2 DEF vars, ChatsFit, SubsFit
<1>3. CASE Next
  <2>1. ASSUME NEW s \in Slots, local'[s].chat # NoChat
        PROVE  IsPrivateChat(s, local'[s].chat)
    <3>1. CASE FindPrivateChatRef(s)
      <4>1. local'[s].chat \in PrivateChats(User(s)) \cup {NoChat}
        <5>1. PICK c \in PrivateChats(User(s)) \cup {NoChat} :
                 local' = [local EXCEPT ![s].pc = "bind", ![s].chat = c]
          BY <3>1 DEF FindPrivateChatRef
        <5> QED
          BY <5>1 DEF Inv, TypeOK, Handler
      <4> QED
        BY <4>1, <2>1, FoundChatsArePrivate
    <3>2. CASE ~FindPrivateChatRef(s)
      BY <1>3, <3>2, <2>1, ChatsStay DEF ChatsFit
    <3> QED
      BY <3>1, <3>2
  <2>2. ASSUME NEW s \in Slots, BindTask(s), NEW d \in subs' \ subs
        PROVE  /\ d.task = Own(s)
               /\ IF Channel(s) = "web" THEN d.kind = "notice" /\ IsPrivateChat(s, d.chat)
                  ELSE d.kind = "card" /\ d.chat = ChatOf[s]
    <3>1. d \in Projection(s)
      BY <2>2 DEF BindTask
    <3> QED
      BY <3>1 DEF Projection, ChatsFit
  <2>3. subs' = subs \/ \E s \in Slots : BindTask(s)
    BY <1>3 DEF Next, Submit, RequireWebParentAccess, ClaimSourceEvent, SubmitTask,
       SubmitSqlQuery, SubmitClarificationChild, FindPrivateChatRef, Abort, TaskEnds, PlanComes,
       Tick
  <2>4. SubsFit'
    <3> SUFFICES ASSUME NEW d \in subs'
                 PROVE  \E s \in Slots :
                          /\ d.task = Own(s)
                          /\ IF Channel(s) = "web"
                             THEN d.kind = "notice" /\ IsPrivateChat(s, d.chat)
                             ELSE d.kind = "card" /\ d.chat = ChatOf[s]
      BY <1>1 DEF SubsFit
    <3> QED
      BY <2>2, <2>3 DEF SubsFit
  <2> QED
    BY <1>1, <2>1, <2>4 DEF ChatsFit
<1> QED
  BY <1>2, <1>3

\* A user has one private chat, so the places of one task are the same.
LEMMA PlacesAreOne ==
    ASSUME Inv, SubsFit
    PROVE  OneDestination
<1> SUFFICES ASSUME NEW d \in subs, NEW e \in subs, d.task = e.task
             PROVE  d = e
  BY DEF OneDestination
<1>1. PICK r \in Slots :
        /\ d.task = Own(r)
        /\ IF Channel(r) = "web" THEN d.kind = "notice" /\ IsPrivateChat(r, d.chat)
           ELSE d.kind = "card" /\ d.chat = ChatOf[r]
  BY DEF SubsFit
<1>2. PICK s \in Slots :
        /\ e.task = Own(s)
        /\ IF Channel(s) = "web" THEN e.kind = "notice" /\ IsPrivateChat(s, e.chat)
           ELSE e.kind = "card" /\ e.chat = ChatOf[s]
  BY DEF SubsFit
<1>3. SourceOf[r] = SourceOf[s]
  BY <1>1, <1>2, SlotFacts
<1>4. Channel(r) = Channel(s) /\ User(r) = User(s) /\ ChatOf[r] = ChatOf[s]
  BY <1>3, SubmissionAssumption DEF Channel, User
<1>5. d.kind = e.kind /\ d.chat = e.chat
  BY <1>1, <1>2, <1>4, SubmissionAssumption DEF IsPrivateChat, Channel, User
<1> QED
  BY <1>5 DEF Inv, TypeOK, Subscription

\* bind_task subscribes one place for a task, however often and through
\* however many processes its message was delivered.
THEOREM TasksHaveOneDestination == Spec => []OneDestination
<1>1. Init => ChatsFit /\ SubsFit
  BY DEF Init, ChatsFit, SubsFit, Idle
<1>2. Inv /\ ChatsFit /\ SubsFit /\ [Next]_vars => ChatsFit' /\ SubsFit'
  BY PlacesStep
<1>3. Inv /\ SubsFit => OneDestination
  BY PlacesAreOne
<1> QED
  BY <1>1, <1>2, <1>3, SubmissionInvariant, PTL DEF Spec

\* A source has one task, which can be bound and is answered in one place.
THEOREM SourcesHaveOnePlace == Spec => []OneTaskOnePlace
BY SubmissionTypeCorrect, SourcesHaveOneTask, BindsSucceed, TasksHaveOneDestination, PTL
   DEF OneTaskOnePlace

\* A question has one legitimate answer, and its repetition finds it.
THEOREM AnswersSettle == Spec => AnswersAreSettled
BY OneLegitimateAnswer, RepeatedAnswersAreFound DEF AnswersAreSettled
-----------------------------------------------------------------------------
(* Deliveries that agree.                                                  *)

\* A claim was made for a slot of its source.
ClaimsFit ==
    \A r \in Sources : claims[r] # "none" =>
        \E s \in Slots : SourceOf[s] = r /\ InputKind(s) = claims[r]

\* A task is the request of some slot.
TasksFit ==
    \A t \in TaskIds : Exists(t) => \E s \in Slots : t = Own(s) /\ SameRequest(s)

\* Slots of one source that ask for the same.
Agree(s) ==
    \A r \in Slots : SourceOf[r] = SourceOf[s] =>
        TextOf[r] = TextOf[s] /\ ParentOf[r] = ParentOf[s]

\* Only claim_source_event writes a claim, and it writes the kind of its slot.
LEMMA ClaimsFitStep ==
    ASSUME Inv, ClaimsFit, [Next]_vars
    PROVE  ClaimsFit'
<1>1. \A s \in Slots : InputKind(s)' = InputKind(s)
  BY DEF InputKind
<1>2. CASE claims' = claims
  BY <1>1, <1>2 DEF ClaimsFit
<1>3. CASE \E s \in Slots : ClaimSourceEvent(s)
  <2>1. PICK s \in Slots : ClaimSourceEvent(s)
    BY <1>3
  <2>2. claims' = [claims EXCEPT ![SourceOf[s]] =
                     IF claims[SourceOf[s]] = "none" THEN InputKind(s)
                     ELSE claims[SourceOf[s]]]
    BY <2>1 DEF ClaimSourceEvent
  <2>3. \A r \in Sources : claims'[r] = claims[r] \/ (r = SourceOf[s] /\ claims'[r] = InputKind(s))
    BY <2>2 DEF Inv, TypeOK
  <2> QED
    BY <1>1, <2>3 DEF ClaimsFit
<1> QED
  BY <1>2, <1>3
     DEF Next, vars, Submit, RequireWebParentAccess, SubmitTask, SubmitSqlQuery,
         SubmitClarificationChild, FindPrivateChatRef, BindTask, Abort, TaskEnds, PlanComes,
       Tick

\* A task is inserted with the request of its slot and keeps it when it ends.
LEMMA TasksFitStep ==
    ASSUME Inv, TasksFit, [Next]_vars
    PROVE  TasksFit'
<1>0. tasks \in [TaskIds -> TaskRow]
  BY DEF Inv, TypeOK
<1>1. \A s \in Slots : Own(s)' = Own(s)
  BY DEF Own, InputKind
<1>2. CASE tasks' = tasks
  BY <1>1, <1>2 DEF TasksFit, Exists, SameRequest
<1>3. CASE \E s \in Slots : \E sql : Insert(s, sql)
  <2>1. PICK s, sql : s \in Slots /\ Insert(s, sql)
    BY <1>3
  <2>s. s \in Slots
    BY <2>1
  <2>2. Own(s) \in TaskIds
    BY <2>s, SlotFacts
  <2>3. /\ tasks'[Own(s)].text = TextOf[s] /\ tasks'[Own(s)].parent = ParentOf[s]
        /\ \A t \in TaskIds \ {Own(s)} : tasks'[t] = tasks[t]
    BY <1>0, <2>1, <2>2 DEF Insert
  <2> SUFFICES ASSUME NEW t \in TaskIds, Exists(t)'
               PROVE  \E r \in Slots : t = Own(r) /\ tasks'[Own(r)].text = TextOf[r]
                                       /\ tasks'[Own(r)].parent = ParentOf[r]
    BY <1>1 DEF TasksFit, SameRequest
  <2>4. CASE t = Own(s)
    BY <2>s, <2>3, <2>4
  <2>5. CASE t # Own(s)
    <3>1. tasks'[t] = tasks[t]
      BY <2>3, <2>5
    <3> QED
      BY <3>1 DEF TasksFit, Exists, SameRequest
  <2> QED
    BY <2>4, <2>5
<1>4. CASE \E t \in TaskIds : TaskEnds(t) \/ PlanComes(t)
  <2>1. PICK t \in TaskIds, status \in {"clarify", "ended"}, renders \in BOOLEAN :
           /\ tasks[t].status # "absent"
           /\ tasks' = [tasks EXCEPT ![t].status = status, ![t].renders = renders]
    BY <1>4, TaskChanges DEF Inv
  <2>2. \A u \in TaskIds : /\ tasks'[u].text = tasks[u].text
                           /\ tasks'[u].parent = tasks[u].parent
                           /\ tasks'[u].status # "absent" => tasks[u].status # "absent"
    BY <1>0, <2>1 DEF TaskRow
  <2> QED
    BY <1>1, <2>2, SlotFacts DEF TasksFit, Exists, SameRequest
<1> QED
  BY <1>2, <1>3, <1>4
     DEF Next, vars, Submit, RequireWebParentAccess, ClaimSourceEvent, SubmitTask,
         SubmitSqlQuery, SubmitClarificationChild, Answer, ReplayOrConflict,
         FindPrivateChatRef, BindTask, Abort, Tick

\* A slot whose source carries one request meets only its own claim and task.
LEMMA AgreementStep ==
    ASSUME Inv, ClaimsFit, TasksFit, RedeliveryNeverConflicts, [Next]_vars
    PROVE  RedeliveryNeverConflicts'
<1> SUFFICES ASSUME NEW s \in Slots, Agree(s), outcome'[s] = "conflict",
                    outcome[s] # "conflict", Next
             PROVE  FALSE
  BY DEF RedeliveryNeverConflicts, Agree, vars
<1>0. /\ local \in [Slots -> Handler] /\ outcome \in [Slots -> Outcomes]
      /\ SourceOf[s] \in Sources /\ Own(s) \in TaskIds
  BY SlotFacts DEF Inv, TypeOK
<1>1. \A pc : ~Go(s, pc)
  BY DEF Go
<1>2. \A o : End(s, o) => o = "conflict"
  BY <1>0 DEF End
<1>3. \A row : ~Projected(s, row)
  BY <1>1, <1>2 DEF Projected
<1>4. ~ClaimSourceEvent(s)
  <2> SUFFICES ASSUME ClaimSourceEvent(s)
               PROVE  FALSE
    OBVIOUS
  <2>1. claims[SourceOf[s]] # "none" /\ claims[SourceOf[s]] # InputKind(s)
    BY <1>1 DEF ClaimSourceEvent
  <2>2. PICK r \in Slots : SourceOf[r] = SourceOf[s] /\ InputKind(r) = claims[SourceOf[s]]
    BY <1>0, <2>1 DEF ClaimsFit
  <2> QED
    BY <2>1, <2>2 DEF Agree, InputKind
<1>5. Exists(Own(s)) => ~ReplayOrConflict(s)
  <2> SUFFICES ASSUME Exists(Own(s)), ReplayOrConflict(s)
               PROVE  FALSE
    OBVIOUS
  <2>1. ~SameRequest(s)
    BY <1>3 DEF ReplayOrConflict
  <2>2. PICK r \in Slots : Own(s) = Own(r) /\ SameRequest(r)
    BY <1>0 DEF TasksFit
  <2>3. SourceOf[r] = SourceOf[s]
    BY <2>2, SlotFacts
  <2> QED
    BY <2>1, <2>2, <2>3 DEF Agree, SameRequest
<1>6. \A sql : ~Insert(s, sql)
  BY <1>3 DEF Insert
<1>7. ~SubmitTask(s) /\ ~SubmitSqlQuery(s) /\ ~SubmitClarificationChild(s)
  BY <1>2, <1>5, <1>6 DEF SubmitTask, SubmitSqlQuery, SubmitClarificationChild, Answer
<1>8. ~Submit(s)
  BY <1>0 DEF Submit
<1>9. ~RequireWebParentAccess(s) /\ ~BindTask(s)
  BY <1>1, <1>2 DEF RequireWebParentAccess, BindTask
<1>10. ~FindPrivateChatRef(s) /\ ~Abort(s)
  BY DEF FindPrivateChatRef, Abort
<1> QED
  BY <1>4, <1>7, <1>8, <1>9, <1>10, OthersStay

\* A source that carries one request is never told "conflict", whatever died
\* between claim_source_event, the creation and bind_task, and however many
\* processes deliver it.
THEOREM RedeliveriesAgree == Spec => []RedeliveryNeverConflicts
<1>1. Init => ClaimsFit /\ TasksFit /\ RedeliveryNeverConflicts
  BY DEF Init, ClaimsFit, TasksFit, RedeliveryNeverConflicts, Exists, Absent
<1>2. Inv /\ ClaimsFit /\ TasksFit /\ RedeliveryNeverConflicts /\ [Next]_vars
        => ClaimsFit' /\ TasksFit' /\ RedeliveryNeverConflicts'
  BY ClaimsFitStep, TasksFitStep, AgreementStep
<1> QED
  BY <1>1, <1>2, SubmissionInvariant, PTL DEF Spec

-----------------------------------------------------------------------------
(* Accepted messages.                                                      *)

\* A delivery that runs has no outcome yet.
RunningIsOpen == \A s \in Slots : local[s].pc # "idle" => outcome[s] = "none"

\* Bindings and subscriptions are never taken back.
LEMMA RowsStay ==
    ASSUME Inv, [Next]_vars
    PROVE  bindings \subseteq bindings' /\ subs \subseteq subs'
BY DEF Next, vars, Submit, RequireWebParentAccess, ClaimSourceEvent, SubmitTask,
       SubmitSqlQuery, SubmitClarificationChild, FindPrivateChatRef, BindTask, Abort,
       TaskEnds, PlanComes, Tick

\* A step of a slot that does not bind leaves it running, or ends it with
\* another outcome than "accepted".
LEMMA OnlyBindAccepts ==
    ASSUME Inv, RunningIsOpen, NEW s \in Slots,
           \/ Submit(s) \/ RequireWebParentAccess(s) \/ ClaimSourceEvent(s)
           \/ SubmitTask(s) \/ SubmitSqlQuery(s) \/ SubmitClarificationChild(s)
           \/ FindPrivateChatRef(s) \/ Abort(s)
    PROVE  /\ local'[s].pc # "idle" => outcome'[s] = "none"
           /\ outcome'[s] # "accepted"
<1>0. local \in [Slots -> Handler] /\ outcome \in [Slots -> Outcomes]
  BY DEF Inv, TypeOK
<1> DEFINE Fine == /\ local'[s].pc # "idle" => outcome'[s] = "none"
                   /\ outcome'[s] # "accepted"
<1>1. local[s].pc # "idle" => \A pc : Go(s, pc) => Fine
  BY <1>0 DEF Go, RunningIsOpen
<1>2. \A o : End(s, o) /\ o # "accepted" => Fine
  BY <1>0 DEF End, Handler
<1>3. local[s].pc # "idle" => \A row : Projected(s, row) => Fine
  BY <1>1, <1>2 DEF Projected
<1>4. CASE Submit(s)
  <2>1. PICK principal \in Principals :
          IF ~principal.permitted
          THEN /\ outcome' = [outcome EXCEPT ![s] = "forbidden"]
               /\ local' = [local EXCEPT ![s] = Idle]
          ELSE outcome' = [outcome EXCEPT ![s] = "none"]
    BY <1>4 DEF Submit
  <2> QED
    BY <1>0, <2>1 DEF Idle
<1>5. CASE RequireWebParentAccess(s) \/ ClaimSourceEvent(s)
  BY <1>1, <1>2, <1>5 DEF RequireWebParentAccess, ClaimSourceEvent
<1>6. CASE SubmitTask(s) \/ SubmitSqlQuery(s) \/ SubmitClarificationChild(s)
  <2>1. local[s].pc # "idle"
    BY <1>6 DEF SubmitTask, SubmitSqlQuery, SubmitClarificationChild
  <2>2. ReplayOrConflict(s) => Fine
    BY <2>1, <1>2, <1>3 DEF ReplayOrConflict
  <2>3. \A sql : Insert(s, sql) => Fine
    BY <2>1, <1>3 DEF Insert
  <2>4. Answer(s) => Fine
    BY <2>3, <1>2 DEF Answer
  <2> QED
    BY <1>2, <1>6, <2>2, <2>3, <2>4
       DEF SubmitTask, SubmitSqlQuery, SubmitClarificationChild
<1>7. CASE FindPrivateChatRef(s) \/ Abort(s)
  BY <1>7 DEF FindPrivateChatRef, Abort, RunningIsOpen
<1> QED
  BY <1>4, <1>5, <1>6, <1>7

\* The bind accepts with the binding and the subscription it has made.
LEMMA BindAnswers ==
    ASSUME Inv, NEW s \in Slots, BindTask(s)
    PROVE  /\ local'[s].pc = "idle"
           /\ (BindingOf(s) \in bindings)' /\ (Projection(s) \subseteq subs)'
<1>1. /\ bindings' = bindings \cup {BindingOf(s)}
      /\ subs' = subs \cup Projection(s)
      /\ local' = [local EXCEPT ![s].pc = "idle", ![s].admin = FALSE]
  BY CollidingIsOwn DEF BindTask, End
<1>2. local'[s].pc = "idle" /\ local'[s].chat = local[s].chat
  BY <1>1 DEF Inv, TypeOK, Handler
<1>3. BindingOf(s)' = BindingOf(s) /\ Projection(s)' = Projection(s)
  BY <1>2 DEF BindingOf, Projection, Own, InputKind, Channel
<1> QED
  BY <1>1, <1>2, <1>3

\* Every step keeps the place of every accepted message.
LEMMA AcceptedStep ==
    ASSUME Inv, RunningIsOpen, AcceptedIsAnswerable, [Next]_vars
    PROVE  RunningIsOpen' /\ AcceptedIsAnswerable'
<1> SUFFICES ASSUME NEW s \in Slots
             PROVE  /\ local'[s].pc # "idle" => outcome'[s] = "none"
                    /\ local'[s].pc = "idle" /\ outcome'[s] = "accepted" =>
                         (BindingOf(s) \in bindings)' /\ (Projection(s) \subseteq subs)'
  BY DEF RunningIsOpen, AcceptedIsAnswerable
<1>1. CASE local'[s] = local[s] /\ outcome'[s] = outcome[s]
  <2>1. BindingOf(s)' = BindingOf(s) /\ Projection(s)' = Projection(s)
    BY <1>1 DEF BindingOf, Projection, Own, InputKind, Channel
  <2> QED
    BY <1>1, <2>1, RowsStay DEF RunningIsOpen, AcceptedIsAnswerable
<1>2. CASE BindTask(s)
  BY <1>2, BindAnswers
<1>3. CASE ~(local'[s] = local[s] /\ outcome'[s] = outcome[s]) /\ ~BindTask(s)
  <2>1. Next
    BY <1>3 DEF vars
  <2>2. \/ Submit(s) \/ RequireWebParentAccess(s) \/ ClaimSourceEvent(s)
        \/ SubmitTask(s) \/ SubmitSqlQuery(s) \/ SubmitClarificationChild(s)
        \/ FindPrivateChatRef(s) \/ Abort(s)
    BY <1>3, <2>1, OthersStay
  <2> QED
    BY <2>2, OnlyBindAccepts
<1> QED
  BY <1>1, <1>2, <1>3

\* What submit calls accepted has its binding, and the place of the answer is
\* subscribed.
THEOREM AcceptedMessagesAreAnswered == Spec => []AcceptedIsAnswerable
<1>1. Init => RunningIsOpen /\ AcceptedIsAnswerable
  BY DEF Init, RunningIsOpen, AcceptedIsAnswerable, Idle
<1>2. Inv /\ RunningIsOpen /\ AcceptedIsAnswerable /\ [Next]_vars
        => RunningIsOpen' /\ AcceptedIsAnswerable'
  BY AcceptedStep
<1> QED
  BY <1>1, <1>2, SubmissionInvariant, PTL DEF Spec

-----------------------------------------------------------------------------
(***************************************************************************)
(* The stores in memory.  They look a row up where PostgreSQL compares     *)
(* under a constraint, and read a chosen SQL as its owner's where          *)
(* PostgreSQL only reads it: both agree because of what the rows are.      *)
(***************************************************************************)
\* The SQL a task works on is of the user of the task.
SqlIsOwned ==
    \A t \in TaskIds : Exists(t) /\ tasks[t].sql # NoTask =>
        UserOf[tasks[t].sql.source] = UserOf[t.source]

\* A row that is inserted with SQL of its user keeps this.
LEMMA OwnedInsert ==
    ASSUME Inv, SqlIsOwned, NEW s \in Slots, NEW sql, Insert(s, sql),
           sql # NoTask => UserOf[sql.source] = User(s)
    PROVE  SqlIsOwned'
<1>0. tasks \in [TaskIds -> TaskRow] /\ Own(s) \in TaskIds
  BY SlotFacts DEF Inv, TypeOK
<1>1. /\ tasks'[Own(s)].sql = sql
      /\ \A t \in TaskIds \ {Own(s)} : tasks'[t] = tasks[t]
  BY <1>0 DEF Insert
<1>2. UserOf[Own(s).source] = User(s)
  BY SlotFacts DEF User
<1> SUFFICES ASSUME NEW t \in TaskIds, tasks'[t].status # "absent", tasks'[t].sql # NoTask
             PROVE  UserOf[tasks'[t].sql.source] = UserOf[t.source]
  BY DEF SqlIsOwned, Exists
<1>3. CASE t = Own(s)
  BY <1>1, <1>2, <1>3
<1>4. CASE t # Own(s)
  BY <1>1, <1>4 DEF SqlIsOwned, Exists
<1> QED
  BY <1>3, <1>4

LEMMA OwnedStep ==
    ASSUME Inv, SqlIsOwned, [Next]_vars
    PROVE  SqlIsOwned'
<1>0. tasks \in [TaskIds -> TaskRow]
  BY DEF Inv, TypeOK
<1>1. CASE tasks' = tasks
  BY <1>1 DEF SqlIsOwned, Exists
<1>2. ASSUME NEW s \in Slots, SubmitTask(s)
      PROVE  SqlIsOwned'
  BY <1>1, <1>2, OwnedInsert DEF SubmitTask, ReplayOrConflict
<1>3. ASSUME NEW s \in Slots, SubmitSqlQuery(s)
      PROVE  SqlIsOwned'
  <2>1. UserOf[Own(s).source] = User(s)
    BY SlotFacts DEF User
  <2> QED
    BY <1>1, <1>3, <2>1, OwnedInsert DEF SubmitSqlQuery, ReplayOrConflict
<1>4. ASSUME NEW s \in Slots, SubmitClarificationChild(s)
      PROVE  SqlIsOwned'
  <2>1. CASE ParentIsUsable(s) /\ Answer(s)
    <3> DEFINE sql == tasks[ParentOf[s]].sql
    <3>1. ParentOf[s] \in TaskIds /\ Exists(ParentOf[s])
      BY <1>4, <2>1, SlotFacts DEF SubmitClarificationChild, ParentIsUsable, Exists
    <3>2. sql # NoTask => UserOf[sql.source] = User(s)
      BY <2>1, <3>1 DEF SqlIsOwned, ParentIsUsable
    <3>3. tasks' = tasks \/ Insert(s, sql)
      BY <2>1 DEF Answer
    <3> QED
      BY <1>1, <3>2, <3>3, OwnedInsert
  <2>2. CASE ~(ParentIsUsable(s) /\ Answer(s))
    BY <1>1, <1>4, <2>2 DEF SubmitClarificationChild, ReplayOrConflict
  <2> QED
    BY <2>1, <2>2
<1>5. ASSUME NEW t \in TaskIds, TaskEnds(t) \/ PlanComes(t)
      PROVE  SqlIsOwned'
  <2>1. PICK status \in {"clarify", "ended"}, renders \in BOOLEAN :
           /\ tasks[t].status # "absent"
           /\ tasks' = [tasks EXCEPT ![t].status = status, ![t].renders = renders]
    BY <1>5, TaskChanges DEF Inv
  <2>2. \A u \in TaskIds : /\ tasks'[u].sql = tasks[u].sql
                           /\ tasks'[u].status # "absent" => tasks[u].status # "absent"
    BY <1>0, <2>1 DEF TaskRow
  <2> QED
    BY <2>2 DEF SqlIsOwned, Exists
<1> QED
  BY <1>1, <1>2, <1>3, <1>4, <1>5
     DEF Next, vars, Submit, RequireWebParentAccess, ClaimSourceEvent, FindPrivateChatRef,
         BindTask, Abort, Tick

\* Store call by store call.
LEMMA ClaimsAgree ==
    ASSUME NEW s \in Slots, local[s].pc = "claim"
    PROVE  ClaimSourceEvent(s) <=> claim_source_event(s)
BY DEF ClaimSourceEvent, claim_source_event

LEMMA RepliesAgree ==
    ASSUME NEW s \in Slots, Exists(Own(s))
    PROVE  /\ _existing_task_for_submission_locked(s) \in {"conflict", "existing"}
           /\ Replayed(s, _existing_task_for_submission_locked(s)) <=> ReplayOrConflict(s)
BY DEF Exists, _existing_task_for_submission_locked, Replayed, ReplayOrConflict, SameRequest

LEMMA InsertsAgree ==
    ASSUME NEW s \in Slots, NEW sql
    PROVE  _insert_task_locked(s, sql) <=> Insert(s, sql)
BY DEF _insert_task_locked, Insert

LEMMA MissingTask ==
    ASSUME NEW s \in Slots, ~Exists(Own(s))
    PROVE  /\ _existing_task_for_submission_locked(s) = "none"
           /\ ~Replayed(s, _existing_task_for_submission_locked(s))
BY DEF Exists, _existing_task_for_submission_locked, Replayed

LEMMA CreationsAgree ==
    ASSUME NEW s \in Slots, local[s].pc = "create", ParentOf[s] = NoTask,
           InputKind(s) = "conversation"
    PROVE  SubmitTask(s) <=> create_task(s)
<1>1. CASE Exists(Own(s))
  BY <1>1, RepliesAgree DEF SubmitTask, create_task
<1>2. CASE ~Exists(Own(s))
  BY <1>2, MissingTask, InsertsAgree DEF SubmitTask, create_task
<1> QED
  BY <1>1, <1>2

LEMMA QueriesAgree ==
    ASSUME NEW s \in Slots, local[s].pc = "create", ParentOf[s] = NoTask,
           InputKind(s) = "sql_artifact"
    PROVE  SubmitSqlQuery(s) <=> submit_sql_query(s)
<1>1. CASE Exists(Own(s)) /\ SameRequest(s)
  <2>1. classify_sql_submit(s) = "REPLAYED"
    BY <1>1 DEF Exists, SameRequest, classify_sql_submit
  <2> QED
    BY <1>1, <2>1 DEF SubmitSqlQuery, submit_sql_query, ReplayOrConflict
<1>2. CASE Exists(Own(s)) /\ ~SameRequest(s)
  <2>1. classify_sql_submit(s) = "IDEMPOTENCY_CONFLICT"
    BY <1>2 DEF Exists, SameRequest, classify_sql_submit
  <2> QED
    BY <1>2, <2>1 DEF SubmitSqlQuery, submit_sql_query, ReplayOrConflict
<1>3. CASE ~Exists(Own(s))
  <2>1. classify_sql_submit(s) = "CREATED"
    BY <1>3 DEF Exists, classify_sql_submit
  <2> QED
    BY <1>3, <2>1, InsertsAgree DEF SubmitSqlQuery, submit_sql_query
<1> QED
  BY <1>1, <1>2, <1>3

\* extended_sql_expiry chooses the later of the two, as GREATEST does.
LEMMA ExpiriesAgree ==
    ASSUME NEW s \in Slots, NEW current \in Nat, Clock(s) + Ttl \in Nat
    PROVE  extended_sql_expiry(current, s) = ExtendedSqlExpiry(current, s)
<1> DEFINE own == Clock(s) + Ttl
<1>1. own \in Nat
  OBVIOUS
<1> HIDE DEF own
<1>2. ASSUME NEW e \in {current, own}, e >= current, e >= own,
             NEW f \in {current, own}, f >= current, f >= own
      PROVE  e = f
  BY <1>1, <1>2
<1>3. \E e \in {current, own} : e >= current /\ e >= own
  BY <1>1
<1>4. PICK e \in {current, own} : e >= current /\ e >= own
  BY <1>3
<1>5. (CHOOSE f \in {current, own} : f >= current /\ f >= own) = e
  BY <1>2, <1>4
<1>6. e = IF current > own THEN current ELSE own
  BY <1>1, <1>4
<1> QED
  BY <1>5, <1>6 DEF extended_sql_expiry, ExtendedSqlExpiry, own

LEMMA AnswersAgree ==
    ASSUME Inv, SqlIsOwned, NEW s \in Slots, local[s].pc = "create", ParentOf[s] # NoTask,
           TextOf[s] \notin SqlTexts
    PROVE  SubmitClarificationChild(s) <=> create_clarification_child(s)
<1> DEFINE sql == tasks[ParentOf[s]].sql
           read == IF sql = NoTask THEN "AVAILABLE" ELSE classify_sql_artifact_read(sql, s)
           answerable == ParentIsUsable(s) /\ ~Consumed(ParentOf[s])
<1>0. /\ target_selection_sql(s) = sql
      /\ clarification_parent_is_usable(s) <=> ParentIsUsable(s)
      /\ _clarification_parent_is_consumed_locked(s) <=> Consumed(ParentOf[s])
  BY DEF target_selection_sql, clarification_parent_is_usable, ParentIsUsable,
         _clarification_parent_is_consumed_locked, Consumed, Exists
<1>1. CASE Exists(Own(s))
  BY <1>1, RepliesAgree DEF SubmitClarificationChild, create_clarification_child
<1>2. CASE ~Exists(Own(s)) /\ ~answerable
  <2>1. SubmitClarificationChild(s) <=>
          /\ End(s, "not_found") /\ UNCHANGED <<tasks, expires>>
          /\ UNCHANGED <<claims, bindings, subs, now, aborts>>
    BY <1>2 DEF SubmitClarificationChild
  <2> QED
    BY <1>0, <1>2, <2>1, MissingTask DEF create_clarification_child
<1>3. CASE ~Exists(Own(s)) /\ answerable
  <2>1. ParentOf[s] \in TaskIds /\ Exists(ParentOf[s])
    BY <1>3, SlotFacts DEF ParentIsUsable, Exists
  <2>2. sql # NoTask => /\ sql \in TaskIds /\ tasks[sql].status # "absent"
                        /\ UserOf[sql.source] = UserOf[ParentOf[s].source]
    BY <2>1 DEF Inv, SqlExists, SqlIsOwned, Exists
  <2>3. read = IF sql # NoTask /\ expires[sql] <= Clock(s) THEN "EXPIRED" ELSE "AVAILABLE"
    BY <2>2 DEF classify_sql_artifact_read
  <2>4. sql # NoTask =>
          extended_sql_expiry(expires[sql], s) = ExtendedSqlExpiry(expires[sql], s)
    <3>1. sql # NoTask => expires[sql] \in Nat
      BY <2>2 DEF Inv, TypeOK
    <3>2. Clock(s) + Ttl \in Nat
      BY SubmissionAssumption DEF Inv, TypeOK, Clock
    <3> QED
      BY <3>1, <3>2, ExpiriesAgree
  <2>5. _extend_selected_sql_locked(s) <=>
          expires' = IF sql = NoTask THEN expires
                     ELSE [expires EXCEPT ![sql] = ExtendedSqlExpiry(@, s)]
    BY <1>0, <2>4 DEF _extend_selected_sql_locked
  <2> HIDE DEF sql
  <2>6. Answer(s) <=>
          \/ /\ read = "EXPIRED" /\ End(s, "expired") /\ UNCHANGED <<tasks, expires>>
          \/ /\ read = "AVAILABLE" /\ Insert(s, sql)
             /\ _extend_selected_sql_locked(s)
    BY <2>3, <2>5 DEF Answer, sql
  <2>7. SubmitClarificationChild(s) <=>
          Answer(s) /\ UNCHANGED <<claims, bindings, subs, now, aborts>>
    BY <1>3 DEF SubmitClarificationChild
  <2>8. create_clarification_child(s) <=>
          /\ \/ /\ read = "EXPIRED" /\ End(s, "expired") /\ UNCHANGED <<tasks, expires>>
             \/ /\ read = "AVAILABLE" /\ _extend_selected_sql_locked(s)
                /\ _insert_task_locked(s, sql)
          /\ UNCHANGED <<claims, bindings, subs, now, aborts>>
    BY <1>0, <1>3, MissingTask DEF create_clarification_child
  <2> QED
    BY <2>6, <2>7, <2>8, InsertsAgree
<1> QED
  BY <1>1, <1>2, <1>3

LEMMA SearchesAgree ==
    ASSUME NEW s \in Slots, local[s].pc = "find"
    PROVE  FindPrivateChatRef(s) <=> find_private_chat_ref(s)
<1> DEFINE candidates == {b \in bindings : /\ ChannelOf[b.source] = "private"
                                           /\ UserOf[b.source] = User(s)}
           found == {d \in subs : /\ d.kind = "card"
                                  /\ \E b \in candidates : b.task = d.task}
<1>1. {d.chat : d \in found} = PrivateChats(User(s))
  BY DEF PrivateChats
<1>2. found = {} <=> PrivateChats(User(s)) = {}
  BY <1>1
<1>3. (IF found = {} THEN {NoChat} ELSE {d.chat : d \in found})
        = IF PrivateChats(User(s)) = {} THEN {NoChat} ELSE PrivateChats(User(s))
  BY <1>1, <1>2
<1> QED
  BY <1>3 DEF FindPrivateChatRef, find_private_chat_ref

LEMMA BindsAgree ==
    ASSUME Inv, NEW s \in Slots, local[s].pc = "bind"
    PROVE  BindTask(s) <=> bind_task(s)
<1> DEFINE by_source == {b \in bindings : b.source = SourceOf[s]}
           by_task == {b \in bindings : b.task = Own(s)}
<1>1. by_source \cup by_task = Colliding(s) /\ Colliding(s) \subseteq {BindingOf(s)}
  BY CollidingIsOwn DEF Colliding
<1>2. BindTask(s) <=> /\ bindings' = bindings \cup {BindingOf(s)}
                      /\ subs' = subs \cup Projection(s)
                      /\ End(s, "accepted")
                      /\ UNCHANGED <<claims, tasks, expires, now, aborts>>
  BY <1>1 DEF BindTask
<1>3. CASE by_source \cup by_task = {}
  BY <1>2, <1>3 DEF bind_task
<1>4. CASE by_source \cup by_task # {}
  <2>1. BindingOf(s) \in bindings
    BY <1>1, <1>4
  <2>2. BindingOf(s).source = SourceOf[s] /\ BindingOf(s).task = Own(s)
    BY DEF BindingOf
  <2>3. by_source = {BindingOf(s)} /\ by_task = {BindingOf(s)}
    BY <1>1, <2>1, <2>2
  <2>4. bindings \cup {BindingOf(s)} = bindings
    BY <2>1
  <2> QED
    BY <1>2, <1>4, <2>3, <2>4 DEF bind_task
<1> QED
  BY <1>3, <1>4

LEMMA HandlersAgree ==
    ASSUME Inv, SqlIsOwned, NEW s \in Slots
    PROVE  MemoryHandle(s) <=> StoreHandle(s)
<1>1. CASE local[s].pc = "claim"
  BY <1>1, ClaimsAgree
     DEF MemoryHandle, StoreHandle, SubmitTask, SubmitSqlQuery, SubmitClarificationChild,
         FindPrivateChatRef, BindTask
<1>2. CASE local[s].pc = "create"
  <2>1. InputKind(s) = "sql_artifact" => ParentOf[s] = NoTask
    BY DEF InputKind
  <2>2. ~ClaimSourceEvent(s) /\ ~FindPrivateChatRef(s) /\ ~BindTask(s)
    BY <1>2 DEF ClaimSourceEvent, FindPrivateChatRef, BindTask
  <2>3. CASE ParentOf[s] = NoTask
    <3>1. ~SubmitClarificationChild(s)
      BY <2>3 DEF SubmitClarificationChild
    <3>2. InputKind(s) # "conversation" => ~SubmitTask(s)
      BY DEF SubmitTask
    <3>3. InputKind(s) # "sql_artifact" => ~SubmitSqlQuery(s)
      BY DEF SubmitSqlQuery
    <3> QED
      BY <1>2, <2>2, <2>3, <3>1, <3>2, <3>3, CreationsAgree, QueriesAgree
         DEF MemoryHandle, StoreHandle
  <2>4. CASE ParentOf[s] # NoTask
    <3>1. ~SubmitTask(s) /\ ~SubmitSqlQuery(s)
      BY <2>1, <2>4 DEF SubmitTask, SubmitSqlQuery
    <3> QED
      BY <1>2, <2>2, <2>4, <3>1, AnswersAgree DEF MemoryHandle, StoreHandle
  <2> QED
    BY <2>3, <2>4
<1>3. CASE local[s].pc = "find"
  BY <1>3, SearchesAgree
     DEF MemoryHandle, StoreHandle, ClaimSourceEvent, SubmitTask, SubmitSqlQuery,
         SubmitClarificationChild, BindTask
<1>4. CASE local[s].pc = "bind"
  BY <1>4, BindsAgree
     DEF MemoryHandle, StoreHandle, ClaimSourceEvent, SubmitTask, SubmitSqlQuery,
         SubmitClarificationChild, FindPrivateChatRef
<1>5. CASE local[s].pc \notin {"claim", "create", "find", "bind"}
  BY <1>5 DEF MemoryHandle, StoreHandle, ClaimSourceEvent, SubmitTask, SubmitSqlQuery,
     SubmitClarificationChild, FindPrivateChatRef, BindTask
<1> QED
  BY <1>1, <1>2, <1>3, <1>4, <1>5

\* Every store call of a submission has the same effect and the same answer in
\* persistence/fake.py and in persistence/postgres.py, wherever the handlers of other
\* deliveries are: the SQL behind a question is always its owner's, so reading it as the
\* parent's requester never answers anything else.
THEOREM SubmissionMeetsTheSameStores == Spec => SubmissionStoresAgree
<1> DEFINE A == \A s \in Slots : local'[s].pc # local[s].pc =>
                    (MemoryHandle(s) <=> StoreHandle(s))
<1>1. Init => SqlIsOwned
  BY DEF Init, SqlIsOwned, Exists, Absent
<1>2. Inv /\ SqlIsOwned /\ [Next]_vars => SqlIsOwned'
  BY OwnedStep
<1>3. Inv /\ SqlIsOwned => [A]_vars
  BY HandlersAgree
<1> QED
  BY <1>1, <1>2, <1>3, SubmissionInvariant, PTL DEF Spec, SubmissionStoresAgree
=============================================================================
