---------------------------- MODULE ConfigProofs ----------------------------
(***************************************************************************)
(* Proofs about IntegrationConfig, for any requests, services, documents   *)
(* and bounds, and about Processes and Rollout, for any number of crashes, *)
(* edits, tasks and any page size.                                         *)
(*                                                                         *)
(* The arguments: a write holds the lock from its STARTED to its terminal, *)
(* so what it read is still on file when it replaces it, and generations   *)
(* count the documents of a domain.  Everything that remembers a document  *)
(* by its generation (the results of the tests, the receipts, the OAuth    *)
(* states) therefore speaks of one document.                               *)
(*                                                                         *)
(* What a process holds is what its builder makes of loaded settings, so   *)
(* the validators of Settings decide it, with main, which starts no        *)
(* process that is switched off.  A legacy file is known by its inode, and *)
(* no later one gets the inode of an earlier, so the last look before the  *)
(* removal sees the document that was split.  The scan leaves no           *)
(* unfinished task at or above its cursor uncounted; a task that has ended *)
(* stays ended, and a plan it comes to have behind the cursor is late.     *)
(***************************************************************************)
EXTENDS IntegrationConfig, Processes, Rollout, FiniteSetTheorems, TLAPS

ConfigPcs == {"idle", "queued", "started", "read", "wrote", "failing", "probed", "recorded",
        "issued", "callback", "open", "checked", "done", "unavailable"}
Writing == {"started", "read", "wrote", "failing"}
Returning == {"callback", "open", "checked"}
Verdicts == {"passed", "failed"}

\* A document that was visible in domain d once.
Visible(d, doc) == \E w \in written : w.domain = d /\ w.doc = doc

\* The check c passed with a visible document of generation gen.
PassedWith(c, gen) ==
    \E w \in written : w.domain = DomainOf(c) /\ w.doc.gen = gen /\ <<c, w.doc>> \in passed

\* Every table and every handler keeps its shape.
ShapeOK ==
    /\ audit \in [Ops -> {"none", "started", "succeeded", "failed", "denied"}]
    /\ lock \in Ops \cup {Nobody}
    /\ states \in [Ops -> {"none", "issued", "consumed", "expired"}]
    /\ readable \in [ConfigDomain -> BOOLEAN]
    /\ tests \in [CheckName -> [gen : Nat, status : Verdicts]]
    /\ exchanges \in [Ops -> {0, 1}]
    /\ faults \in Nat /\ lost \in BOOLEAN
    /\ file = [d \in ConfigDomain |-> file[d]]
    /\ durable = [d \in ConfigDomain |-> durable[d]]

IsHandler(h) ==
    h = [pc |-> h.pc, call |-> h.call, seen |-> h.seen, verdict |-> h.verdict]

HandlersOK ==
    /\ op = [o \in Ops |-> op[o]]
    /\ \A o \in Ops : /\ IsHandler(op[o])
                      /\ op[o].pc \in ConfigPcs /\ op[o].verdict \in Verdicts
                      /\ op[o].seen.gen \in Nat

\* The holder of the lock is a write between its STARTED and its terminal.
HolderWrites ==
    lock # Nobody => /\ op[lock].pc \in Writing /\ IsMutation(lock)
                     /\ audit[lock] = "started"

\* Documents: the files are the last ones written, durable ones are not newer, and
\* without a loss no document is newer than its file.
DocumentsFit ==
    /\ \A w \in written : /\ w.domain \in ConfigDomain /\ w.doc.gen \in Nat
                          /\ w.by \in Ops \cup {Nobody}
                          /\ lost \/ w.doc.gen <= file[w.domain].gen
    /\ \A d \in ConfigDomain : /\ Visible(d, file[d]) /\ Visible(d, durable[d])
                               /\ durable[d].gen <= file[d].gen
    /\ GenerationNamesContent

\* What a handler at a given place may rely on.
HandlerFits(o) ==
    /\ op[o].pc \notin {"idle", "done", "unavailable"} \/ states[o] = "issued"
         => op[o].call \in Calls[o]
    /\ op[o].pc \in Writing /\ IsMutation(o) => lock = o
    /\ op[o].pc \in {"idle", "queued", "started", "read"} => states[o] = "none"
    /\ op[o].pc \in Returning => states[o] = "consumed" /\ exchanges[o] = 0 /\ OAuthAssembled
    /\ op[o].pc \in Returning \cup {"issued"} \/ states[o] = "issued"
         => op[o].call.verb = "oauth"
    /\ exchanges[o] = 1 => states[o] = "consumed"
    /\ op[o].pc = "read" => Visible(Domain(o), op[o].seen)
    /\ op[o].pc = "read" /\ IsMutation(o) => op[o].seen = file[Domain(o)]
    /\ op[o].pc = "probed" => op[o].call.verb \in {"probe", "oauth"}
    /\ op[o].pc = "probed" /\ op[o].verdict = "passed"
         => PassedWith(Check(o), op[o].seen.gen)

\* The operation that wrote a document is past its write, and its audit says so.
AuthorFits(w) ==
    w.by # Nobody =>
        /\ op[w.by].pc \in {"wrote", "failing", "done", "unavailable"}
        /\ states[w.by] = "none"
        /\ op[w.by].pc = "wrote" => durable[w.domain].gen >= w.doc.gen
        /\ op[w.by].pc = "failing" => faults > 0
        /\ audit[w.by] \in {"started", "succeeded", "failed"}
        /\ audit[w.by] = "succeeded" => durable[w.domain].gen >= w.doc.gen
        /\ audit[w.by] = "failed" => faults > 0

\* A result on file was earned with a document of its generation.
TestsFit == \A c \in CheckName : tests[c].status = "passed" => PassedWith(c, tests[c].gen)

\* The adapter of the Web process and its receipt come from one document.
AdapterFits ==
    OAuthAssembled =>
        /\ Visible("feishu", held["feishu"][Web])
        /\ receipts["feishu"][Web] = [gen |-> held["feishu"][Web].gen, status |-> "loaded"]

Inv ==
    /\ ShapeOK /\ HandlersOK /\ HolderWrites /\ DocumentsFit
    /\ \A o \in Ops : HandlerFits(o)
    /\ \A w \in written : AuthorFits(w)
    /\ TestsFit /\ AdapterFits

-----------------------------------------------------------------------------
(* How a step moves its handler.                                           *)

\* The handler of o is at pc, and no other has moved.
Moved(o, pc) ==
    HandlersOK' /\ op'[o].pc = pc /\ \A r \in Ops \ {o} : op'[r] = op[r]

\* Replacing a handler by one of the right shape.
LEMMA Replaced ==
    ASSUME HandlersOK, NEW o \in Ops, NEW h, IsHandler(h), h.pc \in ConfigPcs,
           h.verdict \in Verdicts, h.seen.gen \in Nat, op' = [op EXCEPT ![o] = h]
    PROVE  Moved(o, h.pc) /\ op'[o] = h
<1>1. /\ op' = [r \in Ops |-> IF r = o THEN h ELSE op[r]]
      /\ op'[o] = h /\ \A r \in Ops \ {o} : op'[r] = op[r]
  BY DEF HandlersOK
<1>2. op' = [r \in Ops |-> op'[r]]
  BY <1>1
<1>3. \A r \in Ops : /\ IsHandler(op'[r])
                     /\ op'[r].pc \in ConfigPcs /\ op'[r].verdict \in Verdicts
                     /\ op'[r].seen.gen \in Nat
  <2> TAKE r \in Ops
  <2>1. CASE r = o
    BY <1>1, <2>1
  <2>2. CASE r # o
    BY <1>1, <2>2 DEF HandlersOK
  <2> QED
    BY <2>1, <2>2
<1> QED
  BY <1>1, <1>2, <1>3 DEF Moved, HandlersOK

\* Going on to another place keeps what the handler knows.
LEMMA GotoMoves ==
    ASSUME HandlersOK, NEW o \in Ops, NEW pc \in ConfigPcs, Goto(o, pc)
    PROVE  /\ Moved(o, pc) /\ op'[o].call = op[o].call /\ op'[o].seen = op[o].seen
           /\ op'[o].verdict = op[o].verdict
<1> DEFINE g == op[o]
           h == [g EXCEPT !.pc = pc]
<1>1. /\ IsHandler(g) /\ op[o].verdict \in Verdicts /\ op[o].seen.gen \in Nat
  BY DEF HandlersOK
<1>2. op' = [op EXCEPT ![o] = h]
  BY DEF Goto, HandlersOK
<1>3. /\ IsHandler(h) /\ h.pc = pc /\ h.call = g.call /\ h.seen = g.seen
      /\ h.verdict = g.verdict
  <2> HIDE DEF g
  <2> QED
    BY <1>1 DEF IsHandler
<1> HIDE DEF h
<1> QED
  BY <1>1, <1>2, <1>3, Replaced

\* So does a verdict.
LEMMA VerdictMoves ==
    ASSUME HandlersOK, NEW o \in Ops, NEW pc \in ConfigPcs, NEW v \in Verdicts,
           _verdict(o, v, pc)
    PROVE  /\ Moved(o, pc) /\ op'[o].call = op[o].call /\ op'[o].seen = op[o].seen
           /\ op'[o].verdict = v
<1> DEFINE g == op[o]
           p == [g EXCEPT !.pc = pc]
           h == [p EXCEPT !.verdict = v]
<1>1. IsHandler(g) /\ op[o].seen.gen \in Nat
  BY DEF HandlersOK
<1>2. op' = [op EXCEPT ![o] = h]
  BY DEF _verdict, HandlersOK
<1>3. IsHandler(p) /\ p.pc = pc /\ p.call = g.call /\ p.seen = g.seen
  <2> HIDE DEF g
  <2> QED
    BY <1>1 DEF IsHandler
<1>4. /\ IsHandler(h) /\ h.pc = pc /\ h.call = g.call /\ h.seen = g.seen
      /\ h.verdict = v
  <2> HIDE DEF g, p
  <2> QED
    BY <1>3 DEF IsHandler
<1> HIDE DEF h
<1> QED
  BY <1>1, <1>2, <1>4, Replaced

\* A handler that ends forgets its call, unless an OAuth state names it.
LEMMA EndMoves ==
    ASSUME HandlersOK, NEW o \in Ops, NEW pc \in ConfigPcs, End(o, pc)
    PROVE  /\ Moved(o, pc)
           /\ states[o] = "issued" => op'[o].call = op[o].call /\ op'[o].seen = op[o].seen
           /\ op'[o].call \in {op[o].call, Idle.call}
<1>1. CASE states[o] = "issued"
  <2>1. Goto(o, pc)
    BY <1>1 DEF End, Ended, Goto, HandlersOK
  <2> QED
    BY <2>1, GotoMoves
<1>2. CASE states[o] # "issued"
  <2> DEFINE h == [Idle EXCEPT !.pc = pc]
  <2>1. op' = [op EXCEPT ![o] = h]
    BY <1>2 DEF End, Ended
  <2>2. /\ IsHandler(h) /\ h.pc = pc /\ h.call = Idle.call /\ h.seen.gen = 0
        /\ h.verdict = "failed"
    BY DEF Idle, IsHandler
  <2> HIDE DEF h
  <2>3. h.verdict \in Verdicts /\ h.seen.gen \in Nat
    BY <2>2 DEF Verdicts
  <2>4. Moved(o, pc) /\ op'[o] = h
    BY <2>1, <2>2, <2>3, Replaced
  <2> QED
    BY <1>2, <2>2, <2>4
<1> QED
  BY <1>1, <1>2

-----------------------------------------------------------------------------
(* Steps of one handler that leave files and services alone.               *)

LEMMA HandlerStep ==
    ASSUME Inv, NEW o \in Ops, UNCHANGED <<fileVars, serviceVars>>,
           ShapeOK', HandlersOK', TestsFit',
           \A r \in Ops \ {o} : /\ op'[r] = op[r] /\ audit'[r] = audit[r]
                                /\ states'[r] = states[r] /\ exchanges'[r] = exchanges[r],
           faults' >= faults, passed \subseteq passed',
           lock' = lock \/ (lock \in {o, Nobody} /\ lock' \in {o, Nobody}),
           lock' = o => /\ op'[o].pc \in Writing /\ op'[o].call.verb \in Mutations
                        /\ audit'[o] = "started",
           HandlerFits(o)',
           \A w \in written : w.by = o => AuthorFits(w)'
    PROVE  Inv'
<1>0. Nobody \notin Ops
  BY ConfigAssumption
<1>1. HolderWrites'
  <2>1. CASE lock' = o
    BY <2>1 DEF HolderWrites, IsMutation
  <2>2. CASE lock' # o /\ lock' # Nobody
    BY <2>2 DEF Inv, ShapeOK, HolderWrites, IsMutation
  <2> QED
    BY <2>1, <2>2 DEF HolderWrites
<1>2. DocumentsFit'
  BY DEF Inv, DocumentsFit, Visible, GenerationNamesContent, fileVars
<1>3. \A r \in Ops : HandlerFits(r)'
  <2> SUFFICES ASSUME NEW r \in Ops \ {o}
               PROVE  HandlerFits(r)'
    OBVIOUS
  <2>1. HandlerFits(r)
    BY DEF Inv
  <2>2. lock = r => lock' = r
    BY <1>0
  <2>3. \A c, g : PassedWith(c, g) => PassedWith(c, g)'
    BY DEF PassedWith, fileVars
  <2>4. \A d, doc : Visible(d, doc) => Visible(d, doc)'
    BY DEF Visible, fileVars
  <2>5. /\ op'[r] = op[r] /\ states'[r] = states[r] /\ exchanges'[r] = exchanges[r]
        /\ file' = file /\ held' = held
    BY DEF fileVars, serviceVars
  <2> QED
    BY <2>1, <2>2, <2>3, <2>4, <2>5 DEF HandlerFits, IsMutation, Domain, Check, OAuthAssembled
<1>4. \A w \in written' : AuthorFits(w)'
  <2> SUFFICES ASSUME NEW w \in written, w.by # o, w.by # Nobody
               PROVE  AuthorFits(w)'
    BY DEF fileVars, AuthorFits
  <2>1. w.by \in Ops \ {o} /\ AuthorFits(w)
    BY DEF Inv, DocumentsFit
  <2>2. faults > 0 => faults' > 0
    BY DEF Inv, ShapeOK
  <2> QED
    BY <2>1, <2>2 DEF AuthorFits, fileVars
<1>5. AdapterFits'
  BY DEF Inv, AdapterFits, Visible, OAuthAssembled, fileVars, serviceVars
<1> QED
  BY <1>1, <1>2, <1>3, <1>4, <1>5 DEF Inv

\* Before its write, and while an OAuth state names it, an operation is no author.
LEMMA NoAuthor ==
    ASSUME Inv, NEW o \in Ops,
           op[o].pc \notin {"wrote", "failing", "done", "unavailable"} \/ states[o] # "none"
    PROVE  \A w \in written : w.by # o
BY ConfigAssumption DEF Inv, AuthorFits

\* What HandlerStep asks of the tables a step leaves alone.
LEMMA Kept ==
    ASSUME Inv, UNCHANGED <<fileVars, tests>>, passed \subseteq passed'
    PROVE  TestsFit'
BY DEF Inv, TestsFit, PassedWith, fileVars

\* The end of a handler fits, whatever it did.
LEMMA EndFits ==
    ASSUME Inv, NEW o \in Ops, NEW pc \in {"done", "unavailable"}, End(o, pc),
           UNCHANGED <<states, exchanges, held>>
    PROVE  HandlerFits(o)'
<1>1. Moved(o, pc) /\ (states[o] = "issued" => op'[o].call = op[o].call)
  BY EndMoves DEF Inv, ConfigPcs
<1> QED
  BY <1>1 DEF Inv, HandlerFits, Moved, Writing, Returning

\* A refused actor: _deny_unless_allowed keeps the invariant.
LEMMA DenyStep ==
    ASSUME Inv, NEW o \in Ops, _deny_unless_allowed(o)
    PROVE  Inv'
<1>0. /\ op[o].pc = "idle"
      /\ UNCHANGED <<fileVars, serviceVars, tests, states, passed, exchanges, lock>>
  BY DEF _deny_unless_allowed, At, probeVars
<1>1. PICK pc \in {"done", "unavailable"} : End(o, pc)
  BY DEF _deny_unless_allowed
<1>2. Moved(o, pc)
  BY <1>1, EndMoves DEF Inv, ConfigPcs
<1>3. audit' = audit \/ audit' = [audit EXCEPT ![o] = "denied"]
  BY DEF _deny_unless_allowed
<1>4. faults' \in Nat /\ faults' >= faults
  BY DEF Inv, ShapeOK, _deny_unless_allowed, Fault, NoFault
<1>5. ShapeOK' /\ \A r \in Ops \ {o} : audit'[r] = audit[r]
  BY <1>0, <1>3, <1>4 DEF Inv, ShapeOK, fileVars
<1>6. lock' # o
  BY <1>0, ConfigAssumption DEF Inv, HolderWrites, Writing
<1> QED
  BY <1>0, <1>1, <1>2, <1>4, <1>5, <1>6, HandlerStep, EndFits, Kept, NoAuthor
     DEF Moved, serviceVars

\* A request that was accepted: it keeps the invariant.
LEMMA RequestStep ==
    ASSUME Inv, NEW o \in Ops, NEW call \in Calls[o], Request(o, call)
    PROVE  Inv'
<1>0. /\ op[o].pc = "idle"
      /\ UNCHANGED <<fileVars, serviceVars, tests, states, passed, exchanges, lock, audit, faults>>
  BY DEF Request, At, probeVars
<1> DEFINE g == op[o]
           p == [g EXCEPT !.pc = "queued"]
           h == [p EXCEPT !.call = call]
<1>1. IsHandler(g) /\ g.seen.gen \in Nat /\ g.verdict \in Verdicts
  BY DEF Inv, HandlersOK
<1>2. op' = [op EXCEPT ![o] = h]
  BY DEF Request, Inv, HandlersOK
<1>3. IsHandler(p) /\ p.pc = "queued" /\ p.seen = g.seen /\ p.verdict = g.verdict
  <2> HIDE DEF g
  <2> QED
    BY <1>1 DEF IsHandler
<1>4. /\ IsHandler(h) /\ h.pc = "queued" /\ h.call = call /\ h.seen = g.seen
      /\ h.verdict = g.verdict
  <2> HIDE DEF g, p
  <2> QED
    BY <1>3 DEF IsHandler
<1> HIDE DEF h
<1>5. Moved(o, "queued") /\ op'[o] = h
  BY <1>1, <1>2, <1>4, Replaced DEF Inv, ConfigPcs
<1>6. ShapeOK'
  BY <1>0 DEF Inv, ShapeOK, fileVars
<1>7. HandlerFits(o)'
  BY <1>0, <1>4, <1>5 DEF Inv, HandlerFits, Moved, Writing, Returning, serviceVars
<1>8. lock' # o
  BY <1>0, ConfigAssumption DEF Inv, HolderWrites, Writing
<1>9. faults' >= faults
  BY <1>0 DEF Inv, ShapeOK
<1> QED
  BY <1>0, <1>5, <1>6, <1>7, <1>8, <1>9, HandlerStep, Kept, NoAuthor DEF Moved

\* STARTED is stored and a write has taken the lock, or nothing was done: _start.
LEMMA StartStep ==
    ASSUME Inv, NEW o \in Ops, _start(o)
    PROVE  Inv'
<1>0. /\ op[o].pc = "queued"
      /\ UNCHANGED <<fileVars, serviceVars, tests, states, passed, exchanges>>
  BY DEF _start, At, probeVars
<1>1. faults' \in Nat /\ faults' >= faults
  BY DEF Inv, ShapeOK, _start, Fault, NoFault
<1>2. lock # o
  BY <1>0, ConfigAssumption DEF Inv, HolderWrites, Writing
<1>3. CASE /\ audit' = [audit EXCEPT ![o] = "started"]
           /\ lock' = IF IsMutation(o) THEN o ELSE lock
           /\ Goto(o, "started")
  <2>1. Moved(o, "started") /\ op'[o].call = op[o].call
    BY <1>3, GotoMoves DEF Inv, ConfigPcs
  <2>2. ShapeOK' /\ audit'[o] = "started" /\ \A r \in Ops \ {o} : audit'[r] = audit[r]
    BY <1>0, <1>1, <1>3 DEF Inv, ShapeOK, fileVars
  <2>3. IsMutation(o) => lock = Nobody
    BY DEF _start
  <2>4. HandlerFits(o)'
    BY <1>0, <1>3, <2>1
       DEF Inv, HandlerFits, Moved, Writing, Returning, serviceVars, IsMutation
  <2>5. lock' = o => IsMutation(o)
    BY <1>2, <1>3
  <2> QED
    BY <1>0, <1>1, <1>3, <2>1, <2>2, <2>3, <2>4, <2>5, HandlerStep, Kept, NoAuthor
       DEF Moved, Writing, IsMutation
<1>4. CASE End(o, "unavailable") /\ UNCHANGED <<audit, lock>>
  <2>1. Moved(o, "unavailable")
    BY <1>4, EndMoves DEF Inv, ConfigPcs
  <2>2. ShapeOK'
    BY <1>0, <1>1, <1>4 DEF Inv, ShapeOK, fileVars
  <2> QED
    BY <1>0, <1>1, <1>2, <1>4, <2>1, <2>2, HandlerStep, EndFits, Kept, NoAuthor
       DEF Moved, serviceVars
<1> QED
  BY <1>3, <1>4 DEF _start

\* The terminal closes the audit and frees the lock: _terminal, _fail.
LEMMA TerminalStep ==
    ASSUME Inv, NEW o \in Ops, _terminal(o)
    PROVE  Inv'
<1>0. /\ op[o].pc \in {"wrote", "failing", "recorded"}
      /\ lock' = IF lock = o THEN Nobody ELSE lock
      /\ UNCHANGED <<fileVars, serviceVars, tests, states, passed, exchanges>>
  BY DEF _terminal, Unlocked, probeVars
<1>1. faults' \in Nat /\ faults' >= faults
  BY DEF Inv, ShapeOK, _terminal, Fault, NoFault
<1>2. PICK pc \in {"done", "unavailable"} : End(o, pc)
  BY DEF _terminal
<1>3. Moved(o, pc)
  BY <1>2, EndMoves DEF Inv, ConfigPcs
<1>4. \/ audit' = audit
      \/ /\ audit' = [audit EXCEPT ![o] = "succeeded"] /\ op[o].pc # "failing"
      \/ /\ audit' = [audit EXCEPT ![o] = "failed"] /\ op[o].pc # "wrote"
  BY DEF _terminal, At
<1>5. ShapeOK' /\ \A r \in Ops \ {o} : audit'[r] = audit[r]
  BY <1>0, <1>1, <1>4, ConfigAssumption DEF Inv, ShapeOK, fileVars
<1>6. ASSUME NEW w \in written, w.by = o
      PROVE  AuthorFits(w)'
  <2>1. AuthorFits(w) /\ w.by # Nobody
    BY <1>6, ConfigAssumption DEF Inv
  <2>2. op[o].pc \in {"wrote", "failing"}
    BY <1>0, <1>6, <2>1 DEF AuthorFits
  <2>3. audit' = audit \/ audit'[o] = IF op[o].pc = "wrote" THEN "succeeded" ELSE "failed"
    BY <1>4, <2>2 DEF Inv, ShapeOK
  <2> QED
    BY <1>0, <1>1, <1>3, <1>6, <2>1, <2>2, <2>3 DEF AuthorFits, Moved, fileVars, Inv, ShapeOK
<1>7. lock' # o
  BY <1>0, ConfigAssumption
<1>8. lock' = lock \/ (lock \in {o, Nobody} /\ lock' \in {o, Nobody})
  BY <1>0
<1>9. HandlerFits(o)' /\ TestsFit'
  BY <1>0, <1>2, EndFits, Kept DEF serviceVars
<1> QED
  BY <1>0, <1>1, <1>3, <1>5, <1>6, <1>7, <1>8, <1>9, HandlerStep DEF Moved

\* _read: the handler has the document that is on file.
LEMMA ReadStep ==
    ASSUME Inv, NEW o \in Ops, _read(o, "started", "read")
    PROVE  Inv'
<1>0. /\ op[o].pc = "started" /\ op[o].call \in Calls[o] /\ states[o] = "none"
      /\ UNCHANGED <<fileVars, serviceVars, tests, states, passed, exchanges, audit, lock, faults>>
  BY DEF _read, At, probeVars, Inv, HandlerFits
<1>1. /\ Domain(o) \in ConfigDomain /\ Visible(Domain(o), file[Domain(o)])
      /\ file[Domain(o)].gen \in Nat
  <2>1. Domain(o) \in ConfigDomain
    BY <1>0, CallAssumption DEF Domain
  <2>2. PICK w \in written : w.domain = Domain(o) /\ w.doc = file[Domain(o)]
    BY <2>1 DEF Inv, DocumentsFit, Visible
  <2> QED
    BY <2>1, <2>2 DEF Inv, DocumentsFit, Visible
<1>2. \E to \in {"read", "failing"} :
        /\ Moved(o, to) /\ op'[o].call = op[o].call
        /\ to = "read" => op'[o].seen = file[Domain(o)]
  <2>1. CASE readable[Domain(o)]
    <3> DEFINE g == op[o]
               p == [g EXCEPT !.pc = "read"]
               h == [p EXCEPT !.seen = file[Domain(o)]]
    <3>1. IsHandler(g) /\ g.verdict \in Verdicts
      BY DEF Inv, HandlersOK
    <3>2. op' = [op EXCEPT ![o] = h]
      BY <2>1 DEF _read, Inv, HandlersOK
    <3>3. IsHandler(p) /\ p.pc = "read" /\ p.call = g.call /\ p.verdict = g.verdict
      <4> HIDE DEF g
      <4> QED
        BY <3>1 DEF IsHandler
    <3>4. /\ IsHandler(h) /\ h.pc = "read" /\ h.call = g.call /\ h.seen = file[Domain(o)]
          /\ h.verdict = g.verdict
      <4> HIDE DEF g, p
      <4> QED
        BY <3>3 DEF IsHandler
    <3> HIDE DEF h
    <3>5. Moved(o, "read") /\ op'[o] = h
      BY <1>1, <3>1, <3>2, <3>4, Replaced DEF Inv, ConfigPcs
    <3> QED
      BY <3>4, <3>5
  <2>2. CASE ~ readable[Domain(o)]
    <3>1. Goto(o, "failing")
      BY <2>2 DEF _read, Goto
    <3> QED
      BY <3>1, GotoMoves DEF Inv, ConfigPcs
  <2> QED
    BY <2>1, <2>2
<1>3. PICK to \in {"read", "failing"} :
        /\ Moved(o, to) /\ op'[o].call = op[o].call
        /\ to = "read" => op'[o].seen = file[Domain(o)]
  BY <1>2
<1>4. ShapeOK' /\ faults' >= faults
  BY <1>0 DEF Inv, ShapeOK, fileVars
<1>5. HandlerFits(o)'
  <2>1. to = "read" => Visible(Domain(o), op[o].seen)'
    BY <1>0, <1>1, <1>3 DEF Visible, Domain, fileVars
  <2> QED
    BY <1>0, <1>3, <2>1
       DEF Inv, HandlerFits, Moved, Writing, Returning, serviceVars, fileVars, IsMutation, Domain
<1>6. lock' = o => /\ op'[o].pc \in Writing /\ op'[o].call.verb \in Mutations
                   /\ audit'[o] = "started"
  BY <1>0, <1>3, ConfigAssumption DEF Inv, HolderWrites, Moved, Writing, IsMutation
<1> QED
  BY <1>0, <1>3, <1>4, <1>5, <1>6, HandlerStep, Kept, NoAuthor DEF Moved

\* What tests, states and codes have to do with the lock: nothing.
LEMMA NoHolder ==
    ASSUME Inv, NEW o \in Ops, op[o].pc \notin Writing \/ ~ IsMutation(o)
    PROVE  lock # o
BY ConfigAssumption DEF Inv, HolderWrites

\* A probe may pass only with the document it has read: _probe.
LEMMA ProbeStep ==
    ASSUME Inv, NEW o \in Ops, _probe(o)
    PROVE  Inv'
<1>0. /\ op[o].pc = "read" /\ op[o].call.verb = "probe" /\ op[o].call \in Calls[o]
      /\ UNCHANGED <<fileVars, serviceVars, tests, states, exchanges, audit, lock, faults>>
  BY DEF _probe, At, Inv, HandlerFits
<1>1. PICK v \in Verdicts :
        /\ _verdict(o, v, "probed")
        /\ passed' = IF v = "passed" THEN passed \cup {<<Check(o), op[o].seen>>} ELSE passed
  BY DEF _probe, probe_gemini_connection, probe_feishu_credentials, _timed_call, Verdicts
<1>2. /\ Moved(o, "probed") /\ op'[o].call = op[o].call /\ op'[o].seen = op[o].seen
      /\ op'[o].verdict = v
  BY <1>1, VerdictMoves DEF Inv, ConfigPcs
<1>3. v = "passed" => PassedWith(Check(o), op[o].seen.gen)'
  <2>1. Domain(o) = DomainOf(Check(o))
    BY <1>0, CallAssumption DEF Domain, Check
  <2>2. PICK w \in written : w.domain = Domain(o) /\ w.doc = op[o].seen
    BY <1>0 DEF Inv, HandlerFits, Visible
  <2> QED
    BY <1>0, <1>1, <1>2, <2>1, <2>2 DEF PassedWith, Check, fileVars, DomainOf
<1>4. HandlerFits(o)'
  BY <1>0, <1>2, <1>3 DEF Inv, HandlerFits, Moved, Writing, Returning
<1>5. lock # o
  BY <1>0, NoHolder DEF IsMutation, Mutations
<1>6. ShapeOK' /\ faults' >= faults /\ passed \subseteq passed'
  BY <1>0, <1>1 DEF Inv, ShapeOK, fileVars
<1> QED
  BY <1>0, <1>2, <1>4, <1>5, <1>6, HandlerStep, Kept, NoAuthor DEF Moved

\* A result is booked to the generation it was earned with: _record.
LEMMA RecordStep ==
    ASSUME Inv, NEW o \in Ops, _record(o)
    PROVE  Inv'
<1>0. /\ op[o].pc = "probed" /\ op[o].call \in Calls[o]
      /\ op[o].call.verb \in {"probe", "oauth"}
      /\ UNCHANGED <<fileVars, serviceVars, states, passed, exchanges, audit, lock>>
  BY DEF _record, At, Inv, HandlerFits
<1>1. faults' \in Nat /\ faults' >= faults
  BY DEF Inv, ShapeOK, _record, Fault, NoFault
<1>2. lock # o
  BY <1>0, NoHolder DEF Writing
<1>3. CASE /\ tests' = IF op[o].seen.gen = 0 THEN tests
                       ELSE [tests EXCEPT ![Check(o)] = [gen |-> op[o].seen.gen,
                                                         status |-> op[o].verdict]]
           /\ Goto(o, "recorded")
  <2>1. Check(o) \in CheckName
    BY <1>0, CallAssumption DEF Check
  <2>2. op[o].seen.gen \in Nat /\ op[o].verdict \in Verdicts
    BY DEF Inv, HandlersOK
  <2>3. /\ tests' \in [CheckName -> [gen : Nat, status : Verdicts]]
        /\ \A c \in CheckName : \/ tests'[c] = tests[c]
                                \/ /\ c = Check(o) /\ tests'[c].gen = op[o].seen.gen
                                   /\ tests'[c].status = op[o].verdict
    BY <1>3, <2>1, <2>2 DEF Inv, ShapeOK
  <2>4. ShapeOK'
    BY <1>0, <1>1, <2>3 DEF Inv, ShapeOK, fileVars
  <2>5. op[o].verdict = "passed" => PassedWith(Check(o), op[o].seen.gen)
    BY <1>0 DEF Inv, HandlerFits
  <2>6. TestsFit'
    BY <1>0, <2>3, <2>5 DEF Inv, TestsFit, PassedWith, fileVars
  <2>7. Moved(o, "recorded") /\ op'[o].call = op[o].call
    BY <1>3, GotoMoves DEF Inv, ConfigPcs
  <2>8. HandlerFits(o)'
    BY <1>0, <2>7 DEF Inv, HandlerFits, Moved, Writing, Returning
  <2> QED
    BY <1>0, <1>1, <1>2, <2>4, <2>6, <2>7, <2>8, HandlerStep, NoAuthor DEF Moved
<1>4. CASE End(o, "unavailable") /\ UNCHANGED tests
  <2>1. Moved(o, "unavailable")
    BY <1>4, EndMoves DEF Inv, ConfigPcs
  <2>2. ShapeOK'
    BY <1>0, <1>1, <1>4 DEF Inv, ShapeOK, fileVars
  <2> QED
    BY <1>0, <1>1, <1>2, <1>4, <2>1, <2>2, HandlerStep, EndFits, Kept, NoAuthor
       DEF Moved, serviceVars
<1> QED
  BY <1>3, <1>4 DEF _record

\* An OAuth test is refused, issued, or fails: start_oauth_test.
LEMMA StartOAuthStep ==
    ASSUME Inv, NEW o \in Ops, start_oauth_test(o)
    PROVE  Inv'
<1>0. /\ op[o].pc = "read" /\ op[o].call.verb = "oauth" /\ op[o].call \in Calls[o]
      /\ states[o] = "none"
      /\ UNCHANGED <<fileVars, serviceVars, tests, passed, exchanges, audit, lock>>
  BY DEF start_oauth_test, At, Inv, HandlerFits
<1>1. faults' \in Nat /\ faults' >= faults
  BY DEF Inv, ShapeOK, start_oauth_test, Fault, NoFault
<1>2. lock # o /\ "oauth" \notin Mutations
  BY <1>0, NoHolder DEF IsMutation, Mutations
<1>3. \E pc \in {"probed", "issued", "failing"} :
        /\ Moved(o, pc) /\ op'[o].call = op[o].call
        /\ pc = "probed" => op'[o].verdict = "failed" /\ states' = states
        /\ states' = states \/ states' = [states EXCEPT ![o] = "issued"]
  <2>1. CASE _verdict(o, "failed", "probed") /\ UNCHANGED states
    BY <2>1, VerdictMoves DEF Inv, ConfigPcs, Verdicts
  <2>2. CASE states' = [states EXCEPT ![o] = "issued"] /\ Goto(o, "issued")
    BY <2>2, GotoMoves DEF Inv, ConfigPcs
  <2>3. CASE states' \in {states, [states EXCEPT ![o] = "issued"]} /\ Goto(o, "failing")
    BY <2>3, GotoMoves DEF Inv, ConfigPcs
  <2> QED
    BY <2>1, <2>2, <2>3 DEF start_oauth_test
<1>4. PICK pc \in {"probed", "issued", "failing"} :
        /\ Moved(o, pc) /\ op'[o].call = op[o].call
        /\ pc = "probed" => op'[o].verdict = "failed" /\ states' = states
        /\ states' = states \/ states' = [states EXCEPT ![o] = "issued"]
  BY <1>3
<1>5. /\ ShapeOK' /\ states'[o] \in {"none", "issued"}
      /\ \A r \in Ops \ {o} : states'[r] = states[r]
  BY <1>0, <1>1, <1>4 DEF Inv, ShapeOK, fileVars
<1>6. HandlerFits(o)'
  BY <1>0, <1>2, <1>4, <1>5 DEF Inv, HandlerFits, Moved, Writing, Returning, IsMutation
<1> QED
  BY <1>0, <1>1, <1>2, <1>4, <1>5, <1>6, HandlerStep, Kept, NoAuthor DEF Moved

\* An OAuth state runs out.
LEMMA ExpireStep ==
    ASSUME Inv, NEW o \in Ops, StateExpires(o)
    PROVE  Inv'
<1>0. /\ states[o] = "issued" /\ states' = [states EXCEPT ![o] = "expired"]
      /\ UNCHANGED <<fileVars, serviceVars, tests, passed, exchanges, audit, lock, op, faults>>
  BY DEF StateExpires
<1>1. /\ ShapeOK' /\ HandlersOK' /\ faults' >= faults /\ states'[o] = "expired"
      /\ \A r \in Ops \ {o} : states'[r] = states[r]
  BY <1>0 DEF Inv, ShapeOK, HandlersOK, fileVars
<1>2. HandlerFits(o)'
  BY <1>0, <1>1
     DEF Inv, HandlerFits, Writing, Returning, IsMutation, Domain, Check, Visible,
         PassedWith, OAuthAssembled, fileVars, serviceVars
<1>3. lock' = o => /\ op'[o].pc \in Writing /\ op'[o].call.verb \in Mutations
                   /\ audit'[o] = "started"
  BY <1>0, ConfigAssumption DEF Inv, HolderWrites, IsMutation
<1> QED
  BY <1>0, <1>1, <1>2, <1>3, HandlerStep, Kept, NoAuthor

\* The callback consumes the state: oauth_connection_test_callback.
LEMMA CallbackStep ==
    ASSUME Inv, NEW o \in Ops, oauth_connection_test_callback(o)
    PROVE  Inv'
<1>0. /\ OAuthAssembled /\ states[o] = "issued" /\ states' = [states EXCEPT ![o] = "consumed"]
      /\ op[o].pc \in {"idle", "issued", "done", "unavailable"}
      /\ op[o].call \in Calls[o] /\ op[o].call.verb = "oauth" /\ exchanges[o] = 0
      /\ UNCHANGED <<fileVars, serviceVars, tests, passed, exchanges, audit, lock, faults>>
  BY DEF oauth_connection_test_callback, InFlight, Inv, HandlerFits, ShapeOK
<1>1. Moved(o, "callback") /\ op'[o].call = op[o].call
  BY GotoMoves DEF Inv, ConfigPcs, oauth_connection_test_callback
<1>2. /\ ShapeOK' /\ faults' >= faults /\ states'[o] = "consumed"
      /\ \A r \in Ops \ {o} : states'[r] = states[r]
  BY <1>0 DEF Inv, ShapeOK, fileVars
<1>3. HandlerFits(o)'
  BY <1>0, <1>1, <1>2 DEF HandlerFits, Moved, Writing, Returning, OAuthAssembled, serviceVars
<1>4. lock # o
  BY <1>0, NoHolder DEF Writing
<1> QED
  BY <1>0, <1>1, <1>2, <1>3, <1>4, HandlerStep, Kept, NoAuthor DEF Moved

\* The audit of the operation is looked up, then the file: _is_open_oauth_start.
LEMMA ReturnStep ==
    ASSUME Inv, NEW o \in Ops, _is_open_oauth_start(o) \/ ReadBound(o)
    PROVE  Inv'
<1>0. /\ op[o].pc \in {"callback", "open"}
      /\ op[o].call \in Calls[o] /\ op[o].call.verb = "oauth" /\ exchanges[o] = 0
      /\ states[o] = "consumed" /\ OAuthAssembled
      /\ UNCHANGED <<fileVars, serviceVars, tests, states, passed, exchanges, audit, lock>>
  BY DEF _is_open_oauth_start, ReadBound, At, probeVars, Inv, HandlerFits, Returning
<1>1. faults' \in Nat /\ faults' >= faults
  BY DEF Inv, ShapeOK, _is_open_oauth_start, ReadBound, Fault, NoFault
<1>2. ShapeOK'
  BY <1>0, <1>1 DEF Inv, ShapeOK, fileVars
<1>3. lock # o
  BY <1>0, NoHolder DEF Writing
<1>4. CASE \E pc \in {"open", "checked", "failing"} : Goto(o, pc)
  <2>1. PICK pc \in {"open", "checked", "failing"} : Goto(o, pc)
    BY <1>4
  <2>2. Moved(o, pc) /\ op'[o].call = op[o].call
    BY <2>1, GotoMoves DEF Inv, ConfigPcs
  <2>3. HandlerFits(o)'
    BY <1>0, <2>2
       DEF HandlerFits, Moved, Writing, Returning, OAuthAssembled, serviceVars, IsMutation,
           Mutations
  <2> QED
    BY <1>0, <1>1, <1>2, <1>3, <2>2, <2>3, HandlerStep, Kept, NoAuthor DEF Moved
<1>5. CASE End(o, "unavailable")
  <2>1. Moved(o, "unavailable")
    BY <1>5, EndMoves DEF Inv, ConfigPcs
  <2> QED
    BY <1>0, <1>1, <1>2, <1>3, <1>5, <2>1, HandlerStep, EndFits, Kept, NoAuthor
       DEF Moved, serviceVars
<1> QED
  BY <1>4, <1>5 DEF _is_open_oauth_start, ReadBound

\* The code is exchanged with the document of the bound generation: finish_oauth_test.
LEMMA FinishStep ==
    ASSUME Inv, NEW o \in Ops, finish_oauth_test(o)
    PROVE  Inv'
<1>0. /\ op[o].pc = "checked"
      /\ op[o].call \in Calls[o] /\ op[o].call.verb = "oauth" /\ exchanges[o] = 0
      /\ states[o] = "consumed" /\ OAuthAssembled
      /\ UNCHANGED <<fileVars, serviceVars, tests, states, audit, lock>>
  BY DEF finish_oauth_test, At, Inv, HandlerFits, Returning
<1>1. faults' \in Nat /\ faults' >= faults
  BY DEF Inv, ShapeOK, finish_oauth_test, Fault, NoFault
<1>2. lock # o
  BY <1>0, NoHolder DEF Writing
<1>3. CASE /\ web_holds_feishu_generation(op[o].seen.gen)
           /\ exchanges' = [exchanges EXCEPT ![o] = @ + 1]
           /\ \E v \in Verdicts :
                /\ _verdict(o, v, "probed")
                /\ passed' = IF v = "passed"
                             THEN passed \cup {<<"feishu_oauth", held["feishu"][Web]>>}
                             ELSE passed
  <2>1. PICK v \in Verdicts :
                /\ _verdict(o, v, "probed")
                /\ passed' = IF v = "passed"
                             THEN passed \cup {<<"feishu_oauth", held["feishu"][Web]>>}
                             ELSE passed
    BY <1>3
  <2>2. /\ Moved(o, "probed") /\ op'[o].call = op[o].call /\ op'[o].seen = op[o].seen
        /\ op'[o].verdict = v
    BY <2>1, VerdictMoves DEF Inv, ConfigPcs
  <2>3. /\ exchanges' \in [Ops -> {0, 1}]
        /\ \A r \in Ops \ {o} : exchanges'[r] = exchanges[r]
    BY <1>0, <1>3 DEF Inv, ShapeOK
  <2>4. ShapeOK' /\ passed \subseteq passed'
    BY <1>0, <1>1, <2>1, <2>3 DEF Inv, ShapeOK, fileVars
  <2>5. v = "passed" => PassedWith(Check(o), op[o].seen.gen)'
    <3>1. Check(o) = "feishu_oauth"
      BY <1>0, CallAssumption DEF Check
    <3>2. held["feishu"][Web].gen = op[o].seen.gen
      BY <1>0, <1>3 DEF Inv, AdapterFits, web_holds_feishu_generation
    <3>3. PICK w \in written : w.domain = "feishu" /\ w.doc = held["feishu"][Web]
      BY <1>0 DEF Inv, AdapterFits, Visible
    <3> QED
      BY <1>0, <2>1, <2>2, <3>1, <3>2, <3>3 DEF PassedWith, Check, DomainOf, fileVars
  <2>6. HandlerFits(o)'
    BY <1>0, <2>2, <2>5 DEF HandlerFits, Moved, Writing, Returning
  <2> QED
    BY <1>0, <1>1, <1>2, <2>2, <2>3, <2>4, <2>6, HandlerStep, Kept, NoAuthor DEF Moved
<1>4. CASE Goto(o, "failing") /\ UNCHANGED <<passed, exchanges>>
  <2>1. Moved(o, "failing") /\ op'[o].call = op[o].call
    BY <1>4, GotoMoves DEF Inv, ConfigPcs
  <2>2. HandlerFits(o)'
    BY <1>0, <1>4, <2>1 DEF HandlerFits, Moved, Writing, Returning, IsMutation, Mutations
  <2>3. ShapeOK'
    BY <1>0, <1>1, <1>4 DEF Inv, ShapeOK, fileVars
  <2> QED
    BY <1>0, <1>1, <1>2, <1>4, <2>1, <2>2, <2>3, HandlerStep, Kept, NoAuthor DEF Moved
<1> QED
  BY <1>3, <1>4 DEF finish_oauth_test, Verdicts

-----------------------------------------------------------------------------
(* Writes.                                                                 *)

\* A write that leaves the file alone: a refused change, a failed replace.
LEMMA FailedWrite ==
    ASSUME Inv, NEW o \in Ops, op[o].pc = "read", IsMutation(o), Goto(o, "failing"),
           UNCHANGED <<fileVars, serviceVars, probeVars, audit, lock>>,
           faults' \in Nat, faults' >= faults
    PROVE  Inv'
<1>0. /\ op[o].call \in Calls[o] /\ states[o] = "none" /\ lock = o
      /\ audit[o] = "started"
  BY ConfigAssumption DEF Inv, HandlerFits, HolderWrites, Writing
<1>1. Moved(o, "failing") /\ op'[o].call = op[o].call
  BY GotoMoves DEF Inv, ConfigPcs
<1>2. HandlerFits(o)'
  BY <1>0, <1>1 DEF Inv, HandlerFits, Moved, Writing, Returning, probeVars
<1>3. ShapeOK'
  BY DEF Inv, ShapeOK, fileVars, probeVars
<1>4. TestsFit' /\ \A w \in written : w.by # o
  BY Kept, NoAuthor DEF probeVars
<1>5. /\ \A r \in Ops \ {o} : /\ op'[r] = op[r] /\ audit'[r] = audit[r]
                              /\ states'[r] = states[r] /\ exchanges'[r] = exchanges[r]
      /\ HandlersOK' /\ passed' = passed /\ lock' = lock
      /\ op'[o].pc \in Writing /\ op'[o].call.verb \in Mutations /\ audit'[o] = "started"
  BY <1>0, <1>1 DEF Moved, Writing, IsMutation, probeVars
<1> QED
  BY <1>2, <1>3, <1>4, <1>5, HandlerStep

\* A document replaces the one its writer has read, one generation on.
LEMMA ReplacedFile ==
    ASSUME Inv, NEW o \in Ops, op[o].pc = "read", IsMutation(o),
           NEW d, d = Domain(o), NEW doc, doc.gen = op[o].seen.gen + 1,
           file' = [file EXCEPT ![d] = doc], readable' = [readable EXCEPT ![d] = TRUE],
           written' = written \cup {[domain |-> d, doc |-> doc, by |-> o]},
           \/ durable' = [durable EXCEPT ![d] = doc] /\ Goto(o, "wrote") /\ NoFault
           \/ UNCHANGED durable /\ Goto(o, "failing") /\ Fault,
           UNCHANGED <<lost, outages, serviceVars, probeVars, audit, lock>>
    PROVE  Inv'
<1> DEFINE new == [domain |-> d, doc |-> doc, by |-> o]
<1>0. /\ op[o].call \in Calls[o] /\ states[o] = "none" /\ lock = o
      /\ audit[o] = "started" /\ op[o].seen = file[d]
  BY ConfigAssumption DEF Inv, HandlerFits, HolderWrites, Writing
<1>1. d \in ConfigDomain
  BY <1>0, CallAssumption DEF Domain
<1>2. \A e \in ConfigDomain : file[e].gen \in Nat /\ durable[e].gen \in Nat
  BY DEF Inv, DocumentsFit, Visible
<1>3. doc.gen \in Nat /\ doc.gen = file[d].gen + 1
  BY <1>0, <1>1, <1>2
<1>4. /\ file' = [e \in ConfigDomain |-> IF e = d THEN doc ELSE file[e]]
      /\ \/ durable' = durable
         \/ durable' = [e \in ConfigDomain |-> IF e = d THEN doc ELSE durable[e]]
  BY <1>1 DEF Inv, ShapeOK
<1>5. PICK pc \in {"wrote", "failing"} :
        /\ Moved(o, pc) /\ op'[o].call = op[o].call
        /\ pc = "wrote" => durable'[d] = doc
        /\ pc = "failing" => faults' > 0
  <2>1. CASE durable' = [durable EXCEPT ![d] = doc] /\ Goto(o, "wrote") /\ NoFault
    <3>1. durable'[d] = doc
      BY <1>1, <2>1 DEF Inv, ShapeOK
    <3> QED
      BY <2>1, <3>1, GotoMoves DEF Inv, ConfigPcs
  <2>2. CASE UNCHANGED durable /\ Goto(o, "failing") /\ Fault
    <3>1. faults' > 0
      BY <2>2 DEF Fault, Inv, ShapeOK
    <3> QED
      BY <2>2, <3>1, GotoMoves DEF Inv, ConfigPcs
  <2> QED
    BY <2>1, <2>2
<1>6. faults' \in Nat /\ faults' >= faults
  BY DEF Inv, ShapeOK, Fault, NoFault
<1>7. ShapeOK'
  <2>1. /\ file' = [e \in ConfigDomain |-> file'[e]]
        /\ durable' = [e \in ConfigDomain |-> durable'[e]]
    <3>1. file' = [e \in ConfigDomain |-> file'[e]]
      BY <1>4
    <3>2. durable' = [e \in ConfigDomain |-> durable'[e]]
      BY <1>4 DEF Inv, ShapeOK
    <3> QED
      BY <3>1, <3>2
  <2>2. readable' \in [ConfigDomain -> BOOLEAN]
    BY DEF Inv, ShapeOK
  <2> QED
    BY <1>6, <2>1, <2>2 DEF Inv, ShapeOK, probeVars
<1>8. HandlersOK' /\ HolderWrites'
  BY <1>0, <1>5 DEF Moved, HolderWrites, Writing, IsMutation
<1>9. \A e, x : Visible(e, x) => Visible(e, x)'
  BY DEF Visible
<1>10. \A c, g : PassedWith(c, g) => PassedWith(c, g)'
  BY DEF PassedWith, probeVars
<1>11. new.domain = d /\ new.doc = doc /\ new.by = o /\ new \in written'
  OBVIOUS
<1>12. DocumentsFit'
  <2>1. \A w \in written : /\ w.domain \in ConfigDomain /\ w.doc.gen \in Nat
                           /\ w.by \in Ops \cup {Nobody}
                           /\ lost \/ w.doc.gen <= file[w.domain].gen
    BY DEF Inv, DocumentsFit
  <2>2. \A w \in written' : /\ w.domain \in ConfigDomain /\ w.doc.gen \in Nat
                            /\ w.by \in Ops \cup {Nobody}
                            /\ lost' \/ w.doc.gen <= file'[w.domain].gen
    <3> TAKE w \in written'
    <3>1. CASE w = new
      BY <1>1, <1>3, <1>4, <3>1
    <3>2. CASE w \in written
      <4>1. file[w.domain].gen <= file'[w.domain].gen /\ file'[w.domain].gen \in Nat
        BY <1>2, <1>3, <1>4, <2>1, <3>2
      <4> QED
        BY <1>2, <2>1, <3>2, <4>1
    <3> QED
      BY <3>1, <3>2
  <2>3. \A e \in ConfigDomain : /\ Visible(e, file[e])' /\ Visible(e, durable[e])'
                                /\ durable'[e].gen <= file'[e].gen
    <3> TAKE e \in ConfigDomain
    <3>1. Visible(e, file[e]) /\ Visible(e, durable[e]) /\ durable[e].gen <= file[e].gen
      BY DEF Inv, DocumentsFit
    <3>2. CASE e = d
      <4>1. file'[e] = doc /\ durable'[e] \in {doc, durable[e]}
        BY <1>1, <1>4, <3>2
      <4>2. \E w \in written' : w.domain = e /\ w.doc = doc
        BY <1>11, <3>2
      <4>3. \E w \in written' : w.domain = e /\ w.doc = durable'[e]
        BY <3>1, <4>1, <4>2 DEF Visible
      <4>4. durable'[e].gen <= file'[e].gen
        BY <1>2, <1>3, <3>1, <3>2, <4>1
      <4> QED
        BY <4>1, <4>2, <4>3, <4>4 DEF Visible
    <3>3. CASE e # d
      <4>1. file'[e] = file[e] /\ durable'[e] = durable[e]
        BY <1>4, <3>3
      <4> QED
        BY <3>1, <4>1 DEF Visible
    <3> QED
      BY <3>2, <3>3
  <2>4. GenerationNamesContent'
    <3> SUFFICES ASSUME ~ lost, NEW v \in written', NEW w \in written',
                        v.domain = w.domain, v.doc.gen = w.doc.gen
                 PROVE  v.doc = w.doc
      BY DEF GenerationNamesContent
    <3>1. \A x \in written : x.domain = d => x.doc.gen # doc.gen
      BY <1>2, <1>3, <1>1, <2>1
    <3>2. CASE v \in written /\ w \in written
      BY <3>2 DEF Inv, DocumentsFit, GenerationNamesContent
    <3>3. CASE v = new \/ w = new
      BY <3>1, <3>3, <1>11
    <3> QED
      BY <3>2, <3>3
  <2> QED
    BY <2>2, <2>3, <2>4 DEF DocumentsFit
<1>13. \A r \in Ops : HandlerFits(r)'
  <2> TAKE r \in Ops
  <2>0. HandlerFits(r)
    BY DEF Inv
  <2>1. CASE r = o
    BY <1>0, <1>5, <2>0, <2>1 DEF HandlerFits, Moved, Writing, Returning, probeVars
  <2>2. CASE r # o
    <3>1. /\ op'[r] = op[r] /\ states'[r] = states[r] /\ exchanges'[r] = exchanges[r]
          /\ held' = held /\ lock' = lock
      BY <1>5, <2>2 DEF Moved, probeVars, serviceVars
    <3>2. ~ (op[r].pc = "read" /\ IsMutation(r))
      BY <1>0, <2>0, <2>2 DEF HandlerFits, Writing
    <3> QED
      BY <2>0, <3>1, <3>2, <1>9, <1>10
         DEF HandlerFits, IsMutation, Domain, Check, OAuthAssembled
  <2> QED
    BY <2>1, <2>2
<1>14. \A w \in written' : AuthorFits(w)'
  <2> TAKE w \in written'
  <2>1. CASE w = new
    <3>1. w.by = o /\ w.domain = d /\ w.doc = doc
      BY <2>1
    <3> QED
      BY <1>0, <1>3, <1>5, <3>1 DEF AuthorFits, Moved, probeVars
  <2>2. CASE w \in written
    <3>1. AuthorFits(w) /\ w.by # o /\ w.domain \in ConfigDomain /\ w.doc.gen \in Nat
          /\ w.by \in Ops \cup {Nobody}
      BY <2>2, NoAuthor DEF Inv, DocumentsFit
    <3>2. durable'[w.domain].gen \in Nat /\ durable'[w.domain].gen >= durable[w.domain].gen
      <4>1. durable[d].gen <= file[d].gen
        BY <1>1 DEF Inv, DocumentsFit
      <4> QED
        BY <1>2, <1>3, <1>4, <3>1, <4>1
    <3>3. faults > 0 => faults' > 0
      BY <1>6 DEF Inv, ShapeOK
    <3>4. durable[w.domain].gen >= w.doc.gen => durable'[w.domain].gen >= w.doc.gen
      BY <1>2, <3>1, <3>2
    <3> QED
      BY <1>5, <3>1, <3>3, <3>4 DEF AuthorFits, Moved, probeVars
  <2> QED
    BY <2>1, <2>2
<1>15. TestsFit' /\ AdapterFits'
  BY <1>9, <1>10 DEF Inv, TestsFit, AdapterFits, OAuthAssembled, probeVars, serviceVars
<1> QED
  BY <1>7, <1>8, <1>12, <1>13, <1>14, <1>15 DEF Inv

\* _mutate and _mutate_resources keep the invariant.
LEMMA WriteStep ==
    ASSUME Inv, NEW o \in Ops, _mutate(o) \/ _mutate_resources(o)
    PROVE  Inv'
<1>0. /\ op[o].pc = "read" /\ IsMutation(o)
      /\ UNCHANGED <<serviceVars, probeVars, audit, lock>>
  BY DEF _mutate, _mutate_resources, At
<1>1. NextDocument(o).gen = op[o].seen.gen + 1
  BY DEF NextDocument
<1>2. \/ Goto(o, "failing") /\ NoFault /\ UNCHANGED fileVars
      \/ _atomic_write(o, Domain(o), NextDocument(o))
  BY DEF _mutate, _mutate_resources
<1>3. CASE Goto(o, "failing") /\ UNCHANGED fileVars /\ (Fault \/ NoFault)
  <2>1. faults' \in Nat /\ faults' >= faults
    BY <1>3 DEF Inv, ShapeOK, Fault, NoFault
  <2> QED
    BY <1>0, <1>3, <2>1, FailedWrite
<1>4. CASE ~ (Goto(o, "failing") /\ UNCHANGED fileVars /\ (Fault \/ NoFault))
  <2> DEFINE doc == NextDocument(o)
  <2>1. /\ file' = [file EXCEPT ![Domain(o)] = doc]
        /\ readable' = [readable EXCEPT ![Domain(o)] = TRUE]
        /\ written' = written \cup {[domain |-> Domain(o), doc |-> doc, by |-> o]}
        /\ \/ durable' = [durable EXCEPT ![Domain(o)] = doc] /\ Goto(o, "wrote") /\ NoFault
           \/ UNCHANGED durable /\ Goto(o, "failing") /\ Fault
        /\ UNCHANGED <<lost, outages>>
    BY <1>2, <1>4 DEF _atomic_write
  <2>2. doc.gen = op[o].seen.gen + 1
    BY <1>1
  <2> HIDE DEF doc
  <2> QED
    BY <1>0, <2>1, <2>2, ReplacedFile
<1> QED
  BY <1>3, <1>4

-----------------------------------------------------------------------------
(* Processes and files on their own.                                       *)

\* A step that only makes a file unreadable or readable, or none at all.
LEMMA QuietStep ==
    ASSUME Inv, readable' \in [ConfigDomain -> BOOLEAN],
           UNCHANGED <<file, durable, written, lost, serviceVars, probeVars, audit, op, lock, faults>>
    PROVE  Inv'
<1>1. ShapeOK' /\ HandlersOK' /\ HolderWrites'
  BY DEF Inv, ShapeOK, HandlersOK, HolderWrites, IsMutation, probeVars
<1>2. DocumentsFit' /\ TestsFit' /\ AdapterFits'
  BY DEF Inv, DocumentsFit, Visible, GenerationNamesContent, TestsFit, PassedWith,
         AdapterFits, OAuthAssembled, serviceVars, probeVars
<1>3. \A o \in Ops : HandlerFits(o)'
  BY DEF Inv, HandlerFits, IsMutation, Domain, Check, Visible, PassedWith, OAuthAssembled,
         serviceVars, probeVars
<1>4. \A w \in written' : AuthorFits(w)'
  BY DEF Inv, AuthorFits, probeVars
<1> QED
  BY <1>1, <1>2, <1>3, <1>4 DEF Inv

\* The death of the Web process leaves no handler running and the lock free.
LEMMA DeadHandlers ==
    ASSUME Inv, WebDies, UNCHANGED <<probeVars, audit, faults, durable, written>>
    PROVE  /\ HandlersOK' /\ HolderWrites' /\ TestsFit'
           /\ \A o \in Ops : HandlerFits(o)'
           /\ \A w \in written' : AuthorFits(w)'
<1> DEFINE Gone(o) == [Idle EXCEPT !.pc = "unavailable"]
           Stays(o) == [op[o] EXCEPT !.pc = "unavailable"]
<1>1. op' = [o \in Ops |-> IF InFlight(o) THEN Ended(o, "unavailable") ELSE op[o]]
  BY DEF WebDies
<1>2. ASSUME NEW o \in Ops
      PROVE  /\ IsHandler(op'[o]) /\ op'[o].verdict \in Verdicts /\ op'[o].seen.gen \in Nat
             /\ \/ op'[o] = op[o] /\ op[o].pc \in {"idle", "issued", "done", "unavailable"}
                \/ /\ op'[o].pc = "unavailable"
                   /\ states[o] = "issued" => op'[o].call = op[o].call
  <2>1. CASE ~ InFlight(o)
    BY <1>1, <2>1 DEF InFlight, Inv, HandlersOK
  <2>2. CASE InFlight(o) /\ states[o] = "issued"
    <3> DEFINE g == op[o]
               h == [g EXCEPT !.pc = "unavailable"]
    <3>1. op'[o] = h
      BY <1>1, <2>2 DEF Ended
    <3>2. IsHandler(g) /\ g.verdict \in Verdicts /\ g.seen.gen \in Nat
      BY DEF Inv, HandlersOK
    <3>3. /\ IsHandler(h) /\ h.pc = "unavailable" /\ h.call = g.call /\ h.seen = g.seen
          /\ h.verdict = g.verdict
      <4> HIDE DEF g
      <4> QED
        BY <3>2 DEF IsHandler
    <3> HIDE DEF h
    <3> QED
      BY <3>1, <3>2, <3>3
  <2>3. CASE InFlight(o) /\ states[o] # "issued"
    <3> DEFINE h == [Idle EXCEPT !.pc = "unavailable"]
    <3>1. op'[o] = h
      BY <1>1, <2>3 DEF Ended
    <3>2. IsHandler(h) /\ h.pc = "unavailable" /\ h.seen.gen = 0 /\ h.verdict = "failed"
      BY DEF Idle, IsHandler
    <3> HIDE DEF h
    <3> QED
      BY <2>3, <3>1, <3>2 DEF Verdicts
  <2> QED
    BY <2>1, <2>2, <2>3
<1>3. HandlersOK'
  <2>1. op' = [o \in Ops |-> op'[o]]
    BY <1>1
  <2>2. \A o \in Ops : op'[o].pc \in ConfigPcs
    BY <1>2 DEF ConfigPcs
  <2> QED
    BY <1>2, <2>1, <2>2 DEF HandlersOK
<1>4. HolderWrites'
  BY DEF WebDies, HolderWrites
<1>5. TestsFit'
  BY DEF Inv, TestsFit, PassedWith, probeVars
<1>6. \A o \in Ops : HandlerFits(o)'
  <2> TAKE o \in Ops
  <2>1. HandlerFits(o) /\ states'[o] = states[o] /\ exchanges'[o] = exchanges[o]
    BY DEF Inv, probeVars
  <2> QED
    BY <1>2, <2>1 DEF HandlerFits, Writing, Returning, IsMutation
<1>7. \A w \in written' : AuthorFits(w)'
  <2> TAKE w \in written'
  <2>1. AuthorFits(w) /\ w.by \in Ops \cup {Nobody}
    BY DEF Inv, DocumentsFit
  <2> QED
    BY <1>2, <2>1 DEF AuthorFits, probeVars
<1> QED
  BY <1>3, <1>4, <1>5, <1>6, <1>7

\* A start makes adapter and receipt from one reading of the files.
LEMMA Loaded ==
    ASSUME Inv, NEW S, NEW f, NEW ok, load_provider_credentials(S, f, ok),
           record_load(S, f, ok), \A d \in ConfigDomain : Visible(d, f[d]),
           UNCHANGED written
    PROVE  AdapterFits'
<1>0. "feishu" \in ConfigDomain /\ Web \in Services
  BY ConfigAssumption DEF ConfigDomain
<1>1. CASE Web \notin S
  <2>1. /\ held'["feishu"][Web] = held["feishu"][Web]
        /\ receipts'["feishu"][Web] = receipts["feishu"][Web]
    BY <1>0, <1>1 DEF load_provider_credentials, record_load
  <2> QED
    BY <2>1 DEF Inv, AdapterFits, OAuthAssembled, Visible
<1>2. CASE Web \in S /\ Loads("feishu", Web, f, ok) /\ Usable("feishu", f["feishu"])
  <2>1. /\ held'["feishu"][Web] = f["feishu"]
        /\ receipts'["feishu"][Web] = LoadReceipt("feishu", f["feishu"])
    BY <1>0, <1>2 DEF load_provider_credentials, record_load
  <2>2. Visible("feishu", f["feishu"])'
    BY <1>0 DEF Visible
  <2> QED
    BY <1>2, <2>1, <2>2 DEF AdapterFits, LoadReceipt, Visible
<1>3. CASE Web \in S /\ ~ (Loads("feishu", Web, f, ok) /\ Usable("feishu", f["feishu"]))
  <2>1. held'["feishu"][Web] = Missing("feishu")
    BY <1>0, <1>3 DEF load_provider_credentials
  <2>2. ~ (Missing("feishu").gen > 0)
    BY DEF Missing
  <2> QED
    BY <2>1, <2>2 DEF AdapterFits, OAuthAssembled
<1> QED
  BY <1>1, <1>2, <1>3

\* A process starts again.
LEMMA RestartStep ==
    ASSUME Inv, NEW s \in Services, Restart(s)
    PROVE  Inv'
<1>0. /\ load_provider_credentials({s}, file, readable) /\ record_load({s}, file, readable)
      /\ UNCHANGED <<fileVars, probeVars, audit, faults>>
  BY DEF Restart
<1>1. AdapterFits'
  BY <1>0, Loaded DEF Inv, DocumentsFit, fileVars
<1>2. DocumentsFit'
  BY <1>0 DEF Inv, DocumentsFit, Visible, GenerationNamesContent, fileVars
<1>3. CASE s = Web
  <2>1. WebDies
    BY <1>3 DEF Restart
  <2>2. ShapeOK'
    BY <1>0, <2>1 DEF Inv, ShapeOK, fileVars, probeVars, WebDies
  <2> QED
    BY <1>0, <1>1, <1>2, <2>1, <2>2, DeadHandlers DEF Inv, fileVars
<1>4. CASE s # Web
  <2>1. UNCHANGED <<op, lock>>
    BY <1>4 DEF Restart
  <2>2. ShapeOK' /\ HandlersOK' /\ HolderWrites' /\ TestsFit'
    BY <1>0, <2>1
       DEF Inv, ShapeOK, HandlersOK, HolderWrites, IsMutation, TestsFit, PassedWith,
           fileVars, probeVars
  <2>3. held'["feishu"][Web] = held["feishu"][Web]
    BY <1>0, <1>4, ConfigAssumption DEF load_provider_credentials, ConfigDomain
  <2>4. \A o \in Ops : HandlerFits(o)'
    BY <1>0, <2>1, <2>3
       DEF Inv, HandlerFits, IsMutation, Domain, Check, Visible, PassedWith, OAuthAssembled,
           fileVars, probeVars
  <2>5. \A w \in written' : AuthorFits(w)'
    BY <1>0, <2>1 DEF Inv, AuthorFits, fileVars, probeVars
  <2> QED
    BY <1>1, <1>2, <2>2, <2>4, <2>5 DEF Inv
<1> QED
  BY <1>3, <1>4

\* The power fails: what was not durable is gone, and so is every handler.
LEMMA PowerLossStep ==
    ASSUME Inv, PowerLoss
    PROVE  Inv'
<1>0. /\ file' = durable /\ lost' = (lost \/ file # durable) /\ WebDies
      /\ load_provider_credentials(Services, durable, readable)
      /\ record_load(Services, durable, readable)
      /\ UNCHANGED <<probeVars, durable, readable, written, audit, faults>>
  BY DEF PowerLoss
<1>1. AdapterFits'
  BY <1>0, Loaded DEF Inv, DocumentsFit
<1>2. DocumentsFit'
  <2>1. \A d \in ConfigDomain : /\ Visible(d, durable[d]) /\ durable[d].gen <= durable[d].gen
    BY DEF Inv, DocumentsFit, Visible
  <2>2. \A w \in written : /\ w.domain \in ConfigDomain /\ w.doc.gen \in Nat
                           /\ w.by \in Ops \cup {Nobody}
                           /\ lost' \/ w.doc.gen <= durable[w.domain].gen
    BY <1>0 DEF Inv, DocumentsFit
  <2>3. GenerationNamesContent'
    BY <1>0 DEF Inv, DocumentsFit, GenerationNamesContent
  <2> QED
    BY <1>0, <2>1, <2>2, <2>3 DEF DocumentsFit, Visible
<1>3. ShapeOK'
  BY <1>0 DEF Inv, ShapeOK, probeVars, WebDies
<1> QED
  BY <1>0, <1>1, <1>2, <1>3, DeadHandlers DEF Inv

\* The invariant holds at first.
LEMMA InitInv == Init => Inv
<1> SUFFICES ASSUME Init
             PROVE  Inv
  OBVIOUS
<1>0. PICK docs \in Documents : file = [d \in ConfigDomain |-> docs[d]]
  BY DEF Init
<1>1. /\ durable = file /\ lock = Nobody /\ lost = FALSE /\ faults = 0 /\ passed = {}
      /\ readable = [d \in ConfigDomain |-> TRUE] /\ audit = [o \in Ops |-> "none"]
      /\ states = [o \in Ops |-> "none"] /\ exchanges = [o \in Ops |-> 0]
      /\ tests = [c \in CheckName |-> NoTest] /\ op = [o \in Ops |-> Idle]
      /\ written = {[domain |-> d, doc |-> file[d], by |-> Nobody] : d \in ConfigDomain}
  BY DEF Init
<1>2. \A d \in ConfigDomain : file[d].gen \in Nat
  BY <1>0, CallAssumption
<1>3. ShapeOK
  BY <1>0, <1>1 DEF ShapeOK, NoTest, Verdicts
<1>4. HandlersOK /\ \A o \in Ops : op[o].pc = "idle"
  BY <1>1 DEF HandlersOK, Idle, IsHandler, ConfigPcs, Verdicts
<1>5. DocumentsFit
  <2> DEFINE First(d) == [domain |-> d, doc |-> file[d], by |-> Nobody]
  <2>1. /\ \A d \in ConfigDomain : /\ First(d) \in written /\ First(d).domain = d
                                   /\ First(d).doc = file[d]
        /\ \A w \in written : \E d \in ConfigDomain : w = First(d)
    BY <1>1
  <2>2. \A d \in ConfigDomain : Visible(d, file[d])
    <3> HIDE DEF First
    <3> QED
      BY <2>1 DEF Visible
  <2>3. \A w \in written : /\ w.domain \in ConfigDomain /\ w.doc = file[w.domain]
                           /\ w.by = Nobody
    BY <2>1
  <2>4. GenerationNamesContent
    BY <2>3 DEF GenerationNamesContent
  <2> QED
    BY <1>1, <1>2, <2>2, <2>3, <2>4 DEF DocumentsFit
<1>6. \A o \in Ops : HandlerFits(o)
  BY <1>1, <1>4 DEF HandlerFits, Writing, Returning
<1>7. HolderWrites /\ TestsFit /\ \A w \in written : AuthorFits(w)
  BY <1>1 DEF HolderWrites, TestsFit, NoTest, AuthorFits
<1>8. AdapterFits
  <2> SUFFICES ASSUME OAuthAssembled
               PROVE  /\ Visible("feishu", held["feishu"][Web])
                      /\ receipts["feishu"][Web]
                           = [gen |-> held["feishu"][Web].gen, status |-> "loaded"]
    BY DEF AdapterFits
  <2>0. "feishu" \in ConfigDomain /\ Web \in Services
    BY ConfigAssumption DEF ConfigDomain
  <2>1. held["feishu"][Web] = IF Web \in RequiredBy["feishu"] /\ Usable("feishu", file["feishu"])
                              THEN file["feishu"] ELSE Missing("feishu")
    BY <2>0 DEF Init
  <2>2. ~ (Missing("feishu").gen > 0)
    BY DEF Missing
  <2>3. /\ Web \in RequiredBy["feishu"] /\ Usable("feishu", file["feishu"])
        /\ held["feishu"][Web] = file["feishu"]
    BY <2>1, <2>2 DEF OAuthAssembled
  <2>4. receipts["feishu"][Web] = LoadReceipt("feishu", file["feishu"])
    BY <2>0, <2>3 DEF Init, OAuthAssembled
  <2> QED
    BY <2>0, <2>3, <2>4, <1>5 DEF LoadReceipt, DocumentsFit
<1> QED
  BY <1>3, <1>4, <1>5, <1>6, <1>7, <1>8 DEF Inv

\* Every step keeps the invariant.
LEMMA NextInv == Inv /\ [Next]_vars => Inv'
<1> SUFFICES ASSUME Inv, [Next]_vars
             PROVE  Inv'
  OBVIOUS
<1>1. ASSUME NEW o \in Ops, _deny_unless_allowed(o) \/ \E call \in Calls[o] : Request(o, call)
      PROVE  Inv'
  BY <1>1, DenyStep, RequestStep
<1>2. ASSUME NEW o \in Ops, Step(o)
      PROVE  Inv'
  BY <1>2, StartStep, TerminalStep, ReadStep, WriteStep, ProbeStep, RecordStep,
     StartOAuthStep, ReturnStep, FinishStep DEF Step
<1>3. ASSUME NEW o \in Ops, StateExpires(o) \/ oauth_connection_test_callback(o)
      PROVE  Inv'
  BY <1>3, ExpireStep, CallbackStep
<1>4. CASE \E s \in Services : Restart(s)
  BY <1>4, RestartStep
<1>5. CASE PowerLoss
  BY <1>5, PowerLossStep
<1>6. ASSUME NEW d \in ConfigDomain, FileOutage(d) \/ FileRepair(d)
      PROVE  Inv'
  <2>1. readable' \in [ConfigDomain -> BOOLEAN]
    BY <1>6 DEF FileOutage, FileRepair, Inv, ShapeOK
  <2> QED
    BY <1>6, <2>1, QuietStep DEF FileOutage, FileRepair
<1>7. CASE UNCHANGED vars
  <2>1. readable' \in [ConfigDomain -> BOOLEAN]
    BY <1>7 DEF vars, Inv, ShapeOK
  <2> QED
    BY <1>7, <2>1, QuietStep DEF vars, serviceVars, probeVars
<1> QED
  BY <1>1, <1>2, <1>3, <1>4, <1>5, <1>6, <1>7 DEF Next

\* The invariant holds in every reachable state of every deployment.
LEMMA ConfigInvariant == Spec => []Inv
BY InitInv, NextInv, PTL DEF Spec

-----------------------------------------------------------------------------
(* The results.                                                            *)

\* Requests that overlap do not harm each other: the lock of the service is held by a
\* write that runs, so no save overwrites one it has not read (_mutate), and a consumed
\* OAuth state is exchanged at most once (oauth_connection_test_callback).
THEOREM OverlapsNeverHarm == Spec => []OverlapsAreHarmless
<1>1. Inv => OverlapsAreHarmless
  <2> SUFFICES ASSUME Inv
               PROVE  OverlapsAreHarmless
    OBVIOUS
  <2>1. ConfigTypeOK
    <3>1. \A d \in ConfigDomain : file[d].gen \in Nat /\ durable[d].gen \in Nat
      BY DEF Inv, DocumentsFit, Visible
    <3> QED
      BY <3>1 DEF Inv, ShapeOK, ConfigTypeOK, Verdicts
  <2>2. GenerationNamesContent
    BY DEF Inv, DocumentsFit
  <2>3. CodeExchangedOnce
    BY DEF Inv, ShapeOK, HandlerFits, CodeExchangedOnce
  <2>4. LockHasLiveHolder
    BY DEF Inv, HolderWrites, LockHasLiveHolder, InFlight, Writing
  <2> QED
    BY <2>1, <2>2, <2>3, <2>4 DEF OverlapsAreHarmless
<1> QED
  BY <1>1, ConfigInvariant, PTL

\* A page says "available" only of the document its check passed with, because a
\* generation names one document (_record), and it asks for a restart exactly when a
\* check waits for one (compute_display_state).
LEMMA PagesAreTrue == Inv => PageIsTrue
<1> SUFFICES ASSUME Inv
             PROVE  PageIsTrue
  OBVIOUS
<1>1. ASSUME ~ lost, NEW c \in CheckName, DisplayState(c) = "available"
      PROVE  <<c, file[DomainOf(c)]>> \in passed
  <2> DEFINE d == DomainOf(c)
  <2>0. d \in ConfigDomain
    BY DEF DomainOf, ConfigDomain
  <2>1. tests[c].gen = file[d].gen /\ tests[c].status = "passed"
    BY <1>1 DEF DisplayState, compute_display_state, current_generation
  <2>2. PICK w \in written : /\ w.domain = d /\ w.doc.gen = file[d].gen
                             /\ <<c, w.doc>> \in passed
    BY <2>1 DEF Inv, TestsFit, PassedWith
  <2>3. PICK v \in written : v.domain = d /\ v.doc = file[d]
    BY <2>0 DEF Inv, DocumentsFit, Visible
  <2>4. v.doc = w.doc
    BY <1>1, <2>2, <2>3 DEF Inv, DocumentsFit, GenerationNamesContent
  <2> QED
    BY <2>2, <2>3, <2>4
<1>2. ASSUME NEW d \in ProviderDomains
      PROVE  (PendingRestart(d) # {}) =
               (\E c \in CheckName : DomainOf(c) = d /\ DisplayState(c) = "pending_restart")
  <2> DEFINE usable == Usable(d, file[d])
             Waits(s) == receipts[d][s] # [gen |-> file[d].gen, status |-> "loaded"]
  <2>1. PendingRestart(d) # {} <=>
          usable /\ \E c \in CheckName : DomainOf(c) = d /\
                       \E s \in required_services_for_check(c) : Waits(s)
    BY DEF PendingRestart, _pending_restart_services, current_generation
  <2>2. ASSUME NEW c \in CheckName, DomainOf(c) = d
        PROVE  DisplayState(c) = "pending_restart" <=>
                 usable /\ \E s \in required_services_for_check(c) : Waits(s)
    BY <2>2 DEF DisplayState, compute_display_state, _every_required_service_loaded,
                current_generation
  <2>3. (PendingRestart(d) # {}) <=>
          \E c \in CheckName : DomainOf(c) = d /\ DisplayState(c) = "pending_restart"
    <3> HIDE DEF usable, Waits
    <3> QED
      BY <2>1, <2>2
  <2> QED
    BY <2>3
<1> QED
  BY <1>1, <1>2 DEF PageIsTrue

\* Neither the page nor the audit says of a document what is not so: _terminal reports
\* what _atomic_write knows to be durable.
THEOREM FilesAreToldTruly == Spec => []FileIsToldTruly
<1>1. Inv => AuditTellsTheFile
  BY DEF Inv, AuthorFits, AuditTellsTheFile
<1>2. Inv => FileIsToldTruly
  BY <1>1, PagesAreTrue DEF FileIsToldTruly
<1> QED
  BY <1>2, ConfigInvariant, PTL

-----------------------------------------------------------------------------
(* What a write makes of a document.                                       *)

\* The resources of every document ever visible have a secret or its absence.
Shaped ==
    \A w \in written : w.domain = "resources" =>
        \A i \in DOMAIN w.doc.body : "secret" \in DOMAIN w.doc.body[i]

\* The write of o replaces its document, and no other file changes.
Writes(o) ==
    /\ op[o].pc = "read" /\ IsMutation(o)
    /\ file' = [file EXCEPT ![Domain(o)] = NextDocument(o)]
    /\ written' = written \cup {[domain |-> Domain(o), doc |-> NextDocument(o), by |-> o]}
    /\ Domain(o) = "resources" => ~ IsRefused(NextDocument(o).body)

\* A document changes by a write or by a loss of power.
LEMMA FileMoves ==
    ASSUME Inv, [Next]_vars
    PROVE  \/ UNCHANGED <<file, written>>
           \/ lost' /\ UNCHANGED written
           \/ \E o \in Ops : Writes(o)
<1>1. ASSUME NEW o \in Ops, _deny_unless_allowed(o) \/ \E call \in Calls[o] : Request(o, call)
      PROVE  UNCHANGED <<file, written>>
  BY <1>1 DEF _deny_unless_allowed, Request, fileVars
<1>2. ASSUME NEW o \in Ops, _mutate(o) \/ _mutate_resources(o)
      PROVE  UNCHANGED <<file, written>> \/ Writes(o)
  <2>1. op[o].pc = "read" /\ IsMutation(o)
    BY <1>2 DEF _mutate, _mutate_resources, At
  <2>2. CASE UNCHANGED fileVars
    BY <2>2 DEF fileVars
  <2>3. CASE ~ UNCHANGED fileVars
    <3>1. /\ _atomic_write(o, Domain(o), NextDocument(o))
          /\ Domain(o) = "resources" => ~ IsRefused(NextDocument(o).body)
      BY <1>2, <2>3 DEF _mutate, _mutate_resources, ProviderDomains
    <3> QED
      BY <2>1, <2>3, <3>1 DEF _atomic_write, Writes
  <2> QED
    BY <2>2, <2>3
<1>3. ASSUME NEW o \in Ops, Step(o), ~ (_mutate(o) \/ _mutate_resources(o))
      PROVE  UNCHANGED <<file, written>>
  BY <1>3 DEF Step, _start, _terminal, _read, _probe, _record, start_oauth_test,
     _is_open_oauth_start, ReadBound, finish_oauth_test, fileVars
<1>4. ASSUME NEW o \in Ops, StateExpires(o) \/ oauth_connection_test_callback(o)
      PROVE  UNCHANGED <<file, written>>
  BY <1>4 DEF StateExpires, oauth_connection_test_callback, fileVars
<1>5. ASSUME NEW s \in Services, Restart(s)
      PROVE  UNCHANGED <<file, written>>
  BY <1>5 DEF Restart, fileVars
<1>6. CASE PowerLoss
  BY <1>6 DEF PowerLoss
<1>7. ASSUME NEW d \in ConfigDomain, FileOutage(d) \/ FileRepair(d)
      PROVE  UNCHANGED <<file, written>>
  BY <1>7 DEF FileOutage, FileRepair
<1>8. CASE UNCHANGED vars
  BY <1>8 DEF vars
<1> QED
  BY <1>1, <1>2, <1>3, <1>4, <1>5, <1>6, <1>7, <1>8 DEF Next

\* The resource changes: what is written keeps the shape, and every secret but the one
\* that is cleared or deleted (_merged_resource, _replace_one, create_resource).
LEMMA ResourceSecrets ==
    ASSUME NEW o \in Ops, op[o].call \in Calls[o], IsMutation(o), Domain(o) = "resources",
           \A i \in DOMAIN op[o].seen.body : "secret" \in DOMAIN op[o].seen.body[i],
           ~ IsRefused(NextDocument(o).body)
    PROVE  /\ \A i \in DOMAIN NextDocument(o).body : "secret" \in DOMAIN NextDocument(o).body[i]
           /\ \/ SecretOf("resources", op[o].seen.body)
                   \subseteq SecretOf("resources", NextDocument(o).body)
              \/ op[o].call.verb \in {"clear_ai", "clear_feishu", "clear_resource_secret",
                                     "delete_resource"}
<1> DEFINE call == op[o].call
           old == op[o].seen.body
           new == NextDocument(o).body
           Keeps == /\ \A i \in DOMAIN new : "secret" \in DOMAIN new[i]
                    /\ \A i \in DOMAIN old : i \in DOMAIN new /\
                          (old[i].secret # Absent => new[i].secret # Absent)
<1>0. /\ call.verb \in {"create_resource", "update_resource", "clear_resource_secret",
                        "delete_resource"}
      /\ new = NextBody(call, old)
      /\ call.verb = "create_resource" => "secret" \in DOMAIN call.update
      /\ call.verb = "update_resource" => call.update.secret # Absent
  BY CallAssumption DEF IsMutation, Mutations, Domain, NextDocument
<1>1. Keeps => SecretOf("resources", old) \subseteq SecretOf("resources", new)
  BY DEF SecretOf
<1>2. CASE call.verb = "create_resource"
  <2>1. new = create_resource(old, call.id, call.update)
    BY <1>0, <1>2 DEF NextBody
  <2>2. new = [i \in DOMAIN old \cup {call.id} |-> IF i = call.id THEN call.update ELSE old[i]]
        /\ call.id \notin DOMAIN old
    BY <2>1 DEF create_resource, IsRefused, Refused
  <2>3. Keeps
    BY <1>0, <1>2, <2>2
  <2> QED
    BY <1>1, <2>3
<1>3. CASE call.verb \in {"update_resource", "clear_resource_secret"}
  <2>1. PICK r : new = _replace_one(old, call.id, r) /\
                 r = IF call.verb = "update_resource"
                     THEN _merged_resource(old[call.id], call.update)
                     ELSE _without_secret(old[call.id])
    BY <1>0, <1>3 DEF NextBody, update_resource, clear_resource_secret
  <2>2. /\ call.id \in DOMAIN old /\ ~ IsRefused(r)
        /\ new = [old EXCEPT ![call.id] = r]
    BY <2>1 DEF _replace_one, IsRefused, Refused
  <2>3. "secret" \in DOMAIN r
    BY <2>1, <2>2 DEF _merged_resource, _without_secret, IsRefused, Refused
  <2>4. call.verb = "update_resource" /\ old[call.id].secret # Absent => r.secret # Absent
    BY <1>0, <2>1, <2>2 DEF _merged_resource, IsRefused, Refused, Carried
  <2> HIDE DEF new
  <2>5. /\ DOMAIN new = DOMAIN old /\ new[call.id] = r
        /\ \A i \in DOMAIN old \ {call.id} : new[i] = old[i]
    BY <2>2
  <2>6. \A i \in DOMAIN new : "secret" \in DOMAIN new[i]
    BY <2>3, <2>5
  <2>7. call.verb = "update_resource" => Keeps
    BY <2>4, <2>5, <2>6
  <2> QED
    BY <1>1, <1>3, <2>6, <2>7 DEF new
<1>4. CASE call.verb = "delete_resource"
  <2>1. new = delete_resource(old, call.id)
    BY <1>0, <1>4 DEF NextBody
  <2>2. new = [i \in DOMAIN old \ {call.id} |-> old[i]]
    BY <2>1 DEF delete_resource, IsRefused, Refused
  <2> QED
    BY <1>4, <2>2
<1> QED
  BY <1>0, <1>2, <1>3, <1>4

\* The provider documents: a merge keeps the secret it does not replace (_merged_gemini,
\* _merged_feishu).
LEMMA ProviderSecrets ==
    ASSUME NEW o \in Ops, op[o].call \in Calls[o], IsMutation(o), Domain(o) \in ProviderDomains
    PROVE  \/ SecretOf(Domain(o), op[o].seen.body) \subseteq SecretOf(Domain(o), NextDocument(o).body)
           \/ op[o].call.verb \in {"clear_ai", "clear_feishu", "clear_resource_secret",
                                  "delete_resource"}
<1> DEFINE call == op[o].call
<1>0. /\ call.verb \in {"save_ai", "save_feishu", "clear_ai", "clear_feishu"}
      /\ NextDocument(o).body = NextBody(call, op[o].seen.body)
      /\ call.verb = "save_ai" => Domain(o) = "ai" /\ call.update.api_key # Absent
      /\ call.verb = "save_feishu" =>
            Domain(o) = "feishu" /\ Absent \notin {call.update.app_id, call.update.app_secret}
  BY CallAssumption DEF IsMutation, Mutations, Domain, NextDocument, ProviderDomains
<1>1. CASE call.verb = "save_ai"
  BY <1>0, <1>1 DEF NextBody, save_ai, _merged_gemini, Carried, SecretOf
<1>2. CASE call.verb = "save_feishu"
  <2> DEFINE old == op[o].seen.body
             new == NextDocument(o).body
             u == call.update
  <2>1. new = [enabled |-> Carried(u.enabled, old.enabled),
               app_id |-> Carried(u.app_id, old.app_id),
               app_secret |-> Carried(u.app_secret, old.app_secret)]
    BY <1>0, <1>2 DEF NextBody, save_feishu, _merged_feishu
  <2>2. /\ u.app_id # Absent /\ new["app_id"] = IF u.app_id = Keep THEN old["app_id"] ELSE u.app_id
        /\ u.app_secret # Absent
        /\ new["app_secret"] = IF u.app_secret = Keep THEN old["app_secret"] ELSE u.app_secret
    BY <1>0, <1>2, <2>1 DEF Carried
  <2>3. Domain(o) = "feishu"
    BY <1>0, <1>2
  <2> HIDE DEF old, new, u
  <2>4. SecretOf("feishu", old) \subseteq SecretOf("feishu", new)
    BY <2>2 DEF SecretOf
  <2> QED
    BY <2>3, <2>4 DEF old, new
<1> QED
  BY <1>0, <1>1, <1>2

\* What a write knows: it holds the lock, and the file is still what it read.
LEMMA WriterFits ==
    ASSUME Inv, NEW o \in Ops, Writes(o)
    PROVE  /\ lock = o /\ o # Nobody /\ op[o].call \in Calls[o]
           /\ Domain(o) \in ConfigDomain /\ op[o].seen = file[Domain(o)]
           /\ Visible(Domain(o), file[Domain(o)])
           /\ file' = [d \in ConfigDomain |-> IF d = Domain(o) THEN NextDocument(o) ELSE file[d]]
<1>1. op[o].call \in Calls[o] /\ lock = o /\ op[o].seen = file[Domain(o)]
  BY DEF Inv, HandlerFits, Writes, Writing
<1>2. Domain(o) \in ConfigDomain
  BY <1>1, CallAssumption DEF Domain
<1> QED
  BY <1>1, <1>2, ConfigAssumption DEF Inv, DocumentsFit, ShapeOK, Writes

\* Documents keep their shape.
LEMMA ShapedNext == Inv /\ Shaped /\ [Next]_vars => Shaped'
<1> SUFFICES ASSUME Inv, Shaped, [Next]_vars
             PROVE  Shaped'
  OBVIOUS
<1>1. CASE UNCHANGED written
  BY <1>1 DEF Shaped
<1>2. ASSUME NEW o \in Ops, Writes(o)
      PROVE  Shaped'
  <2>1. /\ op[o].call \in Calls[o] /\ op[o].seen = file[Domain(o)]
        /\ Visible(Domain(o), file[Domain(o)])
    BY <1>2, WriterFits
  <2> DEFINE body == NextDocument(o).body
  <2>2. Domain(o) = "resources" => \A i \in DOMAIN body : "secret" \in DOMAIN body[i]
    <3> HAVE Domain(o) = "resources"
    <3>1. \A i \in DOMAIN op[o].seen.body : "secret" \in DOMAIN op[o].seen.body[i]
      BY <2>1 DEF Visible, Shaped
    <3> QED
      BY <1>2, <2>1, <3>1, ResourceSecrets DEF Writes
  <2>3. written' = written \cup {[domain |-> Domain(o), doc |-> NextDocument(o), by |-> o]}
    BY <1>2 DEF Writes
  <2> QED
    BY <2>2, <2>3 DEF Shaped
<1> QED
  BY <1>1, <1>2, FileMoves

\* One step keeps the secrets of every document, unless it is allowed not to.
LEMMA SecretsStep ==
    ASSUME Inv, Shaped, [Next]_vars, NEW d \in ConfigDomain
    PROVE  \/ SecretOf(d, file[d].body) \subseteq SecretOf(d, file'[d].body)
           \/ lost'
           \/ lock # Nobody /\ op[lock].call.verb \in
                {"clear_ai", "clear_feishu", "clear_resource_secret", "delete_resource"}
<1>1. ASSUME NEW o \in Ops, Writes(o), d = Domain(o)
      PROVE  \/ SecretOf(d, file[d].body) \subseteq SecretOf(d, file'[d].body)
             \/ lock # Nobody /\ op[lock].call.verb \in
                {"clear_ai", "clear_feishu", "clear_resource_secret", "delete_resource"}
  <2>1. /\ lock = o /\ o # Nobody /\ op[o].call \in Calls[o] /\ op[o].seen = file[d]
        /\ Visible(d, file[d]) /\ file'[d] = NextDocument(o) /\ IsMutation(o)
    BY <1>1, WriterFits DEF Writes
  <2>2. CASE d = "resources"
    <3>1. \A i \in DOMAIN op[o].seen.body : "secret" \in DOMAIN op[o].seen.body[i]
      BY <2>1, <2>2 DEF Visible, Shaped
    <3> QED
      BY <1>1, <2>1, <2>2, <3>1, ResourceSecrets DEF Writes
  <2>3. CASE d # "resources"
    <3>1. Domain(o) \in ProviderDomains
      BY <1>1, <2>3 DEF ConfigDomain, ProviderDomains
    <3> QED
      BY <1>1, <2>1, <3>1, ProviderSecrets
  <2> QED
    BY <2>2, <2>3
<1>2. ASSUME NEW o \in Ops, Writes(o), d # Domain(o)
      PROVE  file'[d] = file[d]
  BY <1>2, WriterFits
<1> QED
  BY <1>1, <1>2, FileMoves

\* A code is exchanged only with the adapter whose receipt names the bound generation.
LEMMA ExchangeStep ==
    ASSUME Inv, [Next]_vars, NEW o \in Ops, exchanges'[o] # exchanges[o]
    PROVE  held["feishu"][Web].gen = op[o].seen.gen
<1>1. ASSUME NEW r \in Ops, _deny_unless_allowed(r) \/ \E call \in Calls[r] : Request(r, call)
      PROVE  FALSE
  BY <1>1 DEF _deny_unless_allowed, Request, probeVars
<1>2. ASSUME NEW r \in Ops, Step(r), ~ finish_oauth_test(r)
      PROVE  FALSE
  BY <1>2 DEF Step, _start, _terminal, _read, _mutate, _mutate_resources, _probe, _record,
     start_oauth_test, _is_open_oauth_start, ReadBound, probeVars
<1>3. ASSUME NEW r \in Ops, StateExpires(r) \/ oauth_connection_test_callback(r)
      PROVE  FALSE
  BY <1>3 DEF StateExpires, oauth_connection_test_callback
<1>4. ASSUME NEW s \in Services, Restart(s)
      PROVE  FALSE
  BY <1>4 DEF Restart, probeVars
<1>5. ASSUME PowerLoss
      PROVE  FALSE
  BY <1>5 DEF PowerLoss, probeVars
<1>6. ASSUME NEW d \in ConfigDomain, FileOutage(d) \/ FileRepair(d)
      PROVE  FALSE
  BY <1>6 DEF FileOutage, FileRepair, probeVars
<1>7. PICK r \in Ops : finish_oauth_test(r)
  BY <1>1, <1>2, <1>3, <1>4, <1>5, <1>6 DEF Next, vars
<1>8. /\ web_holds_feishu_generation(op[r].seen.gen)
      /\ exchanges' = [exchanges EXCEPT ![r] = @ + 1] /\ op[r].pc = "checked"
  BY <1>7 DEF finish_oauth_test, At
<1>9. r = o
  BY <1>8 DEF Inv, ShapeOK
<1>10. OAuthAssembled
  BY <1>8, <1>9 DEF Inv, HandlerFits, Returning
<1> QED
  BY <1>8, <1>9, <1>10 DEF Inv, AdapterFits, web_holds_feishu_generation

\* A test uses the document it is booked to, because the receipt and the adapter of the
\* Web process come from one reading (web_holds_feishu_generation), and a document keeps
\* its secrets until somebody clears them, because a write merges into the very document
\* it replaces (_merged_resource).
THEOREM DocumentsStayHonoured == Spec => DocumentsAreHonoured
<1>1. Init => Shaped
  <2> SUFFICES ASSUME Init, NEW w \in written, w.domain = "resources",
                      NEW i \in DOMAIN w.doc.body
               PROVE  "secret" \in DOMAIN w.doc.body[i]
    BY DEF Shaped
  <2>1. PICK docs \in Documents : file = [d \in ConfigDomain |-> docs[d]]
    BY DEF Init
  <2>2. w.doc = docs["resources"]
    BY <2>1 DEF Init, ConfigDomain
  <2> QED
    BY <2>2, CallAssumption
<1>2. Spec => []Shaped
  BY <1>1, ShapedNext, ConfigInvariant, PTL DEF Spec
<1>3. Inv /\ Shaped /\ [Next]_vars =>
        [\A o \in Ops : exchanges'[o] # exchanges[o] =>
                held["feishu"][Web].gen = op[o].seen.gen]_vars
  BY ExchangeStep
<1>4. Inv /\ Shaped /\ [Next]_vars =>
        [\A d \in ConfigDomain :
           \/ SecretOf(d, file[d].body) \subseteq SecretOf(d, file'[d].body)
           \/ lost'
           \/ lock # Nobody /\ op[lock].call.verb \in
             {"clear_ai", "clear_feishu", "clear_resource_secret", "delete_resource"}]_vars
  BY SecretsStep
<1> QED
  BY <1>2, <1>3, <1>4, ConfigInvariant, PTL
     DEF Spec, DocumentsAreHonoured, ExchangeUsesBoundDocument, SecretsOnlyCleared


-----------------------------------------------------------------------------
(* Processes.                                                              *)

Places == {"main", "build", "assemble", "record", "serve", "ended"}

\* What is true of a process where it stands.
ProcessFits ==
    /\ service \in AllServices /\ at \in Places
    /\ at \in {"main", "build"} => engine = "none" /\ facts = {}
    /\ at \in {"assemble", "record", "serve"} => engine = "open"
    /\ at \in {"build", "assemble", "record", "serve"} =>
          settings \in Loadable /\ Enabled(settings)
    /\ at \in {"build", "assemble"} => facts = {}
    /\ at \in {"record", "serve"} =>
          /\ parts = Builds /\ parts # Failed
          /\ service = "web" => "seeded" \in facts
    /\ at = "record" => service # "api" /\ "receipts" \notin facts
    /\ at = "serve" => (service = "api" \/ "receipts" \in facts)
    /\ at = "ended" /\ engine = "open" =>
          /\ service \in {"worker", "listener", "channel_worker"}
          /\ exit = 1 /\ "receipts" \notin facts /\ parts # {}

\* A builder that succeeds makes something.
LEMMA BuildsMake == ASSUME service \in AllServices PROVE Builds # {}
<1>1. "rendering" \in _task_view_runtime(TRUE) /\ "rendering" \in _task_view_runtime(FALSE)
  BY DEF _task_view_runtime
<1>2. _assemble_local_stack # {}
  BY DEF _assemble_local_stack, Failed
<1> QED
  BY <1>1, <1>2 DEF Builds, AllServices, build_postgres_task_view_stack, Failed,
     build_postgres_feishu_listener_stack, build_postgres_channel_worker_stack,
     build_postgres_local_stack, build_postgres_web_stack, _feishu_credentials_or_fail

\* Nothing rebuilds a process: its settings are loaded once.
LEMMA SameBuild ==
    ASSUME UNCHANGED <<service, settings, provided>>
    PROVE  Builds' = Builds /\ Enabled(settings)' = Enabled(settings)
BY DEF Builds, build_postgres_task_view_stack,
   build_postgres_feishu_listener_stack, build_postgres_channel_worker_stack,
   build_postgres_local_stack, build_postgres_web_stack, _feishu_credentials_or_fail,
   _task_view_runtime, _conversation_snapshot, _assemble_local_stack, FeishuPorts,
   _starrocks_gateway_registration, Enabled

\* The entry points keep it.
LEMMA ProcessFitsNext == ProcessFits /\ [ProcessesNext]_pvars => ProcessFits'
<1> SUFFICES ASSUME ProcessFits, [ProcessesNext]_pvars
             PROVE  ProcessFits'
  OBVIOUS
<1> USE DEF ProcessFits, Places
<1>1. CASE main
  BY <1>1 DEF main, Exit, Enabled
<1>2. CASE create_database_engine
  BY <1>2 DEF create_database_engine, Exit, Fixed, Enabled
<1>3. CASE Assemble
  <2>1. UNCHANGED <<service, settings, provided>> /\ Builds' = Builds
        /\ Enabled(settings)' = Enabled(settings)
    BY <1>3, SameBuild DEF Assemble, Fixed
  <2>2. CASE at' = "ended"
    BY <1>3, <2>1, <2>2 DEF Assemble, Exit
  <2>3. CASE at' # "ended"
    BY <1>3, <2>1, <2>3 DEF Assemble, Exit
  <2> QED
    BY <2>2, <2>3
<1>4. CASE RecordReceipts
  <2>1. UNCHANGED <<service, settings, provided, parts>> /\ Builds' = Builds
        /\ Enabled(settings)' = Enabled(settings)
    BY <1>4, SameBuild DEF RecordReceipts, Fixed
  <2>2. parts # {}
    BY <1>4, BuildsMake DEF RecordReceipts
  <2>3. service \in {"worker", "listener", "channel_worker", "web"}
    BY <1>4 DEF RecordReceipts, AllServices
  <2> QED
    BY <1>4, <2>1, <2>2, <2>3 DEF RecordReceipts, Exit
<1>5. CASE serve
  BY <1>5 DEF serve, Exit, Fixed
<1>6. CASE DatabaseFails \/ UNCHANGED pvars
  <2>1. UNCHANGED <<service, settings, provided, parts, at, engine, facts, exit>>
        /\ Builds' = Builds /\ Enabled(settings)' = Enabled(settings)
    BY <1>6, SameBuild DEF DatabaseFails, pvars, Fixed
  <2> QED
    BY <2>1
<1> QED
  BY <1>1, <1>2, <1>3, <1>4, <1>5, <1>6 DEF ProcessesNext

\* What the builders make of loaded settings.  A release has no listener: the builder
\* would give it its ports, and main refuses to start it with the switch off.
LEMMA BuildsAreClosed ==
    ASSUME service \in AllServices, settings \in Loadable, Enabled(settings), parts = Builds,
           parts # Failed
    PROVE  /\ settings.profile = "release" =>
              /\ parts \cap (Providers \cup ToolAdapters \cup {"barrier"}) = {}
              /\ "full_snapshot" \notin parts /\ settings.environment = "dev"
           /\ "starrocks_live" \in parts =>
              /\ settings.environment = "test" /\ settings.starrocks = "approved"
              /\ provided.live_assembly /\ "starrocks_recording" \notin parts
           /\ parts \cap (ToolAdapters \cup {"runner", "gemini"}) # {} => service = "worker"
           /\ ("oauth" \in parts) <=> ("membership" \in parts)
<1> DEFINE release == settings.profile = "release"
           view == _task_view_runtime(TRUE) \cup _task_view_runtime(FALSE)
<1>0. /\ settings.profile \in {"offline_recording", "release"}
      /\ settings.mode \in {"recording", "test_readonly", "disabled"}
      /\ release => /\ settings.mode = "disabled" /\ settings.environment = "dev"
                    /\ ~ settings.smoke /\ settings.switches = {}
      /\ settings.mode = "test_readonly" =>
            settings.environment = "test" /\ settings.starrocks = "approved"
  BY DEF Loadable, Settings, load_settings, _starrocks_profile_is_closed,
         _runtime_profile_is_closed
<1>1. /\ _conversation_snapshot \subseteq {"empty_snapshot", "full_snapshot"}
      /\ release => _conversation_snapshot = {"empty_snapshot"}
  BY DEF _conversation_snapshot
<1>2. /\ view \subseteq {"empty_snapshot", "full_snapshot", "rendering", "recognize_sql"}
      /\ release => "full_snapshot" \notin view
  BY <1>1 DEF _task_view_runtime
<1>3. CASE service \in {"api", "listener", "channel_worker"}
  <2>1. parts \subseteq view \cup {"feishu_inbound", "feishu_messages"}
    BY <1>3 DEF Builds, build_postgres_task_view_stack, build_postgres_feishu_listener_stack,
       build_postgres_channel_worker_stack, _feishu_credentials_or_fail
  <2>2. release => parts \subseteq view
    BY <1>0, <1>3 DEF Enabled, Builds, build_postgres_task_view_stack
  <2> HIDE DEF view
  <2> QED
    BY <1>0, <1>2, <1>3, <2>1, <2>2 DEF Providers, ToolAdapters, _offline_recording_adapters
<1>4. CASE service = "web"
  <2>1. /\ FeishuPorts \in {{}, {"oauth", "membership"}} /\ (release => FeishuPorts = {})
        /\ parts = _task_view_runtime(TRUE) \cup {"local_admin_auth"} \cup FeishuPorts
    BY <1>0, <1>4 DEF Builds, build_postgres_web_stack, FeishuPorts
  <2> HIDE DEF view
  <2>2. _task_view_runtime(TRUE) \subseteq view
    BY DEF view
  <2> QED
    BY <1>0, <1>2, <1>4, <2>1, <2>2 DEF Providers, ToolAdapters, _offline_recording_adapters
<1>5. CASE service = "worker"
  <2> DEFINE model == IF "gemini" \in settings.switches /\ provided.gemini_key
                      THEN {"gemini"} ELSE {}
             gateway == IF settings.profile = "release" THEN {"closed_gateway"}
                        ELSE _offline_recording_adapters \cup _starrocks_gateway_registration
             barrier == IF settings.smoke THEN {"barrier"} ELSE {}
  <2>1. /\ parts = model \cup gateway \cup barrier \cup _conversation_snapshot
                    \cup {"rendering", "runner"}
        /\ _starrocks_gateway_registration # Failed
    BY <1>5 DEF Builds, build_postgres_local_stack, _assemble_local_stack
  <2>2. /\ _starrocks_gateway_registration \in {{}, {"starrocks_recording"}, {"starrocks_live"}}
        /\ _starrocks_gateway_registration = {"starrocks_live"} =>
              settings.mode = "test_readonly" /\ provided.live_assembly
    BY <1>0, <2>1 DEF _starrocks_gateway_registration
  <2>3. release => model = {} /\ barrier = {} /\ gateway = {"closed_gateway"}
    BY <1>0
  <2>4. /\ model \subseteq {"gemini"} /\ barrier \subseteq {"barrier"}
        /\ "starrocks_live" \in gateway => _starrocks_gateway_registration = {"starrocks_live"}
        /\ gateway \subseteq {"closed_gateway", "starrocks_recording", "starrocks_live"}
                              \cup _offline_recording_adapters
        /\ "starrocks_recording" \in gateway =>
              _starrocks_gateway_registration = {"starrocks_recording"}
    BY <2>2 DEF _offline_recording_adapters
  <2> HIDE DEF model, gateway, barrier
  <2>5. CASE release
    <3>1. parts = {"closed_gateway", "empty_snapshot", "rendering", "runner"}
      BY <1>1, <2>1, <2>3, <2>5
    <3> QED
      BY <1>0, <1>5, <2>5, <3>1 DEF Providers, ToolAdapters, _offline_recording_adapters
  <2>6. CASE ~ release
    <3>1. "starrocks_live" \in parts => _starrocks_gateway_registration = {"starrocks_live"}
      BY <1>1, <2>1, <2>4
    <3>2. "starrocks_recording" \in parts =>
            _starrocks_gateway_registration = {"starrocks_recording"}
      BY <1>1, <2>1, <2>4
    <3>3. "oauth" \notin parts /\ "membership" \notin parts
      BY <1>1, <2>1, <2>4 DEF _offline_recording_adapters
    <3> QED
      BY <1>0, <1>5, <2>2, <2>6, <3>1, <3>2, <3>3
  <2> QED
    BY <2>5, <2>6
<1> QED
  BY <1>3, <1>4, <1>5 DEF AllServices

\* What a process holds follows from its profile, whatever switches its environment
\* combines (load_settings against the builders of local_stack.py), and it serves with
\* its receipts recorded and ends with its engine released, the one path aside on which
\* RecordReceipts fails.
THEOREM ProcessesStaySound == ProcessesSpec => []ProcessesAreSound
<1>1. ProcessesInit => ProcessFits
  BY ServicesAssumption DEF ProcessesInit, ProcessFits, Places
<1>2. ProcessesSpec => []ProcessFits
  BY <1>1, ProcessFitsNext, PTL DEF ProcessesSpec
<1>3. ProcessFits => AssemblyIsClosed
  <2> SUFFICES ASSUME ProcessFits, at = "serve"
               PROVE  AssemblyIsClosed
    BY DEF AssemblyIsClosed
  <2>1. /\ service \in AllServices /\ settings \in Loadable /\ Enabled(settings)
        /\ parts = Builds /\ parts # Failed
    BY DEF ProcessFits
  <2> QED
    BY <2>1, BuildsAreClosed DEF AssemblyIsClosed
<1>4. ProcessFits => EngineFollowsProcess
  BY DEF ProcessFits, EngineFollowsProcess
<1>5. ProcessFits => ProcessesAreSound
  BY <1>3, <1>4 DEF ProcessesAreSound
<1> QED
  BY <1>2, <1>5, PTL

-----------------------------------------------------------------------------
(* The roll-out.                                                           *)

\* The newest inode there has been; every replacement takes the next one.
Newest == MaxEdits - budget.edits + 1

Reading == {"read", "check", "write", "verify", "unlink"}
Splitting == {"check", "write", "verify", "unlink"}

\* What the migration knows of the legacy file: the inode it saw names one document.
LegacyFits ==
    /\ legacy.inode <= Newest /\ mig.seen.inode <= Newest
    /\ mig.pc \in Reading => /\ mig.seen # NoLegacy
                             /\ legacy.inode = mig.seen.inode => legacy = mig.seen
    /\ mig.pc \in Splitting => mig.seen.doc \in Contents

\* What it knows of the domain files, which nobody else writes while it runs.
SplitFits ==
    /\ mig.pc = "write" => \A d \in Domains :
          /\ (d \in mig.absent) <=> ~ Present(files[d])
          /\ Present(files[d]) => files[d] = Half(d, mig.seen.doc)
    /\ mig.pc = "unlink" => /\ legacy = mig.seen
                            /\ \A d \in Domains : files[d] = Half(d, mig.seen.doc)

\* Without another writer a domain that is there is its half of the legacy file.
OwnFits ==
    ~ foreign =>
        /\ mig.pc \in Reading => legacy = mig.seen
        /\ LegacyExists => \A d \in Domains : Present(files[d]) => files[d] = Half(d, legacy.doc)
        /\ mig.result = "migration_required" => legacy.doc = CorruptDoc

\* What a scan has passed has ended, and left nothing then.
Passed(i) == tasks[i].terminal /\ (tasks[i].data => i \in pre.late)
ScanFits ==
    pre.pc = "scan" =>
        /\ pre.start \in Nat /\ pre.start <= Len(tasks) /\ pre.cursor \in Nat
        /\ pre.open = 0 /\ pre.data = 0 =>
              \A i \in 1..pre.start : i >= pre.cursor => Passed(i)

\* The records of the two commands keep their fields.
RecordsFit ==
    /\ mig = [pc |-> mig.pc, seen |-> mig.seen, absent |-> mig.absent, result |-> mig.result]
    /\ pre = [pc |-> pre.pc, cursor |-> pre.cursor, open |-> pre.open, data |-> pre.data,
              start |-> pre.start, before |-> pre.before, late |-> pre.late,
              result |-> pre.result]
    /\ pre.open \in Nat /\ pre.data \in Nat
    /\ pre.pc # "idle" => pre.result = NotRun
    /\ tasks \in Seq(Tasks)

RolloutFits ==
    RolloutTypeOK /\ RecordsFit /\ LegacyFits /\ SplitFits /\ OwnFits /\ ScanFits

\* A half is a file, and differs from the other values a file may have.
LEMMA Halves ==
    /\ \A d \in Domains, doc \in Contents : Half(d, doc) \in FileValues
    /\ \A d, doc : Present(Half(d, doc))
BY DEF FileValues, Half, Present, NoFile

\* The legacy file that is there has an inode.
LEMMA Inodes ==
    /\ \A l \in Legacies : l.inode \in Nat /\ (l = NoLegacy <=> l.inode = 0)
    /\ \A l \in Legacies : l # NoLegacy => l.doc \in Contents \cup {CorruptDoc}
BY RolloutAssumption DEF Legacies, NoLegacy

\* It holds at first.
LEMMA RolloutFitsInit == RolloutInit => RolloutFits
<1> SUFFICES ASSUME RolloutInit
             PROVE  RolloutFits
  OBVIOUS
<1>1. /\ mig = IdleMigration(NotRun) /\ pre = IdlePreflight(NotRun)
      /\ budget = [crashes |-> MaxCrashes, edits |-> MaxEdits]
      /\ foreign = \E d \in Domains : Present(files[d])
      /\ legacy \in {NoLegacy} \cup [inode: {1}, doc: Contents \cup {CorruptDoc}]
      /\ files \in [Domains -> {NoFile, CorruptFile, Saved}]
      /\ writable \in BOOLEAN /\ db \in {"ok", "behind", "down"}
      /\ tasks \in {<<>>, <<[terminal |-> TRUE, data |-> FALSE],
                            [terminal |-> FALSE, data |-> FALSE]>>}
  BY DEF RolloutInit
<1>2. legacy \in Legacies /\ NoLegacy \in Legacies /\ legacy.inode \in {0, 1}
  BY <1>1, RolloutAssumption DEF Legacies, NoLegacy
<1>3. /\ tasks \in Seq(Tasks) /\ Len(tasks) <= MaxTasks
      /\ \A i \in 1..Len(tasks) : tasks[i] \in Tasks
  <2>1. CASE tasks = <<>>
    BY <2>1, RolloutAssumption
  <2>2. CASE tasks # <<>>
    <3> DEFINE a == [terminal |-> TRUE, data |-> FALSE]
               b == [terminal |-> FALSE, data |-> FALSE]
    <3>1. a \in Tasks /\ b \in Tasks
      BY DEF Tasks
    <3>2. tasks = <<a, b>>
      BY <1>1, <2>2
    <3> HIDE DEF a, b
    <3>3. tasks \in Seq(Tasks) /\ Len(tasks) = 2
      BY <3>1, <3>2
    <3> QED
      BY <3>3, RolloutAssumption
  <2> QED
    BY <2>1, <2>2
<1>4. RolloutTypeOK
  <2>1. budget \in [crashes: 0..MaxCrashes, edits: 0..MaxEdits]
    BY <1>1, RolloutAssumption
  <2>2. files \in [Domains -> FileValues]
    BY <1>1 DEF FileValues
  <2>3. foreign \in BOOLEAN
    BY <1>1
  <2> QED
    BY <1>1, <1>2, <1>3, <2>1, <2>2, <2>3
       DEF RolloutTypeOK, IdleMigration, IdlePreflight, NotRun, NoLegacy
<1>5. RecordsFit
  BY <1>1, <1>3 DEF RecordsFit, IdleMigration, IdlePreflight
<1>6. LegacyFits /\ SplitFits /\ OwnFits /\ ScanFits
  BY <1>1, <1>2, RolloutAssumption
     DEF LegacyFits, SplitFits, OwnFits, ScanFits, IdleMigration, IdlePreflight, Reading,
         Splitting, Newest, NoLegacy, NotRun
<1> QED
  BY <1>4, <1>5, <1>6 DEF RolloutFits

\* A migration that ends; only its own report of a conflict has to be true.
LEMMA Reported ==
    ASSUME RolloutFits, NEW result \in MigrationResults, Report(result),
           UNCHANGED <<files, writable, pre, tasks, db, foreign>>,
           budget' \in [crashes: 0..MaxCrashes, edits: 0..MaxEdits],
           budget'.edits = budget.edits, legacy' \in {legacy, NoLegacy},
           result = "migration_required" => foreign \/ legacy'.doc = CorruptDoc
    PROVE  RolloutFits'
<1>0. mig' = [pc |-> "idle", seen |-> NoLegacy, absent |-> {}, result |-> result]
  BY DEF Report, IdleMigration
<1>1. NoLegacy \in Legacies /\ NoLegacy.inode = 0
  BY DEF Legacies, NoLegacy
<1>2. RolloutTypeOK'
  BY <1>0, <1>1 DEF RolloutFits, RolloutTypeOK
<1>3. RecordsFit'
  BY <1>0 DEF RolloutFits, RecordsFit
<1>4. 0 <= Newest /\ Newest' = Newest
  BY RolloutAssumption DEF Newest, RolloutFits, RolloutTypeOK
<1>5. LegacyFits'
  BY <1>0, <1>1, <1>4 DEF RolloutFits, LegacyFits, Reading, Splitting
<1>6. SplitFits' /\ ScanFits'
  BY <1>0 DEF RolloutFits, SplitFits, ScanFits, Passed
<1>7. OwnFits'
  BY <1>0 DEF RolloutFits, OwnFits, Reading, LegacyExists
<1> QED
  BY <1>2, <1>3, <1>5, <1>6, <1>7 DEF RolloutFits

\* A migration that goes on, with the files and the legacy file as they were.
LEMMA Continued ==
    ASSUME RolloutFits,
           mig' = [pc |-> mig'.pc, seen |-> mig'.seen, absent |-> mig'.absent,
                   result |-> mig'.result],
           mig'.pc \in Reading, mig'.seen \in Legacies, mig'.absent \subseteq Domains,
           mig'.result \in {NotRun, mig.result},
           UNCHANGED <<legacy, files, writable, RolloutRest>>,
           LegacyFits', SplitFits', ~ foreign => legacy = mig'.seen
    PROVE  RolloutFits'
<1>1. RolloutTypeOK' /\ RecordsFit'
  BY DEF RolloutFits, RolloutTypeOK, RecordsFit, RolloutRest, Reading
<1>2. ScanFits'
  BY DEF RolloutFits, ScanFits, Passed, RolloutRest
<1>3. OwnFits'
  BY DEF RolloutFits, OwnFits, RolloutRest, LegacyExists, NotRun
<1> QED
  BY <1>1, <1>2, <1>3 DEF RolloutFits

\* The looks at the legacy file and at the domains.
LEMMA LookSteps ==
    ASSUME RolloutFits,
           \/ migrate_legacy_integration_config \/ read_legacy_integration_config
           \/ _existing \/ ConfirmMigration
    PROVE  RolloutFits'
<1>0. /\ mig = [pc |-> mig.pc, seen |-> mig.seen, absent |-> mig.absent, result |-> mig.result]
      /\ mig.seen \in Legacies /\ legacy \in Legacies /\ mig.absent \subseteq Domains
      /\ mig.result \in MigrationResults \cup {NotRun}
      /\ budget \in [crashes: 0..MaxCrashes, edits: 0..MaxEdits]
      /\ UNCHANGED <<legacy, files, writable, RolloutRest>>
      /\ Newest' = Newest
  BY DEF RolloutFits, RolloutTypeOK, RecordsFit, migrate_legacy_integration_config,
     read_legacy_integration_config, _existing, ConfirmMigration, RolloutRest, Newest
<1>1. ASSUME NEW result \in MigrationResults, Report(result),
             result = "migration_required" => foreign \/ legacy.doc = CorruptDoc
      PROVE  RolloutFits'
  BY <1>0, <1>1, Reported DEF RolloutRest
<1>2. CASE migrate_legacy_integration_config
  <2>1. CASE \E result \in {"unavailable", "nothing_to_migrate", "already_migrated"} : Report(result)
    BY <1>1, <2>1 DEF MigrationResults
  <2>2. CASE LegacyExists /\ mig' = [mig EXCEPT !.pc = "read", !.seen = legacy, !.result = NotRun]
    <3>1. mig' = [pc |-> "read", seen |-> legacy, absent |-> mig.absent, result |-> NotRun]
      BY <1>0, <2>2
    <3>2. LegacyFits' /\ SplitFits'
      BY <1>0, <2>2, <3>1
         DEF RolloutFits, LegacyFits, SplitFits, Reading, Splitting, LegacyExists
    <3> QED
      BY <1>0, <3>1, <3>2, Continued DEF Reading
  <2> QED
    BY <1>2, <2>1, <2>2 DEF migrate_legacy_integration_config
<1>3. CASE read_legacy_integration_config
  <2>1. CASE Report("unavailable") \/ (legacy.doc = CorruptDoc /\ Report("migration_required"))
    BY <1>1, <2>1 DEF MigrationResults
  <2>2. CASE /\ LegacyExists /\ legacy.doc # CorruptDoc /\ legacy.inode = mig.seen.inode
             /\ mig.pc = "read" /\ mig' = [mig EXCEPT !.pc = "check"]
    <3>1. mig' = [pc |-> "check", seen |-> mig.seen, absent |-> mig.absent, result |-> mig.result]
      BY <1>0, <2>2
    <3>2. mig.seen = legacy
      BY <2>2 DEF RolloutFits, LegacyFits, Reading
    <3>3. legacy.doc \in Contents
      BY <1>0, <2>2, Inodes DEF LegacyExists
    <3>4. LegacyFits' /\ SplitFits'
      BY <1>0, <2>2, <3>1, <3>2, <3>3
         DEF RolloutFits, LegacyFits, SplitFits, Reading, Splitting
    <3> QED
      BY <1>0, <3>1, <3>2, <3>4, Continued DEF Reading
  <2> QED
    BY <1>3, <2>1, <2>2 DEF read_legacy_integration_config, _legacy_identity
<1>4. CASE _existing
  <2>1. CASE /\ \E d \in Domains : Present(files[d]) /\ files[d] # Half(d, mig.seen.doc)
             /\ Report("migration_required")
    <3>1. mig.pc = "check" /\ mig.seen # NoLegacy
      BY <1>4 DEF _existing, RolloutFits, LegacyFits, Reading
    <3>2. foreign
      BY <2>1, <3>1 DEF RolloutFits, OwnFits, Reading, LegacyExists
    <3> QED
      BY <1>1, <2>1, <3>2 DEF MigrationResults
  <2>2. CASE /\ \A d \in Domains : Present(files[d]) => files[d] = Half(d, mig.seen.doc)
             /\ mig' = [mig EXCEPT !.pc = "write",
                                   !.absent = {d \in Domains : ~ Present(files[d])}]
    <3>0. mig.pc = "check"
      BY <1>4 DEF _existing
    <3>1. mig' = [pc |-> "write", seen |-> mig.seen,
                  absent |-> {d \in Domains : ~ Present(files[d])}, result |-> mig.result]
      BY <1>0, <2>2
    <3>2. LegacyFits'
      BY <1>0, <3>0, <3>1 DEF RolloutFits, LegacyFits, Reading, Splitting
    <3>3. SplitFits'
      BY <1>0, <2>2, <3>1 DEF SplitFits
    <3>4. ~ foreign => legacy = mig.seen
      BY <3>0 DEF RolloutFits, OwnFits, Reading
    <3> QED
      BY <1>0, <3>1, <3>2, <3>3, <3>4, Continued DEF Reading
  <2> QED
    BY <1>4, <2>1, <2>2 DEF _existing
<1>5. CASE ConfirmMigration
  <2>1. CASE Report("unavailable")
    BY <1>1, <2>1 DEF MigrationResults
  <2>2. CASE /\ \A d \in Domains : files[d] = Half(d, mig.seen.doc)
             /\ legacy.inode = mig.seen.inode /\ mig' = [mig EXCEPT !.pc = "unlink"]
    <3>0. mig.pc = "verify"
      BY <1>5 DEF ConfirmMigration
    <3>1. mig' = [pc |-> "unlink", seen |-> mig.seen, absent |-> mig.absent, result |-> mig.result]
      BY <1>0, <2>2
    <3>2. legacy = mig.seen
      BY <2>2, <3>0 DEF RolloutFits, LegacyFits, Reading
    <3>3. LegacyFits' /\ SplitFits'
      BY <1>0, <2>2, <3>0, <3>1, <3>2
         DEF RolloutFits, LegacyFits, SplitFits, Reading, Splitting
    <3> QED
      BY <1>0, <3>1, <3>2, <3>3, Continued DEF Reading
  <2> QED
    BY <1>5, <2>1, <2>2 DEF ConfirmMigration, _legacy_identity
<1> QED
  BY <1>2, <1>3, <1>4, <1>5

\* A domain is written where there was none; then the legacy file goes.
LEMMA WriteSteps ==
    ASSUME RolloutFits, _write_and_verify \/ RemoveLegacy
    PROVE  RolloutFits'
<1>0. /\ mig = [pc |-> mig.pc, seen |-> mig.seen, absent |-> mig.absent, result |-> mig.result]
      /\ mig.seen \in Legacies /\ legacy \in Legacies /\ mig.absent \subseteq Domains
      /\ mig.result \in MigrationResults \cup {NotRun}
      /\ budget \in [crashes: 0..MaxCrashes, edits: 0..MaxEdits]
      /\ UNCHANGED <<writable, RolloutRest>> /\ Newest' = Newest
  BY DEF RolloutFits, RolloutTypeOK, RecordsFit, _write_and_verify, RemoveLegacy, RolloutRest,
     Newest
<1>1. CASE RemoveLegacy
  BY <1>0, <1>1, Reported DEF RemoveLegacy, MigrationResults, RolloutRest
<1>2. CASE _write_and_verify /\ Report("unavailable") /\ UNCHANGED files
  BY <1>0, <1>2, Reported DEF _write_and_verify, MigrationResults, RolloutRest
<1>3. CASE _write_and_verify /\ mig' = [mig EXCEPT !.pc = "verify"] /\ UNCHANGED files
  <2>0. mig.pc = "write" /\ UNCHANGED legacy
    BY <1>3 DEF _write_and_verify
  <2>1. mig' = [pc |-> "verify", seen |-> mig.seen, absent |-> mig.absent, result |-> mig.result]
    BY <1>0, <1>3
  <2>2. LegacyFits' /\ SplitFits'
    BY <1>0, <2>0, <2>1 DEF RolloutFits, LegacyFits, SplitFits, Reading, Splitting
  <2>3. ~ foreign => legacy = mig.seen
    BY <2>0 DEF RolloutFits, OwnFits, Reading
  <2> QED
    BY <1>0, <1>3, <2>0, <2>1, <2>2, <2>3, Continued DEF Reading
<1>4. ASSUME NEW d \in mig.absent, mig.pc = "write", UNCHANGED legacy,
             files' = [files EXCEPT ![d] = Half(d, mig.seen.doc)],
             mig' = [mig EXCEPT !.absent = @ \ {d}]
      PROVE  RolloutFits'
  <2>1. mig' = [pc |-> "write", seen |-> mig.seen, absent |-> mig.absent \ {d},
                result |-> mig.result]
    BY <1>0, <1>4
  <2>2. d \in Domains /\ mig.seen.doc \in Contents /\ ~ Present(files[d])
    BY <1>0, <1>4 DEF RolloutFits, LegacyFits, SplitFits, Splitting
  <2>3. files' = [e \in Domains |-> IF e = d THEN Half(d, mig.seen.doc) ELSE files[e]]
    BY <1>4 DEF RolloutFits, RolloutTypeOK
  <2>4. files' \in [Domains -> FileValues]
    BY <2>2, <2>3, Halves DEF RolloutFits, RolloutTypeOK
  <2>5. RolloutTypeOK' /\ RecordsFit'
    BY <1>0, <1>4, <2>1, <2>4 DEF RolloutFits, RolloutTypeOK, RecordsFit, RolloutRest
  <2>6. LegacyFits'
    BY <1>0, <1>4, <2>1 DEF RolloutFits, LegacyFits, Reading, Splitting
  <2>7. SplitFits'
    BY <1>4, <2>1, <2>2, <2>3, Halves DEF RolloutFits, SplitFits
  <2>8. OwnFits'
    <3>1. ~ foreign => legacy = mig.seen
      BY <1>4 DEF RolloutFits, OwnFits, Reading
    <3> QED
      BY <1>0, <1>4, <2>1, <2>3, <3>1
         DEF RolloutFits, OwnFits, Reading, RolloutRest, LegacyExists
  <2>9. ScanFits'
    BY <1>0 DEF RolloutFits, ScanFits, Passed, RolloutRest
  <2> QED
    BY <2>5, <2>6, <2>7, <2>8, <2>9 DEF RolloutFits
<1> QED
  BY <1>1, <1>2, <1>3, <1>4 DEF _write_and_verify

\* A preflight that moves and does not scan.
LEMMA Prechecked ==
    ASSUME RolloutFits, UNCHANGED Others,
           pre' = [pc |-> pre'.pc, cursor |-> pre'.cursor, open |-> pre'.open, data |-> pre'.data,
                   start |-> pre'.start, before |-> pre'.before, late |-> pre'.late,
                   result |-> pre'.result],
           pre'.pc \in {"idle", "probe", "settled", "database", "scan"},
           pre'.result \in PreflightResults \cup {NotRun}, ScanFits',
           pre'.open \in Nat, pre'.data \in Nat, pre'.pc # "idle" => pre'.result = NotRun
    PROVE  RolloutFits'
<1>1. RolloutTypeOK' /\ RecordsFit'
  BY DEF RolloutFits, RolloutTypeOK, RecordsFit, Others
<1>2. LegacyFits' /\ SplitFits' /\ OwnFits'
  BY DEF RolloutFits, LegacyFits, SplitFits, OwnFits, Others, Newest, LegacyExists
<1> QED
  BY <1>1, <1>2 DEF RolloutFits

\* Counting the tasks of a page.
LEMMA Counting ==
    ASSUME NEW n \in Nat, NEW S, S \subseteq 1..n
    PROVE  Cardinality(S) \in Nat /\ (Cardinality(S) = 0 => S = {})
<1>1. IsFiniteSet(1..n)
  BY FS_Interval
<1>2. IsFiniteSet(S)
  BY <1>1, FS_Subset
<1> QED
  BY <1>2, FS_CardinalityType, FS_EmptySet

\* What one page does to the counts: with both still zero, every task of the page had
\* ended and left nothing.
LEMMA PageCounts ==
    ASSUME tasks \in Seq(Tasks), NEW cursor \in Nat,
           NEW open, open = Cardinality({i \in Page(cursor) : ~ tasks[i].terminal}),
           NEW data, data = Cardinality({i \in Page(cursor) : tasks[i].data})
    PROVE  /\ open \in Nat /\ data \in Nat
           /\ open = 0 /\ data = 0 =>
                \A i \in 1..Len(tasks) : i < cursor /\ i >= cursor - PAGE_LIMIT =>
                    tasks[i].terminal /\ ~ tasks[i].data
<1> DEFINE O == {i \in Page(cursor) : ~ tasks[i].terminal}
           D == {i \in Page(cursor) : tasks[i].data}
<1>1. O \subseteq 1..Len(tasks) /\ D \subseteq 1..Len(tasks) /\ Len(tasks) \in Nat
  BY DEF Page
<1>2. /\ open \in Nat /\ (open = 0 => O = {})
      /\ data \in Nat /\ (data = 0 => D = {})
  BY <1>1, Counting
<1>3. ASSUME O = {}, D = {}, NEW i \in 1..Len(tasks), i < cursor, i >= cursor - PAGE_LIMIT
      PROVE  tasks[i].terminal /\ ~ tasks[i].data
  <2>1. i \in Page(cursor)
    BY <1>3 DEF Page
  <2> QED
    BY <1>3, <2>1
<1> QED
  BY <1>2, <1>3

\* The three ways in which a page ends.
LEMMA ScanPage ==
    ASSUME _scan_history
    PROVE  \E open, data, next :
             /\ open = Cardinality({i \in Page(pre.cursor) : ~ tasks[i].terminal})
             /\ data = Cardinality({i \in Page(pre.cursor) : tasks[i].data})
             /\ next = Larger(pre.cursor - PAGE_LIMIT, 1)
             /\ \/ Verdict("database_unavailable")
                \/ next = 1 /\ Verdict(ScanVerdict(pre.open + open, pre.data + data))
                \/ pre' = [pre EXCEPT !.cursor = next, !.open = pre.open + open,
                                     !.data = pre.data + data]
<1> DEFINE o == Cardinality({i \in Page(pre.cursor) : ~ tasks[i].terminal})
           n == Cardinality({i \in Page(pre.cursor) : tasks[i].data})
           next == Larger(pre.cursor - PAGE_LIMIT, 1)
<1>1. \/ Verdict("database_unavailable")
      \/ next = 1 /\ Verdict(ScanVerdict(pre.open + o, pre.data + n))
      \/ pre' = [pre EXCEPT !.cursor = next, !.open = pre.open + o, !.data = pre.data + n]
  BY Zenon DEF _scan_history
<1> HIDE DEF o, n, next
<1>2. \E open, data, nx : /\ open = o /\ data = n /\ nx = next
         /\ \/ Verdict("database_unavailable")
            \/ nx = 1 /\ Verdict(ScanVerdict(pre.open + open, pre.data + data))
            \/ pre' = [pre EXCEPT !.cursor = nx, !.open = pre.open + open, !.data = pre.data + data]
  BY <1>1
<1> QED
  BY <1>2 DEF o, n, next

\* Everything the scan will have seen when it ends with nothing counted.
LEMMA ScanEnds ==
    ASSUME RolloutFits, _scan_history, pre'.result = "ok"
    PROVE  \A i \in 1..pre.start : Passed(i)
<1>0. /\ pre.pc = "scan" /\ pre.result = NotRun /\ pre.open \in Nat /\ pre.data \in Nat
      /\ pre.cursor \in Nat /\ pre.start \in Nat /\ pre.start <= Len(tasks)
      /\ tasks \in Seq(Tasks)
      /\ pre = [pc |-> pre.pc, cursor |-> pre.cursor, open |-> pre.open, data |-> pre.data,
                start |-> pre.start, before |-> pre.before, late |-> pre.late,
                result |-> pre.result]
  BY DEF _scan_history, RolloutFits, ScanFits, RecordsFit
<1>1. PICK open, data, next :
        /\ open = Cardinality({i \in Page(pre.cursor) : ~ tasks[i].terminal})
        /\ data = Cardinality({i \in Page(pre.cursor) : tasks[i].data})
        /\ next = Larger(pre.cursor - PAGE_LIMIT, 1)
        /\ \/ Verdict("database_unavailable")
           \/ next = 1 /\ Verdict(ScanVerdict(pre.open + open, pre.data + data))
           \/ pre' = [pre EXCEPT !.cursor = next, !.open = pre.open + open,
                                !.data = pre.data + data]
  BY ScanPage
<1>2. /\ next = 1 /\ ScanVerdict(pre.open + open, pre.data + data) = "ok"
  <2>1. ~ Verdict("database_unavailable")
    BY DEF Verdict, IdlePreflight
  <2>2. ASSUME NEW k, NEW l, pre' = [pre EXCEPT !.cursor = next, !.open = k, !.data = l]
        PROVE  FALSE
    BY <1>0, <2>2 DEF NotRun
  <2>3. ASSUME NEW r, Verdict(r)
        PROVE  r = "ok"
    BY <2>3 DEF Verdict, IdlePreflight
  <2> QED
    BY <1>1, <2>1, <2>2, <2>3
<1>4. /\ open \in Nat /\ data \in Nat
      /\ open = 0 /\ data = 0 =>
            \A i \in 1..Len(tasks) : i < pre.cursor /\ i >= pre.cursor - PAGE_LIMIT =>
                tasks[i].terminal /\ ~ tasks[i].data
  BY <1>0, <1>1, PageCounts
<1>5. open = 0 /\ data = 0 /\ pre.open = 0 /\ pre.data = 0
  BY <1>0, <1>2, <1>4 DEF ScanVerdict
<1>6. pre.cursor - PAGE_LIMIT <= 1
  BY <1>0, <1>1, <1>2, RolloutAssumption DEF Larger
<1>7. ASSUME NEW i \in 1..pre.start
      PROVE  Passed(i)
  <2>1. CASE i >= pre.cursor
    BY <1>0, <1>5, <2>1 DEF RolloutFits, ScanFits
  <2>2. CASE i < pre.cursor
    <3>1. i \in 1..Len(tasks) /\ i >= pre.cursor - PAGE_LIMIT
      BY <1>0, <1>6, RolloutAssumption
    <3> QED
      BY <1>4, <1>5, <2>2, <3>1 DEF Passed
  <2> QED
    BY <1>0, <2>1, <2>2
<1> QED
  BY <1>7

\* A page that is not the last takes its tasks with it.
LEMMA ScanGoesOn ==
    ASSUME RolloutFits, _scan_history, pre'.pc = "scan"
    PROVE  ScanFits' /\ RecordsFit'
<1>0. /\ pre.pc = "scan" /\ pre.result = NotRun /\ pre.open \in Nat /\ pre.data \in Nat
      /\ pre.cursor \in Nat /\ pre.start \in Nat /\ pre.start <= Len(tasks)
      /\ tasks \in Seq(Tasks) /\ UNCHANGED Others
      /\ pre = [pc |-> pre.pc, cursor |-> pre.cursor, open |-> pre.open, data |-> pre.data,
                start |-> pre.start, before |-> pre.before, late |-> pre.late,
                result |-> pre.result]
  BY DEF _scan_history, RolloutFits, ScanFits, RecordsFit
<1>1. PICK open, data, next :
        /\ open = Cardinality({i \in Page(pre.cursor) : ~ tasks[i].terminal})
        /\ data = Cardinality({i \in Page(pre.cursor) : tasks[i].data})
        /\ next = Larger(pre.cursor - PAGE_LIMIT, 1)
        /\ pre' = [pre EXCEPT !.cursor = next, !.open = pre.open + open, !.data = pre.data + data]
  <2>1. ASSUME NEW r, Verdict(r)
        PROVE  FALSE
    BY <2>1 DEF Verdict, IdlePreflight
  <2> QED
    BY <2>1, ScanPage
<1>2. /\ open \in Nat /\ data \in Nat
      /\ open = 0 /\ data = 0 =>
            \A i \in 1..Len(tasks) : i < pre.cursor /\ i >= pre.cursor - PAGE_LIMIT =>
                tasks[i].terminal /\ ~ tasks[i].data
  BY <1>0, <1>1, PageCounts
<1>3. next \in Nat /\ next >= pre.cursor - PAGE_LIMIT
  BY <1>0, <1>1, RolloutAssumption DEF Larger
<1>4. PICK open2 \in Nat, data2 \in Nat :
        open2 = pre.open + open /\ data2 = pre.data + data
  BY <1>0, <1>2
<1>5. pre' = [pc |-> "scan", cursor |-> next, open |-> open2, data |-> data2,
              start |-> pre.start, before |-> pre.before, late |-> pre.late,
              result |-> NotRun]
  BY <1>0, <1>1, <1>4
<1>6. open2 = 0 /\ data2 = 0 => open = 0 /\ data = 0 /\ pre.open = 0 /\ pre.data = 0
  BY <1>0, <1>2, <1>4
<1>7. ASSUME open2 = 0, data2 = 0, NEW i \in 1..pre.start, i >= next
      PROVE  Passed(i)
  <2>1. CASE i >= pre.cursor
    BY <1>0, <1>6, <1>7, <2>1 DEF RolloutFits, ScanFits
  <2>2. CASE i < pre.cursor
    <3>1. i \in 1..Len(tasks) /\ i >= pre.cursor - PAGE_LIMIT
      BY <1>0, <1>3, <1>7, RolloutAssumption
    <3> QED
      BY <1>2, <1>6, <1>7, <2>2, <3>1 DEF Passed
  <2> QED
    BY <1>0, <2>1, <2>2
<1>8. tasks' = tasks
  BY <1>0 DEF Others
<1>9. ScanFits'
  BY <1>0, <1>3, <1>5, <1>7, <1>8 DEF ScanFits, Passed
<1>10. RecordsFit'
  BY <1>0, <1>5 DEF RecordsFit, Others, RolloutFits
<1> QED
  BY <1>9, <1>10

\* The preflight only looks.
LEMMA PreflightSteps ==
    ASSUME RolloutFits,
           run_preflight \/ _probe_one \/ CompareFingerprints \/ check_readiness \/ _scan_history
    PROVE  RolloutFits'
<1>0. /\ UNCHANGED Others /\ tasks \in Seq(Tasks)
      /\ pre = [pc |-> pre.pc, cursor |-> pre.cursor, open |-> pre.open, data |-> pre.data,
                start |-> pre.start, before |-> pre.before, late |-> pre.late,
                result |-> pre.result]
      /\ pre.result \in PreflightResults \cup {NotRun}
  BY DEF run_preflight, _probe_one, CompareFingerprints, check_readiness, _scan_history,
     RolloutFits, RecordsFit, RolloutTypeOK
<1>a. pre.open \in Nat /\ pre.data \in Nat /\ (pre.pc # "idle" => pre.result = NotRun)
  BY DEF RolloutFits, RecordsFit
<1>1. ASSUME NEW result \in PreflightResults, Verdict(result)
      PROVE  RolloutFits'
  <2>1. pre' = [pc |-> "idle", cursor |-> 0, open |-> 0, data |-> 0, start |-> 0,
                before |-> [d \in Domains |-> NoFile], late |-> {}, result |-> result]
    BY <1>1 DEF Verdict, IdlePreflight
  <2>2. ScanFits'
    BY <2>1 DEF ScanFits
  <2> QED
    BY <1>0, <1>a, <2>1, <2>2, Prechecked
<1>2. CASE run_preflight
  <2>1. CASE pre' = [IdlePreflight(NotRun) EXCEPT !.pc = "probe", !.before = files]
    <3>1. pre' = [pc |-> "probe", cursor |-> 0, open |-> 0, data |-> 0, start |-> 0,
                  before |-> files, late |-> {}, result |-> NotRun]
      BY <2>1 DEF IdlePreflight
    <3>2. ScanFits'
      BY <3>1 DEF ScanFits
    <3> QED
      BY <1>0, <1>a, <3>1, <3>2, Prechecked
  <2> QED
    BY <1>1, <1>2, <2>1 DEF run_preflight, PreflightResults
<1>3. ASSUME NEW pc \in {"settled", "database"}, pre' = [pre EXCEPT !.pc = pc],
             pre.pc # "idle"
      PROVE  RolloutFits'
  <2>1. pre' = [pc |-> pc, cursor |-> pre.cursor, open |-> pre.open, data |-> pre.data,
                start |-> pre.start, before |-> pre.before, late |-> pre.late,
                result |-> pre.result]
    BY <1>0, <1>3
  <2>2. ScanFits'
    BY <2>1 DEF ScanFits
  <2> QED
    BY <1>0, <1>a, <1>3, <2>1, <2>2, Prechecked
<1>4. CASE _probe_one \/ CompareFingerprints
  BY <1>1, <1>3, <1>4 DEF _probe_one, CompareFingerprints, PreflightResults
<1>5. CASE check_readiness
  <2>1. CASE pre' = [pre EXCEPT !.pc = "scan", !.cursor = Len(tasks) + 1, !.start = Len(tasks)]
    <3>0. PICK c, l : c = Len(tasks) + 1 /\ l = Len(tasks) /\ c \in Nat /\ l \in Nat
      BY <1>0
    <3>1. pre.pc = "database" /\ tasks' = tasks
      BY <1>0, <1>5 DEF check_readiness, Others
    <3>2. pre' = [pc |-> "scan", cursor |-> c, open |-> pre.open, data |-> pre.data,
                  start |-> l, before |-> pre.before, late |-> pre.late,
                  result |-> pre.result]
      BY <1>0, <2>1, <3>0
    <3>3. ScanFits'
      BY <3>0, <3>1, <3>2 DEF ScanFits
    <3> QED
      BY <1>0, <1>a, <3>1, <3>2, <3>3, Prechecked
  <2> QED
    BY <1>1, <1>5, <2>1 DEF check_readiness, PreflightResults
<1>6. CASE _scan_history
  <2>0. pre.pc = "scan"
    BY <1>6 DEF _scan_history
  <2>1. CASE pre'.pc = "scan"
    <3>1. ScanFits' /\ RecordsFit'
      BY <1>6, <2>1, ScanGoesOn
    <3>2. pre'.result \in PreflightResults \cup {NotRun}
      BY <2>1, <3>1 DEF RecordsFit
    <3> QED
      BY <1>0, <2>1, <3>1, <3>2, Prechecked DEF RecordsFit
  <2>2. CASE pre'.pc # "scan"
    <3>1. \E result \in PreflightResults : Verdict(result)
      <4>1. PICK open, data, next :
              \/ Verdict("database_unavailable")
              \/ next = 1 /\ Verdict(ScanVerdict(pre.open + open, pre.data + data))
              \/ pre' = [pre EXCEPT !.cursor = next, !.open = pre.open + open,
                                   !.data = pre.data + data]
        BY <1>6, ScanPage
      <4>2. ~ pre' = [pre EXCEPT !.cursor = next, !.open = pre.open + open,
                                 !.data = pre.data + data]
        BY <1>0, <2>0, <2>2
      <4> QED
        BY <4>1, <4>2 DEF ScanVerdict, PreflightResults
    <3> QED
      BY <1>1, <3>1
  <2> QED
    BY <2>1, <2>2
<1> QED
  BY <1>2, <1>4, <1>5, <1>6

\* A command that is killed is forgotten; what it wrote stays.
LEMMA CrashStep ==
    ASSUME RolloutFits, Crash
    PROVE  RolloutFits'
<1>0. PICK crashes : crashes = budget.crashes - 1
  OBVIOUS
<1>1. /\ mig' = [pc |-> "idle", seen |-> NoLegacy, absent |-> {}, result |-> mig.result]
      /\ pre' = [pc |-> "idle", cursor |-> 0, open |-> 0, data |-> 0, start |-> 0,
                 before |-> [d \in Domains |-> NoFile], late |-> {}, result |-> NotRun]
      /\ UNCHANGED <<legacy, files, writable, tasks, db, foreign>>
  BY DEF Crash, IdleMigration, IdlePreflight
<1>2. /\ budget' \in [crashes: 0..MaxCrashes, edits: 0..MaxEdits]
      /\ budget'.edits = budget.edits
  <2>1. budget' = [budget EXCEPT !.crashes = crashes] /\ budget.crashes > 0
    BY <1>0 DEF Crash
  <2>2. crashes \in 0..MaxCrashes
    BY <1>0, <2>1, RolloutAssumption DEF RolloutFits, RolloutTypeOK
  <2> QED
    BY <2>1, <2>2 DEF RolloutFits, RolloutTypeOK
<1>3. NoLegacy \in Legacies /\ NoLegacy.inode = 0 /\ 0 <= Newest /\ Newest' = Newest
  BY <1>2, RolloutAssumption DEF Legacies, NoLegacy, Newest, RolloutFits, RolloutTypeOK
<1>4. RolloutTypeOK' /\ RecordsFit'
  BY <1>1, <1>2, <1>3 DEF RolloutFits, RolloutTypeOK, RecordsFit
<1>5. LegacyFits' /\ SplitFits' /\ ScanFits'
  BY <1>1, <1>3 DEF RolloutFits, LegacyFits, SplitFits, ScanFits, Reading, Splitting
<1>6. OwnFits'
  BY <1>1 DEF RolloutFits, OwnFits, Reading, LegacyExists
<1> QED
  BY <1>4, <1>5, <1>6 DEF RolloutFits

\* An edit takes one from the budget, and the next inode is a new one.
LEMMA Edited ==
    ASSUME RolloutFits, Edit
    PROVE  /\ budget' \in [crashes: 0..MaxCrashes, edits: 0..MaxEdits]
           /\ Newest' = Newest + 1 /\ Newest \in Nat /\ Newest' \in 1..(MaxEdits + 1)
           /\ Newest' = MaxEdits - budget.edits + 2
<1>0. PICK edits : edits = budget.edits - 1
  OBVIOUS
<1>1. budget' = [budget EXCEPT !.edits = edits] /\ budget.edits > 0
  BY <1>0 DEF Edit
<1>2. /\ edits \in 0..MaxEdits /\ budget.edits \in 0..MaxEdits
      /\ budget \in [crashes: 0..MaxCrashes, edits: 0..MaxEdits]
  BY <1>0, <1>1, RolloutAssumption DEF RolloutFits, RolloutTypeOK
<1>3. budget' \in [crashes: 0..MaxCrashes, edits: 0..MaxEdits] /\ budget'.edits = edits
  BY <1>1, <1>2
<1> QED
  BY <1>0, <1>1, <1>2, <1>3, RolloutAssumption DEF Newest

\* Others write a configuration file while no migration is past its last look.
LEMMA ForeignSteps ==
    ASSUME RolloutFits, ReplaceLegacy \/ \E d \in Domains : SaveDomain(d)
    PROVE  RolloutFits'
<1>0. /\ budget' \in [crashes: 0..MaxCrashes, edits: 0..MaxEdits]
      /\ Newest' = Newest + 1 /\ Newest \in Nat /\ Newest' \in 1..(MaxEdits + 1)
      /\ Newest' = MaxEdits - budget.edits + 2
      /\ foreign' = TRUE /\ UNCHANGED <<writable, mig, pre, tasks, db>>
      /\ legacy \in Legacies /\ mig.seen \in Legacies
  BY Edited DEF ReplaceLegacy, SaveDomain, RolloutFits, RolloutTypeOK
<1>1. RecordsFit' /\ ScanFits' /\ OwnFits'
  BY <1>0 DEF RolloutFits, RecordsFit, ScanFits, Passed, OwnFits
<1>2. CASE ReplaceLegacy
  <2>1. PICK doc \in Contents : legacy' = [inode |-> Newest', doc |-> doc]
    BY <1>0, <1>2 DEF ReplaceLegacy
  <2>2. legacy' \in Legacies /\ legacy'.inode = Newest' /\ UNCHANGED files /\ mig.pc # "unlink"
    BY <1>0, <1>2, <2>1 DEF Legacies, ReplaceLegacy
  <2>3. RolloutTypeOK'
    BY <1>0, <2>2 DEF RolloutFits, RolloutTypeOK
  <2>4. LegacyFits'
    <3>1. mig.seen.inode <= Newest /\ mig.seen.inode \in Nat
      BY <1>0, Inodes DEF RolloutFits, LegacyFits
    <3>2. legacy'.inode # mig.seen.inode /\ mig.seen.inode <= Newest' /\ legacy'.inode <= Newest'
      BY <1>0, <2>2, <3>1
    <3> QED
      BY <1>0, <3>2 DEF RolloutFits, LegacyFits
  <2>5. SplitFits'
    BY <1>0, <2>2 DEF RolloutFits, SplitFits
  <2> QED
    BY <1>1, <2>3, <2>4, <2>5 DEF RolloutFits
<1>3. ASSUME NEW d \in Domains, SaveDomain(d)
      PROVE  RolloutFits'
  <2>1. /\ mig.pc = "idle" /\ UNCHANGED legacy
        /\ files' = [files EXCEPT ![d] = Saved] /\ Saved \in FileValues
    BY <1>3 DEF SaveDomain, FileValues
  <2>2. RolloutTypeOK'
    BY <1>0, <2>1 DEF RolloutFits, RolloutTypeOK
  <2>3. LegacyFits'
    <3>1. mig.seen.inode <= Newest' /\ legacy.inode <= Newest'
      BY <1>0, Inodes DEF RolloutFits, LegacyFits
    <3> QED
      BY <1>0, <2>1, <3>1 DEF RolloutFits, LegacyFits, Reading, Splitting
  <2>4. SplitFits'
    BY <1>0, <2>1 DEF SplitFits
  <2> QED
    BY <1>1, <2>2, <2>3, <2>4 DEF RolloutFits
<1> QED
  BY <1>2, <1>3

\* Tasks come and end, and the database and the directories fail and return.
LEMMA WorldSteps ==
    ASSUME RolloutFits, ChangeEnvironment \/ TaskMoves
    PROVE  RolloutFits'
<1>0. /\ budget' \in [crashes: 0..MaxCrashes, edits: 0..MaxEdits]
      /\ Newest' = Newest + 1 /\ Newest \in Nat
      /\ UNCHANGED <<legacy, files, mig, pre, foreign>>
      /\ legacy \in Legacies /\ mig.seen \in Legacies /\ tasks \in Seq(Tasks)
  BY Edited DEF ChangeEnvironment, TaskMoves, RolloutFits, RolloutTypeOK, RecordsFit
<1>1. LegacyFits' /\ SplitFits' /\ OwnFits'
  <2>1. mig.seen.inode <= Newest' /\ legacy.inode <= Newest'
    BY <1>0, Inodes DEF RolloutFits, LegacyFits
  <2> QED
    BY <1>0, <2>1 DEF RolloutFits, LegacyFits, SplitFits, OwnFits, LegacyExists
<1>2. CASE ChangeEnvironment
  <2>1. writable' \in BOOLEAN /\ db' \in {"ok", "behind", "down"} /\ UNCHANGED tasks
    BY <1>2 DEF ChangeEnvironment, RolloutFits, RolloutTypeOK
  <2> QED
    BY <1>0, <1>1, <2>1 DEF RolloutFits, RolloutTypeOK, RecordsFit, ScanFits, Passed
<1>3. CASE TaskMoves
  <2>0. UNCHANGED <<writable, db>>
    BY <1>3 DEF TaskMoves
  <2>1. /\ tasks' \in Seq(Tasks) /\ Len(tasks') <= MaxTasks /\ Len(tasks) <= Len(tasks')
        /\ \A i \in 1..Len(tasks) : tasks[i].terminal => tasks'[i] = tasks[i]
    <3>1. CASE Len(tasks) < MaxTasks /\ tasks' = Append(tasks, [terminal |-> FALSE, data |-> FALSE])
      <4>1. PICK n \in Tasks : tasks' = Append(tasks, n)
        BY <3>1 DEF Tasks
      <4> QED
        BY <1>0, <3>1, <4>1, RolloutAssumption
    <3>2. ASSUME NEW i \in 1..Len(tasks), ~ tasks[i].terminal, NEW n \in Tasks,
                 tasks' = [tasks EXCEPT ![i] = n]
          PROVE  /\ tasks' \in Seq(Tasks) /\ Len(tasks') = Len(tasks)
                 /\ \A j \in 1..Len(tasks) : tasks[j].terminal => tasks'[j] = tasks[j]
      BY <1>0, <3>2
    <3> QED
      BY <1>0, <1>3, <3>1, <3>2 DEF TaskMoves, RolloutFits, RolloutTypeOK
  <2>2. \A i \in 1..Len(tasks') : tasks'[i] \in Tasks
    BY <2>1
  <2>3. RolloutTypeOK' /\ RecordsFit'
    BY <1>0, <2>0, <2>1, <2>2 DEF RolloutFits, RolloutTypeOK, RecordsFit
  <2>4. ScanFits'
    <3> SUFFICES ASSUME pre.pc = "scan"
                 PROVE  ScanFits'
      BY <1>0 DEF ScanFits
    <3>1. /\ pre.start \in Nat /\ pre.start <= Len(tasks) /\ pre.cursor \in Nat
          /\ Len(tasks) \in Nat /\ Len(tasks') \in Nat
          /\ pre.open = 0 /\ pre.data = 0 =>
                \A i \in 1..pre.start : i >= pre.cursor => Passed(i)
      BY <1>0, <2>1 DEF RolloutFits, ScanFits
    <3>2. pre.start <= Len(tasks')
      BY <2>1, <3>1
    <3>3. ASSUME pre.open = 0, pre.data = 0, NEW i \in 1..pre.start, i >= pre.cursor
          PROVE  tasks'[i].terminal /\ (tasks'[i].data => i \in pre.late)
      <4>1. i \in 1..Len(tasks)
        BY <3>1
      <4> QED
        BY <2>1, <3>1, <3>3, <4>1 DEF Passed
    <3> QED
      BY <1>0, <3>1, <3>2, <3>3 DEF ScanFits, Passed
  <2> QED
    BY <1>1, <2>3, <2>4 DEF RolloutFits
<1> QED
  BY <1>2, <1>3

\* A lost attempt stores its plan on a task that has ended: behind the scan it is noted,
\* and what the scan has passed is still passed.
LEMMA LatePlanStep ==
    ASSUME RolloutFits, LatePlan
    PROVE  RolloutFits'
<1>0. /\ budget' \in [crashes: 0..MaxCrashes, edits: 0..MaxEdits]
      /\ Newest' = Newest + 1 /\ Newest \in Nat
      /\ UNCHANGED <<legacy, files, writable, mig, db, foreign>>
      /\ legacy \in Legacies /\ mig.seen \in Legacies /\ tasks \in Seq(Tasks)
      /\ Len(tasks) <= MaxTasks
  BY Edited DEF LatePlan, RolloutFits, RolloutTypeOK, RecordsFit
<1>1. LegacyFits' /\ SplitFits' /\ OwnFits'
  <2>1. mig.seen.inode <= Newest' /\ legacy.inode <= Newest'
    BY <1>0, Inodes DEF RolloutFits, LegacyFits
  <2> QED
    BY <1>0, <2>1 DEF RolloutFits, LegacyFits, SplitFits, OwnFits, LegacyExists
<1>2. PICK i \in 1..Len(tasks) :
        /\ tasks[i].terminal /\ ~ tasks[i].data
        /\ tasks' = [tasks EXCEPT ![i].data = TRUE]
        /\ pre' = IF pre.pc = "scan" /\ i >= pre.cursor
                  THEN [pre EXCEPT !.late = @ \cup {i}] ELSE pre
  BY DEF LatePlan
<1>3. PICK late : /\ late = IF pre.pc = "scan" /\ i >= pre.cursor
                             THEN pre.late \cup {i} ELSE pre.late
  OBVIOUS
<1>4. pre' = [pc |-> pre.pc, cursor |-> pre.cursor, open |-> pre.open, data |-> pre.data,
              start |-> pre.start, before |-> pre.before, late |-> late, result |-> pre.result]
  <2>1. pre = [pc |-> pre.pc, cursor |-> pre.cursor, open |-> pre.open, data |-> pre.data,
               start |-> pre.start, before |-> pre.before, late |-> pre.late,
               result |-> pre.result]
    BY DEF RolloutFits, RecordsFit
  <2> QED
    BY <1>2, <1>3, <2>1
<1>5. /\ tasks' \in Seq(Tasks) /\ Len(tasks') = Len(tasks) /\ Len(tasks) \in Nat
      /\ \A j \in 1..Len(tasks) : tasks'[j].terminal = tasks[j].terminal
      /\ \A j \in 1..Len(tasks) : j # i => tasks'[j] = tasks[j]
  <2>1. PICK old \in Tasks : tasks[i] = old
    BY <1>0, <1>2
  <2>2. old = [terminal |-> TRUE, data |-> FALSE]
    BY <1>2, <2>1 DEF Tasks
  <2>3. PICK ended \in Tasks : ended = [old EXCEPT !.data = TRUE] /\ ended.terminal = TRUE
    <3>1. [old EXCEPT !.data = TRUE] = [terminal |-> TRUE, data |-> TRUE]
      <4>1. PICK t, f : t = TRUE /\ f = FALSE
        OBVIOUS
      <4>2. old = [terminal |-> t, data |-> f]
        BY <2>2, <4>1
      <4>3. [old EXCEPT !.data = t] = [terminal |-> t, data |-> t]
        BY <4>2
      <4> QED
        BY <4>1, <4>3
    <3>2. [terminal |-> TRUE, data |-> TRUE] \in Tasks
      BY DEF Tasks
    <3> QED
      BY <3>1, <3>2
  <2>4. tasks' = [tasks EXCEPT ![i] = ended]
    BY <1>2, <2>1, <2>3
  <2>5. Len(tasks) \in Nat /\ i \in 1..Len(tasks)
    BY <1>0, <1>2
  <2>6. /\ tasks' \in Seq(Tasks) /\ Len(tasks') = Len(tasks)
        /\ tasks'[i] = ended /\ \A j \in 1..Len(tasks) : j # i => tasks'[j] = tasks[j]
    BY <1>0, <2>3, <2>4, <2>5
  <2>7. tasks[i].terminal = ended.terminal
    BY <2>1, <2>2, <2>3
  <2> QED
    BY <2>5, <2>6, <2>7
<1>6. RolloutTypeOK' /\ RecordsFit'
  BY <1>0, <1>4, <1>5 DEF RolloutFits, RolloutTypeOK, RecordsFit
<1>7. ScanFits'
  <2> SUFFICES ASSUME pre.pc = "scan"
               PROVE  ScanFits'
    BY <1>4 DEF ScanFits
  <2>1. /\ pre.start \in Nat /\ pre.start <= Len(tasks) /\ pre.cursor \in Nat
        /\ pre.open = 0 /\ pre.data = 0 =>
              \A j \in 1..pre.start : j >= pre.cursor => Passed(j)
    BY DEF RolloutFits, ScanFits
  <2>2. ASSUME pre.open = 0, pre.data = 0, NEW j \in 1..pre.start, j >= pre.cursor
        PROVE  tasks'[j].terminal /\ (tasks'[j].data => j \in late)
    <3>1. j \in 1..Len(tasks) /\ tasks[j].terminal /\ (tasks[j].data => j \in pre.late)
      BY <1>5, <2>1, <2>2 DEF Passed
    <3>2. j = i => j \in late
      BY <1>3, <2>2
    <3>3. j \in pre.late => j \in late
      BY <1>3
    <3> QED
      BY <1>5, <3>1, <3>2, <3>3
  <2> QED
    BY <1>4, <1>5, <2>1, <2>2 DEF ScanFits, Passed
<1> QED
  BY <1>1, <1>6, <1>7 DEF RolloutFits

\* Every step keeps the invariant.
LEMMA RolloutFitsNext == RolloutFits /\ [RolloutNext]_rvars => RolloutFits'
<1> SUFFICES ASSUME RolloutFits, [RolloutNext]_rvars
             PROVE  RolloutFits'
  OBVIOUS
<1>1. CASE UNCHANGED rvars
  BY <1>1 DEF rvars, RolloutFits, RolloutTypeOK, RecordsFit, LegacyFits, SplitFits, OwnFits,
     ScanFits, Passed, Newest, LegacyExists
<1> QED
  BY <1>1, LookSteps, WriteSteps, PreflightSteps, CrashStep, ForeignSteps, WorldSteps, LatePlanStep
     DEF RolloutNext

\* The migration removes only a legacy file whose halves are on disk, and writes a domain
\* only where there was none (_migrate).
LEMMA MigrationStep ==
    ASSUME RolloutFits, [RolloutNext]_rvars
    PROVE  /\ LegacyExists /\ legacy' = NoLegacy =>
                \A d \in Domains : files[d] = Half(d, legacy.doc)
           /\ \A d \in Domains : mig.pc = "write" /\ files'[d] # files[d] =>
                /\ ~ Present(files[d])
                /\ \A e \in Domains : Present(files[e]) => files[e] = Half(e, mig.seen.doc)
<1>1. CASE RemoveLegacy
  BY <1>1 DEF RemoveLegacy, RolloutFits, SplitFits
<1>2. CASE _write_and_verify
  BY <1>2 DEF _write_and_verify, RolloutFits, RolloutTypeOK, SplitFits, LegacyExists
<1>3. CASE ReplaceLegacy
  <2>1. /\ Newest' \in 1..(MaxEdits + 1) /\ Newest' = MaxEdits - budget.edits + 2
    BY <1>3, Edited DEF ReplaceLegacy
  <2>2. PICK doc \in Contents : legacy' = [inode |-> Newest', doc |-> doc]
    BY <1>3, <2>1 DEF ReplaceLegacy
  <2>3. legacy' # NoLegacy /\ UNCHANGED files
    BY <1>3, <2>1, <2>2 DEF NoLegacy, ReplaceLegacy
  <2> QED
    BY <2>3
<1>4. CASE \E d \in Domains : SaveDomain(d)
  BY <1>4 DEF SaveDomain, LegacyExists
<1>5. CASE ~ (\/ RemoveLegacy \/ _write_and_verify \/ ReplaceLegacy
              \/ \E d \in Domains : SaveDomain(d))
  <2>1. UNCHANGED <<legacy, files>>
    BY <1>5 DEF RolloutNext, migrate_legacy_integration_config, read_legacy_integration_config,
       _existing, ConfirmMigration, run_preflight, _probe_one, CompareFingerprints,
       check_readiness, _scan_history, Others, Crash, ChangeEnvironment, TaskMoves, LatePlan,
       rvars
  <2> QED
    BY <2>1 DEF LegacyExists
<1> QED
  BY <1>1, <1>2, <1>3, <1>4, <1>5

\* A preflight says ok after a scan that ended with nothing counted (_scan_history).
LEMMA PreflightStep ==
    ASSUME RolloutFits, [RolloutNext]_rvars, pre.pc = "scan", pre'.result = "ok"
    PROVE  \A i \in 1..pre.start : tasks[i].terminal /\ (tasks[i].data => i \in pre.late)
<1>0. pre.result = NotRun
  BY DEF RolloutFits, RecordsFit
<1>1. ~ UNCHANGED pre
  BY <1>0 DEF NotRun
<1>4. ~ LatePlan
  <2>1. LatePlan => \E late : pre' = pre \/ pre' = [pre EXCEPT !.late = late]
    BY DEF LatePlan
  <2>2. ASSUME NEW late, pre' = [pre EXCEPT !.late = late]
        PROVE  pre'.result = pre.result
    BY <2>2 DEF RolloutFits, RecordsFit
  <2> QED
    BY <1>0, <2>1, <2>2 DEF NotRun
<1>2. ~ Crash
  BY DEF Crash, IdlePreflight, NotRun
<1>3. _scan_history
  BY <1>1, <1>2, <1>4 DEF RolloutNext, migrate_legacy_integration_config,
     read_legacy_integration_config, _existing, _write_and_verify, ConfirmMigration,
     RemoveLegacy, RolloutRest, run_preflight, _probe_one, CompareFingerprints,
     check_readiness, ChangeEnvironment, TaskMoves, ReplaceLegacy, SaveDomain, rvars
<1> QED
  BY <1>3, ScanEnds DEF Passed

\* Rolling out the split configuration: whatever is killed and run again, nothing is lost,
\* no run meets a conflict of its own making, and a preflight that says ok has judged every
\* task of the scope: it has ended, and a plan it has now was stored behind the scan
\* (integration_config_migrate, release_preflight, PlanStore.save).
THEOREM RolloutStaysSafe == RolloutSpec => RolloutIsSafe
<1>1. RolloutSpec => []RolloutFits
  BY RolloutFitsInit, RolloutFitsNext, PTL DEF RolloutSpec
<1>2. RolloutFits => RolloutTypeOK /\ RerunNeverConflicts
  BY DEF RolloutFits, OwnFits, RerunNeverConflicts
<1>3. RolloutFits /\ [RolloutNext]_rvars =>
        [/\ LegacyExists /\ legacy' = NoLegacy =>
              \A d \in Domains : files[d] = Half(d, legacy.doc)
         /\ \A d \in Domains : mig.pc = "write" /\ files'[d] # files[d] =>
              /\ ~Present(files[d])
              /\ \A e \in Domains : Present(files[e]) => files[e] = Half(e, mig.seen.doc)]_rvars
  BY MigrationStep
<1>4. RolloutFits /\ [RolloutNext]_rvars =>
        [pre.pc = "scan" /\ pre'.result = "ok" =>
          \A i \in 1..pre.start :
              tasks[i].terminal /\ (tasks[i].data => i \in pre.late)]_rvars
  BY PreflightStep
<1> QED
  BY <1>1, <1>2, <1>3, <1>4, PTL
     DEF RolloutSpec, RolloutIsSafe, MigrationLosesNothing, PreflightOkIsTrue
=============================================================================
