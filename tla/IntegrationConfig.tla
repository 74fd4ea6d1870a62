------------------------- MODULE IntegrationConfig -------------------------
(***************************************************************************)
(* The configuration console: IntegrationConfigService in the one Web      *)
(* process, the three domain files, the admin audit, the provider state    *)
(* (load receipts and test results), the OAuth test states, and the        *)
(* services that load the files when they start.                           *)
(*                                                                         *)
(* A handler is one call of the service; each of its actions is one await: *)
(* an audit append, a file access in a thread, a provider call, a write of *)
(* the provider state.  Writers of a file hold the one lock of the         *)
(* service; probes hold none.                                              *)
(*                                                                         *)
(* Abstractions.  The actor of a call is a local administrator with every  *)
(* capability or somebody who is refused.  A file may become unreadable    *)
(* and readable again with its old content (permissions, an unmounted      *)
(* volume).  The directory fsync may fail after os.replace: the new file   *)
(* is visible and a power loss may take it back.                           *)
(***************************************************************************)
EXTENDS ConfigDocuments

CONSTANTS
    Ops,                \* server-side trace ids, one per request
    Calls,              \* the calls administrators may make under each of them
    Services,           \* the services of this deployment
    RequiredBy,         \* required_services: domain -> services that load it
    Documents,          \* the files a deployment may start with
    MaxFaults,          \* bound on failed store and file calls
    MaxRestarts,        \* bound on process restarts
    MaxOutages          \* bound on times a file becomes unreadable

Web == "web"
Nobody == "nobody"

ASSUME ConfigAssumption ==
    /\ Nobody \notin Ops
    /\ Web \in Services /\ RequiredBy \in [ConfigDomain -> SUBSET Services]
    /\ MaxFaults \in Nat /\ MaxRestarts \in Nat /\ MaxOutages \in Nat

CheckName == {"gemini_connection", "feishu_credentials", "feishu_oauth"}
DomainOf(check) == IF check = "gemini_connection" THEN "ai" ELSE "feishu"

required_services_for_check(check) ==
    CASE check = "gemini_connection" -> RequiredBy["ai"]
      [] check = "feishu_credentials" -> RequiredBy["feishu"]
      [] check = "feishu_oauth" -> RequiredBy["feishu"] \cap {Web}

VARIABLES
    file,       \* each domain's document, as a reader sees it
    durable,    \* the documents a power loss leaves
    readable,   \* whether the file can be read and parsed
    audit,      \* the last audit stage of each operation
    op,         \* the handlers
    lock,       \* IntegrationConfigService._lock
    receipts,   \* service_config_state
    held,       \* the document each service runs with
    tests,      \* provider_test_state
    states,     \* the OAuth test state of each operation
    written,    \* history: every document ever visible, with its author
    passed,     \* history: checks that passed, with the document they used
    exchanges,  \* history: OAuth codes exchanged per operation
    lost,       \* history: a power loss took a visible document back
    faults, restarts, outages

vars == <<file, durable, readable, audit, op, lock, receipts, held, tests, states,
          written, passed, exchanges, lost, faults, restarts, outages>>
serviceVars == <<receipts, held, restarts>>
fileVars == <<file, durable, readable, written, lost, outages>>
probeVars == <<tests, states, passed, exchanges>>

Mutations == {"save_ai", "save_feishu", "clear_ai", "clear_feishu", "create_resource",
              "update_resource", "clear_resource_secret", "delete_resource"}

\* What the routes build: a write names its document, a test the check it runs; an
\* update keeps a secret or carries one, and never carries its absence.  A deployment
\* starts with files of some generation, 0 where there is none.
ASSUME CallAssumption ==
    /\ \A o \in Ops : \A call \in Calls[o] :
        /\ call.verb \in Mutations \cup {"probe", "oauth"} /\ call.domain \in ConfigDomain
        /\ call.verb \in {"probe", "oauth"} =>
             call.check \in CheckName /\ call.domain = DomainOf(call.check)
        /\ call.verb = "oauth" => call.check = "feishu_oauth"
        /\ call.verb \in {"save_ai", "clear_ai"} => call.domain = "ai"
        /\ call.verb \in {"save_feishu", "clear_feishu"} => call.domain = "feishu"
        /\ call.verb \in {"create_resource", "update_resource", "clear_resource_secret",
                         "delete_resource"} => call.domain = "resources"
        /\ call.verb = "save_ai" => call.update.api_key # Absent
        /\ call.verb = "save_feishu" => Absent \notin {call.update.app_id, call.update.app_secret}
        /\ call.verb = "create_resource" => "secret" \in DOMAIN call.update
        /\ call.verb = "update_resource" => call.update.secret # Absent
    /\ \A docs \in Documents :
        /\ \A d \in ConfigDomain : docs[d].gen \in Nat
        /\ \A i \in DOMAIN docs["resources"].body : "secret" \in DOMAIN docs["resources"].body[i]

\* pc: "queued" behind the lock; "started" after STARTED; "read" with the document;
\* "wrote", "failing", "probed", "recorded" towards the terminal; "issued" while the
\* browser is away; "callback", "open", "checked" when it comes back.
Idle == [pc |-> "idle", call |-> [verb |-> "none"], seen |-> [gen |-> 0], verdict |-> "failed"]
InFlight(o) == op[o].pc \notin {"idle", "issued", "done", "unavailable"}

Init ==
    /\ file \in {[d \in ConfigDomain |-> docs[d]] : docs \in Documents}
    /\ durable = file
    /\ readable = [d \in ConfigDomain |-> TRUE]
    /\ audit = [o \in Ops |-> "none"]
    /\ op = [o \in Ops |-> Idle]
    /\ lock = Nobody
    /\ receipts = [d \in ConfigDomain |-> [s \in Services |->
            IF s \in RequiredBy[d] /\ file[d].gen > 0 THEN LoadReceipt(d, file[d]) ELSE NoReceipt]]
    /\ held = [d \in ConfigDomain |-> [s \in Services |->
            IF s \in RequiredBy[d] /\ Usable(d, file[d]) THEN file[d] ELSE Missing(d)]]
    /\ tests = [c \in CheckName |-> NoTest]
    /\ states = [o \in Ops |-> "none"]
    /\ written = {[domain |-> d, doc |-> file[d], by |-> Nobody] : d \in ConfigDomain}
    /\ passed = {} /\ exchanges = [o \in Ops |-> 0] /\ lost = FALSE
    /\ faults = 0 /\ restarts = 0 /\ outages = 0

At(o, pc) == op[o].pc = pc
\* The handler is gone; an OAuth state it left behind still names the operation.
Ended(o, pc) == IF states[o] = "issued" THEN [op[o] EXCEPT !.pc = pc] ELSE [Idle EXCEPT !.pc = pc]
End(o, pc) == op' = [op EXCEPT ![o] = Ended(o, pc)]
Goto(o, pc) == op' = [op EXCEPT ![o].pc = pc]
Fault == faults < MaxFaults /\ faults' = faults + 1
NoFault == faults' = faults
Domain(o) == op[o].call.domain
Check(o) == op[o].call.check
IsMutation(o) == op[o].call.verb \in Mutations

-----------------------------------------------------------------------------
\* The admin audit.

\* _deny_unless_allowed: a refused actor leaves DENIED and nothing else.
_deny_unless_allowed(o) ==
    /\ At(o, "idle")
    /\ \/ audit' = [audit EXCEPT ![o] = "denied"] /\ End(o, "done") /\ NoFault
       \/ Fault /\ End(o, "unavailable") /\ UNCHANGED audit
    /\ UNCHANGED <<fileVars, serviceVars, probeVars, lock>>

Request(o, call) ==
    /\ At(o, "idle")
    /\ op' = [op EXCEPT ![o].pc = "queued", ![o].call = call]
    /\ UNCHANGED <<fileVars, serviceVars, probeVars, lock, audit, faults>>

\* Fault: a write does not wait for the lock.
_start_WithoutLock(o) ==
    /\ At(o, "queued")
    /\ \/ /\ audit' = [audit EXCEPT ![o] = "started"]
          /\ lock' = IF IsMutation(o) THEN o ELSE lock
          /\ Goto(o, "started") /\ NoFault
       \/ Fault /\ End(o, "unavailable") /\ UNCHANGED <<audit, lock>>
    /\ UNCHANGED <<fileVars, serviceVars, probeVars>>

\* _start: a mutation takes the lock first; when STARTED is not stored nothing is done.
_start(o) ==
    /\ At(o, "queued")
    /\ IsMutation(o) => lock = Nobody
    /\ \/ /\ audit' = [audit EXCEPT ![o] = "started"]
          /\ lock' = IF IsMutation(o) THEN o ELSE lock
          /\ Goto(o, "started") /\ NoFault
       \/ Fault /\ End(o, "unavailable") /\ UNCHANGED <<audit, lock>>
    /\ UNCHANGED <<fileVars, serviceVars, probeVars>>

Unlocked(o) == IF lock = o THEN Nobody ELSE lock

\* _terminal and _fail: one terminal per STARTED; leaving the block frees the lock.
_terminal(o) ==
    /\ op[o].pc \in {"wrote", "failing", "recorded"}
    /\ \/ /\ audit[o] = "started"
          /\ audit' = [audit EXCEPT ![o] =
                IF At(o, "wrote") \/ (At(o, "recorded") /\ op[o].verdict = "passed")
                THEN "succeeded" ELSE "failed"]
          /\ End(o, "done") /\ NoFault
       \/ ((audit[o] # "started" /\ NoFault) \/ Fault) /\ End(o, "unavailable") /\ UNCHANGED audit
    /\ lock' = Unlocked(o)
    /\ UNCHANGED <<fileVars, serviceVars, probeVars>>

-----------------------------------------------------------------------------
\* Files.

\* _read: a missing file is generation 0, an unreadable one ends the operation.
_read(o, from, to) ==
    /\ At(o, from)
    /\ op' = IF readable[Domain(o)]
             THEN [op EXCEPT ![o].pc = to, ![o].seen = file[Domain(o)]]
             ELSE [op EXCEPT ![o].pc = "failing"]
    /\ UNCHANGED <<fileVars, serviceVars, probeVars, audit, lock, faults>>

\* _atomic_write: nothing replaced, replaced and synced, or replaced and not known to be.
_atomic_write(o, d, doc) ==
    \/ Fault /\ Goto(o, "failing") /\ UNCHANGED fileVars
    \/ /\ file' = [file EXCEPT ![d] = doc]
       /\ readable' = [readable EXCEPT ![d] = TRUE]
       /\ written' = written \cup {[domain |-> d, doc |-> doc, by |-> o]}
       /\ \/ durable' = [durable EXCEPT ![d] = doc] /\ Goto(o, "wrote") /\ NoFault
          \/ UNCHANGED durable /\ Goto(o, "failing") /\ Fault
       /\ UNCHANGED <<lost, outages>>

NextDocument(o) == [gen |-> op[o].seen.gen + 1, body |-> NextBody(op[o].call, op[o].seen.body)]

\* _mutate: the merged or cleared provider document, one generation on.
_mutate(o) ==
    /\ At(o, "read") /\ IsMutation(o) /\ Domain(o) \in ProviderDomains
    /\ _atomic_write(o, Domain(o), NextDocument(o))
    /\ UNCHANGED <<serviceVars, probeVars, audit, lock>>

\* _mutate_resources: a refused change leaves the file and its generation alone.
_mutate_resources(o) ==
    /\ At(o, "read") /\ IsMutation(o) /\ Domain(o) = "resources"
    /\ IF IsRefused(NextDocument(o).body)
       THEN Goto(o, "failing") /\ NoFault /\ UNCHANGED fileVars
       ELSE _atomic_write(o, "resources", NextDocument(o))
    /\ UNCHANGED <<serviceVars, probeVars, audit, lock>>

-----------------------------------------------------------------------------
\* Probes.

_verdict(o, verdict, pc) == op' = [op EXCEPT ![o].pc = pc, ![o].verdict = verdict]

\* _probe: the provider is called with the document that was read.
_probe(o) ==
    /\ At(o, "read") /\ op[o].call.verb = "probe"
    /\ \E verdict \in IF Domain(o) = "ai" THEN probe_gemini_connection(op[o].seen)
                       ELSE probe_feishu_credentials(op[o].seen) :
        /\ _verdict(o, verdict, "probed")
        /\ passed' = IF verdict = "passed" THEN passed \cup {<<Check(o), op[o].seen>>} ELSE passed
    /\ UNCHANGED <<fileVars, serviceVars, audit, lock, faults, tests, states, exchanges>>

\* Fault: the result is booked to the generation on file when the probe answers.
_record_UnderLatest(o) ==
    /\ At(o, "probed")
    /\ \/ /\ tests' = IF op[o].seen.gen = 0 THEN tests
                      ELSE [tests EXCEPT ![Check(o)] = [gen |-> file[Domain(o)].gen,
                                                        status |-> op[o].verdict]]
          /\ Goto(o, "recorded") /\ NoFault
       \/ Fault /\ End(o, "unavailable") /\ UNCHANGED tests
    /\ UNCHANGED <<fileVars, serviceVars, audit, lock, states, passed, exchanges>>

\* _record: the last writer wins; without a document there is nothing to book it to.
_record(o) ==
    /\ At(o, "probed")
    /\ \/ /\ tests' = IF op[o].seen.gen = 0 THEN tests
                      ELSE [tests EXCEPT ![Check(o)] = [gen |-> op[o].seen.gen,
                                                        status |-> op[o].verdict]]
          /\ Goto(o, "recorded") /\ NoFault
       \/ Fault /\ End(o, "unavailable") /\ UNCHANGED tests
    /\ UNCHANGED <<fileVars, serviceVars, audit, lock, states, passed, exchanges>>

\* Fault: any loaded generation of the Web process will do.
web_holds_feishu_generation_Any(generation) == receipts["feishu"][Web].status = "loaded"

web_holds_feishu_generation(generation) ==
    receipts["feishu"][Web] = [gen |-> generation, status |-> "loaded"]

\* The Web process builds the OAuth adapter at start or not at all.
OAuthAssembled == held["feishu"][Web].gen > 0

oauth_test_refusal(doc) ==
    \/ ~ OAuthAssembled \/ ~ _usable_feishu(doc)
    \/ tests["feishu_credentials"] # [gen |-> doc.gen, status |-> "passed"]
    \/ ~ web_holds_feishu_generation(doc.gen)

\* start_oauth_test: a refusal is a failed test; otherwise the state binds the operation
\* to the generation, unless storing it fails or its outcome is not known.
start_oauth_test(o) ==
    /\ At(o, "read") /\ op[o].call.verb = "oauth"
    /\ \/ oauth_test_refusal(op[o].seen) /\ _verdict(o, "failed", "probed")
          /\ NoFault /\ UNCHANGED states
       \/ /\ ~ oauth_test_refusal(op[o].seen)
          /\ \/ states' = [states EXCEPT ![o] = "issued"] /\ Goto(o, "issued") /\ NoFault
             \/ states' \in {states, [states EXCEPT ![o] = "issued"]} /\ Goto(o, "failing") /\ Fault
    /\ UNCHANGED <<fileVars, serviceVars, audit, lock, tests, passed, exchanges>>

StateExpires(o) ==
    /\ states[o] = "issued"
    /\ states' = [states EXCEPT ![o] = "expired"]
    /\ UNCHANGED <<fileVars, serviceVars, audit, lock, op, faults, tests, passed, exchanges>>

\* The callback consumes the state before it looks at anything else.
oauth_connection_test_callback(o) ==
    /\ OAuthAssembled /\ states[o] = "issued" /\ ~ InFlight(o)
    /\ states' = [states EXCEPT ![o] = "consumed"]
    /\ Goto(o, "callback")
    /\ UNCHANGED <<fileVars, serviceVars, audit, lock, faults, tests, passed, exchanges>>

\* _is_open_oauth_start and the session: without a local administrator no code is exchanged.
_is_open_oauth_start(o) ==
    /\ At(o, "callback")
    /\ \/ audit[o] = "started" /\ Goto(o, "open") /\ NoFault
       \/ audit[o] = "started" /\ Goto(o, "failing") /\ NoFault
       \/ audit[o] # "started" /\ End(o, "unavailable") /\ NoFault
       \/ Fault /\ End(o, "unavailable")
    /\ UNCHANGED <<fileVars, serviceVars, probeVars, audit, lock>>

\* The handler keeps the bound generation in seen and compares the file with it.
ReadBound(o) ==
    /\ At(o, "open")
    /\ IF readable["feishu"] /\ file["feishu"].gen = op[o].seen.gen
       THEN Goto(o, "checked") ELSE Goto(o, "failing")
    /\ UNCHANGED <<fileVars, serviceVars, probeVars, audit, lock, faults>>

\* finish_oauth_test: the adapter of this process exchanges the code once, and only
\* while its receipt names the bound generation.
finish_oauth_test(o) ==
    /\ At(o, "checked")
    /\ \/ /\ web_holds_feishu_generation(op[o].seen.gen) /\ NoFault
          /\ exchanges' = [exchanges EXCEPT ![o] = @ + 1]
          /\ \/ _verdict(o, "passed", "probed")
                /\ passed' = passed \cup {<<"feishu_oauth", held["feishu"][Web]>>}
             \/ _verdict(o, "failed", "probed") /\ UNCHANGED passed
       \/ /\ ~ web_holds_feishu_generation(op[o].seen.gen) /\ NoFault
          /\ Goto(o, "failing") /\ UNCHANGED <<passed, exchanges>>
       \/ Fault /\ Goto(o, "failing") /\ UNCHANGED <<passed, exchanges>>
    /\ UNCHANGED <<fileVars, serviceVars, audit, lock, tests, states>>

-----------------------------------------------------------------------------
\* Processes.

Loads(d, s, f, ok) == s \in RequiredBy[d] /\ ok[d] /\ f[d].gen > 0

\* load_provider_credentials: credentials and receipts come from one read; an
\* unreadable file gives neither.
load_provider_credentials(S, f, ok) ==
    held' = [d \in ConfigDomain |-> [s \in Services |->
        IF s \notin S THEN held[d][s]
        ELSE IF Loads(d, s, f, ok) /\ Usable(d, f[d]) THEN f[d] ELSE Missing(d)]]

\* record_load: an upsert of the receipts there are; the other rows stay.
record_load(S, f, ok) ==
    receipts' = [d \in ConfigDomain |-> [s \in Services |->
        IF s \in S /\ Loads(d, s, f, ok) THEN LoadReceipt(d, f[d]) ELSE receipts[d][s]]]

\* The handlers of the Web process die with it, and the lock with them.
WebDies ==
    /\ op' = [o \in Ops |-> IF InFlight(o) THEN Ended(o, "unavailable") ELSE op[o]]
    /\ lock' = Nobody

Restart(s) ==
    /\ restarts < MaxRestarts /\ restarts' = restarts + 1
    /\ load_provider_credentials({s}, file, readable)
    /\ record_load({s}, file, readable)
    /\ IF s = Web THEN WebDies ELSE UNCHANGED <<op, lock>>
    /\ UNCHANGED <<fileVars, probeVars, audit, faults>>

PowerLoss ==
    /\ restarts < MaxRestarts /\ restarts' = restarts + 1
    /\ file' = durable /\ lost' = (lost \/ file # durable)
    /\ load_provider_credentials(Services, durable, readable)
    /\ record_load(Services, durable, readable)
    /\ WebDies
    /\ UNCHANGED <<probeVars, durable, readable, written, outages, audit, faults>>

FileOutage(d) ==
    /\ readable[d] /\ outages < MaxOutages /\ file[d].gen > 0
    /\ readable' = [readable EXCEPT ![d] = FALSE] /\ outages' = outages + 1
    /\ UNCHANGED <<file, durable, written, lost, serviceVars, probeVars, audit, op, lock, faults>>

FileRepair(d) ==
    /\ ~ readable[d]
    /\ readable' = [readable EXCEPT ![d] = TRUE]
    /\ UNCHANGED <<file, durable, written, lost, outages, serviceVars, probeVars, audit, op,
                   lock, faults>>

Step(o) ==
    \/ _start(o) \/ _terminal(o)
    \/ _read(o, "started", "read") \/ _mutate(o) \/ _mutate_resources(o) \/ _probe(o) \/ _record(o)
    \/ start_oauth_test(o) \/ _is_open_oauth_start(o) \/ ReadBound(o) \/ finish_oauth_test(o)

Next ==
    \/ \E o \in Ops : \/ _deny_unless_allowed(o) \/ \E call \in Calls[o] : Request(o, call)
                      \/ Step(o) \/ StateExpires(o) \/ oauth_connection_test_callback(o)
    \/ \E s \in Services : Restart(s)
    \/ PowerLoss
    \/ \E d \in ConfigDomain : FileOutage(d) \/ FileRepair(d)

Spec == Init /\ [][Next]_vars

-----------------------------------------------------------------------------
\* Properties.

ConfigTypeOK ==
    /\ audit \in [Ops -> {"none", "started", "succeeded", "failed", "denied"}]
    /\ lock \in Ops \cup {Nobody}
    /\ states \in [Ops -> {"none", "issued", "consumed", "expired"}]
    /\ readable \in [ConfigDomain -> BOOLEAN]
    /\ \A d \in ConfigDomain : file[d].gen \in Nat /\ durable[d].gen \in Nat
    /\ \A c \in CheckName : tests[c].status \in {"passed", "failed"}

\* A generation names one content: no two saves read the same generation and
\* overwrite each other, unless the machine lost a write that was reported as failed.
GenerationNamesContent ==
    lost \/ \A v, w \in written :
                v.domain = w.domain /\ v.doc.gen = w.doc.gen => v.doc = w.doc

DisplayState(check) ==
    LET d == DomainOf(check) IN
    compute_display_state(Usable(d, file[d]), current_generation(file[d]),
                          required_services_for_check(check), receipts[d], tests[check])

PendingRestart(d) ==
    _pending_restart_services(Usable(d, file[d]), current_generation(file[d]),
        UNION {required_services_for_check(c) : c \in {x \in CheckName : DomainOf(x) = d}}, receipts[d])

\* A page that says "available" says so of a document that this very check has passed
\* with: a probe that answers after a save is never booked to the new document.  And
\* the services it asks to restart are there exactly when a check waits for one.
PageIsTrue ==
    /\ lost \/ \A c \in CheckName :
           DisplayState(c) = "available" => <<c, file[DomainOf(c)]>> \in passed
    /\ \A d \in ProviderDomains :
           (PendingRestart(d) # {}) =
               (\E c \in CheckName : DomainOf(c) = d /\ DisplayState(c) = "pending_restart")

\* The audit is never wrong about the file: SUCCEEDED only for a document that survives
\* a power loss, DENIED or no STARTED only for an operation that wrote nothing, and a
\* FAILED operation that did write is one whose write was not known to be durable.
AuditTellsTheFile ==
    \A w \in written : w.by # Nobody =>
        /\ audit[w.by] \in {"started", "succeeded", "failed"}
        /\ audit[w.by] = "succeeded" => durable[w.domain].gen >= w.doc.gen
        /\ audit[w.by] = "failed" => faults > 0

\* The code of one authorization is exchanged at most once, and never for an operation
\* whose audit was already closed when the browser came back.
CodeExchangedOnce ==
    \A o \in Ops : exchanges[o] <= 1 /\ (exchanges[o] = 1 => states[o] = "consumed")

\* The OAuth check of a generation is a check of that generation: what the Web
\* process exchanges the code with is the document the state was bound to.
ExchangeUsesBoundDocument ==
    [][\A o \in Ops : exchanges'[o] # exchanges[o] => held["feishu"][Web].gen = op[o].seen.gen]_vars

SecretOf(d, body) ==
    CASE d = "ai" -> {f \in {"api_key"} : body.api_key # Absent}
      [] d = "feishu" -> {f \in {"app_id", "app_secret"} : body[f] # Absent}
      [] d = "resources" -> {i \in DOMAIN body : body[i].secret # Absent}

\* A stored secret disappears only through the clear and delete calls; an ordinary
\* save, a refused one and a failed one keep every secret there is.
SecretsOnlyCleared ==
    [][\A d \in ConfigDomain :
        \/ SecretOf(d, file[d].body) \subseteq SecretOf(d, file'[d].body)
        \/ lost'
        \/ lock # Nobody /\ op[lock].call.verb \in
             {"clear_ai", "clear_feishu", "clear_resource_secret", "delete_resource"}]_vars

\* The lock is free or a running write has it: every way out of a write, a failed
\* audit append and a dead process included, frees it for the next one.
LockHasLiveHolder == lock # Nobody => InFlight(lock) /\ IsMutation(lock) /\ audit[lock] = "started"

\* Requests that overlap do not harm each other, wherever they fail: no save overwrites
\* one it has not read, no authorization is used twice, no lock stays behind (_start,
\* _terminal, oauth_connection_test_callback).
OverlapsAreHarmless ==
    ConfigTypeOK /\ GenerationNamesContent /\ CodeExchangedOnce /\ LockHasLiveHolder

\* Neither the page nor the audit says of a document what is not so (_record,
\* _atomic_write, compute_display_state).
FileIsToldTruly == PageIsTrue /\ AuditTellsTheFile

\* A test uses the document it is booked to, and a document keeps its secrets until
\* somebody clears them (web_holds_feishu_generation, _merged_resource).
DocumentsAreHonoured == ExchangeUsesBoundDocument /\ SecretsOnlyCleared
=============================================================================
