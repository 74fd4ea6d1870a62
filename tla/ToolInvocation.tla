--------------------------- MODULE ToolInvocation ---------------------------
(***************************************************************************)
(* Tool calls from admission to the answer: the gateway (tools/gateway.py) *)
(* on the event loop, and the StarRocks adapter (tools/starrocks.py) whose *)
(* work runs in a thread that the gateway's timeout does not stop.         *)
(*                                                                         *)
(* The caller keeps the certificates it got and may present any of them    *)
(* with any call and any context.  The other adapters are one step.  The   *)
(* server's facts, which preflight compares with what was approved, may    *)
(* drift at any time.                                                      *)
(***************************************************************************)
EXTENDS StepAdmission, Sequences

CONSTANTS
    Invocations,        \* calls that are under way at the same time
    PoolSize,           \* threads of the executor asyncio.to_thread uses
    MaxDrift            \* bound on the changes of the server's facts

ASSUME ToolAssumption == PoolSize \in Nat \ {0} /\ MaxDrift \in Nat

VARIABLES
    window,     \* the activation window of the binding: "before", "open", "after"
    drifted,    \* facts of the server that are not the approved ones
    drifts,
    inv         \* one record per invocation

toolVars == <<window, drifted, drifts, inv>>

\* The probes of _preflight, in their order.
Probes == <<"query_timeout", "version", "grants", "ddl", "identity">>
NoCall == [gateway |-> "none", operation |-> "none", arguments |-> "none", query |-> "none",
           timeout |-> 0]
\* `verified': probes this connection answered as approved; `sent': the query went out.
Idle == [pc |-> "idle", cert |-> NoCertificate, call |-> NoCall, thread |-> "none",
         conn |-> "none", verified |-> 0, sent |-> FALSE, response |-> "none",
         answer |-> "none"]

ToolInit ==
    /\ window \in {"before", "open"}
    /\ drifted = {} /\ drifts = 0
    /\ inv = [i \in Invocations |-> Idle]

At(i, pc) == inv[i].pc = pc
Thread(i, phase) == inv[i].thread = phase

-----------------------------------------------------------------------------
\* The runner: _admit, and the gateway's checks.

\* The certificates that some proposal is given.
Certificates == {admit_step(p) : p \in {x \in Proposals : admit_step(x).admitted}}
_admit(i, cert) ==
    /\ At(i, "idle") /\ inv[i].conn # "open" /\ inv[i].thread = "none"
    /\ inv' = [inv EXCEPT ![i] = [Idle EXCEPT !.pc = "admitted", !.cert = cert]]
    /\ UNCHANGED <<window, drifted, drifts>>

\* A certificate that nobody presents any more.
Forget(i) ==
    /\ At(i, "admitted")
    /\ inv' = [inv EXCEPT ![i] = Idle]
    /\ UNCHANGED <<window, drifted, drifts>>

\* Fault: the certificate is compared with the operation only.
CertificateMatches_Operation(cert, call, context) ==
    cert.admitted /\ cert.call.operation = call.operation /\ cert.revision = context.revision

\* The call is the certified one, the policy is the one it was decided under.  Only reads
\* are executed (_E1_EXECUTION_ENABLED is off).
CertificateMatches(cert, call, context) ==
    /\ cert.admitted /\ cert.call = call
    /\ cert.revision = context.revision
    /\ cert.effect = "READ"

\* _starrocks_gateway_registration: StarRocks is bound to one target; the rest is generic.
TargetGateways == {"starrocks"}
GenericGateways == {"alertmanager", "prometheus", "assets"}
Binding == [target |-> Target, actor |-> "alice"]

\* _authorize_target_binding.
_authorize_target_binding(context) ==
    /\ context.tenant = Binding.target.tenant
    /\ context.environment = Binding.target.environment
    /\ context.actor = Binding.actor
    /\ window = "open"

\* _validate_call: list and count with their template and a row limit in bounds.
_validate_call(call) == call.operation \in {"list", "count"} /\ call.query # "none"

Refuse(i) == inv' = [inv EXCEPT ![i] = [Idle EXCEPT !.answer = "refused"]]

\* invoke, up to the adapter: a refusal touches no adapter.  An exception of a generic
\* adapter is an ERROR, a malformed response is raised.
invoke(i, call, context) ==
    LET cert == inv[i].cert IN
    /\ At(i, "admitted")
    /\ CASE ~CertificateMatches(cert, call, context) -> Refuse(i)
         [] CertificateMatches(cert, call, context) /\ call.gateway \in TargetGateways ->
              IF cert.target # Binding.target \/ ~_authorize_target_binding(context) THEN Refuse(i)
              ELSE IF ~_validate_call(call)
              THEN inv' = [inv EXCEPT ![i] = [Idle EXCEPT !.answer = "ERROR"]]
              ELSE inv' = [inv EXCEPT ![i].pc = "running", ![i].call = call,
                                      ![i].thread = "queued"]
         [] CertificateMatches(cert, call, context) /\ call.gateway \in GenericGateways ->
              \E answer \in {"OK", "ERROR", "TIMEOUT", "malformed"} :
                  inv' = [inv EXCEPT ![i] = [Idle EXCEPT !.answer = answer]]
         [] OTHER -> Refuse(i)
    /\ UNCHANGED <<window, drifted, drifts>>

\* wait_for gives up.  A thread that has not started is cancelled; one that runs goes on.
TimesOut(i) ==
    /\ At(i, "running")
    /\ inv' = [inv EXCEPT ![i].pc = "idle", ![i].answer = "TIMEOUT",
                          ![i].thread = IF @ = "queued" THEN "none" ELSE @]
    /\ UNCHANGED <<window, drifted, drifts>>

\* The thread's response becomes the result; a payload is taken only when it is OK.
_issue(i) ==
    /\ At(i, "running") /\ Thread(i, "done")
    /\ inv' = [inv EXCEPT ![i].pc = "idle", ![i].thread = "none",
                          ![i].answer = inv[i].response]
    /\ UNCHANGED <<window, drifted, drifts>>

\* Nobody takes the response of a thread that outlived its call.
Dropped(i) ==
    /\ At(i, "idle") /\ Thread(i, "done")
    /\ inv' = [inv EXCEPT ![i].thread = "none"]
    /\ UNCHANGED <<window, drifted, drifts>>

-----------------------------------------------------------------------------
\* The adapter's thread: _execute_sync.

Running == {i \in Invocations : inv[i].thread \notin {"none", "queued", "done"}}

execute(i) ==
    /\ Thread(i, "queued") /\ Cardinality(Running) < PoolSize
    /\ inv' = [inv EXCEPT ![i].thread = "connecting"]
    /\ UNCHANGED <<window, drifted, drifts>>

\* _failure: an exception is a response of its own.
_failure(i) == [inv[i] EXCEPT !.response = "ERROR",
                              !.thread = IF inv[i].conn = "open" THEN "closing" ELSE "done"]

\* _read_password_file and the connection factory: without a connection nothing is closed.
connection_factory(i) ==
    /\ Thread(i, "connecting")
    /\ \/ inv' = [inv EXCEPT ![i].thread = "probing", ![i].conn = "open"]
       \/ inv' = [inv EXCEPT ![i] = _failure(i)]
    /\ UNCHANGED <<window, drifted, drifts>>

\* _preflight, one statement: the server's answer is the approved one, or the call fails;
\* so it does when the statement itself fails.
_preflight(i) ==
    /\ Thread(i, "probing")
    /\ \/ /\ Probes[inv[i].verified + 1] \notin drifted
          /\ inv' = [inv EXCEPT ![i].verified = @ + 1,
                 ![i].thread = IF inv[i].verified + 1 = Len(Probes) THEN "querying" ELSE @]
       \/ inv' = [inv EXCEPT ![i] = _failure(i)]
    /\ UNCHANGED <<window, drifted, drifts>>

\* What the query may give: rows as approved, one row more than the limit, other columns, a
\* count that is none, a driver error.
Batches == {"approved", "too_many", "columns", "malformed", "error"}

\* _rows_to_payload and the checks of a count.
_rows_to_payload(batch) == batch = "approved"

query(i, batch) ==
    /\ Thread(i, "querying")
    /\ inv' = [inv EXCEPT ![i] =
           IF _rows_to_payload(batch)
           THEN [inv[i] EXCEPT !.sent = TRUE, !.response = "OK", !.thread = "closing"]
           ELSE [_failure(i) EXCEPT !.sent = TRUE]]
    /\ UNCHANGED <<window, drifted, drifts>>

\* finally: connection.close().
close(i) ==
    /\ Thread(i, "closing")
    /\ inv' = [inv EXCEPT ![i].thread = "done", ![i].conn = "closed"]
    /\ UNCHANGED <<window, drifted, drifts>>

-----------------------------------------------------------------------------
\* Around the calls.

WindowMoves ==
    /\ window # "after"
    /\ window' = IF window = "before" THEN "open" ELSE "after"
    /\ UNCHANGED <<drifted, drifts, inv>>

Drift(fact) ==
    /\ drifts < MaxDrift /\ drifts' = drifts + 1
    /\ drifted' = IF fact \in drifted THEN drifted \ {fact} ELSE drifted \cup {fact}
    /\ UNCHANGED <<window, inv>>

Contexts == {RequestContext, [RequestContext EXCEPT !.revision = "old"],
             [RequestContext EXCEPT !.actor = "bob"]}
Calls == {p.call : p \in {x \in Proposals : x.step.operation \in {"list", "lookup_asset"}}}

Work(i) ==
    \/ execute(i) \/ connection_factory(i) \/ _preflight(i)
    \/ \E batch \in Batches : query(i, batch)
    \/ close(i)
ToolNext ==
    \/ \E i \in Invocations :
         \/ \E cert \in Certificates : _admit(i, cert)
         \/ Forget(i)
         \/ \E call \in Calls, context \in Contexts : invoke(i, call, context)
         \/ TimesOut(i) \/ _issue(i) \/ Dropped(i)
         \/ Work(i)
    \/ WindowMoves
    \/ \E n \in DOMAIN Probes : Drift(Probes[n])

-----------------------------------------------------------------------------
\* Properties.

\* A query reaches the server only for a certified call of the current policy, with the
\* text its template gives, on the approved target, and only after all five facts of the
\* server were found as approved on the connection it is sent on; rows become a result
\* only then, whatever calls, timeouts and drifts overlap (invoke, _preflight).
EvidenceIsEarned ==
    \A i \in Invocations : inv[i].sent \/ inv[i].response = "OK" =>
        /\ inv[i].verified = Len(Probes)
        /\ inv[i].call.query = "compiled"
        /\ inv[i].call.operation \in {"list", "count"}
        /\ inv[i].cert.target = Target /\ inv[i].cert.revision = POLICY_REVISION
=============================================================================
