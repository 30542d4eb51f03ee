--------------------------- MODULE RequestPipeline ---------------------------
(***************************************************************************)
(* What surrounds every endpoint: CorrelationIdMiddleware around           *)
(* AccessLogMiddleware around the exception handlers (api/middleware.py,   *)
(* api/errors.py), with ServerErrorMiddleware outside of all of them, and  *)
(* /readyz (api/health.py) as the endpoint that is modelled in full.       *)
(*                                                                         *)
(* A task serves one request after another, as the middleware's comments   *)
(* assume of the server, in one set of context variables; tasks run        *)
(* concurrently.  One step is what runs between two awaits.                *)
(***************************************************************************)
EXTENDS Naturals, Sequences

CONSTANTS Tasks,
          Ids,      \* correlation ids, sent by a client or generated
          None,
          Gating, Informational, Timeout

ASSUME NoneAssumption == /\ None \notin Ids
                         /\ None \notin [status : Nat, id : Ids \cup {None}]
ASSUME TimeoutAssumption == Timeout \in Nat \ {0}
ASSUME TiersAssumption == Gating \in Seq(STRING) /\ Informational \in Seq(STRING)

VARIABLES at,        \* where the task is
          endpoint,  \* scope["route"]: an endpoint of the API, or /readyz
          scopeId,   \* scope["correlation_id"]
          context,   \* the context variable correlation_id of the task
          status,    \* AccessLogMiddleware's local status_code
          sent,      \* http.response.start as the client got it
          record,    \* the http.access record's status
          line,      \* the last line logged: whose it is, and what it carries
          result, left, elapsed  \* the checks of each request to /readyz

Readiness == INSTANCE ReadinessRegistry WITH Runs <- Tasks

requestVars == <<endpoint, scopeId>>
registryVars == <<result, left, elapsed>>
answerVars == <<status, sent, record>>
vars == <<at, requestVars, context, answerVars, line, registryVars>>

Tag == Ids \cup {None}

\* What the handlers answer: status_for of the domain errors, the two that
\* are unavailable, and the framework's own, of which 405 stands for all.
HandledErrors ==
    [OrderNotFoundError |-> 404, PaymentDeclinedError |-> 402, DomainError |-> 422,
     PaymentUnavailableError |-> 503, StorageUnavailableError |-> 503,
     HTTPException |-> 405, ValidationError |-> 422]

Statuses == {200, 500} \cup {HandledErrors[e] : e \in DOMAIN HandledErrors}

TypeOK == /\ at \in [Tasks -> {"between", "inside", "probing", "answering", "unhandled"}]
          /\ endpoint \in [Tasks -> {"orders", "readyz"}]
          /\ scopeId \in [Tasks -> Tag]
          /\ context \in [Tasks -> Tag]
          /\ status \in [Tasks -> Statuses]
          /\ sent \in [Tasks -> [status : Statuses, id : Tag] \cup {None}]
          /\ record \in [Tasks -> Statuses \cup {None}]
          /\ line \in [Tasks -> [own : Tag, carried : Tag]]
          /\ Readiness!TypeOK
          \* Checks run for a request to /readyz that has not been answered.
          /\ \A t \in Tasks : Readiness!Underway(t) # {} => at[t] = "probing"

Init == /\ at = [t \in Tasks |-> "between"]
        /\ endpoint = [t \in Tasks |-> "orders"]
        /\ scopeId = [t \in Tasks |-> None]
        /\ context = [t \in Tasks |-> None]
        /\ status = [t \in Tasks |-> 500]
        /\ sent = [t \in Tasks |-> None]
        /\ record = [t \in Tasks |-> None]
        /\ line = [t \in Tasks |-> [own |-> None, carried |-> None]]
        /\ Readiness!Init

-----------------------------------------------------------------------------
\* A line of the request's own code, tagged by merge_contextvars.
Log(t) == line' = [line EXCEPT ![t] = [own |-> scopeId[t], carried |-> context[t]]]

\* Both middlewares on the way in, up to the endpoint's first await.
EnterWith(t, e, id, initially) ==
    /\ at[t] = "between"
    /\ at' = [at EXCEPT ![t] = IF e = "readyz" THEN "probing" ELSE "inside"]
    /\ endpoint' = [endpoint EXCEPT ![t] = e]
    /\ scopeId' = [scopeId EXCEPT ![t] = id]
    /\ context' = [context EXCEPT ![t] = id]
    /\ status' = [status EXCEPT ![t] = initially]
    /\ sent' = [sent EXCEPT ![t] = None]
    /\ record' = [record EXCEPT ![t] = None]
    /\ IF e = "readyz" THEN Readiness!Begin(t) ELSE UNCHANGED registryVars
    /\ UNCHANGED line

\* A mutant: status_code starts as a success.
EnterOptimistic(t, e, id) == EnterWith(t, e, id, 200)

Enter(t, e, id) == EnterWith(t, e, id, 500)

\* The endpoint logs, after any await of its own.
EndpointLogs(t) == /\ at[t] = "inside"
                   /\ Log(t)
                   /\ UNCHANGED <<at, requestVars, context, answerVars, registryVars>>

\* http.response.start on its way out, through both send_wrappers.
Start(t, s) == /\ at' = [at EXCEPT ![t] = "answering"]
               /\ status' = [status EXCEPT ![t] = s]
               /\ sent' = [sent EXCEPT ![t] = [status |-> s, id |-> scopeId[t]]]
               /\ UNCHANGED <<requestVars, context, record>>

\* The endpoint returns (200 stands for 201 too), or raises what one of the handlers answers.
Return(t) == /\ at[t] = "inside"
             /\ Start(t, 200)
             /\ UNCHANGED <<line, registryVars>>

RaiseHandled(t) == /\ at[t] = "inside"
                   /\ \E e \in DOMAIN HandledErrors : Start(t, HandledErrors[e])
                   /\ Log(t) \/ UNCHANGED line
                   /\ UNCHANGED registryVars

-----------------------------------------------------------------------------
\* The finally blocks of both middlewares, the inner one first: the record is
\* written while the context is still bound.
Unwind(t, to) ==
    /\ at' = [at EXCEPT ![t] = to]
    /\ IF endpoint[t] = "readyz" THEN UNCHANGED <<record, line>>
       ELSE record' = [record EXCEPT ![t] = status[t]] /\ Log(t)
    /\ context' = [context EXCEPT ![t] = None]
    /\ Readiness!End(t)
    /\ UNCHANGED <<requestVars, status, sent>>

Finish(t) == at[t] = "answering" /\ Unwind(t, "between")

\* The task is cancelled (the graceful shutdown has run out).  Nobody answers:
\* CancelledError is not an Exception.
Cancel(t) == \/ at[t] \in {"inside", "probing", "answering"} /\ Unwind(t, "between")
             \/ /\ at[t] = "unhandled"
                /\ at' = [at EXCEPT ![t] = "between"]
                /\ UNCHANGED <<requestVars, context, answerVars, line, registryVars>>

\* An exception without a handler leaves the middlewares, as does one with a
\* handler when the response has started ...
RaiseUnhandled(t) == at[t] \in {"inside", "answering"} /\ Unwind(t, "unhandled")

\* A mutant: the handler trusts the context variables.
UnexpectedErrorFromContext(t) ==
    /\ at[t] = "unhandled"
    /\ at' = [at EXCEPT ![t] = "between"]
    /\ sent' = [sent EXCEPT ![t] = IF @ = None THEN [status |-> 500, id |-> context[t]] ELSE @]
    /\ Log(t)
    /\ UNCHANGED <<requestVars, context, status, record, registryVars>>

\* ... and ServerErrorMiddleware calls its handler, which logs it and answers with
\* the id from the scope, and sends that answer unless the response has started.
UnexpectedError(t) ==
    /\ at[t] = "unhandled"
    /\ at' = [at EXCEPT ![t] = "between"]
    /\ sent' = [sent EXCEPT ![t] = IF @ = None THEN [status |-> 500, id |-> scopeId[t]] ELSE @]
    /\ line' = [line EXCEPT ![t] = [own |-> scopeId[t], carried |-> scopeId[t]]]
    /\ UNCHANGED <<requestVars, context, status, record, registryVars>>

\* The server logs about the connection: nobody's line.
ServerLogs(t) ==
    /\ at[t] = "between"
    /\ line' = [line EXCEPT ![t] = [own |-> None, carried |-> context[t]]]
    /\ UNCHANGED <<at, requestVars, context, answerVars, registryVars>>

-----------------------------------------------------------------------------
\* /readyz.
CheckSucceeds(t, c) == /\ Readiness!Settle(t, c, "ok")
                       /\ UNCHANGED <<at, requestVars, context, answerVars, line>>

\* It raises: readiness_check.failed is logged.
CheckFails(t, c) == /\ Readiness!Settle(t, c, "error")
                    /\ Log(t)
                    /\ UNCHANGED <<at, requestVars, context, answerVars>>

CheckExpires(t, c) == /\ Readiness!Expire(t, c)
                      /\ UNCHANGED <<at, requestVars, context, answerVars, line>>

Report(t) == /\ at[t] = "probing"
             /\ Readiness!Reported(t)
             /\ Start(t, IF Readiness!Healthy(t) THEN 200 ELSE 503)
             /\ UNCHANGED <<line, registryVars>>

Tick == /\ Readiness!Tick
        /\ UNCHANGED <<at, requestVars, context, answerVars, line>>

-----------------------------------------------------------------------------
Expires(t) == \E c \in Readiness!Checks : CheckExpires(t, c)

Serve(t) == \/ \E e \in {"orders", "readyz"}, id \in Ids : Enter(t, e, id)
            \/ EndpointLogs(t) \/ Return(t) \/ RaiseHandled(t)
            \/ RaiseUnhandled(t) \/ UnexpectedError(t)
            \/ Finish(t) \/ Cancel(t) \/ ServerLogs(t)
            \/ \E c \in Readiness!Checks : CheckSucceeds(t, c) \/ CheckFails(t, c)
            \/ Expires(t) \/ Report(t)

Next == Tick \/ \E t \in Tasks : Serve(t)

Spec == Init /\ [][Next]_vars

\* Time passes, timers fire, and a complete report is answered.  Nothing is
\* assumed of the checks.
Fairness == /\ WF_vars(Tick)
            /\ \A t \in Tasks : WF_vars(Expires(t)) /\ WF_vars(Report(t))

-----------------------------------------------------------------------------
(***************************************************************************)
(* Correctness.                                                            *)
(***************************************************************************)

\* "correlation_id: present on every record emitted during a request" and
\* "every response carries an X-Request-ID header", and each its own: a line
\* carries the id of the request it was logged for, the access record and the
\* traceback of an unhandled error included; a line of the server between two
\* requests carries none; and the 500 that comes from outside of the middleware
\* that sets the header has it too.
CarryOwnId == \A t \in Tasks : /\ line[t].own = line[t].carried
                               /\ sent[t] # None => sent[t].id = scopeId[t]

\* Every request that is over has left one access record, with the status the
\* client was sent, or 500 where it was sent none: for the 500 that is sent
\* only after the record was written, and for a request that was cancelled.  A
\* response that had started when something raised keeps its status in both.
RecordTellsAnswer ==
    \A t \in Tasks : at[t] = "between" /\ scopeId[t] # None /\ endpoint[t] = "orders" =>
        record[t] = IF sent[t] = None THEN 500 ELSE sent[t].status

\* The cache and the object store are reported "and never allowed to affect the
\* status code"; the database alone takes the instance out of rotation, and the
\* report is complete within one timeout, however many checks hang.
ReadyzAnswersInTime ==
    /\ \A t \in Tasks : at[t] = "answering" /\ endpoint[t] = "readyz" =>
           (sent[t].status = 200 <=>
               \A c \in Readiness!Checks : c[2] = "gating" => result[t][c] = "ok")
    /\ Readiness!WithinOneTimeout

\* A check that hangs for ever does not take /readyz with it.
ProbesEnd == \A t \in Tasks : at[t] = "probing" ~> at[t] # "probing"
=============================================================================
