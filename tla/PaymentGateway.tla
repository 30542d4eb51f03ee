--------------------------- MODULE PaymentGateway ---------------------------
(***************************************************************************)
(* infrastructure/http/payment_gateway.py and client.py: authorising the   *)
(* payments of several orders at once, each as                             *)
(*                                                                         *)
(*            breaker( retry( one HTTP request ) )                         *)
(*                                                                         *)
(* through the one breaker of the process, towards a provider that does    *)
(* not honour the Idempotency-Key (the worst case client.py argues from).  *)
(*                                                                         *)
(* The network and the provider are external.  A request once sent stays   *)
(* on the wire until the provider considers it, which it may do after the  *)
(* client stopped waiting.  As client.py reads the statuses, 429 and 503   *)
(* are refusals to consider the request; any other error status may hide   *)
(* a payment taken.                                                        *)
(***************************************************************************)
EXTENDS Naturals, FiniteSets

CONSTANTS Calls,             \* one authorise() call per order, its id fresh
          FailureThreshold, ResetAfter, None,
          Attempts           \* attempts, of stamina.AsyncRetryingCaller

ASSUME AttemptsAssumption == Attempts \in Nat \ {0}
ASSUME BreakerAssumption == /\ FailureThreshold \in Nat \ {0}
                            /\ ResetAfter \in Nat \ {0}
                            /\ None \notin Nat

VARIABLES consecutiveFailures, openedFor, probeInFlight, pc, isProbe,
          step,     \* in the retry loop: "idle", "ready" to send, or "sent"
          attempt,  \* the number of the current attempt
          answer,   \* how authorise() ended: see Endings
          wire,     \* requests of the call the provider has yet to consider
          reply,    \* the provider's response on its way to the client
          charges   \* payments the provider took for the order

breakerVars == <<consecutiveFailures, openedFor, probeInFlight, pc, isProbe>>
loopVars == <<step, attempt>>
providerVars == <<wire, charges>>
vars == <<breakerVars, loopVars, answer, reply, providerVars>>

Breaker == INSTANCE CircuitBreaker

\* What the client sees of one attempt: a response, by what its status and
\* body amount to, or an exception of httpx, by whether it proves that the
\* request was never delivered.
AnswerStatuses == {"approved", "declined", "garbled"}  \* 200, 201 and 402
Replies == AnswerStatuses \cup {"overloaded", "faulty"}
Exceptions == {"unconnected",  \* ConnectError, ConnectTimeout, PoolTimeout
               "overloaded",   \* HTTPStatusError of RETRYABLE_STATUS
               "faulty",       \* HTTPStatusError of any other status
               "timed_out"}    \* ReadTimeout, WriteTimeout and the rest

Endings == {"authorised", "declined",
            "unreadable", "circuit_open", "unreachable",  \* all three: 503
            "escaped",    \* an exception authorise() does not catch
            "cancelled"}

ASSUME NoneAssumption == None \notin Replies

TypeOK == /\ Breaker!TypeOK
          /\ step \in [Calls -> {"idle", "ready", "sent"}]
          /\ attempt \in [Calls -> 0..Attempts]
          /\ answer \in [Calls -> {"idle", "asked"} \cup Endings]
          /\ wire \in [Calls -> 0..Attempts]
          /\ reply \in [Calls -> Replies \cup {None}]
          /\ charges \in [Calls -> 0..Attempts]

Init == /\ Breaker!Init
        /\ step = [c \in Calls |-> "idle"]
        /\ attempt = [c \in Calls |-> 0]
        /\ answer = [c \in Calls |-> "idle"]
        /\ wire = [c \in Calls |-> 0]
        /\ reply = [c \in Calls |-> None]
        /\ charges = [c \in Calls |-> 0]

-----------------------------------------------------------------------------
\* authorise() up to its first await: the breaker lets the call into the
\* retry loop or refuses it.
Authorise(c) ==
    /\ answer[c] = "idle"
    /\ \/ /\ Breaker!AdmitClosed(c) \/ Breaker!AdmitProbe(c)
          /\ step' = [step EXCEPT ![c] = "ready"]
          /\ attempt' = [attempt EXCEPT ![c] = 1]
          /\ answer' = [answer EXCEPT ![c] = "asked"]
       \/ /\ Breaker!Refuse(c)
          /\ answer' = [answer EXCEPT ![c] = "circuit_open"]
          /\ UNCHANGED loopVars
    /\ UNCHANGED <<reply, providerVars>>

\* The loop is left for good, by a response or by an exception.
Leave(c, ending) == /\ step' = [step EXCEPT ![c] = "idle"]
                    /\ reply' = [reply EXCEPT ![c] = None]
                    /\ answer' = [answer EXCEPT ![c] = ending]
                    /\ UNCHANGED <<attempt, providerVars>>

\* A mutant: "did this fail?" instead of "can this have been delivered?".
RetryableIfFailed(exc) == exc \in Exceptions

IsRetryable(exc) == exc \in {"unconnected", "overloaded"}

\* A mutant: the retry loop has no last attempt.
RetryForEver(c, exc) ==
    /\ IsRetryable(exc)
    /\ step' = [step EXCEPT ![c] = "ready"]
    /\ reply' = [reply EXCEPT ![c] = None]
    /\ UNCHANGED <<breakerVars, attempt, answer, providerVars>>

\* A mutant: retry( breaker( request ) ), the breaker counting each attempt.
RetryCountingEachAttempt(c, exc) ==
    /\ IsRetryable(exc)
    /\ attempt[c] < Attempts
    /\ Breaker!RecordFailure(c)
    /\ attempt' = [attempt EXCEPT ![c] = @ + 1]
    /\ step' = [step EXCEPT ![c] = "ready"]
    /\ reply' = [reply EXCEPT ![c] = None]
    /\ UNCHANGED <<probeInFlight, pc, isProbe, answer, providerVars>>

\* stamina sleeps and tries again ...
Retry(c, exc) ==
    /\ IsRetryable(exc)
    /\ attempt[c] < Attempts
    /\ attempt' = [attempt EXCEPT ![c] = @ + 1]
    /\ step' = [step EXCEPT ![c] = "ready"]
    /\ reply' = [reply EXCEPT ![c] = None]
    /\ UNCHANGED <<breakerVars, answer, providerVars>>

\* ... or lets the last exception out: the attempts are used up, the budget of
\* wall-clock time is (which may happen after any attempt), or the exception
\* is not one to retry.  The breaker counts it, whatever came before, once.
GiveUp(c) == Breaker!Fail(c) /\ Leave(c, "unreachable")

AttemptFails(c, exc) == Retry(c, exc) \/ GiveUp(c)

-----------------------------------------------------------------------------
\* _send: the request leaves for the provider, or provably does not.
Send(c) == /\ step[c] = "ready"
           /\ step' = [step EXCEPT ![c] = "sent"]
           /\ wire' = [wire EXCEPT ![c] = @ + 1]
           /\ UNCHANGED <<breakerVars, attempt, answer, reply, charges>>

ConnectFails(c) == step[c] = "ready" /\ AttemptFails(c, "unconnected")

TimesOut(c) == step[c] = "sent" /\ AttemptFails(c, "timed_out")

IsAnswer(status) == status \in AnswerStatuses

\* A mutant: a 201 with a blank or missing id still makes an Authorisation.
EndingOfUnvalidated(status) == CASE status = "approved" -> "authorised"
                                 [] status = "declined" -> "declined"
                                 [] status = "garbled"  -> "authorised"

\* What authorise() makes of the body, outside the breaker: a body it cannot
\* read is reported as unavailable, and is still an answer to the breaker.
EndingOf(status) == CASE status = "approved" -> "authorised"
                      [] status = "declined" -> "declined"
                      [] status = "garbled"  -> "unreadable"

Receive(c) ==
    /\ step[c] = "sent"
    /\ reply[c] # None
    /\ IF IsAnswer(reply[c])
       THEN Breaker!Succeed(c) /\ Leave(c, EndingOf(reply[c]))
       ELSE AttemptFails(c, reply[c])

\* An exception that is not httpx's own: counted by the breaker, caught by
\* neither try block.
Escape(c) == /\ step[c] \in {"ready", "sent"}
             /\ Breaker!Fail(c)
             /\ Leave(c, "escaped")

Cancel(c) == /\ step[c] \in {"ready", "sent"}
             /\ Breaker!Cancel(c)
             /\ Leave(c, "cancelled")

Tick == /\ Breaker!Tick
        /\ UNCHANGED <<loopVars, answer, reply, providerVars>>

-----------------------------------------------------------------------------
\* The provider considers a request, and its response reaches the client if
\* the client is still waiting for it.
Respond(c, status) ==
    /\ wire[c] > 0
    /\ wire' = [wire EXCEPT ![c] = @ - 1]
    /\ reply' = [reply EXCEPT ![c] = IF step[c] = "sent" THEN status ELSE @]
    /\ UNCHANGED <<breakerVars, loopVars, answer>>

TakePayment(c) == /\ \E status \in {"approved", "garbled", "faulty"} :
                        Respond(c, status)
                  /\ charges' = [charges EXCEPT ![c] = @ + 1]

TakeNothing(c) == /\ \E status \in Replies \ {"approved"} : Respond(c, status)
                  /\ UNCHANGED charges

Provider(c) == TakePayment(c) \/ TakeNothing(c)

Attempting(c) == Send(c) \/ ConnectFails(c) \/ TimesOut(c) \/ Receive(c)

Client(c) == Authorise(c) \/ Attempting(c) \/ Escape(c) \/ Cancel(c)

Next == Tick \/ \E c \in Calls : Client(c) \/ Provider(c)

Spec == Init /\ [][Next]_vars

\* Every phase of a request is bounded by one of the httpx timeouts and every
\* backoff by wait_max, so an attempt never stays where it is.
FairSpec == Spec /\ \A c \in Calls : WF_vars(Attempting(c))

-----------------------------------------------------------------------------
(***************************************************************************)
(* Correctness.                                                            *)
(***************************************************************************)

\* "What may be retried, and what may not" (is_retryable): no order is paid
\* twice, though requests are retried, answers are lost, and the provider may
\* consider a request long after the client gave up on it.
AtMostOneCharge == \A c \in Calls : charges[c] <= 1

\* "Three retries against a dead gateway must register as one failure", and a
\* decline or an unreadable answer as none: the circuit leaves CLOSED only when
\* as many whole calls as the threshold ended with no answer.
Unanswered == {c \in Calls : answer[c] \in {"unreachable", "escaped"}}
TripsOnUnansweredCalls ==
    Breaker!State # "closed" => Cardinality(Unanswered) >= FailureThreshold

\* The adapter keeps the port's promise: an Authorisation proves a payment
\* taken, a decline proves none was or will be.
PortAnswer == [c \in Calls |->
                 CASE answer[c] = "circuit_open" -> "refused"
                   [] answer[c] \in {"unreadable", "unreachable"} -> "unavailable"
                   [] OTHER -> answer[c]]
Port == INSTANCE PaymentPort WITH Orders <- Calls, answer <- PortAnswer
ImplementsPort == Port!Spec

\* Every call that was let in comes back with an ending.
Answered == \A c \in Calls : answer[c] = "asked" ~> answer[c] \in Endings
=============================================================================
