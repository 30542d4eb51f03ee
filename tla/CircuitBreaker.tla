--------------------------- MODULE CircuitBreaker ---------------------------
(***************************************************************************)
(* infrastructure/http/breaker.py: the breaker shared by every concurrent  *)
(* request that calls one outbound dependency.                             *)
(*                                                                         *)
(* A coroutine in CircuitBreaker.call is atomic up to `await operation()`, *)
(* and atomic again from there to its return, so each call is two steps:   *)
(* entering (admitted, admitted as the probe, or refused) and ending       *)
(* (returned, raised, or cancelled).  Between the two any number of other  *)
(* calls may enter and end, and time passes.                               *)
(*                                                                         *)
(* Two unbounded quantities are kept by what the code compares them with:  *)
(*   - self._opened_at is represented by openedFor, the ticks since that   *)
(*     instant, which saturates at ResetAfter (None where it is None);     *)
(*   - self._consecutive_failures saturates at FailureThreshold.           *)
(***************************************************************************)
EXTENDS Naturals, FiniteSets

CONSTANTS Calls,             \* the coroutines that may be in call() at once
          FailureThreshold,  \* failure_threshold
          ResetAfter,        \* reset_after_seconds, in clock ticks
          None               \* Python's None

ASSUME FailureThresholdAssumption == FailureThreshold \in Nat \ {0}
ASSUME ResetAfterAssumption == ResetAfter \in Nat \ {0}
ASSUME NoneAssumption == None \notin Nat

VARIABLES consecutiveFailures,  \* self._consecutive_failures
          openedFor,            \* now - self._opened_at, or None
          probeInFlight,        \* self._probe_in_flight
          pc,                   \* where each call is, or how its last use ended
          isProbe               \* the local is_probe of each call

vars == <<consecutiveFailures, openedFor, probeInFlight, pc, isProbe>>

Ended == {"returned", "raised", "refused", "cancelled"}

TypeOK == /\ consecutiveFailures \in 0..FailureThreshold
          /\ openedFor \in {None} \cup 0..ResetAfter
          /\ probeInFlight \in BOOLEAN
          /\ pc \in [Calls -> {"new", "running"} \cup Ended]
          /\ isProbe \in [Calls -> BOOLEAN]

Init == /\ consecutiveFailures = 0
        /\ openedFor = None
        /\ probeInFlight = FALSE
        /\ pc = [c \in Calls |-> "new"]
        /\ isProbe = [c \in Calls |-> FALSE]

-----------------------------------------------------------------------------
StateOf(opened) == IF opened = None THEN "closed"
                   ELSE IF opened >= ResetAfter THEN "half_open" ELSE "open"

State == StateOf(openedFor)

\* The coroutines awaiting their operation, and those of them that hold the
\* probe permit.
Running(c) == pc[c] = "running"
Inside == {c \in Calls : Running(c)}
Probes == {c \in Inside : isProbe[c]}

\* The coroutine evaluates self.state once, before its first await.
\* A mutant: entry is decided on _opened_at having once been set, and an open
\* circuit admits like a closed one.
AdmitUnlessHalfOpen(c) ==
    /\ ~Running(c)
    /\ State # "half_open"
    /\ pc' = [pc EXCEPT ![c] = "running"]
    /\ UNCHANGED <<consecutiveFailures, openedFor, probeInFlight, isProbe>>

AdmitClosed(c) ==
    /\ ~Running(c)
    /\ State = "closed"
    /\ pc' = [pc EXCEPT ![c] = "running"]
    /\ UNCHANGED <<consecutiveFailures, openedFor, probeInFlight, isProbe>>

\* A mutant: the probe is let in without taking the permit.
AdmitProbeWithoutPermit(c) ==
    /\ ~Running(c)
    /\ State = "half_open"
    /\ pc' = [pc EXCEPT ![c] = "running"]
    /\ isProbe' = [isProbe EXCEPT ![c] = TRUE]
    /\ UNCHANGED <<consecutiveFailures, openedFor, probeInFlight>>

AdmitProbe(c) ==
    /\ ~Running(c)
    /\ State = "half_open"
    /\ ~probeInFlight
    /\ probeInFlight' = TRUE
    /\ pc' = [pc EXCEPT ![c] = "running"]
    /\ isProbe' = [isProbe EXCEPT ![c] = TRUE]
    /\ UNCHANGED <<consecutiveFailures, openedFor>>

Refuse(c) ==
    /\ ~Running(c)
    /\ \/ State = "open"
       \/ State = "half_open" /\ probeInFlight
    /\ pc' = [pc EXCEPT ![c] = "refused"]
    /\ UNCHANGED <<consecutiveFailures, openedFor, probeInFlight, isProbe>>

-----------------------------------------------------------------------------
\* A mutant: success closes the circuit but keeps the count.
RecordSuccessKeepingCount == /\ openedFor' = None
                             /\ UNCHANGED consecutiveFailures

RecordSuccess == /\ consecutiveFailures' = 0
                 /\ openedFor' = None

\* A mutant: a failed probe is one more failure and no more than that.
RecordFailureByCountOnly(c) ==
    LET failures == IF consecutiveFailures < FailureThreshold
                    THEN consecutiveFailures + 1 ELSE consecutiveFailures
    IN  /\ consecutiveFailures' = failures
        /\ openedFor' = IF failures >= FailureThreshold THEN 0 ELSE openedFor

RecordFailure(c) ==
    LET failures == IF consecutiveFailures < FailureThreshold
                    THEN consecutiveFailures + 1 ELSE consecutiveFailures
    IN  /\ consecutiveFailures' = failures
        /\ openedFor' = IF isProbe[c] \/ failures >= FailureThreshold
                        THEN 0 ELSE openedFor

\* A mutant: the permit comes back from an answer, not from a cancellation.
ReleaseUnlessCancelled(c, outcome) ==
    /\ probeInFlight' = (probeInFlight /\ (~isProbe[c] \/ outcome = "cancelled"))
    /\ isProbe' = [isProbe EXCEPT ![c] = FALSE]

\* The finally block: a probe gives its permit back however it ended, and the
\* coroutine's local goes with the coroutine.
Release(c, outcome) ==
    /\ probeInFlight' = (probeInFlight /\ ~isProbe[c])
    /\ isProbe' = [isProbe EXCEPT ![c] = FALSE]

Leave(c, outcome) == /\ Running(c)
                     /\ pc' = [pc EXCEPT ![c] = outcome]
                     /\ Release(c, outcome)

Succeed(c) == Leave(c, "returned") /\ RecordSuccess

Fail(c) == Leave(c, "raised") /\ RecordFailure(c)

\* CancelledError is not an Exception: neither branch records the call.
Cancel(c) == /\ Leave(c, "cancelled")
             /\ UNCHANGED <<consecutiveFailures, openedFor>>

\* The monotonic clock.
Tick == /\ openedFor \in 0..(ResetAfter - 1)
        /\ openedFor' = openedFor + 1
        /\ UNCHANGED <<consecutiveFailures, probeInFlight, pc, isProbe>>

-----------------------------------------------------------------------------
Enter(c) == AdmitClosed(c) \/ AdmitProbe(c) \/ Refuse(c)

End(c) == Succeed(c) \/ Fail(c) \/ Cancel(c)

Next == Tick \/ \E c \in Calls : Enter(c) \/ End(c)

Spec == Init /\ [][Next]_vars

(***************************************************************************)
(* Time passes; every operation ends, for the client bounds every phase of *)
(* a request with a timeout and every sequence of retries with a budget;   *)
(* and traffic goes on arriving.                                           *)
(***************************************************************************)
FairSpec == /\ Spec
            /\ WF_vars(Tick)
            /\ \A c \in Calls : WF_vars(Enter(c)) /\ WF_vars(End(c))

-----------------------------------------------------------------------------
(***************************************************************************)
(* Correctness.                                                            *)
(***************************************************************************)

\* "One probe at a time" (call's comment on the thundering herd): the flag is
\* up exactly while a probe runs, and no two probes run together, although
\* calls of earlier states end, close and reopen the circuit around it.
ProbePermit == /\ probeInFlight <=> Probes # {}
               /\ \A c, d \in Probes : c = d

\* A count that has reached the threshold never goes with a closed circuit,
\* and a circuit that is not closed has a failure to show for it: the two
\* fields that record_success and record_failure write agree.
CountAgreesWithCircuit == /\ consecutiveFailures >= FailureThreshold => State # "closed"
                          /\ State # "closed" => consecutiveFailures > 0

\* A failed probe leaves the circuit open with the whole window to run, even
\* if a call admitted long before closed the circuit under it and reset the
\* count ("if it fails the window starts again").
ProbeFailureReopens ==
    [][\A c \in Probes : pc'[c] = "raised" => openedFor' = 0]_vars

\* The breaker implements the gate: nobody enters while it is open, one probe
\* at a time enters while it is half open, only waiting makes it half open,
\* and a refused caller leaves no trace on it.
Gate == INSTANCE CallGate WITH gate <- State, inside <- Inside, probe <- Probes
ImplementsGate == Gate!Spec

\* A dependency that stops failing gets its circuit back, whatever became of
\* the probes before that (a cancelled one included): no permit is lost.
Trouble == \E c \in Calls : pc[c] # pc'[c] /\ pc'[c] \in {"raised", "cancelled"}
Recovers == <>[][~Trouble]_vars => <>[](State = "closed")

\* What the module docstring says: "the breaker OPENS and refuses calls
\* outright for a cool-down window ... Once the window passes it goes
\* HALF-OPEN and admits a single probe: if that succeeds the breaker closes".
\* The code: _record_success closes the circuit for any call that returns,
\* also one admitted before the circuit opened and answered during the window.
OpensForAWindow == [][State = "open" => State' \in {"open", "half_open"}]_vars
=============================================================================
