------------------------ MODULE CircuitBreakerProofs ------------------------
(***************************************************************************)
(* Theorems about the circuit breaker, for every set of concurrent calls,  *)
(* every threshold and every window.                                       *)
(***************************************************************************)
EXTENDS CircuitBreaker, TLAPS

USE DEF Ended

\* Only a coroutine that is still awaiting its operation has the local
\* is_probe set: what makes the permit's holder countable.
ProbesRun == \A c \in Calls : isProbe[c] => Running(c)

IInv == /\ TypeOK
        /\ ProbesRun
        /\ ProbePermit
        /\ CountAgreesWithCircuit

\* The derived state, in terms of the field it is derived from.
LEMMA StateCases ==
    ASSUME TypeOK
    PROVE  /\ State \in {"closed", "open", "half_open"}
           /\ State = "closed" <=> openedFor = None
           /\ State = "half_open" <=> openedFor = ResetAfter
           /\ State = "open" <=> openedFor \in 0..(ResetAfter - 1)
BY NoneAssumption, ResetAfterAssumption DEF TypeOK, State, StateOf

\* The same of the next state.
LEMMA NextStateCases ==
    ASSUME TypeOK'
    PROVE  /\ State' \in {"closed", "open", "half_open"}
           /\ State' = "closed" <=> openedFor' = None
           /\ State' = "half_open" <=> openedFor' = ResetAfter
           /\ State' = "open" <=> openedFor' \in 0..(ResetAfter - 1)
BY NoneAssumption, ResetAfterAssumption DEF TypeOK, State, StateOf

\* Every step keeps the types: the counter and the clock saturate at the
\* bounds the code compares them with.
LEMMA TypeStep == TypeOK /\ [Next]_vars => TypeOK'
<1> SUFFICES ASSUME TypeOK, [Next]_vars PROVE TypeOK'
    OBVIOUS
<1> USE FailureThresholdAssumption, ResetAfterAssumption, NoneAssumption
<1>1. CASE Tick
    BY <1>1 DEF TypeOK, Tick
<1>2. ASSUME NEW c \in Calls, AdmitClosed(c) PROVE TypeOK'
    BY <1>2 DEF TypeOK, AdmitClosed
<1>3. ASSUME NEW c \in Calls, AdmitProbe(c) PROVE TypeOK'
    BY <1>3 DEF TypeOK, AdmitProbe
<1>4. ASSUME NEW c \in Calls, Refuse(c) PROVE TypeOK'
    BY <1>4 DEF TypeOK, Refuse
<1>5. ASSUME NEW c \in Calls, Succeed(c) PROVE TypeOK'
    BY <1>5 DEF TypeOK, Succeed, Leave, Release, RecordSuccess
<1>6. ASSUME NEW c \in Calls, Fail(c) PROVE TypeOK'
    BY <1>6 DEF TypeOK, Fail, Leave, Release, RecordFailure
<1>7. ASSUME NEW c \in Calls, Cancel(c) PROVE TypeOK'
    BY <1>7 DEF TypeOK, Cancel, Leave, Release
<1>8. CASE UNCHANGED vars
    BY <1>8 DEF TypeOK, vars
<1> QED
    BY <1>1, <1>2, <1>3, <1>4, <1>5, <1>6, <1>7, <1>8 DEF Next, Enter, End

LEMMA TypeInit == Init => TypeOK
<1> SUFFICES ASSUME Init PROVE TypeOK
    OBVIOUS
<1>1. consecutiveFailures \in 0..FailureThreshold
    BY FailureThresholdAssumption DEF Init
<1>2. isProbe \in [Calls -> BOOLEAN]
    BY Zenon DEF Init
<1> QED
    BY <1>1, <1>2 DEF Init, TypeOK

\* Type correctness: every field of the breaker stays in its range.
THEOREM TypeCorrect == Spec => []TypeOK
BY TypeInit, TypeStep, PTL DEF Spec

-----------------------------------------------------------------------------
(***************************************************************************)
(* The inductive invariant.  ProbePermit alone is not inductive: a step    *)
(* that starts or ends a call must know that a coroutine outside call()    *)
(* cannot hold the permit.                                                 *)
(***************************************************************************)
LEMMA PermitStep == TypeOK /\ ProbesRun /\ ProbePermit /\ [Next]_vars
                        => ProbesRun' /\ ProbePermit'
<1> SUFFICES ASSUME TypeOK, ProbesRun, ProbePermit, [Next]_vars
             PROVE  ProbesRun' /\ ProbePermit'
    OBVIOUS
<1> USE DEF ProbesRun, ProbePermit, Probes, Inside, Running, TypeOK
<1>1. CASE Tick
    BY <1>1 DEF Tick
<1>2. ASSUME NEW c \in Calls, AdmitClosed(c) PROVE ProbesRun' /\ ProbePermit'
    BY <1>2 DEF AdmitClosed
<1>3. ASSUME NEW c \in Calls, AdmitProbe(c) PROVE ProbesRun' /\ ProbePermit'
    BY <1>3 DEF AdmitProbe
<1>4. ASSUME NEW c \in Calls, Refuse(c) PROVE ProbesRun' /\ ProbePermit'
    BY <1>4 DEF Refuse
<1>5. ASSUME NEW c \in Calls, NEW outcome \in Ended, Leave(c, outcome)
      PROVE  ProbesRun' /\ ProbePermit'
    BY <1>5 DEF Leave, Release
<1>6. CASE UNCHANGED vars
    BY <1>6 DEF vars
<1> QED
    BY <1>1, <1>2, <1>3, <1>4, <1>5, <1>6
    DEF Next, Enter, End, Succeed, Fail, Cancel

LEMMA CountStep == TypeOK /\ CountAgreesWithCircuit /\ [Next]_vars
                        => CountAgreesWithCircuit'
<1> SUFFICES ASSUME TypeOK, CountAgreesWithCircuit, [Next]_vars
             PROVE  CountAgreesWithCircuit'
    OBVIOUS
<1>1. TypeOK'
    BY TypeStep
<1> DEFINE Agree == /\ consecutiveFailures >= FailureThreshold => openedFor # None
                    /\ openedFor # None => consecutiveFailures > 0
<1>2. Agree /\ (CountAgreesWithCircuit' <=> Agree')
    BY <1>1, StateCases, NextStateCases DEF CountAgreesWithCircuit
<1> SUFFICES Agree'
    BY <1>2
<1> USE FailureThresholdAssumption, NoneAssumption, <1>2 DEF TypeOK
<1>3. CASE Tick
    BY <1>3, <1>1 DEF Tick
<1>4. ASSUME NEW c \in Calls, Succeed(c) PROVE Agree'
    BY <1>4 DEF Succeed, RecordSuccess
<1>5. ASSUME NEW c \in Calls, Fail(c) PROVE Agree'
    BY <1>5 DEF Fail, RecordFailure
<1>6. CASE UNCHANGED <<consecutiveFailures, openedFor>>
    BY <1>6
<1> QED
    BY <1>3, <1>4, <1>5, <1>6
    DEF Next, Enter, End, AdmitClosed, AdmitProbe, Refuse, Cancel, vars

THEOREM Invariant == Spec => []IInv
<1>1. Init => IInv
  <2> SUFFICES ASSUME Init PROVE IInv
      OBVIOUS
  <2>1. TypeOK
      BY TypeInit
  <2>2. ProbesRun /\ ProbePermit
    <3>1. ~probeInFlight /\ \A c \in Calls : ~isProbe[c]
        BY Zenon DEF Init
    <3>2. Probes = {}
        BY <3>1 DEF Probes, Inside
    <3> QED
        BY <3>1, <3>2 DEF ProbesRun, ProbePermit
  <2>3. CountAgreesWithCircuit
      BY <2>1, StateCases, FailureThresholdAssumption
      DEF Init, CountAgreesWithCircuit
  <2> QED
      BY <2>1, <2>2, <2>3 DEF IInv
<1>2. IInv /\ [Next]_vars => IInv'
    BY TypeStep, PermitStep, CountStep DEF IInv
<1> QED
    BY <1>1, <1>2, PTL DEF Spec

\* One probe at a time, and the permit is held exactly while it runs: no
\* interleaving of calls, cancellations and clock ticks loses it.
THEOREM PermitCorrect == Spec => []ProbePermit
<1>1. IInv => ProbePermit
    BY DEF IInv
<1> QED
    BY <1>1, Invariant, PTL

\* The failure count and the opening instant never disagree.
THEOREM CountCorrect == Spec => []CountAgreesWithCircuit
<1>1. IInv => CountAgreesWithCircuit
    BY DEF IInv
<1> QED
    BY <1>1, Invariant, PTL

-----------------------------------------------------------------------------
\* A failed probe restarts the window from its first tick.
THEOREM ReopensCorrect == Spec => ProbeFailureReopens
<1>1. TypeOK /\ [Next]_vars
        => [\A c \in Probes : pc'[c] = "raised" => openedFor' = 0]_vars
  <2> SUFFICES ASSUME TypeOK, Next, NEW c \in Probes, pc'[c] = "raised"
               PROVE  openedFor' = 0
      BY DEF vars
  <2> USE DEF TypeOK, Probes, Inside, Running
  <2>1. Fail(c)
      BY DEF Next, Enter, End, Tick, AdmitClosed, AdmitProbe, Refuse,
             Succeed, Cancel, Fail, Leave
  <2> QED
      BY <2>1 DEF Fail, RecordFailure
<1> QED
    BY <1>1, TypeCorrect, PTL DEF Spec, ProbeFailureReopens

(***************************************************************************)
(* The breaker implements CallGate.                                        *)
(***************************************************************************)
LEMMA GateStep ==
    IInv /\ IInv' /\ [Next]_vars => [Gate!Next]_(Gate!vars)
<1> SUFFICES ASSUME IInv, IInv', [Next]_vars
             PROVE  [Gate!Next]_(Gate!vars)
    OBVIOUS
<1> USE DEF IInv, Inside, Probes, Running
<1>0. /\ State = "closed" <=> openedFor = None
      /\ State = "half_open" <=> openedFor = ResetAfter
      /\ State = "open" <=> openedFor \in 0..(ResetAfter - 1)
      /\ State' \in {"closed", "open", "half_open"}
      /\ State' = "closed" <=> openedFor' = None
      /\ State' = "half_open" <=> openedFor' = ResetAfter
      /\ State' = "open" <=> openedFor' \in 0..(ResetAfter - 1)
    BY StateCases, NextStateCases
<1>1. CASE Tick
  <2>1. State = "open" /\ State' \in {"open", "half_open"}
      BY <1>0, <1>1, NoneAssumption, ResetAfterAssumption DEF Tick
  <2>2. Inside' = Inside /\ Probes' = Probes
      BY <1>1 DEF Tick
  <2> QED
      BY <2>1, <2>2 DEF Gate!Next, Gate!CoolDown, Gate!vars
<1>2. ASSUME NEW c \in Calls, AdmitClosed(c) PROVE [Gate!Next]_(Gate!vars)
  <2>1. State' = State
      BY <1>2 DEF AdmitClosed, State
  <2>2. Inside' = Inside \cup {c} /\ Probes' = Probes /\ c \notin Inside
      BY <1>2 DEF AdmitClosed, TypeOK, ProbesRun
  <2> QED
      BY <1>2, <2>1, <2>2 DEF AdmitClosed, Gate!Next, Gate!Enter
<1>3. ASSUME NEW c \in Calls, AdmitProbe(c) PROVE [Gate!Next]_(Gate!vars)
  <2>1. State' = State
      BY <1>3 DEF AdmitProbe, State
  <2>2. Inside' = Inside \cup {c} /\ c \notin Inside
      BY <1>3 DEF AdmitProbe, TypeOK
  <2>3. Probes = {}
      BY <1>3 DEF AdmitProbe, ProbePermit
  <2>4. Probes' = {c}
      BY <1>3, <2>3 DEF AdmitProbe, TypeOK
  <2> QED
      BY <1>3, <2>1, <2>2, <2>3, <2>4 DEF AdmitProbe, Gate!Next, Gate!EnterAsProbe
<1>4. ASSUME NEW c \in Calls, Refuse(c) PROVE [Gate!Next]_(Gate!vars)
  <2>1. State' = State
      BY <1>4 DEF Refuse, State
  <2>2. Inside' = Inside /\ Probes' = Probes
      BY <1>4 DEF Refuse, TypeOK
  <2> QED
      BY <2>1, <2>2 DEF Gate!vars
<1>5. ASSUME NEW c \in Calls, NEW outcome \in Ended, Leave(c, outcome),
             State' \in {State, "closed", "open"}
      PROVE  [Gate!Next]_(Gate!vars)
  <2>1. c \in Inside /\ Inside' = Inside \ {c} /\ Probes' = Probes \ {c}
      BY <1>5 DEF Leave, Release, TypeOK
  <2> QED
      BY <1>5, <2>1 DEF Gate!Next, Gate!Leave
<1>6. ASSUME NEW c \in Calls, Succeed(c) PROVE State' = "closed"
    BY <1>0, <1>6 DEF Succeed, RecordSuccess
<1>7. ASSUME NEW c \in Calls, Fail(c) PROVE State' \in {State, "open"}
  <2>1. openedFor' = 0 \/ openedFor' = openedFor
      BY <1>7 DEF Fail, RecordFailure
  <2>2. CASE openedFor' = 0
      BY <1>0, <2>2, ResetAfterAssumption
  <2>3. CASE openedFor' = openedFor
      BY <2>3 DEF State
  <2> QED
      BY <2>1, <2>2, <2>3
<1>8. ASSUME NEW c \in Calls, Cancel(c) PROVE State' = State
    BY <1>8 DEF Cancel, State
<1>9. CASE UNCHANGED vars
  <2>1. State' = State /\ Inside' = Inside /\ Probes' = Probes
      BY <1>9 DEF vars, State
  <2> QED
      BY <2>1 DEF Gate!vars
<1> QED
  <2>1. ASSUME NEW c \in Calls, End(c) PROVE [Gate!Next]_(Gate!vars)
      BY <1>5, <1>6, <1>7, <1>8, <2>1 DEF End, Succeed, Fail, Cancel
  <2> QED
      BY <1>1, <1>2, <1>3, <1>4, <1>9, <2>1 DEF Next, Enter

\* What the payment adapter may rely on: the calls that run behind a breaker
\* are the ones a CallGate lets in.
THEOREM BreakerImplementsGate == Spec => ImplementsGate
<1>1. Init => Gate!Init
  <2> SUFFICES ASSUME Init PROVE Gate!Init
      OBVIOUS
  <2>1. State = "closed"
      BY DEF Init, State, StateOf
  <2>2. Inside = {} /\ Probes = {}
      BY DEF Init, Inside, Running, Probes
  <2> QED
      BY <2>1, <2>2 DEF Gate!Init
<1> QED
    BY <1>1, Invariant, GateStep, PTL DEF Spec, ImplementsGate, Gate!Spec
=============================================================================
