-------------------------- MODULE ReadinessRegistry --------------------------
(***************************************************************************)
(* ReadinessRegistry.run of container.py: every check of both tiers at     *)
(* once, each bounded by one timeout, for concurrent requests to /readyz.  *)
(* A check ends well, ends badly, or hangs for ever.                       *)
(***************************************************************************)
EXTENDS Naturals, Sequences

CONSTANTS Runs,           \* who may call run()
          Gating,         \* names passed to register, in their order
          Informational,  \* names passed to register_informational
          Timeout         \* READINESS_TIMEOUT_SECONDS, in ticks

VARIABLES result,   \* of each check of each run
          left,     \* what is left of its wait_for, in ticks
          elapsed   \* since the run began; counted up to Timeout + 1

vars == <<result, left, elapsed>>

\* A mutant: the informational checks go first.
ArgumentsInformationalFirst ==
    [i \in 1..(Len(Gating) + Len(Informational)) |->
        IF i <= Len(Informational) THEN <<Informational[i], "informational">>
        ELSE <<Gating[i - Len(Informational)], "gating">>]

\* What is given to gather, each check with the tier it was registered in: a
\* name may be registered in both.
Arguments ==
    [i \in 1..(Len(Gating) + Len(Informational)) |->
        IF i <= Len(Gating) THEN <<Gating[i], "gating">>
        ELSE <<Informational[i - Len(Gating)], "informational">>]

Checks == {Arguments[i] : i \in DOMAIN Arguments}

Results == {"none", "pending", "ok", "error", "timeout"}

TypeOK == /\ result \in [Runs -> [Checks -> Results]]
          /\ left \in [Runs -> [Checks -> 0..Timeout]]
          /\ elapsed \in [Runs -> 0..(Timeout + 1)]

Init == /\ result = [r \in Runs |-> [c \in Checks |-> "none"]]
        /\ left = [r \in Runs |-> [c \in Checks |-> 0]]
        /\ elapsed = [r \in Runs |-> 0]

\* A mutant: the tiers one after the other.
UnderwayTierByTier(r) ==
    LET pending == {c \in Checks : result[r][c] = "pending"}
        gating == {c \in pending : c[2] = "gating"}
    IN  IF gating # {} THEN gating ELSE pending

\* One gather over both tiers.
Underway(r) == {c \in Checks : result[r][c] = "pending"}

Begin(r) == /\ result' = [result EXCEPT ![r] = [c \in Checks |-> "pending"]]
            /\ left' = [left EXCEPT ![r] = [c \in Checks |-> Timeout]]
            /\ elapsed' = [elapsed EXCEPT ![r] = 0]

Settle(r, c, res) == /\ c \in Underway(r)
                     /\ result' = [result EXCEPT ![r][c] = res]
                     /\ UNCHANGED <<left, elapsed>>

\* A mutant: a check is awaited as it is.
ExpireNever(r, c) == c \in Underway(r) /\ FALSE /\ UNCHANGED vars

\* wait_for gives up on the check.
Expire(r, c) == left[r][c] = 0 /\ Settle(r, c, "timeout")

\* Timers are served before more time passes.
Tick == /\ \A r \in Runs : \A c \in Underway(r) : left[r][c] > 0
        /\ \E r \in Runs : Underway(r) # {}
        /\ left' = [r \in Runs |-> [c \in Checks |->
                       IF c \in Underway(r) THEN left[r][c] - 1 ELSE left[r][c]]]
        /\ elapsed' = [r \in Runs |->
                          IF Underway(r) # {} /\ elapsed[r] <= Timeout
                          THEN elapsed[r] + 1 ELSE elapsed[r]]
        /\ UNCHANGED result

\* The report is complete.
Reported(r) == \A c \in Checks : result[r][c] \notin {"none", "pending"}

\* A mutant: every dependency decides.
HealthyAll(r) == \A c \in Checks : result[r][c] = "ok"

\* The results are in the order of the arguments, and split by position.
Healthy(r) == \A i \in 1..Len(Gating) : result[r][Arguments[i]] = "ok"

\* A mutant: checks that nobody cancels.
EndForgetful(r) == UNCHANGED vars

\* The request that asked is over, answered or cancelled; gather cancels its checks.
End(r) == /\ result' = [result EXCEPT ![r] = [c \in Checks |-> "none"]]
          /\ left' = [left EXCEPT ![r] = [c \in Checks |-> 0]]
          /\ elapsed' = [elapsed EXCEPT ![r] = 0]

-----------------------------------------------------------------------------
\* "One gather over both tiers keeps the worst case at one timeout no matter
\* how many dependencies register": however many checks hang at once.
WithinOneTimeout == \A r \in Runs : elapsed[r] <= Timeout
=============================================================================
