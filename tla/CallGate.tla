------------------------------ MODULE CallGate ------------------------------
(***************************************************************************)
(* What a circuit breaker promises to the adapter that wraps its calls in  *)
(* one: which calls may be inside the guarded dependency, whatever the     *)
(* counters and clocks that decide it.                                     *)
(*                                                                         *)
(*   - while the gate is open nobody enters;                               *)
(*   - while it is half open one caller at a time enters, as the probe;    *)
(*   - it becomes half open only from open, by waiting, never because a    *)
(*     call ended;                                                         *)
(*   - a call that ends may close the gate or open it; a caller that is    *)
(*     turned away changes nothing.                                        *)
(***************************************************************************)
CONSTANT Calls

VARIABLES gate,    \* "closed", "open" or "half_open"
          inside,  \* the calls now running against the dependency
          probe    \* the one of them, if any, that was let in as the probe

vars == <<gate, inside, probe>>

TypeOK == /\ gate \in {"closed", "open", "half_open"}
          /\ inside \subseteq Calls
          /\ probe \subseteq inside

Init == gate = "closed" /\ inside = {} /\ probe = {}

Enter(c) == /\ gate = "closed"
            /\ c \notin inside
            /\ inside' = inside \cup {c}
            /\ UNCHANGED <<gate, probe>>

EnterAsProbe(c) == /\ gate = "half_open"
                   /\ probe = {}
                   /\ c \notin inside
                   /\ inside' = inside \cup {c}
                   /\ probe' = {c}
                   /\ gate' = gate

Leave(c) == /\ c \in inside
            /\ inside' = inside \ {c}
            /\ probe' = probe \ {c}
            /\ gate' \in {gate, "closed", "open"}

CoolDown == /\ gate = "open"
            /\ gate' = "half_open"
            /\ UNCHANGED <<inside, probe>>

Next == CoolDown \/ \E c \in Calls : Enter(c) \/ EnterAsProbe(c) \/ Leave(c)

Spec == Init /\ [][Next]_vars
=============================================================================
