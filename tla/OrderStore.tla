----------------------------- MODULE OrderStore -----------------------------
(***************************************************************************)
(* domain/repositories.py: one order as the OrderRepository port presents  *)
(* it, an atomic register.  A save that returns has replaced the whole     *)
(* order at one instant between its call and its return; one that raises   *)
(* may have done so or not; a get that returns gives the whole order as it *)
(* was at one instant between its call and its return.                     *)
(***************************************************************************)
CONSTANTS Savers,   \* calls of save; each saves a version of its own
          Readers,  \* calls of get
          None      \* no such order

VARIABLES value,   \* the version stored, or None
          saver,   \* "idle", "called", "applied", "returned", "raised", or
                   \* "raised_applied": it raised, and has or had its effect
          reader,  \* "idle", "called", "read", "returned" or "raised"
          got      \* what a get has read

vars == <<value, saver, reader, got>>

Init == /\ value = None
        /\ saver = [s \in Savers |-> "idle"]
        /\ reader = [r \in Readers |-> "idle"]
        /\ got = [r \in Readers |-> None]

Move(s, from, to) == saver[s] = from /\ saver' = [saver EXCEPT ![s] = to]

Call(s) == Move(s, "idle", "called") /\ UNCHANGED <<value, reader, got>>

\* The instant of a save.  One that raised may still come to it, once.
Apply(s) == /\ \/ Move(s, "called", "applied")
               \/ Move(s, "raised", "raised_applied")
            /\ value' = s
            /\ UNCHANGED <<reader, got>>

Return(s) == Move(s, "applied", "returned") /\ UNCHANGED <<value, reader, got>>

Raise(s) == /\ \/ Move(s, "called", "raised")
               \/ Move(s, "applied", "raised_applied")
            /\ UNCHANGED <<value, reader, got>>

Turn(r, from, to) == reader[r] = from /\ reader' = [reader EXCEPT ![r] = to]

Get(r) == Turn(r, "idle", "called") /\ UNCHANGED <<value, saver, got>>

Read(r) == /\ Turn(r, "called", "read")
           /\ got' = [got EXCEPT ![r] = value]
           /\ UNCHANGED <<value, saver>>

Give(r) == Turn(r, "read", "returned") /\ UNCHANGED <<value, saver, got>>

Fail(r) == /\ Turn(r, "called", "raised") \/ Turn(r, "read", "raised")
           /\ UNCHANGED <<value, saver, got>>

Next == \/ \E s \in Savers : Call(s) \/ Apply(s) \/ Return(s) \/ Raise(s)
        \/ \E r \in Readers : Get(r) \/ Read(r) \/ Give(r) \/ Fail(r)

Spec == Init /\ [][Next]_vars
=============================================================================
