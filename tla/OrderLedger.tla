---------------------------- MODULE OrderLedger ----------------------------
(***************************************************************************)
(* What placing an order promises, seen from outside the service: the      *)
(* payments the provider took, the orders the store holds, and what each   *)
(* caller was told.                                                        *)
(*                                                                         *)
(*   - nothing is stored that was not paid for;                            *)
(*   - an order that is stored stays stored, and is paid for once;         *)
(*   - "placed" is said of stored orders only;                             *)
(*   - "declined" is final: no payment was or will be taken, nothing was   *)
(*     or will be stored;                                                  *)
(*   - after "unavailable" nothing will be stored, but the provider may    *)
(*     hold a payment; after a server error either may be there.           *)
(***************************************************************************)
EXTENDS Naturals

CONSTANT Orders

VARIABLES paid, stored, told

vars == <<paid, stored, told>>

Answers == {"placed", "declined", "unavailable", "server_error"}

Init == /\ paid = [o \in Orders |-> 0]
        /\ stored = {}
        /\ told = [o \in Orders |-> "nothing"]

Pay(o) == /\ paid[o] = 0
          /\ told[o] # "declined"
          /\ paid' = [paid EXCEPT ![o] = 1]
          /\ UNCHANGED <<stored, told>>

Store(o) == /\ paid[o] = 1
            /\ told[o] \notin {"declined", "unavailable"}
            /\ stored' = stored \cup {o}
            /\ UNCHANGED <<paid, told>>

Tell(o, what) ==
    /\ told[o] = "nothing"
    /\ what = "placed" => o \in stored
    /\ what = "declined" => paid[o] = 0
    /\ what \in {"declined", "unavailable"} => o \notin stored
    /\ told' = [told EXCEPT ![o] = what]
    /\ UNCHANGED <<paid, stored>>

Next == \E o \in Orders : \/ Pay(o) \/ Store(o)
                          \/ \E what \in Answers : Tell(o, what)

Spec == Init /\ [][Next]_vars
=============================================================================
