---------------------------- MODULE PaymentPort ----------------------------
(***************************************************************************)
(* domain/payments.py: what the PaymentGateway port promises its callers,  *)
(* whatever adapter stands behind it.  An order is asked for once, because *)
(* its id is fresh; the provider may take the payment once; and the caller *)
(* gets an Authorisation, a PaymentDeclinedError, a                        *)
(* PaymentUnavailableError, some other error, or no answer because it went *)
(* away.                                                                   *)
(*                                                                         *)
(* An Authorisation is proof that the payment was taken and a decline that *)
(* it was not and will not be.  Every other ending proves nothing: the     *)
(* provider may have taken the payment, or may still take it.              *)
(***************************************************************************)
EXTENDS Naturals

CONSTANT Orders

VARIABLES answer,   \* for each order: "idle", "asked", or how asking ended
          charges   \* how many times the provider took the payment

vars == <<answer, charges>>

NoProof == {"unavailable", "escaped", "cancelled"}

TypeOK == /\ answer \in [Orders -> {"idle", "asked", "authorised", "declined",
                                 "refused"} \cup NoProof]
          /\ charges \in [Orders -> 0..1]

Init == /\ answer = [o \in Orders |-> "idle"]
        /\ charges = [o \in Orders |-> 0]

Ask(o) == /\ answer[o] = "idle"
          /\ answer' = [answer EXCEPT ![o] = "asked"]
          /\ UNCHANGED charges

\* The provider takes the payment, possibly after the caller stopped waiting.
Charge(o) == /\ answer[o] \in {"asked"} \cup NoProof
             /\ charges[o] = 0
             /\ charges' = [charges EXCEPT ![o] = 1]
             /\ UNCHANGED answer

End(o, ending) == /\ answer[o] = "asked"
                  /\ answer' = [answer EXCEPT ![o] = ending]
                  /\ UNCHANGED charges

Authorise(o) == charges[o] = 1 /\ End(o, "authorised")
Decline(o)   == charges[o] = 0 /\ End(o, "declined")
GiveUp(o)    == \E ending \in NoProof : End(o, ending)

\* "unavailable", without asking the provider at all.
TurnAway(o) == /\ answer[o] = "idle"
               /\ answer' = [answer EXCEPT ![o] = "refused"]
               /\ UNCHANGED charges

Next == \E o \in Orders : \/ Ask(o) \/ Charge(o) \/ TurnAway(o)
                          \/ Authorise(o) \/ Decline(o) \/ GiveUp(o)

Spec == Init /\ [][Next]_vars
=============================================================================
