----------------------------- MODULE PlaceOrder -----------------------------
(***************************************************************************)
(* services/order.py: PlaceOrder, with the status the API answers for each *)
(* way it can end (api/errors.py), for several requests at once in a       *)
(* process that may die and be restarted at any point.                     *)
(*                                                                         *)
(* The payment gateway is the PaymentPort it implements.  The repository   *)
(* is its save(): one transaction whose COMMIT may be applied after the    *)
(* process stopped waiting for it, or never.                               *)
(***************************************************************************)
EXTENDS Naturals

CONSTANTS Orders,     \* order ids: a fresh uuid4 for every request
          Defective   \* those whose command passes validation and still does
                      \* not assemble: the disagreement ServiceDefectError is for

ASSUME DefectiveAssumption == Defective \subseteq Orders

VARIABLES answer, charges,  \* the payment port
          stage,       \* where the request is in PlaceOrder.__call__
          committing,  \* orders whose COMMIT the database has yet to apply
          stored,      \* orders the database holds
          told,        \* what the caller was told
          up           \* the process is running

vars == <<answer, charges, stage, committing, stored, told, up>>

Port == INSTANCE PaymentPort

\* The stages at which a request awaits the gateway or the database.
Underway == {"paying", "saving", "committing"}

TypeOK == /\ Port!TypeOK
          /\ stage \in [Orders -> {"new", "done"} \cup Underway]
          /\ committing \subseteq Orders
          /\ stored \subseteq Orders
          /\ told \in [Orders -> {"nothing", "placed", "declined",
                                  "unavailable", "server_error"}]
          /\ up \in BOOLEAN
          \* A request awaits the gateway exactly while the port is asked, and
          \* is under way only in a process that is up.
          /\ \A o \in Orders : /\ stage[o] = "paying" <=> answer[o] = "asked"
                               /\ stage[o] \in Underway => up

Init == /\ Port!Init
        /\ stage = [o \in Orders |-> "new"]
        /\ committing = {}
        /\ stored = {}
        /\ told = [o \in Orders |-> "nothing"]
        /\ up = TRUE

-----------------------------------------------------------------------------
GoTo(o, s) == /\ stage' = [stage EXCEPT ![o] = s]
              /\ UNCHANGED told

Answer(o, what) == /\ stage' = [stage EXCEPT ![o] = "done"]
                   /\ told' = [told EXCEPT ![o] = what]

\* The lines and the total, before anything leaves the process.
AssemblyFails(o) == /\ stage[o] = "new"
                    /\ o \in Defective
                    /\ Answer(o, "server_error")
                    /\ UNCHANGED <<answer, charges, committing, stored>>

AskForPayment(o) == /\ stage[o] = "new"
                    /\ \/ Port!Ask(o) /\ GoTo(o, "paying")
                       \/ Port!TurnAway(o) /\ Answer(o, "unavailable")
                    /\ UNCHANGED <<committing, stored>>

\* A mutant: the order is saved whatever the gateway said of the payment.
PaidOrNot(o) ==
    /\ stage[o] = "paying"
    /\ Port!Authorise(o) \/ Port!End(o, "unavailable")
    /\ GoTo(o, "saving")
    /\ UNCHANGED <<committing, stored>>

\* A mutant: the order that does not assemble is saved as it is.
PaidUnassembled(o) ==
    /\ stage[o] = "paying"
    /\ Port!Authorise(o)
    /\ GoTo(o, "saving")
    /\ UNCHANGED <<committing, stored>>

\* The authorisation is in hand; the Order is built from it, or the assembly
\* turns out to be wrong only now.
Paid(o) ==
    /\ stage[o] = "paying"
    /\ Port!Authorise(o)
    /\ IF o \in Defective THEN Answer(o, "server_error") ELSE GoTo(o, "saving")
    /\ UNCHANGED <<committing, stored>>

\* A mutant: a decline is neither raised nor returned.
NotPaidSwallowed(o) ==
    /\ stage[o] = "paying"
    /\ Port!Decline(o)
    /\ UNCHANGED <<stage, told, committing, stored>>

\* PaymentDeclinedError, PaymentUnavailableError, anything else.
NotPaid(o) ==
    /\ stage[o] = "paying"
    /\ \/ Port!Decline(o) /\ Answer(o, "declined")
       \/ Port!End(o, "unavailable") /\ Answer(o, "unavailable")
       \/ Port!End(o, "escaped") /\ Answer(o, "server_error")
    /\ UNCHANGED <<committing, stored>>

-----------------------------------------------------------------------------
\* save() reaches its COMMIT ...
SendCommit(o) == /\ stage[o] = "saving"
                 /\ GoTo(o, "committing")
                 /\ committing' = committing \cup {o}
                 /\ UNCHANGED <<answer, charges, stored>>

\* ... which the database applies, or loses with the connection.
Commit(o) == /\ o \in committing
             /\ committing' = committing \ {o}
             /\ stored' = stored \cup {o}
             /\ UNCHANGED <<answer, charges, stage, told, up>>

LoseCommit(o) == /\ o \in committing
                 /\ committing' = committing \ {o}
                 /\ UNCHANGED <<answer, charges, stage, stored, told, up>>

\* A mutant: the caller is answered before the transaction has ended.
SavedEarly(o) == /\ stage[o] = "committing"
                 /\ Answer(o, "placed")
                 /\ UNCHANGED <<answer, charges, committing, stored>>

Saved(o) == /\ stage[o] = "committing"
            /\ o \in stored
            /\ Answer(o, "placed")
            /\ UNCHANGED <<answer, charges, committing, stored>>

\* save() raises: before its COMMIT, or waiting for the outcome of it.
SaveFails(o) == /\ stage[o] \in {"saving", "committing"}
                /\ Answer(o, "server_error")
                /\ UNCHANGED <<answer, charges, committing, stored>>

-----------------------------------------------------------------------------
\* The request's task is cancelled at one of its awaits; nobody is told.
Cancel(o) == /\ stage[o] \in Underway
             /\ GoTo(o, "done")
             /\ answer' = [answer EXCEPT ![o] = IF @ = "asked" THEN "cancelled" ELSE @]
             /\ UNCHANGED <<charges, committing, stored>>

\* The process dies with every request in it.
Crash == /\ up
         /\ up' = FALSE
         /\ stage' = [o \in Orders |-> IF stage[o] = "new" THEN "new" ELSE "done"]
         /\ answer' = [o \in Orders |-> IF answer[o] = "asked" THEN "cancelled"
                                                               ELSE answer[o]]
         /\ UNCHANGED <<charges, committing, stored, told>>

Restart == /\ ~up
           /\ up' = TRUE
           /\ UNCHANGED <<answer, charges, stage, committing, stored, told>>

\* The provider takes a payment it was asked for.
Charge(o) == Port!Charge(o) /\ UNCHANGED <<stage, committing, stored, told, up>>

Request(o) == /\ up
              /\ \/ AssemblyFails(o) \/ AskForPayment(o)
                 \/ Paid(o) \/ NotPaid(o)
                 \/ SendCommit(o) \/ Saved(o) \/ SaveFails(o)
                 \/ Cancel(o)
              /\ UNCHANGED up

Next == \/ Crash \/ Restart
        \/ \E o \in Orders : Request(o) \/ Charge(o) \/ Commit(o) \/ LoseCommit(o)

Spec == Init /\ [][Next]_vars

-----------------------------------------------------------------------------
(***************************************************************************)
(* Correctness.                                                            *)
(***************************************************************************)

\* "Authorise BEFORE saving": every order the store holds or may yet come to
\* hold carries a payment the provider took, across cancellations and crashes;
\* and one that turns out not to assemble after it was paid for is not stored.
StoredIsPaid == \A o \in stored \cup committing :
                    charges[o] = 1 /\ answer[o] = "authorised" /\ o \notin Defective

\* Placing an order keeps the promises of the ledger.
Ledger == INSTANCE OrderLedger WITH paid <- charges
ImplementsLedger == Ledger!Spec
=============================================================================
