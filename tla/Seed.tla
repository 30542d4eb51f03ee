-------------------------------- MODULE Seed --------------------------------
(***************************************************************************)
(* seed.py: a script that creates a fixed list of orders through the API   *)
(* and is made idempotent by a state file, run again and again against a   *)
(* service that fails, answers too late or is wiped, and stopped at any    *)
(* point of its own.                                                       *)
(*                                                                         *)
(* The service issues the ids of each seed key one after another, so that  *)
(* an id says how many orders of its key were created before it.           *)
(***************************************************************************)
EXTENDS Naturals

CONSTANTS NumKeys,    \* entries of SEED_ORDERS, taken in their order
          Torn,       \* a state file that was truncated and not written
          MaxFaults   \* failed requests, interruptions and wipes, all together

ASSUME SeedAssumption == NumKeys \in Nat \ {0} /\ MaxFaults \in Nat

Keys == 1..NumKeys
NoId == 0
NothingRecorded == [k \in Keys |-> NoId]

ASSUME TornAssumption == Torn \notin [Keys -> Nat]

VARIABLES orders,    \* of each key, the orders the service holds
          issued,    \* of each key, the last id the service issued
          receipts,  \* of each key, the orders with a stored receipt
          adrift,    \* of each key, POSTs given up that may still be taken
          file,      \* the state file
          at,        \* where the running script is, or "idle"
          key, known, reply,  \* its variables: the id of the reply, if any
          outcome,   \* how the last run ended
          strays,    \* history: orders whose id a failure kept from the file
          wiped,     \* history: the service was wiped since the run began
          faults

service == <<orders, issued, receipts, adrift>>
script == <<at, key, known, reply, outcome>>
seeding == <<service, file, script, strays, wiped, faults>>

SeedTypeOK ==
    /\ issued \in [Keys -> 0..MaxFaults + 1]
    /\ \A k \in Keys : /\ orders[k] \cup strays[k] \subseteq 1..issued[k]
                       /\ receipts[k] \subseteq orders[k]
    /\ adrift \in [Keys -> 0..MaxFaults]
    /\ file # Torn => file \in [Keys -> 0..MaxFaults + 1]
    /\ at \in {"idle", "order", "post", "posting", "save", "write", "receipt"}
    /\ key \in Keys
    /\ outcome \in {"none", "ok", "failed", "killed"}
    /\ wiped \in BOOLEAN
    /\ faults \in 0..MaxFaults
    \* Between two saves the file holds what the script knows.
    /\ at \in {"order", "post", "posting", "receipt"} => file = known

SeedInit == /\ orders = [k \in Keys |-> {}]
            /\ receipts = [k \in Keys |-> {}]
            /\ issued = NothingRecorded
            /\ adrift = [k \in Keys |-> 0]
            /\ file = NothingRecorded    \* a missing file loads as {}
            /\ at = "idle" /\ key = 1 /\ known = NothingRecorded /\ reply = NoId
            /\ outcome = "none"
            /\ strays = [k \in Keys |-> {}]
            /\ wiped = FALSE
            /\ faults = 0

-----------------------------------------------------------------------------
(***************************************************************************)
(* One run of the script.                                                  *)
(***************************************************************************)
GoTo(step) == at' = step /\ UNCHANGED <<key, known, reply, outcome>>

\* The locals of a run die with it.
End(how) == /\ at' = "idle" /\ outcome' = how
            /\ key' = 1 /\ known' = NothingRecorded /\ reply' = NoId

Fault == faults < MaxFaults /\ faults' = faults + 1

Begin == /\ at = "idle"
         /\ file # Torn
         /\ at' = "order" /\ key' = 1 /\ known' = file /\ reply' = NoId
         /\ outcome' = "none"
         /\ wiped' = FALSE
         /\ UNCHANGED <<service, file, strays, faults>>

\* json.loads raises what main() does not catch.
BeginUnreadable == /\ at = "idle"
                   /\ file = Torn
                   /\ End("failed")
                   /\ UNCHANGED <<service, file, strays, wiped, faults>>

\* The next entry of SEED_ORDERS, or the end of the loop.
LastOrNext == IF key = NumKeys
              THEN End("ok")
              ELSE /\ at' = "order" /\ key' = key + 1
                   /\ UNCHANGED <<known, reply, outcome>>

\* A mutant: only an order just created has its receipt fetched.
ExistsSkipsReceipt == /\ at = "order"
                      /\ known[key] \in orders[key]
                      /\ LastOrNext
                      /\ UNCHANGED <<service, file, strays, wiped, faults>>

\* GET answers 200.
Exists == /\ at = "order"
          /\ known[key] \in orders[key]
          /\ GoTo("receipt")
          /\ UNCHANGED <<service, file, strays, wiped, faults>>

\* A mutant: whatever is not a 200 has the order created again.
MissingOrFailing == /\ at = "order"
                    /\ \/ known[key] \notin orders[key] /\ UNCHANGED faults
                       \/ Fault
                    /\ GoTo("post")
                    /\ UNCHANGED <<service, file, strays, wiped>>

\* GET answers 404, or no id is recorded and nothing is asked.
Missing == /\ at = "order"
           /\ known[key] \notin orders[key]
           /\ GoTo("post")
           /\ UNCHANGED <<service, file, strays, wiped, faults>>

Post == /\ at = "post"
        /\ GoTo("posting")
        /\ UNCHANGED <<service, file, strays, wiped, faults>>

\* A mutant: the file is left for the end of the run.
CreatedUnsaved == /\ at = "posting"
                  /\ reply # NoId
                  /\ at' = "receipt" /\ reply' = NoId
                  /\ known' = [known EXCEPT ![key] = reply]
                  /\ UNCHANGED <<service, file, key, outcome, strays, wiped, faults>>

\* 201: `known` is updated before the save that follows at once.
Created == /\ at = "posting"
           /\ reply # NoId
           /\ at' = "save"
           /\ known' = [known EXCEPT ![key] = reply]
           /\ UNCHANGED <<service, file, key, reply, outcome, strays, wiped, faults>>

\* write_text truncates the file before it writes to it.
Truncate == /\ at = "save"
            /\ file' = Torn
            /\ GoTo("write")
            /\ UNCHANGED <<service, strays, wiped, faults>>

Write == /\ at = "write"
         /\ file' = known
         /\ at' = "receipt" /\ reply' = NoId
         /\ UNCHANGED <<service, key, known, outcome, strays, wiped, faults>>

\* _ensure_receipt: the service renders and stores the receipt, or has it.
EnsureReceipt == /\ at = "receipt"
                 /\ known[key] \in orders[key]
                 /\ receipts' = [receipts EXCEPT ![key] = @ \cup {known[key]}]
                 /\ LastOrNext
                 /\ UNCHANGED <<orders, issued, adrift, file, strays, wiped, faults>>

\* A mutant: an order without its receipt is reported all the same.
ReceiptSwallowed == /\ at = "receipt"
                    /\ Fault
                    /\ LastOrNext
                    /\ UNCHANGED <<service, file, strays, wiped>>

\* A GET times out or is answered neither 200 nor 404.
GetFails == /\ \/ at = "order" /\ known[key] # NoId
               \/ at = "receipt"
            /\ Fault
            /\ End("failed")
            /\ UNCHANGED <<service, file, strays, wiped>>

\* The service was wiped after the order was created or found.
ReceiptGone == /\ at = "receipt"
               /\ known[key] \notin orders[key]
               /\ End("failed")
               /\ UNCHANGED <<service, file, strays, wiped, faults>>

-----------------------------------------------------------------------------
(***************************************************************************)
(* The service and the failures.                                           *)
(***************************************************************************)
\* One more order of key k.
Issue(k) == /\ issued' = [issued EXCEPT ![k] = @ + 1]
            /\ orders' = [orders EXCEPT ![k] = @ \cup {issued[k] + 1}]
            /\ UNCHANGED receipts

Take == /\ at = "posting"
        /\ reply = NoId
        /\ Issue(key)
        /\ reply' = issued[key] + 1
        /\ UNCHANGED <<adrift, file, at, key, known, outcome, strays, wiped, faults>>

\* The script stops with a POST out: the order it made is a stray, and a POST
\* not yet taken may still be, or never.
Abandon == \/ /\ reply = NoId
              /\ \/ adrift' = [adrift EXCEPT ![key] = @ + 1]
                 \/ UNCHANGED adrift
              /\ UNCHANGED strays
           \/ /\ reply # NoId
              /\ strays' = [strays EXCEPT ![key] = @ \cup {reply}]
              /\ UNCHANGED adrift

\* POST times out or is not answered 201, whether or not it was taken.
PostFails == /\ at = "posting"
             /\ Fault
             /\ Abandon
             /\ End("failed")
             /\ UNCHANGED <<orders, issued, receipts, file, wiped>>

\* Stopped, or an exception nobody catches, as when the disk is full.  What the
\* file was truncated of is no longer recorded either.
Killed == /\ at # "idle"
          /\ Fault
          /\ \/ at \in {"order", "post", "receipt"} /\ UNCHANGED <<adrift, strays>>
             \/ at \in {"posting", "save"} /\ Abandon
             \/ /\ at = "write"
                /\ strays' = [k \in Keys |-> strays[k] \cup ({known[k]} \ {NoId})]
                /\ UNCHANGED adrift
          /\ End("killed")
          /\ UNCHANGED <<orders, issued, receipts, file, wiped>>

TakeLate(k) == /\ adrift[k] > 0
               /\ adrift' = [adrift EXCEPT ![k] = @ - 1]
               /\ Issue(k)
               /\ strays' = [strays EXCEPT ![k] = @ \cup {issued[k] + 1}]
               /\ UNCHANGED <<file, script, wiped, faults>>

LoseLate(k) == /\ adrift[k] > 0
               /\ adrift' = [adrift EXCEPT ![k] = @ - 1]
               /\ UNCHANGED <<orders, issued, receipts, file, script, strays, wiped, faults>>

\* `just down`: the data goes, the state file of `just seed` stays.
Wipe == /\ Fault
        /\ orders' = [k \in Keys |-> {}]
        /\ receipts' = [k \in Keys |-> {}]
        /\ wiped' = TRUE
        /\ UNCHANGED <<issued, adrift, file, script, strays>>

\* The developer deletes a file no run can read.
RemoveFile == /\ at = "idle"
              /\ file = Torn
              /\ file' = NothingRecorded
              /\ UNCHANGED <<service, script, strays, wiped, faults>>

Progress == \/ Begin \/ Exists \/ Missing \/ Post \/ Take \/ Created
            \/ Truncate \/ Write \/ EnsureReceipt \/ ReceiptGone \/ RemoveFile

SeedNext == \/ Progress
            \/ BeginUnreadable \/ GetFails \/ PostFails \/ Killed \/ Wipe
            \/ \E k \in Keys : TakeLate(k) \/ LoseLate(k)

SeedSpec == SeedInit /\ [][SeedNext]_seeding /\ WF_seeding(Progress)

-----------------------------------------------------------------------------
(***************************************************************************)
(* Correctness.                                                            *)
(***************************************************************************)

\* The id of key k the script goes by, in its variables or in its file.
Recorded(k) == CASE at = "idle" /\ file # Torn -> file[k]
                 [] at = "idle" /\ file = Torn -> NoId
                 [] at # "idle" /\ k = key /\ reply # NoId -> reply
                 [] OTHER -> known[k]

\* "Saved IMMEDIATELY after the POST": every order the service holds is the one
\* the script goes by, unless a failure caught it between the POST and the save.
\* In particular a failing service or a run that starts again never makes a
\* second copy of an order that is there.
NoNeedlessCopy == \A k \in Keys : orders[k] \ strays[k] \subseteq {Recorded(k)}

Seeded(k) == file[k] \in orders[k] /\ file[k] \in receipts[k]

\* A run that exits 0 leaves every order recorded, held and with its receipt.
OkMeansSeeded == outcome = "ok" /\ at = "idle" /\ ~wiped =>
                     file # Torn /\ \A k \in Keys : Seeded(k)

\* A first run leads to the job being done: run again after each failure, the
\* script finishes what the runs that failed left over, the receipts included,
\* once the failures cease.
FinishesTheJob == at # "idle" ~> [](file # Torn /\ \A k \in Keys : Seeded(k))
=============================================================================
