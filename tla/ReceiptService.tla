--------------------------- MODULE ReceiptService ---------------------------
(***************************************************************************)
(* services/receipt.py over infrastructure/storage/receipt_store.py:       *)
(* concurrent requests for the receipt of one order, rendered on demand    *)
(* and stored in an object store shared by every instance of the service.  *)
(*                                                                         *)
(* render_receipt is a function of the order, which is written once, and   *)
(* of the code: its result is represented by the generation of the code    *)
(* that rendered it (RECEIPT_SCHEMA_VERSION), which is also in the key     *)
(* (KEY_PREFIX).  During a rolling deployment instances of two generations *)
(* run side by side.                                                       *)
(*                                                                         *)
(* The object store is external: a GET or a PUT may fail, and a PUT that   *)
(* failed for the client may have been applied, or be applied later.       *)
(***************************************************************************)
CONSTANTS Requests,     \* callers, who may come back
          Generations,  \* of the code that renders, and of the key
          None

ASSUME NoneAssumption == None \notin Generations

VARIABLES order,       \* the order has been placed
          object,      \* the receipts of the order in the store, by key
          late,        \* PUTs whose client is gone and that may still land:
                       \* pairs of a key and the bytes for it
          stage,       \* where each request is
          generation,  \* of the instance that runs it
          body         \* the bytes it rendered or was given

vars == <<order, object, late, stage, generation, body>>

TypeOK == /\ order \in BOOLEAN
          /\ object \in [Generations -> Generations \cup {None}]
          /\ late \subseteq Generations \X Generations
          /\ stage \in [Requests -> {"idle", "found", "putting", "served",
                                     "not_found", "unavailable", "failed"}]
          /\ generation \in [Requests -> Generations]
          /\ body \in [Requests -> Generations \cup {None}]
          \* The store holds receipts of orders that exist.
          /\ order \/ (late = {} /\ \A k \in Generations : object[k] = None)

Init == /\ order = FALSE
        /\ object = [k \in Generations |-> None]
        /\ late = {}
        /\ stage = [r \in Requests |-> "idle"]
        /\ generation \in [Requests -> Generations]
        /\ body = [r \in Requests |-> None]

-----------------------------------------------------------------------------
To(r, from, to) == stage[r] = from /\ stage' = [stage EXCEPT ![r] = to]

\* A mutant: the schema version was bumped and the key prefix was not.
FixedKey(r) == CHOOSE g \in Generations : TRUE

\* receipt_key
Key(r) == generation[r]

\* render_receipt
Render(r) == generation[r]

PlaceOrder == /\ ~order
              /\ order' = TRUE
              /\ UNCHANGED <<object, late, stage, generation, body>>

Ended == {"served", "not_found", "unavailable", "failed"}

Again(r) == /\ stage[r] \in Ended
            /\ stage' = [stage EXCEPT ![r] = "idle"]
            /\ generation' \in {[generation EXCEPT ![r] = g] : g \in Generations}
            /\ body' = [body EXCEPT ![r] = None]
            /\ UNCHANGED <<order, object, late>>

\* orders.get: "the order is looked up FIRST".
LookUp(r) == /\ To(r, "idle", IF order THEN "found" ELSE "not_found")
             /\ UNCHANGED <<order, object, late, generation, body>>

LookUpFails(r) == /\ To(r, "idle", "failed")
                  /\ UNCHANGED <<order, object, late, generation, body>>

\* A mutant: an error of the store is taken for a missing object.
FetchErrorIsMissing(r) ==
    /\ \/ /\ object[Key(r)] # None
          /\ To(r, "found", "served")
          /\ body' = [body EXCEPT ![r] = object[Key(r)]]
       \/ /\ To(r, "found", "putting")
          /\ body' = [body EXCEPT ![r] = Render(r)]
    /\ UNCHANGED <<order, object, late, generation>>

\* receipts.get answers: the stored bytes, or None and the receipt is rendered.
Fetch(r) == /\ IF object[Key(r)] # None
               THEN /\ To(r, "found", "served")
                    /\ body' = [body EXCEPT ![r] = object[Key(r)]]
               ELSE /\ To(r, "found", "putting")
                    /\ body' = [body EXCEPT ![r] = Render(r)]
            /\ UNCHANGED <<order, object, late, generation>>

\* Any error but a missing object: StorageUnavailableError.
FetchFails(r) == /\ To(r, "found", "unavailable")
                 /\ UNCHANGED <<order, object, late, generation, body>>

Store(r) == object' = [object EXCEPT ![Key(r)] = body[r]]

\* A mutant: the rendered bytes are served before they are stored.
PutServedUnstored(r) == /\ To(r, "putting", "served")
                        /\ late' = late \cup {<<Key(r), body[r]>>}
                        /\ UNCHANGED <<order, object, generation, body>>

Put(r) == /\ To(r, "putting", "served")
          /\ Store(r)
          /\ UNCHANGED <<order, late, generation, body>>

\* The PUT raises or the request is cancelled: applied, lost, or yet to land.
PutFails(r) == /\ To(r, "putting", "unavailable")
               /\ \/ UNCHANGED <<object, late>>
                  \/ Store(r) /\ UNCHANGED late
                  \/ late' = late \cup {<<Key(r), body[r]>>} /\ UNCHANGED object
               /\ body' = [body EXCEPT ![r] = None]
               /\ UNCHANGED <<order, generation>>

Land == \E put \in late : /\ late' = late \ {put}
                          /\ object' = [object EXCEPT ![put[1]] = put[2]]
                          /\ UNCHANGED <<order, stage, generation, body>>

Next == \/ PlaceOrder \/ Land
        \/ \E r \in Requests : \/ Again(r) \/ LookUp(r) \/ LookUpFails(r)
                               \/ Fetch(r) \/ FetchFails(r) \/ Put(r) \/ PutFails(r)

Spec == Init /\ [][Next]_vars

-----------------------------------------------------------------------------
(***************************************************************************)
(* Correctness.                                                            *)
(***************************************************************************)

\* A receipt is only served once it is stored ("a store that cannot be written"
\* is not hidden "behind responses that look perfectly healthy"), and only for
\* an order that exists.
ServedIsStored == \A r \in Requests : stage[r] = "served" =>
                      order /\ object[Key(r)] = body[r]

\* "The first request for a given order renders the document and stores it;
\* every request after that serves the stored bytes unchanged" (README.md), and
\* never "a stored document that no longer matches the published contract":
\* whoever rendered it, and whichever late PUT landed last, an instance serves
\* the receipt its own code would render.
ServedMatchesContract == \A r \in Requests : stage[r] = "served" => body[r] = Render(r)

\* A store that takes its writes ends the rendering: reads that fail do not
\* "make an outage look like an empty bucket and silently re-render on every
\* request" (domain/receipts.py).
WriteFails == \E r \in Requests : stage[r] = "putting" /\ stage'[r] = "unavailable"
Renders == \E r \in Requests : stage[r] = "found" /\ stage'[r] = "putting"
RenderingEnds == <>[][~WriteFails]_vars => <>[][~Renders]_vars
=============================================================================
