------------------------ MODULE ReceiptServiceProofs ------------------------
(***************************************************************************)
(* Theorems about receipts: of ReceiptService, which renders and stores    *)
(* them, for any number of requests and of generations of the code, and of *)
(* Seed, the script that asks for one per order it makes, for any number   *)
(* of keys and of faults.                                                  *)
(*                                                                         *)
(* Both safety properties of ReceiptService speak of requests that were    *)
(* served.  What makes them inductive is what holds of the store itself,   *)
(* whoever wrote to it (OwnBytes), and of the requests on their way there  *)
(* (Underway).                                                             *)
(***************************************************************************)
EXTENDS ReceiptService, Seed, TLAPS

\* Under the key of a generation lies, and arrives late, only what that
\* generation renders.
OwnBytes == /\ \A k \in Generations : object[k] \in {k, None}
            /\ \A put \in late : put[1] = put[2]

\* A request past the look-up has an order; one that writes, its own rendering;
\* one that was served left it in the store, where nothing is ever removed.
Underway(r) ==
    /\ stage[r] \in {"found", "putting", "served"} => order
    /\ stage[r] \in {"putting", "served"} => body[r] = generation[r]
    /\ stage[r] = "served" => object[generation[r]] = generation[r]

IInv == TypeOK /\ OwnBytes /\ (\A r \in Requests : Underway(r))

-----------------------------------------------------------------------------
LEMMA InitIInv == Init => IInv
BY NoneAssumption DEF Init, IInv, TypeOK, OwnBytes, Underway

LEMMA NextIInv == IInv /\ [Next]_vars => IInv'
<1> SUFFICES ASSUME IInv, [Next]_vars PROVE IInv'
  OBVIOUS
<1> USE NoneAssumption DEF IInv, TypeOK, OwnBytes, Underway, To, Key, Render, Store
<1>1. CASE PlaceOrder
  BY <1>1 DEF PlaceOrder
<1>2. CASE Land
  <2>1. PICK put \in late : /\ late' = late \ {put}
                            /\ object' = [object EXCEPT ![put[1]] = put[2]]
                            /\ UNCHANGED <<order, stage, generation, body>>
    BY <1>2 DEF Land
  <2>2. put[1] \in Generations /\ put[2] = put[1]
    OBVIOUS
  <2> QED
    BY <2>1, <2>2
<1>3. ASSUME NEW r \in Requests, Again(r) PROVE IInv'
  <2>1. PICK g \in Generations : generation' = [generation EXCEPT ![r] = g]
    BY <1>3 DEF Again
  <2> QED
    BY <2>1, <1>3 DEF Again
<1>4. ASSUME NEW r \in Requests, LookUp(r) PROVE IInv'
  BY <1>4 DEF LookUp
<1>5. ASSUME NEW r \in Requests, LookUpFails(r) PROVE IInv'
  BY <1>5 DEF LookUpFails
<1>6. ASSUME NEW r \in Requests, Fetch(r) PROVE IInv'
  BY <1>6 DEF Fetch
<1>7. ASSUME NEW r \in Requests, FetchFails(r) PROVE IInv'
  BY <1>7 DEF FetchFails
<1>8. ASSUME NEW r \in Requests, Put(r) PROVE IInv'
  BY <1>8 DEF Put
<1>9. ASSUME NEW r \in Requests, PutFails(r) PROVE IInv'
  BY <1>9 DEF PutFails
<1>10. CASE UNCHANGED vars
  BY <1>10 DEF vars
<1> QED
  BY <1>1, <1>2, <1>3, <1>4, <1>5, <1>6, <1>7, <1>8, <1>9, <1>10 DEF Next

LEMMA Inductive == Spec => []IInv
BY InitIInv, NextIInv, PTL DEF Spec

-----------------------------------------------------------------------------
\* Every field stays in its range, and the store holds receipts of orders that
\* exist and of no others.
THEOREM TypeCorrect == Spec => []TypeOK
<1>1. IInv => TypeOK
  BY DEF IInv
<1> QED
  BY <1>1, Inductive, PTL

\* A receipt is served for an order that exists, and only once it is stored,
\* whatever failed or landed late since.
THEOREM ServedReceiptsAreStored == Spec => []ServedIsStored
<1>1. IInv => ServedIsStored
  BY DEF IInv, Underway, ServedIsStored, Key
<1> QED
  BY <1>1, Inductive, PTL

\* Every instance serves the receipt its own code would render, beside any
\* number of instances of other generations.
THEOREM ServedReceiptsMatch == Spec => []ServedMatchesContract
<1>1. IInv => ServedMatchesContract
  BY DEF IInv, Underway, ServedMatchesContract, Render
<1> QED
  BY <1>1, Inductive, PTL

-----------------------------------------------------------------------------
(***************************************************************************)
(* The seed script.  Its promises are about the end of a run and about     *)
(* what a failure may cost; they hold because of where the file and the    *)
(* reply are at each step (Place), because every copy of an order is paid  *)
(* for by a fault (Budget), and because of what a run that was not wiped   *)
(* has behind it (Passed).                                                 *)
(***************************************************************************)
Ranges ==
    /\ orders \in [Keys -> SUBSET Nat] /\ receipts \in [Keys -> SUBSET Nat]
    /\ strays \in [Keys -> SUBSET Nat]
    /\ issued \in [Keys -> Nat] /\ adrift \in [Keys -> Nat]
    /\ file = Torn \/ file \in [Keys -> Nat]
    /\ at \in {"idle", "order", "post", "posting", "save", "write", "receipt"}
    /\ key \in Keys /\ known \in [Keys -> Nat] /\ reply \in Nat
    /\ outcome \in {"none", "ok", "failed", "killed"}
    /\ wiped \in BOOLEAN
    /\ faults \in 0..MaxFaults

\* No id is ahead of the service.
Ids == \A k \in Keys :
           /\ orders[k] \subseteq 1..issued[k] /\ strays[k] \subseteq 1..issued[k]
           /\ receipts[k] \subseteq orders[k]
           /\ known[k] <= issued[k]
           /\ file # Torn => file[k] <= issued[k]
           /\ k = key => reply <= issued[k]

\* Where the file and the reply are, as the script goes along.  A POST is only
\* made for an order that is not there.
Place ==
    /\ at \in {"idle", "order", "post", "receipt"} => reply = NoId
    /\ at \in {"order", "post", "posting", "receipt"} => file = known
    /\ at \in {"save", "write"} => reply # NoId /\ known[key] = reply
    /\ at = "save" => file # Torn /\ \A k \in Keys \ {key} : file[k] = known[k]
    /\ at = "write" => file = Torn
    /\ at = "post" => known[key] \notin orders[key]
    /\ at = "posting" /\ reply = NoId => known[key] \notin orders[key]

\* A second copy of an order costs a fault.
Budget == \A k \in Keys :
    /\ adrift[k] <= faults
    /\ issued[k] + adrift[k] <= faults + (IF Recorded(k) \in orders[k] THEN 1 ELSE 0)

\* A run has fetched the receipts of the keys it has passed.
Passed == at # "idle" /\ ~wiped => \A k \in 1..(key - 1) : known[k] \in receipts[k]

SeedInv == Ranges /\ Ids /\ Place /\ Budget /\ Passed /\ NoNeedlessCopy /\ OkMeansSeeded

LEMMA WhatIsRecorded ==
    ASSUME NEW k \in Keys
    PROVE  /\ at = "idle" /\ file # Torn => Recorded(k) = file[k]
           /\ at = "idle" /\ file = Torn => Recorded(k) = NoId
           /\ at # "idle" /\ k = key /\ reply # NoId => Recorded(k) = reply
           /\ at # "idle" /\ (k # key \/ reply = NoId) => Recorded(k) = known[k]
BY DEF Recorded

LEMMA WhatIsRecordedNext ==
    ASSUME NEW k \in Keys
    PROVE  /\ at' = "idle" /\ file' # Torn => Recorded(k)' = file'[k]
           /\ at' = "idle" /\ file' = Torn => Recorded(k)' = NoId
           /\ at' # "idle" /\ k = key' /\ reply' # NoId => Recorded(k)' = reply'
           /\ at' # "idle" /\ (k # key' \/ reply' = NoId) => Recorded(k)' = known'[k]
BY DEF Recorded

LEMMA FreshLocals ==
    /\ 1 \in Keys
    /\ NothingRecorded \in [Keys -> Nat]
    /\ \A k \in Keys : NothingRecorded[k] = 0
BY SeedAssumption DEF Keys, NothingRecorded, NoId

LEMMA SeedStarts == SeedInit => SeedInv
<1> SUFFICES ASSUME SeedInit PROVE SeedInv
    OBVIOUS
<1>1. Ranges
  <2>1. 0 \in 0..MaxFaults
      BY SeedAssumption
  <2> QED
      BY <2>1, FreshLocals DEF SeedInit, Ranges, NoId
<1>2. Ids
    BY DEF SeedInit, Ids, NothingRecorded, NoId, Keys
<1>3. Place
    BY DEF SeedInit, Place
<1>4. Budget
    BY SeedAssumption DEF SeedInit, Budget, NothingRecorded, NoId, Keys
<1>5. NoNeedlessCopy /\ Passed /\ OkMeansSeeded
    BY DEF SeedInit, NoNeedlessCopy, Passed, OkMeansSeeded
<1> QED
    BY <1>1, <1>2, <1>3, <1>4, <1>5 DEF SeedInv

LEMMA BeginKeeps == SeedInv /\ Begin => SeedInv'
<1> SUFFICES ASSUME SeedInv, Begin PROVE SeedInv'
    OBVIOUS
<1> USE SeedAssumption, TornAssumption, WhatIsRecorded, WhatIsRecordedNext
    DEF SeedInv, Begin, service, script
<1>1. Ranges'
    BY FreshLocals DEF Ranges, NoId
<1>2. Ids'
    BY DEF Ranges, Ids, Place, NoId
<1>3. Place'
    BY DEF Ranges, Ids, Place, NothingRecorded, NoId
<1>4. Budget' /\ NoNeedlessCopy'
    BY DEF Ranges, Ids, Place, Budget, NoNeedlessCopy, NoId, NothingRecorded
<1>5. Passed' /\ OkMeansSeeded'
    BY DEF Ranges, Ids, Place, Passed, OkMeansSeeded, Seeded, Keys
<1> QED
    BY <1>1, <1>2, <1>3, <1>4, <1>5

LEMMA BeginUnreadableKeeps == SeedInv /\ BeginUnreadable => SeedInv'
<1> SUFFICES ASSUME SeedInv, BeginUnreadable PROVE SeedInv'
    OBVIOUS
<1> USE SeedAssumption, TornAssumption, WhatIsRecorded, WhatIsRecordedNext
    DEF SeedInv, BeginUnreadable, End, service, script
<1>1. Ranges'
    BY FreshLocals DEF Ranges, NoId
<1>2. Ids'
    BY FreshLocals DEF Ranges, Ids, NoId
<1>3. Place'
    BY DEF Ranges, Ids, Place, NothingRecorded, NoId
<1>4. Budget' /\ NoNeedlessCopy'
    BY DEF Ranges, Ids, Place, Budget, NoNeedlessCopy, NoId, NothingRecorded
<1>5. Passed' /\ OkMeansSeeded'
    BY DEF Ranges, Ids, Place, Passed, OkMeansSeeded, Seeded, Keys
<1> QED
    BY <1>1, <1>2, <1>3, <1>4, <1>5

LEMMA ExistsKeeps == SeedInv /\ Exists => SeedInv'
<1> SUFFICES ASSUME SeedInv, Exists PROVE SeedInv'
    OBVIOUS
<1> USE SeedAssumption, TornAssumption, WhatIsRecorded, WhatIsRecordedNext
    DEF SeedInv, Exists, GoTo, service, script
<1>1. Ranges' /\ Ids' /\ Place'
    BY DEF Ranges, Ids, Place, NothingRecorded, NoId, Keys
<1>2. Budget' /\ NoNeedlessCopy'
    BY DEF Ranges, Ids, Place, Budget, NoNeedlessCopy, NoId, NothingRecorded
<1>3. Passed' /\ OkMeansSeeded'
    BY DEF Ranges, Ids, Place, Passed, OkMeansSeeded, Seeded, Keys
<1> QED
    BY <1>1, <1>2, <1>3

LEMMA MissingKeeps == SeedInv /\ Missing => SeedInv'
<1> SUFFICES ASSUME SeedInv, Missing PROVE SeedInv'
    OBVIOUS
<1> USE SeedAssumption, TornAssumption, WhatIsRecorded, WhatIsRecordedNext
    DEF SeedInv, Missing, GoTo, service, script
<1>1. Ranges' /\ Ids' /\ Place'
    BY DEF Ranges, Ids, Place, NothingRecorded, NoId, Keys
<1>2. Budget' /\ NoNeedlessCopy'
    BY DEF Ranges, Ids, Place, Budget, NoNeedlessCopy, NoId, NothingRecorded
<1>3. Passed' /\ OkMeansSeeded'
    BY DEF Ranges, Ids, Place, Passed, OkMeansSeeded, Seeded, Keys
<1> QED
    BY <1>1, <1>2, <1>3

LEMMA PostKeeps == SeedInv /\ Post => SeedInv'
<1> SUFFICES ASSUME SeedInv, Post PROVE SeedInv'
    OBVIOUS
<1> USE SeedAssumption, TornAssumption, WhatIsRecorded, WhatIsRecordedNext
    DEF SeedInv, Post, GoTo, service, script
<1>1. Ranges' /\ Ids' /\ Place'
    BY DEF Ranges, Ids, Place, NothingRecorded, NoId, Keys
<1>2. Budget' /\ NoNeedlessCopy'
    BY DEF Ranges, Ids, Place, Budget, NoNeedlessCopy, NoId, NothingRecorded
<1>3. Passed' /\ OkMeansSeeded'
    BY DEF Ranges, Ids, Place, Passed, OkMeansSeeded, Seeded, Keys
<1> QED
    BY <1>1, <1>2, <1>3

LEMMA CreatedKeeps == SeedInv /\ Created => SeedInv'
<1> SUFFICES ASSUME SeedInv, Created PROVE SeedInv'
    OBVIOUS
<1> USE SeedAssumption, TornAssumption, WhatIsRecorded, WhatIsRecordedNext
    DEF SeedInv, Created, service, script
<1>1. Ranges' /\ Ids' /\ Place'
    BY DEF Ranges, Ids, Place, NothingRecorded, NoId, Keys
<1>2. Budget' /\ NoNeedlessCopy'
    BY DEF Ranges, Ids, Place, Budget, NoNeedlessCopy, NoId, NothingRecorded
<1>3. Passed' /\ OkMeansSeeded'
    BY DEF Ranges, Ids, Place, Passed, OkMeansSeeded, Seeded, Keys
<1> QED
    BY <1>1, <1>2, <1>3

LEMMA TruncateKeeps == SeedInv /\ Truncate => SeedInv'
<1> SUFFICES ASSUME SeedInv, Truncate PROVE SeedInv'
    OBVIOUS
<1> USE SeedAssumption, TornAssumption, WhatIsRecorded, WhatIsRecordedNext
    DEF SeedInv, Truncate, GoTo, service, script
<1>1. Ranges' /\ Ids' /\ Place'
    BY DEF Ranges, Ids, Place, NothingRecorded, NoId, Keys
<1>2. Budget' /\ NoNeedlessCopy'
    BY DEF Ranges, Ids, Place, Budget, NoNeedlessCopy, NoId, NothingRecorded
<1>3. Passed' /\ OkMeansSeeded'
    BY DEF Ranges, Ids, Place, Passed, OkMeansSeeded, Seeded, Keys
<1> QED
    BY <1>1, <1>2, <1>3

LEMMA WriteKeeps == SeedInv /\ Write => SeedInv'
<1> SUFFICES ASSUME SeedInv, Write PROVE SeedInv'
    OBVIOUS
<1> USE SeedAssumption, TornAssumption, WhatIsRecorded, WhatIsRecordedNext
    DEF SeedInv, Write, service, script
<1>1. Ranges'
    BY DEF Ranges, NothingRecorded, NoId, Keys
<1>2. Ids'
    BY DEF Ranges, Ids, NothingRecorded, NoId, Keys
<1>3. Place'
    BY DEF Ranges, Ids, Place, NothingRecorded, NoId
<1>4. Budget' /\ NoNeedlessCopy'
    BY DEF Ranges, Ids, Place, Budget, NoNeedlessCopy, NoId, NothingRecorded
<1>5. Passed' /\ OkMeansSeeded'
    BY DEF Ranges, Ids, Place, Passed, OkMeansSeeded, Seeded, Keys
<1> QED
    BY <1>1, <1>2, <1>3, <1>4, <1>5

LEMMA ReceiptGoneKeeps == SeedInv /\ ReceiptGone => SeedInv'
<1> SUFFICES ASSUME SeedInv, ReceiptGone PROVE SeedInv'
    OBVIOUS
<1> USE SeedAssumption, TornAssumption, WhatIsRecorded, WhatIsRecordedNext
    DEF SeedInv, ReceiptGone, End, service, script
<1>1. Ranges'
    BY FreshLocals DEF Ranges, NoId
<1>2. Ids'
    BY FreshLocals DEF Ranges, Ids, NoId
<1>3. Place'
    BY DEF Ranges, Ids, Place, NothingRecorded, NoId
<1>4. Budget' /\ NoNeedlessCopy'
    BY DEF Ranges, Ids, Place, Budget, NoNeedlessCopy, NoId, NothingRecorded
<1>5. Passed' /\ OkMeansSeeded'
    BY DEF Ranges, Ids, Place, Passed, OkMeansSeeded, Seeded, Keys
<1> QED
    BY <1>1, <1>2, <1>3, <1>4, <1>5

LEMMA RemoveFileKeeps == SeedInv /\ RemoveFile => SeedInv'
<1> SUFFICES ASSUME SeedInv, RemoveFile PROVE SeedInv'
    OBVIOUS
<1> USE SeedAssumption, TornAssumption, WhatIsRecorded, WhatIsRecordedNext
    DEF SeedInv, RemoveFile, service, script
<1>1. Ranges' /\ Ids' /\ Place'
    BY DEF Ranges, Ids, Place, NothingRecorded, NoId, Keys
<1>2. Budget' /\ NoNeedlessCopy'
    BY DEF Ranges, Ids, Place, Budget, NoNeedlessCopy, NoId, NothingRecorded
<1>3. Passed' /\ OkMeansSeeded'
    BY DEF Ranges, Ids, Place, Passed, OkMeansSeeded, Seeded, Keys
<1> QED
    BY <1>1, <1>2, <1>3

LEMMA GetFailsKeeps == SeedInv /\ GetFails => SeedInv'
<1> SUFFICES ASSUME SeedInv, GetFails PROVE SeedInv'
    OBVIOUS
<1> USE SeedAssumption, TornAssumption, WhatIsRecorded, WhatIsRecordedNext
    DEF SeedInv, GetFails, Fault, End, service, script
<1>1. Ranges'
    BY FreshLocals DEF Ranges, NoId
<1>2. Ids'
    BY FreshLocals DEF Ranges, Ids, NoId
<1>3. Place'
    BY DEF Ranges, Ids, Place, NothingRecorded, NoId
<1>4. Budget' /\ NoNeedlessCopy'
    BY DEF Ranges, Ids, Place, Budget, NoNeedlessCopy, NoId, NothingRecorded
<1>5. Passed' /\ OkMeansSeeded'
    BY DEF Ranges, Ids, Place, Passed, OkMeansSeeded, Seeded, Keys
<1> QED
    BY <1>1, <1>2, <1>3, <1>4, <1>5

LEMMA TakeKeeps == SeedInv /\ Take => SeedInv'
<1> SUFFICES ASSUME SeedInv, Take PROVE SeedInv'
    OBVIOUS
<1> USE SeedAssumption, WhatIsRecorded, WhatIsRecordedNext
    DEF SeedInv, Take, Issue, service, script
<1>0. PICK id \in Nat : id = issued[key] + 1
    BY DEF Ranges
<1>1. /\ issued' = [issued EXCEPT ![key] = id]
      /\ orders' = [orders EXCEPT ![key] = @ \cup {id}]
      /\ reply' = id
    BY <1>0
<1>2. Ranges'
  <2>1. issued' \in [Keys -> Nat]
      BY <1>1 DEF Ranges
  <2>2. orders' \in [Keys -> SUBSET Nat]
      BY <1>1 DEF Ranges
  <2> QED
      BY <1>1, <2>1, <2>2 DEF Ranges
<1>3. Ids'
  <2>1. ASSUME NEW k \in Keys, k # key
        PROVE  orders'[k] = orders[k] /\ issued'[k] = issued[k]
      BY <1>1, <2>1 DEF Ranges
  <2>2. orders'[key] = orders[key] \cup {id} /\ issued'[key] = id
      BY <1>1 DEF Ranges
  <2>3. orders[key] \subseteq 1..issued[key] => orders'[key] \subseteq 1..id
      BY <1>0, <2>2 DEF Ranges
  <2>4. strays[key] \subseteq 1..issued[key] => strays[key] \subseteq 1..id
      BY <1>0 DEF Ranges
  <2>5. \A n \in Nat : n <= issued[key] => n <= id
      BY <1>0 DEF Ranges
  <2>6. ASSUME NEW k \in Keys, k # key
        PROVE  /\ orders'[k] \subseteq 1..issued'[k] /\ strays'[k] \subseteq 1..issued'[k]
               /\ receipts'[k] \subseteq orders'[k]
               /\ known'[k] <= issued'[k]
               /\ file' # Torn => file'[k] <= issued'[k]
      BY <2>1, <2>6 DEF Ids
  <2>7. /\ orders'[key] \subseteq 1..issued'[key] /\ strays'[key] \subseteq 1..issued'[key]
        /\ receipts'[key] \subseteq orders'[key]
        /\ known'[key] <= issued'[key]
        /\ file' # Torn => file'[key] <= issued'[key]
      BY <2>2, <2>3, <2>4, <2>5 DEF Ids, Ranges
  <2>8. reply' <= issued'[key]
      BY <1>1, <2>2
  <2> QED
      BY <2>6, <2>7, <2>8 DEF Ids
<1>4. Place'
    BY <1>0, <1>1 DEF Ranges, Ids, Place, NoId
<1>5. Budget'
    BY <1>0, <1>1 DEF Ranges, Ids, Place, Budget, NoId
<1>6. NoNeedlessCopy'
    BY <1>1 DEF Ranges, Ids, Place, NoNeedlessCopy, NoId
<1>7. Passed' /\ OkMeansSeeded'
    BY <1>1 DEF Ranges, Ids, Place, Passed, OkMeansSeeded, Seeded, Keys
<1> QED
    BY <1>2, <1>3, <1>4, <1>5, <1>6, <1>7

LEMMA EnsureReceiptKeeps == SeedInv /\ EnsureReceipt => SeedInv'
<1> SUFFICES ASSUME SeedInv, EnsureReceipt PROVE SeedInv'
    OBVIOUS
<1> USE SeedAssumption, TornAssumption, WhatIsRecorded, WhatIsRecordedNext
    DEF SeedInv, EnsureReceipt, LastOrNext, End, service, script
<1>1. /\ receipts' \in [Keys -> SUBSET Nat]
      /\ \A k \in Keys : k # key => receipts'[k] = receipts[k]
      /\ receipts'[key] = receipts[key] \cup {known[key]}
    BY DEF Ranges
<1>2. CASE key = NumKeys
  <2> USE <1>2
  <2>1. Ranges'
      BY <1>1, FreshLocals DEF Ranges, NoId
  <2>2. Ids'
      BY <1>1 DEF Ranges, Ids, NothingRecorded, NoId
  <2>3. Place'
      BY DEF Ranges, Place, NoId
  <2>4. Budget' /\ NoNeedlessCopy'
      BY DEF Ranges, Place, Budget, NoNeedlessCopy, NoId
  <2>5. Passed' /\ OkMeansSeeded'
    <3>1. \A k \in Keys : k # key => k \in 1..(key - 1)
        BY DEF Keys
    <3>2. file # Torn /\ file = known
        BY DEF Place, Ranges
    <3>3. ~wiped => \A k \in Keys : known[k] \in receipts'[k]
        BY <1>1, <3>1 DEF Passed
    <3> QED
        BY <1>1, <2>2, <3>2, <3>3 DEF Passed, OkMeansSeeded, Seeded, Ids
  <2> QED
      BY <2>1, <2>2, <2>3, <2>4, <2>5
<1>3. CASE key # NumKeys
  <2> USE <1>3
  <2>1. Ranges'
    <3>1. key' \in Keys
        BY DEF Ranges, Keys
    <3> QED
        BY <1>1, <3>1 DEF Ranges
  <2>2. Ids'
      BY <1>1 DEF Ranges, Ids, Place, NoId
  <2>3. Place'
      BY DEF Ranges, Place, NoId
  <2>4. Budget' /\ NoNeedlessCopy'
      BY DEF Ranges, Place, Budget, NoNeedlessCopy, NoId
  <2>5. Passed' /\ OkMeansSeeded'
    <3>1. \A k \in 1..(key' - 1) : k \in 1..(key - 1) \/ k = key
        BY DEF Ranges, Keys
    <3>2. \A k \in 1..(key - 1) : k \in Keys /\ k # key
        BY DEF Ranges, Keys
    <3> QED
        BY <1>1, <3>1, <3>2 DEF Passed, OkMeansSeeded
  <2> QED
      BY <2>1, <2>2, <2>3, <2>4, <2>5
<1> QED
    BY <1>2, <1>3

LEMMA AbandonKeeps ==
    ASSUME SeedInv, at = "posting" \/ at = "save", Fault, Abandon, at' = "idle",
           outcome' \in {"failed", "killed"}, key' = 1, known' = NothingRecorded,
           reply' = NoId, UNCHANGED <<orders, issued, receipts, file, wiped>>
    PROVE  SeedInv'
<1> USE SeedAssumption, TornAssumption, WhatIsRecorded, WhatIsRecordedNext
    DEF SeedInv, Fault
<1>1. Ranges'
  <2>1. adrift' \in [Keys -> Nat]
      BY DEF Ranges, Abandon
  <2>2. strays' \in [Keys -> SUBSET Nat]
      BY DEF Ranges, Abandon
  <2> QED
      BY <2>1, <2>2, FreshLocals DEF Ranges, NoId
<1>2. Ids'
  <2>1. ASSUME NEW k \in Keys PROVE strays'[k] \subseteq 1..issued[k]
    <3>1. reply # NoId => reply \in 1..issued[key]
        BY DEF Ranges, Ids, NoId
    <3> QED
        BY <3>1 DEF Ranges, Ids, Abandon
  <2> QED
      BY <2>1 DEF Ranges, Ids, NothingRecorded, NoId
<1>3. Place'
    BY DEF Ranges, Place
<1>4. Budget'
    BY DEF Ranges, Place, Budget, Abandon, NoId
<1>5. NoNeedlessCopy'
    BY DEF Ranges, Place, NoNeedlessCopy, Abandon, NoId
<1>6. Passed' /\ OkMeansSeeded'
    BY DEF Passed, OkMeansSeeded
<1> QED
    BY <1>1, <1>2, <1>3, <1>4, <1>5, <1>6

LEMMA PostFailsKeeps == SeedInv /\ PostFails => SeedInv'
BY AbandonKeeps DEF PostFails, End

LEMMA KilledKeeps == SeedInv /\ Killed => SeedInv'
<1> SUFFICES ASSUME SeedInv, Killed PROVE SeedInv'
    OBVIOUS
<1>1. CASE at \in {"posting", "save"}
    BY <1>1, AbandonKeeps DEF Killed, End
<1> USE SeedAssumption, TornAssumption, WhatIsRecorded, WhatIsRecordedNext
    DEF SeedInv, Killed, Fault, End
<1>2. CASE at \in {"order", "post", "receipt"}
  <2> USE <1>2
  <2>1. Ranges'
      BY FreshLocals DEF Ranges, NoId
  <2>2. Ids'
      BY DEF Ranges, Ids, NothingRecorded, NoId
  <2>3. Place'
      BY DEF Ranges, Place
  <2>4. Budget' /\ NoNeedlessCopy'
      BY DEF Ranges, Place, Budget, NoNeedlessCopy, NoId
  <2>5. Passed' /\ OkMeansSeeded'
      BY DEF Passed, OkMeansSeeded
  <2> QED
      BY <2>1, <2>2, <2>3, <2>4, <2>5
<1>3. CASE at = "write"
  <2> USE <1>3
  <2>1. strays' = [k \in Keys |-> strays[k] \cup ({known[k]} \ {NoId})] /\ adrift' = adrift
      OBVIOUS
  <2>2. Ranges'
    <3>1. strays' \in [Keys -> SUBSET Nat]
        BY <2>1 DEF Ranges
    <3> QED
        BY <2>1, <3>1, FreshLocals DEF Ranges, NoId
  <2>3. Ids'
    <3>1. ASSUME NEW k \in Keys PROVE strays'[k] \subseteq 1..issued[k]
        BY <2>1 DEF Ranges, Ids, NoId
    <3> QED
        BY <3>1 DEF Ranges, Ids, NothingRecorded, NoId
  <2>4. Place'
      BY DEF Ranges, Place
  <2>5. Budget'
      BY <2>1 DEF Ranges, Place, Budget, NoId
  <2>6. NoNeedlessCopy'
      BY <2>1 DEF Ranges, Ids, Place, NoNeedlessCopy, NoId
  <2>7. Passed' /\ OkMeansSeeded'
      BY DEF Passed, OkMeansSeeded
  <2> QED
      BY <2>2, <2>3, <2>4, <2>5, <2>6, <2>7
<1> QED
    BY <1>1, <1>2, <1>3 DEF Ranges

LEMMA WipeKeeps == SeedInv /\ Wipe => SeedInv'
<1> SUFFICES ASSUME SeedInv, Wipe PROVE SeedInv'
    OBVIOUS
<1> USE SeedAssumption, TornAssumption, WhatIsRecorded, WhatIsRecordedNext
    DEF SeedInv, Wipe, Fault, service, script
<1>1. Ranges' /\ Ids'
    BY DEF Ranges, Ids
<1>2. Place'
    BY DEF Ranges, Place
<1>3. Budget'
    BY DEF Ranges, Budget
<1>4. NoNeedlessCopy' /\ Passed' /\ OkMeansSeeded'
    BY DEF NoNeedlessCopy, Passed, OkMeansSeeded
<1> QED
    BY <1>1, <1>2, <1>3, <1>4

\* One more order of key k in the service, which nobody asked for any more.
LEMMA TakeLateKeeps == ASSUME SeedInv, NEW k \in Keys, TakeLate(k) PROVE SeedInv'
<1> USE SeedAssumption, TornAssumption, WhatIsRecorded, WhatIsRecordedNext
    DEF SeedInv, TakeLate, Issue, service, script
<1>1. PICK id \in Nat : id = issued[k] + 1
    BY DEF Ranges
<1>2. /\ issued' = [issued EXCEPT ![k] = id]
      /\ orders' = [orders EXCEPT ![k] = @ \cup {id}]
      /\ strays' = [strays EXCEPT ![k] = @ \cup {id}]
      /\ adrift[k] > 0 /\ adrift' = [adrift EXCEPT ![k] = @ - 1]
    BY <1>1
<1>3. /\ issued'[k] = id /\ adrift'[k] = adrift[k] - 1
      /\ orders'[k] = orders[k] \cup {id} /\ strays'[k] = strays[k] \cup {id}
      /\ \A j \in Keys \ {k} : /\ issued'[j] = issued[j] /\ adrift'[j] = adrift[j]
                              /\ orders'[j] = orders[j] /\ strays'[j] = strays[j]
    BY <1>2 DEF Ranges
<1>4. Ranges'
  <2>1. adrift' \in [Keys -> Nat]
    <3>1. adrift[k] - 1 \in Nat
        BY <1>2 DEF Ranges
    <3> QED
        BY <1>2, <3>1 DEF Ranges
  <2>2. orders' \in [Keys -> SUBSET Nat] /\ strays' \in [Keys -> SUBSET Nat]
      BY <1>2 DEF Ranges
  <2>3. issued' \in [Keys -> Nat]
      BY <1>2 DEF Ranges
  <2> QED
      BY <2>1, <2>2, <2>3 DEF Ranges
<1>5. Ids'
  <2>1. 1..issued[k] \subseteq 1..id /\ id \in 1..id /\ \A n \in Nat : n <= issued[k] => n <= id
      BY <1>1 DEF Ranges
  <2>2. /\ orders'[k] \subseteq 1..issued'[k] /\ strays'[k] \subseteq 1..issued'[k]
        /\ receipts'[k] \subseteq orders'[k]
        /\ known'[k] <= issued'[k]
        /\ file' # Torn => file'[k] <= issued'[k]
        /\ k = key' => reply' <= issued'[k]
      BY <1>3, <2>1 DEF Ids, Ranges
  <2>3. ASSUME NEW j \in Keys, j # k
        PROVE  /\ orders'[j] \subseteq 1..issued'[j] /\ strays'[j] \subseteq 1..issued'[j]
               /\ receipts'[j] \subseteq orders'[j]
               /\ known'[j] <= issued'[j]
               /\ file' # Torn => file'[j] <= issued'[j]
               /\ j = key' => reply' <= issued'[j]
      BY <1>3, <2>3 DEF Ids
  <2> QED
      BY <2>2, <2>3 DEF Ids
<1>6. Place'
    BY <1>1, <1>3 DEF Ranges, Ids, Place, NoId
<1>7. Budget'
    BY <1>1, <1>3 DEF Ranges, Ids, Budget, NoId
<1>8. NoNeedlessCopy'
    BY <1>3 DEF Ranges, NoNeedlessCopy, NoId
<1>9. Passed' /\ OkMeansSeeded'
    BY <1>3 DEF Ranges, Passed, OkMeansSeeded, Seeded
<1> QED
    BY <1>4, <1>5, <1>6, <1>7, <1>8, <1>9

LEMMA LoseLateKeeps == ASSUME SeedInv, NEW k \in Keys, LoseLate(k) PROVE SeedInv'
<1> USE SeedAssumption, TornAssumption, WhatIsRecorded, WhatIsRecordedNext
    DEF SeedInv, LoseLate, service, script
<1>1. adrift' \in [Keys -> Nat] /\ \A j \in Keys : adrift'[j] <= adrift[j]
  <2>1. adrift[k] - 1 \in Nat
      BY DEF Ranges
  <2> QED
      BY <2>1 DEF Ranges
<1>2. Ranges' /\ Ids' /\ Place'
    BY <1>1 DEF Ranges, Ids, Place
<1>3. Budget'
    BY <1>1 DEF Ranges, Budget
<1>4. NoNeedlessCopy' /\ Passed' /\ OkMeansSeeded'
    BY DEF NoNeedlessCopy, Passed, OkMeansSeeded, Seeded
<1> QED
    BY <1>2, <1>3, <1>4

LEMMA SeedSteps == SeedInv /\ [SeedNext]_seeding => SeedInv'
<1>1. ASSUME SeedInv, UNCHANGED seeding PROVE SeedInv'
  <2> USE <1>1 DEF SeedInv, seeding, service, script
  <2>1. Ranges' /\ Ids' /\ Place'
      BY DEF Ranges, Ids, Place
  <2>2. Budget' /\ NoNeedlessCopy'
      BY DEF Budget, NoNeedlessCopy, Recorded
  <2>3. Passed' /\ OkMeansSeeded'
      BY DEF Passed, OkMeansSeeded, Seeded
  <2> QED
      BY <2>1, <2>2, <2>3
<1>2. ASSUME SeedInv, Progress PROVE SeedInv'
    BY <1>2, BeginKeeps, ExistsKeeps, MissingKeeps, PostKeeps, TakeKeeps, CreatedKeeps,
       TruncateKeeps, WriteKeeps, EnsureReceiptKeeps, ReceiptGoneKeeps, RemoveFileKeeps
    DEF Progress
<1> QED
    BY <1>1, <1>2, BeginUnreadableKeeps, GetFailsKeeps, PostFailsKeeps, KilledKeeps,
       WipeKeeps, TakeLateKeeps, LoseLateKeeps
    DEF SeedNext

LEMMA SeedInductive == SeedSpec => []SeedInv
BY SeedStarts, SeedSteps, PTL DEF SeedSpec

\* Of each key the service never holds, and never issues, more orders than one
\* and one for every failure, and the ids in the file are ids it issued.
THEOREM SeedTypeCorrect == SeedSpec => []SeedTypeOK
<1>1. SeedInv => SeedTypeOK
  <2> SUFFICES ASSUME SeedInv PROVE SeedTypeOK
      OBVIOUS
  <2> USE SeedAssumption DEF SeedInv
  <2>1. \A k \in Keys : /\ issued[k] \in 0..MaxFaults + 1
                        /\ adrift[k] \in 0..MaxFaults
      BY DEF Ranges, Budget
  <2>2. issued \in [Keys -> 0..MaxFaults + 1] /\ adrift \in [Keys -> 0..MaxFaults]
      BY <2>1 DEF Ranges
  <2>3. file # Torn => file \in [Keys -> 0..MaxFaults + 1]
      BY <2>1 DEF Ranges, Ids
  <2> QED
      BY <2>2, <2>3 DEF SeedTypeOK, Ranges, Ids, Place
<1> QED
    BY <1>1, SeedInductive, PTL

\* However often it is run, stopped and run again, and whatever fails or lands
\* late, the script makes no second copy of an order but by a failure between
\* the POST and the save.
THEOREM CopiesOnlyByFailure == SeedSpec => []NoNeedlessCopy
<1>1. SeedInv => NoNeedlessCopy
    BY DEF SeedInv
<1> QED
    BY <1>1, SeedInductive, PTL

\* Exit 0 tells the truth: every order is recorded, held and has its receipt.
THEOREM OkIsSeeded == SeedSpec => []OkMeansSeeded
<1>1. SeedInv => OkMeansSeeded
    BY DEF SeedInv
<1> QED
    BY <1>1, SeedInductive, PTL
=============================================================================
