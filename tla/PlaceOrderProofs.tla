-------------------------- MODULE PlaceOrderProofs --------------------------
(***************************************************************************)
(* Theorems about placing orders.  Of PlaceOrder, for every set of orders, *)
(* whichever of them are defective, and every pattern of crashes and       *)
(* cancellations; of OrderIntake, further down, for every order, of any    *)
(* number of lines with any quantities and amounts.                        *)
(***************************************************************************)
(* The provers have no induction over data.  What holds of the sums and    *)
(* running totals of an order is proved by Ascent: the indices at which it *)
(* holds are a set, and the least one outside of it would contradict the   *)
(* step before.  Recursion proves in the same way that the recursive       *)
(* functions of the model exist, so that their equations can be used.      *)
(***************************************************************************)
EXTENDS PlaceOrder, OrderIntake, FiniteSetTheorems, TLAPS

\* What the port's answer proves of the payments of an order.
AnswerProves(o) ==
    /\ answer[o] = "authorised" => charges[o] = 1
    /\ answer[o] \in {"idle", "declined", "refused"} => charges[o] = 0

\* Where a request stands follows from what the port has answered it.
StageProves(o) ==
    /\ stage[o] = "new" => answer[o] = "idle"
    /\ stage[o] \in {"saving", "committing"} =>
           answer[o] = "authorised" /\ o \notin Defective

\* What a caller was told is backed by the port or by the store.
ToldProves(o) ==
    /\ told[o] # "nothing" => stage[o] = "done"
    /\ told[o] = "placed" => o \in stored
    /\ told[o] = "declined" => answer[o] = "declined"
    /\ told[o] = "unavailable" => answer[o] \in {"unavailable", "refused"}

OrderInv(o) == AnswerProves(o) /\ StageProves(o) /\ ToldProves(o)

IInv == TypeOK /\ StoredIsPaid /\ \A o \in Orders : OrderInv(o)

USE DEF Underway

LEMMA InitInv == Init => IInv
<1> USE DEF Init, Port!Init
<1>1. Init => TypeOK
    BY DEF TypeOK, Port!TypeOK
<1>2. Init => StoredIsPaid
    BY DEF StoredIsPaid
<1>3. Init => \A o \in Orders : OrderInv(o)
    BY DEF OrderInv, AnswerProves, StageProves, ToldProves
<1> QED
    BY <1>1, <1>2, <1>3 DEF IInv

-----------------------------------------------------------------------------
(***************************************************************************)
(* One lemma per action, or per group of actions alike.                    *)
(***************************************************************************)
LEMMA AssemblyStep == ASSUME IInv, NEW o \in Orders, AssemblyFails(o), UNCHANGED up
                      PROVE  IInv'
<1> USE DEF IInv, AssemblyFails, Answer
<1>1. TypeOK'
    BY DEF TypeOK, Port!TypeOK
<1>2. StoredIsPaid'
    BY DEF StoredIsPaid
<1>3. \A p \in Orders : OrderInv(p)'
    BY DEF OrderInv, AnswerProves, StageProves, ToldProves, TypeOK
<1> QED
    BY <1>1, <1>2, <1>3

LEMMA AskStep == ASSUME IInv, NEW o \in Orders, AskForPayment(o), up, UNCHANGED up
                 PROVE  IInv'
<1> USE DEF IInv, AskForPayment, Answer, GoTo, Port!Ask, Port!TurnAway
<1>1. TypeOK'
    BY DEF TypeOK, Port!TypeOK, Port!NoProof
<1>2. StoredIsPaid'
    BY DEF StoredIsPaid, TypeOK, Port!TypeOK
<1>3. \A p \in Orders : OrderInv(p)'
    BY DEF OrderInv, AnswerProves, StageProves, ToldProves, TypeOK, Port!TypeOK
<1> QED
    BY <1>1, <1>2, <1>3

LEMMA PaidStep == ASSUME IInv, NEW o \in Orders, Paid(o), UNCHANGED up
                  PROVE  IInv'
<1> USE DEF IInv, Paid, Answer, GoTo, Port!Authorise, Port!End
<1>1. TypeOK'
    BY DEF TypeOK, Port!TypeOK
<1>2. StoredIsPaid'
    BY DEF StoredIsPaid, TypeOK, Port!TypeOK
<1>3. \A p \in Orders : OrderInv(p)'
    BY DEF OrderInv, AnswerProves, StageProves, ToldProves, TypeOK, Port!TypeOK
<1> QED
    BY <1>1, <1>2, <1>3

LEMMA NotPaidStep == ASSUME IInv, NEW o \in Orders, NotPaid(o), UNCHANGED up
                     PROVE  IInv'
<1> USE DEF IInv, NotPaid, Answer, Port!Decline, Port!End
<1>1. TypeOK'
    BY DEF TypeOK, Port!TypeOK, Port!NoProof
<1>2. StoredIsPaid'
    BY DEF StoredIsPaid, TypeOK, Port!TypeOK
<1>3. \A p \in Orders : OrderInv(p)'
    BY DEF OrderInv, AnswerProves, StageProves, ToldProves, TypeOK, Port!TypeOK
<1> QED
    BY <1>1, <1>2, <1>3

LEMMA SaveStep == ASSUME IInv, NEW o \in Orders, UNCHANGED up,
                         SendCommit(o) \/ Saved(o) \/ SaveFails(o)
                  PROVE  IInv'
<1> USE DEF IInv, SendCommit, Saved, SaveFails, Answer, GoTo
<1>1. TypeOK'
    BY DEF TypeOK, Port!TypeOK
<1>2. StoredIsPaid'
    BY DEF StoredIsPaid, OrderInv, AnswerProves, StageProves
<1>3. \A p \in Orders : OrderInv(p)'
    BY DEF OrderInv, AnswerProves, StageProves, ToldProves, TypeOK, Port!TypeOK
<1> QED
    BY <1>1, <1>2, <1>3

\* A cancellation and a crash do the same to the requests they end.
LEMMA EndedStep ==
    ASSUME IInv,
           UNCHANGED <<charges, committing, stored, told>>,
           up' \in BOOLEAN,
           stage' \in [Orders -> {"new", "done"} \cup Underway],
           \A o \in Orders : stage'[o] \in Underway => up',
           answer' \in [Orders -> {"idle", "asked", "authorised", "declined",
                                   "refused"} \cup Port!NoProof],
           \A o \in Orders :
               \/ stage'[o] = stage[o] /\ answer'[o] = answer[o]
               \/ /\ stage'[o] = "done"
                  /\ stage[o] # "new"
                  /\ answer'[o] = IF answer[o] = "asked" THEN "cancelled"
                                                         ELSE answer[o]
    PROVE  IInv'
<1> USE DEF IInv
<1>1. TypeOK'
    BY DEF TypeOK, Port!TypeOK
<1>2. StoredIsPaid'
    BY DEF StoredIsPaid, TypeOK
<1>3. ASSUME NEW o \in Orders PROVE OrderInv(o)'
    BY DEF OrderInv, AnswerProves, StageProves, ToldProves
<1> QED
    BY <1>1, <1>2, <1>3

LEMMA CancelStep == ASSUME IInv, NEW o \in Orders, Cancel(o), UNCHANGED up
                    PROVE  IInv'
<1>1. up' \in BOOLEAN /\ UNCHANGED <<charges, committing, stored, told>>
    BY DEF Cancel, GoTo, IInv, TypeOK
<1>2. stage' \in [Orders -> {"new", "done"} \cup Underway]
    BY DEF Cancel, GoTo, IInv, TypeOK
<1>3. ASSUME NEW p \in Orders, stage'[p] \in Underway PROVE up'
  <2>1. stage[p] \in Underway
      BY <1>3 DEF Cancel, GoTo, IInv, TypeOK
  <2>2. up
      BY <2>1 DEF IInv, TypeOK
  <2> QED
      BY <2>2
<1>4. answer' \in [Orders -> {"idle", "asked", "authorised", "declined",
                              "refused"} \cup Port!NoProof]
    BY DEF Cancel, IInv, TypeOK, Port!TypeOK, Port!NoProof
<1>5. ASSUME NEW p \in Orders
      PROVE  \/ stage'[p] = stage[p] /\ answer'[p] = answer[p]
             \/ /\ stage'[p] = "done"
                /\ stage[p] # "new"
                /\ answer'[p] = IF answer[p] = "asked" THEN "cancelled"
                                                       ELSE answer[p]
    BY DEF Cancel, GoTo, IInv, TypeOK, Port!TypeOK
<1> QED
    BY <1>1, <1>2, <1>3, <1>4, <1>5, EndedStep

LEMMA CrashStep == ASSUME IInv, Crash PROVE IInv'
<1>1. up' \in BOOLEAN /\ UNCHANGED <<charges, committing, stored, told>>
    BY DEF Crash
<1>2. stage' \in [Orders -> {"new", "done"} \cup Underway]
    BY DEF Crash
<1>3. \A p \in Orders : stage'[p] \in Underway => up'
    BY DEF Crash, IInv, TypeOK
<1>4. answer' \in [Orders -> {"idle", "asked", "authorised", "declined",
                              "refused"} \cup Port!NoProof]
    BY DEF Crash, IInv, TypeOK, Port!TypeOK, Port!NoProof
<1>5. ASSUME NEW p \in Orders
      PROVE  \/ stage'[p] = stage[p] /\ answer'[p] = answer[p]
             \/ /\ stage'[p] = "done"
                /\ stage[p] # "new"
                /\ answer'[p] = IF answer[p] = "asked" THEN "cancelled"
                                                       ELSE answer[p]
    BY DEF Crash, IInv, OrderInv, StageProves
<1> QED
    BY <1>1, <1>2, <1>3, <1>4, <1>5, EndedStep

LEMMA OutsideStep ==
    ASSUME IInv, NEW o \in Orders, Charge(o) \/ Commit(o) \/ LoseCommit(o)
    PROVE  IInv'
<1> USE DEF IInv
<1>1. CASE Charge(o)
  <2>1. TypeOK'
      BY <1>1 DEF Charge, Port!Charge, TypeOK, Port!TypeOK
  <2>2. StoredIsPaid'
      BY <1>1 DEF Charge, Port!Charge, StoredIsPaid, TypeOK, Port!TypeOK
  <2>3. \A p \in Orders : OrderInv(p)'
      BY <1>1 DEF Charge, Port!Charge, Port!NoProof, OrderInv, AnswerProves,
                  StageProves, ToldProves, TypeOK, Port!TypeOK
  <2> QED
      BY <2>1, <2>2, <2>3
<1>2. CASE Commit(o) \/ LoseCommit(o)
  <2>1. TypeOK'
      BY <1>2 DEF Commit, LoseCommit, TypeOK, Port!TypeOK
  <2>2. StoredIsPaid'
      BY <1>2 DEF Commit, LoseCommit, StoredIsPaid
  <2>3. \A p \in Orders : OrderInv(p)'
      BY <1>2 DEF Commit, LoseCommit, OrderInv, AnswerProves, StageProves, ToldProves
  <2> QED
      BY <2>1, <2>2, <2>3
<1> QED
    BY <1>1, <1>2

\* A step that only starts the process anew, or changes nothing at all.
LEMMA IdleStep ==
    ASSUME IInv, UNCHANGED <<answer, charges, stage, committing, stored, told>>,
           up' \in BOOLEAN, up => up'
    PROVE  IInv'
<1> USE DEF IInv
<1>1. TypeOK'
    BY DEF TypeOK, Port!TypeOK
<1>2. StoredIsPaid'
    BY DEF StoredIsPaid
<1>3. ASSUME NEW o \in Orders PROVE OrderInv(o)'
  <2>1. OrderInv(o)
      OBVIOUS
  <2>2. AnswerProves(o)'
      BY <2>1 DEF OrderInv, AnswerProves
  <2>3. StageProves(o)'
      BY <2>1 DEF OrderInv, StageProves
  <2>4. ToldProves(o)'
      BY <2>1 DEF OrderInv, ToldProves
  <2> QED
      BY <2>2, <2>3, <2>4 DEF OrderInv
<1> QED
    BY <1>1, <1>2, <1>3

LEMMA InvStep == IInv /\ [Next]_vars => IInv'
<1> SUFFICES ASSUME IInv, [Next]_vars PROVE IInv'
    OBVIOUS
<1>1. CASE UNCHANGED vars
  <2>1. UNCHANGED <<answer, charges, stage, committing, stored, told>>
      BY <1>1 DEF vars
  <2>2. up' \in BOOLEAN /\ (up => up')
      BY <1>1 DEF vars, IInv, TypeOK
  <2> QED
      BY <2>1, <2>2, IdleStep
<1>2. CASE Restart
    BY <1>2, IdleStep DEF Restart
<1>3. CASE Crash
    BY <1>3, CrashStep
<1>4. ASSUME NEW o \in Orders, Request(o) PROVE IInv'
    BY <1>4, AssemblyStep, AskStep, PaidStep, NotPaidStep, SaveStep, CancelStep
    DEF Request
<1>5. ASSUME NEW o \in Orders, Charge(o) \/ Commit(o) \/ LoseCommit(o)
      PROVE  IInv'
    BY <1>5, OutsideStep
<1> QED
    BY <1>1, <1>2, <1>3, <1>4, <1>5 DEF Next

\* Type correctness; in particular a request awaits the gateway exactly while
\* the port is asked, and none is under way in a process that is down.
THEOREM TypeCorrect == Spec => []TypeOK
BY InitInv, InvStep, PTL DEF Spec, IInv

\* Nothing is stored, and no COMMIT is under way, that was not paid for or that
\* did not assemble.
THEOREM OnlyPaidOrdersAreStored == Spec => []StoredIsPaid
BY InitInv, InvStep, PTL DEF Spec, IInv

-----------------------------------------------------------------------------
(***************************************************************************)
(* The refinement of the ledger.                                           *)
(***************************************************************************)

\* A step that answers one caller, with the answer backed.
LEMMA AnswerTells ==
    ASSUME IInv, NEW o \in Orders, NEW what \in Ledger!Answers, Answer(o, what),
           UNCHANGED <<charges, stored>>, stage[o] # "done",
           what = "placed" => o \in stored,
           what = "declined" => charges[o] = 0,
           what \in {"declined", "unavailable"} => answer[o] # "authorised"
    PROVE  Ledger!Next
<1>1. told[o] = "nothing"
    BY DEF IInv, OrderInv, ToldProves
<1>2. what \in {"declined", "unavailable"} => o \notin stored
    BY DEF IInv, StoredIsPaid
<1>3. Ledger!Tell(o, what)
    BY <1>1, <1>2 DEF Ledger!Tell, Answer
<1> QED
    BY <1>3 DEF Ledger!Next

LEMMA LedgerStep == IInv /\ [Next]_vars => [Ledger!Next]_Ledger!vars
<1> SUFFICES ASSUME IInv, [Next]_vars
             PROVE  Ledger!Next \/ UNCHANGED <<charges, stored, told>>
    BY DEF Ledger!vars
<1> USE DEF Ledger!Answers
<1>1. CASE UNCHANGED vars \/ Restart \/ Crash
    BY <1>1 DEF vars, Restart, Crash
<1>2. ASSUME NEW o \in Orders, AssemblyFails(o) PROVE Ledger!Next
    BY <1>2, AnswerTells DEF AssemblyFails
<1>3. ASSUME NEW o \in Orders, AskForPayment(o)
      PROVE  Ledger!Next \/ UNCHANGED <<charges, stored, told>>
  <2>1. CASE Port!Ask(o) /\ GoTo(o, "paying")
      BY <1>3, <2>1 DEF AskForPayment, Port!Ask, GoTo
  <2>2. CASE Port!TurnAway(o) /\ Answer(o, "unavailable")
      BY <1>3, <2>2, AnswerTells DEF AskForPayment, Port!TurnAway
  <2> QED
      BY <1>3, <2>1, <2>2 DEF AskForPayment
<1>4. ASSUME NEW o \in Orders, Paid(o)
      PROVE  Ledger!Next \/ UNCHANGED <<charges, stored, told>>
  <2>1. CASE GoTo(o, "saving")
      BY <1>4, <2>1 DEF Paid, GoTo, Port!Authorise, Port!End
  <2>2. CASE Answer(o, "server_error")
      BY <1>4, <2>2, AnswerTells DEF Paid, Port!Authorise, Port!End
  <2>3. GoTo(o, "saving") \/ Answer(o, "server_error")
      BY <1>4 DEF Paid
  <2> QED
      BY <2>1, <2>2, <2>3
<1>5. ASSUME NEW o \in Orders, NotPaid(o) PROVE Ledger!Next
    BY <1>5, AnswerTells DEF NotPaid, Port!Decline, Port!End
<1>6. ASSUME NEW o \in Orders, SendCommit(o) \/ Cancel(o)
      PROVE  UNCHANGED <<charges, stored, told>>
    BY <1>6 DEF SendCommit, Cancel, GoTo
<1>7. ASSUME NEW o \in Orders, Saved(o) \/ SaveFails(o) PROVE Ledger!Next
    BY <1>7, AnswerTells DEF Saved, SaveFails
<1>8. ASSUME NEW o \in Orders, Charge(o) PROVE Ledger!Next
  <2>1. told[o] # "declined"
      BY <1>8 DEF Charge, Port!Charge, Port!NoProof, IInv, OrderInv, ToldProves
  <2> QED
      BY <1>8, <2>1 DEF Charge, Port!Charge, Ledger!Pay, Ledger!Next
<1>9. ASSUME NEW o \in Orders, Commit(o) PROVE Ledger!Next
  <2>1. charges[o] = 1 /\ answer[o] = "authorised"
      BY <1>9 DEF Commit, IInv, StoredIsPaid
  <2>2. told[o] \notin {"declined", "unavailable"}
      BY <2>1 DEF IInv, OrderInv, ToldProves
  <2> QED
      BY <1>9, <2>1, <2>2 DEF Commit, Ledger!Store, Ledger!Next
<1>10. ASSUME NEW o \in Orders, LoseCommit(o)
       PROVE  UNCHANGED <<charges, stored, told>>
    BY <1>10 DEF LoseCommit
<1> QED
    BY <1>1, <1>2, <1>3, <1>4, <1>5, <1>6, <1>7, <1>8, <1>9, <1>10
    DEF Next, Request

\* Placing an order keeps every promise of the ledger: nothing a caller is told
\* is made false later, by a late COMMIT, a late payment or a crash.
THEOREM PlaceOrderImplementsLedger == Spec => ImplementsLedger
<1>1. Init => Ledger!Init
    BY DEF Init, Port!Init, Ledger!Init
<1>2. Spec => Ledger!Spec
    BY <1>1, InitInv, InvStep, LedgerStep, PTL DEF Spec, Ledger!Spec
<1> QED
    BY <1>2 DEF ImplementsLedger

-----------------------------------------------------------------------------
(***************************************************************************)
(* Induction over an interval of numbers.                                  *)
(***************************************************************************)
\* A set of numbers with a least natural number in it, if it has any.
LEMMA LeastNatural ==
    ASSUME NEW T, T \subseteq Nat, T # {}
    PROVE  \E x \in T : \A y \in T : x <= y
<1> DEFINE Below == {0..x : x \in T}
<1>1. Below \subseteq FiniteSubsetsOf(Nat) /\ Below # {}
  <2>1. ASSUME NEW x \in T PROVE 0..x \in FiniteSubsetsOf(Nat)
    <3>1. IsFiniteSet(0..x)
        BY FS_Interval
    <3>2. 0..x \in SUBSET Nat
        OBVIOUS
    <3> QED
        BY <3>1, <3>2 DEF FiniteSubsetsOf
  <2> QED
      BY <2>1
<1>2. PICK low \in Below : \A s \in Below : <<s, low>> \notin StrictSubsetOrdering(Nat)
    BY <1>1, FS_StrictSubsetOrderingWellFounded, WFMin
<1>3. PICK x \in T : low = 0..x
    OBVIOUS
<1>4. ASSUME NEW y \in T, y < x PROVE FALSE
  <2>1. 0..y \subseteq 0..x /\ 0..y # 0..x
    <3>1. x \in 0..x /\ x \notin 0..y
        BY <1>4
    <3> QED
        BY <1>4, <3>1
  <2>2. <<0..y, 0..x>> \in StrictSubsetOrdering(Nat)
      BY <2>1 DEF StrictSubsetOrdering
  <2> QED
      BY <1>2, <1>3, <2>2
<1> QED
    BY <1>4

\* What holds at the first index, and at each next one, holds at all.
LEMMA Ascent ==
    ASSUME NEW first \in Int, NEW last \in Int, NEW S,
           first <= last => first \in S,
           \A k \in first..(last - 1) : k \in S => k + 1 \in S
    PROVE  \A k \in first..last : k \in S
<1> DEFINE Left == {n \in Nat : first + n <= last /\ first + n \notin S}
<1>1. ASSUME Left # {} PROVE FALSE
  <2>1. PICK x \in Left : \A y \in Left : x <= y
      BY <1>1, LeastNatural
  <2>2. x # 0
      BY <2>1
  <2>3. x - 1 \in Nat /\ x - 1 \notin Left
      BY <2>1, <2>2
  <2>4. first + (x - 1) \in S
      BY <2>1, <2>3
  <2>5. first + (x - 1) \in first..(last - 1)
      BY <2>1, <2>3
  <2>6. (first + (x - 1)) + 1 \in S
      BY <2>4, <2>5
  <2>7. (first + (x - 1)) + 1 = first + x
      BY <2>1
  <2> QED
      BY <2>1, <2>6, <2>7
<1> SUFFICES ASSUME NEW k \in first..last, k \notin S PROVE FALSE
    OBVIOUS
<1>2. k - first \in Left
    BY DEF Left
<1> QED
    BY <1>1, <1>2

\* A value per index, each computed from the one before: the function exists.
IsRun(f, first, last, V, base, step) ==
    /\ f \in [first..last -> V]
    /\ f[first] = base
    /\ \A k \in (first + 1)..last : f[k] = step[k][f[k - 1]]

LEMMA Recursion ==
    ASSUME NEW first \in Int, NEW last \in Int, first <= last, NEW V, NEW base \in V,
           NEW step \in [(first + 1)..last -> [V -> V]]
    PROVE  \E f : IsRun(f, first, last, V, base, step)
<1> DEFINE S == {n \in first..last : \E f : IsRun(f, first, n, V, base, step)}
<1>1. first \in S
  <2> DEFINE f == [k \in first..first |-> base]
  <2>1. f \in [first..first -> V] /\ f[first] = base
      OBVIOUS
  <2>2. (first + 1)..first = {}
      OBVIOUS
  <2>3. IsRun(f, first, first, V, base, step)
      BY <2>1, <2>2 DEF IsRun
  <2> HIDE DEF f
  <2> QED
      BY <2>3
<1>2. ASSUME NEW n \in first..(last - 1), n \in S PROVE n + 1 \in S
  <2>1. PICK f : IsRun(f, first, n, V, base, step)
      BY <1>2
  <2> DEFINE g == [k \in first..(n + 1) |-> IF k = n + 1 THEN step[k][f[n]] ELSE f[k]]
  <2>2. f[n] \in V
      BY <2>1 DEF IsRun
  <2>3. step[n + 1][f[n]] \in V
    <3>1. n + 1 \in (first + 1)..last
        OBVIOUS
    <3> QED
        BY <2>2, <3>1
  <2>4. g \in [first..(n + 1) -> V]
    <3>1. ASSUME NEW k \in first..(n + 1), k # n + 1 PROVE f[k] \in V
        BY <2>1, <3>1 DEF IsRun
    <3> QED
        BY <2>3, <3>1
  <2>5. first \in first..(n + 1) /\ first # n + 1
      OBVIOUS
  <2>6. \A k \in first..(n + 1) : g[k] = IF k = n + 1 THEN step[k][f[n]] ELSE f[k]
      OBVIOUS
  <2>7. g[first] = base
      BY <2>1, <2>5, <2>6 DEF IsRun
  <2>8. ASSUME NEW k \in (first + 1)..(n + 1) PROVE g[k] = step[k][g[k - 1]]
    <3>1. k \in first..(n + 1) /\ k - 1 \in first..(n + 1) /\ k - 1 # n + 1
        OBVIOUS
    <3>2. g[k - 1] = f[k - 1]
        BY <2>6, <3>1
    <3>3. CASE k = n + 1
      <4>1. k - 1 = n
          BY <3>3
      <4> QED
          BY <2>6, <3>1, <3>2, <3>3, <4>1
    <3>4. CASE k # n + 1
      <4>1. k \in (first + 1)..n
          BY <3>4
      <4>2. f[k] = step[k][f[k - 1]]
          BY <2>1, <4>1 DEF IsRun
      <4> QED
          BY <2>6, <3>1, <3>2, <3>4, <4>2
    <3> QED
        BY <3>3, <3>4
  <2>9. IsRun(g, first, n + 1, V, base, step)
      BY <2>4, <2>7, <2>8 DEF IsRun
  <2> HIDE DEF g
  <2> QED
      BY <2>9
<1>3. last \in S
  <2> HIDE DEF S
  <2>1. \A k \in first..last : k \in S
      BY <1>1, <1>2, Ascent
  <2> QED
      BY <2>1
<1> QED
    BY <1>3

-----------------------------------------------------------------------------
(***************************************************************************)
(* The recursive functions of the intake, as equations.                    *)
(***************************************************************************)
LEMMA LineTypes ==
    ASSUME NEW items \in Seq(Line)
    PROVE  /\ Len(items) \in Nat
           /\ DOMAIN items = 1..Len(items)
           /\ \A i \in 1..Len(items) : items[i] \in Line
           /\ items # <<>> <=> Len(items) >= 1
OBVIOUS

LEMMA CountType ==
    ASSUME NEW q \in Quantity
    PROVE  Count(q) \in Int
BY DEF Quantity, Count

LEMMA PriceType ==
    ASSUME NEW line \in Line
    PROVE  Price(line) \in Int
<1>1. line.quantity \in Quantity /\ line.unit_amount \in Int
    BY DEF Line
<1>2. Count(line.quantity) \in Int
    BY <1>1, CountType
<1>3. \A a, b \in Int : a * b \in Int
    OBVIOUS
<1> QED
    BY <1>1, <1>2, <1>3 DEF Price

LEMMA SumsEquation ==
    ASSUME NEW items \in Seq(Line)
    PROVE  /\ Sums(items)[0] = 0
           /\ \A n \in 1..Len(items) : Sums(items)[n] = Sums(items)[n - 1] + Price(items[n])
<1> DEFINE last == Len(items)
           step == [k \in 1..last |-> [v \in Int |-> v + Price(items[k])]]
           Equation(f) == [n \in 0..last |-> IF n = 0 THEN 0 ELSE f[n - 1] + Price(items[n])]
<1>1. \A k \in 1..last : Price(items[k]) \in Int
    BY LineTypes, PriceType
<1>2. last \in Nat
    BY LineTypes
<1> HIDE DEF last
<1>3. step \in [1..last -> [Int -> Int]]
    BY <1>1
<1>4. PICK f : IsRun(f, 0, last, Int, 0, step)
  <2> HIDE DEF step
  <2>1. 0 + 1 = 1 /\ 0 \in Int /\ 0 <= last /\ last \in Int
      BY <1>2
  <2>2. step \in [(0 + 1)..last -> [Int -> Int]]
      BY <1>3, <2>1
  <2> QED
      BY <2>1, <2>2, Recursion
<1>5. f \in [0..last -> Int] /\ f[0] = 0
    BY <1>4 DEF IsRun
<1>6. ASSUME NEW k \in 1..last PROVE f[k] = f[k - 1] + Price(items[k])
  <2>1. k - 1 \in 0..last
      BY <1>2
  <2>2. f[k] = step[k][f[k - 1]]
      BY <1>4, 0 + 1 = 1 DEF IsRun
  <2> QED
      BY <1>5, <2>1, <2>2
<1>7. f = Equation(f)
  <2>1. \A n \in 0..last : n # 0 => n \in 1..last
      BY <1>2
  <2> QED
      BY <1>5, <1>6, <2>1
<1>8. Sums(items) = Equation(Sums(items))
    BY <1>7, Zenon DEF Sums, last
<1>9. \A n \in 0..last : Sums(items)[n] = IF n = 0 THEN 0 ELSE Sums(items)[n - 1] + Price(items[n])
    BY <1>8, Zenon
<1> HIDE DEF Equation
<1> QED
    BY <1>2, <1>9 DEF last

\* The values of Money, with the one that stands for its refusal.
Monies == [amount : Int, currency : Currency \cup {"none"}]

LEMMA MoneyTypes ==
    /\ Refused \in Monies
    /\ \A a \in Int : \A c \in Currency : Money(a, c) \in Monies
    /\ \A x, y \in Monies : Plus(x, y) \in Monies
<1> USE DEF Monies
<1>1. Refused \in Monies
    BY DEF Refused
<1>2. ASSUME NEW a \in Int, NEW c PROVE Money(a, c) \in Monies
    BY <1>1, <1>2 DEF Money, CurrencyFits, Currency
<1>3. ASSUME NEW x \in Monies, NEW y \in Monies PROVE Plus(x, y) \in Monies
  <2>1. x.amount + y.amount \in Int
      OBVIOUS
  <2> QED
      BY <1>1, <1>2, <2>1 DEF Plus
<1> QED
    BY <1>1, <1>2, <1>3

LEMMA SubtotalType ==
    ASSUME NEW line \in Line
    PROVE  Subtotal(line) \in Monies
<1>1. line.quantity \in Quantity /\ line.unit_amount \in Int /\ line.currency \in Currency
    BY DEF Line
<1>2. Count(line.quantity) \in Int
    BY <1>1, CountType
<1>3. /\ UnitPrice(line) \in Monies
      /\ UnitPrice(line) # Refused => UnitPrice(line).currency \in Currency
    BY <1>1, MoneyTypes DEF UnitPrice, Money, Refused
<1>4. UnitPrice(line).amount * Count(line.quantity) \in Int
  <2>1. \A a, b \in Int : a * b \in Int
      OBVIOUS
  <2>2. UnitPrice(line).amount \in Int
      BY <1>3 DEF Monies
  <2> QED
      BY <1>2, <2>1, <2>2
<1> QED
    BY <1>3, <1>4, MoneyTypes DEF Subtotal, Times

LEMMA TotalsEquation ==
    ASSUME NEW items \in Seq(Line), items # <<>>
    PROVE  /\ Totals(items)[1] = Subtotal(items[1])
           /\ \A n \in 2..Len(items) :
                  Totals(items)[n] = Plus(Totals(items)[n - 1], Subtotal(items[n]))
<1> DEFINE last == Len(items)
           step == [k \in 2..last |-> [v \in Monies |-> Plus(v, Subtotal(items[k]))]]
           Equation(f) == [n \in 1..last |-> IF n = 1 THEN Subtotal(items[n])
                                             ELSE Plus(f[n - 1], Subtotal(items[n]))]
<1>1. \A k \in 1..last : Subtotal(items[k]) \in Monies
    BY LineTypes, SubtotalType
<1>2. last \in Nat /\ 1 <= last /\ 1 \in 1..last
    BY LineTypes
<1> HIDE DEF last
<1>3. step \in [2..last -> [Monies -> Monies]]
  <2>1. \A k \in 2..last : k \in 1..last
      BY <1>2
  <2> QED
      BY <1>1, <2>1, MoneyTypes
<1>4. PICK f : IsRun(f, 1, last, Monies, Subtotal(items[1]), step)
  <2> HIDE DEF step
  <2>1. 1 + 1 = 2 /\ 1 \in Int /\ 1 <= last /\ last \in Int
      BY <1>2
  <2>2. step \in [(1 + 1)..last -> [Monies -> Monies]]
      BY <1>3, <2>1
  <2>3. Subtotal(items[1]) \in Monies
      BY <1>1, <1>2
  <2> QED
      BY <2>1, <2>2, <2>3, Recursion
<1>5. f \in [1..last -> Monies] /\ f[1] = Subtotal(items[1])
    BY <1>4 DEF IsRun
<1>6. ASSUME NEW k \in 2..last PROVE f[k] = Plus(f[k - 1], Subtotal(items[k]))
  <2>1. k - 1 \in 1..last
      BY <1>2
  <2>2. f[k] = step[k][f[k - 1]]
      BY <1>4, 1 + 1 = 2 DEF IsRun
  <2> QED
      BY <1>5, <2>1, <2>2
<1>7. f = Equation(f)
  <2>1. \A n \in 1..last : n # 1 => n \in 2..last
      BY <1>2
  <2> QED
      BY <1>5, <1>6, <2>1
<1>8. Totals(items) = Equation(Totals(items))
    BY <1>7, Zenon DEF Totals, last
<1>9. \A n \in 1..last : Totals(items)[n] = IF n = 1 THEN Subtotal(items[n])
                                            ELSE Plus(Totals(items)[n - 1], Subtotal(items[n]))
    BY <1>8, Zenon
<1> HIDE DEF Equation
<1>10. \A n \in 2..last : n \in 1..last /\ n # 1
    BY <1>2
<1> QED
    BY <1>2, <1>9, <1>10 DEF last

-----------------------------------------------------------------------------
(***************************************************************************)
(* What the validators accept, the domain can be built from.               *)
(***************************************************************************)
LEMMA FittingPrice ==
    ASSUME NEW line \in Line, LineFits(line)
    PROVE  /\ Price(line) \in Nat
           /\ Price(line) % Cent = 0
<1>1. line.quantity \in Quantity /\ line.unit_amount \in Int
    BY DEF Line
<1>2. PICK count \in Int : count = Count(line.quantity) /\ count >= 1
  <2>1. Count(line.quantity) \in Int
      BY <1>1, CountType
  <2> QED
      BY <2>1, IntakeAssumption DEF LineFits, QuantityFits
<1>3. PICK tens \in Int : line.unit_amount = 10 * tens /\ tens >= 0
  <2>1. line.unit_amount % 10 = 0 /\ line.unit_amount >= 0
      BY <1>1, IntakeAssumption DEF LineFits, MoneyFits, Cent
  <2>2. line.unit_amount = 10 * (line.unit_amount \div 10)
      BY <1>1, <2>1
  <2> QED
      BY <1>1, <2>1, <2>2
<1>4. PICK product \in Int : product = count * tens /\ product >= 0
  <2>1. \A a, b \in Int : a >= 0 /\ b >= 0 => a * b \in Int /\ a * b >= 0
      OBVIOUS
  <2>2. count >= 0
      BY <1>2
  <2> QED
      BY <1>2, <1>3, <2>1, <2>2
<1>5. Price(line) = 10 * product
  <2>1. Price(line) = count * (10 * tens)
      BY <1>2, <1>3 DEF Price
  <2>2. \A a, b \in Int : a * (10 * b) = 10 * (a * b)
      OBVIOUS
  <2> QED
      BY <1>2, <1>3, <1>4, <2>1, <2>2
<1>6. 10 * product \in Nat /\ (10 * product) % 10 = 0
    BY <1>4
<1> QED
    BY <1>5, <1>6 DEF Cent

\* The sums only grow, so that none of them passes the last.
LEMMA FittingSums ==
    ASSUME NEW items \in Seq(Line), \A i \in DOMAIN items : LineFits(items[i])
    PROVE  \A n \in 0..Len(items) : /\ Sums(items)[n] \in Nat
                                    /\ Sums(items)[n] % Cent = 0
                                    /\ Sums(items)[n] <= SumOf(items)
<1> DEFINE last == Len(items)
           sum == Sums(items)
           S == {n \in 0..last : /\ sum[n] \in Nat
                                 /\ sum[n] % Cent = 0
                                 /\ \A m \in 0..n : sum[m] \in Nat /\ sum[m] <= sum[n]}
<1>1. last \in Nat /\ \A n \in 1..last : Price(items[n]) \in Nat /\ Price(items[n]) % Cent = 0
    BY LineTypes, FittingPrice
<1>2. sum[0] = 0 /\ \A n \in 1..last : sum[n] = sum[n - 1] + Price(items[n])
    BY SumsEquation
<1> HIDE DEF last, sum
<1>3. 0 \in S
    BY <1>1, <1>2 DEF Cent
<1>4. ASSUME NEW n \in 0..(last - 1), n \in S PROVE n + 1 \in S
  <2>1. n + 1 \in 1..last /\ n + 1 \in 0..last /\ (n + 1) - 1 = n
      BY <1>1
  <2>2. PICK p \in Nat : p % Cent = 0 /\ sum[n + 1] = sum[n] + p
      BY <1>1, <1>2, <2>1
  <2>3. /\ sum[n] \in Nat /\ sum[n] % Cent = 0
        /\ \A m \in 0..n : sum[m] \in Nat /\ sum[m] <= sum[n]
      BY <1>4
  <2>4. sum[n + 1] \in Nat /\ sum[n + 1] % Cent = 0 /\ sum[n] <= sum[n + 1]
    <3>1. \A a, b \in Nat : /\ a + b \in Nat /\ a <= a + b
                            /\ a % 10 = 0 /\ b % 10 = 0 => (a + b) % 10 = 0
        OBVIOUS
    <3> QED
        BY <2>2, <2>3, <3>1 DEF Cent
  <2>5. ASSUME NEW m \in 0..(n + 1) PROVE sum[m] \in Nat /\ sum[m] <= sum[n + 1]
    <3>1. CASE m = n + 1
        BY <2>4, <3>1
    <3>2. CASE m # n + 1
      <4>1. m \in 0..n
          BY <3>2
      <4>2. sum[m] \in Nat /\ sum[m] <= sum[n]
          BY <2>3, <4>1
      <4> QED
          BY <2>3, <2>4, <4>2
    <3> QED
        BY <3>1, <3>2
  <2> QED
      BY <2>1, <2>4, <2>5
<1>5. \A n \in 0..last : n \in S
  <2> HIDE DEF S
  <2>1. 0 \in Int /\ last \in Int
      BY <1>1
  <2> QED
      BY <1>3, <1>4, <2>1, Ascent
<1>6. last \in S
    BY <1>1, <1>5
<1>7. SumOf(items) = sum[last]
    BY DEF SumOf, sum, last
<1> QED
    BY <1>5, <1>6, <1>7 DEF sum, last

LEMMA FittingUnitPrice ==
    ASSUME NEW line \in Line, LineFits(line)
    PROVE  /\ UnitPrice(line) = [amount |-> line.unit_amount, currency |-> line.currency]
           /\ UnitPrice(line) # Refused
           /\ OrderLine(line)
<1>1. UnitPrice(line) = [amount |-> line.unit_amount, currency |-> line.currency]
    BY DEF UnitPrice, Money, LineFits
<1>2. line.currency # "none"
    BY DEF LineFits, CurrencyFits
<1>3. UnitPrice(line) # Refused
    BY <1>1, <1>2 DEF Refused
<1> QED
    BY <1>1, <1>3 DEF OrderLine, LineFits

LEMMA FittingSubtotal ==
    ASSUME NEW line \in Line, LineFits(line), Price(line) <= NumericMax * Cent
    PROVE  Subtotal(line) = [amount |-> Price(line), currency |-> line.currency]
<1>1. line.quantity \in Quantity /\ line.unit_amount \in Int
    BY DEF Line
<1>2. line.unit_amount * Count(line.quantity) = Price(line)
  <2>1. \A a, b \in Int : a * b = b * a
      OBVIOUS
  <2> QED
      BY <1>1, <2>1, CountType DEF Price
<1>3. Subtotal(line) = Money(Price(line), line.currency)
    BY <1>2, FittingUnitPrice DEF Subtotal, Times
<1>4. MoneyFits(Price(line))
  <2>1. NumericMax * Cent \in Nat
      BY IntakeAssumption DEF Cent
  <2> QED
      BY <2>1, FittingPrice DEF MoneyFits
<1> QED
    BY <1>3, <1>4 DEF Money, LineFits

LEMMA SameCurrency ==
    ASSUME NEW a, NEW b, NEW c, CurrencyFits(c)
    PROVE  Plus([amount |-> a, currency |-> c], [amount |-> b, currency |-> c]) =
               Money(a + b, c)
<1>1. c # "none"
    BY DEF CurrencyFits
<1>2. \A x : [amount |-> x, currency |-> c] # Refused
  <2>1. \A x : [amount |-> x, currency |-> c].currency = c
      OBVIOUS
  <2>2. Refused.currency = "none"
      BY DEF Refused
  <2> QED
      BY <1>1, <2>1, <2>2
<1> QED
    BY <1>2 DEF Plus

\* The running total is the running sum, in the one currency of the order.
LEMMA FittingTotals ==
    ASSUME NEW items \in Seq(Line), PlaceOrderCommand(items)
    PROVE  \A n \in 1..Len(items) :
               Totals(items)[n] = [amount   |-> Sums(items)[n],
                                   currency |-> items[1].currency]
<1> DEFINE last == Len(items)
           sum == Sums(items)
           InCents(n) == [amount |-> sum[n], currency |-> items[1].currency]
           S == {n \in 1..last : Totals(items)[n] = InCents(n)}
<1>1. last \in Nat /\ 1 <= last /\ items # <<>>
    BY LineTypes DEF PlaceOrderCommand
<1>2. ASSUME NEW n \in 1..last
      PROVE  items[n] \in Line /\ LineFits(items[n]) /\ items[n].currency = items[1].currency
    BY <1>1, LineTypes DEF PlaceOrderCommand, OneCurrency
<1>3. ASSUME NEW n \in 1..last
      PROVE  /\ n - 1 \in 0..last
             /\ sum[n - 1] \in Nat /\ Price(items[n]) \in Nat
             /\ sum[n] = sum[n - 1] + Price(items[n])
             /\ sum[n] % Cent = 0
             /\ sum[n] \in 0..NumericMax * Cent
  <2>1. n - 1 \in 0..last /\ n \in 0..last
      BY <1>1
  <2>2. sum[n - 1] \in Nat /\ sum[n] \in Nat /\ sum[n] % Cent = 0 /\ sum[n] <= SumOf(items)
      BY <2>1, FittingSums DEF PlaceOrderCommand
  <2>3. SumOf(items) \in Nat /\ SumOf(items) <= NumericMax * Cent
    <3>1. last \in 0..last
        BY <1>1
    <3> QED
        BY <3>1, FittingSums DEF PlaceOrderCommand, TotalFitsCommand, SumOf
  <2>4. NumericMax * Cent \in Nat
      BY IntakeAssumption DEF Cent
  <2>5. sum[n] \in 0..NumericMax * Cent
      BY <2>2, <2>3, <2>4
  <2>6. Price(items[n]) \in Nat
      BY <1>2, FittingPrice
  <2>7. sum[n] = sum[n - 1] + Price(items[n])
      BY SumsEquation
  <2> QED
      BY <2>1, <2>2, <2>5, <2>6, <2>7
<1>4. ASSUME NEW n \in 1..last
      PROVE  Subtotal(items[n]) = [amount |-> Price(items[n]), currency |-> items[1].currency]
  <2>1. Price(items[n]) <= NumericMax * Cent
    <3>1. NumericMax * Cent \in Nat
        BY IntakeAssumption DEF Cent
    <3> QED
        BY <1>3, <3>1
  <2> QED
      BY <1>2, <2>1, FittingSubtotal
<1>5. 1 \in S
  <2>1. 1 \in 1..last /\ 1 - 1 = 0
      BY <1>1
  <2>2. sum[1] = Price(items[1])
      BY <1>3, <2>1, SumsEquation
  <2>3. Totals(items)[1] = Subtotal(items[1])
      BY <1>1, TotalsEquation
  <2> QED
      BY <1>4, <2>1, <2>2, <2>3
<1>6. ASSUME NEW n \in 1..(last - 1), n \in S PROVE n + 1 \in S
  <2>1. n + 1 \in 1..last /\ n + 1 \in 2..last /\ (n + 1) - 1 = n
      BY <1>1
  <2>2. Totals(items)[n + 1] = Plus(InCents(n), Subtotal(items[n + 1]))
      BY <1>1, <1>6, <2>1, TotalsEquation
  <2>3. CurrencyFits(items[1].currency)
    <3>1. 1 \in 1..last
        BY <1>1
    <3> QED
        BY <1>2, <3>1 DEF LineFits
  <2>4. Subtotal(items[n + 1]) = [amount   |-> Price(items[n + 1]),
                                  currency |-> items[1].currency]
      BY <1>4, <2>1
  <2>5. Totals(items)[n + 1] = Money(sum[n] + Price(items[n + 1]), items[1].currency)
    <3> HIDE DEF sum
    <3> QED
        BY <2>2, <2>3, <2>4, SameCurrency
  <2>6. sum[n + 1] = sum[n] + Price(items[n + 1]) /\ MoneyFits(sum[n + 1])
      BY <1>3, <2>1 DEF MoneyFits
  <2> QED
      BY <2>1, <2>3, <2>5, <2>6 DEF Money
<1>7. \A n \in 1..last : n \in S
  <2> HIDE DEF S, last
  <2>1. 1 \in Int /\ last \in Int
      BY <1>1
  <2> QED
      BY <1>5, <1>6, <2>1, Ascent
<1> QED
    BY <1>7

\* A command that validates assembles: no layer below is stricter.
LEMMA CommandAssembles ==
    ASSUME NEW items \in Seq(Line), PlaceOrderCommand(items)
    PROVE  /\ TotalOf(items) = [amount |-> SumOf(items), currency |-> items[1].currency]
           /\ TotalOf(items) \in Monies
           /\ MoneyFits(TotalOf(items).amount)
           /\ \A i \in DOMAIN items : OrderLine(items[i])
           /\ OrderHolds(items, TotalOf(items))
<1> DEFINE last == Len(items)
<1>1. last \in 1..last /\ last \in 0..last /\ 1 \in 1..last /\ items # <<>>
    BY LineTypes DEF PlaceOrderCommand
<1>2. TotalOf(items) = [amount |-> SumOf(items), currency |-> items[1].currency]
    BY <1>1, FittingTotals DEF TotalOf, SumOf
<1>3. SumOf(items) \in Nat /\ SumOf(items) % Cent = 0 /\ SumOf(items) <= NumericMax * Cent
    BY <1>1, FittingSums DEF SumOf, PlaceOrderCommand, TotalFitsCommand
<1>4. items[1].currency \in Currency /\ items[1].currency # "none"
  <2>1. items[1] \in Line /\ LineFits(items[1])
      BY <1>1, LineTypes DEF PlaceOrderCommand
  <2> QED
      BY <2>1 DEF Line, LineFits, CurrencyFits
<1>5. MoneyFits(SumOf(items))
  <2>1. NumericMax * Cent \in Nat
      BY IntakeAssumption DEF Cent
  <2> QED
      BY <1>3, <2>1 DEF MoneyFits
<1>6. \A i \in DOMAIN items : OrderLine(items[i])
    BY LineTypes, FittingUnitPrice DEF PlaceOrderCommand
<1>7. TotalOf(items) # Refused /\ TotalOf(items) \in Monies
    BY <1>2, <1>3, <1>4 DEF Refused, Monies
<1> QED
    BY <1>1, <1>2, <1>5, <1>6, <1>7 DEF OrderHolds
-----------------------------------------------------------------------------
(***************************************************************************)
(* The lines as they were sent: over HTTP, with integral floats for what   *)
(* they are worth, and strings for the decimals they denote.               *)
(***************************************************************************)
Sent == IF via = "http" THEN Parsed(request) ELSE request

Asked == /\ request \in Seq(Line) /\ via \in {"http", "direct"}
         /\ via = "direct" => \A i \in DOMAIN request : request[i].spelled = "number"

LEMMA ParsedQuantity ==
    ASSUME NEW q \in Quantity
    PROVE  /\ IntegralFloatToInt(q) \in Quantity
           /\ IntegralFloatToInt(q).halves = q.halves
           /\ IntegralFloatToInt(q).type = IF q.type = "number" /\ q.halves % 2 = 0
                                           THEN "integer" ELSE q.type
BY DEF Quantity, IntegralFloatToInt

LEMMA SentLine ==
    ASSUME request \in Seq(Line)
    PROVE  /\ Sent \in Seq(Line)
           /\ Len(Sent) = Len(request)
           /\ \A i \in 1..Len(request) :
                  /\ Sent[i].sku = request[i].sku
                  /\ Sent[i].unit_amount = request[i].unit_amount
                  /\ Sent[i].currency = request[i].currency
                  /\ Sent[i].quantity = IF via = "http"
                                        THEN IntegralFloatToInt(request[i].quantity)
                                        ELSE request[i].quantity
                  /\ Price(Sent[i]) = Price(request[i])
<1> DEFINE parsed == Parsed(request)
<1>1. ASSUME NEW i \in 1..Len(request)
      PROVE  /\ parsed[i] \in Line
             /\ parsed[i].sku = request[i].sku
             /\ parsed[i].unit_amount = request[i].unit_amount
             /\ parsed[i].currency = request[i].currency
             /\ parsed[i].quantity = IntegralFloatToInt(request[i].quantity)
             /\ Price(parsed[i]) = Price(request[i])
  <2>1. request[i] \in Line /\ i \in DOMAIN request
      BY LineTypes
  <2>2. parsed[i] = [request[i] EXCEPT !.quantity = IntegralFloatToInt(request[i].quantity),
                                       !.spelled = "number"]
      BY <2>1 DEF Parsed
  <2> HIDE DEF parsed
  <2>3. request[i].quantity \in Quantity
      BY <2>1 DEF Line
  <2>4. IntegralFloatToInt(request[i].quantity) \in Quantity
      BY <2>3, ParsedQuantity
  <2>5. /\ parsed[i] \in Line
        /\ parsed[i].sku = request[i].sku
        /\ parsed[i].unit_amount = request[i].unit_amount
        /\ parsed[i].currency = request[i].currency
        /\ parsed[i].quantity = IntegralFloatToInt(request[i].quantity)
      BY <2>1, <2>2, <2>4 DEF Line, Spelling
  <2>6. Count(parsed[i].quantity) = Count(request[i].quantity)
      BY <2>3, <2>5, ParsedQuantity DEF Count
  <2> QED
      BY <2>5, <2>6 DEF Price
<1>2. parsed \in Seq(Line) /\ Len(parsed) = Len(request)
  <2>1. Len(request) \in Nat
      BY LineTypes
  <2>2. DOMAIN request = 1..Len(request)
      BY LineTypes
  <2>3. parsed \in [1..Len(request) -> Line]
      BY <1>1, <2>2 DEF Parsed
  <2> HIDE DEF parsed
  <2> QED
      BY <2>1, <2>3
<1> HIDE DEF parsed
<1>3. via = "http" => Sent = parsed
    BY DEF Sent, parsed
<1>4. via # "http" => Sent = request
    BY DEF Sent
<1> QED
    BY <1>1, <1>2, <1>3, <1>4

\* Below the request, every amount is a Decimal.
LEMMA SentDecimals ==
    ASSUME Asked
    PROVE  \A i \in 1..Len(Sent) : Sent[i].spelled = "number"
<1>1. Len(Sent) = Len(request) /\ DOMAIN request = 1..Len(request)
    BY SentLine, LineTypes DEF Asked
<1>2. CASE via = "http"
  <2>1. ASSUME NEW i \in 1..Len(request) PROVE Sent[i].spelled = "number"
    <3>1. request[i] \in Line
        BY LineTypes DEF Asked
    <3>2. Sent[i] = [request[i] EXCEPT !.quantity = IntegralFloatToInt(request[i].quantity),
                                       !.spelled = "number"]
        BY <1>1, <1>2 DEF Sent, Parsed
    <3> QED
        BY <3>1, <3>2 DEF Line
  <2> QED
      BY <1>1, <2>1
<1>3. CASE via = "direct"
    BY <1>1, <1>3 DEF Sent, Asked
<1> QED
    BY <1>2, <1>3 DEF Asked

\* Equal prices, equal sums.
LEMMA SentSum ==
    ASSUME request \in Seq(Line)
    PROVE  SumOf(Sent) = SumOf(request)
<1> DEFINE last == Len(request)
           S == {n \in 0..last : Sums(Sent)[n] = Sums(request)[n]}
<1>1. last \in Nat /\ Sent \in Seq(Line) /\ Len(Sent) = last
    BY LineTypes, SentLine
<1>2. 0 \in S
    BY <1>1, SumsEquation
<1>3. ASSUME NEW n \in 0..(last - 1), n \in S PROVE n + 1 \in S
  <2>1. n + 1 \in 1..last /\ (n + 1) - 1 = n /\ n + 1 \in 0..last
      BY <1>1
  <2>2. Sums(Sent)[n + 1] = Sums(Sent)[n] + Price(Sent[n + 1])
      BY <1>1, <2>1, SumsEquation
  <2>3. Sums(request)[n + 1] = Sums(request)[n] + Price(request[n + 1])
      BY <2>1, SumsEquation
  <2>4. Price(Sent[n + 1]) = Price(request[n + 1])
      BY <2>1, SentLine
  <2> QED
      BY <1>3, <2>1, <2>2, <2>3, <2>4
<1>4. \A n \in 0..last : n \in S
  <2> HIDE DEF S, last
  <2>1. 0 \in Int /\ last \in Int
      BY <1>1
  <2> QED
      BY <1>2, <1>3, <2>1, Ascent
<1> QED
    BY <1>1, <1>4 DEF SumOf

\* The published bounds of one line are what every layer's validators check.
LEMMA LineConforms ==
    ASSUME request \in Seq(Line), via \in {"http", "direct"}, NEW i \in 1..Len(request)
    PROVE  LineFits(Sent[i]) <=>
               /\ request[i].sku \notin {"", "65 letters"}
               /\ Integral(request[i].quantity)
               /\ request[i].quantity.halves \in 2..2 * IntegerMax
               /\ request[i].unit_amount \in {c * Cent : c \in 0..NumericMax}
               /\ request[i].currency \notin {"eur"}
<1>1. /\ request[i].sku \in Sku
      /\ request[i].quantity \in Quantity
      /\ request[i].unit_amount \in Int
      /\ request[i].currency \in Currency
  <2>1. request[i] \in Line
      BY LineTypes
  <2> QED
      BY <2>1 DEF Line
<1>2. SkuFits(Sent[i].sku) <=> request[i].sku \notin {"", "65 letters"}
    BY <1>1, SentLine DEF Sku, SkuFits
<1>3. CurrencyFits(Sent[i].currency) <=> request[i].currency \notin {"eur"}
    BY <1>1, SentLine DEF Currency, CurrencyFits
<1>4. MoneyFits(Sent[i].unit_amount) <=>
          request[i].unit_amount \in {c * Cent : c \in 0..NumericMax}
  <2>1. NumericMax \in Nat
      BY IntakeAssumption
  <2>2. ASSUME NEW a \in Int, a % 10 = 0 /\ a \in 0..NumericMax * 10
        PROVE  \E c \in 0..NumericMax : a = c * 10
    <3>1. a \div 10 \in 0..NumericMax /\ a = (a \div 10) * 10
        BY <2>1, <2>2
    <3> QED
        BY <3>1
  <2>3. ASSUME NEW c \in 0..NumericMax
        PROVE  (c * 10) % 10 = 0 /\ c * 10 \in 0..NumericMax * 10
      BY <2>1
  <2>4. Sent[i].unit_amount = request[i].unit_amount
      BY SentLine
  <2> QED
      BY <1>1, <2>2, <2>3, <2>4 DEF MoneyFits, Cent
<1>5. QuantityFits(Sent[i].quantity) <=>
          /\ Integral(request[i].quantity)
          /\ request[i].quantity.halves \in 2..2 * IntegerMax
  <2> DEFINE q == request[i].quantity
  <2>1. q \in Quantity
      BY <1>1
  <2>2. /\ q.halves \in Int
        /\ q.type = "integer" => q.halves % 2 = 0
      BY <2>1 DEF Quantity
  <2>3. Sent[i].quantity = IF via = "http" THEN IntegralFloatToInt(q) ELSE q
      BY SentLine
  <2> HIDE DEF q
  <2>4. Sent[i].quantity.halves = q.halves
      BY <2>1, <2>3, ParsedQuantity
  <2>5. Sent[i].quantity.type = "integer" <=> Integral(q)
      BY <2>1, <2>3, <2>2, ParsedQuantity DEF Integral
  <2>6. Integral(q) => q.halves % 2 = 0
      BY <2>2 DEF Integral
  <2>7. ASSUME q.halves % 2 = 0
        PROVE  q.halves \div 2 \in 1..IntegerMax <=> q.halves \in 2..2 * IntegerMax
      BY <2>2, <2>7, IntakeAssumption
  <2>8. QuantityFits(Sent[i].quantity) <=> Integral(q) /\ q.halves \div 2 \in 1..IntegerMax
      BY <2>4, <2>5 DEF QuantityFits, Count
  <2>9. QuantityFits(Sent[i].quantity) <=> Integral(q) /\ q.halves \in 2..2 * IntegerMax
      BY <2>6, <2>7, <2>8
  <2> QED
      BY <2>9 DEF q
<1> QED
    BY <1>2, <1>3, <1>4, <1>5 DEF LineFits

\* What conforms in value is what every layer's validators accept.
LEMMA ConformsIsAccepted ==
    ASSUME request \in Seq(Line), via \in {"http", "direct"}
    PROVE  ConformsInValue <=> PlaceOrderCommand(Sent)
<1>1. /\ Len(request) \in Nat
      /\ Sent \in Seq(Line) /\ Len(Sent) = Len(request)
      /\ DOMAIN request = 1..Len(request) /\ DOMAIN Sent = 1..Len(request)
      /\ Sent # <<>> <=> Len(request) >= 1
    BY LineTypes, SentLine
<1>2. OneCurrency(Sent) <=> \A i \in DOMAIN request : request[i].currency = request[1].currency
  <2>1. \A i \in DOMAIN request : Sent[i].currency = request[i].currency
      BY <1>1, SentLine
  <2>2. \A i \in DOMAIN request : 1 \in DOMAIN request
      BY <1>1
  <2> QED
      BY <1>1, <2>1, <2>2 DEF OneCurrency
<1>3. TotalFitsCommand(Sent) <=> SumOf(request) <= NumericMax * Cent
    BY SentSum DEF TotalFitsCommand
<1>4. (\A i \in DOMAIN Sent : LineFits(Sent[i])) <=>
          \A i \in DOMAIN request :
              /\ request[i].sku \notin {"", "65 letters"}
              /\ Integral(request[i].quantity)
              /\ request[i].quantity.halves \in 2..2 * IntegerMax
              /\ request[i].unit_amount \in {c * Cent : c \in 0..NumericMax}
              /\ request[i].currency \notin {"eur"}
    BY <1>1, LineConforms
<1> QED
    BY <1>1, <1>2, <1>3, <1>4 DEF ConformsInValue, PlaceOrderCommand
-----------------------------------------------------------------------------
(***************************************************************************)
(* What is stored of an order that assembled reads back as that order.     *)
(***************************************************************************)
LEMMA RoundedFits ==
    ASSUME NEW a \in Int, MoneyFits(a)
    PROVE  Rounded(a) = a /\ NumericHolds(a)
<1>1. a % 10 = 0 /\ a \in 0..NumericMax * Cent
    BY DEF MoneyFits, Cent
<1>2. ((a + 5) \div 10) * 10 = a
    BY <1>1
<1>3. Rounded(a) = a
    BY <1>2, 10 \div 2 = 5 DEF Rounded, Cent
<1> QED
    BY <1>1, <1>3 DEF NumericHolds

LEMMA LineReadsBack ==
    ASSUME NEW line \in Line, LineFits(line), line.spelled = "number", NEW number
    PROVE  LineOf(LineRow(line, number)) = line
<1>1. line.quantity \in Quantity /\ line.unit_amount \in Int
    BY DEF Line
<1>2. Rounded(line.unit_amount) = line.unit_amount
    BY <1>1, RoundedFits DEF LineFits
<1>3. line.quantity = [type |-> "integer", halves |-> 2 * Count(line.quantity)]
  <2>1. line.quantity.type = "integer" /\ line.quantity.halves \in Int
      BY <1>1 DEF LineFits, QuantityFits, Quantity
  <2>2. line.quantity.halves % 2 = 0
      BY <1>1, <2>1 DEF Quantity
  <2>3. line.quantity.halves = 2 * Count(line.quantity)
      BY <2>1, <2>2 DEF Count
  <2> QED
      BY <1>1, <2>1, <2>3 DEF Quantity
<1>4. line = [sku         |-> line.sku,
              quantity    |-> line.quantity,
              unit_amount |-> line.unit_amount,
              spelled     |-> "number",
              currency    |-> line.currency]
    BY DEF Line
<1>5. /\ LineRow(line, number).sku = line.sku
      /\ LineRow(line, number).quantity = Count(line.quantity)
      /\ LineRow(line, number).unit_amount = line.unit_amount
      /\ LineRow(line, number).unit_currency = line.currency
    BY <1>2 DEF LineRow
<1>6. LineOf(LineRow(line, number)) = [sku         |-> line.sku,
                                       quantity    |-> line.quantity,
                                       unit_amount |-> line.unit_amount,
                                       spelled     |-> "number",
                                       currency    |-> line.currency]
    BY <1>3, <1>5 DEF LineOf
<1> QED
    BY <1>4, <1>6

\* Rows with numbers of their own are as many as their numbers.
LEMMA RowCount ==
    ASSUME NEW items, NEW k \in Nat
    PROVE  Cardinality({LineRow(items[j], j - 1) : j \in 1..k}) = k
<1> DEFINE R == {LineRow(items[j], j - 1) : j \in 1..k}
           f == [j \in 1..k |-> LineRow(items[j], j - 1)]
<1>1. \A j \in 1..k : LineRow(items[j], j - 1).line_number = j - 1
    BY DEF LineRow
<1>2. \A i, j \in 1..k : i - 1 = j - 1 => i = j
    OBVIOUS
<1>3. \A i, j \in 1..k : f[i] = f[j] => i = j
    BY <1>1, <1>2
<1>4. f \in Bijection(1..k, R)
    BY <1>3 DEF Bijection, Injection, Surjection, IsInjective
<1> HIDE DEF f
<1>5. ExistsBijection(1..k, R)
    BY <1>4 DEF ExistsBijection
<1> HIDE DEF R
<1>6. Cardinality(R) = k
    BY <1>5, FS_CountingElements
<1> QED
    BY <1>6 DEF R

\* ORDER BY line_number undoes the numbering of the lines.
LEMMA ReadsInLineOrder ==
    ASSUME NEW items, NEW k \in Nat
    PROVE  InLineOrder({LineRow(items[j], j - 1) : j \in 1..k}) =
               [i \in 1..k |-> LineRow(items[i], i - 1)]
<1> DEFINE R(n) == {LineRow(items[j], j - 1) : j \in 1..n}
<1>1. \A j \in 1..k : LineRow(items[j], j - 1).line_number = j - 1
    BY DEF LineRow
<1>2. ASSUME NEW i \in 1..k
      PROVE  Preceding(R(k), LineRow(items[i], i - 1)) = R(i - 1)
  <2>1. \A j \in 1..k : j - 1 < i - 1 <=> j \in 1..(i - 1)
      OBVIOUS
  <2>2. \A j \in 1..(i - 1) : j \in 1..k
      OBVIOUS
  <2>3. Preceding(R(k), LineRow(items[i], i - 1)) = {r \in R(k) : r.line_number < i - 1}
      BY <1>1 DEF Preceding
  <2>4. ASSUME NEW r \in R(k), r.line_number < i - 1 PROVE r \in R(i - 1)
      BY <1>1, <2>1, <2>4
  <2>5. ASSUME NEW r \in R(i - 1) PROVE r \in R(k) /\ r.line_number < i - 1
      BY <1>1, <2>1, <2>2
  <2> HIDE DEF R
  <2> QED
      BY <2>3, <2>4, <2>5
<1>3. ASSUME NEW i \in 1..k
      PROVE  Cardinality(Preceding(R(k), LineRow(items[i], i - 1))) = i - 1
  <2>1. i - 1 \in Nat
      OBVIOUS
  <2>2. Cardinality(R(i - 1)) = i - 1
      BY <2>1, RowCount
  <2> HIDE DEF R
  <2> QED
      BY <1>2, <2>2
<1>4. Cardinality(R(k)) = k
    BY RowCount
<1>5. ASSUME NEW i \in 1..k
      PROVE  (CHOOSE row \in R(k) : Cardinality(Preceding(R(k), row)) = i - 1) =
                 LineRow(items[i], i - 1)
  <2>1. LineRow(items[i], i - 1) \in R(k)
      OBVIOUS
  <2>2. ASSUME NEW row \in R(k), Cardinality(Preceding(R(k), row)) = i - 1
        PROVE  row = LineRow(items[i], i - 1)
    <3>1. PICK j \in 1..k : row = LineRow(items[j], j - 1)
        OBVIOUS
    <3> HIDE DEF R
    <3>2. Cardinality(Preceding(R(k), row)) = j - 1
        BY <1>3, <3>1
    <3>3. j = i
        BY <2>2, <3>2
    <3> QED
        BY <3>1, <3>3
  <2> HIDE DEF R
  <2> QED
      BY <1>3, <2>1, <2>2
<1> HIDE DEF R
<1>6. InLineOrder(R(k)) = [i \in 1..k |-> LineRow(items[i], i - 1)]
    BY <1>4, <1>5 DEF InLineOrder
<1> QED
    BY <1>6 DEF R

LEMMA OrderReadsBack ==
    ASSUME NEW items \in Seq(Line), PlaceOrderCommand(items),
           \A i \in 1..Len(items) : items[i].spelled = "number"
    PROVE  ToDomain(Rows(items, TotalOf(items))) = [lines |-> items, total |-> TotalOf(items)]
<1> DEFINE k == Len(items)
           sum == TotalOf(items)
           R == {LineRow(items[j], j - 1) : j \in 1..k}
           rows == InLineOrder(R)
<1>1. /\ k \in Nat /\ DOMAIN items = 1..k
      /\ \A i \in 1..k : items[i] \in Line /\ LineFits(items[i])
    BY LineTypes DEF PlaceOrderCommand
<1>2. sum \in Monies /\ MoneyFits(sum.amount)
    BY CommandAssembles
<1>3. rows = [i \in 1..k |-> LineRow(items[i], i - 1)]
    BY <1>1, ReadsInLineOrder
<1>4. [sum EXCEPT !.amount = Rounded(@)] = sum
  <2>1. sum.amount \in Int
      BY <1>2 DEF Monies
  <2>2. Rounded(sum.amount) = sum.amount
      BY <1>2, <2>1, RoundedFits
  <2> HIDE DEF sum
  <2> QED
      BY <1>2, <2>2 DEF Monies
<1>5. Rows(items, sum) = [order |-> sum, lines |-> R]
  <2>1. R = {LineRow(items[i], i - 1) : i \in DOMAIN items}
      BY <1>1
  <2> HIDE DEF R, sum
  <2> QED
      BY <1>4, <2>1 DEF Rows
<1>6. [i \in DOMAIN rows |-> LineOf(rows[i])] = items
  <2>1. \A i \in 1..k : LineOf(LineRow(items[i], i - 1)) = items[i]
      BY <1>1, LineReadsBack
  <2>2. items = [i \in 1..k |-> items[i]]
      BY <1>1
  <2> HIDE DEF k, rows
  <2>3. DOMAIN rows = 1..k /\ \A i \in 1..k : rows[i] = LineRow(items[i], i - 1)
      BY <1>3
  <2>4. [i \in DOMAIN rows |-> LineOf(rows[i])] = [i \in 1..k |-> items[i]]
      BY <2>1, <2>3
  <2> QED
      BY <2>2, <2>4
<1> HIDE DEF R, sum
<1> QED
    BY <1>5, <1>6 DEF ToDomain, sum

LEMMA TablesHold ==
    ASSUME NEW items \in Seq(Line), PlaceOrderCommand(items),
           ~RowsHold(items, TotalOf(items))
    PROVE  \E i \in DOMAIN items : ~TextHolds(items[i].sku)
<1> DEFINE sum == TotalOf(items)
<1>1. NumericHolds(sum.amount)
  <2>1. sum.amount \in Int /\ MoneyFits(sum.amount)
      BY CommandAssembles DEF Monies
  <2> QED
      BY <2>1, RoundedFits
<1>2. ASSUME NEW i \in DOMAIN items
      PROVE  Count(items[i].quantity) \in 1..IntegerMax /\ NumericHolds(items[i].unit_amount)
  <2>1. items[i] \in Line /\ LineFits(items[i])
      BY LineTypes DEF PlaceOrderCommand
  <2>2. items[i].unit_amount \in Int
      BY <2>1 DEF Line
  <2> QED
      BY <2>1, <2>2, RoundedFits DEF LineFits, QuantityFits
<1> HIDE DEF sum
<1> QED
    BY <1>1, <1>2 DEF RowsHold, sum
-----------------------------------------------------------------------------
(***************************************************************************)
(* What the intake knows at each layer: the lines are those that were      *)
(* sent, and whatever passed the command's validators will assemble, fit   *)
(* the tables and read back.                                               *)
(***************************************************************************)
Validated == {"assembly", "save", "placed"}

Reached ==
    /\ layer \in {"request", "command", "done"} \cup Validated
    /\ layer # "done" => reply = "none"
    /\ layer = "request" => via = "http" /\ lines = request
    /\ layer = "command" => lines = Sent /\ (via = "http" => PlaceOrderCommand(Sent))
    /\ layer \in Validated => lines = Sent /\ PlaceOrderCommand(Sent)
    /\ layer \in {"save", "placed"} => total = TotalOf(Sent)
    /\ layer = "placed" => tables = {Rows(Sent, TotalOf(Sent))}

Answered ==
    /\ reply \in {"none", "refused", "save_failed", "served"}
    /\ reply = "refused" => ~PlaceOrderCommand(Sent)
    /\ reply \in {"save_failed", "served"} => PlaceOrderCommand(Sent)
    /\ reply = "save_failed" => \E i \in DOMAIN request : ~TextHolds(request[i].sku)
    /\ reply = "served" => /\ total = TotalOf(Sent)
                           /\ fetched = [lines |-> Sent, total |-> TotalOf(Sent)]

IntakeInv == Asked /\ Reached /\ Answered

LEMMA RequestIsCommand ==
    ASSUME NEW items
    PROVE  PlaceOrderRequest(items) <=> PlaceOrderCommand(items)
BY DEF PlaceOrderRequest, PlaceOrderCommand, TotalFitsRequest, TotalFitsCommand

LEMMA IntakeStarts == IntakeInit => IntakeInv
<1> SUFFICES ASSUME IntakeInit PROVE IntakeInv
    OBVIOUS
<1>1. Asked
    BY RequestsAssumption DEF IntakeInit, Asked
<1>2. CASE via = "http"
  <2>1. layer = "request" /\ lines = request /\ reply = "none"
      BY <1>2 DEF IntakeInit
  <2> QED
      BY <1>1, <1>2, <2>1 DEF IntakeInv, Reached, Answered, Validated
<1>3. CASE via = "direct"
  <2>1. layer = "command" /\ lines = request /\ reply = "none"
      BY <1>3 DEF IntakeInit
  <2>2. Sent = request
      BY <1>3 DEF Sent
  <2> QED
      BY <1>1, <1>3, <2>1, <2>2 DEF IntakeInv, Reached, Answered, Validated
<1> QED
    BY <1>1, <1>2, <1>3 DEF Asked

LEMMA IntakeSteps == IntakeInv /\ [IntakeNext]_intake => IntakeInv'
<1> SUFFICES ASSUME IntakeInv, [IntakeNext]_intake PROVE IntakeInv'
    OBVIOUS
<1> USE DEF IntakeInv
<1>1. ASSUME request' = request, via' = via
      PROVE  Asked' /\ Sent' = Sent
    BY <1>1 DEF Asked, Sent, Parsed
<1>2. Sent \in Seq(Line) /\ Len(Sent) = Len(request)
    BY SentLine DEF Asked
<1>3. CASE ValidateRequest
  <2> USE <1>3 DEF ValidateRequest
  <2>1. Asked' /\ Sent' = Sent
      BY <1>1
  <2>2. via = "http" /\ lines = request /\ Sent = Parsed(lines) /\ reply = "none"
      BY DEF Reached, Sent
  <2>3. CASE PlaceOrderRequest(Parsed(lines))
    <3>1. layer' = "command" /\ lines' = Sent /\ reply' = "none" /\ via' = "http"
        BY <2>2, <2>3 DEF Advance
    <3>2. PlaceOrderCommand(Sent)
        BY <2>2, <2>3, RequestIsCommand
    <3> QED
        BY <2>1, <3>1, <3>2 DEF Reached, Answered, Validated
  <2>4. CASE ~PlaceOrderRequest(Parsed(lines))
    <3>1. layer' = "done" /\ reply' = "refused"
        BY <2>4 DEF Stop
    <3>2. ~PlaceOrderCommand(Sent)
        BY <2>2, <2>4, RequestIsCommand
    <3> QED
        BY <2>1, <3>1, <3>2 DEF Reached, Answered, Validated
  <2> QED
      BY <2>3, <2>4
<1>4. CASE ValidateCommand
  <2> USE <1>4 DEF ValidateCommand
  <2>1. Asked' /\ Sent' = Sent
      BY <1>1
  <2>2. lines = Sent /\ reply = "none" /\ (via = "http" => PlaceOrderCommand(Sent))
      BY DEF Reached
  <2>3. CASE PlaceOrderCommand(lines)
    <3>1. layer' = "assembly" /\ lines' = Sent /\ reply' = "none"
        BY <2>2, <2>3 DEF Advance
    <3> QED
        BY <2>1, <2>2, <2>3, <3>1 DEF Reached, Answered, Validated
  <2>4. CASE ~PlaceOrderCommand(lines)
    <3>1. layer' = "done" /\ reply' = "refused"
        BY <2>2, <2>4 DEF Stop
    <3> QED
        BY <2>1, <2>2, <2>4, <3>1 DEF Reached, Answered, Validated
  <2> QED
      BY <2>3, <2>4
<1>5. CASE Assemble
  <2> USE <1>5 DEF Assemble
  <2>1. Asked' /\ Sent' = Sent
      BY <1>1
  <2>2. lines = Sent /\ reply = "none" /\ PlaceOrderCommand(Sent)
      BY DEF Reached, Validated
  <2>3. (\A i \in DOMAIN lines : OrderLine(lines[i])) /\ OrderHolds(lines, TotalOf(lines))
      BY <1>2, <2>2, CommandAssembles
  <2>4. /\ layer' = "save" /\ lines' = Sent /\ reply' = "none"
        /\ total' = TotalOf(Sent)
      BY <2>2, <2>3 DEF Advance
  <2> QED
      BY <2>1, <2>2, <2>4 DEF Reached, Answered, Validated
<1>6. CASE Save
  <2> USE <1>6 DEF Save
  <2>1. Asked' /\ Sent' = Sent
      BY <1>1
  <2>2. /\ lines = Sent /\ reply = "none" /\ PlaceOrderCommand(Sent)
        /\ total = TotalOf(Sent) /\ total' = total
      BY DEF Reached, Validated
  <2>3. CASE RowsHold(lines, total)
    <3>1. /\ layer' = "placed" /\ lines' = Sent /\ reply' = "none"
          /\ tables' = {Rows(Sent, TotalOf(Sent))}
        BY <2>2, <2>3 DEF Advance
    <3> QED
        BY <2>1, <2>2, <3>1 DEF Reached, Answered, Validated
  <2>4. CASE ~RowsHold(lines, total)
    <3>1. layer' = "done" /\ reply' = "save_failed"
        BY <2>4 DEF Stop
    <3>2. PICK i \in DOMAIN Sent : ~TextHolds(Sent[i].sku)
        BY <1>2, <2>2, <2>4, TablesHold
    <3>3. i \in DOMAIN request /\ Sent[i].sku = request[i].sku
        BY <1>2, SentLine, LineTypes DEF Asked
    <3> QED
        BY <2>1, <2>2, <3>1, <3>2, <3>3 DEF Reached, Answered, Validated
  <2> QED
      BY <2>3, <2>4
<1>7. CASE Get
  <2> USE <1>7 DEF Get
  <2>1. Asked' /\ Sent' = Sent
      BY <1>1
  <2>2. /\ reply = "none" /\ PlaceOrderCommand(Sent)
        /\ total = TotalOf(Sent) /\ total' = total
        /\ tables = {Rows(Sent, TotalOf(Sent))}
      BY DEF Reached, Validated
  <2>3. ToDomain(Rows(Sent, TotalOf(Sent))) = [lines |-> Sent, total |-> TotalOf(Sent)]
      BY <1>2, <2>2, SentDecimals, OrderReadsBack
  <2>4. OrderHolds(Sent, TotalOf(Sent))
      BY <1>2, <2>2, CommandAssembles
  <2>5. /\ layer' = "done" /\ reply' = "served"
        /\ fetched' = [lines |-> Sent, total |-> TotalOf(Sent)]
      BY <2>2, <2>3, <2>4 DEF Stop
  <2> QED
      BY <2>1, <2>2, <2>5 DEF Reached, Answered, Validated
<1>8. CASE UNCHANGED intake
  <2>1. Asked' /\ Sent' = Sent
      BY <1>1, <1>8 DEF intake
  <2> QED
      BY <1>8, <2>1 DEF intake, Reached, Answered, Validated
<1> QED
    BY <1>3, <1>4, <1>5, <1>6, <1>7, <1>8 DEF IntakeNext

LEMMA IntakeKnows == IntakeSpec => []IntakeInv
BY IntakeStarts, IntakeSteps, PTL DEF IntakeSpec

\* What the outermost validator accepts, no layer below refuses, except a SKU no
\* TEXT column holds: the bounds of schemas.py, services/order.py, domain/order.py
\* and the migrations agree, for every number of lines and every value of theirs.
THEOREM AcceptedIsPlaced == IntakeSpec => []AcceptedMeansPlaced
<1>1. IntakeInv => AcceptedMeansPlaced
    BY DEF IntakeInv, Answered, AcceptedMeansPlaced
<1> QED
    BY <1>1, IntakeKnows, PTL

\* A caller is refused exactly the values the published contract does not allow;
\* so, of what it allows as it is spelled, nothing.
THEOREM RefusedIsNonconforming == IntakeSpec => []RefusesOnlyNonconforming
<1>1. IntakeInv => RefusesOnlyNonconforming
    BY ConformsIsAccepted DEF IntakeInv, Asked, Answered, RefusesOnlyNonconforming
<1> QED
    BY <1>1, IntakeKnows, PTL

LEMMA AcceptedAreParsed ==
    ASSUME Asked, PlaceOrderCommand(Sent)
    PROVE  Sent = Parsed(request)
<1>1. CASE via = "http"
    BY <1>1 DEF Sent
<1>2. CASE via = "direct"
  <2>1. Sent = request
      BY <1>2 DEF Sent
  <2>2. ASSUME NEW i \in DOMAIN request
        PROVE  [request[i] EXCEPT !.quantity = IntegralFloatToInt(request[i].quantity),
                                  !.spelled = "number"] = request[i]
    <3>1. /\ request[i] \in Line /\ request[i].spelled = "number"
          /\ QuantityFits(request[i].quantity)
        BY <1>2, <2>1, LineTypes DEF Asked, PlaceOrderCommand, LineFits
    <3>2. IntegralFloatToInt(request[i].quantity) = request[i].quantity
        BY <3>1 DEF IntegralFloatToInt, QuantityFits
    <3> QED
        BY <3>1, <3>2 DEF Line
  <2>3. request = [i \in DOMAIN request |-> request[i]]
      BY LineTypes DEF Asked
  <2> QED
      BY <2>1, <2>2, <2>3 DEF Parsed
<1> QED
    BY <1>1, <1>2 DEF Asked

\* An order is read back with the lines it was placed with, in their order, and
\* with the sum of their prices for its total.
THEOREM ServedIsPlaced == IntakeSpec => []ServedAsPlaced
<1> SUFFICES ASSUME IntakeInv, reply = "served"
             PROVE  /\ fetched.lines = Parsed(request)
                    /\ fetched.total = total
                    /\ total.amount = SumOf(request)
  <2>1. (IntakeInv /\ reply = "served" => /\ fetched.lines = Parsed(request)
                                          /\ fetched.total = total
                                          /\ total.amount = SumOf(request))
        => (IntakeInv => ServedAsPlaced)
      BY DEF ServedAsPlaced
  <2> QED
      BY <2>1, IntakeKnows, PTL
<1>1. /\ Sent \in Seq(Line) /\ PlaceOrderCommand(Sent)
      /\ total = TotalOf(Sent) /\ fetched = [lines |-> Sent, total |-> TotalOf(Sent)]
    BY SentLine DEF IntakeInv, Asked, Answered
<1>2. total.amount = SumOf(request)
    BY <1>1, CommandAssembles, SentSum DEF IntakeInv, Asked
<1>3. Sent = Parsed(request)
    BY <1>1, AcceptedAreParsed DEF IntakeInv
<1> QED
    BY <1>1, <1>2, <1>3
=============================================================================
