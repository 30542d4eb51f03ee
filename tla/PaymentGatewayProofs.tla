------------------------ MODULE PaymentGatewayProofs ------------------------
(***************************************************************************)
(* Theorems about the payment gateway, for every set of orders, every      *)
(* number of attempts and every breaker.  Those about payments use no fact *)
(* about the circuit, which only makes calls fewer; what opens the circuit *)
(* is the last section.                                                    *)
(***************************************************************************)
EXTENDS PaymentGateway, FiniteSetTheorems, TLAPS

Types == /\ step \in [Calls -> {"idle", "ready", "sent"}]
         /\ answer \in [Calls -> {"idle", "asked"} \cup Endings]
         /\ wire \in [Calls -> Nat]
         /\ reply \in [Calls -> Replies \cup {None}]
         /\ charges \in [Calls -> Nat]

\* What is known of one call from where it stands: how many requests are on
\* the wire, how many payments were taken, and what its reply proves.
Quiet(c) == wire[c] = 0 /\ charges[c] = 0

AnswerProves(c) ==
    /\ answer[c] = "asked" <=> step[c] # "idle"
    /\ answer[c] \in {"idle", "circuit_open", "declined"} => Quiet(c)
    /\ answer[c] = "authorised" => wire[c] = 0 /\ charges[c] = 1

StepProves(c) ==
    /\ step[c] # "sent" => reply[c] = None
    /\ step[c] = "ready" => Quiet(c)
    /\ step[c] = "sent" => (wire[c] = 1 <=> reply[c] = None)

ReplyProves(c) ==
    /\ reply[c] = "approved" => charges[c] = 1
    /\ reply[c] \in {"declined", "overloaded"} => charges[c] = 0

OneOrNone(c) == charges[c] + wire[c] <= 1

CallInv(c) == AnswerProves(c) /\ StepProves(c) /\ ReplyProves(c) /\ OneOrNone(c)

IInv == Types /\ \A c \in Calls : CallInv(c)

LEMMA InitInv == Init => IInv
BY NoneAssumption
   DEF Init, IInv, Types, CallInv, AnswerProves, StepProves, ReplyProves,
       OneOrNone, Quiet, Endings, Replies, AnswerStatuses

\* One call moves at a time: the others keep what is known of them.
Alone(c) == \A d \in Calls \ {c} :
    /\ step'[d] = step[d] /\ answer'[d] = answer[d] /\ wire'[d] = wire[d]
    /\ reply'[d] = reply[d] /\ charges'[d] = charges[d]

LEMMA OthersKeep ==
    ASSUME IInv, NEW c \in Calls, Types', Alone(c), CallInv(c)'
    PROVE  IInv'
<1> SUFFICES ASSUME NEW d \in Calls, d # c PROVE CallInv(d)'
    BY DEF IInv
<1> QED
    BY DEF IInv, Alone, CallInv, AnswerProves, StepProves, ReplyProves,
           OneOrNone, Quiet

-----------------------------------------------------------------------------
\* A call that leaves the retry loop with a given ending, provided that the
\* ending claims no more than what is known.
LEMMA LeaveStep ==
    ASSUME IInv, NEW c \in Calls, NEW ending \in Endings, Leave(c, ending),
           step[c] # "idle", ending # "circuit_open",
           ending = "authorised" => charges[c] = 1,
           ending = "declined" => Quiet(c)
    PROVE  IInv'
<1>1. Types'
    BY DEF Leave, IInv, Types, providerVars
<1>2. Alone(c)
    BY DEF Leave, Alone, IInv, Types, providerVars
<1>3. CallInv(c)'
    BY NoneAssumption
    DEF Leave, IInv, Types, providerVars, CallInv, AnswerProves, StepProves,
        ReplyProves, OneOrNone, Quiet, Endings, Replies, AnswerStatuses
<1> QED
    BY <1>1, <1>2, <1>3, OthersKeep

\* A retry is only decided on when nothing was delivered.
LEMMA RetryStep ==
    ASSUME IInv, NEW c \in Calls, NEW exc, Retry(c, exc),
           step[c] # "idle", Quiet(c)
    PROVE  IInv'
<1>1. Types'
    BY DEF Retry, IInv, Types, providerVars
<1>2. Alone(c)
    BY DEF Retry, Alone, IInv, Types, providerVars
<1>3. CallInv(c)'
    BY NoneAssumption
    DEF Retry, IInv, Types, providerVars, CallInv, AnswerProves, StepProves,
        ReplyProves, OneOrNone, Quiet, Replies, AnswerStatuses
<1> QED
    BY <1>1, <1>2, <1>3, OthersKeep

LEMMA AuthoriseStep ==
    ASSUME IInv, NEW c \in Calls, Authorise(c)
    PROVE  IInv'
<1> USE DEF Authorise, IInv, Types, providerVars, loopVars
<1>1. Types'
    BY DEF Endings
<1>2. Alone(c)
    BY DEF Alone
<1>3. CallInv(c)'
    BY DEF CallInv, AnswerProves, StepProves, ReplyProves, OneOrNone, Quiet
<1> QED
    BY <1>1, <1>2, <1>3, OthersKeep

LEMMA SendStep ==
    ASSUME IInv, NEW c \in Calls, Send(c)
    PROVE  IInv'
<1> USE DEF Send, IInv, Types
<1>1. Types'
    OBVIOUS
<1>2. Alone(c)
    BY DEF Alone
<1>3. CallInv(c)'
    BY DEF CallInv, AnswerProves, StepProves, ReplyProves, OneOrNone, Quiet
<1> QED
    BY <1>1, <1>2, <1>3, OthersKeep

\* The end of an attempt without an answer, whether it is retried or not.
LEMMA AttemptFailsStep ==
    ASSUME IInv, NEW c \in Calls, NEW exc, AttemptFails(c, exc),
           step[c] # "idle", IsRetryable(exc) => Quiet(c)
    PROVE  IInv'
<1>1. CASE Retry(c, exc)
    BY <1>1, RetryStep DEF Retry
<1>2. CASE GiveUp(c)
    BY <1>2, LeaveStep DEF GiveUp, Endings
<1> QED
    BY <1>1, <1>2 DEF AttemptFails

\* With the reply in hand there is nothing on the wire; a reply that is
\* retried, or a decline, proves that no payment was taken.
LEMMA ReplyInHand ==
    ASSUME IInv, NEW c \in Calls, step[c] = "sent", reply[c] # None
    PROVE  /\ wire[c] = 0
           /\ reply[c] \in Replies
           /\ reply[c] \in {"declined", "overloaded"} => Quiet(c)
           /\ reply[c] = "approved" => charges[c] = 1
<1>1. wire[c] \in Nat /\ charges[c] \in Nat /\ reply[c] \in Replies
    BY DEF IInv, Types
<1>2. StepProves(c) /\ ReplyProves(c) /\ OneOrNone(c)
    BY DEF IInv, CallInv
<1>3. wire[c] = 0
    BY <1>1, <1>2 DEF StepProves, OneOrNone
<1> QED
    BY <1>1, <1>2, <1>3 DEF ReplyProves, Quiet

LEMMA ReceiveStep ==
    ASSUME IInv, NEW c \in Calls, Receive(c)
    PROVE  IInv'
<1> USE ReplyInHand DEF Receive
<1>1. CASE IsAnswer(reply[c])
  <2>1. EndingOf(reply[c]) \in {"authorised", "declined", "unreadable"}
      BY <1>1 DEF IsAnswer, AnswerStatuses, EndingOf
  <2>2. EndingOf(reply[c]) = "authorised" => charges[c] = 1
      BY <1>1 DEF IsAnswer, AnswerStatuses, EndingOf
  <2>3. EndingOf(reply[c]) = "declined" => Quiet(c)
      BY <1>1 DEF IsAnswer, AnswerStatuses, EndingOf
  <2> QED
      BY <1>1, <2>1, <2>2, <2>3, LeaveStep DEF Endings
<1>2. CASE ~IsAnswer(reply[c])
    BY <1>2, AttemptFailsStep DEF IsAnswer, AnswerStatuses, IsRetryable, Replies
<1> QED
    BY <1>1, <1>2

\* The provider considers what is on the wire.
LEMMA ProviderStep ==
    ASSUME IInv, NEW c \in Calls, Provider(c)
    PROVE  IInv'
<1>1. PICK status \in Replies : Respond(c, status)
    BY DEF Provider, TakePayment, TakeNothing, Replies, AnswerStatuses
<1>2. wire[c] = 1 /\ charges[c] = 0 /\ charges'[c] \in {0, 1}
    BY <1>1 DEF Provider, TakePayment, TakeNothing, Respond, IInv, Types,
                CallInv, OneOrNone
<1>3. Types'
    BY <1>1, <1>2 DEF Provider, TakePayment, TakeNothing, Respond, IInv, Types, loopVars
<1>4. Alone(c)
    BY <1>1 DEF Provider, TakePayment, TakeNothing, Respond, Alone, IInv, Types, loopVars
<1>5. CASE TakePayment(c)
  <2>1. PICK s \in {"approved", "garbled", "faulty"} : Respond(c, s)
      BY <1>5 DEF TakePayment
  <2> QED
      BY <1>2, <1>3, <1>4, <1>5, <2>1, OthersKeep, NoneAssumption
      DEF TakePayment, Respond, IInv, Types, loopVars, CallInv, AnswerProves,
          StepProves, ReplyProves, OneOrNone, Quiet, Replies, AnswerStatuses
<1>6. CASE TakeNothing(c)
  <2>1. PICK s \in Replies \ {"approved"} : Respond(c, s)
      BY <1>6 DEF TakeNothing
  <2> QED
      BY <1>2, <1>3, <1>4, <1>6, <2>1, OthersKeep, NoneAssumption
      DEF TakeNothing, Respond, IInv, Types, loopVars, CallInv, AnswerProves,
          StepProves, ReplyProves, OneOrNone, Quiet, Replies, AnswerStatuses
<1> QED
    BY <1>5, <1>6 DEF Provider

-----------------------------------------------------------------------------
LEMMA InvStep == IInv /\ [Next]_vars => IInv'
<1> SUFFICES ASSUME IInv, [Next]_vars PROVE IInv'
    OBVIOUS
<1>1. ASSUME UNCHANGED <<step, answer, wire, reply, charges>> PROVE IInv'
    BY <1>1 DEF IInv, Types, CallInv, AnswerProves, StepProves, ReplyProves,
                OneOrNone, Quiet
<1>2. CASE Tick
    BY <1>1, <1>2 DEF Tick, loopVars, providerVars
<1>3. CASE UNCHANGED vars
    BY <1>1, <1>3 DEF vars, loopVars, providerVars
<1>4. ASSUME NEW c \in Calls, ConnectFails(c) PROVE IInv'
    BY <1>4, AttemptFailsStep
    DEF ConnectFails, IInv, CallInv, StepProves
<1>5. ASSUME NEW c \in Calls, TimesOut(c) PROVE IInv'
    BY <1>5, AttemptFailsStep DEF TimesOut, IsRetryable
<1>6. ASSUME NEW c \in Calls, Escape(c) PROVE IInv'
    BY <1>6, LeaveStep DEF Escape, Endings
<1>7. ASSUME NEW c \in Calls, Cancel(c) PROVE IInv'
    BY <1>7, LeaveStep DEF Cancel, Endings
<1> QED
    BY <1>2, <1>3, <1>4, <1>5, <1>6, <1>7, AuthoriseStep, SendStep, ReceiveStep,
       ProviderStep
    DEF Next, Client, Attempting

\* No order is charged twice, whatever is lost, late, retried or cancelled.
THEOREM ChargedAtMostOnce == Spec => []AtMostOneCharge
<1>1. IInv => AtMostOneCharge
    BY DEF IInv, Types, CallInv, OneOrNone, AtMostOneCharge
<1> QED
    BY <1>1, InitInv, InvStep, PTL DEF Spec

-----------------------------------------------------------------------------
(***************************************************************************)
(* The refinement of the port.                                             *)
(***************************************************************************)
PortEnding(ending) == CASE ending = "circuit_open" -> "refused"
                        [] ending \in {"unreadable", "unreachable"} -> "unavailable"
                        [] OTHER -> ending

LEMMA PortAnswerOf == \A c \in Calls : PortAnswer[c] = PortEnding(answer[c])
BY DEF PortAnswer, PortEnding

LEMMA PortAnswerNext ==
    ASSUME IInv, NEW c \in Calls, NEW ending, answer' = [answer EXCEPT ![c] = ending]
    PROVE  PortAnswer' = [PortAnswer EXCEPT ![c] = PortEnding(ending)]
BY DEF PortAnswer, PortEnding, IInv, Types

LEMMA PortInit == Init => Port!Init
<1> SUFFICES ASSUME Init PROVE Port!Init
    OBVIOUS
<1>1. PortAnswer = [c \in Calls |-> "idle"]
    BY DEF Init, PortAnswer
<1> QED
    BY <1>1 DEF Init, Port!Init

\* Leaving the loop is an ending of the port.
LEMMA LeaveEnds ==
    ASSUME IInv, NEW c \in Calls, NEW ending \in Endings, Leave(c, ending),
           step[c] # "idle", ending # "circuit_open",
           ending = "authorised" => charges[c] = 1,
           ending = "declined" => Quiet(c)
    PROVE  Port!Next
<1>1. PortAnswer[c] = "asked"
    BY PortAnswerOf DEF IInv, CallInv, AnswerProves, PortEnding
<1>2. PortAnswer' = [PortAnswer EXCEPT ![c] = PortEnding(ending)] /\ UNCHANGED charges
    BY PortAnswerNext DEF Leave, providerVars
<1>3. Port!End(c, PortEnding(ending))
    BY <1>1, <1>2 DEF Port!End
<1>4. CASE ending = "authorised"
    BY <1>3, <1>4 DEF PortEnding, Port!Authorise, Port!Next
<1>5. CASE ending = "declined"
    BY <1>3, <1>5 DEF PortEnding, Port!Decline, Port!Next, Quiet
<1>6. CASE ending \notin {"authorised", "declined"}
  <2>1. PortEnding(ending) \in Port!NoProof
      BY <1>6 DEF PortEnding, Port!NoProof, Endings
  <2> QED
      BY <1>3, <2>1 DEF Port!GiveUp, Port!Next
<1> QED
    BY <1>4, <1>5, <1>6

LEMMA AttemptFailsEnds ==
    ASSUME IInv, NEW c \in Calls, NEW exc, AttemptFails(c, exc), step[c] # "idle"
    PROVE  Port!Next \/ UNCHANGED <<answer, charges>>
<1>1. CASE Retry(c, exc)
    BY <1>1 DEF Retry, providerVars
<1>2. CASE GiveUp(c)
    BY <1>2, LeaveEnds DEF GiveUp, Endings
<1> QED
    BY <1>1, <1>2 DEF AttemptFails

LEMMA ReceiveEnds ==
    ASSUME IInv, NEW c \in Calls, Receive(c)
    PROVE  Port!Next \/ UNCHANGED <<answer, charges>>
<1> USE ReplyInHand DEF Receive
<1>1. CASE IsAnswer(reply[c])
  <2>1. EndingOf(reply[c]) \in {"authorised", "declined", "unreadable"}
      BY <1>1 DEF IsAnswer, AnswerStatuses, EndingOf
  <2>2. EndingOf(reply[c]) = "authorised" => charges[c] = 1
      BY <1>1 DEF IsAnswer, AnswerStatuses, EndingOf
  <2>3. EndingOf(reply[c]) = "declined" => Quiet(c)
      BY <1>1 DEF IsAnswer, AnswerStatuses, EndingOf
  <2> QED
      BY <1>1, <2>1, <2>2, <2>3, LeaveEnds DEF Endings
<1>2. CASE ~IsAnswer(reply[c])
    BY <1>2, AttemptFailsEnds
<1> QED
    BY <1>1, <1>2

LEMMA AuthoriseAsks ==
    ASSUME IInv, NEW c \in Calls, Authorise(c)
    PROVE  Port!Next
<1>1. PortAnswer[c] = "idle"
    BY PortAnswerOf DEF Authorise, PortEnding
<1>2. UNCHANGED charges
    BY DEF Authorise, providerVars
<1>3. CASE answer' = [answer EXCEPT ![c] = "asked"]
  <2>1. PortAnswer' = [PortAnswer EXCEPT ![c] = "asked"]
      BY <1>3, PortAnswerNext DEF PortEnding
  <2> QED
      BY <1>1, <1>2, <2>1 DEF Port!Ask, Port!Next
<1>4. CASE answer' = [answer EXCEPT ![c] = "circuit_open"]
  <2>1. PortAnswer' = [PortAnswer EXCEPT ![c] = "refused"]
      BY <1>4, PortAnswerNext DEF PortEnding
  <2> QED
      BY <1>1, <1>2, <2>1 DEF Port!TurnAway, Port!Next
<1> QED
    BY <1>3, <1>4 DEF Authorise

\* A payment can only be taken of an order that was asked for and whose caller
\* has been told nothing that a payment would make false.
LEMMA ProviderCharges ==
    ASSUME IInv, NEW c \in Calls, Provider(c)
    PROVE  Port!Next \/ UNCHANGED <<answer, charges>>
<1>1. UNCHANGED answer /\ wire[c] > 0
    BY DEF Provider, TakePayment, TakeNothing, Respond, loopVars
<1>2. CASE TakeNothing(c)
    BY <1>1, <1>2 DEF TakeNothing
<1>3. CASE TakePayment(c)
  <2>1. charges[c] = 0 /\ wire[c] = 1
    <3>1. charges[c] \in Nat /\ wire[c] \in Nat /\ charges[c] + wire[c] <= 1
        BY DEF IInv, Types, CallInv, OneOrNone
    <3> QED
        BY <1>1, <3>1
  <2>2. answer[c] \notin {"idle", "circuit_open", "declined", "authorised"}
      BY <2>1 DEF IInv, CallInv, AnswerProves, Quiet
  <2>3. PortAnswer[c] \in {"asked"} \cup Port!NoProof
      BY <2>2, PortAnswerOf DEF PortEnding, Port!NoProof, IInv, Types, Endings
  <2>4. PortAnswer' = PortAnswer
      BY <1>1 DEF PortAnswer
  <2>5. charges' = [charges EXCEPT ![c] = 1]
    <3>1. charges' = [charges EXCEPT ![c] = charges[c] + 1]
        BY <1>3, Zenon DEF TakePayment
    <3>2. charges[c] + 1 = 1
        BY <2>1
    <3> QED
        BY <3>1, <3>2
  <2> QED
      BY <2>1, <2>3, <2>4, <2>5 DEF Port!Charge, Port!Next
<1> QED
    BY <1>2, <1>3 DEF Provider

LEMMA PortStep == IInv /\ [Next]_vars => [Port!Next]_Port!vars
<1> SUFFICES ASSUME IInv, [Next]_vars
             PROVE  Port!Next \/ UNCHANGED <<answer, charges>>
  <2>1. UNCHANGED <<answer, charges>> => UNCHANGED Port!vars
      BY DEF Port!vars, PortAnswer
  <2> QED
      BY <2>1
<1>1. CASE Tick
    BY <1>1 DEF Tick, providerVars
<1>2. CASE UNCHANGED vars
    BY <1>2 DEF vars, providerVars
<1>3. ASSUME NEW c \in Calls, Send(c) PROVE UNCHANGED <<answer, charges>>
    BY <1>3 DEF Send
<1>4. ASSUME NEW c \in Calls, ConnectFails(c)
      PROVE  Port!Next \/ UNCHANGED <<answer, charges>>
    BY <1>4, AttemptFailsEnds DEF ConnectFails
<1>5. ASSUME NEW c \in Calls, TimesOut(c)
      PROVE  Port!Next \/ UNCHANGED <<answer, charges>>
    BY <1>5, AttemptFailsEnds DEF TimesOut
<1>6. ASSUME NEW c \in Calls, Escape(c) PROVE Port!Next
    BY <1>6, LeaveEnds DEF Escape, Endings
<1>7. ASSUME NEW c \in Calls, Cancel(c) PROVE Port!Next
    BY <1>7, LeaveEnds DEF Cancel, Endings
<1> QED
    BY <1>1, <1>2, <1>3, <1>4, <1>5, <1>6, <1>7, AuthoriseAsks, ReceiveEnds,
       ProviderCharges
    DEF Next, Client, Attempting

\* The gateway implements the port: what PlaceOrder is told of a payment is
\* true of the provider, now and later.
THEOREM GatewayImplementsPort == Spec => ImplementsPort
<1>1. Spec => Port!Spec
    BY InitInv, InvStep, PortInit, PortStep, PTL DEF Spec, Port!Spec
<1> QED
    BY <1>1 DEF ImplementsPort
-----------------------------------------------------------------------------
(***************************************************************************)
(* What opens the circuit.  `Evidence` bounds the breaker's count by the   *)
(* calls that ended without an answer, which only become more: a circuit   *)
(* that has opened once, and a probe, which is let in by a circuit that    *)
(* has, have the threshold of them behind them for good.                   *)
(***************************************************************************)
Enough == Cardinality(Unanswered) >= FailureThreshold

BreakerTypes == /\ consecutiveFailures \in Nat
                /\ isProbe \in [Calls -> BOOLEAN]
                /\ pc \in [Calls -> {"new", "running"} \cup Breaker!Ended]

\* A call inside the breaker has not ended: its failure is a new one.
RunningIsAsked == \A c \in Calls : Breaker!Running(c) => answer[c] = "asked"

Evidence == /\ IsFiniteSet(Unanswered)
            /\ consecutiveFailures <= Cardinality(Unanswered)
            /\ openedFor # None => Enough
            /\ \A c \in Calls : isProbe[c] => Enough

AnswerTypes == answer \in [Calls -> {"idle", "asked"} \cup Endings]

TripInv == AnswerTypes /\ BreakerTypes /\ RunningIsAsked /\ Evidence

LEMMA TripInit == Init => TripInv
<1> SUFFICES ASSUME Init PROVE TripInv
    OBVIOUS
<1>1. AnswerTypes /\ BreakerTypes /\ RunningIsAsked
    BY DEF Init, Breaker!Init, AnswerTypes, BreakerTypes, RunningIsAsked,
           Breaker!Running
<1>2. Unanswered = {}
    BY DEF Init, Unanswered
<1>3. IsFiniteSet(Unanswered) /\ Cardinality(Unanswered) = 0
    BY <1>2, FS_EmptySet
<1>4. consecutiveFailures = 0 /\ openedFor = None
    BY DEF Init, Breaker!Init
<1>5. \A c \in Calls : ~isProbe[c]
    BY Zenon DEF Init, Breaker!Init
<1> QED
    BY <1>1, <1>3, <1>4, <1>5 DEF TripInv, Evidence

\* The state that is not closed is one that an opening instant is known of.
LEMMA NotClosed == Breaker!State # "closed" <=> openedFor # None
BY DEF Breaker!State, Breaker!StateOf

\* Steps that end no call with a failure: evidence may be reset but is not lost.
LEMMA NoNewFailure ==
    ASSUME TripInv, Unanswered' = Unanswered,
           AnswerTypes', BreakerTypes', RunningIsAsked',
           consecutiveFailures' \in {0, consecutiveFailures},
           openedFor' # None => openedFor # None,
           \A c \in Calls : isProbe'[c] => (isProbe[c] \/ openedFor # None)
    PROVE  TripInv'
<1>1. Enough' <=> Enough
    BY DEF Enough
<1>2. consecutiveFailures' <= Cardinality(Unanswered')
  <2>1. Cardinality(Unanswered) \in Nat
      BY FS_CardinalityType DEF TripInv, Evidence
  <2> QED
      BY <2>1 DEF TripInv, Evidence, BreakerTypes
<1> QED
    BY <1>1, <1>2 DEF TripInv, Evidence

\* A call that ends without an answer: one more failure, and one more call that
\* has none.
LEMMA NewFailure ==
    ASSUME TripInv, NEW c \in Calls, Breaker!Fail(c),
           NEW ending \in {"unreachable", "escaped"},
           answer' = [answer EXCEPT ![c] = ending]
    PROVE  TripInv'
<1> USE BreakerAssumption
<1>1. answer[c] = "asked"
    BY DEF TripInv, RunningIsAsked, Breaker!Fail, Breaker!Leave
<1>2. Unanswered' = Unanswered \cup {c} /\ c \notin Unanswered
    BY <1>1 DEF Unanswered, TripInv, AnswerTypes
<1>3. /\ IsFiniteSet(Unanswered')
      /\ Cardinality(Unanswered) \in Nat
      /\ Cardinality(Unanswered') = Cardinality(Unanswered) + 1
    BY <1>2, FS_AddElement, FS_CardinalityType DEF TripInv, Evidence
<1>4. AnswerTypes' /\ BreakerTypes' /\ RunningIsAsked'
  <2>1. AnswerTypes'
      BY DEF TripInv, AnswerTypes, Endings
  <2>2. BreakerTypes'
    <3>1. consecutiveFailures' \in Nat
        BY DEF TripInv, BreakerTypes, Breaker!Fail, Breaker!RecordFailure
    <3>2. isProbe' = [isProbe EXCEPT ![c] = FALSE] /\ pc' = [pc EXCEPT ![c] = "raised"]
        BY DEF Breaker!Fail, Breaker!Leave, Breaker!Release
    <3> QED
        BY <3>1, <3>2 DEF TripInv, BreakerTypes, Breaker!Ended
  <2>3. RunningIsAsked'
      BY DEF TripInv, BreakerTypes, AnswerTypes, RunningIsAsked, Breaker!Running,
             Breaker!Fail, Breaker!Leave
  <2> QED
      BY <2>1, <2>2, <2>3
<1>5. Enough => Enough'
    BY <1>3 DEF Enough
<1>6. consecutiveFailures' <= Cardinality(Unanswered')
    BY <1>3 DEF TripInv, BreakerTypes, Evidence, Breaker!Fail, Breaker!RecordFailure
<1>7. openedFor' # None => Enough'
  <2>1. CASE isProbe[c] \/ openedFor # None
      BY <1>5, <2>1 DEF TripInv, Evidence
  <2>2. CASE ~isProbe[c] /\ openedFor = None
    <3>1. openedFor' # None => consecutiveFailures' >= FailureThreshold
        BY <2>2 DEF Breaker!Fail, Breaker!RecordFailure
    <3>2. consecutiveFailures' \in Nat
        BY <1>4 DEF BreakerTypes
    <3> QED
        BY <1>3, <1>6, <3>1, <3>2 DEF Enough
  <2> QED
      BY <2>1, <2>2
<1>8. \A d \in Calls : isProbe'[d] => Enough'
  <2>1. \A d \in Calls : isProbe'[d] => isProbe[d]
      BY DEF Breaker!Fail, Breaker!Leave, Breaker!Release, TripInv, BreakerTypes
  <2> QED
      BY <1>5, <2>1 DEF TripInv, Evidence
<1> QED
    BY <1>3, <1>4, <1>6, <1>7, <1>8 DEF TripInv, Evidence

-----------------------------------------------------------------------------
\* A call whose answer changes, and not to a failure, was not one of those.
LEMMA StillUnanswered ==
    ASSUME TripInv, NEW c \in Calls, answer[c] \in {"idle", "asked"},
           NEW ending, ending \notin {"unreachable", "escaped"},
           answer' = [answer EXCEPT ![c] = ending]
    PROVE  Unanswered' = Unanswered
BY DEF TripInv, AnswerTypes, Unanswered

LEMMA AuthoriseTrips ==
    ASSUME TripInv, NEW c \in Calls, Authorise(c)
    PROVE  TripInv'
<1>1. answer[c] = "idle"
    BY DEF Authorise
<1>2. CASE Breaker!AdmitClosed(c) /\ answer' = [answer EXCEPT ![c] = "asked"]
  <2> USE <1>2 DEF Breaker!AdmitClosed
  <2>1. Unanswered' = Unanswered
      BY <1>1, StillUnanswered
  <2>2. AnswerTypes' /\ BreakerTypes' /\ RunningIsAsked'
      BY DEF TripInv, AnswerTypes, BreakerTypes, RunningIsAsked, Breaker!Running
  <2> QED
      BY <2>1, <2>2, NoNewFailure
<1>3. CASE Breaker!AdmitProbe(c) /\ answer' = [answer EXCEPT ![c] = "asked"]
  <2> USE <1>3 DEF Breaker!AdmitProbe
  <2>1. Unanswered' = Unanswered
      BY <1>1, StillUnanswered
  <2>2. AnswerTypes' /\ RunningIsAsked'
      BY DEF TripInv, AnswerTypes, BreakerTypes, RunningIsAsked, Breaker!Running
  <2>3. BreakerTypes'
      BY DEF TripInv, BreakerTypes
  <2>4. openedFor # None
      BY NotClosed
  <2> QED
      BY <2>1, <2>2, <2>3, <2>4, NoNewFailure
<1>4. CASE Breaker!Refuse(c) /\ answer' = [answer EXCEPT ![c] = "circuit_open"]
  <2> USE <1>4 DEF Breaker!Refuse
  <2>1. Unanswered' = Unanswered
      BY <1>1, StillUnanswered
  <2>2. AnswerTypes' /\ BreakerTypes' /\ RunningIsAsked'
      BY DEF TripInv, AnswerTypes, BreakerTypes, RunningIsAsked, Breaker!Running,
             Breaker!Ended, Endings
  <2> QED
      BY <2>1, <2>2, NoNewFailure
<1> QED
    BY <1>2, <1>3, <1>4 DEF Authorise

\* A call that ends with an answer, or is cancelled.
LEMMA QuietEndTrips ==
    ASSUME TripInv, NEW c \in Calls, NEW ending \in Endings \ {"unreachable", "escaped"},
           Breaker!Succeed(c) \/ Breaker!Cancel(c), Leave(c, ending)
    PROVE  TripInv'
<1>1. answer[c] = "asked"
    BY DEF TripInv, RunningIsAsked, Breaker!Succeed, Breaker!Cancel, Breaker!Leave
<1>2. answer' = [answer EXCEPT ![c] = ending]
    BY DEF Leave
<1>3. Unanswered' = Unanswered
    BY <1>1, <1>2, StillUnanswered
<1>4. PICK outcome \in Breaker!Ended : Breaker!Leave(c, outcome)
    BY DEF Breaker!Succeed, Breaker!Cancel, Breaker!Ended
<1>5. /\ isProbe' = [isProbe EXCEPT ![c] = FALSE]
      /\ pc' = [pc EXCEPT ![c] = outcome]
    BY <1>4 DEF Breaker!Leave, Breaker!Release
<1>6. /\ consecutiveFailures' \in {0, consecutiveFailures}
      /\ openedFor' \in {None, openedFor}
    BY DEF Breaker!Succeed, Breaker!RecordSuccess, Breaker!Cancel
<1>7. AnswerTypes' /\ BreakerTypes' /\ RunningIsAsked'
    BY <1>2, <1>5, <1>6 DEF TripInv, AnswerTypes, BreakerTypes, RunningIsAsked,
       Breaker!Running, Breaker!Ended
<1>8. \A d \in Calls : isProbe'[d] => isProbe[d]
    BY <1>5 DEF TripInv, BreakerTypes
<1> QED
    BY <1>3, <1>6, <1>7, <1>8, NoNewFailure

\* A step of the loop or of the provider that leaves the breaker alone.
LEMMA AsideTrips ==
    ASSUME TripInv, UNCHANGED <<breakerVars, answer>>
    PROVE  TripInv'
BY DEF TripInv, AnswerTypes, BreakerTypes, RunningIsAsked, Evidence, Enough, Unanswered,
       Breaker!Running, breakerVars

LEMMA AttemptFailsTrips ==
    ASSUME TripInv, NEW c \in Calls, NEW exc, AttemptFails(c, exc)
    PROVE  TripInv'
<1>1. CASE Retry(c, exc)
    BY <1>1, AsideTrips DEF Retry
<1>2. CASE GiveUp(c)
    BY <1>2, NewFailure DEF GiveUp, Leave
<1> QED
    BY <1>1, <1>2 DEF AttemptFails

LEMMA TripStep == TripInv /\ [Next]_vars => TripInv'
<1> SUFFICES ASSUME TripInv, [Next]_vars PROVE TripInv'
    OBVIOUS
<1>1. CASE Tick
  <2> USE <1>1 DEF Tick, Breaker!Tick
  <2>1. openedFor # None
      BY BreakerAssumption
  <2>2. Unanswered' = Unanswered
      BY DEF Unanswered
  <2>3. AnswerTypes' /\ BreakerTypes' /\ RunningIsAsked'
      BY DEF TripInv, AnswerTypes, BreakerTypes, RunningIsAsked, Breaker!Running
  <2> QED
      BY <2>1, <2>2, <2>3, NoNewFailure
<1>2. CASE UNCHANGED vars
    BY <1>2, AsideTrips DEF vars
<1>3. ASSUME NEW c \in Calls, Send(c) \/ Provider(c) PROVE TripInv'
    BY <1>3, AsideTrips
    DEF Send, Provider, TakePayment, TakeNothing, Respond
<1>4. ASSUME NEW c \in Calls, ConnectFails(c) \/ TimesOut(c) PROVE TripInv'
    BY <1>4, AttemptFailsTrips DEF ConnectFails, TimesOut
<1>5. ASSUME NEW c \in Calls, Receive(c) PROVE TripInv'
  <2>1. CASE IsAnswer(reply[c])
    <3>1. EndingOf(reply[c]) \in Endings \ {"unreachable", "escaped"}
        BY <2>1 DEF IsAnswer, AnswerStatuses, EndingOf, Endings
    <3> QED
        BY <1>5, <2>1, <3>1, QuietEndTrips DEF Receive
  <2>2. CASE ~IsAnswer(reply[c])
      BY <1>5, <2>2, AttemptFailsTrips DEF Receive
  <2> QED
      BY <2>1, <2>2
<1>6. ASSUME NEW c \in Calls, Escape(c) PROVE TripInv'
    BY <1>6, NewFailure DEF Escape, Leave
<1>7. ASSUME NEW c \in Calls, Cancel(c) PROVE TripInv'
    BY <1>7, QuietEndTrips DEF Cancel, Endings
<1> QED
    BY <1>1, <1>2, <1>3, <1>4, <1>5, <1>6, <1>7, AuthoriseTrips
    DEF Next, Client, Attempting

\* The circuit opens for as many whole calls without an answer as the threshold
\* says, however many attempts each of them made, and for nothing else.
THEOREM TripsOnlyOnUnansweredCalls == Spec => []TripsOnUnansweredCalls
<1>1. TripInv => TripsOnUnansweredCalls
    BY NotClosed DEF TripInv, Evidence, Enough, TripsOnUnansweredCalls
<1> QED
    BY <1>1, TripInit, TripStep, PTL DEF Spec

-----------------------------------------------------------------------------
\* The adapter uses the breaker as the breaker is meant to be used: whatever the
\* retry loop and the provider do, the breaker only sees calls enter, end and
\* the clock tick, so that what is proved of CircuitBreaker holds here.
THEOREM GatewayUsesBreaker == Spec => Breaker!Spec
<1>1. Init => Breaker!Init
    BY DEF Init
<1>2. [Next]_vars => [Breaker!Next]_(Breaker!vars)
  <2> SUFFICES ASSUME [Next]_vars PROVE Breaker!Next \/ UNCHANGED Breaker!vars
      OBVIOUS
  <2> USE DEF Breaker!Next, Breaker!Enter, Breaker!End
  <2>1. UNCHANGED breakerVars => UNCHANGED Breaker!vars
      BY DEF breakerVars, Breaker!vars
  <2>2. CASE Tick
      BY <2>2 DEF Tick
  <2>3. CASE UNCHANGED vars
      BY <2>1, <2>3 DEF vars
  <2>4. ASSUME NEW c \in Calls, Authorise(c) PROVE Breaker!Next
      BY <2>4 DEF Authorise
  <2>5. ASSUME NEW c \in Calls, NEW exc, AttemptFails(c, exc)
        PROVE  Breaker!Next \/ UNCHANGED breakerVars
      BY <2>5 DEF AttemptFails, Retry, GiveUp
  <2>6. ASSUME NEW c \in Calls, Receive(c)
        PROVE  Breaker!Next \/ UNCHANGED breakerVars
      BY <2>5, <2>6 DEF Receive
  <2>7. ASSUME NEW c \in Calls, Escape(c) \/ Cancel(c) PROVE Breaker!Next
      BY <2>7 DEF Escape, Cancel
  <2>8. ASSUME NEW c \in Calls, Send(c) \/ Provider(c) PROVE UNCHANGED breakerVars
      BY <2>8 DEF Send, Provider, TakePayment, TakeNothing, Respond
  <2> QED
      BY <2>1, <2>2, <2>3, <2>4, <2>5, <2>6, <2>7, <2>8
      DEF Next, Client, Attempting, ConnectFails, TimesOut
<1> QED
    BY <1>1, <1>2, PTL DEF Spec, Breaker!Spec
=============================================================================
