------------------------ MODULE RequestPipelineProofs ------------------------
(***************************************************************************)
(* Proofs about what surrounds every request: RequestPipeline, for any     *)
(* tasks, ids, checks and timeout; and LogPipeline with Redaction, for any *)
(* applications, configured fields, calls and depth of what is logged.     *)
(*                                                                         *)
(* A task's invariant says, by where the task is, what its context, its    *)
(* status and its answer are; that of its checks says that a check that    *)
(* still runs is as old as the report it is for.                           *)
(*                                                                         *)
(* What masking shows of a value is proved one step into the value after   *)
(* the other (ReachedMasked, MaskShows); the invariant of the loggers says *)
(* where a record goes and what is written of it on its way (OnItsWay).    *)
(***************************************************************************)
EXTENDS RequestPipeline, LogPipeline, FiniteSetTheorems, TLAPS

\* The request's own id is bound from the entry to the unwinding, and nothing is
\* bound outside of that.
Bound(t) == context[t] = IF at[t] \in {"inside", "probing", "answering"}
                         THEN scopeId[t] ELSE None

\* What was sent so far, and what the record will say or says.
Told(t) ==
    /\ at[t] \in {"inside", "probing"} => sent[t] = None /\ status[t] = 500
    /\ at[t] = "answering" => sent[t] # None /\ sent[t].status = status[t]
    /\ at[t] = "unhandled" =>
           /\ sent[t] = None => status[t] = 500
           /\ sent[t] # None => sent[t].status = status[t]
           /\ endpoint[t] = "orders" => record[t] = status[t]
    /\ at[t] = "inside" => endpoint[t] = "orders"
    /\ at[t] = "probing" => endpoint[t] = "readyz"

Own(t) == /\ line[t].own = line[t].carried
          /\ sent[t] # None => sent[t].id = scopeId[t]

Recorded(t) ==
    at[t] = "between" /\ scopeId[t] # None /\ endpoint[t] = "orders" =>
        record[t] = IF sent[t] = None THEN 500 ELSE sent[t].status

\* What /readyz answered is what its gating checks said, which stay as they were.
Decided(t) ==
    at[t] = "answering" /\ endpoint[t] = "readyz" =>
        /\ Readiness!Underway(t) = {}
        /\ status[t] = 200 <=> Readiness!Healthy(t)

\* The timers of one report were set together.
Timers(t) ==
    /\ elapsed[t] <= Timeout
    /\ \A c \in Readiness!Underway(t) : left[t][c] + elapsed[t] = Timeout

Types == /\ at \in [Tasks -> {"between", "inside", "probing", "answering", "unhandled"}]
         /\ endpoint \in [Tasks -> {"orders", "readyz"}]
         /\ scopeId \in [Tasks -> Tag]
         /\ context \in [Tasks -> Tag]
         /\ status \in [Tasks -> Statuses]
         /\ sent \in [Tasks -> [status : Statuses, id : Tag] \cup {None}]
         /\ record \in [Tasks -> Statuses \cup {None}]
         /\ line \in [Tasks -> [own : Tag, carried : Tag]]

Still(t) == Readiness!Underway(t) # {} => at[t] = "probing"

TaskInv(t) == Bound(t) /\ Told(t) /\ Own(t) /\ Recorded(t)
CheckInv(t) == Decided(t) /\ Timers(t) /\ Still(t)

IInv == /\ Types /\ Readiness!TypeOK
        /\ \A t \in Tasks : TaskInv(t) /\ CheckInv(t)

-----------------------------------------------------------------------------
\* What a step of one task leaves of another.
Alone(t) == \A u \in Tasks \ {t} :
    /\ at'[u] = at[u] /\ endpoint'[u] = endpoint[u] /\ scopeId'[u] = scopeId[u]
    /\ context'[u] = context[u] /\ status'[u] = status[u] /\ sent'[u] = sent[u]
    /\ record'[u] = record[u] /\ line'[u] = line[u]
    /\ result'[u] = result[u] /\ left'[u] = left[u] /\ elapsed'[u] = elapsed[u]

LEMMA OthersKeep ==
    ASSUME IInv, NEW t \in Tasks, Types', Readiness!TypeOK', Alone(t),
           TaskInv(t)', CheckInv(t)'
    PROVE  IInv'
<1> SUFFICES ASSUME NEW u \in Tasks, u # t PROVE TaskInv(u)' /\ CheckInv(u)'
  BY DEF IInv
<1>1. TaskInv(u) /\ CheckInv(u)
  BY DEF IInv
<1>2. TaskInv(u)'
  BY <1>1 DEF Alone, TaskInv, Bound, Told, Own, Recorded
<1>3. Readiness!Underway(u)' = Readiness!Underway(u)
      /\ Readiness!Healthy(u)' = Readiness!Healthy(u)
  BY DEF Alone, Readiness!Underway, Readiness!Healthy
<1>4. CheckInv(u)'
  BY <1>1, <1>3 DEF Alone, CheckInv, Decided, Timers, Still
<1> QED
  BY <1>2, <1>4

LEMMA InitIInv == Init => IInv
<1> SUFFICES ASSUME Init PROVE IInv
  OBVIOUS
<1> USE NoneAssumption, TimeoutAssumption DEF Init, Tag, Statuses
<1>1. Types
  BY DEF Types
<1>2. Readiness!TypeOK
  BY DEF Readiness!Init, Readiness!TypeOK, Readiness!Results
<1>3. ASSUME NEW t \in Tasks PROVE TaskInv(t)
  BY DEF TaskInv, Bound, Told, Own, Recorded
<1>4. ASSUME NEW t \in Tasks PROVE CheckInv(t)
  BY DEF CheckInv, Decided, Timers, Still, Readiness!Init, Readiness!Underway
<1> QED
  BY <1>1, <1>2, <1>3, <1>4 DEF IInv

-----------------------------------------------------------------------------
(***************************************************************************)
(* The steps of one task.                                                  *)
(***************************************************************************)
\* A step that leaves the checks alone: what was decided stays decided.
LEMMA ChecksKeep ==
    ASSUME IInv, NEW t \in Tasks, UNCHANGED registryVars
    PROVE  /\ Readiness!TypeOK'
           /\ Readiness!Underway(t)' = Readiness!Underway(t)
           /\ Readiness!Healthy(t)' = Readiness!Healthy(t)
           /\ Timers(t)'
BY DEF IInv, registryVars, Readiness!TypeOK, Readiness!Underway, Readiness!Healthy,
       CheckInv, Timers

LEMMA EnterStep ==
    ASSUME IInv, NEW t \in Tasks, NEW e \in {"orders", "readyz"}, NEW id \in Ids,
           Enter(t, e, id)
    PROVE  IInv'
<1> USE NoneAssumption, TimeoutAssumption DEF Enter, EnterWith, Tag
<1>1. Types'
  BY DEF IInv, Types, Statuses
<1>2. TaskInv(t)'
  <2>1. Bound(t)'
    BY DEF IInv, Types, Bound
  <2>2. Told(t)'
    BY DEF IInv, Types, Told
  <2>3. Own(t)'
    BY DEF IInv, Types, TaskInv, Own
  <2>4. Recorded(t)'
    BY DEF IInv, Types, Recorded
  <2> QED
    BY <2>1, <2>2, <2>3, <2>4 DEF TaskInv
<1>3. CASE e = "orders"
  <2>1. UNCHANGED registryVars
    BY <1>3
  <2>2. Readiness!Underway(t) = {}
    BY DEF IInv, CheckInv, Still
  <2>3. Decided(t)' /\ Still(t)'
    BY <1>3, <2>1, <2>2, ChecksKeep DEF IInv, Types, Decided, Still
  <2>4. CheckInv(t)'
    BY <2>1, <2>3, ChecksKeep DEF CheckInv
  <2>5. Alone(t)
    BY <2>1 DEF IInv, Types, Alone, registryVars
  <2> QED
    BY <1>1, <1>2, <2>1, <2>4, <2>5, ChecksKeep, OthersKeep
<1>4. CASE e = "readyz"
  <2>1. Readiness!Begin(t) /\ at'[t] = "probing"
    BY <1>4 DEF IInv, Types
  <2>2. Readiness!TypeOK'
    BY <2>1 DEF IInv, Readiness!TypeOK, Readiness!Begin, Readiness!Results
  <2>3. Timers(t)'
    BY <2>1 DEF IInv, Readiness!TypeOK, Readiness!Begin, Readiness!Underway, Timers
  <2>4. CheckInv(t)'
    BY <2>1, <2>3 DEF CheckInv, Decided, Still
  <2>5. Alone(t)
    BY <2>1 DEF IInv, Types, Alone, Readiness!TypeOK, Readiness!Begin
  <2> QED
    BY <1>1, <1>2, <2>2, <2>4, <2>5, OthersKeep
<1> QED
  BY <1>3, <1>4

\* A line of a request that is being served carries its id.
LEMMA OwnLine ==
    ASSUME IInv, NEW t \in Tasks, at[t] \in {"inside", "probing", "answering"},
           Log(t) \/ UNCHANGED line
    PROVE  /\ line' \in [Tasks -> [own : Tag, carried : Tag]]
           /\ line'[t].own = line'[t].carried
           /\ \A u \in Tasks \ {t} : line'[u] = line[u]
BY DEF IInv, Types, TaskInv, Bound, Own, Log

\* The answer goes out: of an endpoint, or of a report that is complete.
LEMMA StartStep ==
    ASSUME IInv, NEW t \in Tasks, NEW s \in Statuses, Start(t, s),
           at[t] \in {"inside", "probing"},
           at[t] = "probing" => /\ Readiness!Underway(t) = {}
                                /\ s = 200 <=> Readiness!Healthy(t),
           Log(t) \/ UNCHANGED line,
           UNCHANGED registryVars
    PROVE  IInv'
<1> USE NoneAssumption DEF Start, requestVars
<1>0. sent' = [sent EXCEPT ![t] = [status |-> s, id |-> scopeId[t]]]
      /\ [status |-> s, id |-> scopeId[t]] \in [status : Statuses, id : Tag]
  BY DEF IInv, Types
<1>1. Types'
  BY <1>0, OwnLine DEF IInv, Types
<1>2. sent'[t].status = s /\ sent'[t].id = scopeId[t] /\ sent'[t] # None
  <2>1. sent'[t] = [status |-> s, id |-> scopeId[t]]
    BY <1>0 DEF IInv, Types
  <2>2. s \in Nat /\ scopeId[t] \in Ids \cup {None}
    BY DEF IInv, Types, Tag, Statuses, HandledErrors
  <2> QED
    BY <2>1, <2>2
<1>3. at'[t] = "answering" /\ status'[t] = s
  BY DEF IInv, Types
<1>4. TaskInv(t)'
  <2>1. Bound(t)'
    BY <1>3 DEF IInv, TaskInv, Bound
  <2>2. Told(t)' /\ Recorded(t)'
    BY <1>2, <1>3 DEF Told, Recorded
  <2>3. Own(t)'
    BY <1>2, OwnLine DEF Own
  <2> QED
    BY <2>1, <2>2, <2>3 DEF TaskInv
<1>5. CheckInv(t)'
  <2>1. at[t] = "inside" => Readiness!Underway(t) = {} /\ endpoint[t] = "orders"
    BY DEF IInv, TaskInv, Told, CheckInv, Still
  <2>2. Readiness!Underway(t)' = {}
    BY <2>1, ChecksKeep
  <2>3. Decided(t)'
    BY <1>3, <2>1, <2>2, ChecksKeep DEF Decided
  <2> QED
    BY <2>2, <2>3, ChecksKeep DEF CheckInv, Still
<1>6. Alone(t)
  BY OwnLine DEF IInv, Types, Alone, registryVars
<1> QED
  BY <1>1, <1>4, <1>5, <1>6, ChecksKeep, OthersKeep

\* The middlewares are left, with the record written on the way.
LEMMA UnwindStep ==
    ASSUME IInv, NEW t \in Tasks, NEW to \in {"between", "unhandled"},
           at[t] \in {"inside", "probing", "answering"},
           Unwind(t, to)
    PROVE  IInv'
<1> USE NoneAssumption DEF Unwind, requestVars
<1>0. /\ line' \in [Tasks -> [own : Tag, carried : Tag]]
      /\ line'[t].own = line'[t].carried
      /\ \A u \in Tasks \ {t} : line'[u] = line[u]
  BY OwnLine
<1>1. Types'
  <2>1. record' \in [Tasks -> Statuses \cup {None}]
    BY DEF IInv, Types
  <2>2. at' \in [Tasks -> {"between", "inside", "probing", "answering", "unhandled"}]
    BY DEF IInv, Types
  <2>3. context' \in [Tasks -> Tag]
    BY DEF IInv, Types, Tag
  <2> QED
    BY <1>0, <2>1, <2>2, <2>3 DEF IInv, Types
<1>2. at'[t] = to /\ context'[t] = None
  BY DEF IInv, Types
<1>3. endpoint[t] = "orders" => record'[t] = status[t]
  BY DEF IInv, Types
<1>4. TaskInv(t)'
  <2>1. Bound(t)'
    BY <1>2 DEF Bound
  <2>2. TaskInv(t)
    BY DEF IInv
  <2>3. Told(t)'
    BY <1>2, <1>3, <2>2 DEF TaskInv, Told
  <2>4. Own(t)'
    BY <1>0, <2>2 DEF TaskInv, Own
  <2>5. Recorded(t)'
    BY <1>2, <1>3, <2>2 DEF TaskInv, Told, Recorded
  <2> QED
    BY <2>1, <2>3, <2>4, <2>5 DEF TaskInv
<1>5. Readiness!TypeOK' /\ Readiness!Underway(t)' = {} /\ Timers(t)'
  BY TimeoutAssumption
  DEF IInv, Readiness!TypeOK, Readiness!End, Readiness!Underway, Readiness!Results, Timers
<1>6. CheckInv(t)'
  BY <1>2, <1>5 DEF CheckInv, Decided, Still
<1>7. Alone(t)
  BY <1>0 DEF IInv, Types, Alone, Readiness!TypeOK, Readiness!End
<1> QED
  BY <1>1, <1>4, <1>5, <1>6, <1>7, OthersKeep

\* The steps that only log.
LEMMA LogStep ==
    ASSUME IInv, NEW t \in Tasks, EndpointLogs(t) \/ ServerLogs(t)
    PROVE  IInv'
<1> USE DEF EndpointLogs, ServerLogs, requestVars, answerVars
<1>1. /\ line' \in [Tasks -> [own : Tag, carried : Tag]]
      /\ line'[t].own = line'[t].carried
      /\ \A u \in Tasks \ {t} : line'[u] = line[u]
  <2>1. CASE EndpointLogs(t)
    BY <2>1, OwnLine
  <2>2. CASE ServerLogs(t)
    <3>1. context[t] = None
      BY <2>2 DEF IInv, TaskInv, Bound
    <3>2. line' = [line EXCEPT ![t] = [own |-> None, carried |-> None]]
      BY <2>2, <3>1
    <3> QED
      BY <3>2 DEF IInv, Types, Tag
  <2> QED
    BY <2>1, <2>2
<1>2. Types'
  BY <1>1 DEF IInv, Types
<1>3. TaskInv(t)'
  BY <1>1 DEF IInv, TaskInv, Bound, Told, Own, Recorded
<1>4. CheckInv(t)'
  BY ChecksKeep DEF IInv, CheckInv, Decided, Still
<1>5. Alone(t)
  BY <1>1 DEF Alone, registryVars
<1> QED
  BY <1>2, <1>3, <1>4, <1>5, ChecksKeep, OthersKeep

\* The last step of a request that left the middlewares by an exception.
LEMMA UnhandledStep ==
    ASSUME IInv, NEW t \in Tasks, at[t] = "unhandled",
           at' = [at EXCEPT ![t] = "between"],
           UnexpectedError(t) \/ UNCHANGED <<sent, line>>,
           UNCHANGED <<requestVars, context, status, record, registryVars>>
    PROVE  IInv'
<1> USE NoneAssumption DEF UnexpectedError, requestVars
<1>0. TaskInv(t) /\ CheckInv(t)
  BY DEF IInv
<1>1. CASE UnexpectedError(t)
  <2>0. /\ sent[t] = None => sent'[t] = [status |-> 500, id |-> scopeId[t]]
        /\ sent[t] # None => sent'[t] = sent[t]
        /\ at'[t] = "between"
    BY <1>1 DEF IInv, Types
  <2>1. Types'
    <3>1. [status |-> 500, id |-> scopeId[t]] \in [status : Statuses, id : Tag]
      BY DEF IInv, Types, Statuses
    <3>2. sent' \in [Tasks -> [status : Statuses, id : Tag] \cup {None}]
      BY <1>1, <3>1 DEF IInv, Types
    <3>3. line' \in [Tasks -> [own : Tag, carried : Tag]]
      BY <1>1 DEF IInv, Types
    <3> QED
      BY <1>1, <3>2, <3>3 DEF IInv, Types
  <2>2. line'[t].own = line'[t].carried
    BY <1>1 DEF IInv, Types
  <2>3. /\ sent'[t].id = scopeId[t] /\ sent'[t] # None
        /\ endpoint[t] = "orders" => record[t] = sent'[t].status
    <3>1. scopeId[t] \in Ids \cup {None}
      BY DEF IInv, Types, Tag
    <3>2. CASE sent[t] = None
      <4>1. sent'[t] = [status |-> 500, id |-> scopeId[t]]
        BY <2>0, <3>2
      <4>2. sent'[t].status = 500 /\ sent'[t].id = scopeId[t] /\ sent'[t] # None
        BY <3>1, <4>1
      <4>3. endpoint[t] = "orders" => record[t] = 500
        BY <1>0, <3>2 DEF TaskInv, Told
      <4> QED
        BY <4>2, <4>3
    <3>3. CASE sent[t] # None
      BY <1>0, <2>0, <3>3 DEF TaskInv, Told, Own
    <3> QED
      BY <3>2, <3>3
  <2>4. TaskInv(t)'
    <3>1. UNCHANGED <<endpoint, scopeId, context, record>>
      BY <1>1
    <3>2. Bound(t)'
      BY <1>0, <2>0, <3>1 DEF TaskInv, Bound
    <3>3. Told(t)' /\ Own(t)' /\ Recorded(t)'
      BY <2>0, <2>2, <2>3, <3>1 DEF Told, Own, Recorded
    <3> QED
      BY <3>2, <3>3 DEF TaskInv
  <2>5. Alone(t)
    BY <1>1 DEF IInv, Types, Alone, registryVars
  <2>6. CheckInv(t)'
    BY <1>0, <2>0, ChecksKeep DEF CheckInv, Decided, Still
  <2> QED
    BY <2>1, <2>4, <2>5, <2>6, ChecksKeep, OthersKeep
<1>2. CASE UNCHANGED <<sent, line>>
  <2>0. at'[t] = "between"
    BY DEF IInv, Types
  <2>1. Types'
    BY <1>2 DEF IInv, Types
  <2>2. TaskInv(t)'
    BY <1>0, <1>2, <2>0 DEF TaskInv, Bound, Told, Own, Recorded
  <2>3. Alone(t)
    BY <1>2 DEF IInv, Types, Alone, registryVars
  <2>4. CheckInv(t)'
    BY <1>0, <2>0, ChecksKeep DEF CheckInv, Decided, Still
  <2> QED
    BY <2>1, <2>2, <2>3, <2>4, ChecksKeep, OthersKeep
<1> QED
  BY <1>1, <1>2

\* The end of a check, which may be logged.
LEMMA SettleStep ==
    ASSUME IInv, NEW t \in Tasks, NEW c \in Readiness!Checks,
           NEW res \in {"ok", "error", "timeout"}, Readiness!Settle(t, c, res),
           Log(t) \/ UNCHANGED line,
           UNCHANGED <<at, requestVars, context, answerVars>>
    PROVE  IInv'
<1> USE DEF requestVars, answerVars
<1>0. TaskInv(t) /\ CheckInv(t)
  BY DEF IInv
<1>1. at[t] = "probing"
  BY <1>0 DEF CheckInv, Still, Readiness!Settle
<1>2. Types'
  BY <1>1, OwnLine DEF IInv, Types
<1>3. TaskInv(t)'
  BY <1>0, <1>1, OwnLine DEF TaskInv, Bound, Told, Own, Recorded
<1>4. Readiness!TypeOK'
  BY DEF IInv, Readiness!TypeOK, Readiness!Settle, Readiness!Results
<1>5. Readiness!Underway(t)' \subseteq Readiness!Underway(t)
  BY DEF IInv, Readiness!TypeOK, Readiness!Settle, Readiness!Underway
<1>6. CheckInv(t)'
  BY <1>0, <1>1, <1>5 DEF CheckInv, Decided, Timers, Still, Readiness!Settle
<1>7. Alone(t)
  BY <1>1, OwnLine DEF IInv, Alone, Readiness!TypeOK, Readiness!Settle
<1> QED
  BY <1>2, <1>3, <1>4, <1>6, <1>7, OthersKeep

-----------------------------------------------------------------------------
\* Time passes for the checks of every task.
LEMMA TickStep == ASSUME IInv, Tick PROVE IInv'
<1> USE DEF Tick, Readiness!Tick, requestVars, answerVars
<1>1. Types' /\ (\A t \in Tasks : TaskInv(t)')
  BY DEF IInv, Types, TaskInv, Bound, Told, Own, Recorded
<1>2. ASSUME NEW t \in Tasks
      PROVE  /\ Readiness!Underway(t)' = Readiness!Underway(t)
             /\ Readiness!Healthy(t)' = Readiness!Healthy(t)
  BY DEF Readiness!Underway, Readiness!Healthy
<1>3. ASSUME NEW t \in Tasks, NEW c \in Readiness!Underway(t)
      PROVE  /\ left'[t][c] = left[t][c] - 1
             /\ left[t][c] \in 1..Timeout
             /\ left[t][c] + elapsed[t] = Timeout
             /\ elapsed'[t] = elapsed[t] + 1
  <2>1. c \in Readiness!Checks
    BY DEF Readiness!Underway
  <2>2. left[t][c] \in 0..Timeout /\ elapsed[t] \in 0..Timeout + 1
    BY <2>1 DEF IInv, Readiness!TypeOK
  <2>3. left[t][c] > 0 /\ left'[t][c] = left[t][c] - 1
    BY <2>1
  <2>4. left[t][c] + elapsed[t] = Timeout /\ elapsed[t] <= Timeout
    BY DEF IInv, CheckInv, Timers
  <2>5. elapsed'[t] = elapsed[t] + 1
    BY <2>4
  <2> QED
    BY <2>2, <2>3, <2>4, <2>5, TimeoutAssumption
<1>4. ASSUME NEW t \in Tasks, Readiness!Underway(t) = {}
      PROVE  UNCHANGED elapsed[t]
  BY <1>4
<1>5. ASSUME NEW t \in Tasks PROVE elapsed'[t] \in 0..Timeout
  <2>1. elapsed[t] \in 0..Timeout
    BY TimeoutAssumption DEF IInv, Readiness!TypeOK, CheckInv, Timers
  <2>2. CASE Readiness!Underway(t) = {}
    BY <1>4, <2>1, <2>2
  <2>3. CASE Readiness!Underway(t) # {}
    <3>1. PICK c \in Readiness!Underway(t) : TRUE
      BY <2>3
    <3>2. /\ left[t][c] \in 1..Timeout /\ left[t][c] + elapsed[t] = Timeout
          /\ elapsed'[t] = elapsed[t] + 1
      BY <1>3
    <3> QED
      BY ONLY <2>1, <3>2, TimeoutAssumption
  <2> QED
    BY <2>2, <2>3
<1>6. Readiness!TypeOK'
  <2>1. ASSUME NEW t \in Tasks, NEW c \in Readiness!Checks
        PROVE  left'[t][c] \in 0..Timeout
    <3>1. left[t][c] \in 0..Timeout
      BY DEF IInv, Readiness!TypeOK
    <3>2. CASE c \in Readiness!Underway(t)
      BY <1>3, <3>1, <3>2, TimeoutAssumption
    <3>3. CASE c \notin Readiness!Underway(t)
      BY <3>1, <3>3
    <3> QED
      BY <3>2, <3>3
  <2>2. left' \in [Tasks -> [Readiness!Checks -> 0..Timeout]]
    BY <2>1
  <2>3. elapsed' \in [Tasks -> 0..Timeout + 1]
    BY <1>5, TimeoutAssumption
  <2> QED
    BY <2>2, <2>3 DEF IInv, Readiness!TypeOK
<1>7. ASSUME NEW t \in Tasks PROVE Timers(t)'
  <2>1. elapsed'[t] <= Timeout
    BY <1>5, TimeoutAssumption
  <2>2. ASSUME NEW c \in Readiness!Underway(t)
        PROVE  left'[t][c] + elapsed'[t] = Timeout
    <3>1. elapsed[t] \in 0..Timeout
      BY TimeoutAssumption DEF IInv, Readiness!TypeOK, CheckInv, Timers
    <3>2. /\ left[t][c] \in 1..Timeout /\ left[t][c] + elapsed[t] = Timeout
          /\ left'[t][c] = left[t][c] - 1 /\ elapsed'[t] = elapsed[t] + 1
      BY <1>3
    <3> QED
      BY ONLY <3>1, <3>2, TimeoutAssumption
  <2> QED
    BY <1>2, <2>1, <2>2 DEF Timers
<1>8. ASSUME NEW t \in Tasks PROVE Decided(t)' /\ Still(t)'
  BY <1>2 DEF IInv, CheckInv, Decided, Still
<1> QED
  BY <1>1, <1>6, <1>7, <1>8 DEF IInv, CheckInv

LEMMA Step == ASSUME IInv, [Next]_vars PROVE IInv'
<1>1. CASE UNCHANGED vars
  <2>1. \A t \in Tasks : /\ Readiness!Underway(t)' = Readiness!Underway(t)
                         /\ Readiness!Healthy(t)' = Readiness!Healthy(t)
    BY <1>1 DEF vars, registryVars, Readiness!Underway, Readiness!Healthy
  <2>2. \A t \in Tasks : CheckInv(t)'
    BY <1>1, <2>1
    DEF IInv, CheckInv, Decided, Timers, Still, vars, answerVars, requestVars, registryVars
  <2>3. Types' /\ (\A t \in Tasks : TaskInv(t)')
    BY <1>1
    DEF IInv, Types, TaskInv, Bound, Told, Own, Recorded, vars, requestVars, answerVars
  <2> QED
    BY <1>1, <2>2, <2>3 DEF IInv, vars, registryVars, Readiness!TypeOK
<1>2. ASSUME NEW t \in Tasks, Serve(t) PROVE IInv'
  <2>1. ASSUME Return(t) \/ RaiseHandled(t) PROVE IInv'
    <3>1. at[t] = "inside" /\ UNCHANGED registryVars /\ (Log(t) \/ UNCHANGED line)
      BY <2>1 DEF Return, RaiseHandled
    <3>2. PICK s \in Statuses : Start(t, s)
      <4>1. CASE Return(t)
        <5>1. Start(t, 200) /\ 200 \in Statuses
          BY <4>1 DEF Return, Statuses
        <5> QED
          BY ONLY <5>1
      <4>2. CASE RaiseHandled(t)
        <5>1. PICK e \in DOMAIN HandledErrors : Start(t, HandledErrors[e])
          BY <4>2 DEF RaiseHandled
        <5>2. HandledErrors[e] \in Statuses
          BY <5>1 DEF Statuses
        <5> QED
          BY ONLY <5>1, <5>2
      <4> QED
        BY <2>1, <4>1, <4>2
    <3> QED
      BY <3>1, <3>2, StartStep
  <2>2. ASSUME Report(t) PROVE IInv'
    <3>1. Readiness!Underway(t) = {}
      BY <2>2 DEF Report, Readiness!Reported, Readiness!Underway
    <3>2. PICK s \in {200, 503} : Start(t, s) /\ (s = 200 <=> Readiness!Healthy(t))
      BY <2>2 DEF Report
    <3>3. s \in Statuses
      BY <3>2 DEF Statuses, HandledErrors
    <3> QED
      BY <2>2, <3>1, <3>2, <3>3, StartStep DEF Report
  <2>3. ASSUME Finish(t) \/ RaiseUnhandled(t) PROVE IInv'
    BY <2>3, UnwindStep DEF Finish, RaiseUnhandled
  <2>4. ASSUME Cancel(t) PROVE IInv'
    BY <2>4, UnwindStep, UnhandledStep DEF Cancel, answerVars
  <2>5. ASSUME UnexpectedError(t) PROVE IInv'
    BY <2>5, UnhandledStep DEF UnexpectedError
  <2>6. ASSUME NEW c \in Readiness!Checks, CheckSucceeds(t, c) \/ CheckFails(t, c) PROVE IInv'
    BY <2>6, SettleStep DEF CheckSucceeds, CheckFails
  <2>7. ASSUME Expires(t) PROVE IInv'
    BY <2>7, SettleStep DEF Expires, CheckExpires, Readiness!Expire
  <2> QED
    BY <1>2, <2>1, <2>2, <2>3, <2>4, <2>5, <2>6, <2>7, EnterStep, LogStep DEF Serve
<1> QED
  BY <1>1, <1>2, TickStep DEF Next

LEMMA Inductive == Spec => []IInv
BY InitIInv, Step, PTL DEF Spec

-----------------------------------------------------------------------------
\* Every field stays in its range, and checks run only for a request to /readyz
\* that has not been answered.
THEOREM TypeCorrect == Spec => []TypeOK
<1>1. IInv => TypeOK
  BY DEF IInv, Types, CheckInv, Still, TypeOK
<1> QED
  BY <1>1, Inductive, PTL

\* Every answer and every line carries the id of its own request, and the
\* server's lines between two requests none, whatever raises or is cancelled.
THEOREM EveryLineHasItsOwnId == Spec => []CarryOwnId
<1>1. IInv => CarryOwnId
  BY DEF IInv, TaskInv, Own, CarryOwnId
<1> QED
  BY <1>1, Inductive, PTL

\* The access record of a request that is over tells what its client was sent.
THEOREM RecordsTellAnswers == Spec => []RecordTellsAnswer
<1>1. IInv => RecordTellsAnswer
  BY DEF IInv, TaskInv, Recorded, RecordTellsAnswer
<1> QED
  BY <1>1, Inductive, PTL

\* The results in the first positions are those of the gating checks, and no
\* others are, also when a name is registered in both tiers.
LEMMA GatingFirst ==
    /\ \A i \in 1..Len(Gating) : /\ Readiness!Arguments[i] \in Readiness!Checks
                                 /\ Readiness!Arguments[i][2] = "gating"
    /\ \A c \in Readiness!Checks :
           c[2] = "gating" => \E i \in 1..Len(Gating) : c = Readiness!Arguments[i]
<1> DEFINE last == Len(Gating) + Len(Informational)
<1>1. Len(Gating) \in Nat /\ Len(Informational) \in Nat
  BY TiersAssumption
<1>2. DOMAIN Readiness!Arguments = 1..last
  BY DEF Readiness!Arguments
<1>3. \A i \in 1..Len(Gating) : i \in 1..last /\ Readiness!Arguments[i][2] = "gating"
  BY <1>1 DEF Readiness!Arguments
<1>4. \A i \in 1..last : i \notin 1..Len(Gating) => Readiness!Arguments[i][2] = "informational"
  BY <1>1 DEF Readiness!Arguments
<1> QED
  BY <1>2, <1>3, <1>4 DEF Readiness!Checks

\* /readyz answers what its gating checks said, within one timeout, for any
\* number of checks in either tier.
THEOREM ReadyzIsBounded == Spec => []ReadyzAnswersInTime
<1>1. IInv => ReadyzAnswersInTime
  <2> SUFFICES ASSUME IInv PROVE ReadyzAnswersInTime
    OBVIOUS
  <2>1. Readiness!WithinOneTimeout
    BY DEF IInv, CheckInv, Timers, Readiness!WithinOneTimeout
  <2>2. ASSUME NEW t \in Tasks, at[t] = "answering", endpoint[t] = "readyz"
        PROVE  sent[t].status = 200 <=>
                   \A c \in Readiness!Checks : c[2] = "gating" => result[t][c] = "ok"
    <3>1. sent[t].status = 200 <=> Readiness!Healthy(t)
      BY <2>2 DEF IInv, TaskInv, Told, CheckInv, Decided
    <3>2. \A i \in 1..Len(Gating) :
              /\ Readiness!Arguments[i] \in Readiness!Checks
              /\ Readiness!Arguments[i][2] = "gating"
      BY GatingFirst
    <3>3. \A c \in Readiness!Checks :
              c[2] = "gating" => \E i \in 1..Len(Gating) : c = Readiness!Arguments[i]
      BY GatingFirst
    <3> QED
      BY <3>1, <3>2, <3>3 DEF Readiness!Healthy
  <2> QED
    BY <2>1, <2>2 DEF ReadyzAnswersInTime
<1> QED
  BY <1>1, Inductive, PTL

-----------------------------------------------------------------------------
\* A set of naturals that holds the first of an interval, and with each the next,
\* holds the interval.
LEMMA Ascent ==
    ASSUME NEW last \in Nat, NEW S, 0 \in S,
           \A n \in 0..(last - 1) : n \in S => n + 1 \in S
    PROVE  \A n \in 0..last : n \in S
<1> DEFINE Left == {0..n : n \in {m \in 0..last : m \notin S}}
<1> SUFFICES ASSUME Left # {} PROVE FALSE
    OBVIOUS
<1>1. Left \subseteq FiniteSubsetsOf(Nat)
  <2>1. ASSUME NEW n \in Nat PROVE 0..n \in FiniteSubsetsOf(Nat)
    <3>1. IsFiniteSet(0..n)
        BY FS_Interval
    <3>2. 0..n \in SUBSET Nat
        OBVIOUS
    <3> QED
        BY <3>1, <3>2 DEF FiniteSubsetsOf
  <2> QED
      BY <2>1
<1>2. PICK low \in Left : \A s \in Left : <<s, low>> \notin StrictSubsetOrdering(Nat)
    BY <1>1, FS_StrictSubsetOrderingWellFounded, WFMin
<1>3. PICK n \in 0..last : low = 0..n /\ n \notin S
    OBVIOUS
<1>4. n # 0 /\ n - 1 \in 0..(last - 1) /\ (n - 1) + 1 = n
    BY <1>3
<1>5. n - 1 \notin S
    BY <1>3, <1>4
<1>6. 0..(n - 1) \in Left
    BY <1>4, <1>5
<1>7. 0..(n - 1) \subseteq 0..n /\ 0..(n - 1) # 0..n
  <2>1. n \in 0..n /\ n \notin 0..(n - 1)
      OBVIOUS
  <2> QED
      BY <2>1
<1>8. <<0..(n - 1), 0..n>> \in StrictSubsetOrdering(Nat)
    BY <1>7 DEF StrictSubsetOrdering
<1> QED
    BY <1>2, <1>3, <1>6, <1>8

-----------------------------------------------------------------------------
(***************************************************************************)
(* Redaction.                                                              *)
(***************************************************************************)
Deepest == Len(Levels)

\* A value, and what the values in it may be: the root of a record is a dictionary
\* of Values and none of them itself.
IsTree(value) == /\ IsValue(value)
                 /\ \A step \in Steps(value) : Inside(value, step) \in Values

\* What _redact_value does to a value, `redact` being what it does to those inside.
Redacted(value, names, redact) ==
    CASE value.is = "dict" -> Dict(Masked(value.items, names, redact))
      [] value.is = "list" ->
             List([i \in DOMAIN value.elements |-> redact[value.elements[i]]])
      [] OTHER -> value

LEMMA DeepestNat == Deepest \in Nat
BY LevelsAssumption DEF LevelsAssumption, Deepest

LEMMA UpToMonotone ==
    ASSUME NEW m \in Int, NEW n \in Int, m <= n
    PROVE  UpTo(m) \subseteq UpTo(n)
BY DEF UpTo

\* What lies in a value lies one level lower.
LEMMA InsideIsLower ==
    ASSUME NEW n \in 1..Deepest, NEW value \in UpTo(n)
    PROVE  /\ IsValue(value)
           /\ \A step \in Steps(value) : Inside(value, step) \in UpTo(n - 1)
<1>1. PICK m \in 1..n : value \in Levels[m]
    BY DEF UpTo
<1>2. m \in 1..Len(Levels)
    BY <1>1, DeepestNat DEF Deepest
<1>3. /\ IsValue(value)
      /\ \A step \in Steps(value) : Inside(value, step) \in UpTo(m - 1)
    BY <1>1, <1>2, LevelsAssumption DEF LevelsAssumption
<1>4. UpTo(m - 1) \subseteq UpTo(n - 1)
    BY <1>1, UpToMonotone, DeepestNat
<1> QED
    BY <1>3, <1>4

LEMMA ValuesAreTrees == ASSUME NEW value \in Values PROVE IsTree(value)
<1>1. Deepest \in 1..Deepest
  <2>1. Deepest # 0
      BY DeepestNat DEF Values, UpTo, Deepest
  <2> QED
      BY <2>1, DeepestNat
<1>2. /\ IsValue(value)
      /\ \A step \in Steps(value) : Inside(value, step) \in UpTo(Deepest - 1)
    BY <1>1, InsideIsLower DEF Values, Deepest
<1>3. UpTo(Deepest - 1) \subseteq Values
    BY DeepestNat, UpToMonotone DEF Values, Deepest
<1> QED
    BY <1>2, <1>3 DEF IsTree

\* Two maskings that agree on what lies in a value agree on the value.
LEMMA RedactedByParts ==
    ASSUME NEW value, IsValue(value), NEW names, NEW a, NEW b,
           \A step \in Steps(value) : a[Inside(value, step)] = b[Inside(value, step)]
    PROVE  Redacted(value, names, a) = Redacted(value, names, b)
<1>1. CASE value.is = "dict"
  <2>1. \A key \in DOMAIN value.items : Key(key) \in Steps(value)
      BY <1>1 DEF Steps
  <2>2. \A key \in DOMAIN value.items : Inside(value, Key(key)) = value.items[key]
      BY DEF Inside, Key
  <2>3. \A key \in DOMAIN value.items : a[value.items[key]] = b[value.items[key]]
      BY <2>1, <2>2
  <2>4. Masked(value.items, names, a) = Masked(value.items, names, b)
      BY <2>3 DEF Masked
  <2> QED
      BY <1>1, <2>4 DEF Redacted
<1>2. CASE value.is = "list"
  <2>1. \A i \in DOMAIN value.elements : Element(i) \in Steps(value)
      BY <1>2 DEF Steps
  <2>2. \A i \in DOMAIN value.elements : Inside(value, Element(i)) = value.elements[i]
      BY DEF Inside, Element
  <2>3. \A i \in DOMAIN value.elements : a[value.elements[i]] = b[value.elements[i]]
      BY <2>1, <2>2
  <2> QED
      BY <1>2, <2>3 DEF Redacted
<1>3. CASE value.is # "dict" /\ value.is # "list"
    BY <1>3 DEF Redacted
<1> QED
    BY <1>1, <1>2, <1>3

LEMMA RedactingExists ==
    ASSUME NEW names
    PROVE  \E r : r = [value \in Values |-> Redacted(value, names, r)]
<1> DEFINE S == {n \in 0..Deepest :
                    \E r : r = [value \in UpTo(n) |-> Redacted(value, names, r)]}
<1>1. 0 \in S
  <2> DEFINE r == [value \in {} |-> value]
  <2>1. UpTo(0) = {}
      BY DEF UpTo
  <2>2. r = [value \in UpTo(0) |-> Redacted(value, names, r)]
      BY <2>1
  <2>3. 0 \in 0..Deepest
      BY DeepestNat
  <2> HIDE DEF r
  <2> QED
      BY <2>2, <2>3
<1>2. ASSUME NEW n \in 0..(Deepest - 1), n \in S PROVE n + 1 \in S
  <2>1. PICK r : r = [value \in UpTo(n) |-> Redacted(value, names, r)]
      BY <1>2
  <2> DEFINE more == [value \in UpTo(n + 1) |-> Redacted(value, names, r)]
  <2>2. n + 1 \in 1..Deepest /\ (n + 1) - 1 = n
      BY DeepestNat
  <2>3. UpTo(n) \subseteq UpTo(n + 1)
      BY UpToMonotone
  <2>4. \A value \in UpTo(n) : more[value] = r[value]
      BY <2>1, <2>3
  <2>5. ASSUME NEW value \in UpTo(n + 1)
        PROVE  Redacted(value, names, r) = Redacted(value, names, more)
    <3>1. IsValue(value) /\ \A step \in Steps(value) : Inside(value, step) \in UpTo(n)
        BY <2>2, InsideIsLower
    <3>2. \A step \in Steps(value) : r[Inside(value, step)] = more[Inside(value, step)]
        BY <3>1, <2>4
    <3> HIDE DEF more
    <3> QED
        BY <3>1, <3>2, RedactedByParts
  <2>6. more = [value \in UpTo(n + 1) |-> Redacted(value, names, more)]
    <3>1. more = [value \in UpTo(n + 1) |-> Redacted(value, names, r)]
        OBVIOUS
    <3> HIDE DEF more
    <3> QED
        BY <3>1, <2>5, Zenon
  <2> HIDE DEF more
  <2> QED
      BY <2>2, <2>6
<1>3. Deepest \in S
  <2> HIDE DEF S
  <2> QED
      BY <1>1, <1>2, DeepestNat, Ascent
<1> QED
    BY <1>3 DEF Values, Deepest

\* The recursion of _redact_value.
LEMMA RedactValueEquation ==
    ASSUME NEW names, NEW value \in Values
    PROVE  RedactValue(names)[value] = Redacted(value, names, RedactValue(names))
<1> DEFINE Equation(r) == [v \in Values |-> Redacted(v, names, r)]
<1>1. \E r : r = Equation(r)
    BY RedactingExists
<1>2. RedactValue(names) = CHOOSE r : r = Equation(r)
    BY Zenon DEF RedactValue, Redacted
<1>3. RedactValue(names) = Equation(RedactValue(names))
  <2> HIDE DEF Equation
  <2> QED
      BY <1>1, <1>2, Zenon
<1> QED
    BY <1>3, Zenon

-----------------------------------------------------------------------------
(***************************************************************************)
(* The ways into a value.                                                  *)
(***************************************************************************)
\* One step further than `before`.
Further(before) ==
    UNION {{<<Append(r[1], step), Inside(r[2], step)>> : step \in Steps(r[2])} : r \in before}

LEMMA ReachingExists ==
    ASSUME NEW value
    PROVE  \E f : f = [n \in 0..Deepest |->
                          IF n = 0 THEN {<<<<>>, value>>} ELSE Further(f[n - 1])]
<1> DEFINE S == {k \in 0..Deepest :
                    \E f : f = [n \in 0..k |->
                                   IF n = 0 THEN {<<<<>>, value>>} ELSE Further(f[n - 1])]}
<1>1. 0 \in S
  <2> DEFINE f == [n \in 0..0 |-> {<<<<>>, value>>}]
  <2>1. f = [n \in 0..0 |-> IF n = 0 THEN {<<<<>>, value>>} ELSE Further(f[n - 1])]
      OBVIOUS
  <2>2. 0 \in 0..Deepest
      BY DeepestNat
  <2> HIDE DEF f
  <2> QED
      BY <2>1, <2>2
<1>2. ASSUME NEW k \in 0..(Deepest - 1), k \in S PROVE k + 1 \in S
  <2>1. PICK f : f = [n \in 0..k |->
                         IF n = 0 THEN {<<<<>>, value>>} ELSE Further(f[n - 1])]
      BY <1>2
  <2> DEFINE more == [n \in 0..(k + 1) |-> IF n \in 0..k THEN f[n] ELSE Further(f[n - 1])]
  <2>2. ASSUME NEW n \in 0..(k + 1)
        PROVE  more[n] = IF n = 0 THEN {<<<<>>, value>>} ELSE Further(more[n - 1])
    <3>1. n # 0 => n - 1 \in 0..k
        OBVIOUS
    <3>2. n # 0 => more[n - 1] = f[n - 1]
        BY <3>1
    <3>3. n \in 0..k => f[n] = IF n = 0 THEN {<<<<>>, value>>} ELSE Further(f[n - 1])
        BY <2>1
    <3>4. n \notin 0..k => n # 0
        OBVIOUS
    <3> QED
        BY <3>2, <3>3, <3>4
  <2>3. more = [n \in 0..(k + 1) |->
                   IF n = 0 THEN {<<<<>>, value>>} ELSE Further(more[n - 1])]
    <3>1. more = [n \in 0..(k + 1) |-> more[n]]
        OBVIOUS
    <3> HIDE DEF more
    <3> QED
        BY <3>1, <2>2, Zenon
  <2>4. k + 1 \in 0..Deepest
      BY DeepestNat
  <2> HIDE DEF more
  <2> QED
      BY <2>3, <2>4
<1>3. Deepest \in S
  <2> HIDE DEF S
  <2> QED
      BY <1>1, <1>2, DeepestNat, Ascent
<1> QED
    BY <1>3

\* The recursion of Reached.
LEMMA ReachedEquation ==
    ASSUME NEW value
    PROVE  /\ Reached(value)[0] = {<<<<>>, value>>}
           /\ \A n \in 1..Deepest : Reached(value)[n] = Further(Reached(value)[n - 1])
<1> DEFINE Equation(f) == [n \in 0..Deepest |->
                              IF n = 0 THEN {<<<<>>, value>>} ELSE Further(f[n - 1])]
<1>1. \E f : f = Equation(f)
    BY ReachingExists
<1>2. Reached(value) = CHOOSE f : f = Equation(f)
    BY Zenon DEF Reached, Further, Deepest
<1>3. Reached(value) = Equation(Reached(value))
  <2> HIDE DEF Equation
  <2> QED
      BY <1>1, <1>2, Zenon
<1>4. \A n \in 0..Deepest :
          Reached(value)[n] = IF n = 0 THEN {<<<<>>, value>>} ELSE Further(Reached(value)[n - 1])
    BY <1>3, Zenon
<1>5. 0 \in 0..Deepest /\ \A n \in 1..Deepest : n \in 0..Deepest /\ n # 0
    BY DeepestNat
<1> QED
    BY <1>4, <1>5

\* What is one step further.
LEMMA FurtherMembers ==
    ASSUME NEW before, NEW r
    PROVE  r \in Further(before) <=>
               \E b \in before : \E step \in Steps(b[2]) :
                   r = <<Append(b[1], step), Inside(b[2], step)>>
BY DEF Further

\* All steps there are in a tree.
AnyStep(root) == Steps(root) \cup UNION {Steps(value) : value \in Values}

\* What is reached in n steps, and what is ahead to go from there.
LEMMA ReachedShape ==
    ASSUME NEW root, IsTree(root)
    PROVE  \A n \in 0..Deepest : \A r \in Reached(root)[n] :
               /\ r = <<r[1], r[2]>>
               /\ r[1] \in Seq(AnyStep(root)) /\ Len(r[1]) = n
               /\ IsTree(r[2]) /\ Steps(r[2]) \subseteq AnyStep(root)
               /\ \A step \in Steps(r[2]) : Inside(r[2], step) \in UpTo(Deepest - n)
<1> DEFINE P(n, r) ==
               /\ r = <<r[1], r[2]>>
               /\ r[1] \in Seq(AnyStep(root)) /\ Len(r[1]) = n
               /\ IsTree(r[2]) /\ Steps(r[2]) \subseteq AnyStep(root)
               /\ \A step \in Steps(r[2]) : Inside(r[2], step) \in UpTo(Deepest - n)
           S == {n \in 0..Deepest : \A r \in Reached(root)[n] : P(n, r)}
<1>1. 0 \in S
  <2>1. 0 \in 0..Deepest /\ Deepest - 0 = Deepest
      BY DeepestNat
  <2>2. Values = UpTo(Deepest)
      BY DEF Values, Deepest
  <2>3. ASSUME NEW r \in Reached(root)[0] PROVE P(0, r)
    <3>1. r = <<<<>>, root>>
        BY ReachedEquation
    <3>2. r[1] = <<>> /\ r[2] = root
        BY <3>1
    <3>3. r[1] \in Seq(AnyStep(root)) /\ Len(r[1]) = 0
        BY <3>2
    <3>4. Steps(root) \subseteq AnyStep(root)
        BY DEF AnyStep
    <3> QED
        BY <3>1, <3>2, <3>3, <3>4, <2>1, <2>2 DEF IsTree
  <2> HIDE DEF P
  <2> QED
      BY <2>1, <2>3
<1>2. ASSUME NEW n \in 0..(Deepest - 1), n \in S PROVE n + 1 \in S
  <2>1. n + 1 \in 1..Deepest /\ n + 1 \in 0..Deepest /\ (n + 1) - 1 = n
      BY DeepestNat
  <2>2. ASSUME NEW r \in Reached(root)[n + 1] PROVE P(n + 1, r)
    <3>1. r \in Further(Reached(root)[n])
        BY <2>1, ReachedEquation
    <3>2. PICK b \in Reached(root)[n] : \E step \in Steps(b[2]) :
              r = <<Append(b[1], step), Inside(b[2], step)>>
        BY <3>1, FurtherMembers
    <3> PICK step \in Steps(b[2]) : r = <<Append(b[1], step), Inside(b[2], step)>>
        BY <3>2
    <3>3. P(n, b)
        BY <1>2
    <3>4. r[1] = Append(b[1], step) /\ r[2] = Inside(b[2], step)
        OBVIOUS
    <3>5. r[1] \in Seq(AnyStep(root)) /\ Len(r[1]) = n + 1
        BY <3>3, <3>4
    <3>6. r[2] \in UpTo(Deepest - n) /\ r[2] \in Values
        BY <3>3, <3>4 DEF IsTree
    <3>7. IsTree(r[2])
        BY <3>6, ValuesAreTrees
    <3>8. Steps(r[2]) \subseteq AnyStep(root)
        BY <3>6 DEF AnyStep
    <3>9. Deepest - n \in 1..Deepest /\ (Deepest - n) - 1 = Deepest - (n + 1)
        BY DeepestNat
    <3>10. \A s \in Steps(r[2]) : Inside(r[2], s) \in UpTo(Deepest - (n + 1))
        BY <3>6, <3>9, InsideIsLower
    <3> QED
        BY <3>2, <3>4, <3>5, <3>7, <3>8, <3>10
  <2> HIDE DEF P
  <2> QED
      BY <2>1, <2>2
<1>3. \A n \in 0..Deepest : n \in S
  <2> HIDE DEF S
  <2> QED
      BY <1>1, <1>2, DeepestNat, Ascent
<1> QED
    BY <1>3

\* What is one step further is reached.
LEMMA ReachedNext ==
    ASSUME NEW root, NEW n \in 0..(Deepest - 1), NEW b \in Reached(root)[n],
           NEW step \in Steps(b[2])
    PROVE  <<Append(b[1], step), Inside(b[2], step)>> \in Reached(root)[n + 1]
<1>1. n + 1 \in 1..Deepest /\ (n + 1) - 1 = n
    BY DeepestNat
<1>2. Reached(root)[n + 1] = Further(Reached(root)[n])
    BY <1>1, ReachedEquation
<1> QED
    BY <1>2, FurtherMembers

\* On the way to what is reached in k + 1 steps lies what is reached in k.
LEMMA ReachedBefore ==
    ASSUME NEW root, IsTree(root), NEW n \in 0..(Deepest - 1),
           NEW r \in Reached(root)[n + 1]
    PROVE  \E b \in Reached(root)[n] : \E step \in Steps(b[2]) :
               /\ r = <<Append(b[1], step), Inside(b[2], step)>>
               /\ SubSeq(r[1], 1, n) = b[1]
<1>1. n + 1 \in 1..Deepest /\ (n + 1) - 1 = n /\ n \in 0..Deepest
    BY DeepestNat
<1>2. r \in Further(Reached(root)[n])
    BY <1>1, ReachedEquation
<1>3. PICK b \in Reached(root)[n] : \E step \in Steps(b[2]) :
          r = <<Append(b[1], step), Inside(b[2], step)>>
    BY <1>2, FurtherMembers
<1>4. PICK step \in Steps(b[2]) : r = <<Append(b[1], step), Inside(b[2], step)>>
    BY <1>3
<1>5. b[1] \in Seq(AnyStep(root)) /\ Len(b[1]) = n /\ step \in AnyStep(root)
    BY <1>1, ReachedShape
<1>6. SubSeq(Append(b[1], step), 1, n) = b[1]
    BY <1>5
<1> QED
    BY <1>4, <1>6

\* Every prefix of a way leads somewhere.
LEMMA ReachedOnTheWay ==
    ASSUME NEW root, IsTree(root)
    PROVE  \A n \in 0..Deepest : \A r \in Reached(root)[n] : \A k \in 0..n :
               \E b \in Reached(root)[k] : b[1] = SubSeq(r[1], 1, k)
<1> DEFINE S == {n \in 0..Deepest : \A r \in Reached(root)[n] : \A k \in 0..n :
                     \E b \in Reached(root)[k] : b[1] = SubSeq(r[1], 1, k)}
<1>0. \A n \in 0..Deepest : \A r \in Reached(root)[n] : SubSeq(r[1], 1, n) = r[1]
  <2>1. SUFFICES ASSUME NEW n \in 0..Deepest, NEW r \in Reached(root)[n]
                 PROVE  SubSeq(r[1], 1, n) = r[1]
      OBVIOUS
  <2>2. r[1] \in Seq(AnyStep(root)) /\ Len(r[1]) = n
      BY ReachedShape
  <2> QED
      BY <2>2
<1>1. 0 \in S
  <2>1. 0 \in 0..Deepest /\ 0..0 = {0}
      BY DeepestNat
  <2> QED
      BY <2>1, <1>0
<1>2. ASSUME NEW n \in 0..(Deepest - 1), n \in S PROVE n + 1 \in S
  <2>1. n + 1 \in 0..Deepest /\ n \in 0..Deepest
      BY DeepestNat
  <2>2. ASSUME NEW r \in Reached(root)[n + 1], NEW k \in 0..(n + 1)
        PROVE  \E b \in Reached(root)[k] : b[1] = SubSeq(r[1], 1, k)
    <3>1. CASE k = n + 1
        BY <3>1, <2>1, <1>0
    <3>2. CASE k \in 0..n
      <4>1. PICK a \in Reached(root)[n] : SubSeq(r[1], 1, n) = a[1]
          BY ReachedBefore
      <4>2. PICK b \in Reached(root)[k] : b[1] = SubSeq(a[1], 1, k)
          BY <1>2, <3>2
      <4>3. r[1] \in Seq(AnyStep(root)) /\ Len(r[1]) = n + 1
          BY <2>1, ReachedShape
      <4>4. SubSeq(SubSeq(r[1], 1, n), 1, k) = SubSeq(r[1], 1, k)
          BY <4>3, <3>2
      <4> QED
          BY <4>1, <4>2, <4>4
    <3> QED
        BY <3>1, <3>2
  <2> QED
      BY <2>1, <2>2
<1>3. \A n \in 0..Deepest : n \in S
  <2> HIDE DEF S
  <2> QED
      BY <1>1, <1>2, DeepestNat, Ascent
<1> QED
    BY <1>3

\* Every way can be followed to an end.
LEMMA ReachedHasEnd ==
    ASSUME NEW root, IsTree(root), NEW n \in 0..Deepest, NEW r \in Reached(root)[n]
    PROVE  \E end \in Ends(root) :
               Len(end[1]) \in n..Deepest /\ SubSeq(end[1], 1, n) = r[1]
<1> DEFINE P(m) == \A b \in Reached(root)[m] : \E end \in Ends(root) :
                       Len(end[1]) \in m..Deepest /\ SubSeq(end[1], 1, m) = b[1]
           S == {ahead \in 0..Deepest : P(Deepest - ahead)}
<1>1. ASSUME NEW m \in 0..Deepest, NEW b \in Reached(root)[m], Steps(b[2]) = {}
      PROVE  \E end \in Ends(root) :
                 Len(end[1]) \in m..Deepest /\ SubSeq(end[1], 1, m) = b[1]
  <2>1. b \in Ends(root)
      BY <1>1 DEF Ends, Deepest
  <2>2. b[1] \in Seq(AnyStep(root)) /\ Len(b[1]) = m
      BY ReachedShape
  <2>3. SubSeq(b[1], 1, m) = b[1]
      BY <2>2
  <2>4. m \in m..Deepest
      BY DeepestNat
  <2> QED
      BY <2>1, <2>2, <2>3, <2>4
<1>2. 0 \in S
  <2>1. 0 \in 0..Deepest /\ Deepest - 0 = Deepest /\ Deepest \in 0..Deepest
        /\ Deepest - Deepest = 0
      BY DeepestNat
  <2>2. UpTo(0) = {}
      BY DEF UpTo
  <2>3. \A b \in Reached(root)[Deepest] : Steps(b[2]) = {}
      BY <2>1, <2>2, ReachedShape
  <2>4. P(Deepest)
      BY <2>1, <2>3, <1>1
  <2> HIDE DEF P
  <2> QED
      BY <2>1, <2>4
<1>3. ASSUME NEW ahead \in 0..(Deepest - 1), ahead \in S PROVE ahead + 1 \in S
  <2> DEFINE m == Deepest - (ahead + 1)
  <2>1. /\ ahead + 1 \in 0..Deepest
        /\ m \in 0..(Deepest - 1) /\ m \in 0..Deepest /\ m + 1 = Deepest - ahead
      BY DeepestNat
  <2>2. ASSUME NEW b \in Reached(root)[m], Steps(b[2]) # {}
        PROVE  \E end \in Ends(root) :
                   Len(end[1]) \in m..Deepest /\ SubSeq(end[1], 1, m) = b[1]
    <3> HIDE DEF m
    <3>1. PICK step \in Steps(b[2]) : TRUE
        BY <2>2
    <3> DEFINE next == <<Append(b[1], step), Inside(b[2], step)>>
    <3>2. next \in Reached(root)[m + 1]
        BY <2>1, ReachedNext
    <3>3. PICK end \in Ends(root) :
              Len(end[1]) \in (m + 1)..Deepest /\ SubSeq(end[1], 1, m + 1) = next[1]
        BY <1>3, <2>1, <3>2
    <3>4. PICK k \in 0..Deepest : end \in Reached(root)[k]
        BY DEF Ends, Deepest
    <3>5. end[1] \in Seq(AnyStep(root))
        BY <3>4, ReachedShape
    <3>6. b[1] \in Seq(AnyStep(root)) /\ Len(b[1]) = m /\ step \in AnyStep(root)
        BY <2>1, ReachedShape
    <3>7. SubSeq(SubSeq(end[1], 1, m + 1), 1, m) = SubSeq(end[1], 1, m)
        BY <3>3, <3>5, <2>1
    <3>8. SubSeq(Append(b[1], step), 1, m) = b[1]
        BY <3>6
    <3>9. SubSeq(end[1], 1, m) = b[1]
        BY <3>3, <3>7, <3>8
    <3>10. Len(end[1]) \in m..Deepest
        BY <3>3, <2>1
    <3> QED
        BY <3>9, <3>10
  <2>3. P(m)
    <3> HIDE DEF m
    <3> QED
        BY <2>1, <2>2, <1>1
  <2> HIDE DEF P
  <2> QED
      BY <2>1, <2>3
<1>4. \A ahead \in 0..Deepest : ahead \in S
  <2> HIDE DEF S
  <2> QED
      BY <1>2, <1>3, DeepestNat, Ascent
<1>5. P(n)
  <2>1. Deepest - n \in 0..Deepest /\ Deepest - (Deepest - n) = n
      BY DeepestNat
  <2>2. Deepest - n \in S
      BY <2>1, <1>4
  <2> HIDE DEF P
  <2> QED
      BY <2>1, <2>2
<1> QED
    BY <1>5

-----------------------------------------------------------------------------
(***************************************************************************)
(* What masking leaves.                                                    *)
(***************************************************************************)
Mask(value, names) == Redacted(value, names, RedactValue(names))

LEMMA MaskedParts ==
    ASSUME NEW value, IsTree(value), NEW names
    PROVE  /\ Steps(Mask(value, names)) = Steps(value)
           /\ \A step \in Steps(value) :
                  Inside(Mask(value, names), step) =
                      IF step.step = "key" /\ Matches(step.key, names) THEN REDACTED
                      ELSE IF step.step = "part" THEN Inside(value, step)
                      ELSE Mask(Inside(value, step), names)
<1> DEFINE R == RedactValue(names)
<1>0. \A inner \in Values : R[inner] = Mask(inner, names)
    BY RedactValueEquation DEF Mask
<1>1. CASE value.is = "dict"
  <2>1. Mask(value, names) = Dict(Masked(value.items, names, R))
      BY <1>1 DEF Mask, Redacted
  <2>2. Steps(value) = {Key(k) : k \in DOMAIN value.items}
      BY <1>1 DEF Steps
  <2>3. DOMAIN Masked(value.items, names, R) = DOMAIN value.items
      BY DEF Masked
  <2>4. Steps(Mask(value, names)) = Steps(value)
      BY <2>1, <2>2, <2>3 DEF Steps, Dict
  <2>5. ASSUME NEW k \in DOMAIN value.items
        PROVE  Inside(Mask(value, names), Key(k)) =
                   IF Matches(k, names) THEN REDACTED
                   ELSE Mask(Inside(value, Key(k)), names)
    <3>0. Inside(value, Key(k)) \in Values
        BY <2>2 DEF IsTree
    <3>1. Inside(value, Key(k)) = value.items[k] /\ value.items[k] \in Values
        BY <3>0 DEF Inside, Key
    <3>2. Inside(Mask(value, names), Key(k)) = Masked(value.items, names, R)[k]
        BY <2>1 DEF Inside, Key, Dict
    <3>3. Masked(value.items, names, R)[k] =
              IF Matches(k, names) THEN REDACTED ELSE R[value.items[k]]
        BY DEF Masked
    <3> QED
        BY <3>1, <3>2, <3>3, <1>0
  <2>6. \A k : Key(k).step = "key" /\ Key(k).key = k
      BY DEF Key
  <2> QED
      BY <2>2, <2>4, <2>5, <2>6
<1>2. CASE value.is = "list"
  <2> DEFINE inner == [i \in DOMAIN value.elements |-> R[value.elements[i]]]
  <2>1. Mask(value, names) = List(inner)
      BY <1>2 DEF Mask, Redacted
  <2>2. Steps(value) = {Element(i) : i \in DOMAIN value.elements}
      BY <1>2 DEF Steps
  <2>3. DOMAIN inner = DOMAIN value.elements
      OBVIOUS
  <2>4. Steps(Mask(value, names)) = Steps(value)
    <3> HIDE DEF inner
    <3> QED
        BY <2>1, <2>2, <2>3 DEF Steps, List
  <2>5. ASSUME NEW i \in DOMAIN value.elements
        PROVE  Inside(Mask(value, names), Element(i)) =
                   Mask(Inside(value, Element(i)), names)
    <3>0. Inside(value, Element(i)) \in Values
        BY <2>2 DEF IsTree
    <3>1. Inside(value, Element(i)) = value.elements[i] /\ value.elements[i] \in Values
        BY <3>0 DEF Inside, Element
    <3>2. Inside(List(inner), Element(i)) = inner[i]
      <4> HIDE DEF inner
      <4> QED
          BY DEF Inside, Element, List
    <3> QED
        BY <2>1, <3>1, <3>2, <1>0
  <2>6. \A i : Element(i).step = "element"
      BY DEF Element
  <2> QED
      BY <2>2, <2>4, <2>5, <2>6
<1>3. CASE value.is # "dict" /\ value.is # "list"
  <2>1. Mask(value, names) = value
      BY <1>3 DEF Mask, Redacted
  <2>2. \A step \in Steps(value) : step.step = "part"
      BY <1>3 DEF Steps, Part
  <2> QED
      BY <2>1, <2>2
<1> QED
    BY <1>1, <1>2, <1>3

LEMMA MaskedEnd ==
    ASSUME NEW value, IsTree(value), Steps(value) = {}, NEW names
    PROVE  Mask(value, names) = value
<1> DEFINE R == RedactValue(names)
<1>1. IsValue(value)
    BY DEF IsTree
<1>2. CASE value.is = "dict"
  <2>1. DOMAIN value.items = {}
      BY <1>2 DEF Steps
  <2>2. value = Dict(value.items) /\ value.items = [k \in DOMAIN value.items |-> value.items[k]]
      BY <1>1, <1>2 DEF IsValue, IsItems
  <2>3. Masked(value.items, names, R) = value.items
      BY <2>1, <2>2 DEF Masked
  <2> QED
      BY <1>2, <2>2, <2>3 DEF Mask, Redacted
<1>3. CASE value.is = "list"
  <2>1. DOMAIN value.elements = {}
      BY <1>3 DEF Steps
  <2>2. value = List(value.elements) /\ value.elements \in Seq(Values)
      BY <1>1, <1>3 DEF IsValue
  <2>3. [i \in DOMAIN value.elements |-> R[value.elements[i]]] = value.elements
      BY <2>1, <2>2
  <2> QED
      BY <1>3, <2>2, <2>3 DEF Mask, Redacted
<1>4. CASE value.is # "dict" /\ value.is # "list"
    BY <1>4 DEF Mask, Redacted
<1> QED
    BY <1>2, <1>3, <1>4

\* Beyond a tuple nothing is masked.
Opaque(path) == \E i \in DOMAIN path : path[i].step = "part"

\* What masking leaves of a value, by the way to it.
Image(path, value, names) ==
    IF Sensitive(path, names) # {} THEN REDACTED
    ELSE IF Opaque(path) THEN value
    ELSE Mask(value, names)

LEMMA SensitiveAppend ==
    ASSUME NEW T, NEW path \in Seq(T), NEW step \in T, NEW names
    PROVE  /\ Sensitive(Append(path, step), names) =
                  Sensitive(path, names)
                  \cup (IF step.step = "key" /\ Matches(step.key, names) /\ ~Opaque(path)
                        THEN {Len(path) + 1} ELSE {})
           /\ Opaque(Append(path, step)) <=> Opaque(path) \/ step.step = "part"
<1> DEFINE longer == Append(path, step)
           n == Len(path)
<1>1. /\ n \in Nat /\ DOMAIN path = 1..n /\ DOMAIN longer = 1..(n + 1)
      /\ \A i \in 1..n : longer[i] = path[i]
      /\ longer[n + 1] = step
    OBVIOUS
<1> HIDE DEF longer, n
<1>2. Opaque(longer) <=> Opaque(path) \/ step.step = "part"
    BY <1>1 DEF Opaque
<1>3. ASSUME NEW i \in 1..n
      PROVE  i \in Sensitive(longer, names) <=> i \in Sensitive(path, names)
  <2>1. \A j \in 1..i : j \in 1..n
      BY <1>1
  <2>2. i \in 1..(n + 1)
      BY <1>1
  <2> QED
      BY <2>1, <2>2, <1>1 DEF Sensitive
<1>4. n + 1 \in Sensitive(longer, names) <=>
          step.step = "key" /\ Matches(step.key, names) /\ ~Opaque(path)
  <2>1. n + 1 \in Sensitive(longer, names) <=>
            /\ step.step = "key" /\ Matches(step.key, names)
            /\ \A j \in 1..(n + 1) : longer[j].step # "part"
      BY <1>1 DEF Sensitive
  <2>2. \A j \in 1..(n + 1) : j \in 1..n \/ j = n + 1
      BY <1>1
  <2>3. step.step = "key" =>
            ((\A j \in 1..(n + 1) : longer[j].step # "part") <=> ~Opaque(path))
      BY <1>1, <2>2 DEF Opaque
  <2> QED
      BY <2>1, <2>3
<1>5. Sensitive(longer, names) \subseteq 1..(n + 1) /\ Sensitive(path, names) \subseteq 1..n
    BY <1>1 DEF Sensitive
<1>6. \A i \in 1..(n + 1) : i \in 1..n \/ i = n + 1
    BY <1>1
<1>7. n + 1 \notin 1..n
    BY <1>1
<1>8. Sensitive(longer, names) =
          Sensitive(path, names)
          \cup (IF step.step = "key" /\ Matches(step.key, names) /\ ~Opaque(path)
                THEN {n + 1} ELSE {})
    BY <1>3, <1>4, <1>5, <1>6, <1>7
<1> QED
    BY <1>2, <1>8 DEF longer, n

LEMMA SensitivePrefix ==
    ASSUME NEW T, NEW path \in Seq(T), NEW k \in 0..Len(path), NEW names
    PROVE  Sensitive(SubSeq(path, 1, k), names) = Sensitive(path, names) \cap (1..k)
<1> DEFINE prefix == SubSeq(path, 1, k)
<1>1. /\ DOMAIN path = 1..Len(path) /\ DOMAIN prefix = 1..k /\ Len(path) \in Nat
      /\ \A i \in 1..k : prefix[i] = path[i]
    OBVIOUS
<1>2. \A i \in 1..k : i \in 1..Len(path) /\ \A j \in 1..i : j \in 1..k
    OBVIOUS
<1> HIDE DEF prefix
<1>3. Sensitive(prefix, names) = Sensitive(path, names) \cap (1..k)
    BY <1>1, <1>2 DEF Sensitive
<1> QED
    BY <1>3 DEF prefix

\* One step further in a value is one step further in what masking ahead of it.
LEMMA ImageParts ==
    ASSUME NEW value, IsTree(value), NEW names, NEW T, NEW path \in Seq(T),
           Sensitive(path, names) = {}, Steps(value) \subseteq T
    PROVE  /\ Steps(Image(path, value, names)) = Steps(value)
           /\ \A step \in Steps(value) :
                  Inside(Image(path, value, names), step) =
                      Image(Append(path, step), Inside(value, step), names)
<1>1. CASE Opaque(path)
  <2>1. Image(path, value, names) = value
      BY <1>1 DEF Image
  <2>2. ASSUME NEW step \in Steps(value)
        PROVE  Image(Append(path, step), Inside(value, step), names) = Inside(value, step)
    <3>1. Sensitive(Append(path, step), names) = {} /\ Opaque(Append(path, step))
        BY <1>1, SensitiveAppend
    <3> QED
        BY <3>1 DEF Image
  <2> QED
      BY <2>1, <2>2
<1>2. CASE ~Opaque(path)
  <2>1. Image(path, value, names) = Mask(value, names)
      BY <1>2 DEF Image
  <2>2. ASSUME NEW step \in Steps(value)
        PROVE  Inside(Mask(value, names), step) =
                   Image(Append(path, step), Inside(value, step), names)
    <3>1. /\ Sensitive(Append(path, step), names) =
                 IF step.step = "key" /\ Matches(step.key, names)
                 THEN {Len(path) + 1} ELSE {}
          /\ Opaque(Append(path, step)) <=> step.step = "part"
        BY <1>2, SensitiveAppend
    <3>2. Inside(Mask(value, names), step) =
              IF step.step = "key" /\ Matches(step.key, names) THEN REDACTED
              ELSE IF step.step = "part" THEN Inside(value, step)
              ELSE Mask(Inside(value, step), names)
        BY MaskedParts
    <3> QED
        BY <3>1, <3>2 DEF Image
  <2> QED
      BY <2>1, <2>2, MaskedParts
<1> QED
    BY <1>1, <1>2

LEMMA ImageEnd ==
    ASSUME NEW value, IsTree(value), Steps(value) = {}, NEW names, NEW path,
           Sensitive(path, names) = {}
    PROVE  Image(path, value, names) = value
BY MaskedEnd DEF Image

LEMMA NothingInRedacted == Steps(REDACTED) = {}
BY DEF Steps, REDACTED, Leaf

\* What is reached in the masked value: what is reached in the value, up to and
\* with the first sensitive key.
LEMMA ReachedMasked ==
    ASSUME NEW root, IsTree(root), NEW names
    PROVE  \A n \in 0..Deepest : \A x :
               x \in Reached(Mask(root, names))[n] <=>
                   \E r \in Reached(root)[n] :
                       /\ Sensitive(r[1], names) \subseteq {n}
                       /\ x = <<r[1], Image(r[1], r[2], names)>>
<1> DEFINE M == Mask(root, names)
           Q(n, x) == \E r \in Reached(root)[n] :
                          /\ Sensitive(r[1], names) \subseteq {n}
                          /\ x = <<r[1], Image(r[1], r[2], names)>>
           S == {n \in 0..Deepest : /\ \A x \in Reached(M)[n] : Q(n, x)
                                    /\ \A r \in Reached(root)[n] :
                                           Sensitive(r[1], names) \subseteq {n} =>
                                               <<r[1], Image(r[1], r[2], names)>>
                                                   \in Reached(M)[n]}
<1>1. 0 \in S
  <2>1. 0 \in 0..Deepest
      BY DeepestNat
  <2>2. Reached(M)[0] = {<<<<>>, M>>} /\ Reached(root)[0] = {<<<<>>, root>>}
      BY ReachedEquation
  <2>3. Sensitive(<<>>, names) = {} /\ ~Opaque(<<>>)
      BY DEF Sensitive, Opaque
  <2>4. Image(<<>>, root, names) = M
      BY <2>3 DEF Image
  <2> DEFINE start == <<<<>>, root>>
  <2>5. start[1] = <<>> /\ start[2] = root
      OBVIOUS
  <2> HIDE DEF M, start
  <2>6. /\ start \in Reached(root)[0]
        /\ Sensitive(start[1], names) \subseteq {0}
        /\ <<start[1], Image(start[1], start[2], names)>> = <<<<>>, M>>
      BY <2>2, <2>3, <2>4, <2>5 DEF start
  <2>7. \A x \in Reached(M)[0] : Q(0, x)
      BY <2>2, <2>6
  <2>8. \A r \in Reached(root)[0] : r = start
      BY <2>2 DEF start
  <2>9. \A r \in Reached(root)[0] : <<r[1], Image(r[1], r[2], names)>> \in Reached(M)[0]
      BY <2>2, <2>6, <2>8
  <2> HIDE DEF Q
  <2> QED
      BY <2>1, <2>7, <2>9
<1>2. ASSUME NEW n \in 0..(Deepest - 1), n \in S PROVE n + 1 \in S
  <2>1. /\ n \in 0..Deepest /\ n + 1 \in 0..Deepest
        /\ n + 1 \in 1..Deepest /\ (n + 1) - 1 = n
      BY DeepestNat
  <2>2. ASSUME NEW x \in Reached(M)[n + 1] PROVE Q(n + 1, x)
    <3>1. PICK y \in Reached(M)[n] : \E step \in Steps(y[2]) :
              x = <<Append(y[1], step), Inside(y[2], step)>>
      <4>1. x \in Further(Reached(M)[n])
          BY <2>1, ReachedEquation
      <4> QED
          BY <4>1, FurtherMembers
    <3>2. PICK r \in Reached(root)[n] :
              /\ Sensitive(r[1], names) \subseteq {n}
              /\ y = <<r[1], Image(r[1], r[2], names)>>
        BY <1>2
    <3>3. y[1] = r[1] /\ y[2] = Image(r[1], r[2], names)
        BY <3>2
    <3>4. PICK step \in Steps(y[2]) : x = <<Append(y[1], step), Inside(y[2], step)>>
        BY <3>1
    <3>5. Sensitive(r[1], names) = {}
        BY <3>3, NothingInRedacted DEF Image
    <3>6. /\ r[1] \in Seq(AnyStep(root)) /\ Len(r[1]) = n /\ IsTree(r[2])
          /\ Steps(r[2]) \subseteq AnyStep(root)
        BY <2>1, ReachedShape
    <3>7. /\ step \in Steps(r[2])
          /\ Inside(y[2], step) = Image(Append(r[1], step), Inside(r[2], step), names)
      <4>1. /\ Steps(Image(r[1], r[2], names)) = Steps(r[2])
            /\ \A s \in Steps(r[2]) :
                   Inside(Image(r[1], r[2], names), s) =
                       Image(Append(r[1], s), Inside(r[2], s), names)
          BY <3>5, <3>6, ImageParts
      <4> QED
          BY <4>1, <3>3
    <3> DEFINE next == <<Append(r[1], step), Inside(r[2], step)>>
    <3>8. next \in Reached(root)[n + 1]
        BY <3>7, ReachedNext
    <3>9. Sensitive(Append(r[1], step), names) \subseteq {n + 1}
        BY <3>5, <3>6, <3>7, SensitiveAppend
    <3>10. x = <<next[1], Image(next[1], next[2], names)>>
        BY <3>3, <3>4, <3>7
    <3>11. Sensitive(next[1], names) \subseteq {n + 1}
        BY <3>9
    <3> HIDE DEF next
    <3> QED
        BY <3>8, <3>10, <3>11
  <2>3. ASSUME NEW r \in Reached(root)[n + 1], Sensitive(r[1], names) \subseteq {n + 1}
        PROVE  <<r[1], Image(r[1], r[2], names)>> \in Reached(M)[n + 1]
    <3>1. PICK b \in Reached(root)[n] : \E step \in Steps(b[2]) :
              r = <<Append(b[1], step), Inside(b[2], step)>>
        BY ReachedBefore
    <3>2. PICK step \in Steps(b[2]) : r = <<Append(b[1], step), Inside(b[2], step)>>
        BY <3>1
    <3>3. r[1] = Append(b[1], step) /\ r[2] = Inside(b[2], step)
        BY <3>2
    <3>4. /\ b[1] \in Seq(AnyStep(root)) /\ Len(b[1]) = n /\ IsTree(b[2])
          /\ Steps(b[2]) \subseteq AnyStep(root)
        BY <2>1, ReachedShape
    <3>5. Sensitive(b[1], names) \subseteq 1..n /\ n + 1 \notin 1..n
        BY <3>4 DEF Sensitive
    <3>6. Sensitive(b[1], names) \subseteq {n + 1}
        BY <2>3, <3>3, <3>4, SensitiveAppend
    <3>7. Sensitive(b[1], names) = {}
        BY <3>5, <3>6
    <3> DEFINE y == <<b[1], Image(b[1], b[2], names)>>
    <3>8. y \in Reached(M)[n]
        BY <1>2, <3>7
    <3>9. /\ step \in Steps(Image(b[1], b[2], names))
          /\ Inside(Image(b[1], b[2], names), step) =
                 Image(Append(b[1], step), Inside(b[2], step), names)
        BY <3>4, <3>7, ImageParts
    <3>10. step \in Steps(y[2])
        BY <3>9
    <3>11. <<Append(y[1], step), Inside(y[2], step)>> \in Reached(M)[n + 1]
      <4> HIDE DEF y, M
      <4> QED
          BY <3>8, <3>10, ReachedNext
    <3> QED
        BY <3>3, <3>9, <3>11
  <2> HIDE DEF Q, M
  <2> QED
      BY <2>1, <2>2, <2>3
<1>3. \A n \in 0..Deepest : n \in S
  <2> HIDE DEF S
  <2> QED
      BY <1>1, <1>2, DeepestNat, Ascent
<1> QED
    BY <1>3

LEMMA First ==
    ASSUME NEW last \in Nat, NEW H, H \subseteq 1..last, H # {}
    PROVE  \E i \in H : \A j \in H : i <= j
<1> SUFFICES ASSUME \A i \in H : \E j \in H : ~(i <= j) PROVE FALSE
    OBVIOUS
<1> DEFINE S == {k \in 0..last : \A j \in H : j > k}
<1>1. 0 \in S
    OBVIOUS
<1>2. ASSUME NEW k \in 0..(last - 1), k \in S PROVE k + 1 \in S
  <2>1. k + 1 \notin H
      BY <1>2
  <2>2. \A j \in H : j > k /\ j # k + 1
      BY <1>2, <2>1
  <2> QED
      BY <2>2
<1>3. last \in S
  <2> HIDE DEF S
  <2> QED
      BY <1>1, <1>2, Ascent
<1>4. \A j \in H : j > last /\ j \in 1..last
    BY <1>3
<1>5. \A j \in 1..last : ~(j > last)
    OBVIOUS
<1> QED
    BY <1>4, <1>5

\* Masking shows exactly what may be shown.
LEMMA MaskShows ==
    ASSUME NEW root, IsTree(root), NEW names
    PROVE  Ends(Mask(root, names)) = Shown(root, names)
<1> DEFINE M == Mask(root, names)
<1>0. ASSUME NEW e PROVE e \in Ends(root) <=>
                             \E n \in 0..Deepest : e \in Reached(root)[n] /\ Steps(e[2]) = {}
    BY DEF Ends, Deepest
<1>1. ASSUME NEW e PROVE e \in Ends(M) <=>
                             \E n \in 0..Deepest : e \in Reached(M)[n] /\ Steps(e[2]) = {}
  <2> HIDE DEF M
  <2> QED
      BY DEF Ends, Deepest
<1>2. ASSUME NEW e \in Ends(M) PROVE \E end \in Ends(root) : e = Seen(end, names)
  <2>1. PICK n \in 0..Deepest : e \in Reached(M)[n] /\ Steps(e[2]) = {}
      BY <1>1
  <2>2. PICK r \in Reached(root)[n] : /\ Sensitive(r[1], names) \subseteq {n}
                                      /\ e = <<r[1], Image(r[1], r[2], names)>>
      BY <2>1, ReachedMasked
  <2>3. /\ r = <<r[1], r[2]>> /\ r[1] \in Seq(AnyStep(root)) /\ Len(r[1]) = n
        /\ IsTree(r[2]) /\ Steps(r[2]) \subseteq AnyStep(root)
      BY ReachedShape
  <2>4. e[2] = Image(r[1], r[2], names)
      BY <2>2
  <2>5. CASE Sensitive(r[1], names) = {}
    <3>1. Steps(r[2]) = {}
        BY <2>1, <2>3, <2>4, <2>5, ImageParts
    <3>2. e = r
        BY <2>2, <2>3, <2>5, <3>1, ImageEnd
    <3>3. r \in Ends(root)
        BY <3>1, <1>0
    <3>4. Seen(r, names) = r
        BY <2>5 DEF Seen
    <3> QED
        BY <3>2, <3>3, <3>4
  <2>6. CASE Sensitive(r[1], names) # {}
    <3>1. Sensitive(r[1], names) = {n}
        BY <2>2, <2>6
    <3>2. e = <<r[1], REDACTED>>
        BY <2>2, <2>6 DEF Image
    <3>3. PICK end \in Ends(root) : Len(end[1]) \in n..Deepest /\ SubSeq(end[1], 1, n) = r[1]
        BY ReachedHasEnd
    <3>4. PICK m \in 0..Deepest : end \in Reached(root)[m]
        BY <1>0
    <3>5. end[1] \in Seq(AnyStep(root))
        BY <3>4, ReachedShape
    <3>6. n \in 0..Len(end[1])
        BY <3>3
    <3>7. Sensitive(end[1], names) \cap (1..n) = {n}
        BY <3>1, <3>3, <3>5, <3>6, SensitivePrefix
    <3>8. Sensitive(end[1], names) \subseteq Int
        BY <3>5 DEF Sensitive
    <3>9. n \in Sensitive(end[1], names) /\ \A j \in Sensitive(end[1], names) : n <= j
      <4>1. \A j \in Sensitive(end[1], names) : j \in Nat /\ j >= 1
          BY <3>5 DEF Sensitive
      <4> QED
          BY <3>7, <4>1
    <3>10. (CHOOSE i \in Sensitive(end[1], names) :
                \A j \in Sensitive(end[1], names) : i <= j) = n
        BY <3>8, <3>9
    <3>11. Seen(end, names) = <<r[1], REDACTED>>
        BY <3>3, <3>9, <3>10 DEF Seen
    <3> QED
        BY <3>2, <3>11
  <2> QED
      BY <2>5, <2>6
<1>3. ASSUME NEW end \in Ends(root) PROVE Seen(end, names) \in Ends(M)
  <2>1. PICK n \in 0..Deepest : end \in Reached(root)[n] /\ Steps(end[2]) = {}
      BY <1>0
  <2>2. /\ end = <<end[1], end[2]>> /\ end[1] \in Seq(AnyStep(root)) /\ Len(end[1]) = n
        /\ IsTree(end[2])
      BY <2>1, ReachedShape
  <2>3. CASE Sensitive(end[1], names) = {}
    <3>1. Image(end[1], end[2], names) = end[2]
        BY <2>1, <2>2, <2>3, ImageEnd
    <3>2. end \in Reached(M)[n]
        BY <2>1, <2>2, <2>3, <3>1, ReachedMasked
    <3>3. Seen(end, names) = end
        BY <2>3 DEF Seen
    <3> QED
        BY <2>1, <3>2, <3>3, <1>1
  <2>4. CASE Sensitive(end[1], names) # {}
    <3> DEFINE hidden == Sensitive(end[1], names)
               k == CHOOSE i \in hidden : \A j \in hidden : i <= j
    <3>1. hidden \subseteq 1..n
        BY <2>2 DEF Sensitive
    <3>2. k \in hidden /\ \A j \in hidden : k <= j
      <4> HIDE DEF hidden
      <4>1. \E i \in hidden : \A j \in hidden : i <= j
          BY <2>4, <3>1, First, DeepestNat DEF hidden
      <4> QED
          BY <4>1
    <3>3. Seen(end, names) = <<SubSeq(end[1], 1, k), REDACTED>>
        BY <2>4, Zenon DEF Seen
    <3> HIDE DEF k
    <3>4. k \in 0..n /\ k \in 0..Deepest /\ k \in 0..Len(end[1])
        BY <3>1, <3>2, <2>2, DeepestNat
    <3>5. PICK b \in Reached(root)[k] : b[1] = SubSeq(end[1], 1, k)
        BY <2>1, <3>4, ReachedOnTheWay
    <3>6. Sensitive(b[1], names) = hidden \cap (1..k)
        BY <2>2, <3>4, <3>5, SensitivePrefix
    <3>7. Sensitive(b[1], names) = {k}
      <4> HIDE DEF hidden
      <4> QED
          BY <3>1, <3>2, <3>6
    <3>8. Image(b[1], b[2], names) = REDACTED
        BY <3>7 DEF Image
    <3>9. <<b[1], REDACTED>> \in Reached(M)[k]
        BY <3>4, <3>7, <3>8, ReachedMasked
    <3>10. <<b[1], REDACTED>>[2] = REDACTED
        OBVIOUS
    <3>11. <<b[1], REDACTED>> \in Ends(M)
        BY <3>4, <3>9, <3>10, NothingInRedacted, <1>1
    <3> QED
        BY <3>3, <3>5, <3>11
  <2> QED
      BY <2>3, <2>4
<1>4. Shown(root, names) = {Seen(end, names) : end \in Ends(root)}
    BY DEF Shown
<1> HIDE DEF M
<1>5. Ends(M) = Shown(root, names)
    BY <1>2, <1>3, <1>4
<1> QED
    BY <1>5 DEF M

\* A dictionary of values, masked item by item, shows what may be shown of it.
LEMMA RedactItemsShows ==
    ASSUME NEW items, IsItems(items), NEW names
    PROVE  Ends(Dict(RedactItems(items, names))) = Shown(Dict(items), names)
<1>1. IsTree(Dict(items))
  <2>1. Steps(Dict(items)) = {Key(k) : k \in DOMAIN items}
      BY DEF Steps, Dict
  <2>2. \A k \in DOMAIN items : Inside(Dict(items), Key(k)) = items[k]
      BY DEF Inside, Dict, Key
  <2>3. IsValue(Dict(items))
      BY DEF IsValue, Dict
  <2> QED
      BY <2>1, <2>2, <2>3 DEF IsTree, IsItems
<1>2. Mask(Dict(items), names) = Dict(RedactItems(items, names))
    BY DEF Mask, Redacted, RedactItems, Dict
<1> QED
    BY <1>1, <1>2, MaskShows

-----------------------------------------------------------------------------
(***************************************************************************)
(* What the chain makes of a call.                                         *)
(***************************************************************************)
LEMMA Merged ==
    ASSUME NEW f, NEW g, NEW k
    PROVE  /\ k \in DOMAIN (f ++ g) <=> k \in DOMAIN f \/ k \in DOMAIN g
           /\ k \in DOMAIN f => (f ++ g)[k] = f[k]
           /\ k \in DOMAIN g /\ k \notin DOMAIN f => (f ++ g)[k] = g[k]
BY DEF ++

LEMMA ItemHas ==
    ASSUME NEW name, NEW value
    PROVE  DOMAIN Item(name, value) = {Str(name)} /\ Item(name, value)[Str(name)] = value
BY DEF Item

LEMMA NamesDiffer == \A m, n : m # n => Str(m) # Str(n)
BY DEF Str

LEMMA NothingHas == DOMAIN Nothing = {}
BY DEF Nothing

\* The fields the code itself puts into every record.
LEMMA AssembledHas ==
    ASSUME NEW c \in LogCalls, NEW bound
    PROVE  LET a == Assembled(bound, c)
           IN  /\ Str("service.name") \in DOMAIN a
               /\ a[Str("service.name")] = Leaf(bound.service)
               /\ c.span => /\ Str("trace_id") \in DOMAIN a
                            /\ a[Str("trace_id")] = Leaf("trace")
               /\ ~c.span => Str("trace_id") \notin DOMAIN a
               /\ Str("correlation_id") \in DOMAIN c.context =>
                      /\ Str("correlation_id") \in DOMAIN a
                      /\ a[Str("correlation_id")] = Leaf("id")
<1> DEFINE exception == IF c.locals = Nothing THEN Nothing
                        ELSE Item("exception", Traceback(c.locals))
           named == IF c.origin = "structlog" THEN c.fields ELSE Nothing
           a1 == ResourceAttributes(bound)
           a2 == a1 ++ OtelContext(c)
           a3 == a2 ++ Item("logger", Leaf(c.logger))
           a4 == a3 ++ Item("level", Leaf(LevelName[c.level]))
           a5 == a4 ++ exception
           a6 == a5 ++ Item("event", Leaf("what happened"))
           a7 == a6 ++ named
           a8 == a7 ++ c.context
           trace == Str("trace_id")
           service == Str("service.name")
           id == Str("correlation_id")
<1>0. Assembled(bound, c) = a8
    BY DEF Assembled
<1>1. /\ service # trace /\ service # id /\ trace # id
      /\ \A key \in {service, trace, id} :
             /\ key # Str("logger") /\ key # Str("level")
             /\ key # Str("exception") /\ key # Str("event") /\ key # Str("span_id")
  <2>1. \A m \in {"service.name", "trace_id", "correlation_id"} :
            \A n \in {"logger", "level", "exception", "event", "span_id"} : Str(m) # Str(n)
      BY NamesDiffer
  <2>2. service # trace /\ service # id /\ trace # id
      BY NamesDiffer
  <2> QED
      BY <2>1, <2>2
<1>2. DOMAIN a1 = {service} /\ a1[service] = Leaf(bound.service)
    BY ItemHas DEF ResourceAttributes
<1>3. /\ c.span => /\ trace \in DOMAIN OtelContext(c)
                   /\ OtelContext(c)[trace] = Leaf("trace")
      /\ ~c.span => trace \notin DOMAIN OtelContext(c)
      /\ service \notin DOMAIN OtelContext(c) /\ id \notin DOMAIN OtelContext(c)
  <2>1. CASE c.span
    <3> DEFINE t == Item("trace_id", Leaf("trace"))
               s == Item("span_id", Leaf("span"))
    <3>1. OtelContext(c) = t ++ s
        BY <2>1 DEF OtelContext
    <3>2. DOMAIN t = {trace} /\ t[trace] = Leaf("trace") /\ DOMAIN s = {Str("span_id")}
        BY ItemHas
    <3> HIDE DEF t, s, trace, id, service
    <3>3. DOMAIN (t ++ s) = {trace, Str("span_id")} /\ (t ++ s)[trace] = Leaf("trace")
        BY <3>2, Merged
    <3> QED
        BY <2>1, <3>1, <3>3, <1>1
  <2>2. CASE ~c.span
      BY <2>2, NothingHas DEF OtelContext
  <2> QED
      BY <2>1, <2>2
<1>4. DOMAIN exception \subseteq {Str("exception")}
    BY ItemHas, NothingHas
<1>5. /\ trace \notin DOMAIN named /\ trace \notin DOMAIN c.context
      /\ id \in DOMAIN named => named[id] = Leaf("id")
      /\ id \in DOMAIN c.context => c.context[id] = Leaf("id")
    BY LogCallsAssumption, NothingHas DEF LogCallsAssumption
<1> HIDE DEF exception, named, trace, service, id, a1
<1>6. /\ service \in DOMAIN a2 /\ a2[service] = Leaf(bound.service)
      /\ c.span => trace \in DOMAIN a2 /\ a2[trace] = Leaf("trace")
      /\ ~c.span => trace \notin DOMAIN a2
      /\ id \notin DOMAIN a2
    BY <1>1, <1>2, <1>3, Merged
<1> HIDE DEF a2
<1> DEFINE Same(f, g) ==
               /\ \A key \in {service, trace, id} : key \in DOMAIN f <=> key \in DOMAIN g
               /\ \A key \in {service, trace, id} : key \in DOMAIN f => f[key] = g[key]
<1>7. ASSUME NEW f, NEW g, \A key \in {service, trace, id} : key \notin DOMAIN g
      PROVE  Same(f, f ++ g)
    BY <1>7, Merged
<1>8. Same(a2, a3)
  <2>1. \A key \in {service, trace, id} : key \notin DOMAIN Item("logger", Leaf(c.logger))
      BY <1>1, ItemHas
  <2> QED
      BY <2>1, <1>7
<1> HIDE DEF a3
<1>9. Same(a3, a4)
  <2>1. \A key \in {service, trace, id} :
            key \notin DOMAIN Item("level", Leaf(LevelName[c.level]))
      BY <1>1, ItemHas
  <2> QED
      BY <2>1, <1>7
<1> HIDE DEF a4
<1>10. Same(a4, a5)
  <2>1. \A key \in {service, trace, id} : key \notin DOMAIN exception
      BY <1>1, <1>4
  <2> QED
      BY <2>1, <1>7
<1> HIDE DEF a5
<1>11. Same(a5, a6)
  <2>1. \A key \in {service, trace, id} :
            key \notin DOMAIN Item("event", Leaf("what happened"))
      BY <1>1, ItemHas
  <2> QED
      BY <2>1, <1>7
<1> HIDE DEF a6
<1>12. /\ service \in DOMAIN a6 /\ a6[service] = Leaf(bound.service)
       /\ c.span => trace \in DOMAIN a6 /\ a6[trace] = Leaf("trace")
       /\ ~c.span => trace \notin DOMAIN a6
       /\ id \notin DOMAIN a6
    BY <1>6, <1>8, <1>9, <1>10, <1>11
<1> HIDE DEF Same
<1>13. /\ service \in DOMAIN a7 /\ a7[service] = Leaf(bound.service)
       /\ c.span => trace \in DOMAIN a7 /\ a7[trace] = Leaf("trace")
       /\ ~c.span => trace \notin DOMAIN a7
       /\ id \in DOMAIN a7 => a7[id] = Leaf("id")
    BY <1>12, <1>5, Merged
<1> HIDE DEF a7
<1>14. /\ service \in DOMAIN a8 /\ a8[service] = Leaf(bound.service)
       /\ c.span => trace \in DOMAIN a8 /\ a8[trace] = Leaf("trace")
       /\ ~c.span => trace \notin DOMAIN a8
       /\ id \in DOMAIN c.context => id \in DOMAIN a8 /\ a8[id] = Leaf("id")
    BY <1>13, <1>5, Merged
<1> HIDE DEF a8
<1> QED
    BY <1>0, <1>14 DEF service, trace, id

\* The chain reads the application's name and nothing else of what is bound.
LEMMA AssembledByService ==
    ASSUME NEW bound, NEW c
    PROVE  Assembled(bound, c) = Assembled([service |-> bound.service], c)
<1>1. ResourceAttributes(bound) = ResourceAttributes([service |-> bound.service])
    BY DEF ResourceAttributes
<1> QED
    BY <1>1 DEF Assembled

\* What a record holds of the fields the code itself put there.
LEMMA RedactedHolds ==
    ASSUME NEW items, IsItems(items), NEW name, NEW value,
           Str(name) \in DOMAIN items, items[Str(name)] = Leaf(value)
    PROVE  Holds(RedactItems(items, Names(Fields)), name, value)
<1> DEFINE key == Str(name)
           names == Names(Fields)
           R == RedactValue(names)
<1>1. RedactItems(items, names) = Masked(items, names, R)
    BY DEF RedactItems
<1>2. /\ key \in DOMAIN Masked(items, names, R)
      /\ Masked(items, names, R)[key] = IF Matches(key, names) THEN REDACTED ELSE R[items[key]]
    BY DEF Masked
<1>3. R[Leaf(value)] = Leaf(value)
  <2>1. Leaf(value) \in Values
      BY DEF IsItems
  <2>2. R[Leaf(value)] = Redacted(Leaf(value), names, R)
      BY <2>1, RedactValueEquation
  <2>3. Redacted(Leaf(value), names, R) = Leaf(value)
      BY DEF Redacted, Leaf
  <2> QED
      BY <2>2, <2>3
<1> QED
    BY <1>1, <1>2, <1>3 DEF Holds

-----------------------------------------------------------------------------
(***************************************************************************)
(* The loggers, and the way of a record.                                   *)
(***************************************************************************)
\* The handlers one configure_logging gives the root logger.
Legs == IF otlp
        THEN <<[leg |-> "stdout", chain |-> chain], [leg |-> "otlp", chain |-> chain]>>
        ELSE <<[leg |-> "stdout", chain |-> chain]>>

\* Nobody but uvicorn and configure_logging touches a logger.
Untouched ==
    /\ DOMAIN handlers = Loggers /\ DOMAIN propagate = Loggers
    /\ \A l \in {"sqlalchemy.engine", "pyfr_m8_verify"} : handlers[l] = <<>> /\ propagate[l]

\* Once configured, all records go to the root logger, and its handlers are those of
\* the current application.
Configured ==
    governed => /\ apps \in DOMAIN Services
                /\ chain = [service |-> Services[apps], names |-> Names(Fields)]
                /\ handlers["root"] = Legs
                /\ \A l \in Loggers \ {"root"} : handlers[l] = <<>> /\ propagate[l]

\* The attributes a call gives its record.
Given == IF call.origin = "structlog" THEN Nothing ELSE call.fields

OnStdout == [leg |-> "stdout", body |-> Chain(chain, call), attributes |-> Nothing]
OnOtlp == [leg |-> "otlp", body |-> Chain(chain, call),
           attributes |-> RedactItems(Given, Names(Fields))]

\* A record on its way is written by the handlers it has passed and by no other.
OnItsWay ==
    governed /\ call # Idle =>
        /\ call \in LogCalls
        /\ message = IF call.origin = "structlog" THEN Chain(chain, call) ELSE Nothing
        /\ \/ written = <<>> /\ todo = Legs /\ extra = Given
           \/ written = <<OnStdout>> /\ todo = Tail(Legs) /\ extra = Given
           \/ otlp /\ written = <<OnStdout, OnOtlp>> /\ todo = <<>>

LogInv == /\ apps \in Nat /\ otlp \in BOOLEAN
          /\ Untouched /\ Configured /\ OnItsWay

LEMMA LogInitInv == LogInit => LogInv
<1> SUFFICES ASSUME LogInit PROVE LogInv
    OBVIOUS
<1>1. governed = FALSE /\ apps \in Nat /\ otlp \in BOOLEAN
    BY DEF LogInit
<1>2. Untouched
    BY DEF LogInit, Untouched, Loggers
<1> QED
    BY <1>1, <1>2 DEF LogInv, Configured, OnItsWay

LEMMA InstallUvicornStep == ASSUME LogInv, InstallUvicorn PROVE LogInv'
<1>1. Untouched'
    BY DEF LogInv, Untouched, InstallUvicorn, Loggers
<1>2. governed' = FALSE /\ apps' = apps /\ otlp' = otlp
    BY DEF InstallUvicorn
<1> QED
    BY <1>1, <1>2 DEF LogInv, Configured, OnItsWay

LEMMA ConfigureLoggingStep ==
    ASSUME LogInv, call = Idle, NEW exports \in BOOLEAN, NEW levels,
           ConfigureLogging(exports, levels)
    PROVE  LogInv'
<1> DEFINE bound == [service |-> Services[apps + 1], names |-> Names(Fields)]
           stdout == [leg |-> "stdout", chain |-> bound]
           export == [leg |-> "otlp", chain |-> bound]
           root == IF exports THEN <<stdout, export>> ELSE <<stdout>>
<1>1. /\ chain' = bound /\ Adopt(root)
      /\ otlp' = exports /\ apps' = apps + 1 /\ governed' = TRUE
      /\ call' = call /\ apps < Len(Services)
    BY DEF ConfigureLogging, recordVars
<1>2. root = Legs'
    BY <1>1 DEF Legs
<1>3. apps' \in DOMAIN Services /\ apps' \in Nat
    BY <1>1, LogCallsAssumption DEF LogInv, LogCallsAssumption
<1> HIDE DEF root
<1>4. /\ DOMAIN handlers' = Loggers /\ DOMAIN propagate' = Loggers
      /\ handlers'["root"] = root
      /\ \A l \in UvicornLoggers : handlers'[l] = <<>> /\ propagate'[l]
      /\ \A l \in {"sqlalchemy.engine", "pyfr_m8_verify"} :
             handlers'[l] = handlers[l] /\ (propagate[l] => propagate'[l])
    BY <1>1 DEF Adopt, Loggers, UvicornLoggers
<1>5. Untouched'
    BY <1>4 DEF LogInv, Untouched
<1>6. \A l \in Loggers \ {"root"} : handlers'[l] = <<>> /\ propagate'[l]
    BY <1>4, <1>5 DEF Untouched, Loggers, UvicornLoggers
<1>7. Configured'
    BY <1>1, <1>2, <1>3, <1>4, <1>6 DEF Configured
<1>8. OnItsWay'
    BY <1>1 DEF OnItsWay
<1> QED
    BY <1>1, <1>3, <1>5, <1>7, <1>8 DEF LogInv

\* Wherever a record starts, it meets the root logger's handlers and no others.
LEMMA AllRoadsLeadToRoot ==
    ASSUME \A l \in Loggers \ {"root"} : handlers[l] = <<>> /\ propagate[l],
           handlers["root"] = Legs, NEW l \in Loggers
    PROVE  HandlersFrom[l] = Legs
<1> DEFINE Equation(from) ==
               [m \in Loggers |->
                   handlers[m] \o (IF m # "root" /\ propagate[m] THEN from[Parent(m)] ELSE <<>>)]
           same == [m \in Loggers |-> Legs]
<1>1. \A m \in Loggers : Parent(m) \in Loggers
    BY DEF Parent, Loggers
<1>2. <<>> \o Legs = Legs /\ Legs \o <<>> = Legs
    BY DEF Legs
<1>3. \E from : from = Equation(from)
  <2>1. ASSUME NEW m \in Loggers
        PROVE  handlers[m] \o (IF m # "root" /\ propagate[m] THEN same[Parent(m)] ELSE <<>>)
                   = Legs
    <3>1. same[Parent(m)] = Legs
        BY <1>1
    <3> HIDE DEF same
    <3> QED
        BY <3>1, <1>2
  <2>2. same = Equation(same)
    <3> HIDE DEF same
    <3>1. Equation(same) = [m \in Loggers |-> Legs]
        BY <2>1
    <3> QED
        BY <3>1 DEF same
  <2> QED
      BY <2>2
<1>4. HandlersFrom = CHOOSE from : from = Equation(from)
    BY Zenon DEF HandlersFrom
<1>5. HandlersFrom = Equation(HandlersFrom)
  <2> HIDE DEF Equation
  <2> QED
      BY <1>3, <1>4, Zenon
<1>6. \A m \in Loggers :
          HandlersFrom[m] =
              handlers[m] \o (IF m # "root" /\ propagate[m]
                              THEN HandlersFrom[Parent(m)] ELSE <<>>)
    BY <1>5, Zenon
<1>7. "root" \in Loggers /\ HandlersFrom["root"] = Legs
  <2>1. "root" \in Loggers
      BY DEF Loggers
  <2>2. HandlersFrom["root"] = handlers["root"] \o <<>>
      BY <2>1, <1>6
  <2> QED
      BY <2>1, <2>2, <1>2
<1>8. ASSUME NEW m \in Loggers, Parent(m) = "root" PROVE HandlersFrom[m] = Legs
  <2>1. CASE m = "root"
      BY <2>1, <1>7
  <2>2. CASE m # "root"
    <3>1. HandlersFrom[m] = <<>> \o HandlersFrom["root"]
        BY <2>2, <1>6, <1>8
    <3> QED
        BY <3>1, <1>2, <1>7
  <2> QED
      BY <2>1, <2>2
<1>9. ASSUME NEW m \in Loggers, Parent(m) = "uvicorn" PROVE HandlersFrom[m] = Legs
  <2>1. "uvicorn" \in Loggers /\ Parent("uvicorn") = "root" /\ m # "root"
      BY <1>9 DEF Loggers, Parent
  <2>2. HandlersFrom[m] = <<>> \o HandlersFrom["uvicorn"]
      BY <2>1, <1>6, <1>9
  <2> QED
      BY <2>1, <2>2, <1>2, <1>8
<1>10. Parent(l) = "root" \/ Parent(l) = "uvicorn"
    BY DEF Parent
<1> QED
    BY <1>8, <1>9, <1>10

LEMMA LogCallStep ==
    ASSUME LogInv, NEW c \in LogCalls, LogCall(c)
    PROVE  LogInv'
<1>1. /\ call' = c /\ todo' = HandlersFrom[c.logger] /\ written' = <<>>
      /\ message' = IF c.origin = "structlog" THEN Chain(chain, c) ELSE Nothing
      /\ extra' = IF c.origin = "structlog" THEN Nothing ELSE c.fields
      /\ UNCHANGED loggerVars
    BY DEF LogCall
<1>2. Untouched' /\ Configured' /\ Legs' = Legs
    BY <1>1 DEF LogInv, Untouched, Configured, Legs, loggerVars
<1>3. c.logger \in Loggers
    BY LogCallsAssumption DEF LogCallsAssumption
<1>4. governed => todo' = Legs
    BY <1>1, <1>3, AllRoadsLeadToRoot DEF LogInv, Configured
<1>5. chain' = chain /\ governed' = governed
    BY <1>1 DEF loggerVars
<1>6. /\ extra' = Given'
      /\ message' = IF call'.origin = "structlog" THEN Chain(chain', call') ELSE Nothing
    BY <1>1, <1>5 DEF Given
<1>7. OnItsWay'
    BY <1>1, <1>2, <1>4, <1>5, <1>6 DEF OnItsWay
<1> QED
    BY <1>1, <1>2, <1>7 DEF LogInv, loggerVars

LEMMA AppendToOne == \A x, y : Append(<<x>>, y) = <<x, y>>
<1> SUFFICES ASSUME NEW x, NEW y PROVE Append(<<x>>, y) = <<x, y>>
    OBVIOUS
<1> DEFINE S == {x, y}
           s == Append(<<x>>, y)
<1>1. <<x>> \in Seq(S) /\ y \in S /\ <<x, y>> \in Seq(S)
    OBVIOUS
<1>2. s \in Seq(S) /\ Len(s) = 2 /\ s[1] = x /\ s[2] = y
    BY <1>1
<1> HIDE DEF s, S
<1>3. DOMAIN s = {1, 2} /\ s = [i \in {1, 2} |-> s[i]]
    BY <1>2
<1>4. <<x, y>> = [i \in {1, 2} |-> IF i = 1 THEN x ELSE y]
    OBVIOUS
<1>5. s = <<x, y>>
    BY <1>2, <1>3, <1>4
<1> QED
    BY <1>5 DEF s

LEMMA HandleStep == ASSUME LogInv, Handle PROVE LogInv'
<1>1. UNCHANGED <<loggerVars, call, message>> /\ todo # <<>> /\ todo' = Tail(todo)
    BY DEF Handle
<1>2. Untouched' /\ Configured' /\ Legs' = Legs /\ Given' = Given /\ chain' = chain
      /\ call' = call /\ message' = message /\ governed' = governed /\ otlp' = otlp
    BY <1>1 DEF LogInv, Untouched, Configured, Legs, Given, loggerVars
<1>3. OnStdout' = OnStdout /\ OnOtlp' = OnOtlp
    BY <1>2 DEF OnStdout, OnOtlp
<1>4. ASSUME governed, call # Idle PROVE OnItsWay'
  <2>1. call \in LogCalls
        /\ message = (IF call.origin = "structlog" THEN Chain(chain, call) ELSE Nothing)
      BY <1>4 DEF LogInv, OnItsWay
  <2>2. \A handler : handler.chain = chain => Body(handler) = Chain(chain, call)
      BY <2>1 DEF Body
  <2>3. chain.names = Names(Fields)
      BY <1>4 DEF LogInv, Configured
  <2>4. CASE written = <<>> /\ todo = Legs /\ extra = Given
    <3>1. Head(todo).leg = "stdout" /\ Head(todo).chain = chain
        BY <2>4 DEF Legs
    <3>2. written' = Append(written, [leg |-> "stdout", body |-> Body(Head(todo)),
                                      attributes |-> Nothing])
          /\ extra' = extra
        BY <3>1 DEF Handle
    <3>3. written' = <<OnStdout>>
        BY <3>1, <3>2, <2>2, <2>4 DEF OnStdout
    <3> QED
        BY <1>1, <1>2, <1>3, <2>1, <2>4, <3>2, <3>3 DEF OnItsWay
  <2>5. CASE written = <<OnStdout>> /\ todo = Tail(Legs) /\ extra = Given
    <3>1. otlp /\ Head(todo).leg = "otlp" /\ Head(todo).chain = chain /\ Tail(todo) = <<>>
        BY <2>5, <1>1 DEF Legs
    <3>2. /\ extra' = Attributes(Head(todo))
          /\ written' = Append(written, [leg |-> "otlp", body |-> Body(Head(todo)),
                                         attributes |-> extra'])
        BY <3>1 DEF Handle
    <3>3. extra' = RedactItems(Given, Names(Fields))
        BY <3>1, <3>2, <2>3, <2>5 DEF Attributes
    <3>4. [leg |-> "otlp", body |-> Body(Head(todo)), attributes |-> extra'] = OnOtlp
        BY <3>1, <3>3, <2>2 DEF OnOtlp
    <3>5. written' = Append(<<OnStdout>>, OnOtlp)
        BY <3>2, <3>4, <2>5
    <3>6. written' = <<OnStdout, OnOtlp>>
        BY <3>5, AppendToOne
    <3> QED
        BY <1>1, <1>2, <1>3, <2>1, <3>1, <3>6 DEF OnItsWay
  <2>6. CASE todo = <<>>
      BY <2>6, <1>1
  <2> QED
      BY <1>4, <2>4, <2>5, <2>6 DEF LogInv, OnItsWay
<1>5. OnItsWay'
    BY <1>2, <1>4 DEF OnItsWay
<1> QED
    BY <1>1, <1>2, <1>5 DEF LogInv, loggerVars

LEMMA LoggedStep == ASSUME LogInv, Logged PROVE LogInv'
<1>1. UNCHANGED loggerVars /\ call' = Idle
    BY DEF Logged
<1>2. Untouched' /\ Configured'
    BY <1>1 DEF LogInv, Untouched, Configured, Legs, loggerVars
<1>3. OnItsWay'
    BY <1>1 DEF OnItsWay
<1> QED
    BY <1>1, <1>2, <1>3 DEF LogInv, loggerVars

LEMMA LogStutter == ASSUME LogInv, UNCHANGED logVars PROVE LogInv'
<1>1. UNCHANGED loggerVars /\ UNCHANGED recordVars
    BY DEF logVars
<1>2. Untouched' /\ Configured' /\ Legs' = Legs /\ Given' = Given
      /\ OnStdout' = OnStdout /\ OnOtlp' = OnOtlp
    BY <1>1 DEF LogInv, Untouched, Configured, Legs, Given, OnStdout, OnOtlp,
                loggerVars, recordVars
<1>3. OnItsWay'
    BY <1>1, <1>2 DEF LogInv, OnItsWay, loggerVars, recordVars
<1> QED
    BY <1>1, <1>2, <1>3 DEF LogInv, loggerVars

LEMMA RecordStep == ASSUME LogInv, [LogNext]_logVars PROVE LogInv'
<1>1. CASE LogNext
  <2>1. CASE call = Idle /\ InstallUvicorn
      BY <2>1, InstallUvicornStep
  <2>2. CASE call = Idle /\ \E exports \in BOOLEAN :
                 \E levels \in {Nothing, [l \in {"sqlalchemy.engine"} |-> Debug]} :
                     ConfigureLogging(exports, levels)
      BY <2>2, ConfigureLoggingStep
  <2>3. CASE \E c \in LogCalls : LogCall(c)
      BY <2>3, LogCallStep
  <2>4. CASE Handle
      BY <2>4, HandleStep
  <2>5. CASE Logged
      BY <2>5, LoggedStep
  <2> QED
      BY <1>1, <2>1, <2>2, <2>3, <2>4, <2>5 DEF LogNext
<1>2. CASE UNCHANGED logVars
    BY <1>2, LogStutter
<1> QED
    BY <1>1, <1>2

LEMMA LogInductive == LogSpec => []LogInv
<1>1. LogInit => LogInv
    BY LogInitInv
<1>2. LogInv /\ [LogNext]_logVars => LogInv'
    BY RecordStep
<1> QED
    BY <1>1, <1>2, PTL DEF LogSpec

\* What is written of a record when its call returns.
LEMMA WrittenWhenOver ==
    ASSUME LogInv, Over
    PROVE  /\ call \in LogCalls /\ apps \in DOMAIN Services
           /\ chain = [service |-> Services[apps], names |-> Names(Fields)]
           /\ written = IF otlp THEN <<OnStdout, OnOtlp>> ELSE <<OnStdout>>
           /\ IsItems(Assembled(chain, call))
<1>1. /\ call \in LogCalls /\ apps \in DOMAIN Services
      /\ chain = [service |-> Services[apps], names |-> Names(Fields)]
    BY DEF LogInv, Over, Configured, OnItsWay
<1>2. Legs # <<>> /\ (Tail(Legs) = <<>> => ~otlp)
    BY DEF Legs
<1>3. written = IF otlp THEN <<OnStdout, OnOtlp>> ELSE <<OnStdout>>
    BY <1>2 DEF LogInv, Over, OnItsWay
<1>4. chain.service = Services[apps]
    BY <1>1
<1>5. IsItems(Assembled([service |-> Services[apps]], call))
    BY <1>1, LogCallsAssumption DEF LogCallsAssumption
<1>6. Assembled(chain, call) = Assembled([service |-> Services[apps]], call)
    BY <1>4, AssembledByService
<1> QED
    BY <1>1, <1>3, <1>5, <1>6

\* Every record is written once per leg, by the chain of the current application,
\* with its name, the request's id and its own span's ids or none; whatever
\* uvicorn and earlier applications of the process had configured.
THEOREM RecordsOncePerLeg == LogSpec => []EveryRecordOncePerLeg
<1>1. ASSUME LogInv PROVE EveryRecordOncePerLeg
  <2> SUFFICES ASSUME Over
               PROVE  /\ [i \in DOMAIN written |-> written[i].leg] =
                             IF otlp THEN <<"stdout", "otlp">> ELSE <<"stdout">>
                      /\ \A i \in DOMAIN written :
                             LET body == written[i].body
                             IN  /\ Holds(body, "service.name", Services[apps])
                                 /\ Str("correlation_id") \in DOMAIN call.context =>
                                        Holds(body, "correlation_id", "id")
                                 /\ Holds(body, "trace_id", "trace") <=> call.span
      BY DEF EveryRecordOncePerLeg
  <2>1. /\ call \in LogCalls /\ apps \in DOMAIN Services
        /\ chain = [service |-> Services[apps], names |-> Names(Fields)]
        /\ written = IF otlp THEN <<OnStdout, OnOtlp>> ELSE <<OnStdout>>
        /\ IsItems(Assembled(chain, call))
      BY <1>1, WrittenWhenOver
  <2>2. OnStdout.leg = "stdout" /\ OnOtlp.leg = "otlp"
      BY DEF OnStdout, OnOtlp
  <2>3. [i \in DOMAIN written |-> written[i].leg] =
            IF otlp THEN <<"stdout", "otlp">> ELSE <<"stdout">>
      BY <2>1, <2>2
  <2> DEFINE a == Assembled(chain, call)
  <2>4. \A i \in DOMAIN written : written[i].body = RedactItems(a, Names(Fields))
    <3>1. OnStdout.body = Chain(chain, call) /\ OnOtlp.body = Chain(chain, call)
        BY DEF OnStdout, OnOtlp
    <3>2. Chain(chain, call) = RedactItems(a, Names(Fields))
        BY <2>1 DEF Chain
    <3>3. \A i \in DOMAIN written : written[i] = OnStdout \/ written[i] = OnOtlp
        BY <2>1
    <3> QED
        BY <3>1, <3>2, <3>3
  <2>5. /\ Str("service.name") \in DOMAIN a
        /\ a[Str("service.name")] = Leaf(chain.service) /\ chain.service = Services[apps]
        /\ call.span => /\ Str("trace_id") \in DOMAIN a
                        /\ a[Str("trace_id")] = Leaf("trace")
        /\ ~call.span => Str("trace_id") \notin DOMAIN a
        /\ Str("correlation_id") \in DOMAIN call.context =>
               /\ Str("correlation_id") \in DOMAIN a
               /\ a[Str("correlation_id")] = Leaf("id")
      BY <2>1, AssembledHas
  <2> HIDE DEF a
  <2>6. IsItems(a)
      BY <2>1 DEF a
  <2> DEFINE b == RedactItems(a, Names(Fields))
  <2>7. Holds(b, "service.name", Services[apps])
      BY <2>5, <2>6, RedactedHolds
  <2>8. Str("correlation_id") \in DOMAIN call.context => Holds(b, "correlation_id", "id")
      BY <2>5, <2>6, RedactedHolds
  <2>9. call.span => Holds(b, "trace_id", "trace")
      BY <2>5, <2>6, RedactedHolds
  <2>10. ~call.span => ~Holds(b, "trace_id", "trace")
    <3>1. DOMAIN b = DOMAIN a
        BY DEF RedactItems, Masked
    <3> QED
        BY <3>1, <2>5 DEF Holds
  <2>11. call.span \in BOOLEAN
      BY <2>1, LogCallsAssumption DEF LogCallsAssumption
  <2> HIDE DEF b
  <2>12. Holds(b, "trace_id", "trace") <=> call.span
      BY <2>9, <2>10, <2>11
  <2>13. \A i \in DOMAIN written : written[i].body = b
      BY <2>4 DEF b
  <2> QED
      BY <2>3, <2>7, <2>8, <2>12, <2>13
<1> QED
    BY <1>1, LogInductive, PTL

\* Whatever is logged, however deep it is nested and by whom, what is written on
\* either leg ends in exactly what may be shown of it.
THEOREM NoSecretLeaves == LogSpec => []NoSecretIsWritten
<1>1. ASSUME LogInv PROVE NoSecretIsWritten
  <2> SUFFICES ASSUME Over, NEW i \in DOMAIN written
               PROVE  /\ Ends(Dict(written[i].body)) =
                             Shown(Dict(Assembled(chain, call)), Names(Fields))
                      /\ written[i].leg = "otlp" /\ call.origin = "library" =>
                             Ends(Dict(written[i].attributes)) =
                                 Shown(Dict(call.fields), Names(Fields))
      BY DEF NoSecretIsWritten
  <2>1. /\ call \in LogCalls
        /\ chain = [service |-> Services[apps], names |-> Names(Fields)]
        /\ written = IF otlp THEN <<OnStdout, OnOtlp>> ELSE <<OnStdout>>
        /\ IsItems(Assembled(chain, call))
      BY <1>1, WrittenWhenOver
  <2>2. written[i] = OnStdout \/ written[i] = OnOtlp
      BY <2>1
  <2>3. written[i].body = RedactItems(Assembled(chain, call), Names(Fields))
    <3>1. chain.names = Names(Fields)
        BY <2>1
    <3>2. Chain(chain, call) = RedactItems(Assembled(chain, call), Names(Fields))
        BY <3>1 DEF Chain
    <3>3. OnStdout.body = Chain(chain, call) /\ OnOtlp.body = Chain(chain, call)
        BY DEF OnStdout, OnOtlp
    <3> QED
        BY <2>2, <3>2, <3>3
  <2>4. Ends(Dict(written[i].body)) = Shown(Dict(Assembled(chain, call)), Names(Fields))
      BY <2>1, <2>3, RedactItemsShows
  <2>5. ASSUME written[i].leg = "otlp", call.origin = "library"
        PROVE  Ends(Dict(written[i].attributes)) = Shown(Dict(call.fields), Names(Fields))
    <3>1. OnStdout.leg = "stdout"
        BY DEF OnStdout
    <3>2. written[i] = OnOtlp
        BY <2>2, <2>5, <3>1
    <3>3. Given = call.fields
        BY <2>5 DEF Given
    <3>4. written[i].attributes = RedactItems(call.fields, Names(Fields))
        BY <3>2, <3>3 DEF OnOtlp
    <3>5. IsItems(call.fields)
        BY <2>1, LogCallsAssumption DEF LogCallsAssumption
    <3> QED
        BY <3>4, <3>5, RedactItemsShows
  <2> QED
      BY <2>4, <2>5
<1> QED
    BY <1>1, LogInductive, PTL
=============================================================================
