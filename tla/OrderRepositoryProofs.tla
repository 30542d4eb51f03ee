----------------------- MODULE OrderRepositoryProofs -----------------------
(***************************************************************************)
(* Proofs about OrderRepository, for any number of saves and gets, any     *)
(* number of lines in each version, and any size of the pool.              *)
(*                                                                         *)
(* AggregateWhole speaks of committed rows only.  The invariant adds what  *)
(* keeps the next COMMIT whole: one transaction at a time has the lock on  *)
(* the row (OneLock), and what it has deleted and inserted is, from then   *)
(* to its end, exactly what it takes to replace the version stored         *)
(* (Writes); and, for the refinement, what a get's snapshot is (Reads).    *)
(***************************************************************************)
EXTENDS OrderRepository, FiniteSetTheorems, TLAPS

Types == /\ header \in Savers \cup {None}
         /\ lines \subseteq Line
         /\ saver \in [Savers -> SaveStages]
         /\ deleted \in [Savers -> SUBSET Line]
         /\ inserted \in [Savers -> SUBSET Line]
         /\ reader \in [Readers -> ReadStages]
         /\ seen \in [Readers -> SUBSET Line]
         /\ row \in [Readers -> Savers \cup {None}]
         /\ result \in [Readers -> Savers \cup {None}]

\* The rows of order_lines that belong to a row of orders.
RowsOf(v) == IF v = None THEN {} ELSE LineValues(v)

OneLock == \A s, t \in Savers : Locks(s) /\ Locks(t) => s = t

Writes(s) ==
    /\ saver[s] \in {"deleted", "inserted", "committing", "abandoned"} =>
           deleted[s] = lines
    /\ saver[s] \in {"inserted", "committing", "abandoned"} =>
           inserted[s] = LineValues(s)
    /\ saver[s] # "rejected"

Reads(r) ==
    /\ reader[r] = "half_read" => seen[r] = RowsOf(row[r])
    /\ reader[r] = "returned" => result[r] = row[r]
    /\ reader[r] # "returned" => result[r] = None
    /\ reader[r] # "corrupt"

WholeInv == /\ Types
            /\ OneLock
            /\ lines = RowsOf(header)
            /\ \A s \in Savers : Writes(s)
            /\ \A r \in Readers : Reads(r)

\* The pool hands out no connection it does not have.
PoolInv == IsFiniteSet(Holders) /\ Cardinality(Holders) <= PoolSize

-----------------------------------------------------------------------------
LEMMA LineValuesAreLines == \A v \in Savers : LineValues(v) \in SUBSET Line
BY LineCountAssumption DEF LineValues, Line

LEMMA InitWhole == Init => WholeInv
BY NoneAssumption DEF Init, WholeInv, Types, OneLock, Locks, Writes, Reads, RowsOf,
                      SaveStages, ReadStages

\* A save's own steps, short of its COMMIT.
LEMMA SaveKeepsWhole ==
    ASSUME WholeInv, NEW s \in Savers,
           \/ Save(s) \/ Begin(s) \/ Upsert(s) \/ DeleteLines(s) \/ InsertLines(s)
           \/ SendCommit(s) \/ Return(s) \/ SaveFails(s) \/ LoseCommit(s)
    PROVE  WholeInv'
<1> USE NoneAssumption DEF WholeInv, Types, SaveStages, OneLock, Locks, Writes, SaveTo
<1>1. /\ UNCHANGED <<header, lines, readVars>>
      /\ \A t \in Savers \ {s} : /\ saver'[t] = saver[t]
                                 /\ deleted'[t] = deleted[t]
                                 /\ inserted'[t] = inserted[t]
  BY DEF Save, Begin, Upsert, DeleteLines, InsertLines, SendCommit, Return,
         SaveFails, LoseCommit
<1>2. /\ lines' = RowsOf(header)'
      /\ \A r \in Readers : Reads(r)'
  BY <1>1 DEF RowsOf, Reads, readVars
<1>3. CASE Upsert(s)
  BY <1>1, <1>2, <1>3 DEF Upsert, readVars
<1>4. CASE DeleteLines(s)
  BY <1>1, <1>2, <1>4 DEF DeleteLines, readVars
<1>5. CASE InsertLines(s)
  <2>1. ~Taken(s)
    BY <1>5 DEF InsertLines, Taken
  <2> QED
    BY <2>1, <1>1, <1>2, <1>5, LineValuesAreLines DEF InsertLines, readVars
<1>6. CASE Save(s) \/ Begin(s) \/ SendCommit(s) \/ Return(s) \/ SaveFails(s) \/ LoseCommit(s)
  BY <1>1, <1>2, <1>6 DEF Save, Begin, SendCommit, Return, SaveFails, LoseCommit, readVars
<1> QED
  BY <1>3, <1>4, <1>5, <1>6

\* The instant of a save: the version stored is replaced as a whole, and no
\* other transaction has written on the strength of the old one.
LEMMA CommitKeepsWhole ==
    ASSUME WholeInv, NEW s \in Savers, Commit(s)
    PROVE  WholeInv' /\ lines' = LineValues(s)
<1> USE NoneAssumption DEF WholeInv, Types, SaveStages, OneLock, Locks, Writes, SaveTo
<1>1. lines' = LineValues(s) /\ header' = s
  BY DEF Commit
<1>2. /\ UNCHANGED <<deleted, inserted, readVars>>
      /\ \A t \in Savers \ {s} : saver'[t] = saver[t] /\ ~Locks(t)
      /\ saver'[s] \in {"committed", "failed_committed"}
      /\ saver' \in [Savers -> SaveStages]
  BY DEF Commit
<1>3. OneLock' /\ \A t \in Savers : Writes(t)'
  BY <1>2
<1>4. \A r \in Readers : Reads(r)'
  BY <1>2 DEF Reads, RowsOf, readVars
<1>5. Types'
  BY <1>1, <1>2, LineValuesAreLines DEF readVars
<1> QED
  BY <1>1, <1>3, <1>4, <1>5 DEF RowsOf

LEMMA ReadKeepsWhole ==
    ASSUME WholeInv, NEW r \in Readers, Get(r) \/ ReadStep(r) \/ ReadFails(r)
    PROVE  WholeInv'
<1> USE NoneAssumption DEF WholeInv, Types, ReadStages, Reads, RowsOf, ReadTo
<1>1. UNCHANGED <<header, lines, saveVars>>
  BY DEF Get, ReadStep, BeginRead, SelectOrder, ReturnMissing, SelectLines, ReadFails
<1>2. OneLock' /\ \A s \in Savers : Writes(s)'
  BY <1>1 DEF OneLock, Locks, Writes, saveVars
<1>3. CASE SelectOrder(r)
  BY <1>1, <1>2, <1>3 DEF SelectOrder, saveVars
<1>4. CASE SelectLines(r)
  BY <1>1, <1>2, <1>4 DEF SelectLines, Visible, saveVars
<1>5. CASE Get(r) \/ BeginRead(r) \/ ReturnMissing(r) \/ ReadFails(r)
  BY <1>1, <1>2, <1>5 DEF Get, BeginRead, ReturnMissing, ReadFails, saveVars
<1> QED
  BY <1>3, <1>4, <1>5 DEF ReadStep

LEMMA NextWhole == WholeInv /\ [Next]_vars => WholeInv'
<1> SUFFICES ASSUME WholeInv, [Next]_vars PROVE WholeInv'
  OBVIOUS
<1>1. CASE UNCHANGED vars
  BY <1>1 DEF vars, saveVars, readVars, WholeInv, Types, OneLock, Locks, Writes, Reads, RowsOf
<1> QED
  BY <1>1, SaveKeepsWhole, CommitKeepsWhole, ReadKeepsWhole
  DEF Next, SaveStep, Database

LEMMA WholeAlways == Spec => []WholeInv
BY InitWhole, NextWhole, PTL DEF Spec

-----------------------------------------------------------------------------
\* A call takes a connection that is free, or gives one back.
LEMMA HoldersStep ==
    ASSUME Types, [Next]_vars
    PROVE  \/ Holders' \subseteq Holders
           \/ ConnectionFree /\ \E c \in Savers \cup Readers : Holders' = Holders \cup {c}
<1> USE DEF Types, Holders, SaveTo, ReadTo
<1>1. ASSUME NEW s \in Savers, Begin(s)
      PROVE  ConnectionFree /\ Holders' = Holders \cup {s}
  BY <1>1 DEF Begin, readVars
<1>2. ASSUME NEW r \in Readers, BeginRead(r)
      PROVE  ConnectionFree /\ Holders' = Holders \cup {r}
  BY <1>2 DEF BeginRead, saveVars
<1>3. ASSUME NEW s \in Savers,
             \/ Save(s) \/ Upsert(s) \/ DeleteLines(s) \/ InsertLines(s)
             \/ SendCommit(s) \/ Return(s) \/ SaveFails(s) \/ Database(s)
      PROVE  Holders' \subseteq Holders
  BY <1>3 DEF Save, Upsert, DeleteLines, InsertLines, SendCommit, Return, SaveFails,
              Database, Commit, LoseCommit, readVars
<1>4. ASSUME NEW r \in Readers,
             Get(r) \/ SelectOrder(r) \/ ReturnMissing(r) \/ SelectLines(r) \/ ReadFails(r)
      PROVE  Holders' \subseteq Holders
  BY <1>4 DEF Get, SelectOrder, ReturnMissing, SelectLines, ReadFails, saveVars
<1>5. CASE UNCHANGED vars
  BY <1>5 DEF vars, saveVars, readVars
<1> QED
  BY <1>1, <1>2, <1>3, <1>4, <1>5 DEF Next, SaveStep, ReadStep

LEMMA NextPool == ASSUME Types, PoolInv, [Next]_vars PROVE PoolInv'
<1>1. Cardinality(Holders) \in Nat /\ PoolSize \in Nat
  BY FS_CardinalityType, PoolSizeAssumption DEF PoolInv
<1>2. CASE Holders' \subseteq Holders
  <2>1. IsFiniteSet(Holders') /\ Cardinality(Holders') <= Cardinality(Holders)
    BY <1>2, FS_Subset DEF PoolInv
  <2> QED
    BY <1>1, <2>1, FS_CardinalityType DEF PoolInv
<1>3. ASSUME NEW c, ConnectionFree, Holders' = Holders \cup {c}
      PROVE  PoolInv'
  <2>1. /\ IsFiniteSet(Holders')
        /\ Cardinality(Holders') \in {Cardinality(Holders), Cardinality(Holders) + 1}
    BY <1>3, FS_AddElement DEF PoolInv
  <2> QED
    BY <1>1, <1>3, <2>1 DEF PoolInv, ConnectionFree
<1> QED
  BY <1>2, <1>3, HoldersStep

\* Every statement, row and snapshot stays in its range, and the calls never
\* hold more connections than the pool has ("a true, exact ceiling").
THEOREM TypeCorrect == Spec => []RepositoryTypeOK
<1>1. Init => PoolInv
  <2> SUFFICES ASSUME Init PROVE PoolInv
    OBVIOUS
  <2>1. Holders = {}
    BY DEF Init, Holders
  <2> QED
    BY <2>1, FS_EmptySet, PoolSizeAssumption DEF PoolInv
<1>2. WholeInv /\ PoolInv /\ [Next]_vars => PoolInv'
  BY NextPool DEF WholeInv
<1>3. WholeInv /\ PoolInv => RepositoryTypeOK
  BY DEF WholeInv, Types, PoolInv, RepositoryTypeOK
<1> QED
  BY <1>1, <1>2, <1>3, WholeAlways, PTL DEF Spec

\* The two tables hold one version and the whole of it, and no save's lines
\* collide with another's, through rollbacks and COMMITs of unknown outcome.
THEOREM AggregateIsWhole == Spec => []AggregateWhole
<1>1. WholeInv => AggregateWhole
  BY DEF WholeInv, RowsOf, Writes, AggregateWhole
<1> QED
  BY <1>1, WholeAlways, PTL

-----------------------------------------------------------------------------
(***************************************************************************)
(* The refinement of OrderStore: one lemma for the saves and one for the   *)
(* gets, each step an abstract one or a stutter.                           *)
(***************************************************************************)
LEMMA SaveRefines ==
    ASSUME WholeInv, WholeInv', NEW s \in Savers,
           Save(s) \/ SaveStep(s) \/ SaveFails(s) \/ Database(s)
    PROVE  [Store!Next]_(Store!vars)
<1> USE DEF WholeInv, Types, SaveStages, SaveTo, AbstractSaver
<1>1. AbstractReader' = AbstractReader /\ AbstractGot' = AbstractGot
  BY DEF AbstractReader, AbstractGot, Save, SaveStep, Begin, Upsert, DeleteLines,
         InsertLines, SendCommit, Return, SaveFails, Database, Commit, LoseCommit, readVars
<1>2. CASE Save(s)
  <2>1. Store!Call(s)
    BY <1>1, <1>2 DEF Save, Store!Call, Store!Move
  <2> QED
    BY <2>1 DEF Store!Next
<1>3. CASE \/ Begin(s) \/ Upsert(s) \/ DeleteLines(s) \/ InsertLines(s)
           \/ SendCommit(s) \/ LoseCommit(s)
  <2>1. AbstractSaver' = AbstractSaver /\ header' = header
    BY <1>3 DEF Begin, Upsert, DeleteLines, InsertLines, SendCommit, LoseCommit, Writes
  <2> QED
    BY <1>1, <2>1 DEF Store!vars
<1>4. CASE Commit(s)
  <2>1. CASE SaveTo(s, "committing", "committed")
    <3>1. Store!Move(s, "called", "applied")
      BY <2>1 DEF Store!Move
    <3> QED
      BY <1>1, <1>4, <3>1 DEF Commit, Store!Apply, Store!Next
  <2>2. CASE SaveTo(s, "abandoned", "failed_committed")
    <3>1. Store!Move(s, "raised", "raised_applied")
      BY <2>2 DEF Store!Move
    <3> QED
      BY <1>1, <1>4, <3>1 DEF Commit, Store!Apply, Store!Next
  <2> QED
    BY <1>4, <2>1, <2>2 DEF Commit
<1>5. CASE Return(s)
  <2>1. Store!Return(s)
    BY <1>1, <1>5 DEF Return, Store!Return, Store!Move
  <2> QED
    BY <2>1 DEF Store!Next
<1>6. CASE SaveFails(s)
  <2>1. ASSUME NEW from \in {"called", "begun", "upserted", "deleted", "inserted"},
               SaveTo(s, from, "failed")
        PROVE  Store!Move(s, "called", "raised")
    BY <2>1 DEF Store!Move
  <2>2. ASSUME SaveTo(s, "committing", "abandoned")
        PROVE  Store!Move(s, "called", "raised")
    BY <2>2 DEF Store!Move
  <2>3. ASSUME SaveTo(s, "committed", "failed_committed")
        PROVE  Store!Move(s, "applied", "raised_applied")
    BY <2>3 DEF Store!Move
  <2>4. Store!Move(s, "called", "raised") \/ Store!Move(s, "applied", "raised_applied")
    BY <1>6, <2>1, <2>2, <2>3 DEF SaveFails
  <2>5. header' = header
    BY <1>6 DEF SaveFails
  <2> QED
    BY <1>1, <2>4, <2>5 DEF Store!Raise, Store!Next
<1> QED
  BY <1>2, <1>3, <1>4, <1>5, <1>6 DEF SaveStep, Database

LEMMA ReadRefines ==
    ASSUME WholeInv, WholeInv', NEW r \in Readers,
           Get(r) \/ ReadStep(r) \/ ReadFails(r)
    PROVE  [Store!Next]_(Store!vars)
<1> USE DEF WholeInv, Types, ReadStages, ReadTo, AbstractReader, AbstractGot
<1>1. AbstractSaver' = AbstractSaver /\ header' = header
  BY DEF AbstractSaver, Get, ReadStep, BeginRead, SelectOrder, ReturnMissing,
         SelectLines, ReadFails, saveVars
<1>2. CASE Get(r)
  <2>1. Store!Get(r)
    BY <1>1, <1>2 DEF Get, Store!Get, Store!Turn
  <2> QED
    BY <2>1 DEF Store!Next
<1>3. CASE BeginRead(r)
  <2>1. AbstractReader' = AbstractReader /\ AbstractGot' = AbstractGot
    BY <1>3 DEF BeginRead
  <2> QED
    BY <1>1, <2>1 DEF Store!vars
<1>4. CASE SelectOrder(r)
  <2>1. Store!Read(r)
    BY <1>1, <1>4 DEF SelectOrder, Store!Read, Store!Turn
  <2> QED
    BY <2>1 DEF Store!Next
<1>5. CASE ReturnMissing(r) \/ SelectLines(r)
  <2>1. reader[r] = "half_read" /\ reader' = [reader EXCEPT ![r] = "returned"]
    BY <1>5 DEF ReturnMissing, SelectLines, Reads
  <2>2. AbstractGot' = AbstractGot
    BY <1>5, <2>1 DEF ReturnMissing, SelectLines, Reads
  <2>3. Store!Give(r)
    BY <1>1, <2>1, <2>2 DEF Store!Give, Store!Turn
  <2> QED
    BY <2>3 DEF Store!Next
<1>6. CASE ReadFails(r)
  <2>1. Store!Fail(r)
    BY <1>1, <1>6 DEF ReadFails, Store!Fail, Store!Turn
  <2> QED
    BY <2>1 DEF Store!Next
<1> QED
  BY <1>2, <1>3, <1>4, <1>5, <1>6 DEF ReadStep

\* What the services rely on: over two tables and several statements, save and
\* get are those of one atomic register per order.
THEOREM RepositoryImplementsStore == Spec => ImplementsStore
<1>1. Init => Store!Init
  BY DEF Init, Store!Init, AbstractSaver, AbstractReader, AbstractGot
<1>2. WholeInv /\ WholeInv' /\ [Next]_vars => [Store!Next]_(Store!vars)
  <2> SUFFICES ASSUME WholeInv, WholeInv', [Next]_vars
               PROVE  [Store!Next]_(Store!vars)
    OBVIOUS
  <2>1. CASE UNCHANGED vars
    BY <2>1 DEF vars, saveVars, readVars, Store!vars, AbstractSaver, AbstractReader,
                AbstractGot
  <2> QED
    BY <2>1, SaveRefines, ReadRefines DEF Next
<1> QED
  BY <1>1, <1>2, WholeAlways, PTL DEF Spec, ImplementsStore, Store!Spec
=============================================================================
