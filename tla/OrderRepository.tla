--------------------------- MODULE OrderRepository ---------------------------
(***************************************************************************)
(* infrastructure/db/order_repository.py: concurrent save() and get() of   *)
(* one order, statement by statement, on PostgreSQL.                       *)
(*                                                                         *)
(* The order is a row of `orders` and several rows of `order_lines`.  Each *)
(* saver writes a version of its own, with its own number of lines.  The   *)
(* database is external, modelled as these transactions use it:            *)
(*   - a save runs at READ COMMITTED: each statement sees what is          *)
(*     committed when it starts, besides the transaction's own writes;     *)
(*   - INSERT ... ON CONFLICT DO UPDATE waits for another transaction that *)
(*     has written the row, and keeps it locked to the end of its own;     *)
(*   - inserting a line whose (order, number) is committed already breaks  *)
(*     the primary key;                                                    *)
(*   - a get runs at REPEATABLE READ: both its SELECTs see the database as *)
(*     it was committed when the first of them ran.                        *)
(*                                                                         *)
(* A connection may break at any statement, a task may be cancelled at any *)
(* await: the transaction is rolled back, unless its COMMIT has been sent, *)
(* which the database may apply after the client is gone, or not.          *)
(***************************************************************************)
EXTENDS Naturals, FiniteSets

CONSTANTS Savers, Readers, None,
          LineCount,  \* how many lines the version of each saver has
          PoolSize    \* connections of the engine; max_overflow is 0

ASSUME LineCountAssumption == LineCount \in [Savers -> Nat \ {0}]
ASSUME PoolSizeAssumption == PoolSize \in Nat \ {0}
ASSUME NoneAssumption == None \notin Savers

VARIABLES header,    \* the committed row of `orders`: its version, or None
          lines,     \* the committed rows of `order_lines`
          saver,     \* the statement each save has reached
          deleted,   \* the committed lines a transaction has deleted
          inserted,  \* the lines it has inserted
          reader,    \* the statement each get has reached
          seen,      \* the lines of a get's snapshot
          row,       \* the row its first SELECT returned
          result     \* what get returned

saveVars == <<saver, deleted, inserted>>
readVars == <<reader, seen, row, result>>
vars == <<header, lines, saveVars, readVars>>

\* One row of order_lines: its line_number and the version it belongs to.
Line == [number : Nat, version : Savers]

\* line_values: the rows of a version, numbered in tuple order.
LineValues(v) == [number : 0..(LineCount[v] - 1), version : {v}]

\* How far each call is.  The last two lists are its endings.
SaveStages == {"idle", "called", "begun", "upserted", "deleted", "inserted",
               "committing", "committed",
               "abandoned",  \* COMMIT was sent and the client is gone
               "saved", "failed", "failed_committed", "rejected"}
ReadStages == {"idle", "called", "begun", "half_read",
               "returned", "failed", "corrupt"}

\* The transactions that have written the row of `orders`, and the calls that
\* have a connection of the pool.
Locks(s) == saver[s] \in {"upserted", "deleted", "inserted", "committing", "abandoned"}

\* A mutant: a call that failed keeps its connection.
HoldersLeaking ==
    {s \in Savers : saver[s] \in {"begun", "upserted", "deleted", "inserted",
                                  "committing", "committed", "failed"}}
    \cup {r \in Readers : reader[r] \in {"begun", "half_read"}}

Holders ==
    {s \in Savers : saver[s] \in {"begun", "upserted", "deleted", "inserted",
                                  "committing", "committed"}}
    \cup {r \in Readers : reader[r] \in {"begun", "half_read"}}

ConnectionFree == Cardinality(Holders) < PoolSize

RepositoryTypeOK == /\ header \in Savers \cup {None}
                    /\ lines \subseteq Line
                    /\ saver \in [Savers -> SaveStages]
                    /\ deleted \in [Savers -> SUBSET Line]
                    /\ inserted \in [Savers -> SUBSET Line]
                    /\ reader \in [Readers -> ReadStages]
                    /\ seen \in [Readers -> SUBSET Line]
                    /\ row \in [Readers -> Savers \cup {None}]
                    /\ result \in [Readers -> Savers \cup {None}]
                    \* pool_size is "a true, exact ceiling".
                    /\ Cardinality(Holders) <= PoolSize

Init == /\ header = None
        /\ lines = {}
        /\ saver = [s \in Savers |-> "idle"]
        /\ deleted = [s \in Savers |-> {}]
        /\ inserted = [s \in Savers |-> {}]
        /\ reader = [r \in Readers |-> "idle"]
        /\ seen = [r \in Readers |-> {}]
        /\ row = [r \in Readers |-> None]
        /\ result = [r \in Readers |-> None]

-----------------------------------------------------------------------------
\* save(): one transaction over both tables.
SaveTo(s, from, to) == saver[s] = from /\ saver' = [saver EXCEPT ![s] = to]

Save(s) == /\ SaveTo(s, "idle", "called")
           /\ UNCHANGED <<header, lines, deleted, inserted, readVars>>

\* A mutant: max_overflow is left at its default, and connections with it.
BeginOverflowing(s) ==
    /\ Cardinality(Holders) < PoolSize + 10
    /\ SaveTo(s, "called", "begun")
    /\ UNCHANGED <<header, lines, deleted, inserted, readVars>>

Begin(s) == /\ ConnectionFree
            /\ SaveTo(s, "called", "begun")
            /\ UNCHANGED <<header, lines, deleted, inserted, readVars>>

\* A mutant: each statement commits by itself.
UpsertAutocommitted(s) ==
    /\ \A t \in Savers : ~Locks(t)
    /\ SaveTo(s, "begun", "upserted")
    /\ header' = s
    /\ UNCHANGED <<lines, deleted, inserted, readVars>>

\* INSERT INTO orders ... ON CONFLICT DO UPDATE
Upsert(s) == /\ \A t \in Savers : ~Locks(t)
             /\ SaveTo(s, "begun", "upserted")
             /\ UNCHANGED <<header, lines, deleted, inserted, readVars>>

\* A mutant: the lines are overwritten number by number, any surplus kept.
DeleteOverwrittenLines(s) ==
    /\ SaveTo(s, "upserted", "deleted")
    /\ deleted' = [deleted EXCEPT ![s] = {l \in lines : l.number < LineCount[s]}]
    /\ UNCHANGED <<header, lines, inserted, readVars>>

\* DELETE FROM order_lines WHERE order_id = ...
DeleteLines(s) == /\ SaveTo(s, "upserted", "deleted")
                  /\ deleted' = [deleted EXCEPT ![s] = lines]
                  /\ UNCHANGED <<header, lines, inserted, readVars>>

\* INSERT INTO order_lines ...: IntegrityError when a number is taken.
Taken(s) == \E l \in lines \ deleted[s] : l.number < LineCount[s]

InsertLines(s) ==
    /\ IF Taken(s)
       THEN SaveTo(s, "deleted", "rejected") /\ UNCHANGED inserted
       ELSE /\ SaveTo(s, "deleted", "inserted")
            /\ inserted' = [inserted EXCEPT ![s] = LineValues(s)]
    /\ UNCHANGED <<header, lines, deleted, readVars>>

SendCommit(s) == /\ SaveTo(s, "inserted", "committing")
                 /\ UNCHANGED <<header, lines, deleted, inserted, readVars>>

Return(s) == /\ SaveTo(s, "committed", "saved")
             /\ UNCHANGED <<header, lines, deleted, inserted, readVars>>

\* An error or a cancellation.  Short of its COMMIT the transaction is rolled
\* back, at the latest by the server when the connection is gone.
SaveFails(s) ==
    /\ \/ \E from \in {"called", "begun", "upserted", "deleted", "inserted"} :
             SaveTo(s, from, "failed")
       \/ SaveTo(s, "committing", "abandoned")
       \/ SaveTo(s, "committed", "failed_committed")
    /\ UNCHANGED <<header, lines, deleted, inserted, readVars>>

-----------------------------------------------------------------------------
\* The database: a COMMIT takes effect, or was lost on the way.
Commit(s) == /\ \/ SaveTo(s, "committing", "committed")
                \/ SaveTo(s, "abandoned", "failed_committed")
             /\ header' = s
             /\ lines' = (lines \ deleted[s]) \cup inserted[s]
             /\ UNCHANGED <<deleted, inserted, readVars>>

LoseCommit(s) == /\ SaveTo(s, "abandoned", "failed")
                 /\ UNCHANGED <<header, lines, deleted, inserted, readVars>>

-----------------------------------------------------------------------------
\* get(): two SELECTs and the mapper.
ReadTo(r, from, to) == reader[r] = from /\ reader' = [reader EXCEPT ![r] = to]

Get(r) == /\ ReadTo(r, "idle", "called")
          /\ UNCHANGED <<header, lines, saveVars, seen, row, result>>

BeginRead(r) == /\ ConnectionFree
                /\ ReadTo(r, "called", "begun")
                /\ UNCHANGED <<header, lines, saveVars, seen, row, result>>

SelectOrder(r) == /\ ReadTo(r, "begun", "half_read")
                  /\ row' = [row EXCEPT ![r] = header]
                  /\ seen' = [seen EXCEPT ![r] = lines]
                  /\ UNCHANGED <<header, lines, saveVars, result>>

ReturnMissing(r) == /\ row[r] = None
                    /\ ReadTo(r, "half_read", "returned")
                    /\ UNCHANGED <<header, lines, saveVars, seen, row, result>>

\* A mutant: READ COMMITTED, each SELECT with a snapshot of its own.
VisibleToStatement(r) == lines

\* READ_ISOLATION_LEVEL: the snapshot of the first SELECT.
Visible(r) == seen[r]

\* to_domain runs the validators of Order: lines of another version do not add
\* up to the total of the row.
SelectLines(r) ==
    /\ row[r] # None
    /\ IF Visible(r) = LineValues(row[r])
       THEN /\ ReadTo(r, "half_read", "returned")
            /\ result' = [result EXCEPT ![r] = row[r]]
       ELSE /\ ReadTo(r, "half_read", "corrupt")
            /\ UNCHANGED result
    /\ UNCHANGED <<header, lines, saveVars, seen, row>>

ReadFails(r) == /\ \E from \in {"called", "begun", "half_read"} :
                       ReadTo(r, from, "failed")
                /\ UNCHANGED <<header, lines, saveVars, seen, row, result>>

-----------------------------------------------------------------------------
SaveStep(s) == \/ Begin(s) \/ Upsert(s) \/ DeleteLines(s)
               \/ InsertLines(s) \/ SendCommit(s) \/ Return(s)

ReadStep(r) == \/ BeginRead(r) \/ SelectOrder(r) \/ ReturnMissing(r)
               \/ SelectLines(r)

Database(s) == Commit(s) \/ LoseCommit(s)

Next == \/ \E s \in Savers : Save(s) \/ SaveStep(s) \/ SaveFails(s) \/ Database(s)
        \/ \E r \in Readers : Get(r) \/ ReadStep(r) \/ ReadFails(r)

Spec == Init /\ [][Next]_vars

\* The server answers every statement, within statement_timeout at the latest.
FairSpec == /\ Spec
            /\ \A s \in Savers : WF_vars(SaveStep(s)) /\ WF_vars(Database(s))
            /\ \A r \in Readers : WF_vars(ReadStep(r))

-----------------------------------------------------------------------------
(***************************************************************************)
(* Correctness.                                                            *)
(***************************************************************************)

\* The two tables agree on which version is stored, whatever transactions were
\* rolled back, abandoned or made to wait ("one transaction covering both
\* tables"); and no save's lines collide with those of another, earlier or
\* concurrent ("delete-then-insert is correct for both a new order and a
\* changed one").
AggregateWhole == /\ lines = IF header = None THEN {} ELSE LineValues(header)
                  /\ \A s \in Savers : saver[s] # "rejected"

\* save and get implement an atomic register: a save takes effect at once and
\* entirely, and a get returns one version of the aggregate that was stored
\* while it ran, never a torn one and never an error about one.
AbstractSaver == [s \in Savers |->
    CASE saver[s] = "idle" -> "idle"
      [] saver[s] = "committed" -> "applied"
      [] saver[s] = "saved" -> "returned"
      [] saver[s] \in {"failed", "abandoned", "rejected"} -> "raised"
      [] saver[s] = "failed_committed" -> "raised_applied"
      [] OTHER -> "called"]
AbstractReader == [r \in Readers |->
    CASE reader[r] = "half_read" -> "read"
      [] reader[r] = "begun" -> "called"
      [] reader[r] = "failed" -> "raised"
      [] OTHER -> reader[r]]
AbstractGot == [r \in Readers |->
    IF reader[r] = "returned" THEN result[r] ELSE row[r]]
Store == INSTANCE OrderStore
           WITH value <- header, saver <- AbstractSaver,
                reader <- AbstractReader, got <- AbstractGot
ImplementsStore == Store!Spec

\* Every save and every get ends, though saves wait for each other's row and
\* all of them share a pool that does not grow: nothing waits for ever.
CallsEnd ==
    /\ \A s \in Savers :
         saver[s] = "called" ~> saver[s] \in {"saved", "failed", "failed_committed",
                                              "rejected"}
    /\ \A r \in Readers :
         reader[r] = "called" ~> reader[r] \in {"returned", "failed", "corrupt"}
=============================================================================
