------------------------ MODULE CachedOrderRepository ------------------------
(***************************************************************************)
(* infrastructure/cache/order_repository.py: the Redis decorator around an *)
(* order repository, for one order (one key) and any number of concurrent  *)
(* get() and save() calls.                                                 *)
(*                                                                         *)
(* The wrapped repository is the register of OrderStore, so that each of   *)
(* its calls is one step; it may raise, a save also after it has taken     *)
(* effect.  With DATABASE set it is durable; without, it is the in-memory  *)
(* repository and is lost with the process, while Redis stays.             *)
(*                                                                         *)
(* Redis is external: every command may be applied, be lost, or, for a SET *)
(* whose client timed out, be applied later; and an entry may expire at    *)
(* any time.  All of its failures are swallowed.                           *)
(***************************************************************************)
EXTENDS Naturals

CONSTANTS Savers,   \* calls of save; each saves a version of its own
          Readers,  \* callers of get, again and again
          None,
          Junk,     \* a payload that is not an Order of this generation
          Durable   \* the wrapped repository outlives the process

ASSUME DurableAssumption == Durable \in BOOLEAN
ASSUME JunkAssumption == None \notin Savers /\ Junk \notin Savers \cup {None}

VARIABLES stored,  \* what the wrapped repository holds
          entry,   \* what Redis holds under the order's key
          late,    \* SETs that Redis may still apply
          saver,   \* where each save is
          reader,  \* where each get is
          found,   \* what a get has found
          held,    \* history: versions this wrapped repository has held
          raced    \* history: a save went without its invalidation, or a
                   \* reader wrote back what had been replaced meanwhile

vars == <<stored, entry, late, saver, reader, found, held, raced>>

TypeOK == /\ stored \in Savers \cup {None}
          /\ entry \in Savers \cup {None, Junk}
          /\ late \subseteq Savers
          /\ saver \in [Savers -> {"idle", "called", "saved", "done", "failed"}]
          /\ reader \in [Readers -> {"idle", "missed", "filling", "done", "failed"}]
          /\ found \in [Readers -> Savers \cup {None}]
          /\ held \subseteq Savers
          /\ raced \in BOOLEAN

Init == /\ stored = None
        /\ entry \in {None, Junk}
        /\ late = {}
        /\ saver = [s \in Savers |-> "idle"]
        /\ reader = [r \in Readers |-> "idle"]
        /\ found = [r \in Readers |-> None]
        /\ held = {}
        /\ raced = FALSE

-----------------------------------------------------------------------------
\* get(): the cache, then the repository, then the cache again.
ReadTo(r, from, to) == reader[r] = from /\ reader' = [reader EXCEPT ![r] = to]

Again(r) == /\ reader[r] \in {"done", "failed"}
            /\ reader' = [reader EXCEPT ![r] = "idle"]
            /\ found' = [found EXCEPT ![r] = None]
            /\ UNCHANGED <<stored, entry, late, saver, held, raced>>

Hit(r) == /\ entry \in Savers
          /\ ReadTo(r, "idle", "done")
          /\ found' = [found EXCEPT ![r] = entry]
          /\ UNCHANGED <<stored, entry, late, saver, held, raced>>

\* Nothing there, a payload to reject, or no answer from Redis.
Miss(r) == /\ ReadTo(r, "idle", "missed")
           /\ UNCHANGED <<stored, entry, late, saver, found, held, raced>>

ReadInner(r) == /\ ReadTo(r, "missed", IF stored = None THEN "done" ELSE "filling")
                /\ found' = [found EXCEPT ![r] = stored]
                /\ UNCHANGED <<stored, entry, late, saver, held, raced>>

\* _write: applied, lost, or applied later.
Fill(r) == /\ ReadTo(r, "filling", "done")
           /\ \/ /\ entry' = found[r]
                 /\ raced' = (raced \/ found[r] # stored)
                 /\ UNCHANGED late
              \/ UNCHANGED <<entry, late, raced>>
              \/ /\ late' = late \cup {found[r]}
                 /\ UNCHANGED <<entry, raced>>
           /\ UNCHANGED <<stored, saver, found, held>>

\* The wrapped repository raises, or the task is cancelled.
ReadFails(r) == /\ ReadTo(r, "missed", "failed") \/ ReadTo(r, "filling", "failed")
                /\ found' = [found EXCEPT ![r] = None]
                /\ UNCHANGED <<stored, entry, late, saver, held, raced>>

-----------------------------------------------------------------------------
\* save(): the repository, then the invalidation.
SaveTo(s, from, to) == saver[s] = from /\ saver' = [saver EXCEPT ![s] = to]

\* A mutant: the cache is written through before the repository.
SaveCacheFirst(s) == /\ SaveTo(s, "idle", "called")
                     /\ entry' = s
                     /\ UNCHANGED <<stored, late, reader, found, held, raced>>

Save(s) == /\ SaveTo(s, "idle", "called")
           /\ UNCHANGED <<stored, entry, late, reader, found, held, raced>>

SaveInner(s) == /\ SaveTo(s, "called", "saved")
                /\ stored' = s
                /\ held' = held \cup {s}
                /\ UNCHANGED <<entry, late, reader, found, raced>>

\* The wrapped save raises or is cancelled, before or after its effect: either
\* way _invalidate is not reached.
SaveInnerFails(s) == /\ SaveTo(s, "called", "failed")
                     /\ \/ UNCHANGED <<stored, held, raced>>
                        \/ /\ stored' = s
                           /\ held' = held \cup {s}
                           /\ raced' = TRUE
                     /\ UNCHANGED <<entry, late, reader, found>>

\* _invalidate: applied, or not and not reported.
Invalidate(s) == /\ SaveTo(s, "saved", "done")
                 /\ \/ entry' = None /\ UNCHANGED raced
                    \/ raced' = TRUE /\ UNCHANGED entry
                 /\ UNCHANGED <<stored, late, reader, found, held>>

CancelInvalidate(s) == /\ SaveTo(s, "saved", "failed")
                       /\ raced' = TRUE
                       /\ UNCHANGED <<stored, entry, late, reader, found, held>>

-----------------------------------------------------------------------------
\* Redis on its own.
ApplyLate == \E v \in late : /\ late' = late \ {v}
                             /\ entry' = v
                             /\ raced' = (raced \/ v # stored)
                             /\ UNCHANGED <<stored, saver, reader, found, held>>

\* A mutant: SET without ex.
ExpireNever == FALSE /\ UNCHANGED vars

\* _write sets every entry with a TTL.
Expire == /\ entry # None
          /\ entry' = None
          /\ UNCHANGED <<stored, late, saver, reader, found, held, raced>>

\* The process is restarted; the calls it was running are gone.
Restart == /\ saver' = [s \in Savers |-> IF saver[s] \in {"called", "saved"}
                                         THEN "failed" ELSE saver[s]]
           /\ reader' = [r \in Readers |-> "idle"]
           /\ found' = [r \in Readers |-> None]
           /\ IF Durable THEN UNCHANGED <<stored, held>>
                         ELSE stored' = None /\ held' = {}
           /\ raced' = (raced \/ \E s \in Savers : saver[s] = "saved")
           /\ UNCHANGED <<entry, late>>

-----------------------------------------------------------------------------
Reading(r) == Again(r) \/ Hit(r) \/ Miss(r) \/ ReadInner(r) \/ Fill(r)

\* A mutant: the invalidation, then the repository.
SavingInvalidatedFirst(s) ==
    \/ /\ SaveTo(s, "called", "saved")
       /\ entry' = None
       /\ UNCHANGED <<stored, late, reader, found, held, raced>>
    \/ /\ SaveTo(s, "saved", "done")
       /\ stored' = s
       /\ held' = held \cup {s}
       /\ UNCHANGED <<entry, late, reader, found, raced>>

Saving(s) == SaveInner(s) \/ Invalidate(s)

Next == \/ \E r \in Readers : Reading(r) \/ ReadFails(r)
        \/ \E s \in Savers : \/ Save(s) \/ Saving(s)
                             \/ SaveInnerFails(s) \/ CancelInvalidate(s)
        \/ ApplyLate \/ Expire \/ Restart

Spec == Init /\ [][Next]_vars

\* Calls end (socket and statement timeouts), a late command arrives or not
\* within them, and the TTL runs.
FairSpec == /\ Spec
            /\ \A r \in Readers : WF_vars(Reading(r))
            /\ \A s \in Savers : WF_vars(Saving(s))
            /\ WF_vars(ApplyLate) /\ WF_vars(Expire)

-----------------------------------------------------------------------------
(***************************************************************************)
(* Correctness.                                                            *)
(***************************************************************************)

\* "THE DATABASE IS THE TRUTH. This class never returns something the wrapped
\* repository could not have returned": a get returns a version the wrapped
\* repository has held.
ReturnsWhatWasHeld == \A r \in Readers : reader[r] = "done" =>
                          found[r] \in held \cup {None}

\* save's comment: saving first removes the guaranteed-stale window, "but not
\* every race".  The races are these and no others: an entry differs from the
\* stored order only before the pending invalidation, or after an invalidation
\* that did not happen or a reader that wrote back a replaced version.
StaleOnlyByRace ==
    entry \in Savers \ {stored} => raced \/ \E s \in Savers : saver[s] = "saved"

\* "An order is written once and never again" in this service: while there has
\* been one save, no entry is anything but the order stored, whatever fails.
SavedOnce == \A s, t \in Savers : saver[s] # "idle" /\ saver[t] # "idle" => s = t
SingleSaveNeverStale == SavedOnce /\ entry \in Savers => entry = stored

\* "ttl_seconds bounds how stale a read can be": once the saves are over, the
\* cache comes to agree with the repository for good, although readers refill
\* it, late commands reach it and invalidations were lost.
Converges == <>[](entry \in {None, stored})
=============================================================================
