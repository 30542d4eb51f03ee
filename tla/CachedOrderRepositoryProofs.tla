--------------------- MODULE CachedOrderRepositoryProofs ---------------------
(***************************************************************************)
(* Proofs about CachedOrderRepository around a repository that outlives    *)
(* the process, for any number of saves and of readers.                    *)
(*                                                                         *)
(* TypeOK and StaleOnlyByRace are inductive.  The other two follow from    *)
(* Kept: whatever a get, Redis or a late SET has, this repository has      *)
(* held, and it has held what a save that was called brought.              *)
(***************************************************************************)
EXTENDS CachedOrderRepository, TLAPS

\* What is on its way to Redis is a version, and not the absence of one.
Filling == \A r \in Readers : reader[r] = "filling" => found[r] \in Savers

Kept == /\ held # {} => stored \in held
        /\ held = {} => stored = None
        /\ entry \in Savers => entry \in held
        /\ late \subseteq held
        /\ \A r \in Readers : found[r] \in held \cup {None}
        /\ \A s \in held : saver[s] # "idle"

-----------------------------------------------------------------------------
LEMMA InitTypes == Init => TypeOK /\ Filling
BY JunkAssumption DEF Init, TypeOK, Filling

LEMMA NextTypes == TypeOK /\ Filling /\ [Next]_vars => TypeOK' /\ Filling'
<1> SUFFICES ASSUME TypeOK, Filling, [Next]_vars PROVE TypeOK' /\ Filling'
  OBVIOUS
<1> USE JunkAssumption DEF TypeOK, Filling, ReadTo, SaveTo
<1>1. ASSUME NEW r \in Readers, Again(r) PROVE TypeOK' /\ Filling'
  BY <1>1 DEF Again
<1>2. ASSUME NEW r \in Readers, Hit(r) PROVE TypeOK' /\ Filling'
  BY <1>2 DEF Hit
<1>3. ASSUME NEW r \in Readers, Miss(r) PROVE TypeOK' /\ Filling'
  BY <1>3 DEF Miss
<1>4. ASSUME NEW r \in Readers, ReadInner(r) PROVE TypeOK' /\ Filling'
  BY <1>4 DEF ReadInner
<1>5. ASSUME NEW r \in Readers, Fill(r) PROVE TypeOK' /\ Filling'
  BY <1>5 DEF Fill
<1>6. ASSUME NEW r \in Readers, ReadFails(r) PROVE TypeOK' /\ Filling'
  BY <1>6 DEF ReadFails
<1>7. ASSUME NEW s \in Savers, Save(s) PROVE TypeOK' /\ Filling'
  BY <1>7 DEF Save
<1>8. ASSUME NEW s \in Savers, SaveInner(s) PROVE TypeOK' /\ Filling'
  BY <1>8 DEF SaveInner
<1>9. ASSUME NEW s \in Savers, SaveInnerFails(s) PROVE TypeOK' /\ Filling'
  BY <1>9 DEF SaveInnerFails
<1>10. ASSUME NEW s \in Savers, Invalidate(s) PROVE TypeOK' /\ Filling'
  BY <1>10 DEF Invalidate
<1>11. ASSUME NEW s \in Savers, CancelInvalidate(s) PROVE TypeOK' /\ Filling'
  BY <1>11 DEF CancelInvalidate
<1>12. CASE ApplyLate
  BY <1>12 DEF ApplyLate
<1>13. CASE Expire
  BY <1>13 DEF Expire
<1>14. CASE Restart
  BY <1>14, DurableAssumption DEF Restart
<1>15. CASE UNCHANGED vars
  BY <1>15 DEF vars
<1> QED
  BY <1>1, <1>2, <1>3, <1>4, <1>5, <1>6, <1>7, <1>8, <1>9, <1>10, <1>11,
     <1>12, <1>13, <1>14, <1>15 DEF Next, Reading, Saving

\* The fields of the cache, of its calls and of Redis stay in their ranges; what
\* a get hands to `_write` is an order and never its absence.
THEOREM TypeCorrect == Spec => [](TypeOK /\ Filling)
BY InitTypes, NextTypes, PTL DEF Spec

-----------------------------------------------------------------------------
LEMMA NextStale ==
    ASSUME Durable, TypeOK, Filling, StaleOnlyByRace, [Next]_vars
    PROVE  StaleOnlyByRace'
<1> DEFINE Pending == \E s \in Savers : saver[s] = "saved"
<1> USE JunkAssumption DEF TypeOK, StaleOnlyByRace, ReadTo, SaveTo
<1>1. ASSUME NEW r \in Readers, Reading(r) \/ ReadFails(r)
      PROVE  StaleOnlyByRace'
  BY <1>1 DEF Reading, ReadFails, Again, Hit, Miss, ReadInner, Fill
<1>2. ASSUME NEW s \in Savers, Save(s) PROVE StaleOnlyByRace'
  <2>1. Pending => Pending'
    BY <1>2 DEF Save
  <2> QED
    BY <2>1, <1>2 DEF Save
<1>3. ASSUME NEW s \in Savers, SaveInner(s) PROVE StaleOnlyByRace'
  <2>1. saver'[s] = "saved"
    BY <1>3 DEF SaveInner
  <2> QED
    BY <2>1
<1>4. ASSUME NEW s \in Savers, SaveInnerFails(s) PROVE StaleOnlyByRace'
  <2>1. Pending => Pending'
    BY <1>4 DEF SaveInnerFails
  <2> QED
    BY <2>1, <1>4 DEF SaveInnerFails
<1>5. ASSUME NEW s \in Savers, Invalidate(s) PROVE StaleOnlyByRace'
  BY <1>5 DEF Invalidate
<1>6. ASSUME NEW s \in Savers, CancelInvalidate(s) PROVE StaleOnlyByRace'
  BY <1>6 DEF CancelInvalidate
<1>7. CASE ApplyLate
  BY <1>7 DEF ApplyLate
<1>8. CASE Expire
  BY <1>8 DEF Expire
<1>9. CASE Restart
  BY <1>9 DEF Restart
<1>10. CASE UNCHANGED vars
  BY <1>10 DEF vars
<1> QED
  BY <1>1, <1>2, <1>3, <1>4, <1>5, <1>6, <1>7, <1>8, <1>9, <1>10
  DEF Next, Saving

\* Around a durable repository an entry of Redis differs from the stored order
\* only before a pending invalidation, after one that did not happen, or after a
\* reader wrote back what had been replaced.
THEOREM StaleOnlyByTheRacesNamed ==
    ASSUME Durable PROVE Spec => []StaleOnlyByRace
<1>1. Init => StaleOnlyByRace
  BY JunkAssumption DEF Init, StaleOnlyByRace
<1>2. TypeOK /\ Filling /\ StaleOnlyByRace /\ [Next]_vars => StaleOnlyByRace'
  BY NextStale
<1> QED
  BY <1>1, <1>2, TypeCorrect, PTL DEF Spec

-----------------------------------------------------------------------------
LEMMA InitKept == Init => Kept
BY JunkAssumption DEF Init, Kept

LEMMA NextKept ==
    ASSUME Durable, TypeOK, Filling, Kept, [Next]_vars
    PROVE  Kept'
<1> USE JunkAssumption DEF TypeOK, Filling, Kept, ReadTo, SaveTo
<1>1. ASSUME NEW r \in Readers, Again(r) \/ Hit(r) \/ Miss(r)
      PROVE  Kept'
  BY <1>1 DEF Again, Hit, Miss
<1>2. ASSUME NEW r \in Readers, ReadInner(r) PROVE Kept'
  BY <1>2 DEF ReadInner
<1>3. ASSUME NEW r \in Readers, Fill(r) PROVE Kept'
  BY <1>3 DEF Fill
<1>4. ASSUME NEW r \in Readers, ReadFails(r) PROVE Kept'
  BY <1>4 DEF ReadFails
<1>5. ASSUME NEW s \in Savers, Save(s) PROVE Kept'
  BY <1>5 DEF Save
<1>6. ASSUME NEW s \in Savers, SaveInner(s) PROVE Kept'
  BY <1>6 DEF SaveInner
<1>7. ASSUME NEW s \in Savers, SaveInnerFails(s) PROVE Kept'
  BY <1>7 DEF SaveInnerFails
<1>8. ASSUME NEW s \in Savers, Invalidate(s) PROVE Kept'
  BY <1>8 DEF Invalidate
<1>9. ASSUME NEW s \in Savers, CancelInvalidate(s) PROVE Kept'
  BY <1>9 DEF CancelInvalidate
<1>10. CASE ApplyLate
  BY <1>10 DEF ApplyLate
<1>11. CASE Expire
  BY <1>11 DEF Expire
<1>12. CASE Restart
  BY <1>12 DEF Restart
<1>13. CASE UNCHANGED vars
  BY <1>13 DEF vars
<1> QED
  BY <1>1, <1>2, <1>3, <1>4, <1>5, <1>6, <1>7, <1>8, <1>9, <1>10, <1>11,
     <1>12, <1>13 DEF Next, Reading, Saving

LEMMA KeptAlways == ASSUME Durable PROVE Spec => []Kept
<1>1. TypeOK /\ Filling /\ Kept /\ [Next]_vars => Kept'
  BY NextKept
<1> QED
  BY <1>1, InitKept, TypeCorrect, PTL DEF Spec

\* Around a durable repository a get returns a version that repository has held,
\* through failures and delays of Redis, restarts and payloads of another
\* generation.
THEOREM ReturnedWasHeld == ASSUME Durable PROVE Spec => []ReturnsWhatWasHeld
<1>1. Kept => ReturnsWhatWasHeld
  BY DEF Kept, ReturnsWhatWasHeld
<1> QED
  BY <1>1, KeptAlways, PTL

\* While an order has been saved once, no entry is anything but that order.
THEOREM OneSaveNeverStale == ASSUME Durable PROVE Spec => []SingleSaveNeverStale
<1>1. TypeOK /\ Kept => SingleSaveNeverStale
  BY DEF TypeOK, Kept, SingleSaveNeverStale, SavedOnce
<1> QED
  BY <1>1, KeptAlways, TypeCorrect, PTL
=============================================================================
