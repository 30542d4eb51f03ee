-------------------------- MODULE MCReceiptService --------------------------
(***************************************************************************)
(* TLC instance of ReceiptService and of Seed, the script that has the     *)
(* first receipts made.  They share no state, so that either runs while    *)
(* the other has nothing to do.  Two keys: an order that is recorded while *)
(* the other one is being created.                                         *)
(***************************************************************************)
EXTENDS ReceiptService, Seed

MCInit == Init /\ SeedInit

\* A run of the script and after it, with no other caller.
Seeds(step) == Init /\ step /\ UNCHANGED vars

MCNext == \/ SeedInit /\ Next /\ UNCHANGED seeding
          \/ Seeds(SeedNext)

\* The fairness of SeedSpec, of behaviours that are the script's.
MCSpec == MCInit /\ [][MCNext]_<<vars, seeding>> /\ WF_seeding(Seeds(Progress))
=============================================================================
