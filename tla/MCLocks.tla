------------------------------- MODULE MCLocks -------------------------------
(* Locks on small instances.                                                *)
EXTENDS Locks, TLC

Alike == Permutations(Txn) \cup Permutations(Upload) \cup Permutations(Room)
==============================================================================
