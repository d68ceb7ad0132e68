------------------------------ MODULE MCLocks ------------------------------
(* Small instances of Locks. *)
EXTENDS Locks, TLC

Symmetric == Permutations(Agent) \cup Permutations(Viewer)
=============================================================================
