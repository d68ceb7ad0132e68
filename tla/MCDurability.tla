---------------------------- MODULE MCDurability ----------------------------
(* Small instances of Durability. *)
EXTENDS Durability, TLC

Symmetric == Permutations(Instance)
=============================================================================
