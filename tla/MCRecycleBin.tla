---------------------------- MODULE MCRecycleBin ----------------------------
(* Small instances of RecycleBin. *)
EXTENDS RecycleBin, TLC

CONSTANTS ann, bob

Everyone == [s \in Session |-> ann]
Alike    == Permutations(Id)
=============================================================================
