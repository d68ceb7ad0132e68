------------------------------ MODULE MCSession ------------------------------
(* Small instances of Session. *)
EXTENDS Session, TLC

Alike == Permutations(Fields)
=============================================================================
