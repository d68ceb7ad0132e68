------------------------------ MODULE MCSeats ------------------------------
(* Small instances of Seats. *)
EXTENDS Seats, TLC

Alike == Permutations(Diagram) \cup Permutations(Page)
=============================================================================
