--------------------------- MODULE MCAccessFiles ---------------------------
(* Small instances of AccessFiles. *)
EXTENDS AccessFiles, TLC

Alike == Permutations(Person) \cup Permutations(Agent) \cup Permutations(Diagram) \cup Permutations(Code)
=============================================================================
