---------------------------- MODULE UndoHistory ----------------------------
(***************************************************************************)
(* What the change log promises a person: the document is one state of a   *)
(* linear history, undo and redo move along it, an edit made after an undo *)
(* replaces what could have been redone, and the oldest states may be      *)
(* forgotten.  Nothing here knows records, operations or inverses: that    *)
(* replaying an inverse lands on exactly the state that stood before is    *)
(* what ChangeLog has to show.                                             *)
(***************************************************************************)
EXTENDS Integers, Sequences

CONSTANT Document     \* the states a document can be in

VARIABLES
    doc,        \* what everyone sees
    past,       \* the states still reachable, oldest first
    applied     \* how many edits of `past` are applied; doc = past[applied + 1]

vars == <<doc, past, applied>>

Init == /\ doc \in Document
        /\ past = <<doc>>
        /\ applied = 0

\* An edit drops what could have been redone and may forget `forgotten` of the
\* oldest states, but never the state the edit itself started from.
Edit(d, forgotten) ==
    LET kept == Append(SubSeq(past, 1, applied + 1), d)
    IN /\ forgotten \in 0 .. applied
       /\ past' = SubSeq(kept, forgotten + 1, Len(kept))
       /\ applied' = Len(kept) - forgotten - 1
       /\ doc' = d

\* Undo reaches any earlier state still held, in one step; redo the next one.
Undo(n) ==
    /\ n \in 0 .. applied - 1
    /\ applied' = n
    /\ doc' = past[n + 1]
    /\ UNCHANGED past

Redo ==
    /\ applied + 1 < Len(past)
    /\ applied' = applied + 1
    /\ doc' = past[applied + 2]
    /\ UNCHANGED past

Next == \/ \E d \in Document : \E forgotten \in 0 .. applied : Edit(d, forgotten)
        \/ \E n \in 0 .. applied - 1 : Undo(n)
        \/ Redo

Spec == Init /\ [][Next]_vars
=============================================================================
