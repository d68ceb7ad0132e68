---------------------------- MODULE MCChangeLog ----------------------------
(* Small instances of ChangeLog. *)
EXTENDS ChangeLog, TLC
Sizes == {3, 8}
=============================================================================
