-------------------------- MODULE MCTaskController --------------------------
(* Instances of TaskController for TLC. *)
EXTENDS TaskController, TLC
=============================================================================
