------------------------------ MODULE MCHavoc ------------------------------
(* Queues for the havoc stage.  TLC has no notation for tuples in a .cfg. *)
EXTENDS Havoc
MCQueues == { <<1>>, <<6, 1, 3>>, <<2, 1>> }
============================================================================
