---------------------------- MODULE MCForkServer ----------------------------
(* A small instance of ForkServer for TLC: two process ids, all three modes. *)
EXTENDS ForkServer
=============================================================================
