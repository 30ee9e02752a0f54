------------------------------ MODULE FuzzOne ------------------------------
(***************************************************************************)
(* What the deterministic stages of fuzz_one() (Stages) and the random     *)
(* ones (Havoc) have in common: the limit on the length of an input, and   *)
(* how far a stage has come, which the screen shows.                       *)
(***************************************************************************)
EXTENDS Integers, Sequences

CONSTANT MAX_FILE

VARIABLES stage_cur, stage_max
============================================================================
