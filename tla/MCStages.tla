------------------------------ MODULE MCStages ------------------------------
(* Inputs and tokens for the stages.  TLC has no notation for tuples in a .cfg. *)
EXTENDS Stages
MCInputs == { <<99>>, <<224, 30>>, <<254, 3, 16>>, <<128, 255, 99, 0>> }
MCExtras == << <<1, 2, 3>>, <<99>>, <<254, 3>> >>
MCAutoTokens == << <<255, 3>>, <<16>>, <<224, 30, 1, 1>> >>
============================================================================
