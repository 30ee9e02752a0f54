----------------------------- MODULE MCTopRated -----------------------------
(* Instances of TopRated for TLC. *)
EXTENDS TopRated
=============================================================================
