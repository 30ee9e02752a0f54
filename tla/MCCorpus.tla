------------------------------ MODULE MCCorpus ------------------------------
(* What targets are like, on a map of two or three bytes. *)
EXTENDS Corpus
Nature(bytes, counts) == [wobbly |-> bytes, counts |-> counts]
Flat == [b \in Bytes |-> 1]
MCNatures == {Nature({}, [Flat EXCEPT ![0] = 2]), Nature({1}, Flat)}
MCStable  == {Nature({}, Flat)}
MCShaky   == {Nature({2}, Flat)}
=============================================================================
