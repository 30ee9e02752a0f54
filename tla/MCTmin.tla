------------------------------- MODULE MCTmin -------------------------------
(* Targets that look for something in their input, one that counts, and one that is flaky. *)
EXTENDS Tmin
Occurs(s, b) == Cardinality({k \in DOMAIN b : b[k] = s})
Ok(path) == {[fault |-> "none", path |-> path]}
Crash(path) == {[fault |-> "crash", path |-> path]}
MCResult(t, b) ==
  CASE t = "pair" -> IF Occurs(1, b) >= 2 THEN Crash(1) ELSE Ok(1)
    [] t = "text" -> IF b = << >> \/ Len(b) = 1 THEN Ok(0)
                    ELSE IF b[Len(b)] = 2 THEN Ok(1) ELSE Ok(2)
    [] t = "more" -> IF Occurs(0, b) > 0 \/ Occurs(1, b) < Occurs(2, b) THEN Ok(2) ELSE Ok(1)
    [] t = "deep" -> IF \E k \in 1 .. Len(b) - 1 : b[k] = 1 /\ b[k + 1] = 2
                    THEN Crash(Occurs(0, b) % 2) ELSE {[fault |-> "hang", path |-> 0]}
    [] t = "flaky" -> IF b = << >> THEN Ok(1) ELSE Ok(1) \cup Ok(2) \cup Crash(1)
MCInputs == UNION {[1 .. n -> {0, 1, 2}] : n \in {1, 3, 6}}
=============================================================================
