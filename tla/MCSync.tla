------------------------------- MODULE MCSync -------------------------------
(* What a few inputs do: one behaves, one is slow, and three end badly. *)
EXTENDS Sync
MCModes == {<<"none", FALSE>>, <<"crash", TRUE>>}
MCTrace(c) == IF c \in {"boom", "ok"} THEN {1} ELSE {2}
MCLongTrace(c) == CASE c = "slow" -> {1, 2} [] c = "late" -> {1, 2} [] OTHER -> MCTrace(c)
MCFault(c) == CASE c = "ok" -> "none" [] c = "boom" -> "crash" [] OTHER -> "tmout"
MCLongFault(c) ==
  CASE c \in {"ok", "slow"} -> "none" [] c = "hang" -> "tmout" [] c \in {"boom", "late"} -> "crash"
============================================================================
