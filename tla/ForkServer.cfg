SPECIFICATION FairSpec
CONSTANTS
  Modes = {"oneshot", "persistent", "dumb"}
  Pids = {p1, p2}
  NoChild = NoChild
  Unset = Unset
INVARIANTS
  OneChild
  TraceQuiescent
  Framing
  TimerAimed
  NoRunaway
PROPERTIES KeepsPromise RunEnds ServerGone
CHECK_DEADLOCK FALSE
