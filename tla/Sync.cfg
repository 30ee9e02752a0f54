SPECIFICATION Spec
CONSTANTS
  Cases = {"ok", "slow", "hang", "boom", "late"}
  PeerCases = {"ok", "slow"}
  MAP = {1, 2}
  Trace <- MCTrace
  LongTrace <- MCLongTrace
  Fault <- MCFault
  LongFault <- MCLongFault
  Modes <- MCModes
  KEEP_UNIQUE_HANG = 1
  KEEP_UNIQUE_CRASH = 2
  Peers = {p1}
  MaxId = 2
  Absent = Absent
  Empty = Empty
INVARIANTS MarkerHonest CrashesCovered FindingsGenuine
PROPERTIES RunOnce CasesRun
CHECK_DEADLOCK FALSE
