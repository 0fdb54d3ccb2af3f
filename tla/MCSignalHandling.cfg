SPECIFICATION FairSpec
CONSTANTS
  Thread = {t0, t1}
  Main = t0
  Signal = {INT, TERM}
  Calls = {"sigaction", "signal"}
  MaxCalls = 2
INVARIANTS
  FinalizedAlive
  ChainedOnce
PROPERTY ReraiseEnds
CHECK_DEADLOCK FALSE
