SPECIFICATION PeerFairSpec
CONSTANTS
  Proc = {p1, p2, p3}
  None = None
INVARIANT PeersCounted
PROPERTY NoMutualWait
CHECK_DEADLOCK FALSE
