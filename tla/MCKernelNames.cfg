SPECIFICATION FairSpec
CONSTANTS
  Addr = {a, b}
  Loader = {l1, l2}
  Entry = {e1, e2}
  None = None
  MaxAnnounced = 3
  MaxDispatches = 3
INVARIANTS
  NameKept
  RefsExact
PROPERTY AnnouncementReturns
