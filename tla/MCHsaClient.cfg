SPECIFICATION ClientSpec
CONSTANTS
  t1 = t1
  t2 = t2
  Thread = {t1, t2}
  User = {t1, t2}
  Size = 2
  Lengths = {1, 2}
  Commands = 2
  Invalid = Invalid
  Platforms <- MCPlatforms
  Timeouts = {6, 15}
  TimestampMax = 15
  Factor = 2
  Destroys = 1
  Nobody = Nobody
INVARIANTS
  ClientInv
  WaitMeansDone
  TablesComplete
PROPERTIES
  QueueImplemented
  CommandsComplete
CHECK_DEADLOCK FALSE
