SPECIFICATION Spec
CONSTANTS
  q1 = q1
  q2 = q2
  Context <- MCContext
  Queue = {q1, q2}
  QueueOf <- MCQueueOf
  Rejected <- MCRejected
  Unloader = {u1, u2}
  Loader = {l1, l2}
  HandlerModes = {TRUE, FALSE}
  TimestampOn = TRUE
  Nobody = Nobody
INVARIANTS
  TypeOK
  IndexNeverRepeated
  CollectedOnce
  DumpedWhenReady
  OnlyLateLost
  QueueDrained
CHECK_DEADLOCK FALSE
