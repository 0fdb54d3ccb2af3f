SPECIFICATION FairSpec
CONSTANTS
  q1 = q1
  q2 = q2
  Context <- MCContext
  Queue = {q1, q2}
  QueueOf <- MCQueueOf
  Rejected <- MCRejected
  Unloader = {u1, u2}
  Loader = {l1}
  HandlerModes = {FALSE}
  TimestampOn = TRUE
  Nobody = Nobody
PROPERTY StoredContextsDumped
CHECK_DEADLOCK FALSE
