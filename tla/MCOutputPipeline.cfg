SPECIFICATION Spec
CONSTANTS
  kernel = kernel
  counter = counter
  sample = sample
  hip = hip
  Versions = {2, 3}
  Record <- MCRecord
  Domain <- MCDomain
  DomainOf <- MCDomainOf
  Direct = {counter}
  Unnamed = {2}
  Samples = {sample}
  Jpeg = {}
  Formats = {"json", "pftrace", "rocpd", "otf2"}
  ThreadTrace = TRUE
  KernelDispatch = kernel
  Counters = counter
  PauseControl = TRUE
  StartMode = "periods"
  Periods = 1
  MinOutput = 0
  MaxCycles = 1
INVARIANTS
  TypeOK
  PublishedOnce
  DocumentsComplete
CHECK_DEADLOCK FALSE
