SPECIFICATION Spec
CONSTANTS
  kernel = kernel
  counter = counter
  sample = sample
  hip = hip
  Versions = {3}
  Record <- MCFewRecord
  Domain <- MCFewDomain
  DomainOf <- MCFewDomainOf
  Direct = {}
  Unnamed = {}
  Samples = {}
  Jpeg = {}
  Formats = {"json"}
  ThreadTrace = FALSE
  KernelDispatch = kernel
  Counters = counter
  PauseControl = FALSE
  StartMode = "now"
  Periods = 0
  MinOutput = 0
  MaxCycles = 1
INVARIANT CollectedDomainsReported
CHECK_DEADLOCK FALSE
