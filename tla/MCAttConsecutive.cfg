SPECIFICATION AttFairSpec
CONSTANTS
  Dispatch <- MCDispatch
  Kernel <- MCKernel
  ZeroKernel = 2
  Included <- MCIncluded
  Excluded <- MCExcluded
  FilterRange <- MCRange
  AdvancedThreadTrace = TRUE
  Threads = 2
  ConsecutiveKernels = 2
  MaxId = 99
INVARIANTS
  AttTypeOK
  CapturedAreTraced
  LabelIsLowest
  WindowSizes
PROPERTIES
  WindowsImplemented
  StopRequestServed
CHECK_DEADLOCK FALSE
