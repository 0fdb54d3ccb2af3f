SPECIFICATION CounterSpec
CONSTANTS
  Dispatch <- MCDispatch
  Kernel <- MCKernel
  ZeroKernel = 0
  Included <- MCIncluded
  Excluded <- MCExcluded
  FilterRange <- MCRange
  AdvancedThreadTrace = FALSE
  Threads = 2
  Agent <- MCAgent
  GpuIndex <- MCGpuIndex
  Available <- MCAvailable
  AgentOf <- MCAgentOf
  Groups <- MCGroups
  Rotation = 2
  AnyDevice <- MCAnyDevice
INVARIANTS
  TicketsExact
  RangeRespected
  SerialCallsExact
  CounterTypeOK
  GroupsTakeTurns
  MissingCountersWarned
CHECK_DEADLOCK FALSE
