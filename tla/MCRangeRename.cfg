SPECIFICATION Spec
SYMMETRY ThreadSymmetry
CONSTANTS
  t1 = t1
  t2 = t2
  g1 = g1
  g2 = g2
  g3 = g3
  Thread = {t1, t2}
  Stream = {1}
  Gpus = {g1, g2}
  Configs <- MCConfigs
  PcConfigs <- MCPcConfigs
  LaunchKinds = {"kernel_dispatch", "memory_allocation"}
  MaxActions = 4
INVARIANTS
  RenameTypeOK
  CorrelationExact
  InfosReturned
  RegionsOnly
  PopsMatchPushes
CHECK_DEADLOCK FALSE
