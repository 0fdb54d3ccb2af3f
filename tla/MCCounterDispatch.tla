-------------------------- MODULE MCCounterDispatch --------------------------
(* TLC instance of CounterDispatch, and through it of KernelTarget: five     *)
(* dispatches of two kernels, mostly on agent 1.  Agent 1 has no counter of  *)
(* group 3 and agent 2 is not meant by group 2, so each has two              *)
(* configurations, of different groups; agent 1 misses one counter.          *)
EXTENDS CounterDispatch

MCDispatch == 1..5
MCKernel == 0..1
MCIncluded == {0, 1}
MCExcluded == {}
MCRange == {1, 2, 4}
MCAgent == {1, 2}
MCGpuIndex == [a \in MCAgent |-> a - 1]
MCAvailable == [a \in MCAgent |-> IF a = 1 THEN {"waves", "busy"} ELSE {"waves", "fetch"}]
MCAgentOf == [d \in MCDispatch |-> IF d = 4 THEN 2 ELSE 1]
MCAnyDevice == 9
MCRequest(name, device) == [name |-> name, device |-> device]
MCGroups == <<
  {MCRequest("waves", MCAnyDevice)},
  {MCRequest("busy", 0), MCRequest("waves", 0)},
  {MCRequest("fetch", MCAnyDevice)}>>
=============================================================================
