------------------------------ MODULE HsaFactory ------------------------------
(***************************************************************************)
(* HsaRsrcFactory as a singleton: the first Instance() builds the object   *)
(* under a mutex, from the agents and memory pools the HSA runtime reports *)
(* one by one, while other threads look for it without the mutex; a        *)
(* platform the constructor cannot use, and a call of the runtime that     *)
(* fails, abort the process.  version1 asks it for the index and the       *)
(* number of GPUs from its callbacks.                                      *)
(*                                                                         *)
(* An agent is what the runtime says of it: its type, and the flags of its *)
(* memory pools in the order they are iterated.                            *)
(***************************************************************************)
EXTENDS Integers, SequencesExt

CONSTANTS
  User,         \* threads that use the factory
  Platforms,    \* the platforms to consider: sequences of agents
  Timeouts,     \* what SetTimeoutNs is called with, in ns; TIMESTAMP_MAX for no timeout
  TimestampMax, \* HsaTimer::TIMESTAMP_MAX
  Factor,       \* sysclock_factor_: ns per tick of the system clock, a whole number
  Destroys,     \* bound: calls of Destroy
  Nobody        \* no thread

ASSUME FactoryAssumption ==
  /\ Nobody \notin User
  /\ TimestampMax \in Nat /\ Factor \in Nat \ {0} /\ Destroys \in Nat
  /\ Timeouts \subseteq 0 .. TimestampMax

VARIABLES
  platform,    \* what hsa_iterate_agents reports
  mutex,       \* the thread that holds mutex_
  instance,    \* instance_: the number of the object it points to, 0 = NULL
  api,         \* what hsa_api_ was filled with: nothing, a tool's table or the linked functions
  built,       \* history: objects constructed so far
  alive,       \* history: objects not deleted
  object,      \* the object being built, and the one instance_ points to
  timeout_ns,  \* timeout_ns_, which outlives the objects
  reset,       \* history: timeout_ns_ was last set while there was an object
  call,        \* where a thread is in Instance(), Create() or Destroy()
  obj,         \* the object a thread was given
  destroys,    \* bound: calls of Destroy left
  aborted,     \* the process has called abort()
  failed       \* history: a call of the runtime failed in the constructor

factoryVars == <<platform, mutex, instance, api, built, alive, object, timeout_ns, reset, call, obj,
                 destroys, aborted, failed>>

-----------------------------------------------------------------------------
AgentTypes == {"cpu", "gpu", "dsp"}
Pools == {"standard", "kern_arg", "group"}   \* global, global for kernel arguments, other

ASSUME PlatformAssumption ==
  Platforms \subseteq Seq([type : AgentTypes, pools : Seq(Pools)])

NoPool == <<0, 0>>    \* a pool pointer that is NULL
NewObject ==
  [cpu_list |-> <<>>, gpu_list |-> <<>>, agent_map |-> <<>>, cpu_pool |-> NoPool,
   kern_arg_pool |-> NoPool, timeout |-> 0]

FactoryInit ==
  /\ platform \in Platforms
  /\ mutex = Nobody
  /\ instance = 0 /\ api = "none" /\ built = 0 /\ alive = {}
  /\ object = NewObject
  /\ timeout_ns = TimestampMax /\ reset = FALSE
  /\ call = [t \in User |-> "out"]
  /\ obj = [t \in User |-> 0]
  /\ destroys = Destroys
  /\ aborted = FALSE /\ failed = FALSE

-----------------------------------------------------------------------------
(* FindGlobalPool: the first pool of a kind, 0 when the iteration ends without one. *)
FindGlobalPool(pools, kind) == SelectInSeq(pools, LAMBDA p : p = kind)

FindStandardPool(agent) == FindGlobalPool(agent.pools, "standard")
FindKernArgPool(agent) == FindGlobalPool(agent.pools, "kern_arg")

(* Mutant of FirstPool: the last CPU that has the pool sets the pointer. *)
LastPool(pointer, handle, pool) == IF pool # 0 THEN <<handle, pool>> ELSE pointer

(* A pool pointer of the object is set by the first CPU that has the pool. *)
FirstPool(pointer, handle, pool) ==
  IF pool # 0 /\ pointer = NoPool THEN <<handle, pool>> ELSE pointer

(* Mutant of DevIndex: the index counts from 1. *)
DevIndexFromOne(list) == Len(list) + 1

(* The dev_index of an agent that is added to a list. *)
DevIndex(list) == Len(list)

(* AddAgentInfo for the agent with this handle. *)
AddAgentInfo(o, handle) ==
  LET agent == platform[handle]
      list == IF agent.type = "cpu" THEN o.cpu_list ELSE o.gpu_list
      mapped == Append(o.agent_map, [handle |-> handle, dev_index |-> DevIndex(list)])
  IN IF agent.type = "cpu"
       THEN [o EXCEPT !.cpu_list = Append(@, handle), !.agent_map = mapped,
                      !.cpu_pool = FirstPool(@, handle, FindStandardPool(agent)),
                      !.kern_arg_pool = FirstPool(@, handle, FindKernArgPool(agent))]
       ELSE [o EXCEPT !.gpu_list = Append(@, handle), !.agent_map = mapped]

(* Mutant of AgentAccepted: a GPU without a global pool is let through. *)
AnyGpuAccepted(agent) == agent.type \in {"cpu", "gpu"}

(* AddAgentInfo knows two types of agents, and a GPU must have a pool of its own;
   otherwise CHECK_ITER_STATUS, or the check on hsa_iterate_agents, aborts. *)
AgentAccepted(agent) ==
  agent.type = "cpu" \/ (agent.type = "gpu" /\ FindStandardPool(agent) # 0)

ns_to_sysclock(time) == time \div Factor

SysTimeout == IF timeout_ns = TimestampMax THEN timeout_ns ELSE ns_to_sysclock(timeout_ns)

-----------------------------------------------------------------------------
Added == Len(object.agent_map)

(* Instance(): the test without the mutex. *)
Instance(t) ==
  /\ call[t] = "out"
  /\ IF instance = 0
       THEN call' = [call EXCEPT ![t] = "create"] /\ UNCHANGED obj
       ELSE /\ call' = [call EXCEPT ![t] = "have"]
            /\ obj' = [obj EXCEPT ![t] = instance]
  /\ UNCHANGED <<platform, mutex, instance, api, built, alive, object, timeout_ns, reset, destroys,
                 aborted, failed>>

(* Mutant of MustBuild: what the test without the mutex said is believed. *)
MustBuildUnchecked == TRUE

(* The test is repeated under the mutex. *)
MustBuild == instance = 0

(* InitHsaApiTable with a tool's table, or without one: the first call fills hsa_api_. *)
InitHsaApiTable(functions) == IF api = "none" THEN functions ELSE api

(* A tool hands over the table it was loaded with. *)
UseTable(t) ==
  /\ call[t] = "out" /\ mutex = Nobody
  /\ api' = InitHsaApiTable("table")
  /\ UNCHANGED <<platform, mutex, instance, built, alive, object, timeout_ns, reset, call, obj, destroys,
                 aborted, failed>>

(* Create(): lock, and begin the constructor unless another thread has been here. *)
Create(t) ==
  /\ call[t] = "create" /\ mutex = Nobody
  /\ mutex' = t
  /\ IF MustBuild
       THEN /\ call' = [call EXCEPT ![t] = "build"]
            /\ object' = NewObject
            /\ built' = built + 1
            /\ alive' = alive \cup {built + 1}
       ELSE call' = [call EXCEPT ![t] = "unlock"] /\ UNCHANGED <<object, built, alive>>
  /\ api' = IF call'[t] = "build" THEN InitHsaApiTable("linked") ELSE api
  /\ UNCHANGED <<platform, instance, timeout_ns, reset, obj, destroys, aborted, failed>>

(* GetHsaAgentsCallback for the next agent. *)
AddAgent(t) ==
  /\ call[t] = "build" /\ Added < Len(platform)
  /\ IF AgentAccepted(platform[Added + 1])
       THEN object' = AddAgentInfo(object, Added + 1) /\ UNCHANGED aborted
       ELSE aborted' = TRUE /\ UNCHANGED object
  /\ UNCHANGED <<platform, mutex, instance, api, built, alive, timeout_ns, reset, call, obj, destroys,
                 failed>>

PoolsFound == object.cpu_pool # NoPool /\ object.kern_arg_pool # NoPool

(* CHECK_STATUS on a call of the runtime that fails: for the type or the pools of an agent,
   or, once the pools are found, for the aqlprofile table, the loader table or the
   frequency of the timer.  (A failing search for the pools of a CPU is the same to the
   code as a CPU without them.) *)
RuntimeFails(t) ==
  /\ call[t] = "build"
  /\ Added < Len(platform) \/ PoolsFound
  /\ aborted' = TRUE /\ failed' = TRUE
  /\ UNCHANGED <<platform, mutex, instance, api, built, alive, object, timeout_ns, reset, call, obj,
                 destroys>>

(* The rest of the constructor, and the store that publishes the object. *)
Publish(t) ==
  /\ call[t] = "build" /\ Added = Len(platform)
  /\ IF PoolsFound
       THEN /\ object' = [object EXCEPT !.timeout = SysTimeout]
            /\ reset' = FALSE
            /\ instance' = built
            /\ call' = [call EXCEPT ![t] = "unlock"]
            /\ UNCHANGED aborted
       ELSE aborted' = TRUE /\ UNCHANGED <<object, reset, instance, call>>
  /\ UNCHANGED <<platform, mutex, api, built, alive, timeout_ns, obj, destroys, failed>>

(* The mutex is released and the object returned. *)
ReturnCreated(t) ==
  /\ call[t] = "unlock"
  /\ mutex' = Nobody
  /\ call' = [call EXCEPT ![t] = "have"]
  /\ obj' = [obj EXCEPT ![t] = instance]
  /\ UNCHANGED <<platform, instance, api, built, alive, object, timeout_ns, reset, destroys,
                 aborted, failed>>

(* SetTimeoutNs: the static timeout, and that of the object if there is one, which the
   constructor's test for TIMESTAMP_MAX does not guard. *)
SetTimeoutNs(t, time) ==
  /\ call[t] = "out" /\ mutex = Nobody
  /\ timeout_ns' = time
  /\ reset' = (instance # 0)
  /\ object' = IF instance # 0 THEN [object EXCEPT !.timeout = ns_to_sysclock(time)] ELSE object
  /\ UNCHANGED <<platform, mutex, instance, api, built, alive, call, obj, destroys, aborted,
                 failed>>

(* Destroy(): delete the object under the mutex ... *)
Destroy(t) ==
  /\ call[t] = "out" /\ mutex = Nobody
  /\ destroys > 0 /\ destroys' = destroys - 1
  /\ mutex' = t
  /\ alive' = alive \ {instance}
  /\ call' = [call EXCEPT ![t] = "destroy"]
  /\ UNCHANGED <<platform, instance, api, built, object, timeout_ns, reset, obj, aborted, failed>>

(* ... and clear instance_ afterwards. *)
ClearInstance(t) ==
  /\ call[t] = "destroy"
  /\ instance' = 0
  /\ mutex' = Nobody
  /\ call' = [call EXCEPT ![t] = "out"]
  /\ UNCHANGED <<platform, api, built, alive, object, timeout_ns, reset, obj, destroys, aborted, failed>>

FactoryStep(t) ==
  /\ ~aborted
  /\ \/ Instance(t) \/ Create(t) \/ AddAgent(t) \/ RuntimeFails(t) \/ Publish(t)
     \/ ReturnCreated(t)
     \/ \E time \in Timeouts : SetTimeoutNs(t, time)
     \/ UseTable(t) \/ Destroy(t) \/ ClearInstance(t)

-----------------------------------------------------------------------------
(* What the callers of the object read. *)
GetAgentInfo(handle) == object.agent_map[SelectInSeq(object.agent_map,
                                                     LAMBDA info : info.handle = handle)]
GetCountOfGpuAgents == Len(object.gpu_list)
GetGpuAgentInfo(idx) == object.gpu_list[idx + 1]
GetCpuAgentInfo(idx) == object.cpu_list[idx + 1]

(* The timeout that was last set, in ticks: TIMESTAMP_MAX stands for none, and is kept,
   when it was set before the object was built, and is converted when it was set since. *)
LastTimeout == IF reset THEN ns_to_sysclock(timeout_ns) ELSE SysTimeout

(* A platform the constructor should accept. *)
CpuWith(pool) == \E agent \in ToSet(platform) : agent.type = "cpu" /\ pool \in ToSet(agent.pools)
Usable ==
  /\ CpuWith("standard") /\ CpuWith("kern_arg")
  /\ \A agent \in ToSet(platform) :
       agent.type = "cpu" \/ (agent.type = "gpu" /\ "standard" \in ToSet(agent.pools))

(* A list of the agents of a type among the first n, in their order. *)
Lists(list, type, n) ==
  /\ ToSet(list) = {h \in 1 .. n : platform[h].type = type}
  /\ \A i, j \in DOMAIN list : i < j => list[i] < list[j]

(* No CPU among the first n has such a pool. *)
NoneHas(kind, n) ==
  \A h \in 1 .. n : platform[h].type = "cpu" => kind \notin ToSet(platform[h].pools)

(* The first pool of a kind, of the first CPU that has one. *)
IsFirst(pointer, kind) ==
  /\ pointer[1] \in 1 .. Len(platform) /\ platform[pointer[1]].type = "cpu"
  /\ pointer[2] = FindGlobalPool(platform[pointer[1]].pools, kind)
  /\ kind \in ToSet(platform[pointer[1]].pools) /\ NoneHas(kind, pointer[1] - 1)

(* Types of the singleton and of the locals of its users. *)
FactoryTypeOK ==
  /\ platform \in Platforms
  /\ mutex \in User \cup {Nobody}
  /\ instance \in Nat /\ built \in Nat /\ alive \subseteq 1 .. built
  /\ object.timeout \in 0 .. TimestampMax /\ timeout_ns \in 0 .. TimestampMax
  /\ call \in [User -> {"out", "create", "build", "unlock", "have", "destroy"}]
  /\ obj \in [User -> 0 .. built]
  /\ aborted \in BOOLEAN /\ failed \in BOOLEAN /\ reset \in BOOLEAN
  /\ destroys \in Nat /\ api \in {"none", "table", "linked"}

(***************************************************************************)
(* The unlocked test in Instance() and the locked one in Create() never    *)
(* let two objects exist at a time, and nobody is given any other object   *)
(* than the one that exists, while no Destroy has interfered.              *)
(***************************************************************************)
OneInstance ==
  /\ \A a, b \in alive : a = b
  /\ \A t \in User : call[t] = "have" /\ destroys = Destroys => alive = {obj[t]}

(***************************************************************************)
(* An object that can be reached through instance_ is complete, although   *)
(* it is read without the mutex: it lists every agent of the platform once *)
(* and in order, dev_index is the place in the list, its pools are those   *)
(* of the first CPU that has one, its timeout is the one last set, before  *)
(* or after it was built (LastTimeout says what becomes of TIMESTAMP_MAX); *)
(* and the platform has every agent and pool the constructor needs.  For   *)
(* such a platform it aborts the process only when a call of the runtime   *)
(* fails.                                                                  *)
(***************************************************************************)
TablesComplete ==
  /\ aborted => failed \/ ~Usable
  /\ instance # 0 =>
       /\ Usable /\ api # "none"
       /\ Lists(object.cpu_list, "cpu", Len(platform))
       /\ Lists(object.gpu_list, "gpu", Len(platform))
       /\ \A idx \in 0 .. GetCountOfGpuAgents - 1 :
            GetAgentInfo(GetGpuAgentInfo(idx)).dev_index = idx
       /\ \A idx \in 0 .. Len(object.cpu_list) - 1 :
            GetAgentInfo(GetCpuAgentInfo(idx)).dev_index = idx
       /\ IsFirst(object.cpu_pool, "standard") /\ IsFirst(object.kern_arg_pool, "kern_arg")
       /\ object.timeout = LastTimeout
=============================================================================
