--------------------------- MODULE CounterDispatch ---------------------------
(***************************************************************************)
(* Version3's counter collection.  A dispatch that is_targeted_kernel      *)
(* answers TRUE is given one of its agent's counter configurations: one    *)
(* per configured counter group of which the agent has counters, each for  *)
(* Rotation dispatches in a row, in turn.  The configurations are built    *)
(* when the first such dispatch asks.                                      *)
(*                                                                         *)
(* The callbacks of several threads share an atomic count per agent.       *)
(***************************************************************************)
EXTENDS KernelTarget, Sequences

CONSTANTS
  Agent,       \* GPU agents
  GpuIndex,    \* agent_v->gpu_index
  Available,   \* the counters an agent has
  AgentOf,     \* the agent of a dispatch
  Groups,      \* config: counters, a sequence of sets of counter requests
  Rotation,    \* config: counter_groups_interval
  AnyDevice    \* the device of a request without ":device=N"

ASSUME AgentAssumption == AgentOf \in [Dispatch -> Agent] /\ GpuIndex \in [Agent -> Nat]
ASSUME GroupAssumption ==
  Len(Groups) \in Nat /\ \A i \in 1..Len(Groups) : IsFiniteSet(Groups[i])
ASSUME RotationAssumption == Rotation \in Nat \ {0}

VARIABLES
  stage,         \* where a dispatch stands: "callback", "running" or "done"
  current_iter,  \* per agent: the dispatches that asked for a configuration
  profiles,      \* per agent: its configurations, in the order of the groups
  built,         \* the function-static agent_profiles is initialized
  warned,        \* agents and groups of which counters were reported missing
  chosen,        \* the position of a dispatch's configuration, 0 for none
  ring           \* the COUNTER_COLLECTION records, as dispatch and counters

counterVars == <<stage, current_iter, profiles, built, warned, chosen, ring>>
allVars == <<targetVars, counterVars>>

-----------------------------------------------------------------------------
CounterInit ==
  /\ TargetInit
  /\ stage = [d \in Dispatch |-> "callback"]
  /\ current_iter = [a \in Agent |-> 0]
  /\ profiles = [a \in Agent |-> <<>>]
  /\ built = FALSE
  /\ warned = {}
  /\ chosen = [d \in Dispatch |-> 0]
  /\ ring = {}

(* is_targeted_kernel, and the code object callback, as KernelTarget has them. *)
TargetingStep == TargetNext /\ UNCHANGED counterVars

-----------------------------------------------------------------------------
(* construct_counter_collection_profile *)

(* Requests of a group that name another device than this agent. *)
OtherDevice(a, g) == {r \in g : r.device # AnyDevice /\ r.device # GpuIndex[a]}

(* Requests of a group whose counter the agent has. *)
Found(a, g) == {r \in g \ OtherDevice(a, g) : r.name \in Available[a]}

(* Mutant of Expected: requests for other devices are expected here too. *)
ExpectedOfAll(a, g) == Cardinality(g)

(* How many counters of the group should be found. *)
Expected(a, g) == Cardinality(g) - Cardinality(OtherDevice(a, g))

CountersOf(a, g) == {r.name : r \in Found(a, g)}

(* Mutant of ProfilesOf: empty configurations are kept. *)
ProfilesWithEmpty(a) == [i \in 1..Len(Groups) |-> CountersOf(a, Groups[i])]

(* Groups of which the agent has a counter, and how many of them there are up to group i. *)
Collectable(a) == {i \in 1..Len(Groups) : CountersOf(a, Groups[i]) # {}}
Rank(a, i) == Cardinality({j \in Collectable(a) : j <= i})

(* generate_agent_profiles: a configuration for each such group, in the order of the
   groups; those of which the agent has nothing are left out. *)
ProfilesOf(a) ==
  [n \in 1..Cardinality(Collectable(a)) |->
     CountersOf(a, Groups[CHOOSE i \in Collectable(a) : Rank(a, i) = n])]

MissingIn(a) == {i \in 1..Len(Groups) : Expected(a, Groups[i]) # Cardinality(Found(a, Groups[i]))}

generate_agent_profiles ==
  /\ ~built
  /\ built' = TRUE
  /\ profiles' = [a \in Agent |-> ProfilesOf(a)]
  /\ warned' = UNION {{a} \X MissingIn(a) : a \in Agent}

-----------------------------------------------------------------------------
(* Mutant of Position: the count after the increment. *)
PositionAfter(n, size) == 1 + (((n + 1) \div Rotation) % size)

(* The configuration for the n-th request, counted from 0, of an agent. *)
Position(n, size) == 1 + ((n \div Rotation) % size)

(* counter_dispatch_callback after is_targeted_kernel: the kernel is not targeted. *)
SkipDispatch(d) ==
  /\ stage[d] = "callback" /\ pc[d] = "answered"
  /\ ~answer[d]
  /\ stage' = [stage EXCEPT ![d] = "running"]
  /\ UNCHANGED <<targetVars, current_iter, profiles, built, warned, chosen, ring>>

(* get_device_counting_service: fetch_add, then the configuration of that count;
   an agent without configurations has none to give. *)
ChooseProfile(d) ==
  /\ stage[d] = "callback" /\ pc[d] = "answered"
  /\ answer[d]
  /\ generate_agent_profiles \/ (built /\ UNCHANGED <<built, profiles, warned>>)
  /\ LET a == AgentOf[d]
     IN  /\ current_iter' = [current_iter EXCEPT ![a] = @ + 1]
         /\ chosen' = [chosen EXCEPT ![d] =
              IF profiles'[a] = <<>> THEN 0 ELSE Position(current_iter[a], Len(profiles'[a]))]
  /\ stage' = [stage EXCEPT ![d] = "running"]
  /\ UNCHANGED <<targetVars, ring>>

counter_dispatch_callback(d) == SkipDispatch(d) \/ ChooseProfile(d)

(* counter_record_callback, when a counted dispatch completes. *)
counter_record_callback(d) ==
  /\ stage[d] = "running" /\ chosen[d] # 0
  /\ ring' = ring \cup {[dispatch |-> d, counters |-> profiles[AgentOf[d]][chosen[d]]]}
  /\ stage' = [stage EXCEPT ![d] = "done"]
  /\ UNCHANGED <<targetVars, current_iter, profiles, built, warned, chosen>>

CounterNext ==
  \/ TargetingStep
  \/ \E d \in Dispatch : counter_dispatch_callback(d) \/ counter_record_callback(d)

CounterSpec == CounterInit /\ [][CounterNext]_allVars

-----------------------------------------------------------------------------
(* Types of the variables of targeting and of counter collection. *)
CounterTypeOK ==
  /\ TargetTypeOK
  /\ stage \in [Dispatch -> {"callback", "running", "done"}]
  /\ current_iter \in [Agent -> Nat]
  /\ DOMAIN profiles = Agent
  /\ \A a \in Agent : \A i \in 1..Len(profiles[a]) :
       profiles[a][i] # {} /\ profiles[a][i] \subseteq Available[a]
  /\ built \in BOOLEAN
  /\ warned \subseteq Agent \X (1..Len(Groups))
  /\ \A d \in Dispatch : chosen[d] \in 0..Len(profiles[AgentOf[d]])
  /\ \A r \in ring : r.dispatch \in Dispatch /\ r.counters \subseteq Available[AgentOf[r.dispatch]]

Uses(a, i) == Cardinality({d \in Dispatch : AgentOf[d] = a /\ chosen[d] = i})

(***************************************************************************)
(* The groups take turns: however the callbacks of the threads interleave  *)
(* and whatever kernels are targeted, an agent's configurations are used   *)
(* equally often, up to one interval, the earlier ones first; so each gets *)
(* its Rotation dispatches before the first comes round again.             *)
(***************************************************************************)
GroupsTakeTurns ==
  \A a \in Agent : \A i, j \in 1..Len(profiles[a]) :
    i < j => Uses(a, j) <= Uses(a, i) /\ Uses(a, i) <= Uses(a, j) + Rotation

(***************************************************************************)
(* The warning "Unable to find all counters" comes from comparing numbers; *)
(* it is given exactly for the groups that ask an agent for a counter it   *)
(* does not have, and not for requests meant for other devices.            *)
(***************************************************************************)
MissingCountersWarned ==
  built => \A a \in Agent : \A i \in 1..Len(Groups) :
    <<a, i>> \in warned <=>
      \E r \in Groups[i] : r.device \in {AnyDevice, GpuIndex[a]} /\ r.name \notin Available[a]
=============================================================================
