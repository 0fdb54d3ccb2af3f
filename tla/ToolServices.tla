---------------------------- MODULE ToolServices ----------------------------
(***************************************************************************)
(* tool_init of version3: for a configuration, the contexts it creates,    *)
(* the services it gives them, which of them it starts, and how the        *)
(* recording of the client context begins.                                 *)
(*                                                                         *)
(* A service is a record of its context, what sort of service it is, and   *)
(* the kind of events or the agent it is for.  The four HSA API tables are *)
(* one kind.  The kernel id 0 is targeted in KernelTarget.                 *)
(***************************************************************************)
EXTENDS Naturals, Sequences

CONSTANTS
  Configs,  \* the configurations to consider
  Gpus,     \* indices of the GPU agents, which att_gpu_index selects from
  PcConfigs \* the PC sampling configurations an agent supports

VARIABLES
  config,    \* tool::get_config()
  tool,      \* "loading", "ready", or "aborted" by ROCP_FATAL or std::exit
  services,  \* services the contexts have
  active     \* contexts that are started

serviceVars == <<config, tool, services, active>>

Benchmarks ==
  {"none", "disabled_contexts_overhead", "sdk_buffered_overhead", "sdk_callback_overhead",
   "execution_profile"}

Kinds ==
  {"kernel_dispatch", "memory_copy", "scratch_memory", "hsa_api", "hip_runtime_api",
   "hip_compiler_api", "rccl_api", "memory_allocation", "rocdecode_api", "rocjpeg_api"}

ASSUME ConfigAssumption ==
  \A c \in Configs :
    /\ c.benchmark \in Benchmarks
    /\ c.options \subseteq Kinds           \* the *_trace options
    /\ c.periods \in Seq(Nat)              \* the repetitions of each collection period
    /\ {c.marker_api_trace, c.counter_collection, c.advanced_thread_trace, c.att_consecutive,
        c.att_perf_ctrl, c.att_perfcounters, c.selected_regions, c.pc_sampling} \subseteq BOOLEAN
    /\ c.pc_sampling_interval \in Nat

-----------------------------------------------------------------------------
Service(context, sort, kind) == [context |-> context, sort |-> sort, kind |-> kind]

(* Mutant of DummyCallbacks: the benchmark of buffered tracing keeps the real callbacks. *)
DummyCallbacksFew(c) == c.benchmark \in {"sdk_callback_overhead", "execution_profile"}

(* get_tracing_callbacks: while the SDK itself is measured, the callbacks of the tool do
   nothing, but for the requests of correlation ids. *)
DummyCallbacks(c) ==
  c.benchmark \in {"sdk_buffered_overhead", "sdk_callback_overhead", "execution_profile"}

(* Markers go to the client context, pause and resume to a context of their own. *)
MarkerServices(c) ==
  IF c.marker_api_trace
    THEN {Service("client", "callback", "marker_core_range"),
          Service("pause_resume", "callback", "marker_control")}
    ELSE {}

(* The table of buffer_service_config. *)
BufferServices(c) ==
  {Service("client", "buffer", kind) :
     kind \in IF c.benchmark = "sdk_callback_overhead" THEN {} ELSE c.options}

(* The table of callback_service_config: empty callbacks, for the benchmark only. *)
CallbackServices(c) ==
  {Service("client", "callback", kind) :
     kind \in IF c.benchmark = "sdk_callback_overhead" THEN c.options ELSE {}}

(* Performance counters of a thread trace need a control word and a list. *)
AttFatal(c) == c.advanced_thread_trace /\ c.att_perf_ctrl # c.att_perfcounters

(* The agents that are traced: those selected by index, or all. *)
AttGpus(c) == IF c.att_gpu_index = {} THEN Gpus ELSE Gpus \cap c.att_gpu_index

AttServices(c) ==
  CASE ~c.advanced_thread_trace -> {}
    [] c.advanced_thread_trace /\ c.att_consecutive ->
         {Service("client", "callback", "kernel_dispatch")}
           \cup {Service("att", "device_thread_trace", gpu) : gpu \in AttGpus(c)}
    [] OTHER -> {Service("client", "dispatch_thread_trace", gpu) : gpu \in AttGpus(c)}

CounterServices(c) ==
  IF c.counter_collection THEN {Service("counters", "dispatch_counting", "kernel_dispatch")}
                          ELSE {}

(* Services every configuration has. *)
ToolContextServices ==
  {Service("code_object", "callback", "code_object"),
   Service("rename", "callback", "marker_core_range"),
   Service("hip_stream", "callback", "hip_stream"),
   Service("runtime_init", "callback", "runtime_initialization")}

(* Mutant of RequestKinds: memory allocations are forgotten. *)
RequestKindsShort == {"kernel_dispatch", "memory_copy", "hip_runtime_api"}

(* external_corr_id_request_kinds. *)
RequestKinds == {"kernel_dispatch", "memory_copy", "memory_allocation", "hip_runtime_api"}

(* set_kernel_rename_and_stream_correlation_id is asked for external correlation ids. *)
CorrelationRequests(c) ==
  IF c.benchmark = "execution_profile" THEN {}
  ELSE {Service("client", "request", kind) : kind \in RequestKinds}
         \cup (IF c.counter_collection THEN {Service("counters", "request", "kernel_dispatch")}
                                       ELSE {})

(* if_pc_sample_config_match: method, unit and interval suit the agent. *)
if_pc_sample_config_match(gpu, c) ==
  \E p \in PcConfigs[gpu] :
    /\ p.method = c.pc_sampling_method /\ p.unit = c.pc_sampling_unit
    /\ p.min_interval <= c.pc_sampling_interval
    /\ p.max_interval >= c.pc_sampling_interval

(* configure_pc_sampling_on_all_agents. *)
PcServices(c) ==
  {Service("client", "pc_sampling", gpu) :
     gpu \in {g \in Gpus : c.pc_sampling /\ if_pc_sample_config_match(g, c)}}

(* It ends the process if no agent is suited. *)
PcUnsupported(c) == c.pc_sampling /\ PcServices(c) = {}

-----------------------------------------------------------------------------
(* The chain of conditions that ends tool_init. *)
StartMode(c) ==
  IF c.benchmark = "disabled_contexts_overhead" THEN "never"
  ELSE IF c.selected_regions THEN "regions"
  ELSE IF c.periods # <<>> THEN "periods"
  ELSE "now"

(* Contexts the lambda start_context is called with. *)
ToStart(c) ==
  {"code_object", "rename", "hip_stream", "runtime_init"}
    \cup (IF c.marker_api_trace THEN {"pause_resume"} ELSE {})
    \cup (IF c.counter_collection THEN {"counters"} ELSE {})
    \cup (IF StartMode(c) = "now" THEN {"client"} ELSE {})

(* Mutant of start_context: the benchmark of disabled contexts is overlooked. *)
start_contextAlways(c) == ToStart(c)

start_context(c) == IF c.benchmark = "disabled_contexts_overhead" THEN {} ELSE ToStart(c)

(* start_context has record_execution_profile asked for the ids of all kinds. *)
ProfileRequests(c) ==
  IF c.benchmark = "execution_profile"
    THEN {Service(ctx, "profile", "any") : ctx \in start_context(c)}
    ELSE {}

(* The services of all contexts. *)
ServicesOf(c) ==
  ToolContextServices \cup MarkerServices(c) \cup BufferServices(c) \cup CallbackServices(c)
    \cup AttServices(c) \cup CounterServices(c) \cup CorrelationRequests(c) \cup PcServices(c)
    \cup ProfileRequests(c)

ServicesInit ==
  /\ config \in Configs
  /\ tool = "loading" /\ services = {} /\ active = {}

tool_init ==
  /\ tool = "loading"
  /\ IF AttFatal(config) \/ PcUnsupported(config)
       THEN tool' = "aborted" /\ UNCHANGED <<services, active>>
       ELSE /\ tool' = "ready"
            /\ services' = ServicesOf(config)
            /\ active' = start_context(config)
  /\ UNCHANGED config

(* Types of the configuration, the services and the contexts. *)
ServicesTypeOK ==
  /\ config \in Configs
  /\ tool \in {"loading", "ready", "aborted"}
  /\ active \subseteq {"client", "code_object", "rename", "hip_stream", "runtime_init",
                       "pause_resume", "counters"}
  /\ \A s \in services : DOMAIN s = {"context", "sort", "kind"}
=============================================================================
