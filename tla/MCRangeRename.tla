---------------------------- MODULE MCRangeRename ----------------------------
(* TLC instance of RangeRename: one configuration for every way the client   *)
(* context can be started and for every kind of context that traces.        *)
EXTENDS RangeRename

CONSTANTS t1, t2, g1, g2, g3

Default ==
  [benchmark |-> "none", options |-> {"kernel_dispatch", "memory_allocation"},
   marker_api_trace |-> TRUE, counter_collection |-> FALSE, advanced_thread_trace |-> FALSE,
   att_consecutive |-> FALSE, att_perf_ctrl |-> FALSE, att_perfcounters |-> FALSE,
   att_gpu_index |-> {}, selected_regions |-> FALSE, periods |-> <<>>,
   pc_sampling |-> FALSE, pc_sampling_method |-> "host_trap", pc_sampling_unit |-> "time",
   pc_sampling_interval |-> 10]

MCPcConfigs ==
  g1 :> {[method |-> "host_trap", unit |-> "time", min_interval |-> 1, max_interval |-> 10]}
    @@ g2 :> {}

MCConfigs ==
  {[Default EXCEPT !.counter_collection = TRUE],
   [Default EXCEPT !.selected_regions = TRUE],
   [Default EXCEPT !.periods = <<2, 0>>, !.marker_api_trace = FALSE],
   [Default EXCEPT !.benchmark = "disabled_contexts_overhead"],
   [Default EXCEPT !.benchmark = "execution_profile", !.counter_collection = TRUE],
   [Default EXCEPT !.benchmark = "sdk_callback_overhead"],
   [Default EXCEPT !.benchmark = "sdk_buffered_overhead"],
   [Default EXCEPT !.pc_sampling = TRUE, !.selected_regions = TRUE,
                   !.options = {"memory_allocation"}],
   [Default EXCEPT !.pc_sampling = TRUE, !.pc_sampling_interval = 11],
   [Default EXCEPT !.advanced_thread_trace = TRUE, !.options = {"hip_compiler_api"},
                   !.att_gpu_index = {g1, g3}],
   [Default EXCEPT !.advanced_thread_trace = TRUE, !.att_consecutive = TRUE],
   [Default EXCEPT !.advanced_thread_trace = TRUE, !.att_perf_ctrl = TRUE]}

(* Nothing tells one thread from the other. *)
ThreadSymmetry == Permutations(Thread)
=============================================================================
