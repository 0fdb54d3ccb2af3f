----------------------------- MODULE RangeRename -----------------------------
(***************************************************************************)
(* Kernel renaming and stream correlation of version3.  The threads of the *)
(* application open and close roctx ranges and call HIP on a stream; the   *)
(* tool keeps a stack of either per thread.  When an operation is launched *)
(* the SDK asks each context that traces it for an external correlation    *)
(* id: the tool allocates a struct with the region and the stream of the   *)
(* launching thread and answers with its address.  The record of the       *)
(* operation arrives later, on a thread of the buffer or of the runtime;   *)
(* there the struct is read, freed, and the address replaced.              *)
(*                                                                         *)
(* Which contexts trace what is ToolServices.  The client context is       *)
(* started and stopped by roctxProfilerResume and roctxProfilerPause, or   *)
(* by the thread of the collection periods.                                *)
(***************************************************************************)
EXTENDS ToolServices, FiniteSets, SequencesExt

CONSTANTS
  Thread,       \* threads of the application
  Stream,       \* stream ids, beside the default 0
  LaunchKinds,  \* kinds of operations that are launched
  MaxActions    \* bound: calls of the application, to roctx and to HIP, and thread exits

ASSUME RenameAssumption ==
  /\ LaunchKinds \subseteq Kinds
  /\ Stream \subseteq Nat \ {0}
  /\ MaxActions \in Nat

VARIABLES
  ranges,    \* thread_dispatch_rename
  streams,   \* the stack of rocprofiler::tool::stream
  gone,      \* which of the two are destroyed, per thread
  heap,      \* structs kernel_rename_and_stream_data that are allocated
  pending,   \* records the SDK has yet to deliver
  written,   \* records written to the rings
  control,   \* the pause or resume a thread is in
  periods,   \* collection periods left
  round,     \* rounds of the first of them that are done
  in_period, \* the period thread has started the client context
  profile,   \* threads and contexts of the execution profile
  log,       \* history: what a thread did with ranges
  on_stream, \* history: the stream of the HIP call a thread is in, or 0
  wanted,    \* history: whether recording was asked for
  actions,   \* bound: what the application has done so far
  launched   \* history: the operations launched

stackVars == <<ranges, streams, gone>>
recordVars == <<heap, pending, written, profile>>
controlVars == <<control, periods, round, in_period>>
historyVars == <<log, on_stream, wanted, actions, launched>>
vars == <<serviceVars, stackVars, recordVars, controlVars, historyVars>>

-----------------------------------------------------------------------------
(* A region is identified by the event that opened it; <<>> is the id 0. *)
NoRegion == <<>>

Init ==
  /\ ServicesInit
  /\ ranges = [t \in Thread |-> <<>>]
  /\ streams = [t \in Thread |-> <<>>]
  /\ gone = [t \in Thread |-> {}]
  /\ heap = {} /\ pending = {} /\ written = {} /\ profile = {}
  /\ control = [t \in Thread |-> "none"]
  /\ periods = <<>> /\ round = 0 /\ in_period = FALSE
  /\ log = [t \in Thread |-> <<>>]
  /\ on_stream = [t \in Thread |-> 0]
  /\ wanted = FALSE /\ actions = 0 /\ launched = <<>>

(* tool_init; in the mode of periods it starts their thread with a copy of the queue. *)
Load ==
  /\ tool_init
  /\ periods' = IF StartMode(config) = "periods" THEN config.periods ELSE <<>>
  /\ wanted' = (tool' = "ready" /\ StartMode(config) = "now")
  /\ UNCHANGED <<stackVars, recordVars, control, round, in_period, log, on_stream, actions,
                 launched>>

-----------------------------------------------------------------------------
(* kernel_rename_callback is called, and has a stack. *)
Renames(t) == "rename" \in active /\ "rename" \notin gone[t] /\ ~DummyCallbacks(config)

Event(t, op, named) == log' = [log EXCEPT ![t] = Append(@, [op |-> op, named |-> named])]

Region(t) == <<t, Len(log[t]) + 1>>

(* A mark, on EXIT, and a range, on ENTER, are pushed if they have a message. *)
PushRegion(t, named) ==
  ranges' = IF Renames(t) /\ named THEN [ranges EXCEPT ![t] = Append(@, Region(t))] ELSE ranges

(* The application makes a call. *)
Act == tool = "ready" /\ actions < MaxActions /\ actions' = actions + 1

(* roctxMarkA. *)
MarkA(t, named) ==
  /\ Act
  /\ PushRegion(t, named)
  /\ Event(t, "mark", named)
  /\ UNCHANGED <<serviceVars, streams, gone, recordVars, controlVars, on_stream, wanted,
                 launched>>

(* roctxThreadRangeA, ENTER. *)
RangeEnter(t, named) ==
  /\ Act
  /\ PushRegion(t, named)
  /\ Event(t, "push", named)
  /\ UNCHANGED <<serviceVars, streams, gone, recordVars, controlVars, on_stream, wanted,
                 launched>>

(* Ranges that are open after the first i events of a thread. *)
Depth(l, i) == Cardinality({j \in 1 .. i : l[j].op = "push"})
               - Cardinality({j \in 1 .. i : l[j].op = "pop"})

(* Mutant of Popped: the stack is left as it is. *)
PoppedNot(stack) == stack

Popped(stack) == Front(stack)

(* roctxThreadRangeA, EXIT: of a range that is open. *)
RangeExit(t) ==
  /\ Act /\ Depth(log[t], Len(log[t])) > 0
  /\ Event(t, "pop", FALSE)
  /\ IF Renames(t) /\ ranges[t] = <<>>
       THEN tool' = "aborted" /\ UNCHANGED ranges
       ELSE /\ ranges' = IF Renames(t) THEN [ranges EXCEPT ![t] = Popped(@)] ELSE ranges
            /\ UNCHANGED tool
  /\ UNCHANGED <<config, services, active, streams, gone, recordVars, controlVars, on_stream,
                 wanted, launched>>

(* hip_stream_display_callback is called, and the stack it uses is there. *)
TracksStreams(t) ==
  "hip_stream" \in active /\ "stream" \notin gone[t] /\ ~DummyCallbacks(config)

(* A HIP call on a stream begins: ROCPROFILER_HIP_STREAM_SET, ENTER ... *)
StreamEnter(t, s) ==
  /\ Act /\ on_stream[t] = 0
  /\ on_stream' = [on_stream EXCEPT ![t] = s]
  /\ streams' = IF TracksStreams(t) THEN [streams EXCEPT ![t] = Append(@, s)] ELSE streams
  /\ UNCHANGED <<serviceVars, ranges, gone, recordVars, controlVars, log, wanted, launched>>

(* ... and returns: EXIT. *)
StreamExit(t) ==
  /\ tool = "ready" /\ on_stream[t] # 0
  /\ on_stream' = [on_stream EXCEPT ![t] = 0]
  /\ streams' = IF TracksStreams(t) THEN [streams EXCEPT ![t] = Popped(@)] ELSE streams
  /\ UNCHANGED <<serviceVars, ranges, gone, recordVars, controlVars, log, wanted, actions,
                 launched>>

(* A thread ends and its stacks are destroyed, in either order; destructors that run
   between and after may still use the GPU. *)
DestroyStack(t, stack) ==
  /\ Act /\ on_stream[t] = 0
  /\ stack \in {"rename", "stream"} \ gone[t]
  /\ gone' = [gone EXCEPT ![t] = @ \cup {stack}]
  /\ ranges' = IF stack = "rename" THEN [ranges EXCEPT ![t] = <<>>] ELSE ranges
  /\ streams' = IF stack = "stream" THEN [streams EXCEPT ![t] = <<>>] ELSE streams
  /\ UNCHANGED <<serviceVars, recordVars, controlVars, log, on_stream, wanted, launched>>

-----------------------------------------------------------------------------
(* The configuration lets the application pause and resume. *)
Heard == config.marker_api_trace /\ config.benchmark = "none"

(* cntrl_tracing_callback is called. *)
Controls == "pause_resume" \in active /\ ~DummyCallbacks(config)

(* The contexts that are active when a pause or a resume is called. *)
Paused(op) == IF op = "pause" THEN active \ {"client"} ELSE active

(* cntrl_tracing_callback on ENTER stops the client context for a pause ... *)
ControlEnter(t, op) ==
  /\ Act /\ control[t] = "none"
  /\ control' = [control EXCEPT ![t] = op]
  /\ active' = IF Controls THEN Paused(op) ELSE active
  /\ wanted' = (wanted /\ ~(Heard /\ op = "pause"))
  /\ UNCHANGED <<config, tool, services, stackVars, recordVars, periods, round, in_period, log,
                 on_stream, launched>>

(* Mutant of Resumed: a resume does not start the context again. *)
ResumedNot(op) == active

(* The contexts that are active when a pause or a resume returns. *)
Resumed(op) == IF op = "resume" THEN active \cup {"client"} ELSE active

(* ... and on EXIT starts it for a resume; either writes a record of the call. *)
ControlExit(t) ==
  /\ tool = "ready" /\ control[t] # "none"
  /\ control' = [control EXCEPT ![t] = "none"]
  /\ wanted' = (wanted \/ (Heard /\ control[t] = "resume"))
  /\ IF Controls
       THEN /\ active' = Resumed(control[t])
            /\ written' = written \cup {[launch |-> 0, context |-> "pause_resume",
                                         region |-> NoRegion, stream |-> 0]}
       ELSE UNCHANGED <<active, written>>
  /\ UNCHANGED <<config, tool, services, stackVars, heap, pending, profile, periods, round,
                 in_period, log, on_stream, actions, launched>>

(* collection_period_cntrl: a round of the first period begins ... *)
StartPeriod ==
  /\ tool = "ready" /\ periods # <<>> /\ ~in_period
  /\ in_period' = TRUE
  /\ active' = active \cup {"client"}
  /\ wanted' = TRUE
  /\ UNCHANGED <<config, tool, services, stackVars, recordVars, control, periods, round, log,
                 on_stream, actions, launched>>

(* Mutant of LastRound: the rounds that are done are counted without this one. *)
LastRoundTooLate == round >= Head(periods)

(* A period that is not repeated has one round all the same. *)
LastRound == round + 1 >= Head(periods)

(* ... and ends. *)
StopPeriod ==
  /\ tool = "ready" /\ in_period
  /\ in_period' = FALSE
  /\ active' = active \ {"client"}
  /\ wanted' = FALSE
  /\ periods' = IF LastRound THEN Tail(periods) ELSE periods
  /\ round' = IF LastRound THEN 0 ELSE round + 1
  /\ UNCHANGED <<config, tool, services, stackVars, recordVars, control, log, on_stream,
                 actions, launched>>

-----------------------------------------------------------------------------
(* Contexts that trace a kind of operation. *)
Traces(ctx, kind) ==
  \E s \in services :
    /\ s.context = ctx
    /\ \/ s.sort \in {"buffer", "callback", "dispatch_counting"} /\ s.kind = kind
       \/ s.sort = "dispatch_thread_trace" /\ kind = "kernel_dispatch"

RenameEnabled(t, kind) ==
  kind = "kernel_dispatch" /\ "rename" \notin gone[t] /\ ranges[t] # <<>>

StreamEnabled(t) == "stream" \notin gone[t]

(* stream::get_stream_id: the innermost stream, or the default one. *)
CurrentStream(t) == IF streams[t] = <<>> THEN 0 ELSE Last(streams[t])

(* The struct that is answered. *)
Info(t, kind) ==
  [region |-> IF RenameEnabled(t, kind) THEN Last(ranges[t]) ELSE NoRegion,
   stream |-> IF StreamEnabled(t) THEN CurrentStream(t) ELSE 0]

(* set_kernel_rename_and_stream_correlation_id answers with a struct. *)
Correlated(t, ctx, kind) ==
  /\ Service(ctx, "request", kind) \in services
  /\ RenameEnabled(t, kind) \/ StreamEnabled(t)

(* The client context samples some agent; and the sample of a launch. *)
Sampling == "client" \in active /\ \E s \in services : s.sort = "pc_sampling"

Sample(n) == [launch |-> n, context |-> "samples", ptr |-> FALSE]

(* What the program means: ranges that are open, and marks, which nothing closes. *)
Live(l) ==
  {i \in DOMAIN l : \/ l[i].op = "mark" /\ l[i].named
                    \/ l[i].op = "push" /\ \A j \in i .. Len(l) : Depth(l, j) >= Depth(l, i)}

Innermost(t) ==
  IF Live(log[t]) = {} \/ "rename" \in gone[t] THEN NoRegion
  ELSE <<t, CHOOSE i \in Live(log[t]) : \A j \in Live(log[t]) : j <= i>>

(* Every range has a name, and no mark stands inside of one. *)
Plain(l) == \A i \in DOMAIN l : /\ l[i].op = "push" => l[i].named
                                /\ l[i].op = "mark" => Depth(l, i) = 0

(* An operation is launched; targeted is what is_targeted_kernel says of a dispatch, and
   sampled whether a PC sample is taken while it runs (more of them are alike). *)
Launch(t, kind, targeted, sampled) ==
  LET n == Len(launched) + 1
      traced == {ctx \in active : Traces(ctx, kind)}
      correlated == {ctx \in traced : Correlated(t, ctx, kind)}
      recorded == {ctx \in traced : \/ Service(ctx, "buffer", kind) \in services
                                    \/ ctx = "counters" /\ targeted}
  IN /\ Act
     /\ targeted => /\ kind = "kernel_dispatch" /\ "counters" \in active
                    /\ ~DummyCallbacks(config)
     /\ sampled => kind = "kernel_dispatch" /\ Sampling
     /\ heap' = heap \cup {[launch |-> n, context |-> ctx, info |-> Info(t, kind)] :
                             ctx \in correlated}
     /\ pending' = pending \cup {[launch |-> n, context |-> ctx, ptr |-> ctx \in correlated] :
                                   ctx \in recorded}
                           \cup (IF sampled THEN {Sample(n)} ELSE {})
     /\ profile' = profile \cup {<<t, ctx>> : ctx \in {c \in traced :
                                                Service(c, "profile", "any") \in services}}
     /\ launched' = Append(launched,
                           [thread |-> t, kind |-> kind, targeted |-> targeted,
                            region |-> Innermost(t), plain |-> Plain(log[t]),
                            stream |-> IF StreamEnabled(t) THEN on_stream[t] ELSE 0,
                            wanted |-> wanted])
     /\ UNCHANGED <<serviceVars, stackVars, written, controlVars, log, on_stream, wanted>>

-----------------------------------------------------------------------------
(* Mutant of StreamKinds: the branch of memory allocations copies the record as it is. *)
StreamKindsShort == {"kernel_dispatch", "memory_copy", "hip_runtime_api", "hip_compiler_api"}

(* Kinds whose branch in buffered_tracing_callback calls get_stream_id. *)
StreamKinds ==
  {"kernel_dispatch", "memory_copy", "memory_allocation", "hip_runtime_api",
   "hip_compiler_api"}

InfoOf(r) == CHOOSE h \in heap : h.launch = r.launch /\ h.context = r.context

(* get_stream_id deletes the struct of the record. *)
Freed(r) == {InfoOf(r)}

(* get_stream_id: the stream, and the region in the place of the pointer. *)
GetStreamId(r) ==
  IF r.ptr /\ launched[r.launch].kind \in StreamKinds
    THEN /\ heap' = heap \ Freed(r)
         /\ written' = written \cup {[launch |-> r.launch, context |-> r.context,
                                      region |-> InfoOf(r).info.region,
                                      stream |-> InfoOf(r).info.stream]}
    ELSE /\ written' = written \cup {[launch |-> r.launch, context |-> r.context,
                                      region |-> NoRegion, stream |-> 0]}
         /\ UNCHANGED heap

(* buffered_tracing_callback for a record of the client context, and
   counter_record_callback for one of the counter context; dummies leave it. *)
DeliverRecord(r) ==
  /\ tool = "ready" /\ r.context # "samples"
  /\ pending' = pending \ {r}
  /\ IF DummyCallbacks(config) THEN UNCHANGED <<heap, written>> ELSE GetStreamId(r)
  /\ UNCHANGED <<serviceVars, stackVars, profile, controlVars, historyVars>>

(* pc_sampling_callback: an invalid sample is counted, and not written. *)
DeliverSample(r, valid) ==
  /\ tool = "ready" /\ r.context = "samples"
  /\ pending' = pending \ {r}
  /\ written' = IF valid /\ ~DummyCallbacks(config)
                  THEN written \cup {[launch |-> r.launch, context |-> "samples",
                                      region |-> NoRegion, stream |-> 0]}
                  ELSE written
  /\ UNCHANGED <<serviceVars, stackVars, heap, profile, controlVars, historyVars>>

Next ==
  \/ Load
  \/ \E t \in Thread, named \in BOOLEAN : MarkA(t, named) \/ RangeEnter(t, named)
  \/ \E t \in Thread : RangeExit(t) \/ StreamExit(t) \/ ControlExit(t)
  \/ \E t \in Thread, s \in Stream : StreamEnter(t, s)
  \/ \E t \in Thread, stack \in {"rename", "stream"} : DestroyStack(t, stack)
  \/ \E t \in Thread, op \in {"pause", "resume"} : ControlEnter(t, op)
  \/ StartPeriod \/ StopPeriod
  \/ \E t \in Thread, kind \in LaunchKinds, targeted \in BOOLEAN, sampled \in BOOLEAN :
       Launch(t, kind, targeted, sampled)
  \/ \E r \in pending : DeliverRecord(r) \/ \E valid \in BOOLEAN : DeliverSample(r, valid)

Spec == Init /\ [][Next]_vars

-----------------------------------------------------------------------------
(* Types of the stacks, the structs, the records and the histories. *)
RenameTypeOK ==
  /\ ServicesTypeOK
  /\ \A t \in Thread : \A i \in DOMAIN ranges[t] : ranges[t][i] \in {t} \X (1 .. MaxActions)
  /\ streams \in [Thread -> Seq(Stream)]
  /\ gone \in [Thread -> SUBSET {"rename", "stream"}]
  /\ \A h \in heap : h.launch \in DOMAIN launched /\ h.info.stream \in Stream \cup {0}
  /\ pending \subseteq [launch : DOMAIN launched, context : active \cup {"client", "samples"},
                        ptr : BOOLEAN]
  /\ \A r \in written : r.launch \in DOMAIN launched \cup {0} /\ r.stream \in Stream \cup {0}
  /\ control \in [Thread -> {"none", "pause", "resume"}] /\ actions \in 0 .. MaxActions
  /\ periods \in Seq(Nat) /\ in_period \in BOOLEAN
  /\ round \in Nat /\ (periods = <<>> => round = 0 /\ ~in_period)
  /\ round > 0 => round < Head(periods)
  /\ on_stream \in [Thread -> Stream \cup {0}] /\ wanted \in BOOLEAN

OperationRecords == {r \in written : r.launch # 0 /\ r.context # "samples"}

(***************************************************************************)
(* What reaches the output with an operation is what held on the thread    *)
(* that launched it when it was launched: the region that was innermost    *)
(* then, for a kernel, and the stream of the HIP call.  It does not matter *)
(* what the thread, or the others, did before the record was delivered,    *)
(* nor which contexts recorded the operation.                              *)
(***************************************************************************)
CorrelationExact ==
  \A r \in OperationRecords :
    LET l == launched[r.launch]
        known == l.kind \in {"kernel_dispatch", "memory_copy", "memory_allocation",
                             "hip_runtime_api"}
    IN /\ r.stream = IF known THEN l.stream ELSE 0
       /\ l.plain => r.region = IF known /\ l.kind = "kernel_dispatch" THEN l.region
                                                                       ELSE NoRegion

(* No record is handled for a launch: the callbacks are dummies, the context has callbacks
   only, or the dispatch is not one whose counters are collected. *)
Unrecorded(h) ==
  LET l == launched[h.launch]
  IN IF h.context = "counters" THEN ~l.targeted  \* with dummies, none is
     ELSE \/ DummyCallbacks(config)
          \/ config.advanced_thread_trace /\ l.kind = "kernel_dispatch" /\ l.kind \notin config.options

(***************************************************************************)
(* Every struct is freed by the record it was made for, and not before:    *)
(* the kinds an id is requested for are the kinds whose records are asked  *)
(* for their stream, and where two contexts record a dispatch each has a   *)
(* struct of its own.  What stays behind are the structs of launches       *)
(* without a record.                                                       *)
(***************************************************************************)
InfosReturned ==
  /\ \A r \in pending : r.ptr =>
       Cardinality({h \in heap : h.launch = r.launch /\ h.context = r.context}) = 1
  /\ \A h \in heap :
       \/ Unrecorded(h)
       \/ [launch |-> h.launch, context |-> h.context, ptr |-> TRUE] \in pending

(***************************************************************************)
(* The warning in tool_init, "rocprofv3 is only recording profiling data   *)
(* within regions of code surrounded by roctxProfilerResume(0)/            *)
(* roctxProfilerPause", and its counterparts for the collection periods    *)
(* and the benchmark of disabled contexts: the client context records what *)
(* is launched while recording was asked for, all of it and nothing else;  *)
(* PC samples stem from no other launches.  "The overhead of the tool      *)
(* doing any work" is left out where get_tracing_callbacks says so.        *)
(***************************************************************************)
RegionsOnly ==
  \A n \in DOMAIN launched :
    LET dummies == config.benchmark \in {"sdk_buffered_overhead", "sdk_callback_overhead",
                                         "execution_profile"}
        records == {r \in IF dummies THEN written ELSE pending \cup written : r.launch = n}
    IN /\ (\E r \in records : r.context = "client")
            <=> launched[n].wanted /\ launched[n].kind \in config.options /\ ~dummies
       /\ (\E r \in records : r.context = "samples") => launched[n].wanted /\ ~dummies

(***************************************************************************)
(* A range takes its own region off the stack: the fatal error about too   *)
(* many pops is not met, and none of the regions of a thread is lost or    *)
(* left behind, in a program that names its ranges and does not mark       *)
(* inside of them.                                                         *)
(***************************************************************************)
PopsMatchPushes ==
  /\ tool = "aborted" /\ ~AttFatal(config) /\ ~PcUnsupported(config) =>
       \E t \in Thread : \E i \in DOMAIN log[t] : log[t][i].op = "push" /\ ~log[t][i].named
  /\ \A t \in Thread : Renames(t) /\ Plain(log[t]) =>
       Len(ranges[t]) = Cardinality(Live(log[t]))
=============================================================================
