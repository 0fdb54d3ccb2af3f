--------------------------- MODULE AttConsecutive ---------------------------
(***************************************************************************)
(* Advanced thread trace of consecutive kernels (version3's                *)
(* att_dispatch_consecutive_kernel_callback).  A targeted dispatch starts  *)
(* the device context; it and the dispatches that follow, up to            *)
(* ConsecutiveKernels of them, are captured; once a later dispatch asks to *)
(* stop and no captured dispatch is left, the context is stopped and the   *)
(* trace is filed under the lowest captured dispatch id.                   *)
(*                                                                         *)
(* The callback runs on the dispatching thread (phase ENTER) and on the    *)
(* completion thread (phase NONE).  Both first read isprofiling without a  *)
(* lock and then run one critical section on captured_ids, so each handler *)
(* is two actions, and either can be overtaken between them.               *)
(***************************************************************************)
EXTENDS KernelTarget

CONSTANTS
  ConsecutiveKernels,  \* config: att_consecutive_kernels
  MaxId                \* numeric_limits<uint64_t>::max(), above every dispatch id

ASSUME ConsecutiveAssumption == ConsecutiveKernels \in Nat \ {0}
ASSUME MaxIdAssumption == MaxId \in Nat /\ \A d \in Dispatch : d < MaxId

VARIABLES
  phase,           \* where the dispatch stands in the callback and on the device
  isprofiling,
  stop_profiling,
  num_consecutive, \* num_consecutive_kernels
  captured,        \* captured_ids
  min_dispatch,    \* att_consecutive_kernel_dispatch_id
  context,         \* TRUE while att_device_context is active
  filed,           \* att_filenames: a label per trace; members is history
  session,         \* history: the dispatches captured since the context started
  overtaken        \* history: the dispatches that asked to stop a window already closed

windowVars == <<phase, isprofiling, stop_profiling, num_consecutive, captured,
                min_dispatch, context, filed, session, overtaken>>

vars == <<targetVars, windowVars>>

-----------------------------------------------------------------------------
(* Mutant of IdleLabel: the id is cleared to 0. *)
ZeroLabel == 0

(* The value of att_consecutive_kernel_dispatch_id while nothing is traced. *)
IdleLabel == MaxId

AttInit ==
  /\ TargetInit
  /\ phase = [d \in Dispatch |-> "enter"]
  /\ isprofiling = FALSE
  /\ stop_profiling = FALSE
  /\ num_consecutive = 0
  /\ captured = {}
  /\ min_dispatch = IdleLabel
  /\ context = FALSE
  /\ filed = {}
  /\ session = {}
  /\ overtaken = {}

(* Dispatches whose ENTER callback is running. *)
Entering == {d \in Dispatch : pc[d] # "idle" /\ phase[d] \in {"enter", "window"}}

(* The SDK invokes the ENTER callback, which starts with is_targeted_kernel. *)
EnterCallback(d) ==
  /\ Cardinality(Entering) < Threads
  /\ \E k \in Kernel : DispatchKernel(d, k)
  /\ UNCHANGED windowVars

(* is_targeted_kernel, and the code object callback, as KernelTarget has them. *)
Targeting ==
  /\ \/ \E k \in Kernel : RegisterKernelSymbol(k)
     \/ \E d \in Dispatch : is_targeted_kernel(d)
  /\ UNCHANGED windowVars

(***************************************************************************)
(* ENTER, before the lock: return if the kernel is not targeted and        *)
(* nothing is being profiled.  The kernel is submitted on return.          *)
(***************************************************************************)
EnterCheck(d) ==
  /\ pc[d] = "answered"
  /\ phase[d] = "enter"
  /\ phase' = [phase EXCEPT ![d] = IF answer[d] \/ isprofiling THEN "window"
                                                               ELSE "running"]
  /\ UNCHANGED <<targetVars, isprofiling, stop_profiling, num_consecutive, captured,
                 min_dispatch, context, filed, session, overtaken>>

(* local_count: a targeted dispatch restarts the count of consecutive kernels. *)
LocalCount(d) == IF answer[d] THEN 0 ELSE num_consecutive

(* Mutants of WithinCount: one dispatch too many; the count is incremented first. *)
WithinCountInclusive(d) == LocalCount(d) <= ConsecutiveKernels
WithinCountPreIncrement(d) == LocalCount(d) + 1 < ConsecutiveKernels

(* A dispatch is captured while fewer than ConsecutiveKernels were counted before it. *)
WithinCount(d) == LocalCount(d) < ConsecutiveKernels

(* Mutant of LabelWith: the id of the last capture. *)
LabelOfLast(d) == d

(* The label is lowered to a captured dispatch's id. *)
LabelWith(d) == IF min_dispatch > d THEN d ELSE min_dispatch

(* ENTER, under the lock: what capturing a dispatch does. *)
Capture(d) ==
  /\ captured' = captured \cup {d}
  /\ min_dispatch' = LabelWith(d)
  /\ num_consecutive' = LocalCount(d) + 1
  /\ phase' = [phase EXCEPT ![d] = "running"]

(* ENTER, under the lock: a target starts the context; its own count is 0. *)
OpenWindow(d) ==
  /\ phase[d] = "window"
  /\ answer[d]
  /\ ~isprofiling
  /\ context' = TRUE
  /\ isprofiling' = TRUE
  /\ session' = {d}
  /\ Capture(d)
  /\ UNCHANGED <<targetVars, stop_profiling, filed, overtaken>>

(* ENTER, under the lock: a dispatch within the count of an open window. *)
CaptureDispatch(d) ==
  /\ phase[d] = "window"
  /\ isprofiling
  /\ WithinCount(d)
  /\ session' = session \cup {d}
  /\ Capture(d)
  /\ UNCHANGED <<targetVars, isprofiling, stop_profiling, context, filed, overtaken>>

(***************************************************************************)
(* ENTER, under the lock: a dispatch that is not captured, because the     *)
(* count is reached or because the window was closed after the unlocked    *)
(* check.  It still counts, and asks to stop once the count is reached,    *)
(* even when there is no window left to stop.                              *)
(***************************************************************************)
PassDispatch(d) ==
  /\ phase[d] = "window"
  /\ isprofiling => ~WithinCount(d)
  /\ isprofiling \/ ~answer[d]
  /\ num_consecutive' = LocalCount(d) + 1
  /\ stop_profiling' = (stop_profiling \/ ~WithinCount(d))
  /\ overtaken' = IF ~isprofiling /\ ~WithinCount(d) THEN overtaken \cup {d} ELSE overtaken
  /\ phase' = [phase EXCEPT ![d] = "running"]
  /\ UNCHANGED <<targetVars, isprofiling, captured, min_dispatch, context, filed, session>>

(* The kernel completes: phase NONE, before the lock. *)
FinishCheck(d) ==
  /\ phase[d] = "running"
  /\ phase' = [phase EXCEPT ![d] = IF isprofiling THEN "erase" ELSE "done"]
  /\ UNCHANGED <<targetVars, isprofiling, stop_profiling, num_consecutive, captured,
                 min_dispatch, context, filed, session, overtaken>>

(* Mutants of NoneLeft: no look at the ids left; return unless the id was captured. *)
NoneLeftUnchecked(d) == TRUE
NoneLeftIfCaptured(d) == d \in captured /\ captured \ {d} = {}

(* No captured dispatch is left once d's id is erased. *)
NoneLeft(d) == captured \ {d} = {}

(* Phase NONE, under the lock: dispatches are still captured, or nobody asked to stop,
   or the exchange of isprofiling fails. *)
EraseFinished(d) ==
  /\ phase[d] = "erase"
  /\ ~NoneLeft(d) \/ ~stop_profiling \/ ~isprofiling
  /\ captured' = captured \ {d}
  /\ phase' = [phase EXCEPT ![d] = "done"]
  /\ UNCHANGED <<targetVars, isprofiling, stop_profiling, num_consecutive,
                 min_dispatch, context, filed, session, overtaken>>

(* att_shader_data_callback: the trace is filed under the id of the global atomic. *)
FileTrace == filed' = filed \cup {[label |-> min_dispatch, members |-> session]}

(* Mutant of RequestAfterStop: the request is not reset. *)
RequestKept == stop_profiling

(* stop_profiling once the window has been stopped. *)
RequestAfterStop == FALSE

(***************************************************************************)
(* Phase NONE, under the lock: the last captured dispatch is gone and a    *)
(* stop was asked for.  rocprofiler_stop_context hands the trace to        *)
(* att_shader_data_callback, which files it under min_dispatch before the  *)
(* id is reset.                                                            *)
(***************************************************************************)
StopWindow(d) ==
  /\ phase[d] = "erase"
  /\ NoneLeft(d)
  /\ stop_profiling
  /\ isprofiling
  /\ captured' = captured \ {d}
  /\ isprofiling' = FALSE
  /\ context' = FALSE
  /\ FileTrace
  /\ stop_profiling' = RequestAfterStop
  /\ min_dispatch' = IdleLabel
  /\ session' = {}
  /\ phase' = [phase EXCEPT ![d] = "done"]
  /\ UNCHANGED <<targetVars, num_consecutive, overtaken>>

EnterLocked(d) == OpenWindow(d) \/ CaptureDispatch(d) \/ PassDispatch(d)

FinishLocked(d) == EraseFinished(d) \/ StopWindow(d)

AttNext ==
  \/ Targeting
  \/ \E d \in Dispatch :
       \/ EnterCallback(d)
       \/ EnterCheck(d)
       \/ EnterLocked(d)
       \/ FinishCheck(d)
       \/ FinishLocked(d)

AttSpec == AttInit /\ [][AttNext]_vars

(* A step of a callback that has begun, or of a kernel that has been submitted. *)
Progress(d) ==
  \/ is_targeted_kernel(d) /\ UNCHANGED windowVars
  \/ EnterCheck(d)
  \/ EnterLocked(d)
  \/ FinishCheck(d)
  \/ FinishLocked(d)

(***************************************************************************)
(* As long as a callback has begun and not returned, or a submitted kernel *)
(* has not completed, one of them goes on: threads are scheduled, locks    *)
(* are held for a bounded time and kernels end.  Nothing makes the         *)
(* application dispatch another kernel.                                    *)
(***************************************************************************)
AttFairness == WF_vars(\E d \in Dispatch : Progress(d))

AttFairSpec == AttSpec /\ AttFairness

-----------------------------------------------------------------------------
(* Types of the variables of the callback. *)
AttTypeOK ==
  /\ phase \in [Dispatch -> {"enter", "window", "running", "erase", "done"}]
  /\ isprofiling \in BOOLEAN
  /\ stop_profiling \in BOOLEAN
  /\ num_consecutive \in Nat
  /\ captured \subseteq Dispatch
  /\ min_dispatch \in Dispatch \cup {MaxId}
  /\ context \in BOOLEAN
  /\ filed \subseteq [label : Dispatch \cup {MaxId}, members : SUBSET Dispatch]
  /\ session \subseteq Dispatch
  /\ overtaken \subseteq Dispatch

(***************************************************************************)
(* The device context is never stopped under a captured dispatch, and the  *)
(* completion of a captured dispatch is never missed although the          *)
(* completion handler may return on an unlocked read of isprofiling: the   *)
(* captured ids are exactly the captured dispatches still on the device,   *)
(* and while there are any, the context is active.                         *)
(***************************************************************************)
CapturedAreTraced ==
  /\ captured = {d \in session : phase[d] \in {"running", "erase"}}
  /\ captured # {} => context
  /\ context <=> isprofiling

(***************************************************************************)
(* The label read by att_shader_data_callback is the lowest id captured    *)
(* since the context started, whatever the order in which dispatches enter *)
(* the callback, and it is the maximal id exactly when nothing is traced.  *)
(***************************************************************************)
LabelIsLowest ==
  IF isprofiling
    THEN min_dispatch \in session /\ \A d \in session : min_dispatch <= d
    ELSE min_dispatch = MaxId /\ session = {}

(***************************************************************************)
(* A window captures at most ConsecutiveKernels dispatches per targeted    *)
(* dispatch that fell into it.                                             *)
(***************************************************************************)
WindowBounded ==
  Cardinality(session) <= ConsecutiveKernels * Cardinality({d \in session : answer[d]})

(* Closed windows that hold fewer than ConsecutiveKernels dispatches. *)
CutShort == {w \in filed : Cardinality(w.members) < ConsecutiveKernels}

(* The open window was asked to stop before it was full. *)
BeingCutShort ==
  isprofiling /\ stop_profiling /\ Cardinality(session) < ConsecutiveKernels

(***************************************************************************)
(* What the unlocked read of isprofiling (version3/tool.cpp:1472) costs.   *)
(* A dispatch may find a window open, be overtaken by the end of it, and   *)
(* then ask to stop while nothing is traced; that request outlives it and  *)
(* stops the next window before it is full.  Every window that is cut      *)
(* short takes an overtaken dispatch of its own: a request cuts at most    *)
(* one window, and a window nobody was overtaken for is traced in full.    *)
(***************************************************************************)
CutsArePaid ==
  Cardinality(CutShort) + (IF BeingCutShort THEN 1 ELSE 0) <= Cardinality(overtaken)

(***************************************************************************)
(* Windows never hold more than the counts of their targeted dispatches,   *)
(* and hold less than one full count at most once per overtaken dispatch.  *)
(***************************************************************************)
WindowSizes == WindowBounded /\ CutsArePaid

(***************************************************************************)
(* Once a window was asked to stop it stops: the completions of the        *)
(* dispatches on the device cannot all return early or all find ids left.  *)
(***************************************************************************)
StopRequestServed == isprofiling /\ stop_profiling ~> ~isprofiling

(* The windows, as TraceWindow promises them. *)
Windows == INSTANCE TraceWindow WITH
  window <- session,
  running <- captured,
  filed <- filed

WindowsImplemented == Windows!Spec
=============================================================================
