---------------------------- MODULE KernelTarget ----------------------------
(***************************************************************************)
(* Which dispatches does version3's tool profile?  The answer is given by  *)
(* is_targeted_kernel, called from the dispatch callbacks of several       *)
(* application threads at once.  A kernel is targeted if its name passed   *)
(* the include/exclude filters when its code object was loaded; a targeted *)
(* kernel then counts its dispatches, and the answer depends on whether    *)
(* the count lies in the configured iteration range.                       *)
(*                                                                         *)
(* The function takes three locks one after the other: a read lock on      *)
(* target_kernels, a write lock on the caller's kernel_iteration to count, *)
(* and a read lock on kernel_iteration to read the count back.  Each       *)
(* critical section is one action here, so the calls of different          *)
(* dispatches interleave between them exactly as in the code.              *)
(*                                                                         *)
(* One process per dispatch: it is identified by the id the SDK gave it,   *)
(* and stands for the application thread that runs its dispatch callback.  *)
(***************************************************************************)
EXTENDS Naturals, FiniteSets

CONSTANTS
  Dispatch,             \* dispatch ids, handed out in increasing order
  Kernel,               \* kernel ids
  ZeroKernel,           \* the kernel id 0, known without a code object
  Included,             \* kernels whose name the include filter matches
  Excluded,             \* kernels whose name a (non-empty) exclude filter matches
  FilterRange,                \* the iterations asked for; {} when none was configured
  AdvancedThreadTrace,  \* config: advanced_thread_trace
  Threads               \* bound: dispatch callbacks that can run at once

ASSUME DispatchAssumption == Dispatch \subseteq Nat \ {0}
ASSUME KernelAssumption == ZeroKernel \in Kernel
ASSUME FilterAssumption == Included \subseteq Kernel /\ Excluded \subseteq Kernel
ASSUME RangeAssumption == FilterRange \subseteq Nat
ASSUME ModeAssumption == AdvancedThreadTrace \in BOOLEAN

VARIABLES
  symbols,    \* kernels registered with tool_metadata
  targets,    \* target_kernels: the targeted kernels, all with the same range
  iteration,  \* kernel_iteration: counted dispatches of a kernel, 0 = no entry
  pc,         \* where the dispatch's call of is_targeted_kernel stands
  kern,       \* the kernel of a dispatch
  answer,     \* what is_targeted_kernel returned
  ticket,     \* history: the count this dispatch produced itself, 0 = none
  crossed     \* history: kernels of which two calls were between count and judge

targetVars == <<symbols, targets, iteration, pc, kern, answer, ticket, crossed>>

-----------------------------------------------------------------------------
(* The include regex must match, and the exclude regex must not. *)
PassesFilters(k) == k \in Included /\ k \notin Excluded

(* The test is_targeted_kernel applies to the count it reads back. *)
InRange(n) ==
  \/ FilterRange = {} /\ (~AdvancedThreadTrace \/ n = 1)
  \/ n \in FilterRange

TargetInit ==
  /\ symbols = {ZeroKernel}
  /\ targets = {k \in {ZeroKernel} : PassesFilters(k)}
  /\ iteration = [k \in Kernel |-> 0]
  /\ pc = [d \in Dispatch |-> "idle"]
  /\ kern = [d \in Dispatch |-> ZeroKernel]
  /\ answer = [d \in Dispatch |-> FALSE]
  /\ ticket = [d \in Dispatch |-> 0]
  /\ crossed = {}

(***************************************************************************)
(* code_object_tracing_callback, kernel symbol LOAD: a symbol seen for the *)
(* first time is recorded, and becomes a target if it passes the filters.  *)
(* A duplicate changes nothing.                                            *)
(***************************************************************************)
RegisterKernelSymbol(k) ==
  /\ k \notin symbols
  /\ symbols' = symbols \cup {k}
  /\ targets' = targets \cup {x \in {k} : PassesFilters(x)}
  /\ UNCHANGED <<iteration, pc, kern, answer, ticket, crossed>>

(* Dispatches whose callback is inside is_targeted_kernel. *)
Calling == {d \in Dispatch : pc[d] \in {"lookup", "count", "judge"}}

(***************************************************************************)
(* A thread dispatches a kernel: the SDK takes the next dispatch id and    *)
(* invokes the tool's callback, which calls is_targeted_kernel.            *)
(***************************************************************************)
DispatchKernel(d, k) ==
  /\ pc[d] = "idle"
  /\ \A e \in Dispatch : e < d => pc[e] # "idle"
  /\ Cardinality(Calling) < Threads
  /\ k \in symbols
  /\ kern' = [kern EXCEPT ![d] = k]
  /\ pc' = [pc EXCEPT ![d] = "lookup"]
  /\ UNCHANGED <<symbols, targets, iteration, answer, ticket, crossed>>

(* is_targeted_kernel, read lock on target_kernels. *)
LookupTarget(d) ==
  /\ pc[d] = "lookup"
  /\ pc' = [pc EXCEPT ![d] = IF kern[d] \in targets THEN "count" ELSE "answered"]
  /\ UNCHANGED <<symbols, targets, iteration, kern, answer, ticket, crossed>>

(* Mutants of NextCount: the count runs down; the entry is emplaced anew each time. *)
DecrementedCount(k) == iteration[k] - 1
EmplacedCount(k) == 1

(* The entry of a kernel is emplaced with 1, or incremented. *)
NextCount(k) == iteration[k] + 1

(* is_targeted_kernel, write lock on kernel_iteration. *)
CountIteration(d) ==
  /\ pc[d] = "count"
  /\ iteration' = [iteration EXCEPT ![kern[d]] = NextCount(kern[d])]
  /\ ticket' = [ticket EXCEPT ![d] = iteration[kern[d]] + 1]
  /\ crossed' = IF \E e \in Dispatch : pc[e] = "judge" /\ kern[e] = kern[d]
                THEN crossed \cup {kern[d]} ELSE crossed
  /\ pc' = [pc EXCEPT ![d] = "judge"]
  /\ UNCHANGED <<symbols, targets, kern, answer>>

(* Mutants of JudgedCount: the count before the increment; one count for all kernels. *)
CountBefore(d) == iteration[kern[d]] - 1
CountOfAllKernels(d) == Cardinality({e \in Dispatch : ticket[e] # 0})

(* The count that is judged: the kernel's entry as it is now. *)
JudgedCount(d) == iteration[kern[d]]

(* is_targeted_kernel, read lock on kernel_iteration. *)
JudgeIteration(d) ==
  /\ pc[d] = "judge"
  /\ answer' = [answer EXCEPT ![d] = InRange(JudgedCount(d))]
  /\ pc' = [pc EXCEPT ![d] = "answered"]
  /\ UNCHANGED <<symbols, targets, iteration, kern, ticket, crossed>>

is_targeted_kernel(d) == LookupTarget(d) \/ CountIteration(d) \/ JudgeIteration(d)

TargetNext ==
  \/ \E k \in Kernel : RegisterKernelSymbol(k)
  \/ \E d \in Dispatch, k \in Kernel : DispatchKernel(d, k)
  \/ \E d \in Dispatch : is_targeted_kernel(d)

(***************************************************************************)
(* counter_dispatch_callback and att_dispatch_callback keep no state of    *)
(* their own: a dispatch is profiled iff the answer is TRUE.               *)
(***************************************************************************)
TargetSpec == TargetInit /\ [][TargetNext]_targetVars

Profiled == {d \in Dispatch : answer[d]}

Counted(k) == {d \in Dispatch : ticket[d] # 0 /\ kern[d] = k}

-----------------------------------------------------------------------------
(* Types of the variables of is_targeted_kernel and its callers. *)
TargetTypeOK ==
  /\ symbols \subseteq Kernel
  /\ targets \subseteq symbols
  /\ iteration \in [Kernel -> Nat]
  /\ pc \in [Dispatch -> {"idle", "lookup", "count", "judge", "answered"}]
  /\ kern \in [Dispatch -> Kernel]
  /\ answer \in [Dispatch -> BOOLEAN]
  /\ ticket \in [Dispatch -> Nat]
  /\ crossed \subseteq Kernel

(***************************************************************************)
(* No count is lost or handed out twice, however the callbacks interleave: *)
(* the dispatches of a kernel that were counted hold the tickets           *)
(* 1..iteration, each exactly once.                                        *)
(***************************************************************************)
TicketsExact ==
  \A k \in Kernel :
    /\ \A i \in 1..iteration[k] : \E d \in Counted(k) : ticket[d] = i
    /\ \A d \in Counted(k) : ticket[d] <= iteration[k]
    /\ \A d, e \in Counted(k) : ticket[d] = ticket[e] => d = e

(***************************************************************************)
(* The count and the test are two critical sections, so a dispatch may be  *)
(* judged on a later count than its own, but never on an earlier one: a    *)
(* dispatch that was issued after the range's last iteration is never      *)
(* profiled, and with advanced_thread_trace and no range only the first    *)
(* dispatch of a kernel can be.                                            *)
(***************************************************************************)
NeverPastRange ==
  \A d \in Profiled :
    \/ \E i \in FilterRange : ticket[d] <= i
    \/ FilterRange = {} /\ (AdvancedThreadTrace => ticket[d] = 1)

(***************************************************************************)
(* The most recent iteration is always judged as itself: once nobody is    *)
(* between counting and judging kernel k, an iteration that is in range    *)
(* has a profiled dispatch, and it is the dispatch that produced it.       *)
(***************************************************************************)
LatestIterationJudged ==
  \A d \in Dispatch :
    pc[d] = "answered" /\ ticket[d] # 0 /\ ticket[d] = iteration[kern[d]]
      => (answer[d] <=> InRange(ticket[d]))

(***************************************************************************)
(* What concurrent calls cannot take from the range: no dispatch beyond it *)
(* is profiled, and the latest iteration is judged as itself.              *)
(***************************************************************************)
RangeRespected == NeverPastRange /\ LatestIterationJudged

(***************************************************************************)
(* As long as no two calls for a kernel were ever in flight together,      *)
(* exactly the dispatches of the configured iterations are profiled.       *)
(***************************************************************************)
SerialCallsExact ==
  \A d \in Dispatch :
    pc[d] = "answered" /\ ticket[d] # 0 /\ kern[d] \notin crossed
      => (answer[d] <=> InRange(ticket[d]))
=============================================================================
