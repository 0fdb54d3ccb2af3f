---------------------------- MODULE ContextTable ----------------------------
(***************************************************************************)
(* Version1's tool: the table of profiling contexts (context_array) and    *)
(* the threads that meet in it.  A dispatch callback allocates an entry,   *)
(* fills it without the lock and publishes it with `valid'; the completion *)
(* handler dumps and erases it; the destruction of a queue dumps what the  *)
(* queue left behind; and unloading the tool dumps everything and deletes  *)
(* the table.  One recursive mutex guards the table, except where it is    *)
(* not taken, or not given back.                                           *)
(*                                                                         *)
(* A process per context stands for its dispatch callback and then its     *)
(* completion handler, one per queue for its destroy callback, one per     *)
(* call of OnUnloadTool or destructor, and one per call of OnLoadToolProp. *)
(* Critical sections are one action where the lock is held for a bounded   *)
(* time; a dump pass waits inside its section and is one action per entry. *)
(***************************************************************************)
EXTENDS Naturals, FiniteSets

CONSTANTS
  Context,      \* profiled dispatches
  Queue,        \* HSA queues; a queue also names its destroy callback
  QueueOf,      \* the queue of a dispatch
  Rejected,     \* dispatches the GPU and kernel name filters reject
  Unloader,     \* calls of OnUnloadTool and destructor
  Loader,       \* calls of OnLoadToolProp
  HandlerModes, \* the settings of ROCP_OUTPUT_DIR considered, see handler_on
  TimestampOn,  \* ROCP_TIMESTAMP_ON: dispatches have a record to complete
  Nobody        \* the owner of a free mutex

ASSUME ContextAssumption == IsFiniteSet(Context) /\ Rejected \subseteq Context
ASSUME QueueAssumption == QueueOf \in [Context -> Queue]
ASSUME ModeAssumption == HandlerModes \subseteq BOOLEAN /\ TimestampOn \in BOOLEAN
ASSUME CallAssumption ==
  /\ Queue \cap Unloader = {} /\ Queue \cap Loader = {} /\ Unloader \cap Loader = {}
  /\ Nobody \notin Queue \cup Unloader \cup Loader

VARIABLES
  handler_on,  \* ROCP_OUTPUT_DIR is set: result file and completion handler
  is_loaded,
  callbacks,   \* the queue callbacks are registered with the runtime
  exists,      \* context_array # NULL
  table,       \* the contexts with an entry in context_array
  index,       \* entry->index
  active,      \* contexts with entry->active
  valid,       \* contexts with entry->valid
  count,       \* context_count
  collected,   \* context_collected
  owner,       \* who holds the mutex between two actions
  step,        \* where a context stands in its callback, the device, its handler
  stage,       \* where a destroy, unload or load call stands
  todo,        \* entries a dump pass has yet to visit
  again,       \* the pass met an incomplete entry (done == false)
  dumped,      \* history: contexts whose results were published
  late,        \* history: contexts allocated after the tool was unloaded
  lost         \* history: contexts whose entry was deleted before it was dumped

tableVars == <<exists, table, index, active, valid>>
countVars == <<count, collected, dumped>>
toolVars == <<handler_on, is_loaded, callbacks>>
passVars == <<todo, again>>
vars == <<tableVars, countVars, toolVars, passVars, owner, step, stage, late, lost>>

Dumper == Queue \cup Unloader
Caller == Dumper \cup Loader

-----------------------------------------------------------------------------
Init ==
  /\ handler_on \in HandlerModes
  /\ is_loaded = FALSE /\ callbacks = FALSE /\ exists = FALSE
  /\ table = {} /\ active = {} /\ valid = {}
  /\ index = [c \in Context |-> 0]
  /\ count = 0 /\ collected = 0
  /\ owner = Nobody
  /\ step = [c \in Context |-> "idle"]
  /\ stage = [p \in Caller |-> "start"]
  /\ todo = [p \in Dumper |-> {}]
  /\ again = [p \in Dumper |-> FALSE]
  /\ dumped = {} /\ late = {} /\ lost = {}

MutexFree == owner = Nobody

Become(c, s) == step' = [step EXCEPT ![c] = s]
Reach(p, s) == stage' = [stage EXCEPT ![p] = s]

(* A call of OnLoadToolProp or rocprofiler_unload is between its check and its end. *)
Loading == \E l \in Loader : stage[l] = "install"
Unloading == \E u \in Unloader : stage[u] \notin {"start", "done"}

-----------------------------------------------------------------------------
(* Loading.  The runtime does not load the tool while it is unloading it. *)

(* OnLoadToolProp, the critical section when the tool is not loaded. *)
LoadTool(l) ==
  /\ stage[l] = "start" /\ ~Unloading
  /\ MutexFree
  /\ ~is_loaded
  /\ is_loaded' = TRUE
  /\ Reach(l, "install")
  /\ UNCHANGED <<tableVars, countVars, passVars, handler_on, callbacks, owner, step, late, lost>>

(* OnLoadToolProp when the tool is already loaded: it returns with the mutex. *)
LoadAgain(l) ==
  /\ stage[l] = "start" /\ ~Loading /\ ~Unloading
  /\ MutexFree
  /\ is_loaded
  /\ owner' = l
  /\ Reach(l, "done")
  /\ UNCHANGED <<tableVars, countVars, passVars, toolVars, step, late, lost>>

(* OnLoadToolProp after its critical section: the table, then the callbacks. *)
InstallTool(l) ==
  /\ stage[l] = "install"
  /\ exists' = TRUE
  /\ callbacks' = TRUE
  /\ Reach(l, "done")
  /\ UNCHANGED <<table, index, active, valid, countVars, passVars, handler_on, is_loaded,
                 owner, step, late, lost>>

-----------------------------------------------------------------------------
(* Dispatch callbacks. *)

(* The runtime invokes dispatch_callback for a packet on an existing queue. *)
DispatchCallback(c) ==
  /\ step[c] = "idle"
  /\ callbacks
  /\ stage[QueueOf[c]] = "start"
  /\ Become(c, "enter")
  /\ UNCHANGED <<tableVars, countVars, passVars, toolVars, owner, stage, late, lost>>

(* The filter rejects the dispatch: next_context_count and nothing else. *)
CountRejected(c) ==
  /\ step[c] = "enter" /\ c \in Rejected
  /\ MutexFree
  /\ count' = count + 1
  /\ Become(c, "rejected")
  /\ UNCHANGED <<tableVars, collected, dumped, passVars, toolVars, owner, stage, late, lost>>

(* Mutants of NextIndex: the other counter; the count taken before counting. *)
CollectedSoFar == collected
CountBefore == count - 1

(* The index of a new entry: the count before this dispatch was counted. *)
NextIndex == count

(* alloc_context_entry: count and insert under the (recursive) mutex. *)
AllocEntry(c) ==
  /\ step[c] = "enter" /\ c \notin Rejected
  /\ MutexFree
  /\ exists
  /\ count' = count + 1
  /\ index' = [index EXCEPT ![c] = NextIndex]
  /\ table' = table \cup {c}
  /\ late' = IF is_loaded THEN late ELSE late \cup {c}
  /\ Become(c, "fill")
  /\ UNCHANGED <<exists, active, valid, collected, dumped, passVars, toolVars, owner,
                 stage, lost>>

(* alloc_context_entry after the table was deleted: it counts, and then inserts
   through NULL. *)
AllocNowhere(c) ==
  /\ step[c] = "enter" /\ c \notin Rejected
  /\ MutexFree
  /\ ~exists
  /\ count' = count + 1
  /\ Become(c, "strayed")
  /\ UNCHANGED <<tableVars, collected, dumped, passVars, toolVars, owner, stage, late, lost>>

(* dispatch_callback: the entry's data, ending with active; no lock is held. *)
FillEntry(c) ==
  /\ step[c] = "fill" /\ c \in table
  /\ active' = active \cup {c}
  /\ Become(c, "publish")
  /\ UNCHANGED <<exists, table, index, valid, countVars, passVars, toolVars, owner, stage,
                 late, lost>>

(* dispatch_callback: the store of valid; the packet is submitted on return. *)
PublishEntry(c) ==
  /\ step[c] = "publish" /\ c \in table
  /\ valid' = valid \cup {c}
  /\ Become(c, "running")
  /\ UNCHANGED <<exists, table, index, active, countVars, passVars, toolVars, owner, stage,
                 late, lost>>

(* dispatch_callback writes to an entry that was deleted with the table. *)
FillNowhere(c) ==
  /\ step[c] \in {"fill", "publish"} /\ c \notin table
  /\ Become(c, "strayed")
  /\ UNCHANGED <<tableVars, countVars, passVars, toolVars, owner, stage, late, lost>>

(* The kernel completes and the runtime sets record->complete. *)
CompleteKernel(c) ==
  /\ step[c] = "running"
  /\ Become(c, "complete")
  /\ UNCHANGED <<tableVars, countVars, passVars, toolVars, owner, stage, late, lost>>

-----------------------------------------------------------------------------
(* Dumping. *)

(* Mutant of Complete: the record is not looked at. *)
CompleteUnchecked(c) == TRUE

(* dump_context_entry publishes an entry whose record, if any, is complete. *)
Complete(c) == TimestampOn => step[c] = "complete"

(* dump_context_entry of the contexts S, which are at most one. *)
DumpAll(S) ==
  /\ collected' = collected + Cardinality(S)
  /\ dumped' = dumped \cup S
  /\ UNCHANGED count

(* Mutant of ToDump: dumps whatever is handed over. *)
ToDumpAlways(c) == {c}

(* What context_handler and dump_context_array dump of an entry: active ones. *)
ToDump(c) == {c} \cap active

(* context_handler: dump the entry if nobody did, and erase it. *)
HandleCompletion(c) ==
  /\ handler_on
  /\ step[c] = "complete" /\ c \in table
  /\ MutexFree
  /\ DumpAll(ToDump(c))
  /\ table' = table \ {c}
  /\ Become(c, "handled")
  /\ UNCHANGED <<exists, index, active, valid, passVars, toolVars, owner, stage, late, lost>>

(* context_handler for an entry that was deleted with the table: it reads freed
   memory, and dealloc_context_entry asserts context_array # NULL. *)
HandleOrphan(c) ==
  /\ handler_on
  /\ step[c] = "complete" /\ c \notin table
  /\ MutexFree
  /\ Become(c, "orphaned")
  /\ UNCHANGED <<tableVars, countVars, passVars, toolVars, owner, stage, late, lost>>

(* destroy_callback: the runtime destroys a queue nobody is dispatching to. *)
DestroyCallback(q) ==
  /\ stage[q] = "start"
  /\ callbacks
  /\ \A c \in Context : QueueOf[c] = q => step[c] \notin {"enter", "fill", "publish"}
  /\ Reach(q, "pass")
  /\ UNCHANGED <<tableVars, countVars, passVars, toolVars, owner, step, late, lost>>

(* dump_context_array: a pass takes the mutex and starts at the first entry. *)
BeginPass(p) ==
  /\ stage[p] = "pass"
  /\ MutexFree
  /\ owner' = p
  /\ todo' = [todo EXCEPT ![p] = table]
  /\ Reach(p, "scan")
  /\ UNCHANGED <<tableVars, countVars, toolVars, again, step, late, lost>>

(* Mutant of Concerns: the case queue == NULL is forgotten. *)
ConcernsQueueOnly(p, c) == QueueOf[c] = p

(* A destroy callback dumps its own queue's entries, an unloader everybody's. *)
Concerns(p, c) == p \in Unloader \/ QueueOf[c] = p

(* The pass waits for every entry to be published, also those of other queues. *)
Visitable(c) == c \in table /\ c \in valid

(* Mutant of Incomplete: the result of dump_context_entry is ignored. *)
IncompleteIgnored(due, ready) == FALSE

(* dump_context_entry returned false: the pass has to be repeated. *)
Incomplete(due, ready) == due # ready

(* Entries are visited in the order of their indices. *)
FirstOf(S) == {c \in S : \A d \in S : index[c] <= index[d]}

(* One entry of a pass: dump it, or note that the pass has to be repeated. *)
VisitEntry(p) ==
  \E c \in FirstOf(todo[p]) :
    /\ stage[p] = "scan"
    /\ Visitable(c)
    /\ LET due == {x \in ToDump(c) : Concerns(p, x)}
           ready == {x \in due : Complete(x)}
       IN  /\ DumpAll(ready)
           /\ active' = active \ ready
           /\ again' = [again EXCEPT ![p] = @ \/ Incomplete(due, ready)]
    /\ todo' = [todo EXCEPT ![p] = @ \ {c}]
    /\ UNCHANGED <<exists, table, index, valid, toolVars, owner, step, stage, late, lost>>

(* The pass meets an entry that was deleted with the table under its feet. *)
VisitNowhere(p) ==
  /\ stage[p] = "scan"
  /\ todo[p] # {} /\ todo[p] \cap table = {}
  /\ Reach(p, "strayed")
  /\ UNCHANGED <<tableVars, countVars, passVars, toolVars, owner, step, late, lost>>

(* The end of a pass: unlock, and repeat unless everything was dumped. *)
EndPass(p) ==
  /\ stage[p] = "scan"
  /\ todo[p] = {}
  /\ owner' = Nobody
  /\ again' = [again EXCEPT ![p] = FALSE]
  /\ Reach(p, IF again[p] THEN "pass" ELSE "dumped")
  /\ UNCHANGED <<tableVars, countVars, toolVars, todo, step, late, lost>>

dump_context_array(p) == BeginPass(p) \/ VisitEntry(p) \/ VisitNowhere(p) \/ EndPass(p)

-----------------------------------------------------------------------------
(* Unloading. *)

(* OnUnloadTool and destructor look at is_loaded before they call. *)
CallUnload(u) ==
  /\ stage[u] = "start" /\ ~Loading
  /\ is_loaded
  /\ Reach(u, "lock")
  /\ UNCHANGED <<tableVars, countVars, passVars, toolVars, owner, step, late, lost>>

(* rocprofiler_unload, the critical section. *)
UnloadTool(u) ==
  /\ stage[u] = "lock"
  /\ MutexFree
  /\ is_loaded
  /\ is_loaded' = FALSE
  /\ Reach(u, "remove")
  /\ UNCHANGED <<tableVars, countVars, passVars, handler_on, callbacks, owner, step, late, lost>>

(* rocprofiler_unload when another call unloaded first: it returns with the mutex. *)
UnloadAgain(u) ==
  /\ stage[u] = "lock"
  /\ MutexFree
  /\ ~is_loaded
  /\ owner' = u
  /\ Reach(u, "done")
  /\ UNCHANGED <<tableVars, countVars, passVars, toolVars, step, late, lost>>

(* rocprofiler_remove_queue_callbacks: callbacks in flight go on, as the wait for
   `valid' in the dump expects. *)
RemoveCallbacks(u) ==
  /\ stage[u] = "remove"
  /\ callbacks' = FALSE
  /\ Reach(u, "decide")
  /\ UNCHANGED <<tableVars, countVars, passVars, handler_on, is_loaded, owner, step, late, lost>>

(* Mutant of Outstanding: the comparison is reversed. *)
OutstandingReversed == handler_on \/ collected = count

(* With a result file there is always a dump, else only if the counts differ. *)
Outstanding == handler_on \/ collected # count

DecideDump(u) ==
  /\ stage[u] = "decide"
  /\ Reach(u, IF Outstanding THEN "pass" ELSE "dumped")
  /\ UNCHANGED <<tableVars, countVars, passVars, toolVars, owner, step, late, lost>>

(* rocprofiler_unload: the table is deleted, without the mutex. *)
DeleteTable(u) ==
  /\ stage[u] = "dumped"
  /\ exists' = FALSE
  /\ table' = {}
  /\ lost' = lost \cup (table \ dumped)
  /\ Reach(u, "done")
  /\ UNCHANGED <<index, active, valid, countVars, passVars, toolVars, owner, step, late>>

-----------------------------------------------------------------------------
(* What a dispatch callback that has begun does next. *)
CallbackStep(c) ==
  CountRejected(c) \/ AllocEntry(c) \/ AllocNowhere(c)
    \/ FillEntry(c) \/ PublishEntry(c) \/ FillNowhere(c)

HandlerStep(c) == HandleCompletion(c) \/ HandleOrphan(c)

UnloadStep(u) ==
  UnloadTool(u) \/ UnloadAgain(u) \/ RemoveCallbacks(u) \/ DecideDump(u) \/ DeleteTable(u)

Next ==
  \/ \E l \in Loader : LoadTool(l) \/ LoadAgain(l) \/ InstallTool(l)
  \/ \E c \in Context :
       DispatchCallback(c) \/ CallbackStep(c) \/ CompleteKernel(c) \/ HandlerStep(c)
  \/ \E q \in Queue : DestroyCallback(q)
  \/ \E p \in Dumper : dump_context_array(p)
  \/ \E u \in Unloader : CallUnload(u) \/ UnloadStep(u)

Spec == Init /\ [][Next]_vars

(***************************************************************************)
(* Calls that have begun go on, a kernel on the device completes, and its  *)
(* handler is called.  A thread that waits for the mutex gets it if it is  *)
(* free again and again; nothing makes the application dispatch, destroy a *)
(* queue, load or unload.                                                  *)
(***************************************************************************)
Fairness ==
  /\ \A c \in Context :
       SF_vars(CallbackStep(c)) /\ WF_vars(CompleteKernel(c)) /\ SF_vars(HandlerStep(c))
  /\ \A p \in Dumper : SF_vars(dump_context_array(p))
  /\ \A u \in Unloader : SF_vars(UnloadStep(u))
  /\ \A l \in Loader : WF_vars(InstallTool(l))

FairSpec == Spec /\ Fairness

-----------------------------------------------------------------------------
(* Types of the tool's variables and of the calls' control. *)
TypeOK ==
  /\ handler_on \in HandlerModes
  /\ is_loaded \in BOOLEAN /\ callbacks \in BOOLEAN /\ exists \in BOOLEAN
  /\ table \subseteq Context /\ active \subseteq Context /\ valid \subseteq Context
  /\ index \in [Context -> Nat]
  /\ count \in Nat /\ collected \in Nat
  /\ owner \in Caller \cup {Nobody}
  /\ step \in [Context -> {"idle", "enter", "rejected", "fill", "publish", "running",
                           "complete", "handled", "orphaned", "strayed"}]
  /\ stage \in [Caller -> {"start", "install", "lock", "remove", "decide", "pass", "scan",
                           "dumped", "done", "strayed"}]
  /\ todo \in [Dumper -> SUBSET Context]
  /\ again \in [Dumper -> BOOLEAN]
  /\ dumped \subseteq Context /\ late \subseteq Context /\ lost \subseteq Context

(***************************************************************************)
(* The abort in alloc_context_entry, "context_array corruption, index      *)
(* repeated", is out of reach: the count under the recursive mutex gives   *)
(* every entry an index of its own, also across filtered dispatches,       *)
(* erased entries and reloads.                                             *)
(***************************************************************************)
IndexNeverRepeated ==
  \A c, d \in table : index[c] < count /\ (index[c] = index[d] => c = d)

(***************************************************************************)
(* The handler, the destroy callback of the queue and every unloader may   *)
(* find the same entry: its results are published by one of them, and the  *)
(* count of collected contexts that unloading relies on is exact.          *)
(***************************************************************************)
CollectedOnce == collected = Cardinality(dumped) /\ collected <= count

(***************************************************************************)
(* An entry is dumped only when its dispatch callback published it and,    *)
(* with timestamps, its kernel completed: the abort in context_handler,    *)
(* "context is not complete", is out of reach too.                         *)
(***************************************************************************)
DumpedWhenReady ==
  \A c \in dumped :
    /\ c \in valid
    /\ TimestampOn => step[c] \in {"complete", "handled", "orphaned"}

(***************************************************************************)
(* Unloading deletes no results: an entry that goes down with the table    *)
(* undumped was allocated after is_loaded was cleared, by a callback that  *)
(* was in flight when the callbacks were removed.                          *)
(***************************************************************************)
OnlyLateLost == lost \subseteq late

(***************************************************************************)
(* When destroy_callback returns, every dispatch made on its queue has     *)
(* been dumped, by it or by its handler, although its passes also wait for *)
(* and step over the entries of other queues; the table may have been      *)
(* deleted by then.                                                        *)
(***************************************************************************)
QueueDrained ==
  \A c \in Context :
    /\ stage[QueueOf[c]] = "dumped"
    /\ step[c] \in {"running", "complete", "handled", "orphaned"}
    => c \in dumped \cup lost

(***************************************************************************)
(* The comment on dump_context_array (version1/tool.cpp:438), "Wait for    *)
(* and dump all stored contexts": what is stored in the table when the     *)
(* tool is unloaded is published in the end.                               *)
(***************************************************************************)
StoredContextsDumped ==
  \A c \in Context : c \in table /\ ~is_loaded /\ c \notin late ~> c \in dumped
=============================================================================
