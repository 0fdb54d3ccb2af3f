# Verification of the GPU profiler tools

TLA+ models, TLC runs and TLAPS proofs for the tools under `src/Codes`: libraries
that are loaded into a GPU application, observe its kernel dispatches through
ROCm's profiling interfaces and publish what they collected to an LDMS stream.

- `version3/tool.cpp` (v3) is a rocprofiler-sdk tool derived from rocprofv3. The SDK
  calls it back from the application's threads and from threads of its own.
  `version2/tool.cpp` (v2) is its earlier copy.
- `version1/tool.cpp` (v1) is a tool for the older rocprofiler interface, with
  `util/hsa_rsrc_factory.{h,cpp}` for the HSA runtime.

Every definition is translated from the source. What the repository only uses (the
SDK, the HSA runtime and packet processor, the kernel's signals, `SemaphoreGuard`,
LDMS) is modelled by what the code relies on, and is marked *external* in
`PROJECT.json`, whose `map` gives the source lines of each definition. `hazards` there
lists what is hard to test in this code, with the properties that would notice it
going wrong.

## 1. The system

### Versions 2 and 3

| Part | State | Operations | Module |
|---|---|---|---|
| Configuration and services (v3:1738-1879, 1922-2423) | contexts, services, who may start them, real or dummy callbacks | `tool_init`, `get_tracing_callbacks`, `configure_pc_sampling_on_all_agents` | `ToolServices` |
| Kernel renaming, stream correlation (v3:283-298, 458-673, 1009-1112, 1331-1403) | a stack of ranges and one of streams per thread, a struct per operation and context, pending records | marker, stream and pause/resume callbacks, `set_kernel_rename_and_stream_correlation_id`, `get_stream_id`, `pc_sampling_callback` | `RangeRename` |
| Kernel targeting (v3:315-360, 935-976) | `target_kernels`, `kernel_iteration`, each under a lock of its own | registration of kernel symbols, `is_targeted_kernel` (three critical sections) | `KernelTarget` |
| Counter collection (v3:1155-1270, 1527-1582) | counter configurations per agent, an atomic iteration count per agent, ring of records | `generate_agent_profiles`, `counter_dispatch_callback`, `counter_record_callback` | `CounterDispatch` |
| Consecutive-kernel thread trace (v3:1404-1526) | `isprofiling`, `stop_profiling`, `num_consecutive`, `captured_ids`, the label `min_dispatch`, a context | the ENTER and the completion callback, `att_shader_data_callback` | `AttConsecutive`, `TraceWindow` |
| Recording, output, context control (v3:369-456, 721-1061, 1881-1919, 2564-3018; v2:2557-2604) | two contexts, SDK buffers, one ring per domain, `process_end_ns`, collection periods | buffer callbacks, `flush`, `tool_attach`, `tool_detach`, `tool_fini`, `generate_output` | `OutputPipeline` |
| Lifecycle and signals (v3:1618-1644, 1723-1737, 3230-3366, 3478-3570) | chained handlers, the `once_flag`, client pointers | `rocprofv3_error_signal_handler`, the wrappers of `signal` and `sigaction`, `rocprofv3_main`, `finalize_rocprofv3` | `SignalHandling` |
| Peer synchronisation (v3:1646-1721) | a named semaphore per parent process | `wait_peer_finished` | `PeerSync` |
| Parsing, metadata, document formats | set up once, or written once | library code | not modelled |

How they meet. `tool_init` decides which contexts trace what: `RangeRename` EXTENDS
`ToolServices` and asks it, at each launch, who records. `is_targeted_kernel` is called
by the counter and by the trace callbacks: `CounterDispatch` and `AttConsecutive`
EXTEND `KernelTarget` and take its actions as they are. The records all of them
produce reach `OutputPipeline` as records of a domain. The signal handler calls
`wait_peer_finished` and then the finalization, of which `tool_fini` is the body:
`SignalHandling` keeps of them only when they start and end, `PeerSync` and
`OutputPipeline` what they do.

What is hard: callbacks on several threads with more than one lock each; flags read
without the lock and acted on under it; a struct handed through the SDK and freed on
another thread long after; four parties that start and stop a context without waiting
for each other; signals that interrupt the finalization they request; processes that
wait for each other.

What makes it correct: the dispatches that are asked for are the ones profiled; a
record carries the range and the stream of its launch; a trace window holds what it
claims to hold and ends; a record is published once, and in the right cycle; a signal
does not cut the output short; processes do not keep each other waiting.

### Version 1

| Part | State | Operations | Module |
|---|---|---|---|
| Context table | `context_array`, `context_count`, `context_collected`, `is_loaded`, one recursive mutex | `dispatch_callback`, `context_handler`, `destroy_callback`, `dump_context_array`, `OnLoadToolProp`, `rocprofiler_unload` | `ContextTable` |
| Pool mode and kernel names | `symbols_map_` with reference counts, `mutex_`, the entries of the profiling pool | `dispatch_callback_opt`, `context_pool_handler`, `hsa_ksymbol_cb` with `SetKernelNameRef`, `AcquireKernelNameRef`, `ReleaseKernelNameRef` | `KernelNames` |
| Factory object | `instance_`, agents and pools, `timeout_ns_` | `Instance`, `Create`, the constructor, `SetTimeoutNs`, `Destroy`, the agent queries | `HsaFactory` |
| Queue submission | the ring, its two indices, doorbell and completion signals | `Submit`, `SignalWait`, `SignalWaitRestore` | `AqlSubmit`, `PacketQueue` |

`OnLoadToolProp` chooses one of the two modes; they share the mutex and the counts,
but in pool mode the context table stays empty. `HsaClient` composes the last two
parts: a thread gets the factory before it may submit.

What is hard: threads that wait inside a critical section; a table deleted outside of
it; a mutex that is given back without having been taken, and one that is taken and
not given back; a ring that is filled without a lock; an object looked for without the
mutex it is built under. What makes it correct: each context is dumped once, when it
is ready, and none that was stored is lost; a name is not deleted while it is in use;
packets are taken up once, whole and in order; a wait ends with its command.

## 2. Modules

**KernelTarget** (with **TargetingProofs**). A process per dispatch. `LookupTarget`,
`CountIteration` and `JudgeIteration` are the three critical sections of
`is_targeted_kernel`; `RegisterKernelSymbol` is the code object callback followed by
`add_kernel_target`. Regular expressions are the sets `Included` and `Excluded`. The
history `ticket` is the count a dispatch produced, `crossed` the kernels two of whose
calls were between counting and judging at once. `Threads` bounds the callbacks that
run at the same time; no proof depends on it.

**CounterDispatch** (also in **TargetingProofs**). A targeted dispatch is given a
configuration by the atomic count of its agent; the configurations are built on the
first request. The vector `generate_agent_profiles` fills by `push_back` is stated by
position: its n-th element belongs to the n-th group the agent has counters of
(`Rank`). Counter values are left out; the comparison that decides about the warning is
kept.

**AttConsecutive** (with **AttConsecutiveProofs**) and **TraceWindow.** The unlocked
checks (`EnterCheck`, `FinishCheck`) and the critical sections (`OpenWindow`,
`CaptureDispatch`, `PassDispatch`, `EraseFinished`, `StopWindow`) are separate
actions. The shader data arrives inside `rocprofiler_stop_context`, so `FileTrace`
is part of `StopWindow`. The history `overtaken` holds the dispatches whose unlocked
check found a window open and that ask to stop after it was closed; nothing clears
it. `TraceWindow` states what the tracing promises, without flags, counts or locks;
`Windows == INSTANCE TraceWindow WITH ...` maps to it.

**ToolServices.** `tool_init` as one action: the services each context is given, as
sets computed from the configuration, which contexts `start_context` starts, how the
recording of the client context begins (`StartMode`), and the two configurations that
end the process. In three benchmark modes `get_tracing_callbacks` puts dummies in the
place of most callbacks (`DummyCallbacks`), while correlation ids are still requested.

**RangeRename** (with **RangeRenameProofs**). The application's threads open and
close ranges, call HIP on a stream, launch operations, pause and resume, and end; a
region is identified by the event that opened it. `Launch` is the request for a
correlation id, once per context that traces the operation, and the record that will
follow. `DeliverRecord` and `DeliverSample` happen at any later time. `log`,
`on_stream` and `wanted` say what the program did, independently of the stacks of
the tool.

**OutputPipeline** (with **OutputPipelineProofs**). A record is nowhere, in an SDK
buffer, in its ring, or cleared. `task` is what the SDK has the tool do (load,
detach, finalize; one at a time), `at` how far it is; `FlushOrder` is the order of
the steps of both. Whether the SDK stops the contexts when it detaches is left open,
and so is whether LDMS takes what is published. `version` is 2 or 3: they differ in
what counts as output. The JSON, Perfetto, rocpd and OTF2 documents are written
under one condition, each with the domains that `generate_output` hands to its
writer (`Omitted` names the others: no PC samples for Perfetto, rocpd and OTF2, no
counters for OTF2, no rocJPEG for rocpd). `traces` says that the decoder left a
thread trace, which counts as one more output (`NumOutput`); `att_filenames` is
never emptied, so later cycles count it too. The histories `born`, `steady`,
`published`, `unsent` and `documents` carry the properties. Resetting a ring clears
all of it.

**SignalHandling** (with **ProcessEndProofs**). `frames[t]` are the handlers nested
on a thread. `call_once` is `EnterOnce`, `SkipOnce` and their guards. Testing the
client pointers and starting the finalization is one step. A chained `sigaction` is
called unless it is the tool's own handler (v3:3318, 3332), a handler that `signal`
chained is called as it is; `ran` counts the calls of application handlers.

**PeerSync** (also in **ProcessEndProofs**). The parent forks and reaps as it likes.
Whether the destructor of `SemaphoreGuard` unlinks the name is left open
(`unlinks`).

**ContextTable** (with **ContextTableProofs**). A process per dispatch (its
callback, then its handler), queue destruction, unload and load. A critical section
is one action where it is bounded; a dump pass keeps the mutex from `BeginPass` to
`EndPass` and makes a step per entry. The early returns that keep the mutex are
`UnloadAgain` and `LoadAgain`. The runtime calls a handler when the kernel's record
is complete, and `rocprofiler_remove_queue_callbacks` does not wait for callbacks in
flight, as the wait for `valid` in the dump expects. `handler_on` is whether there
is an output directory.

**KernelNames** (with **KernelNamesProofs**). `FindSymbol` is the search without the
lock, `RefsDrained` and `LockUnused` the loop, the others its four outcomes, each with
the trailing unlock. Unlocking the recursive mutex of another thread fails with EPERM
and changes nothing (`Unlock`). Announcements come in any order, also out of place,
which the code answers with an abort; for one address they come one at a time. A dispatch
fetches an entry of the pool with or without `kernel_code` (`FetchEntry`): without, it
takes a reference (`AcquireKernelNameRef`); with, it takes none and leaves
`kernel_name_it` as the entry's last use left it (`KeepKernelNameRef`, v1:585), while the
handler reads and releases it in either case. `Dereferenced` is what that iterator may
now point to, as its node can be gone and its memory used by another; a read of it that
finds no node may end the process (`CrashDangling`). `taken` and `untaken` are the
references taken and the releases without one. A count below zero stands for the unsigned
one that has wrapped.

**AqlSubmit** (with **HsaClientProofs**) and **PacketQueue.** A thread takes a write
index, spins for room, fills its slot from the second dword on, stores the header, and
rings the doorbell; `SubmitOrder` is the order of these steps and `Proceed` the loop
over the packets of a command. `SignalWait` and `SignalRestore` follow. The packet
processor is external: it takes up packets in order from the slots it finds valid,
may go to sleep until the next doorbell, and completes packets in any order.
`PacketQueue` is a line of packets; `Queue == INSTANCE PacketQueue WITH ...` maps the
ring to it.

**HsaFactory.** `Instance` tests `instance_` without the mutex; `Create` is the locked
test, `AddAgent` one callback of `hsa_iterate_agents`, `Publish` the rest of the
constructor. A platform is a sequence of agents with their pools; one the constructor
cannot use aborts the process, and so does any call of the runtime that fails
(`RuntimeFails`). `SetTimeoutNs` comes before the object exists or after; the two convert
a time differently, and `LastTimeout` says what the object's must be. Time is in ticks of
the system clock.

**HsaClient** (also in **HsaClientProofs**). Threads of `AqlSubmit` are users of
`HsaFactory`, and submit only while they have the object.

The `MC*` modules only give values to constants.

## 3. Runs

| Run | Instance | What it shows |
|---|---|---|
| `counters` | 5 dispatches, 2 kernels, 2 agents, 2 callbacks at once, iterations {1, 2, 4}, 3 groups | no count is lost (`TicketsExact`); a dispatch may be judged on a later count than its own but is never profiled past the range, and the latest iteration is judged as itself (`RangeRespected`); calls that never cross are all judged exactly (`SerialCallsExact`); groups take turns, and missing counters are reported (`GroupsTakeTurns`, `MissingCountersWarned`) |
| `att_windows` | 5 dispatches, 2 callbacks at once, windows of 2 | ids, context and window agree (`CapturedAreTraced`), the label is the lowest id (`LabelIsLowest`), windows are never too large, and each that is cut short has its own dispatch that was overtaken by the end of another window (`WindowSizes`), refinement of `TraceWindow` (`WindowsImplemented`), a stop request is served (`StopRequestServed`) |
| `ctx_table` | 2 dispatches and a filtered one, 2 queues, 2 unloads, 2 loads, with and without output directory | indices, counts, dumps and losses: `IndexNeverRepeated`, `CollectedOnce`, `DumpedWhenReady`, `OnlyLateLost`, `QueueDrained` |
| `ctx_unload` | one queue, one unload | everything stored is dumped in the end (`StoredContextsDumped`) |
| `ctx_unload_race` | two unloads | **violated**: the second unload returns with the mutex (v1:974), and the first waits for it for ever |
| `output` | versions 2 and 3, 2 kernel dispatches, one of an unnamed kernel, a counter record and a PC sample, thread traces, the four formats, a collection period, pause and resume, one detach, finalization | `PublishedOnce`, and `DocumentsComplete` for the domains a format takes, of what was recorded while the contexts were left alone, whether LDMS takes the publication or not |
| `output_domains` | version 3, a kernel and a HIP record, one cycle | **violated**: only kernel dispatches are counted as output (v3:2679), so a cycle without them reports nothing |
| `rename` | 12 configurations, 2 threads, 4 calls of the application, 2 kinds of operations | a record carries the region and stream of its launch (`CorrelationExact`), the structs behind the correlation ids are freed once and by their own record (`InfosReturned`), exactly what was asked for is recorded (`RegionsOnly`), pops match pushes (`PopsMatchPushes`) |
| `signals` | 2 threads, 2 signals, 2 wrapped calls | output before death (`FinalizedAlive`), at most one handler of the application is called, once and after the finalization (`ChainedOnce`), a re-raised signal ends the process (`ReraiseEnds`) |
| `peers` | 3 children | nobody who shares its list with the others leaves early (`PeersCounted`), and the only endless waits are for a peer that did not post where one looks (`NoMutualWait`) |
| `names` | 2 addresses, 2 runtime threads, 3 announcements, 2 pool entries, 3 dispatches, each with or without a reference | a name in use is kept (`NameKept`), counts are the users less the releases without a reference (`RefsExact`), announcements return (`AnnouncementReturns`); the first and the last except for names whose count was lowered by such a release |
| `hsa` | 2 threads, a ring of 2 slots, 2 commands of up to 2 packets, 4 platforms, calls of the runtime that fail, timeouts up to `TIMESTAMP_MAX`, one `Destroy` | one factory (`ClientInv`) with complete tables, or an abort where it is due (`TablesComplete`); packets are taken up in line (`QueueImplemented`); a wait means done, and every command ends unless the process aborts (`WaitMeansDone`, `CommandsComplete`) |

Each passing run also checks the type invariant of its module, by itself or as a part
of another invariant. Every property of a passing run is violated by at least one
mutation of the code's own definitions (the operators marked "Mutant of" in the
modules, listed under `mutants`).

**Bounds.** Two threads are enough for the races in question, as each pairs an
unlocked step of one with a critical section of another; a third party (a third
dispatch, child or context) is there wherever one could overtake two others. Five
dispatches let a window of two fill, overflow and stop, a fourth one be overtaken by that
stop, and a second window open that its request cuts short; they also let two kernels
cross and a group of counters come round again. Three announcements let an address be
loaded, unloaded and loaded again, or one be loaded and unloaded while the other is
loaded; three dispatches let an entry be used with a reference and again without, while
the other has the name.
A ring of two slots is full when one of two commands of two packets is in it. Four
calls let a range open, a kernel be launched in it, the range close and the thread
leave before the record is delivered; or a region of code be resumed, used, paused and
used again. The configurations of `rename` have one for each way the client context
can be started, each benchmark, and each kind of context that traces a dispatch; its
threads are symmetric, as no action or property tells one from the other.
`ctx_table` was also checked with no dispatch filtered (10 million states). The
bounds that are not sizes of a set are `Threads`, `MaxCycles`, `MaxCalls`,
`MaxAnnounced`, `MaxDispatches`, `MaxActions`, `Commands` and `Destroys`; each stands in
the guard of the step it limits. Runs stop when their inputs are used up and therefore
switch the deadlock check off, except `names`, which says where the system may rest
(`Rest`).

**Fairness.** Always the same: a call that has begun goes on, a submitted kernel
completes, a raised signal arrives. Nothing makes the application dispatch, end,
unload or send a signal. It is weak except in `ContextTable`, where several threads
compete for the mutex: there it is strong, which says that a thread gets a mutex that
becomes free again and again. The waits in the code all poll or yield, so that those
threads do run. In `PeerSync` only a process past reading its peers is fair. In
`KernelNames` the bound on dispatches matters: an application that keeps dispatching
a kernel it is unloading could keep the count above zero. In `HsaClient` the threads
within `Submit` and its wait are fair, and the packet processor is. `AttConsecutive`
makes do with one condition, that some callback or kernel in progress goes on: each has
few steps, so all of them end when no more are dispatched.

## 4. Proofs

For all values of the constants, under the assumptions named next to them.

- `TargetingProofs`, of `KernelTarget`: `TargetTyping`, `TargetTickets`, `TargetRange`,
  `TargetSerial`. The inductive invariant `TargetInv` adds to the properties that a
  call between its count and its judgement holds a ticket, that the tickets of a kernel
  are distinct and each count has a holder, and that a count nobody crossed is still
  the call's own. `RangeAssumption` (iterations are natural numbers) is what the
  comparisons need; `Threads` is not used.
- `TargetingProofs`, of `CounterDispatch`: `CountersUseTargeting` (a behaviour of counter
  collection is one of `KernelTarget`, so the theorems above hold in it), `CounterTyping`,
  `GroupsRotate`, `MissingAreWarned`. `CounterInv` says how often each of an agent's
  configurations has been used after n requests: `Turns`, by the quotient and the remainder
  of n and the interval, and again of the quotient and the number of configurations. That
  one more request is one more turn of exactly one configuration is `TurnStep`; it needs
  that quotients and remainders are unique (`DivisionUnique`). That the configurations are
  numbered without a gap is `RankOnto`, by the least number (`LeastNumber`).
  `RotationAssumption`: the interval is not 0. `GroupAssumption`: groups are finite, which
  the comparison of the two numbers needs.
- `AttConsecutiveProofs`: `AttUsesTargeting` (every behaviour of the trace is one of
  `KernelTarget`, so its theorems carry over), `AttTyping`, `AttCaptured`, `AttLabel`,
  `AttWindowSizes`, and `AttImplementsWindows`. `AttInv` adds that only dispatches
  past their ENTER callback are members of a window: without it a dispatch could be
  captured twice. `SizeInv` bounds how far the count may be from the window, with one
  restart of the count for each targeted dispatch, and keeps the account of the windows
  cut short: a request that reaches a window before it is full (`Due`) was made by a
  dispatch that was overtaken, and the stop that serves it is reset with it, so that no
  two windows share one. `MaxIdAssumption`: no dispatch has
  the maximal id, which stands for "no label".
- `KernelNamesProofs`: `NamesAreKept`, `NamesCounted`. `NamesInv` says that a count is
  the number of its users less the releases without a reference, that a loader about to
  delete a name holds the lock and, if no such release had lowered it, saw the count at
  zero, and, until the tool aborts, that nodes and addresses correspond. As taking a
  reference needs the lock, nobody becomes a user in between. `NamesAssumption` makes
  the pool finite.
- `ContextTableProofs`: `TypeCorrect`, `DumpsAreReady`, `CollectedExactlyOnce`,
  `IndicesDiffer`, `OnlyLateEntriesLost`, `QueuesDrained`. `EntryInv` follows an entry from
  its allocation to its erasure: as long as it is in the table it is active or dumped, never
  both, so it is dumped once; with `CountInv` (the counts are the numbers of dispatches
  begun and dumped) the indices are distinct and the count of collected contexts is exact.
  `CallInv` is about the calls: a pass owns the mutex, nothing is loaded during an unload,
  and nobody dispatches to a queue that is being destroyed. From it follows `PassInv`: of
  the entries a pass is concerned with, those behind it are dumped, or were added after
  the tool was unloaded; this is what `OnlyLateLost` and `QueueDrained` say of its end. It
  would fail if an entry could be added under a pass.
- `OutputPipelineProofs`: `TypeCorrect`, `OfferedExactlyOnce`, `DocumentsHoldRecords`. The
  argument follows a record that was emitted while the contexts were left alone (and, for
  `DocumentsHoldRecords`, of a domain that the format takes):
  `RecordInv` (it is on its way in its own cycle, and if it is still in an SDK buffer, a
  flush is to come before the rings are read), `SnapshotInv` (while they are read, the
  snapshot holds such a record if its domain has been visited, and nothing that is not in
  a ring), `OfferedInv` and `DocumentInv` (what was offered or written is in the snapshot
  until the rings are cleared, and cleared from then on). Without the flush after the stop
  `RecordInv` is not inductive.
- `ProcessEndProofs`, of `SignalHandling`: `NotKilledUnfinalized`, `HandlerCalledOnce`.
  `HandlerInv` speaks of every handler nested on every thread, not only the top one: one
  that has come past `call_once` has seen the finalization end, or was interrupted in
  it, and a signal raised again is pending only then. With one `once_flag` for all
  signals only one handler finishes `call_once` and gets to the chained one, which is
  `HandlerCalledOnce`. `ThreadAssumption` tells threads from the states of the
  `once_flag`.
- `ProcessEndProofs`, of `PeerSync`: `PeersWaitForPosts`. A process that left had counted as
  many posts as it has peers, and a post is never taken back (`WaitedInv`); where all
  share one list, only peers have posted there, each once (`PosterInv`), so the posts it
  counted are those of its peers.
- `HsaClientProofs`, of `AqlSubmit`: `TypesKept`, `RingKept`, `QueueRefined` and
  `WaitsForCommand`, for every ring size, command length and number of threads.
  `RingInv` says that a slot with a valid header holds, whole, the packet of an index
  that is in line and within a ring's length of the read index, and that no thread still
  fills it. Two such indices in one slot are equal (a fact about remainders, proved as
  lemmas), so a thread that was let into its slot is alone there, and the header the
  processor meets at the read index is that of the next packet: this is the refinement
  of `PacketQueue`, by the map `QueueMap`. `CommandInv` says of each command that its
  signal still has its old value until the packet that carries it is complete; from it
  follows that a wait returns neither early nor with the value that aborts. Without
  `CommandAssumption` a command of no packet would wait for a signal nobody decrements.
- `HsaClientProofs`, of `HsaClient`: `ClientsSubmit` (a behaviour of the clients is one of
  `AqlSubmit`, so the refinement and `WaitMeansDone` hold for them) and `ClientsShareOne`.
  `FactoryInv` says which objects exist, depending on how far the owner of the mutex is:
  none while one deletes, the new one while one builds, and otherwise the one `instance_`
  points to. The test without the mutex can then only err in finding no object, which the
  test under it repairs. `FactoryAssumption` makes the largest time a number and keeps
  threads apart from "no thread".
- `HsaClientProofs`, of `HsaClient`: `ObjectsComplete`. `TablesInv` says of an object
  that is built, or that `instance_` points to, what its tables hold of the n agents
  added so far: `ListInv` (the agents of a type are listed in their order, and the entry
  of each says at which place), `PoolInv` (a pointer is set by the first CPU that has
  the pool, and NULL as long as there is none). One more agent keeps this
  (`AgentKeepsTables`); an abort happens only when an agent, or in the end a pool, is
  missing (`UsableIs`), or when a call of the runtime fails. A timeout of
  `TIMESTAMP_MAX` is kept by the constructor and converted by `SetTimeoutNs`; the
  theorem says which of the two holds. `PlatformAssumption`: a platform is a sequence of
  agents with their pools.
- `RangeRenameProofs`, of `RangeRename`: `TypeCorrect`, `PopsTakeTheirOwn`,
  `CorrelatedAtLaunch`, `StructsReturned`, `RecordsWhatIsWanted`. `ServiceInv`: the services
  are those of the configuration, and the client context is active exactly while recording
  is wanted. `StackInv` relates the stacks of the tool to what its thread did (`StackOf`):
  of a program that names its ranges and does not mark inside of them, the stack of ranges
  is the list of the live events in their order, the marks below and the open ranges on
  top, each at the height of its depth (`Stacked`); if ranges are only all named, it is
  at least as high as ranges are open, so that no pop finds it empty. `DepthStep`,
  `LiveStep` and `PlainStep` say what one more event does to depth, liveness and
  plainness. `RecordInv` carries this from the launch to the record: a struct says what the
  stacks said when its operation was launched, is the only one of its launch and context,
  and is there as long as a record that points to it is pending. Without the uniqueness
  the struct of one record could be freed with another. `ConfigAssumption` and
  `RenameAssumption` type the constants.

Each inductive invariant was checked by TLC on the instance of its run before it was
proved. Left to TLC: the liveness properties and with them `ReraiseEnds`, `NoMutualWait`
and `StopRequestServed` (TLAPS as used here has no rules for fairness and ENABLED). No
model uses a RECURSIVE operator.

## 5. Disagreements and known limits

Two runs show the code doing what its own comments deny; both are under `findings`:
the unload that keeps the mutex (`ctx_unload_race`) and the cycle without kernel
dispatches that is reported nowhere (`output_domains`).

The following are steps of the models, or noted under `hazards`. No property is
violated by them, mostly because no sentence of the repository promises the contrary:

- A targeted iteration is not profiled when its dispatch crosses a later one (v3:339).
- A full window whose dispatches have all finished stays open until another kernel is
  dispatched (v3:1516).
- A second `OnLoadToolProp` returns with the mutex (v1:804); a handler that waited
  while the tool was unloaded uses a deleted entry (v1:503).
- An interrupted finalization is cut short when the signal is raised again (v3:3568);
  `sigaction` with a plain handler is not chained (v3:3508), so that the application's
  handler is lost, and one that puts back the tool's own handler keeps the handler of
  whoever borrowed the signal chained. `signal` chains whatever it is given, also the
  tool's own handler (v3:3487), which then calls itself inside `call_once` and
  waits for itself; and what it installs is not reset when a signal arrives, so that the
  signal is raised again for ever. `ChainedOnce` says how often application handlers are called, not that each is.
- A dispatch that comes with its kernel code takes no reference to a name (v1:585), and
  its handler still reads and releases `kernel_name_it` as the last use of the pool entry
  left it (v1:514, 529): it may read another kernel's name, or a deleted one, and lower a
  count it has not raised. The count may then wrap, and the unloading of that kernel
  spins for ever; or it comes to zero under a user, whose name is deleted. `NameKept` and
  `AnnouncementReturns` name these cases, and `RefsExact` says by how much the count is off.
- A dispatch may ask to stop a trace window that has already ended (v3:1472, 1497); the
  next window is then stopped before it is full. `WindowSizes` bounds how many windows
  this costs. A dispatch whose unlocked check finds no window is neither counted nor
  captured by one that opens meanwhile.
- A timeout of `TIMESTAMP_MAX` set after the factory object exists is converted to ticks
  (h:519), one set before is not (cpp:164).
- The documents of a format leave out what its writer is not given: OTF2 counters and PC
  samples, Perfetto and rocpd PC samples, rocpd also rocJPEG (v3:2859-2920).
- Thread traces stay in `att_filenames` after a detach: each later cycle counts them as
  output again (v3:2803) and writes its documents even if it has no records.
- The end time survives a detach (v3:2975): the documents of later cycles carry the
  end of the first, although v3:2974 speaks of "this detachment cycle".
- The struct behind a correlation id is lost when no record follows the launch
  (v3:520): a thread trace without kernel trace, a dispatch whose counters are not
  collected, the benchmarks with dummy callbacks. `InfosReturned` names these cases.
- A pause stops the client context, not that of the counters (v3:552): with
  `selected_regions`, counters are recorded outside of the regions too. Without
  `marker_api_trace` there is no pause/resume context, and with `selected_regions`
  nothing is recorded at all.
- A mark is pushed like a range but nothing pops it; a range without a message is
  popped but not pushed (v3:601-623). `CorrelationExact` and `PopsMatchPushes` speak of
  programs that name their ranges and do not mark inside of them.
- `tool_init` only logs that it could not connect to LDMS (v3:1928), and
  `generate_output` that a publication failed (v3:2701): the dispatches are lost for
  the stream and stay in the documents.
- Version 2 publishes the head of its documents: of the CSV the first 4095 bytes
  (v2:2721), of the JSON as many as the writer object has (v2:2788).
- A symbol is inserted in `symbols_map_` without the lock.

## 6. Not modelled

- The aborts of `set_kernel_properties` about grid sizes. A tick is taken to be a whole
  number of nanoseconds, and a failing search for the pools of an agent to find none.
- HSA memory allocation and copies, code object loading, the AQL profile library and
  the executable interceptors: calls of the runtime that keep no state in the class.
- Parsing of the configuration, metadata, statistics, the layout of documents, the
  CSV files (written per domain, not under the condition of the others), the trace
  decoder: sequential code, or library code that is not in the repository.
- The publishing of version 2, see above; the rest of it is version 3's.
- `version1/tool-ldms.cpp`, which does not compile; the copies in `version1/util`.
- The scripts that start the LDMS daemons, and the example program.
- What other threads do with the factory after a `Destroy`, which nothing calls.

## 7. Plan

Done, in this order: `KernelTarget`, `AttConsecutive` over `TraceWindow`,
`ContextTable`, `OutputPipeline`, `SignalHandling`, `CounterDispatch`, `PeerSync`,
`KernelNames`, `AqlSubmit` over `PacketQueue`, `HsaFactory`, `HsaClient`,
`ToolServices`, `RangeRename`; proofs of the safety properties of all of them
(`ToolServices` has the one step `tool_init`, which is a step of `RangeRename`). Of the
properties the runs check, what is left is liveness, which stays with TLC.

To extend: a composition of `SignalHandling` and `OutputPipeline`, in which the handler
runs the real `tool_fini`, and records that are emitted while it is interrupted.
