--------------------------- MODULE OutputPipeline ---------------------------
(***************************************************************************)
(* The way of a record through the tool: the SDK emits it while its        *)
(* context is active; buffered records wait in an SDK buffer until the     *)
(* buffer's callback, or flush, writes them to the ring of their domain,   *)
(* markers and counters are written there directly; detaching and          *)
(* finalizing read the rings, publish the kernel dispatches to LDMS, write *)
(* the documents (JSON, Perfetto, rocpd, OTF2, all under one condition,    *)
(* each with the domains its writer takes), and clear the rings.           *)
(*                                                                         *)
(* Contexts are started and stopped by four parties: tool_init and         *)
(* tool_attach, the pause/resume markers, the detached collection period   *)
(* thread, and tool_fini.  None of them waits for the others.              *)
(*                                                                         *)
(* The lines are those of version3; version2 is the same program but for   *)
(* what it counts as output.  What version2 publishes is left out: it is   *)
(* the head of a document, cut off at a fixed length.  So are the CSV      *)
(* files, which are written per domain.                                    *)
(***************************************************************************)
EXTENDS Naturals, FiniteSets

CONSTANTS
  Versions,        \* the versions of the tool to consider
  Record,          \* the records the application can cause
  Domain,          \* the domains whose services are enabled
  DomainOf,        \* the domain of a record
  KernelDispatch,  \* domain_type::KERNEL_DISPATCH
  Counters,        \* domain_type::COUNTER_COLLECTION, which has a context of its own
  Direct,          \* domains written to the ring without an SDK buffer
  Samples,         \* the two PC sampling domains, if enabled
  Jpeg,            \* the rocJPEG domain, if enabled
  Formats,         \* config: the documents wanted, of json, pftrace, rocpd and otf2
  ThreadTrace,     \* config: advanced_thread_trace
  Unnamed,         \* dispatches of kernels whose symbol is not in the metadata
  PauseControl,    \* config: marker_api_trace, which creates the pause/resume context
  StartMode,       \* how tool_init starts the client context
  Periods,         \* collection periods configured
  MinOutput,       \* config: minimum_output_bytes, counted in records
  MaxCycles        \* bound: detach cycles

ASSUME DomainAssumption ==
  /\ DomainOf \in [Record -> Domain] /\ Direct \subseteq Domain /\ IsFiniteSet(Record)
  /\ Unnamed \subseteq {r \in Record : DomainOf[r] = KernelDispatch}
  /\ Formats \subseteq {"json", "pftrace", "rocpd", "otf2"} /\ ThreadTrace \in BOOLEAN
ASSUME StartAssumption ==
  /\ StartMode \in {"now", "regions", "periods"} /\ Periods \in Nat /\ MinOutput \in Nat
  /\ PauseControl \in BOOLEAN /\ Versions \subseteq {2, 3}

VARIABLES
  version,      \* of the tool, 2 or 3
  task,         \* "load", "none", "detach", "fini" or "over"
  at,           \* the step the task has reached
  active,       \* the client context records
  counting,     \* the counter collection context records
  periods,      \* collection periods left
  in_period,    \* the period thread has started the context
  where,        \* "none", "buffer", "ring" or "cleared", per record
  unread,       \* domains generate_output has yet to visit
  snapshot,     \* records the generators read
  outdata,      \* num_output and num_bytes, the latter in records
  traces,       \* att_filenames is not empty
  end_ns,       \* process_end_ns: the cycle it was set in, 0 = not set
  cycle,        \* history: 1 + the completed detach or finalization cycles
  born,         \* history: the cycle a record was emitted in
  steady,       \* history: records emitted while the contexts were left alone
  published,    \* history: how often a record went to the LDMS stream
  unsent,       \* history: how often its publication failed
  documents     \* history: the documents written

recordVars == <<where, born, steady>>
ctxVars == <<active, counting, periods, in_period>>
genVars == <<unread, snapshot, outdata>>
outVars == <<published, unsent, documents>>
vars == <<version, task, at, ctxVars, recordVars, genVars, traces, end_ns, cycle, outVars>>

-----------------------------------------------------------------------------
NoOutput == [num_output |-> 0, num_bytes |-> 0]

Init ==
  /\ version \in Versions
  /\ task = "load" /\ at = "idle"
  /\ active = FALSE /\ counting = FALSE
  /\ periods = Periods /\ in_period = FALSE
  /\ where = [r \in Record |-> "none"]
  /\ unread = {} /\ snapshot = {} /\ outdata = NoOutput
  /\ traces = FALSE
  /\ end_ns = 0 /\ cycle = 1
  /\ born = [r \in Record |-> 0]
  /\ steady = {}
  /\ published = [r \in Record |-> 0]
  /\ unsent = [r \in Record |-> 0]
  /\ documents = {}

(* tool_init: the counter context starts at once, the client context unless it is
   left to the markers or to the period thread. *)
tool_init ==
  /\ task = "load"
  /\ task' = "none"
  /\ counting' = (Counters \in Domain)
  /\ active' = (StartMode = "now")
  /\ UNCHANGED <<version, at, periods, in_period, recordVars, genVars, traces, end_ns, cycle,
                 outVars>>

(* tool_attach: start every context that is not active. *)
tool_attach ==
  /\ task = "none"
  /\ active' = TRUE
  /\ counting' = (Counters \in Domain)
  /\ UNCHANGED <<version, task, at, periods, in_period, recordVars, genVars, traces,
                 end_ns, cycle, outVars>>

(* cntrl_tracing_callback: roctxProfilerPause and roctxProfilerResume. *)
PauseResume ==
  /\ PauseControl /\ task # "load"
  /\ active' = ~active
  /\ UNCHANGED <<version, task, at, counting, periods, in_period, recordVars, genVars,
                 traces, end_ns, cycle, outVars>>

(* collection_period_cntrl: the detached thread starts the context for a period ... *)
StartPeriod ==
  /\ StartMode = "periods" /\ task # "load"
  /\ periods > 0 /\ ~in_period
  /\ in_period' = TRUE
  /\ active' = TRUE
  /\ UNCHANGED <<version, task, at, counting, periods, recordVars, genVars, traces,
                 end_ns, cycle, outVars>>

(* Mutant of PeriodsLeft: the queue is popped twice. *)
PeriodsPoppedTwice == periods - 2

PeriodsLeft == periods - 1

(* ... and stops it. *)
StopPeriod ==
  /\ in_period
  /\ in_period' = FALSE
  /\ periods' = PeriodsLeft
  /\ active' = FALSE
  /\ UNCHANGED <<version, task, at, counting, recordVars, genVars, traces, end_ns, cycle,
                 outVars>>

-----------------------------------------------------------------------------
Recording(r) == IF DomainOf[r] = Counters THEN counting ELSE active

(* Nobody is detaching or has stopped the contexts to finalize. *)
LeftAlone == task = "none" \/ (task = "fini" /\ at \in {"stamp", "flush", "stop"})

(* callback_tracing_callback and counter_record_callback write to the ring, the
   buffered services to their SDK buffer. *)
EmitRecord(r) ==
  /\ where[r] = "none" /\ Recording(r)
  /\ where' = [where EXCEPT ![r] = IF DomainOf[r] \in Direct THEN "ring" ELSE "buffer"]
  /\ born' = [born EXCEPT ![r] = cycle]
  /\ steady' = IF LeftAlone THEN steady \cup {r} ELSE steady
  /\ UNCHANGED <<version, task, at, ctxVars, genVars, traces, end_ns, cycle, outVars>>

(* att_shader_data_callback: a thread trace is in its file.  Nothing ever empties
   att_filenames. *)
TraceWritten ==
  /\ ThreadTrace /\ task # "load"
  /\ ~traces
  /\ traces' = TRUE
  /\ UNCHANGED <<version, task, at, ctxVars, recordVars, genVars, end_ns, cycle, outVars>>

(* The records S are moved from the SDK buffers to the rings. *)
Deliver(S) == where' = [r \in Record |-> IF r \in S THEN "ring" ELSE where[r]]

Buffered == {r \in Record : where[r] = "buffer"}

(* buffered_tracing_callback on the buffer's own thread: a domain's buffer reached
   its watermark. *)
BufferCallback(d) ==
  /\ \E r \in Buffered : DomainOf[r] = d
  /\ Deliver({r \in Buffered : DomainOf[r] = d})
  /\ UNCHANGED <<version, task, at, ctxVars, born, steady, genVars, traces, end_ns, cycle,
                 outVars>>

(* code_object_tracing_callback: unloading a code object flushes every buffer. *)
UnloadCodeObject ==
  /\ Buffered # {}
  /\ Deliver(Buffered)
  /\ UNCHANGED <<version, task, at, ctxVars, born, steady, genVars, traces, end_ns, cycle,
                 outVars>>

-----------------------------------------------------------------------------
(* Detaching and finalizing, step by step; the SDK runs one of them at a time. *)

(* Mutant of FlushOrder: finalizing does not flush again after the stop. *)
FlushOrderOnce(t) ==
  [flush |-> IF t = "fini" THEN "stop" ELSE "stamp",
   stop |-> "generate",
   flush_again |-> "generate",
   stamp |-> IF t = "fini" THEN "flush" ELSE "generate"]

(* tool_detach flushes and stamps; tool_fini stamps, flushes, stops and flushes again. *)
FlushOrder(t) ==
  [flush |-> IF t = "fini" THEN "stop" ELSE "stamp",
   stop |-> "flush_again",
   flush_again |-> "generate",
   stamp |-> IF t = "fini" THEN "flush" ELSE "generate"]

Continue == at' = FlushOrder(task)[at]

(* The SDK detaches the tool, having stopped its contexts or not. *)
BeginDetach ==
  /\ task = "none" /\ cycle <= MaxCycles
  /\ task' = "detach" /\ at' = "flush"
  /\ active' \in {active, FALSE}
  /\ counting' \in {counting, FALSE}
  /\ UNCHANGED <<version, periods, in_period, recordVars, genVars, traces, end_ns, cycle,
                 outVars>>

(* The SDK finalizes the tool. *)
BeginFini ==
  /\ task = "none"
  /\ task' = "fini" /\ at' = "stamp"
  /\ UNCHANGED <<version, ctxVars, recordVars, genVars, traces, end_ns, cycle, outVars>>

(* flush: every buffer's callback has run for every record when it returns. *)
flush ==
  /\ at \in {"flush", "flush_again"}
  /\ Deliver(Buffered)
  /\ Continue
  /\ UNCHANGED <<version, task, ctxVars, born, steady, genVars, traces, end_ns, cycle, outVars>>

(* process_end_ns is set unless it was set before. *)
StampEnd ==
  /\ at = "stamp"
  /\ end_ns' = IF end_ns = 0 THEN cycle ELSE end_ns
  /\ Continue
  /\ UNCHANGED <<version, task, ctxVars, recordVars, genVars, traces, cycle, outVars>>

(* tool_fini stops the client context, and only that one. *)
StopClientContext ==
  /\ at = "stop"
  /\ active' = FALSE
  /\ Continue
  /\ UNCHANGED <<version, task, counting, periods, in_period, recordVars, genVars, traces,
                 end_ns, cycle, outVars>>

(* generate_output(cleanup_mode): the buffered outputs of all domains. *)
BeginGenerate ==
  /\ at = "generate"
  /\ at' = "read"
  /\ unread' = Domain /\ snapshot' = {} /\ outdata' = NoOutput
  /\ UNCHANGED <<version, task, ctxVars, recordVars, traces, end_ns, cycle, outVars>>

RingOf(d) == {r \in Record : where[r] = "ring" /\ DomainOf[r] = d}

(* generate_output(buffered_output) of version3: what is below `if constexpr' is done for
   kernel dispatches only, and not for an empty generator. *)
CountsInVersion3(d) == d = KernelDispatch /\ RingOf(d) # {}

(* Mutant of CountsInVersion2: the condition of version3. *)
CountsKernelsOnly(d) == d = KernelDispatch /\ RingOf(d) # {}

(* generate_output(buffered_output) of version2. *)
CountsInVersion2(d) == RingOf(d) # {}

CountsAsOutput(d) == IF version = 2 THEN CountsInVersion2(d) ELSE CountsInVersion3(d)

(* Mutant of RowsOf: the first row without a symbol ends the document. *)
RowsOfCut(d) == IF RingOf(d) \cap Unnamed = {} THEN RingOf(d) ELSE {}

(* get_kernel_dispatch_csv_string: a row for every dispatch whose symbol is known. *)
RowsOf(d) == RingOf(d) \ Unnamed

Counted(f, S) == [r \in Record |-> IF r \in S THEN f[r] + 1 ELSE f[r]]

(* generate_output(buffered_output): read the ring; publish and count dispatches.  If
   ldmsd_stream_publish fails, the rows are not sent again. *)
ReadDomain(d) ==
  /\ at = "read" /\ d \in unread
  /\ unread' = unread \ {d}
  /\ snapshot' = snapshot \cup RingOf(d)
  /\ outdata' = IF CountsAsOutput(d)
                  THEN [num_output |-> outdata.num_output + 1,
                        num_bytes |-> outdata.num_bytes + Cardinality(RingOf(d))]
                  ELSE outdata
  /\ IF version = 3 /\ CountsAsOutput(d)
       THEN \/ published' = Counted(published, RowsOf(d)) /\ UNCHANGED unsent
            \/ unsent' = Counted(unsent, RowsOf(d)) /\ UNCHANGED published
       ELSE UNCHANGED <<published, unsent>>
  /\ UNCHANGED <<version, task, at, ctxVars, recordVars, traces, end_ns, cycle, documents>>

(* The domains whose generators the writer of a format is not given. *)
Omitted(format) ==
  CASE format = "json"    -> {}
    [] format = "pftrace" -> Samples
    [] format = "rocpd"   -> Samples \cup Jpeg
    [] format = "otf2"    -> Samples \cup {Counters}

DocumentOf(format) ==
  [format |-> format, cycle |-> cycle, end_ns |-> end_ns,
   members |-> {r \in snapshot : DomainOf[r] \notin Omitted(format)}]

(* num_output, in which the thread traces count as one domain more. *)
NumOutput == outdata.num_output + IF traces THEN 1 ELSE 0

(* generate_output(cleanup_mode): the documents, from all generators. *)
WriteDocuments ==
  /\ at = "read" /\ unread = {}
  /\ at' = "cleanup"
  /\ documents' = IF NumOutput > 0 /\ outdata.num_bytes >= MinOutput
                   THEN documents \cup {DocumentOf(format) : format \in Formats}
                   ELSE documents
  /\ UNCHANGED <<version, task, ctxVars, recordVars, genVars, traces, end_ns, cycle, published,
                 unsent>>

(* Mutant of Cleared: the cleanup mode reset leaves the rings as they are. *)
ClearedUnlessReset == {r \in Record : where[r] = "ring" /\ task = "fini"}

(* run_cleanup resets, or destroys, the rings of all domains with all they hold. *)
Cleared == {r \in Record : where[r] = "ring"}

RunCleanup ==
  /\ at = "cleanup"
  /\ where' = [r \in Record |-> IF r \in Cleared THEN "cleared" ELSE where[r]]
  /\ cycle' = cycle + 1
  /\ at' = "idle"
  /\ task' = IF task = "fini" THEN "over" ELSE "none"
  /\ UNCHANGED <<version, ctxVars, born, steady, genVars, traces, end_ns, outVars>>

generate_output ==
  BeginGenerate \/ (\E d \in Domain : ReadDomain(d)) \/ WriteDocuments \/ RunCleanup

Next ==
  \/ tool_init \/ tool_attach
  \/ PauseResume \/ StartPeriod \/ StopPeriod
  \/ \E r \in Record : EmitRecord(r)
  \/ TraceWritten
  \/ \E d \in Domain : BufferCallback(d)
  \/ UnloadCodeObject
  \/ BeginDetach \/ BeginFini
  \/ flush \/ StampEnd \/ StopClientContext
  \/ generate_output

Spec == Init /\ [][Next]_vars

-----------------------------------------------------------------------------
(* Records of completed cycles that nobody's detaching or stopping overtook. *)
Settled == {r \in steady : born[r] < cycle}

(* Types of the tool's and the SDK's variables. *)
TypeOK ==
  /\ version \in Versions
  /\ task \in {"load", "none", "detach", "fini", "over"}
  /\ at \in {"idle", "flush", "stamp", "stop", "flush_again", "generate", "read", "cleanup"}
  /\ active \in BOOLEAN /\ counting \in BOOLEAN /\ in_period \in BOOLEAN
  /\ periods \in Nat
  /\ where \in [Record -> {"none", "buffer", "ring", "cleared"}]
  /\ unread \subseteq Domain /\ snapshot \subseteq Record
  /\ outdata \in [num_output : Nat, num_bytes : Nat]
  /\ traces \in BOOLEAN /\ end_ns \in Nat /\ cycle \in Nat
  /\ born \in [Record -> Nat] /\ steady \subseteq Record
  /\ published \in [Record -> Nat] /\ unsent \in [Record -> Nat]
  /\ documents \subseteq
       [format : Formats, cycle : Nat, end_ns : Nat, members : SUBSET Record]
  /\ traces => ThreadTrace

(***************************************************************************)
(* In version3 every kernel dispatch recorded while the contexts were left *)
(* alone, and whose symbol is known, is offered to LDMS exactly once, and  *)
(* none is twice, whether LDMS takes it or not: the flush before and after *)
(* the stop catches what is still in the buffers, the rings are cleared    *)
(* between detach cycles, and dispatches without a symbol do not keep the  *)
(* others back.                                                            *)
(***************************************************************************)
PublishedOnce ==
  \A r \in Record :
    /\ published[r] + unsent[r] <= 1
    /\ /\ r \in Settled /\ DomainOf[r] = KernelDispatch /\ r \notin Unnamed
       /\ version = 3
       => published[r] + unsent[r] = 1

(***************************************************************************)
(* A document holds the settled records of its cycle, of every domain that *)
(* the writer of its format is given (JSON all; Perfetto, rocpd and OTF2   *)
(* no PC samples, rocpd no rocJPEG calls, OTF2 no counters), and no record *)
(* is in two documents of one format; a publication that failed changes    *)
(* nothing about that.  With no minimum output, no settled record misses   *)
(* the document of a format that takes its domain in version2, where every *)
(* domain counts as output, nor in a cycle of version3 that settled a      *)
(* kernel dispatch as well.                                                *)
(***************************************************************************)
Held(r) ==
  \A format \in Formats :
    DomainOf[r] \notin Omitted(format) =>
      \E doc \in documents : doc.format = format /\ r \in doc.members

DocumentsComplete ==
  /\ \A doc \in documents :
       /\ \A r \in Settled :
            born[r] = doc.cycle /\ DomainOf[r] \notin Omitted(doc.format) => r \in doc.members
       /\ \A other \in documents :
            other # doc /\ other.format = doc.format => other.members \cap doc.members = {}
  /\ MinOutput = 0 =>
       \A r \in Settled :
         \/ version = 2
         \/ \E k \in Settled : born[k] = born[r] /\ DomainOf[k] = KernelDispatch
         => Held(r)

(***************************************************************************)
(* The comment in generate_output (version3/tool.cpp:2705), "rest of the   *)
(* code is the same", from which it goes on to count the output of the     *)
(* domain: the records of every enabled domain are reported when the tool  *)
(* detaches or finalizes, with no minimum output configured.               *)
(***************************************************************************)
CollectedDomainsReported ==
  MinOutput = 0 => \A r \in Settled : \E doc \in documents : r \in doc.members
=============================================================================
