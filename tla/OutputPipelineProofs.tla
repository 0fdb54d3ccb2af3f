------------------------ MODULE OutputPipelineProofs ------------------------
(***************************************************************************)
(* OutputPipeline's invariants for every set of records and domains, every *)
(* start mode and number of periods and cycles.  What it takes: a steady   *)
(* record cannot wait in an SDK buffer once the last flush before the      *)
(* rings are read has returned; while the rings are read the snapshot      *)
(* holds every steady record of the domains visited, and nothing that is   *)
(* not in a ring; and what was offered or written is in the snapshot until *)
(* the rings are cleared, and cleared from then on.                        *)
(***************************************************************************)
EXTENDS OutputPipeline, FiniteSetTheorems, TLAPS

(* Which steps the tasks go through; a period under way is one of those left. *)
ControlInv ==
  /\ at = "idle" <=> task \in {"load", "none", "over"}
  /\ task = "detach" => at \notin {"stop", "flush_again"}
  /\ in_period => periods > 0

(* A flush is still to come before the rings are read. *)
FlushAhead ==
  \/ task = "none"
  \/ task = "detach" /\ at = "flush"
  \/ task = "fini" /\ at \in {"stamp", "flush", "stop", "flush_again"}

(* A steady record is on its way in the cycle it was emitted in, and cleared at its end. *)
RecordInv ==
  \A r \in Record :
    /\ where[r] = "none" => r \notin steady
    /\ r \in steady => IF where[r] = "cleared" THEN born[r] < cycle ELSE born[r] = cycle
    /\ r \in steady /\ where[r] = "buffer" => FlushAhead

Generating == at \in {"read", "cleanup"}

(* The record's domain counts as output. *)
Counts(r) == version = 2 \/ DomainOf[r] = KernelDispatch

(* What the generators read is in the rings, and complete for the domains visited. *)
SnapshotInv ==
  Generating =>
    /\ \A r \in snapshot : where[r] = "ring" /\ (at = "read" => DomainOf[r] \notin unread)
    /\ \A r \in steady :
         where[r] = "ring" => r \in snapshot \/ (at = "read" /\ DomainOf[r] \in unread)
    /\ \A r \in snapshot : Counts(r) => outdata.num_output > 0

(* The record's ring has been read, in this cycle or an earlier one. *)
Gone(r) == where[r] = "cleared" \/ (Generating /\ r \in snapshot)

Offered(r) == published[r] + unsent[r]

Due(r) == DomainOf[r] = KernelDispatch /\ r \notin Unnamed /\ version = 3

OfferedInv ==
  \A r \in Record :
    /\ Offered(r) <= 1
    /\ Offered(r) # 0 => Gone(r)
    /\ r \in steady /\ Due(r) /\ Gone(r) => Offered(r) = 1

(* What the writer of a format gets of the snapshot. *)
Given(format) == {r \in snapshot : DomainOf[r] \notin Omitted(format)}

(* A document holds what its writer got of the snapshot of its cycle, which is cleared
   afterwards; once the documents are written, there is one per format if anything in
   the snapshot counts. *)
DocumentInv ==
  /\ \A doc \in documents :
       /\ doc.cycle <= cycle
       /\ doc.cycle = cycle => at = "cleanup" /\ doc.members = Given(doc.format)
       /\ doc.cycle < cycle => \A r \in doc.members : where[r] = "cleared"
  /\ MinOutput = 0 /\ at = "cleanup" =>
       \A r \in snapshot : Counts(r) =>
         \A format \in Formats :
           \E doc \in documents : doc.cycle = cycle /\ doc.format = format

FlowInv == TypeOK /\ ControlInv /\ RecordInv /\ SnapshotInv

-----------------------------------------------------------------------------
(* A ring can be counted. *)
LEMMA RingFinite ==
  ASSUME TypeOK, NEW d \in Domain
  PROVE  RingOf(d) \subseteq Record /\ Cardinality(RingOf(d)) \in Nat
<1>1. RingOf(d) \subseteq Record
  BY DEF RingOf
<1>2. IsFiniteSet(RingOf(d))
  BY <1>1, FS_Subset, DomainAssumption
<1> QED
  BY <1>1, <1>2, FS_CardinalityType

(* The three ways records get from the buffers to the rings are one. *)
LEMMA DeliverWhere ==
  ASSUME TypeOK, NEW S \in SUBSET Buffered, Deliver(S)
  PROVE  /\ where' \in [Record -> {"none", "buffer", "ring", "cleared"}]
         /\ \A r \in Record :
              \/ where'[r] = where[r]
              \/ r \in S /\ where[r] = "buffer" /\ where'[r] = "ring"
  BY DEF TypeOK, Deliver, Buffered

LEMMA TypeInit == Init => TypeOK /\ ControlInv
<1> SUFFICES ASSUME Init
             PROVE  TypeOK /\ ControlInv
  OBVIOUS
<1>1. active \in BOOLEAN /\ counting \in BOOLEAN /\ in_period \in BOOLEAN /\ periods \in Nat
  BY StartAssumption DEF Init
<1>2. outdata \in [num_output : Nat, num_bytes : Nat]
  BY DEF Init, NoOutput
<1>3. TypeOK
  BY <1>1, <1>2 DEF Init, TypeOK
<1>4. ControlInv
  BY DEF Init, ControlInv
<1> QED
  BY <1>3, <1>4

(* The type invariant and the control invariant are inductive together: a period that
   is stopped was one of those left. *)
LEMMA TypeStep == TypeOK /\ ControlInv /\ [Next]_vars => TypeOK' /\ ControlInv'
<1> SUFFICES ASSUME TypeOK, ControlInv, [Next]_vars
             PROVE  TypeOK' /\ ControlInv'
  OBVIOUS
<1> USE DEF recordVars, ctxVars, genVars, outVars
<1>1. CASE tool_init
  BY <1>1 DEF tool_init, TypeOK, ControlInv
<1>2. CASE tool_attach
  BY <1>2 DEF tool_attach, TypeOK, ControlInv
<1>3. CASE PauseResume
  BY <1>3 DEF PauseResume, TypeOK, ControlInv
<1>4. CASE StartPeriod
  BY <1>4 DEF StartPeriod, TypeOK, ControlInv
<1>5. CASE StopPeriod
  <2>1. periods \in Nat /\ periods > 0
    BY <1>5 DEF StopPeriod, TypeOK, ControlInv
  <2>2. periods' \in Nat
    BY <1>5, <2>1 DEF StopPeriod, PeriodsLeft
  <2>3. in_period' = FALSE /\ active' = FALSE
    BY <1>5 DEF StopPeriod
  <2>4. UNCHANGED <<version, task, at, counting, recordVars, genVars, traces, end_ns, cycle,
                  outVars>>
    BY <1>5 DEF StopPeriod
  <2> QED
    BY <2>2, <2>3, <2>4 DEF TypeOK, ControlInv
<1>6. ASSUME NEW r \in Record, EmitRecord(r) PROVE TypeOK' /\ ControlInv'
  BY <1>6 DEF EmitRecord, TypeOK, ControlInv
<1>7. ASSUME NEW d \in Domain, BufferCallback(d) PROVE TypeOK' /\ ControlInv'
  <2>1. where' \in [Record -> {"none", "buffer", "ring", "cleared"}]
    BY <1>7, DeliverWhere DEF BufferCallback, Buffered
  <2> QED
    BY <1>7, <2>1 DEF BufferCallback, TypeOK, ControlInv
<1>8. CASE UnloadCodeObject
  <2>1. where' \in [Record -> {"none", "buffer", "ring", "cleared"}]
    BY <1>8, DeliverWhere DEF UnloadCodeObject
  <2> QED
    BY <1>8, <2>1 DEF UnloadCodeObject, TypeOK, ControlInv
<1>9. CASE BeginDetach
  BY <1>9 DEF BeginDetach, TypeOK, ControlInv
<1>10. CASE BeginFini
  BY <1>10 DEF BeginFini, TypeOK, ControlInv
<1>11. CASE flush
  <2>1. where' \in [Record -> {"none", "buffer", "ring", "cleared"}]
    BY <1>11, DeliverWhere DEF flush
  <2> QED
    BY <1>11, <2>1 DEF flush, Continue, FlushOrder, TypeOK, ControlInv
<1>12. CASE StampEnd
  BY <1>12 DEF StampEnd, Continue, FlushOrder, TypeOK, ControlInv
<1>13. CASE StopClientContext
  BY <1>13 DEF StopClientContext, Continue, FlushOrder, TypeOK, ControlInv
<1>14. CASE BeginGenerate
  BY <1>14 DEF BeginGenerate, NoOutput, TypeOK, ControlInv
<1>15. ASSUME NEW d \in Domain, ReadDomain(d) PROVE TypeOK' /\ ControlInv'
  <2>1. RingOf(d) \subseteq Record /\ Cardinality(RingOf(d)) \in Nat
    BY RingFinite
  <2>2. outdata' \in [num_output : Nat, num_bytes : Nat]
    BY <1>15, <2>1 DEF ReadDomain, TypeOK
  <2>3. published' \in [Record -> Nat] /\ unsent' \in [Record -> Nat]
    BY <1>15 DEF ReadDomain, Counted, TypeOK
  <2> QED
    BY <1>15, <2>1, <2>2, <2>3 DEF ReadDomain, TypeOK, ControlInv
<1>16. CASE WriteDocuments
  <2>1. \A format \in Formats :
          DocumentOf(format) \in
            [format : Formats, cycle : Nat, end_ns : Nat, members : SUBSET Record]
    BY DEF TypeOK, DocumentOf
  <2>2. documents' \subseteq
          [format : Formats, cycle : Nat, end_ns : Nat, members : SUBSET Record]
    BY <1>16, <2>1 DEF WriteDocuments, TypeOK
  <2> QED
    BY <1>16, <2>2 DEF WriteDocuments, TypeOK, ControlInv
<1>17. CASE RunCleanup
  BY <1>17 DEF RunCleanup, TypeOK, ControlInv
<1>18. CASE TraceWritten
  BY <1>18 DEF TraceWritten, TypeOK, ControlInv
<1>19. CASE UNCHANGED vars
  BY <1>19 DEF vars, TypeOK, ControlInv
<1> QED
  BY <1>1, <1>2, <1>3, <1>4, <1>5, <1>6, <1>7, <1>8, <1>9, <1>10, <1>11, <1>12, <1>13,
     <1>14, <1>15, <1>16, <1>17, <1>18, <1>19 DEF Next, generate_output

(* The tool's and the SDK's variables have their types, whatever the sizes: the counted
   periods are never overdrawn, and the steps of a task are those of FlushOrder. *)
THEOREM TypeCorrect == Spec => [](TypeOK /\ ControlInv)
<1>1. TypeOK /\ ControlInv /\ [Next]_vars => (TypeOK /\ ControlInv)'
  BY TypeStep
<1> QED
  BY TypeInit, <1>1, PTL DEF Spec

-----------------------------------------------------------------------------
(* A step that moves no record keeps RecordInv, if no flush is skipped. *)
LEMMA RecordsStay ==
  ASSUME RecordInv, UNCHANGED <<recordVars, cycle>>, FlushAhead => FlushAhead'
  PROVE  RecordInv'
  BY DEF RecordInv, recordVars

LEMMA SnapshotStays ==
  ASSUME SnapshotInv, UNCHANGED <<version, at, where, steady, genVars>>
  PROVE  SnapshotInv'
  BY DEF SnapshotInv, Generating, genVars, Counts

LEMMA SnapshotUnused ==
  ASSUME ~Generating'
  PROVE  SnapshotInv'
  BY DEF SnapshotInv, Generating

(* Records delivered while the rings are read are not steady: those were flushed. *)
LEMMA DeliverFlow ==
  ASSUME TypeOK, ControlInv, RecordInv, SnapshotInv, NEW S \in SUBSET Buffered, Deliver(S),
         UNCHANGED <<version, task, at, cycle, born, steady, genVars>>
  PROVE  RecordInv' /\ SnapshotInv'
<1>1. \A r \in Record : \/ where'[r] = where[r]
                        \/ r \in S /\ where[r] = "buffer" /\ where'[r] = "ring"
  BY DeliverWhere
<1>2. FlushAhead' = FlushAhead
  BY DEF FlushAhead
<1>3. RecordInv'
  BY <1>1, <1>2 DEF RecordInv
<1>4. ASSUME Generating
      PROVE  SnapshotInv'
  <2>1. \A r \in steady : where[r] # "buffer"
    BY <1>4 DEF Generating, RecordInv, FlushAhead, TypeOK, ControlInv
  <2>2. \A r \in snapshot : where'[r] = "ring" /\ where[r] = "ring"
    BY <1>1, <1>4 DEF SnapshotInv, TypeOK
  <2>3. \A r \in steady : where'[r] = where[r]
    BY <1>1, <2>1 DEF TypeOK
  <2> QED
    BY <1>4, <2>2, <2>3 DEF SnapshotInv, Generating, genVars, Counts
<1>5. ASSUME ~Generating
      PROVE  SnapshotInv'
  BY <1>5 DEF SnapshotInv, Generating
<1> QED
  BY <1>3, <1>4, <1>5

(* The records and the snapshot, step by step. *)
LEMMA FlowStep == FlowInv /\ [Next]_vars => RecordInv' /\ SnapshotInv'
<1> SUFFICES ASSUME TypeOK, ControlInv, RecordInv, SnapshotInv, [Next]_vars
             PROVE  RecordInv' /\ SnapshotInv'
  BY DEF FlowInv
<1> USE DEF recordVars, ctxVars, genVars, outVars
<1>1. ASSUME UNCHANGED <<version, task, at, recordVars, genVars, cycle>>
      PROVE  RecordInv' /\ SnapshotInv'
  <2>1. FlushAhead' = FlushAhead
    BY <1>1 DEF FlushAhead
  <2> QED
    BY <1>1, <2>1, RecordsStay, SnapshotStays
<1>2. CASE tool_init
  <2>1. FlushAhead => FlushAhead'
    BY <1>2 DEF tool_init, FlushAhead
  <2> QED
    BY <1>2, <2>1, RecordsStay, SnapshotStays DEF tool_init
<1>3. CASE tool_attach \/ PauseResume \/ StartPeriod \/ StopPeriod \/ TraceWritten
  BY <1>1, <1>3 DEF tool_attach, PauseResume, StartPeriod, StopPeriod, TraceWritten
<1>4. ASSUME NEW r \in Record, EmitRecord(r)
      PROVE  RecordInv' /\ SnapshotInv'
  <2>1. where[r] = "none" /\ where'[r] \in {"buffer", "ring"} /\ born'[r] = cycle
    BY <1>4 DEF EmitRecord, TypeOK
  <2>2. \A x \in Record \ {r} : where'[x] = where[x] /\ born'[x] = born[x]
    BY <1>4 DEF EmitRecord, TypeOK
  <2>3. steady' \subseteq steady \cup {r} /\ (r \in steady' => LeftAlone)
    BY <1>4, <2>1 DEF EmitRecord, RecordInv
  <2>4. LeftAlone => FlushAhead /\ ~Generating
    BY DEF LeftAlone, FlushAhead, Generating, ControlInv
  <2>5. FlushAhead' = FlushAhead /\ Generating' = Generating
    BY <1>4 DEF EmitRecord, FlushAhead, Generating
  <2>6. UNCHANGED <<version, at, cycle, genVars>>
    BY <1>4 DEF EmitRecord
  <2>7. RecordInv'
    BY <2>1, <2>2, <2>3, <2>4, <2>5, <2>6 DEF RecordInv
  <2>8. ASSUME Generating
        PROVE  SnapshotInv'
    <3>1. r \notin steady' /\ r \notin snapshot
      BY <2>1, <2>3, <2>4, <2>8 DEF SnapshotInv
    <3> QED
      BY <2>2, <2>3, <2>6, <2>8, <3>1 DEF SnapshotInv, Generating, TypeOK, Counts
  <2> QED
    BY <2>5, <2>7, <2>8, SnapshotUnused
<1>5. ASSUME NEW d \in Domain, BufferCallback(d)
      PROVE  RecordInv' /\ SnapshotInv'
  BY <1>5, DeliverFlow DEF BufferCallback, Buffered
<1>6. CASE UnloadCodeObject
  BY <1>6, DeliverFlow DEF UnloadCodeObject
<1>7. CASE BeginDetach \/ BeginFini
  <2>1. FlushAhead /\ FlushAhead' /\ ~Generating'
    BY <1>7 DEF BeginDetach, BeginFini, FlushAhead, Generating
  <2>2. UNCHANGED <<recordVars, cycle>>
    BY <1>7 DEF BeginDetach, BeginFini
  <2> QED
    BY <2>1, <2>2, RecordsStay, SnapshotUnused
<1>8. CASE flush
  <2>1. \A r \in Record : IF where[r] = "buffer" THEN where'[r] = "ring"
                                                ELSE where'[r] = where[r]
    BY <1>8 DEF flush, Deliver, Buffered
  <2>2. RecordInv'
    BY <1>8, <2>1 DEF flush, RecordInv, TypeOK
  <2>3. ~Generating'
    BY <1>8 DEF flush, Continue, FlushOrder, Generating
  <2> QED
    BY <2>2, <2>3, SnapshotUnused
<1>9. CASE StampEnd \/ StopClientContext
  <2>1. FlushAhead => FlushAhead'
    BY <1>9 DEF StampEnd, StopClientContext, Continue, FlushOrder, FlushAhead, ControlInv
  <2>2. ~Generating'
    BY <1>9 DEF StampEnd, StopClientContext, Continue, FlushOrder, Generating
  <2>3. UNCHANGED <<recordVars, cycle>>
    BY <1>9 DEF StampEnd, StopClientContext
  <2> QED
    BY <2>1, <2>2, <2>3, RecordsStay, SnapshotUnused
<1>10. CASE BeginGenerate
  <2>1. ~FlushAhead
    BY <1>10 DEF BeginGenerate, FlushAhead, ControlInv
  <2>2. RecordInv'
    BY <1>10, <2>1, RecordsStay DEF BeginGenerate
  <2>3. \A r \in steady : DomainOf[r] \in unread'
    BY <1>10, DomainAssumption DEF BeginGenerate, TypeOK
  <2> QED
    BY <1>10, <2>2, <2>3 DEF BeginGenerate, SnapshotInv
<1>11. ASSUME NEW d \in Domain, ReadDomain(d)
       PROVE  RecordInv' /\ SnapshotInv'
  <2>1. UNCHANGED <<version, task, at, recordVars, cycle>> /\ at = "read" /\ d \in unread
    BY <1>11 DEF ReadDomain
  <2>2. RecordInv'
    BY <2>1, RecordsStay DEF FlushAhead
  <2>3. unread' = unread \ {d} /\ snapshot' = snapshot \cup RingOf(d)
    BY <1>11 DEF ReadDomain
  <2>4. \A r \in snapshot' : where[r] = "ring" /\ DomainOf[r] \notin unread'
    BY <2>1, <2>3 DEF SnapshotInv, Generating, RingOf
  <2>5. \A r \in steady : where[r] = "ring" => r \in snapshot' \/ DomainOf[r] \in unread'
    BY <2>1, <2>3 DEF SnapshotInv, Generating, RingOf, TypeOK
  <2>6. outdata.num_output \in Nat /\ outdata'.num_output \in Nat
          /\ outdata'.num_output >= outdata.num_output
          /\ (CountsAsOutput(d) => outdata'.num_output > 0)
    BY <1>11 DEF ReadDomain, TypeOK
  <2>7. \A r \in RingOf(d) : Counts(r) => CountsAsOutput(d)
    BY DEF Counts, CountsAsOutput, CountsInVersion2, CountsInVersion3, RingOf, TypeOK
  <2>8. \A r \in snapshot' : Counts(r)' => outdata'.num_output > 0
    <3> SUFFICES ASSUME NEW r \in snapshot', Counts(r)'
                 PROVE  outdata'.num_output > 0
      OBVIOUS
    <3>1. Counts(r)
      BY <2>1 DEF Counts
    <3>2. CASE r \in RingOf(d)
      BY <2>6, <2>7, <3>1, <3>2
    <3>3. CASE r \in snapshot
      BY <2>1, <2>6, <3>1, <3>3 DEF SnapshotInv, Generating
    <3> QED
      BY <2>3, <3>2, <3>3
  <2> QED
    BY <2>1, <2>2, <2>4, <2>5, <2>8 DEF SnapshotInv
<1>12. CASE WriteDocuments
  <2>1. FlushAhead => FlushAhead'
    BY <1>12 DEF WriteDocuments, FlushAhead
  <2>2. RecordInv'
    BY <1>12, <2>1, RecordsStay DEF WriteDocuments
  <2> QED
    BY <1>12, <2>2 DEF WriteDocuments, SnapshotInv, Generating, Counts
<1>13. CASE RunCleanup
  <2>1. UNCHANGED <<born, steady>> /\ at = "cleanup" /\ at' = "idle" /\ cycle' = cycle + 1
    BY <1>13 DEF RunCleanup
  <2>2. \A r \in Record :
          IF where[r] = "ring" THEN where'[r] = "cleared" ELSE where'[r] = where[r]
    BY <1>13 DEF RunCleanup, Cleared, TypeOK
  <2>3. \A r \in steady : where'[r] = "cleared" /\ born[r] <= cycle
    BY <2>1, <2>2 DEF RecordInv, FlushAhead, TypeOK, ControlInv
  <2>4. RecordInv'
    BY <2>1, <2>2, <2>3 DEF RecordInv, TypeOK
  <2> QED
    BY <2>1, <2>4, SnapshotUnused DEF Generating
<1> QED
  BY <1>1, <1>2, <1>3, <1>4, <1>5, <1>6, <1>7, <1>8, <1>9, <1>10, <1>11, <1>12, <1>13
  DEF Next, generate_output, vars

LEMMA FlowInductive == Spec => []FlowInv
<1>1. Init => FlowInv
  <2>1. Init => RecordInv /\ SnapshotInv
    BY DEF Init, RecordInv, SnapshotInv, Generating
  <2> QED
    BY <2>1, TypeInit DEF FlowInv
<1>2. FlowInv /\ [Next]_vars => FlowInv'
  BY TypeStep, FlowStep DEF FlowInv
<1> QED
  BY <1>1, <1>2, PTL DEF Spec

-----------------------------------------------------------------------------
(* What is published. *)

(* A step that offers nothing keeps OfferedInv, if it reads and clears nothing. *)
LEMMA OfferedStays ==
  ASSUME OfferedInv, UNCHANGED <<version, steady, published, unsent>>,
         \A r \in Record : Gone(r)' = Gone(r)
  PROVE  OfferedInv'
  BY DEF OfferedInv, Offered, Due

LEMMA GoneStays ==
  ASSUME UNCHANGED <<where, snapshot>>, Generating' = Generating
  PROVE  \A r \in Record : Gone(r)' = Gone(r)
  BY DEF Gone

(* A delivery neither reads nor clears. *)
LEMMA DeliverGone ==
  ASSUME FlowInv, NEW S \in SUBSET Buffered, Deliver(S),
         UNCHANGED <<genVars>>, Generating' = Generating
  PROVE  \A r \in Record : Gone(r)' = Gone(r)
<1>1. \A r \in Record : \/ where'[r] = where[r]
                        \/ r \in S /\ where[r] = "buffer" /\ where'[r] = "ring"
  BY DeliverWhere DEF FlowInv
<1> QED
  BY <1>1 DEF Gone, genVars

LEMMA OfferedStep == FlowInv /\ OfferedInv /\ [Next]_vars => OfferedInv'
<1> SUFFICES ASSUME FlowInv, OfferedInv, [Next]_vars
             PROVE  OfferedInv'
  OBVIOUS
<1> USE DEF recordVars, ctxVars, genVars, outVars
<1>1. ASSUME UNCHANGED <<version, recordVars, snapshot, published, unsent>>,
             Generating' = Generating
      PROVE  OfferedInv'
  BY <1>1, GoneStays, OfferedStays
<1>2. CASE tool_init \/ tool_attach \/ PauseResume \/ StartPeriod \/ StopPeriod
           \/ TraceWritten
  BY <1>1, <1>2
  DEF tool_init, tool_attach, PauseResume, StartPeriod, StopPeriod, TraceWritten, Generating
<1>3. ASSUME NEW r \in Record, EmitRecord(r)
      PROVE  OfferedInv'
  <2>1. where[r] = "none" /\ where'[r] \in {"buffer", "ring"}
    BY <1>3 DEF EmitRecord, FlowInv, TypeOK
  <2>2. \A x \in Record \ {r} : where'[x] = where[x] /\ (x \in steady' <=> x \in steady)
    BY <1>3 DEF EmitRecord, FlowInv, TypeOK
  <2>3. UNCHANGED <<version, snapshot, published, unsent>> /\ Generating' = Generating
    BY <1>3 DEF EmitRecord, Generating
  <2>4. ~Gone(r) /\ ~Gone(r)'
    BY <2>1, <2>3 DEF Gone, FlowInv, SnapshotInv
  <2>5. \A x \in Record : Gone(x)' = Gone(x)
    BY <2>2, <2>3, <2>4 DEF Gone
  <2> QED
    BY <2>2, <2>3, <2>4, <2>5 DEF OfferedInv, Offered, Due
<1>4. ASSUME NEW d \in Domain, BufferCallback(d)
      PROVE  OfferedInv'
  <2>1. \A r \in Record : Gone(r)' = Gone(r)
    BY <1>4, DeliverGone DEF BufferCallback, Buffered, Generating
  <2> QED
    BY <1>4, <2>1, OfferedStays DEF BufferCallback
<1>5. CASE UnloadCodeObject
  <2>1. \A r \in Record : Gone(r)' = Gone(r)
    BY <1>5, DeliverGone DEF UnloadCodeObject, Generating
  <2> QED
    BY <1>5, <2>1, OfferedStays DEF UnloadCodeObject
<1>6. CASE BeginDetach \/ BeginFini
  <2>1. at = "idle" /\ at' \in {"flush", "stamp"}
    BY <1>6 DEF BeginDetach, BeginFini, FlowInv, ControlInv
  <2>2. UNCHANGED <<version, recordVars, snapshot, published, unsent>>
    BY <1>6 DEF BeginDetach, BeginFini
  <2> QED
    BY <1>1, <2>1, <2>2 DEF Generating
<1>7. CASE flush
  <2>1. \A r \in Record : Gone(r)' = Gone(r)
    BY <1>7, DeliverGone DEF flush, Generating, Continue, FlushOrder
  <2> QED
    BY <1>7, <2>1, OfferedStays DEF flush
<1>8. CASE StampEnd \/ StopClientContext
  BY <1>1, <1>8 DEF StampEnd, StopClientContext, Continue, FlushOrder, Generating
<1>9. CASE BeginGenerate
  <2>1. \A r \in Record : Gone(r)' = Gone(r)
    BY <1>9 DEF BeginGenerate, Gone, Generating
  <2> QED
    BY <1>9, <2>1, OfferedStays DEF BeginGenerate
<1>10. ASSUME NEW d \in Domain, ReadDomain(d)
       PROVE  OfferedInv'
  <2>1. UNCHANGED <<version, at, where, steady>> /\ at = "read" /\ d \in unread
    BY <1>10 DEF ReadDomain
  <2>2. \A r \in Record : Gone(r)' <=> Gone(r) \/ r \in RingOf(d)
    BY <1>10, <2>1 DEF ReadDomain, Gone, Generating
  <2>3. \A r \in RingOf(d) : r \in Record /\ ~Gone(r) /\ Offered(r) = 0
    BY <2>1 DEF RingOf, Gone, Generating, FlowInv, SnapshotInv, OfferedInv
  <2>4. published \in [Record -> Nat] /\ unsent \in [Record -> Nat]
    BY DEF FlowInv, TypeOK
  <2>5. CASE version = 3 /\ CountsAsOutput(d)
    <3>1. \A r \in Record : Offered(r)' = IF r \in RowsOf(d) THEN Offered(r) + 1
                                                             ELSE Offered(r)
      BY <1>10, <2>4, <2>5 DEF ReadDomain, Counted, Offered
    <3>2. \A r \in Record : r \in RowsOf(d) => Offered(r) = 0 /\ Offered(r)' = 1 /\ Gone(r)'
      BY <2>2, <2>3, <3>1 DEF RowsOf
    <3>3. \A r \in RingOf(d) : Due(r) => r \in RowsOf(d)
      BY DEF Due, RowsOf
    <3>4. \A r \in Record : Due(r)' = Due(r)
      BY <2>1 DEF Due
    <3> QED
      BY <2>1, <2>2, <3>1, <3>2, <3>3, <3>4 DEF OfferedInv
  <2>6. CASE ~(version = 3 /\ CountsAsOutput(d))
    <3>1. \A r \in Record : Offered(r)' = Offered(r)
      BY <1>10, <2>6 DEF ReadDomain, Offered
    <3>2. \A r \in RingOf(d) : ~Due(r)
      BY <2>6 DEF Due, RingOf, CountsAsOutput, CountsInVersion3
    <3>3. \A r \in Record : Due(r)' = Due(r)
      BY <2>1 DEF Due
    <3> QED
      BY <2>1, <2>2, <3>1, <3>2, <3>3 DEF OfferedInv
  <2> QED
    BY <2>5, <2>6
<1>11. CASE WriteDocuments
  BY <1>1, <1>11 DEF WriteDocuments, Generating
<1>12. CASE RunCleanup
  <2>1. UNCHANGED <<version, steady, published, unsent>>
    BY <1>12 DEF RunCleanup
  <2>2. \A r \in Record : Gone(r) => Gone(r)'
    BY <1>12 DEF RunCleanup, Cleared, Gone, Generating, FlowInv, SnapshotInv
  <2>3. \A r \in steady : Gone(r)' => Gone(r)
    BY <1>12 DEF RunCleanup, Cleared, Gone, Generating, FlowInv, SnapshotInv, TypeOK
  <2>4. \A r \in Record : Offered(r)' = Offered(r) /\ Due(r)' = Due(r)
    BY <2>1 DEF Offered, Due
  <2> QED
    BY <2>1, <2>2, <2>3, <2>4 DEF OfferedInv
<1>13. CASE UNCHANGED vars
  BY <1>1, <1>13 DEF vars, Generating
<1> QED
  BY <1>2, <1>3, <1>4, <1>5, <1>6, <1>7, <1>8, <1>9, <1>10, <1>11, <1>12, <1>13
  DEF Next, generate_output

(* A settled record has been cleared. *)
LEMMA SettledCleared ==
  ASSUME FlowInv
  PROVE  \A r \in Settled : r \in Record /\ r \in steady /\ where[r] = "cleared"
  BY DEF FlowInv, TypeOK, RecordInv, Settled

(* In version3 every dispatch of a known kernel that was recorded while the contexts were
   left alone is offered to LDMS exactly once, and no record twice, for every number of
   records, domains, periods and detach cycles, whoever flushes and whatever fails. *)
THEOREM OfferedExactlyOnce == Spec => []PublishedOnce
<1>1. Init => OfferedInv
  BY DEF Init, OfferedInv, Offered, Gone, Generating
<1>2. FlowInv /\ OfferedInv => PublishedOnce
  <2> SUFFICES ASSUME FlowInv, OfferedInv, NEW r \in Record
               PROVE  /\ Offered(r) <= 1
                      /\ r \in Settled /\ Due(r) => Offered(r) = 1
    BY DEF PublishedOnce, Offered, Due
  <2> QED
    BY SettledCleared DEF OfferedInv, Gone
<1> QED
  BY <1>1, <1>2, FlowInductive, OfferedStep, PTL DEF Spec

-----------------------------------------------------------------------------
(* What is written. *)

LEMMA SettledStays ==
  ASSUME UNCHANGED <<born, steady, cycle>>
  PROVE  Settled' = Settled
  BY DEF Settled

(* A step that writes nothing and ends no cycle keeps what is known of the documents, if
   it leaves the cleared records alone. *)
LEMMA DocumentsStay ==
  ASSUME FlowInv, DocumentInv, DocumentsComplete, UNCHANGED <<version, documents, cycle>>,
         \A r \in Settled' : r \in Settled /\ born'[r] = born[r],
         at = "cleanup" <=> at' = "cleanup",
         at = "cleanup" => snapshot' = snapshot,
         \A r \in Record : where[r] = "cleared" => where'[r] = "cleared"
  PROVE  DocumentInv' /\ DocumentsComplete'
<1>1. \A doc \in documents : doc.members \subseteq Record
  BY DEF FlowInv, TypeOK
<1>2. DocumentInv'
  BY <1>1 DEF DocumentInv, Given, Counts
<1>3. DocumentsComplete'
  <2>1. \A doc \in documents' :
          /\ \A r \in Settled' :
               born'[r] = doc.cycle /\ DomainOf[r] \notin Omitted(doc.format)
                 => r \in doc.members
          /\ \A other \in documents' :
               other # doc /\ other.format = doc.format => other.members \cap doc.members = {}
    BY DEF DocumentsComplete
  <2>2. \A r \in Record : Held(r)' = Held(r)
    BY DEF Held
  <2>3. \A r \in Settled' : r \in Record
    BY DEF Settled, FlowInv, TypeOK
  <2> QED
    BY <2>1, <2>2, <2>3 DEF DocumentsComplete
<1> QED
  BY <1>2, <1>3

LEMMA DocumentStep ==
  FlowInv /\ DocumentInv /\ DocumentsComplete /\ [Next]_vars
    => DocumentInv' /\ DocumentsComplete'
<1> SUFFICES ASSUME FlowInv, DocumentInv, DocumentsComplete, [Next]_vars
             PROVE  DocumentInv' /\ DocumentsComplete'
  OBVIOUS
<1> USE DEF recordVars, ctxVars, genVars, outVars
<1>1. ASSUME UNCHANGED <<version, recordVars, cycle, documents>>,
             at = "cleanup" <=> at' = "cleanup",
             at = "cleanup" => snapshot' = snapshot
      PROVE  DocumentInv' /\ DocumentsComplete'
  BY <1>1, SettledStays, DocumentsStay
<1>2. CASE tool_init \/ tool_attach \/ PauseResume \/ StartPeriod \/ StopPeriod
           \/ TraceWritten
  BY <1>1, <1>2
  DEF tool_init, tool_attach, PauseResume, StartPeriod, StopPeriod, TraceWritten
<1>3. ASSUME NEW r \in Record, EmitRecord(r)
      PROVE  DocumentInv' /\ DocumentsComplete'
  <2>1. UNCHANGED <<version, at, cycle, snapshot, documents>> /\ where[r] = "none"
    BY <1>3 DEF EmitRecord
  <2>2. born'[r] = cycle
    BY <1>3 DEF EmitRecord, FlowInv, TypeOK
  <2>3. \A x \in Record : where[x] = "cleared" => where'[x] = "cleared"
    BY <1>3, <2>1 DEF EmitRecord, FlowInv, TypeOK
  <2>4. \A x \in Settled' : x \in Settled /\ born'[x] = born[x]
    BY <1>3, <2>1, <2>2 DEF EmitRecord, Settled, FlowInv, TypeOK
  <2> QED
    BY <2>1, <2>3, <2>4, DocumentsStay
<1>4. ASSUME NEW S \in SUBSET Buffered, Deliver(S),
             UNCHANGED <<version, born, steady, genVars, cycle, documents>>,
             at = "cleanup" <=> at' = "cleanup"
      PROVE  DocumentInv' /\ DocumentsComplete'
  <2>1. Settled' = Settled
    BY <1>4, SettledStays
  <2>2. \A r \in Record : where[r] = "cleared" => where'[r] = "cleared"
    BY <1>4 DEF Deliver, Buffered, FlowInv, TypeOK
  <2> QED
    BY <1>4, <2>1, <2>2, DocumentsStay
<1>5. ASSUME NEW d \in Domain, BufferCallback(d)
      PROVE  DocumentInv' /\ DocumentsComplete'
  BY <1>4, <1>5 DEF BufferCallback, Buffered
<1>6. CASE UnloadCodeObject
  BY <1>4, <1>6 DEF UnloadCodeObject
<1>7. CASE BeginDetach \/ BeginFini
  <2>1. at = "idle" /\ at' \in {"flush", "stamp"}
    BY <1>7 DEF BeginDetach, BeginFini, FlowInv, ControlInv
  <2>2. UNCHANGED <<version, recordVars, cycle, documents>>
    BY <1>7 DEF BeginDetach, BeginFini
  <2> QED
    BY <1>1, <2>1, <2>2
<1>8. CASE flush
  BY <1>4, <1>8 DEF flush, Continue, FlushOrder
<1>9. CASE StampEnd \/ StopClientContext
  BY <1>1, <1>9 DEF StampEnd, StopClientContext, Continue, FlushOrder
<1>10. CASE BeginGenerate
  BY <1>1, <1>10 DEF BeginGenerate
<1>11. ASSUME NEW d \in Domain, ReadDomain(d)
       PROVE  DocumentInv' /\ DocumentsComplete'
  BY <1>1, <1>11 DEF ReadDomain
<1>12. CASE WriteDocuments
  <2> DEFINE New == {DocumentOf(format) : format \in Formats}
  <2>1. UNCHANGED <<version, where, cycle, snapshot, outdata>> /\ at = "read" /\ at' = "cleanup"
    BY <1>12 DEF WriteDocuments
  <2>2. Settled' = Settled /\ UNCHANGED born
    BY <1>12, SettledStays DEF WriteDocuments
  <2>3. documents' \in {documents, documents \cup New}
    BY <1>12 DEF WriteDocuments
  <2>4. cycle \in Nat /\ \A doc \in documents : doc.cycle \in Nat /\ doc.cycle < cycle
    BY <2>1 DEF DocumentInv, FlowInv, TypeOK
  <2>5. \A format \in Formats : /\ DocumentOf(format).format = format
                                /\ DocumentOf(format).cycle = cycle
                                /\ DocumentOf(format).members = Given(format)
    BY DEF DocumentOf, Given
  <2>6. \A doc \in New : doc.cycle = cycle /\ doc.members = Given(doc.format)
    BY <2>5
  <2>7. \A format \in Formats : \E doc \in New : doc.cycle = cycle /\ doc.format = format
    BY <2>5
  <2>8. ASSUME MinOutput = 0, NEW r \in snapshot, Counts(r)
        PROVE  documents' = documents \cup New
    <3>1. outdata.num_bytes \in Nat /\ outdata.num_output \in Nat /\ outdata.num_output > 0
      BY <2>1, <2>8 DEF FlowInv, TypeOK, SnapshotInv, Generating
    <3>2. NumOutput > 0 /\ outdata.num_bytes >= MinOutput
      BY <2>8, <3>1 DEF NumOutput
    <3> QED
      BY <1>12, <3>2 DEF WriteDocuments
  <2>9. \A doc, other \in New : doc.format = other.format => doc = other
    BY <2>5
  <2> HIDE DEF New
  <2>10. \A format : Given(format)' = Given(format)
    BY <2>1 DEF Given
  <2>11. DocumentInv'
    <3>1. \A doc \in documents' :
            /\ doc.cycle <= cycle
            /\ doc.cycle = cycle => doc.members = Given(doc.format)
            /\ doc.cycle < cycle => \A r \in doc.members : where[r] = "cleared"
      BY <2>3, <2>4, <2>6 DEF DocumentInv
    <3>2. ASSUME MinOutput = 0, NEW r \in snapshot, Counts(r), NEW format \in Formats
          PROVE  \E doc \in documents' : doc.cycle = cycle /\ doc.format = format
      BY <2>7, <2>8, <3>2
    <3>3. \A r : Counts(r)' = Counts(r)
      BY <2>1 DEF Counts
    <3> QED
      BY <2>1, <2>10, <3>1, <3>2, <3>3 DEF DocumentInv
  <2>12. \A doc \in documents : \A r \in doc.members : where[r] = "cleared"
    BY <2>4 DEF DocumentInv
  <2>13. \A doc \in New : \A r \in doc.members : where[r] # "cleared"
    BY <2>1, <2>6 DEF Given, FlowInv, SnapshotInv, Generating
  <2>14. \A doc, other \in documents' :
           other # doc /\ other.format = doc.format => other.members \cap doc.members = {}
    BY <2>3, <2>9, <2>12, <2>13 DEF DocumentsComplete
  <2>15. \A r \in Settled : born[r] # cycle
    BY DEF Settled, FlowInv, TypeOK
  <2>16. \A doc \in documents' : \A r \in Settled' :
           born'[r] = doc.cycle /\ DomainOf[r] \notin Omitted(doc.format) => r \in doc.members
    BY <2>2, <2>3, <2>6, <2>15 DEF DocumentsComplete
  <2>17. \A r : Held(r) => Held(r)'
    BY <2>3 DEF Held
  <2>18. DocumentsComplete'
    BY <2>1, <2>2, <2>14, <2>16, <2>17 DEF DocumentsComplete
  <2> QED
    BY <2>11, <2>18
<1>13. CASE RunCleanup
  <2>1. UNCHANGED <<version, born, steady, documents>> /\ at = "cleanup" /\ at' = "idle"
          /\ cycle \in Nat /\ cycle' = cycle + 1
    BY <1>13 DEF RunCleanup, FlowInv, TypeOK
  <2>2. \A r \in Record : where[r] \in {"ring", "cleared"} => where'[r] = "cleared"
    BY <1>13 DEF RunCleanup, Cleared
  <2>3. \A doc \in documents : doc.cycle \in Nat /\ doc.members \subseteq Record
    BY DEF FlowInv, TypeOK
  <2>4. \A r \in snapshot : r \in Record /\ where[r] = "ring"
    BY <2>1 DEF FlowInv, TypeOK, SnapshotInv, Generating
  <2>5. \A doc \in documents : doc.cycle <= cycle /\ \A r \in doc.members : where'[r] = "cleared"
    BY <2>1, <2>2, <2>3, <2>4 DEF DocumentInv, Given
  <2>6. DocumentInv'
    BY <2>1, <2>3, <2>5 DEF DocumentInv
  <2>7. \A r \in Settled' : r \in Record /\ (r \in Settled \/ (born[r] = cycle /\ r \in snapshot))
    <3> SUFFICES ASSUME NEW r \in Settled'
                 PROVE  r \in Record /\ (r \in Settled \/ (born[r] = cycle /\ r \in snapshot))
      OBVIOUS
    <3>1. r \in Record /\ r \in steady /\ (r \notin Settled => born[r] = cycle)
      BY <2>1 DEF Settled, FlowInv, TypeOK
    <3>2. ~FlushAhead /\ Generating
      BY <2>1 DEF FlushAhead, Generating, FlowInv, ControlInv
    <3>3. where[r] \in {"ring", "cleared"}
      BY <3>1, <3>2 DEF FlowInv, TypeOK, RecordInv
    <3>4. r \notin Settled => where[r] = "ring"
      BY <3>1, <3>3 DEF FlowInv, TypeOK, RecordInv
    <3> QED
      BY <2>1, <3>1, <3>2, <3>4 DEF FlowInv, SnapshotInv
  <2>8. \A r \in Settled : born[r] # cycle
    BY DEF Settled, FlowInv, TypeOK
  <2>9. \A doc \in documents : \A r \in Settled' :
          born[r] = doc.cycle /\ DomainOf[r] \notin Omitted(doc.format) => r \in doc.members
    BY <2>1, <2>7, <2>8 DEF DocumentsComplete, DocumentInv, Given
  <2>10. ASSUME MinOutput = 0, NEW r \in Settled',
                \/ version = 2
                \/ \E k \in Settled' : born[k] = born[r] /\ DomainOf[k] = KernelDispatch
         PROVE  Held(r)
    <3>1. CASE r \in Settled
      <4>1. \/ version = 2
            \/ \E k \in Settled : born[k] = born[r] /\ DomainOf[k] = KernelDispatch
        BY <2>7, <2>8, <2>10, <3>1
      <4> QED
        BY <2>10, <3>1, <4>1 DEF DocumentsComplete
    <3>2. CASE r \notin Settled
      <4>1. r \in snapshot /\ born[r] = cycle
        BY <2>7, <3>2
      <4>2. \E k \in snapshot : Counts(k)
        BY <2>7, <2>8, <2>10, <4>1 DEF Counts
      <4>3. ASSUME NEW format \in Formats, DomainOf[r] \notin Omitted(format)
            PROVE  \E doc \in documents : doc.format = format /\ r \in doc.members
        <5>1. PICK doc \in documents : doc.cycle = cycle /\ doc.format = format
          BY <2>1, <2>10, <4>2 DEF DocumentInv
        <5> QED
          BY <4>1, <4>3, <5>1 DEF DocumentInv, Given
      <4> QED
        BY <4>3 DEF Held
    <3> QED
      BY <3>1, <3>2
  <2>11. \A r : Held(r)' = Held(r)
    BY <2>1 DEF Held
  <2>12. \A doc, other \in documents :
           other # doc /\ other.format = doc.format => other.members \cap doc.members = {}
    BY DEF DocumentsComplete
  <2>13. DocumentsComplete'
    BY <2>1, <2>9, <2>10, <2>11, <2>12 DEF DocumentsComplete
  <2> QED
    BY <2>6, <2>13
<1>14. CASE UNCHANGED vars
  BY <1>1, <1>14 DEF vars
<1> QED
  BY <1>2, <1>3, <1>5, <1>6, <1>7, <1>8, <1>9, <1>10, <1>11, <1>12, <1>13, <1>14
  DEF Next, generate_output

(* No record is in two documents of a format, a document holds all settled records of its
   cycle whose domains its writer takes, and with no minimum output no settled record is
   left out in version2, nor in a cycle of version3 that settled a kernel dispatch. *)
THEOREM DocumentsHoldRecords == Spec => []DocumentsComplete
<1>1. Init => DocumentInv /\ DocumentsComplete
  BY DEF Init, DocumentInv, DocumentsComplete, Settled
<1> QED
  BY <1>1, FlowInductive, DocumentStep, PTL DEF Spec
=============================================================================
