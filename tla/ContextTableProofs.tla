------------------------- MODULE ContextTableProofs -------------------------
(***************************************************************************)
(* ContextTable's invariants for every set of contexts, queues, unloaders  *)
(* and loaders.  What it takes: an entry in the table is being filled, or  *)
(* runs, or is complete, and is either active or dumped; nobody but the    *)
(* owner of the mutex scans the table, so that no entry is added under a   *)
(* pass; and of the entries it is concerned with, a pass leaves behind     *)
(* only dumped ones, and those that were allocated after the tool was      *)
(* unloaded.                                                               *)
(***************************************************************************)
EXTENDS ContextTable, FiniteSetTheorems, TLAPS

(* What a context's entry goes through. *)
EntryInv ==
  \A c \in Context :
    /\ c \in table => step[c] \in {"fill", "publish", "running", "complete"}
    /\ c \in valid <=> step[c] \in {"running", "complete", "handled", "orphaned"}
    /\ c \in table \cap active => c \notin dumped
    /\ c \in table /\ step[c] # "fill" => c \in active \cup dumped
    /\ c \in valid => c \in table \cup dumped \cup lost

(* The dispatches next_context_count has counted. *)
Begun == {c \in Context : step[c] \notin {"idle", "enter"}}

CountInv == count = Cardinality(Begun) /\ collected = Cardinality(dumped)

(* A pass holds the mutex from its first entry to its last. *)
MutexInv == \A p \in Dumper : stage[p] = "scan" => owner = p

(* The tool is not loaded again while it is being unloaded. *)
UnloadedInv ==
  \A u \in Unloader :
    stage[u] \in {"remove", "decide", "pass", "scan", "dumped"} => ~is_loaded

(* Nobody dispatches to a queue that is being destroyed. *)
DestroyInv ==
  \A c \in Context :
    stage[QueueOf[c]] # "start" => step[c] \notin {"enter", "fill", "publish"}

(* An entry a pass of p need not leave dumped. *)
Excused(p, c) == c \in dumped \/ (p \in Unloader /\ c \in late)

PassInv ==
  \A p \in Dumper, c \in table :
    Concerns(p, c) =>
      /\ stage[p] = "scan" => again[p] \/ c \in todo[p] \/ Excused(p, c)
      /\ stage[p] = "dumped" => Excused(p, c)

-----------------------------------------------------------------------------
(* The steps of a context, and those that only move a call along. *)
ContextStep(c) == DispatchCallback(c) \/ CallbackStep(c) \/ CompleteKernel(c) \/ HandlerStep(c)

CallStep ==
  \/ \E l \in Loader : LoadTool(l) \/ LoadAgain(l) \/ InstallTool(l)
  \/ \E q \in Queue : DestroyCallback(q)
  \/ \E p \in Dumper : BeginPass(p) \/ VisitNowhere(p) \/ EndPass(p)
  \/ \E u \in Unloader :
       CallUnload(u) \/ UnloadTool(u) \/ UnloadAgain(u) \/ RemoveCallbacks(u) \/ DecideDump(u)

entryVars == <<table, index, active, valid, countVars, step, late, lost>>

LEMMA NextCases ==
  ASSUME [Next]_vars
  PROVE  \/ \E c \in Context : ContextStep(c)
         \/ CallStep
         \/ \E p \in Dumper : VisitEntry(p)
         \/ \E u \in Unloader : DeleteTable(u)
         \/ UNCHANGED vars
  BY DEF Next, ContextStep, CallStep, dump_context_array, UnloadStep

(* A call that moves along leaves the entries alone ... *)
LEMMA CallLeavesEntries == CallStep => UNCHANGED entryVars
<1> SUFFICES ASSUME CallStep
             PROVE  UNCHANGED entryVars
  OBVIOUS
<1> USE DEF entryVars, tableVars, countVars
<1>1. ASSUME NEW l \in Loader, LoadTool(l) \/ LoadAgain(l) \/ InstallTool(l)
      PROVE  UNCHANGED entryVars
  BY <1>1 DEF LoadTool, LoadAgain, InstallTool
<1>2. ASSUME NEW q \in Queue, DestroyCallback(q)
      PROVE  UNCHANGED entryVars
  BY <1>2 DEF DestroyCallback
<1>3. ASSUME NEW p \in Dumper, BeginPass(p) \/ VisitNowhere(p) \/ EndPass(p)
      PROVE  UNCHANGED entryVars
  BY <1>3 DEF BeginPass, VisitNowhere, EndPass
<1>4. ASSUME NEW u \in Unloader,
             CallUnload(u) \/ UnloadTool(u) \/ UnloadAgain(u) \/ RemoveCallbacks(u)
               \/ DecideDump(u)
      PROVE  UNCHANGED entryVars
  BY <1>4 DEF CallUnload, UnloadTool, UnloadAgain, RemoveCallbacks, DecideDump
<1> QED
  BY <1>1, <1>2, <1>3, <1>4 DEF CallStep

(* ... and a context the calls. *)
LEMMA ContextLeavesCalls ==
  ASSUME NEW c \in Context, ContextStep(c)
  PROVE  UNCHANGED <<exists, toolVars, passVars, owner, stage>>
<1>1. CASE DispatchCallback(c)
  BY <1>1 DEF DispatchCallback, tableVars
<1>2. CASE CallbackStep(c)
  BY <1>2 DEF CallbackStep, CountRejected, AllocEntry, AllocNowhere, FillEntry, PublishEntry,
             FillNowhere, tableVars
<1>3. CASE CompleteKernel(c)
  BY <1>3 DEF CompleteKernel, tableVars
<1>4. CASE HandlerStep(c)
  BY <1>4 DEF HandlerStep, HandleCompletion, HandleOrphan, tableVars
<1> QED
  BY <1>1, <1>2, <1>3, <1>4 DEF ContextStep

(* What the visit of an entry does: it dumps the entry at most, if it is active and
   complete, and has the pass repeated if it leaves an active one it is concerned with. *)
LEMMA VisitShape ==
  ASSUME TypeOK, NEW p \in Dumper, VisitEntry(p)
  PROVE  \E c \in table \cap valid, ready \in SUBSET active :
           /\ stage[p] = "scan" /\ ready \subseteq {c}
           /\ \A x \in ready : Complete(x)
           /\ DumpAll(ready)
           /\ active' = active \ ready
           /\ again' \in [Dumper -> BOOLEAN]
           /\ again[p] => again'[p]
           /\ Concerns(p, c) /\ c \in active => c \in ready \/ again'[p]
           /\ todo' = [todo EXCEPT ![p] = @ \ {c}]
           /\ UNCHANGED <<exists, table, index, valid, toolVars, owner, step, stage, late,
                          lost>>
           /\ \A x \in Dumper \ {p} : again'[x] = again[x]
<1>1. PICK c \in FirstOf(todo[p]) :
        /\ stage[p] = "scan"
        /\ Visitable(c)
        /\ LET due == {x \in ToDump(c) : Concerns(p, x)}
               ready == {x \in due : Complete(x)}
           IN  /\ DumpAll(ready)
               /\ active' = active \ ready
               /\ again' = [again EXCEPT ![p] = @ \/ Incomplete(due, ready)]
        /\ todo' = [todo EXCEPT ![p] = @ \ {c}]
        /\ UNCHANGED <<exists, table, index, valid, toolVars, owner, step, stage, late, lost>>
  BY DEF VisitEntry
<1> DEFINE due == {x \in ToDump(c) : Concerns(p, x)}
           ready == {x \in due : Complete(x)}
<1>2. ready \in SUBSET active /\ ready \subseteq {c} /\ \A x \in ready : Complete(x)
  BY DEF ToDump
<1>3. again \in [Dumper -> BOOLEAN] /\ again' = [again EXCEPT ![p] = @ \/ Incomplete(due, ready)]
  BY <1>1 DEF TypeOK
<1>4. again' \in [Dumper -> BOOLEAN] /\ \A x \in Dumper \ {p} : again'[x] = again[x]
  BY <1>3
<1>5. again'[p] <=> again[p] \/ due # ready
  BY <1>3 DEF Incomplete
<1>6. Concerns(p, c) /\ c \in active => c \in due
  BY DEF ToDump
<1>7. Concerns(p, c) /\ c \in active => c \in ready \/ again'[p]
  BY <1>5, <1>6
<1>8. c \in table \cap valid
  BY <1>1 DEF Visitable
<1>9. DumpAll(ready) /\ active' = active \ ready
  BY <1>1
<1> QED
  BY <1>1, <1>2, <1>4, <1>5, <1>7, <1>8, <1>9

-----------------------------------------------------------------------------
(* Types. *)

(* Dumping one entry that was not dumped before. *)
LEMMA DumpOne ==
  ASSUME TypeOK, NEW c \in Context, NEW S \in SUBSET {c}, DumpAll(S)
  PROVE  /\ collected' \in Nat /\ dumped' \subseteq Context
         /\ S \cap dumped = {} /\ collected = Cardinality(dumped)
              => collected' = Cardinality(dumped')
<1>1. IsFiniteSet(S) /\ Cardinality(S) \in Nat
  <2>1. IsFiniteSet({c})
    BY FS_Singleton
  <2> QED
    BY <2>1, FS_Subset, FS_CardinalityType
<1>2. collected' = collected + Cardinality(S) /\ dumped' = dumped \cup S
  BY DEF DumpAll
<1>3. IsFiniteSet(dumped)
  BY FS_Subset, ContextAssumption DEF TypeOK
<1>4. ASSUME S \cap dumped = {}
      PROVE  Cardinality(dumped \cup S) = Cardinality(dumped) + Cardinality(S)
  <2>1. Cardinality(dumped \cup S)
          = Cardinality(dumped) + Cardinality(S) - Cardinality(dumped \cap S)
    BY <1>1, <1>3, FS_Union
  <2>2. Cardinality(dumped \cap S) = 0
    BY <1>4, FS_EmptySet
  <2>3. Cardinality(dumped) \in Nat
    BY <1>3, FS_CardinalityType
  <2> QED
    BY <1>1, <2>1, <2>2, <2>3
<1> QED
  BY <1>1, <1>2, <1>4 DEF TypeOK

LEMMA TypeInit == Init => TypeOK
<1> SUFFICES ASSUME Init
             PROVE  TypeOK
  OBVIOUS
<1>1. is_loaded \in BOOLEAN /\ callbacks \in BOOLEAN /\ exists \in BOOLEAN
        /\ handler_on \in HandlerModes
  BY DEF Init
<1>2. todo \in [Dumper -> SUBSET Context] /\ again \in [Dumper -> BOOLEAN]
  BY DEF Init
<1> QED
  BY <1>1, <1>2 DEF Init, TypeOK

LEMMA TypeStep == TypeOK /\ [Next]_vars => TypeOK'
<1> SUFFICES ASSUME TypeOK, [Next]_vars
             PROVE  TypeOK'
  OBVIOUS
<1> USE DEF tableVars, countVars, toolVars, passVars
<1>1. ASSUME NEW c \in Context, ContextStep(c)
      PROVE  TypeOK'
  <2>1. UNCHANGED <<exists, toolVars, passVars, owner, stage>>
    BY <1>1, ContextLeavesCalls
  <2>2. CASE DispatchCallback(c)
    BY <2>1, <2>2 DEF DispatchCallback, Become, TypeOK
  <2>3. CASE CountRejected(c)
    BY <2>1, <2>3 DEF CountRejected, Become, TypeOK
  <2>4. CASE AllocEntry(c)
    BY <2>1, <2>4 DEF AllocEntry, NextIndex, Become, TypeOK
  <2>5. CASE AllocNowhere(c)
    BY <2>1, <2>5 DEF AllocNowhere, Become, TypeOK
  <2>6. CASE FillEntry(c)
    BY <2>1, <2>6 DEF FillEntry, Become, TypeOK
  <2>7. CASE PublishEntry(c)
    BY <2>1, <2>7 DEF PublishEntry, Become, TypeOK
  <2>8. CASE FillNowhere(c)
    BY <2>1, <2>8 DEF FillNowhere, Become, TypeOK
  <2>9. CASE CompleteKernel(c)
    BY <2>1, <2>9 DEF CompleteKernel, Become, TypeOK
  <2>10. CASE HandleCompletion(c)
    <3>1. collected' \in Nat /\ dumped' \subseteq Context
      BY <2>10, DumpOne DEF HandleCompletion, ToDump
    <3>2. step' = [step EXCEPT ![c] = "handled"] /\ table' = table \ {c} /\ count' = count
      BY <2>10 DEF HandleCompletion, Become, DumpAll
    <3>3. UNCHANGED <<index, active, valid, late, lost>>
      BY <2>10 DEF HandleCompletion
    <3> QED
      BY <2>1, <3>1, <3>2, <3>3 DEF TypeOK
  <2>11. CASE HandleOrphan(c)
    BY <2>1, <2>11 DEF HandleOrphan, Become, TypeOK
  <2> QED
    BY <1>1, <2>2, <2>3, <2>4, <2>5, <2>6, <2>7, <2>8, <2>9, <2>10, <2>11
    DEF ContextStep, CallbackStep, HandlerStep
<1>2. CASE CallStep
  <2>1. UNCHANGED entryVars
    BY <1>2, CallLeavesEntries
  <2> USE DEF entryVars
  <2>2. ASSUME NEW l \in Loader, LoadTool(l) \/ LoadAgain(l) \/ InstallTool(l)
        PROVE  TypeOK'
    <3>1. stage' = [stage EXCEPT ![l] = "done"] \/ stage' = [stage EXCEPT ![l] = "install"]
      BY <2>2 DEF LoadTool, LoadAgain, InstallTool, Reach
    <3>2. owner' \in {owner, l} /\ UNCHANGED <<handler_on, passVars>>
      BY <2>2 DEF LoadTool, LoadAgain, InstallTool
    <3>3. is_loaded' \in {is_loaded, TRUE} /\ exists' \in {exists, TRUE}
            /\ callbacks' \in {callbacks, TRUE}
      BY <2>2 DEF LoadTool, LoadAgain, InstallTool
    <3> QED
      BY <2>1, <3>1, <3>2, <3>3 DEF TypeOK, Caller
  <2>3. ASSUME NEW q \in Queue, DestroyCallback(q)
        PROVE  TypeOK'
    BY <2>1, <2>3 DEF DestroyCallback, Reach, TypeOK, Caller, Dumper
  <2>4. ASSUME NEW p \in Dumper, BeginPass(p)
        PROVE  TypeOK'
    BY <2>1, <2>4 DEF BeginPass, Reach, TypeOK, Caller
  <2>5. ASSUME NEW p \in Dumper, VisitNowhere(p)
        PROVE  TypeOK'
    BY <2>1, <2>5 DEF VisitNowhere, Reach, TypeOK, Caller
  <2>6. ASSUME NEW p \in Dumper, EndPass(p)
        PROVE  TypeOK'
    <3>1. stage' = [stage EXCEPT ![p] = "pass"] \/ stage' = [stage EXCEPT ![p] = "dumped"]
      BY <2>6 DEF EndPass, Reach
    <3> QED
      BY <2>1, <2>6, <3>1 DEF EndPass, TypeOK, Caller
  <2>7. ASSUME NEW u \in Unloader, DecideDump(u)
        PROVE  TypeOK'
    <3>1. stage' = [stage EXCEPT ![u] = "pass"] \/ stage' = [stage EXCEPT ![u] = "dumped"]
      BY <2>7 DEF DecideDump, Reach
    <3> QED
      BY <2>1, <2>7, <3>1 DEF DecideDump, TypeOK, Caller, Dumper
  <2>8. ASSUME NEW u \in Unloader,
               CallUnload(u) \/ UnloadTool(u) \/ UnloadAgain(u) \/ RemoveCallbacks(u)
        PROVE  TypeOK'
    <3>1. PICK s \in {"lock", "remove", "done", "decide"} : stage' = [stage EXCEPT ![u] = s]
      BY <2>8 DEF CallUnload, UnloadTool, UnloadAgain, RemoveCallbacks, Reach
    <3>2. owner' \in {owner, u} /\ UNCHANGED <<exists, handler_on, passVars>>
      BY <2>8 DEF CallUnload, UnloadTool, UnloadAgain, RemoveCallbacks
    <3>3. is_loaded' \in {is_loaded, FALSE} /\ callbacks' \in {callbacks, FALSE}
      BY <2>8 DEF CallUnload, UnloadTool, UnloadAgain, RemoveCallbacks
    <3> QED
      BY <2>1, <3>1, <3>2, <3>3 DEF TypeOK, Caller, Dumper
  <2> QED
    BY <1>2, <2>2, <2>3, <2>4, <2>5, <2>6, <2>7, <2>8 DEF CallStep
<1>3. ASSUME NEW p \in Dumper, VisitEntry(p)
      PROVE  TypeOK'
  <2>1. PICK c \in table \cap valid, ready \in SUBSET active :
          /\ ready \subseteq {c}
          /\ DumpAll(ready)
          /\ active' = active \ ready
          /\ again' \in [Dumper -> BOOLEAN]
          /\ todo' = [todo EXCEPT ![p] = @ \ {c}]
          /\ UNCHANGED <<exists, table, index, valid, toolVars, owner, step, stage, late, lost>>
    BY <1>3, VisitShape
  <2>2. collected' \in Nat /\ dumped' \subseteq Context /\ count' = count
    BY <2>1, DumpOne DEF TypeOK, DumpAll
  <2>3. todo' \in [Dumper -> SUBSET Context]
    BY <2>1 DEF TypeOK
  <2> QED
    BY <2>1, <2>2, <2>3 DEF TypeOK
<1>4. ASSUME NEW u \in Unloader, DeleteTable(u)
      PROVE  TypeOK'
  BY <1>4 DEF DeleteTable, Reach, TypeOK, Caller, Dumper
<1>5. CASE UNCHANGED vars
  BY <1>5 DEF vars, TypeOK
<1> QED
  BY <1>1, <1>2, <1>3, <1>4, <1>5, NextCases

(* The types of the tool's variables and of the calls' control, for every number of
   contexts and calls. *)
THEOREM TypeCorrect == Spec => []TypeOK
  BY TypeInit, TypeStep, PTL DEF Spec

-----------------------------------------------------------------------------
(* The entries. *)

(* A context's step touches nobody else's entry. *)
LEMMA ContextFrame ==
  ASSUME TypeOK, NEW c \in Context, ContextStep(c), NEW d \in Context, d # c
  PROVE  /\ step'[d] = step[d]
         /\ index'[d] = index[d]
         /\ d \in table' <=> d \in table
         /\ d \in active' <=> d \in active
         /\ d \in valid' <=> d \in valid
         /\ d \in dumped' <=> d \in dumped
         /\ d \in late' <=> d \in late
<1> USE DEF tableVars, countVars, Become, TypeOK
<1>1. CASE DispatchCallback(c) \/ CompleteKernel(c) \/ CountRejected(c) \/ AllocNowhere(c)
             \/ FillNowhere(c) \/ HandleOrphan(c)
  BY <1>1 DEF DispatchCallback, CompleteKernel, CountRejected, AllocNowhere, FillNowhere,
              HandleOrphan
<1>2. CASE AllocEntry(c)
  BY <1>2 DEF AllocEntry
<1>3. CASE FillEntry(c) \/ PublishEntry(c)
  BY <1>3 DEF FillEntry, PublishEntry
<1>4. CASE HandleCompletion(c)
  BY <1>4 DEF HandleCompletion, DumpAll, ToDump
<1> QED
  BY <1>1, <1>2, <1>3, <1>4 DEF ContextStep, CallbackStep, HandlerStep

EntryOK(c) ==
  /\ c \in table => step[c] \in {"fill", "publish", "running", "complete"}
  /\ c \in valid <=> step[c] \in {"running", "complete", "handled", "orphaned"}
  /\ c \in table \cap active => c \notin dumped
  /\ c \in table /\ step[c] # "fill" => c \in active \cup dumped
  /\ c \in valid => c \in table \cup dumped \cup lost
  /\ c \in dumped => c \in valid
  /\ c \in dumped /\ TimestampOn => step[c] \in {"complete", "handled", "orphaned"}

(* A context's own step keeps its entry in order. *)
LEMMA EntryOwnStep ==
  ASSUME TypeOK, NEW c \in Context, EntryOK(c), ContextStep(c)
  PROVE  EntryOK(c)'
<1> USE DEF tableVars, countVars, Become, TypeOK, EntryOK
<1>1. CASE DispatchCallback(c) \/ CountRejected(c) \/ AllocNowhere(c) \/ FillNowhere(c)
  BY <1>1 DEF DispatchCallback, CountRejected, AllocNowhere, FillNowhere
<1>2. CASE CompleteKernel(c) \/ HandleOrphan(c)
  BY <1>2 DEF CompleteKernel, HandleOrphan
<1>3. CASE AllocEntry(c)
  BY <1>3 DEF AllocEntry
<1>4. CASE FillEntry(c)
  BY <1>4 DEF FillEntry
<1>5. CASE PublishEntry(c)
  BY <1>5 DEF PublishEntry
<1>6. CASE HandleCompletion(c)
  BY <1>6 DEF HandleCompletion, DumpAll, ToDump
<1> QED
  BY <1>1, <1>2, <1>3, <1>4, <1>5, <1>6 DEF ContextStep, CallbackStep, HandlerStep

LEMMA EntryStep ==
  TypeOK /\ EntryInv /\ DumpedWhenReady /\ [Next]_vars => EntryInv' /\ DumpedWhenReady'
<1> SUFFICES ASSUME TypeOK, EntryInv, DumpedWhenReady, [Next]_vars
             PROVE  EntryInv' /\ DumpedWhenReady'
  OBVIOUS
<1>1. \A d \in Context : EntryOK(d)
  BY DEF EntryInv, DumpedWhenReady, EntryOK
<1>2. ASSUME NEW c \in Context, ContextStep(c), NEW d \in Context
      PROVE  EntryOK(d)'
  <2>1. CASE d = c
    BY <1>1, <1>2, <2>1, EntryOwnStep
  <2>2. CASE d # c
    <3>1. UNCHANGED lost
      BY <1>2 DEF ContextStep, DispatchCallback, CallbackStep, CountRejected, AllocEntry,
                  AllocNowhere, FillEntry, PublishEntry, FillNowhere, CompleteKernel,
                  HandlerStep, HandleCompletion, HandleOrphan
    <3> QED
      BY <1>1, <1>2, <2>2, <3>1, ContextFrame DEF EntryOK
  <2> QED
    BY <2>1, <2>2
<1>3. ASSUME UNCHANGED entryVars, NEW d \in Context
      PROVE  EntryOK(d)'
  BY <1>1, <1>3 DEF entryVars, countVars, EntryOK
<1>4. ASSUME NEW p \in Dumper, VisitEntry(p), NEW d \in Context
      PROVE  EntryOK(d)'
  <2>1. PICK c \in table \cap valid, ready \in SUBSET active :
          /\ ready \subseteq {c}
          /\ \A x \in ready : Complete(x)
          /\ DumpAll(ready)
          /\ active' = active \ ready
          /\ UNCHANGED <<table, valid, step, lost>>
    BY <1>4, VisitShape
  <2>2. dumped' = dumped \cup ready
    BY <2>1 DEF DumpAll
  <2> QED
    BY <1>1, <2>1, <2>2 DEF EntryOK, Complete
<1>5. ASSUME NEW u \in Unloader, DeleteTable(u), NEW d \in Context
      PROVE  EntryOK(d)'
  BY <1>1, <1>5 DEF DeleteTable, countVars, EntryOK
<1>6. \A d \in Context : EntryOK(d)'
  BY <1>2, <1>3, <1>4, <1>5, CallLeavesEntries, NextCases
  DEF vars, entryVars, tableVars, countVars
<1>7. TypeOK'
  BY TypeStep
<1>8. dumped' \subseteq Context
  BY <1>7 DEF TypeOK
<1> QED
  BY <1>6, <1>8 DEF EntryInv, DumpedWhenReady, EntryOK

(* Entries are dumped only when their dispatch callback published them and, with
   timestamps, when their kernel completed, whichever of the three dumps them. *)
THEOREM DumpsAreReady == Spec => [](EntryInv /\ DumpedWhenReady)
<1>1. Init => EntryInv /\ DumpedWhenReady
  BY DEF Init, EntryInv, DumpedWhenReady
<1> QED
  BY <1>1, TypeCorrect, EntryStep, PTL DEF Spec

-----------------------------------------------------------------------------
(* The counts and the indices. *)

LEMMA BegunFinite == IsFiniteSet(Begun) /\ Cardinality(Begun) \in Nat
  BY FS_Subset, FS_CardinalityType, ContextAssumption DEF Begun

(* A dispatch is counted once, when its callback goes on from the filter. *)
LEMMA CountOne ==
  ASSUME TypeOK, NEW c \in Context, step[c] = "enter",
         NEW s \in {"rejected", "fill", "strayed"}, step' = [step EXCEPT ![c] = s]
  PROVE  Cardinality(Begun') = Cardinality(Begun) + 1
<1>1. Begun' = Begun \cup {c} /\ c \notin Begun
  BY DEF Begun, TypeOK
<1> QED
  BY <1>1, BegunFinite, FS_AddElement

LEMMA BegunStays ==
  ASSUME TypeOK, NEW c \in Context, NEW s, step' = [step EXCEPT ![c] = s],
         step[c] \in {"idle", "enter"} <=> s \in {"idle", "enter"}
  PROVE  Begun' = Begun
  BY DEF Begun, TypeOK

LEMMA CountStep ==
  TypeOK /\ EntryInv /\ CountInv /\ [Next]_vars => CountInv'
<1> SUFFICES ASSUME TypeOK, EntryInv, CountInv, [Next]_vars
             PROVE  CountInv'
  OBVIOUS
<1> USE DEF tableVars, countVars, Become
<1>1. ASSUME NEW c \in Context, CountRejected(c) \/ AllocEntry(c) \/ AllocNowhere(c)
      PROVE  CountInv'
  <2>1. PICK s \in {"rejected", "fill", "strayed"} : step' = [step EXCEPT ![c] = s]
    BY <1>1 DEF CountRejected, AllocEntry, AllocNowhere
  <2>2. step[c] = "enter" /\ count' = count + 1 /\ UNCHANGED <<collected, dumped>>
    BY <1>1 DEF CountRejected, AllocEntry, AllocNowhere
  <2> QED
    BY <2>1, <2>2, CountOne DEF CountInv
<1>2. ASSUME NEW c \in Context,
             DispatchCallback(c) \/ FillEntry(c) \/ PublishEntry(c) \/ FillNowhere(c)
               \/ CompleteKernel(c) \/ HandleOrphan(c)
      PROVE  CountInv'
  <2>1. PICK s \in {"enter", "publish", "running", "strayed", "complete", "orphaned"} :
          /\ step' = [step EXCEPT ![c] = s]
          /\ step[c] \in {"idle", "enter"} <=> s \in {"idle", "enter"}
    BY <1>2 DEF DispatchCallback, FillEntry, PublishEntry, FillNowhere, CompleteKernel,
                HandleOrphan
  <2>2. UNCHANGED countVars
    BY <1>2 DEF DispatchCallback, FillEntry, PublishEntry, FillNowhere, CompleteKernel,
                HandleOrphan
  <2>3. Begun' = Begun
    BY <2>1, BegunStays
  <2> QED
    BY <2>2, <2>3 DEF CountInv
<1>3. ASSUME NEW c \in Context, HandleCompletion(c)
      PROVE  CountInv'
  <2>1. Begun' = Begun
    BY <1>3, BegunStays DEF HandleCompletion
  <2>2. DumpAll(ToDump(c)) /\ ToDump(c) \subseteq {c} /\ ToDump(c) \cap dumped = {}
    BY <1>3 DEF HandleCompletion, ToDump, EntryInv
  <2>3. collected' = Cardinality(dumped')
    BY <2>2, DumpOne DEF CountInv
  <2> QED
    BY <2>1, <2>2, <2>3 DEF CountInv, DumpAll
<1>4. ASSUME NEW p \in Dumper, VisitEntry(p)
      PROVE  CountInv'
  <2>1. PICK c \in table \cap valid, ready \in SUBSET active :
          ready \subseteq {c} /\ DumpAll(ready) /\ UNCHANGED step
    BY <1>4, VisitShape
  <2>2. c \in Context /\ ready \cap dumped = {}
    BY <2>1 DEF EntryInv, TypeOK
  <2>3. collected' = Cardinality(dumped')
    BY <2>1, <2>2, DumpOne DEF CountInv
  <2> QED
    BY <2>1, <2>3 DEF CountInv, DumpAll, Begun
<1>5. ASSUME UNCHANGED <<countVars, step>>
      PROVE  CountInv'
  BY <1>5 DEF CountInv, Begun
<1>6. ASSUME NEW u \in Unloader, DeleteTable(u)
      PROVE  CountInv'
  BY <1>5, <1>6 DEF DeleteTable
<1> QED
  BY <1>1, <1>2, <1>3, <1>4, <1>5, <1>6, CallLeavesEntries, NextCases
  DEF ContextStep, CallbackStep, HandlerStep, vars, entryVars

LEMMA DumpedBegun ==
  ASSUME TypeOK, EntryInv, DumpedWhenReady
  PROVE  dumped \subseteq Begun
  BY DEF TypeOK, EntryInv, DumpedWhenReady, Begun

LEMMA CountInductive == Spec => []CountInv
<1>1. Init => CountInv
  <2> SUFFICES ASSUME Init
               PROVE  CountInv
    OBVIOUS
  <2>1. Begun = {} /\ dumped = {} /\ count = 0 /\ collected = 0
    BY DEF Init, Begun
  <2> QED
    BY <2>1, FS_EmptySet DEF CountInv
<1> QED
  BY <1>1, TypeCorrect, DumpsAreReady, CountStep, PTL DEF Spec

(* The results of an entry are published by one of the handler, the destroy callback and
   the unloaders, and context_collected is exactly the number of published ones and never
   passes context_count. *)
THEOREM CollectedExactlyOnce == Spec => []CollectedOnce
<1>1. TypeOK /\ EntryInv /\ DumpedWhenReady /\ CountInv => CollectedOnce
  <2> SUFFICES ASSUME TypeOK, EntryInv, DumpedWhenReady, CountInv
               PROVE  Cardinality(dumped) <= Cardinality(Begun)
    BY DEF CollectedOnce, CountInv
  <2> QED
    BY DumpedBegun, BegunFinite, FS_Subset
<1> QED
  BY <1>1, TypeCorrect, DumpsAreReady, CountInductive, PTL

LEMMA IndexStep ==
  TypeOK /\ EntryInv /\ IndexNeverRepeated /\ [Next]_vars => IndexNeverRepeated'
<1> SUFFICES ASSUME TypeOK, EntryInv, IndexNeverRepeated, [Next]_vars
             PROVE  IndexNeverRepeated'
  OBVIOUS
<1> USE DEF tableVars, countVars
<1>1. ASSUME table' \subseteq table, UNCHANGED index, count' = count \/ count' = count + 1
      PROVE  IndexNeverRepeated'
  BY <1>1 DEF IndexNeverRepeated, TypeOK
<1>2. ASSUME NEW c \in Context, AllocEntry(c)
      PROVE  IndexNeverRepeated'
  <2>1. c \notin table /\ table' = table \cup {c} /\ count' = count + 1
    BY <1>2 DEF AllocEntry, EntryInv
  <2>2. index'[c] = count /\ \A d \in table : index'[d] = index[d] /\ index[d] < count
    BY <1>2, <2>1 DEF AllocEntry, NextIndex, TypeOK, IndexNeverRepeated
  <2> QED
    BY <2>1, <2>2 DEF IndexNeverRepeated, TypeOK
<1>3. ASSUME NEW c \in Context, ContextStep(c), ~AllocEntry(c)
      PROVE  IndexNeverRepeated'
  <2>1. table' \subseteq table /\ UNCHANGED index /\ (count' = count \/ count' = count + 1)
    BY <1>3 DEF ContextStep, DispatchCallback, CallbackStep, CountRejected, AllocNowhere,
                FillEntry, PublishEntry, FillNowhere, CompleteKernel, HandlerStep,
                HandleCompletion, HandleOrphan, DumpAll
  <2> QED
    BY <1>1, <2>1
<1>4. ASSUME NEW p \in Dumper, VisitEntry(p)
      PROVE  IndexNeverRepeated'
  <2>1. UNCHANGED <<table, index, count>>
    BY <1>4, VisitShape DEF DumpAll
  <2> QED
    BY <1>1, <2>1
<1>5. ASSUME NEW u \in Unloader, DeleteTable(u)
      PROVE  IndexNeverRepeated'
  BY <1>1, <1>5 DEF DeleteTable
<1>6. ASSUME UNCHANGED <<table, index, count>>
      PROVE  IndexNeverRepeated'
  BY <1>1, <1>6
<1> QED
  BY <1>2, <1>3, <1>4, <1>5, <1>6, CallLeavesEntries, NextCases DEF vars, entryVars

(* "context_array corruption, index repeated" is out of reach for every number of
   contexts, filtered or not, and every order of erasing, unloading and loading again. *)
THEOREM IndicesDiffer == Spec => []IndexNeverRepeated
<1>1. Init => IndexNeverRepeated
  BY DEF Init, IndexNeverRepeated
<1> QED
  BY <1>1, TypeCorrect, DumpsAreReady, IndexStep, PTL DEF Spec

-----------------------------------------------------------------------------
(* The calls. *)

CallInv == MutexInv /\ UnloadedInv /\ DestroyInv

LEMMA CallsApart ==
  /\ \A p \in Dumper : p \in Caller /\ p # Nobody
  /\ \A l \in Loader : l \in Caller /\ l \notin Dumper
  /\ \A u \in Unloader : u \in Dumper /\ u \in Caller /\ u \notin Queue
  /\ \A q \in Queue : q \in Dumper /\ q \in Caller /\ q \notin Unloader
  /\ \A c \in Context : QueueOf[c] \in Queue
  BY CallAssumption, QueueAssumption DEF Caller, Dumper

LEMMA CallInvStep == TypeOK /\ CallInv /\ [Next]_vars => CallInv'
<1> SUFFICES ASSUME TypeOK, MutexInv, UnloadedInv, DestroyInv, [Next]_vars
             PROVE  CallInv'
  BY DEF CallInv
<1> USE CallsApart DEF tableVars, countVars, toolVars, passVars
<1>1. ASSUME UNCHANGED <<owner, stage, is_loaded, step>>
      PROVE  CallInv'
  BY <1>1 DEF CallInv, MutexInv, UnloadedInv, DestroyInv
<1>2. ASSUME NEW c \in Context, ContextStep(c)
      PROVE  CallInv'
  <2>1. UNCHANGED <<owner, stage, is_loaded>>
    BY <1>2, ContextLeavesCalls
  <2>2. MutexInv' /\ UnloadedInv'
    BY <2>1 DEF MutexInv, UnloadedInv
  <2>3. \A d \in Context : d # c => step'[d] = step[d]
    BY <1>2, ContextFrame
  <2>4. stage[QueueOf[c]] # "start" => step'[c] \notin {"enter", "fill", "publish"}
    <3>1. CASE DispatchCallback(c) \/ CompleteKernel(c) \/ HandlerStep(c)
      BY <3>1 DEF DispatchCallback, CompleteKernel, HandlerStep, HandleCompletion,
                  HandleOrphan, Become, TypeOK
    <3>2. CASE CallbackStep(c)
      BY <3>2 DEF CallbackStep, CountRejected, AllocEntry, AllocNowhere, FillEntry,
                  PublishEntry, FillNowhere, DestroyInv
    <3> QED
      BY <1>2, <3>1, <3>2 DEF ContextStep
  <2>5. DestroyInv'
    BY <2>1, <2>3, <2>4 DEF DestroyInv
  <2> QED
    BY <2>2, <2>5 DEF CallInv
<1>3. ASSUME NEW l \in Loader, LoadTool(l) \/ LoadAgain(l) \/ InstallTool(l)
      PROVE  CallInv'
  <2>1. \A p \in Dumper : stage'[p] = stage[p]
    BY <1>3 DEF LoadTool, LoadAgain, InstallTool, Reach, TypeOK
  <2>2. MutexInv'
    <3>1. CASE owner' = owner
      BY <2>1, <3>1 DEF MutexInv
    <3>2. CASE owner = Nobody
      BY <2>1, <3>2, CallAssumption DEF MutexInv, Dumper
    <3> QED
      BY <1>3, <3>1, <3>2 DEF LoadTool, LoadAgain, InstallTool, MutexFree
  <2>3. UnloadedInv'
    <3>1. CASE ~Unloading
      BY <2>1, <3>1 DEF UnloadedInv, Unloading
    <3>2. CASE UNCHANGED is_loaded
      BY <2>1, <3>2 DEF UnloadedInv
    <3> QED
      BY <1>3, <3>1, <3>2 DEF LoadTool, LoadAgain, InstallTool
  <2>4. UNCHANGED step
    BY <1>3 DEF LoadTool, LoadAgain, InstallTool
  <2>5. DestroyInv'
    BY <2>1, <2>4 DEF DestroyInv
  <2> QED
    BY <2>2, <2>3, <2>5 DEF CallInv
<1>4. ASSUME NEW q \in Queue, DestroyCallback(q)
      PROVE  CallInv'
  <2>1. stage'[q] = "pass" /\ \A p \in Dumper \ {q} : stage'[p] = stage[p]
    BY <1>4 DEF DestroyCallback, Reach, TypeOK
  <2>2. UNCHANGED <<owner, is_loaded, step>>
    BY <1>4 DEF DestroyCallback
  <2>3. MutexInv' /\ UnloadedInv'
    BY <2>1, <2>2 DEF MutexInv, UnloadedInv
  <2>4. DestroyInv'
    BY <1>4, <2>1, <2>2 DEF DestroyInv, DestroyCallback
  <2> QED
    BY <2>3, <2>4 DEF CallInv
<1>5. ASSUME NEW p \in Dumper, BeginPass(p) \/ VisitNowhere(p) \/ EndPass(p)
      PROVE  CallInv'
  <2>1. \A x \in Dumper \ {p} : stage'[x] = stage[x]
    BY <1>5 DEF BeginPass, VisitNowhere, EndPass, Reach, TypeOK
  <2>2. stage[p] \in {"pass", "scan"} /\ stage'[p] # "start" /\ UNCHANGED <<is_loaded, step>>
    BY <1>5 DEF BeginPass, VisitNowhere, EndPass, Reach, TypeOK, Caller
  <2>3. UnloadedInv' /\ DestroyInv'
    BY <2>1, <2>2 DEF UnloadedInv, DestroyInv
  <2>4. MutexInv'
    <3>1. CASE BeginPass(p)
      <4>1. owner = Nobody /\ owner' = p
        BY <3>1 DEF BeginPass, MutexFree
      <4> QED
        BY <2>1, <4>1, CallAssumption DEF MutexInv, Dumper
    <3>2. CASE VisitNowhere(p)
      BY <2>1, <3>2 DEF VisitNowhere, Reach, TypeOK, Caller, MutexInv
    <3>3. CASE EndPass(p)
      <4>1. stage'[p] # "scan" /\ stage[p] = "scan"
        BY <3>3 DEF EndPass, Reach, TypeOK, Caller
      <4> QED
        BY <2>1, <4>1 DEF MutexInv
    <3> QED
      BY <1>5, <3>1, <3>2, <3>3
  <2> QED
    BY <2>3, <2>4 DEF CallInv
<1>6. ASSUME NEW u \in Unloader,
             CallUnload(u) \/ UnloadTool(u) \/ UnloadAgain(u) \/ RemoveCallbacks(u)
               \/ DecideDump(u) \/ DeleteTable(u)
      PROVE  CallInv'
  <2>1. (\A x \in Dumper \ {u} : stage'[x] = stage[x]) /\ UNCHANGED step
    BY <1>6 DEF CallUnload, UnloadTool, UnloadAgain, RemoveCallbacks, DecideDump, DeleteTable,
                Reach, TypeOK
  <2>2. stage'[u] \in {"lock", "done"} \/ ~is_loaded'
    BY <1>6 DEF CallUnload, UnloadTool, UnloadAgain, RemoveCallbacks, DecideDump, DeleteTable,
                Reach, TypeOK, UnloadedInv
  <2>3. (is_loaded' => is_loaded) /\ stage'[u] # "scan"
    BY <1>6 DEF CallUnload, UnloadTool, UnloadAgain, RemoveCallbacks, DecideDump, DeleteTable,
                Reach, TypeOK
  <2>4. UnloadedInv' /\ DestroyInv'
    BY <2>1, <2>2, <2>3 DEF UnloadedInv, DestroyInv
  <2>5. MutexInv'
    <3>1. owner' = owner \/ owner = Nobody
      BY <1>6 DEF CallUnload, UnloadTool, UnloadAgain, RemoveCallbacks, DecideDump,
                  DeleteTable, MutexFree
    <3> QED
      BY <2>1, <2>3, <3>1, CallAssumption DEF MutexInv, Dumper
  <2> QED
    BY <2>4, <2>5 DEF CallInv
<1>7. ASSUME NEW p \in Dumper, VisitEntry(p)
      PROVE  CallInv'
  BY <1>1, <1>7 DEF VisitEntry
<1>8. CASE UNCHANGED vars
  BY <1>1, <1>8 DEF vars
<1> QED
  BY <1>2, <1>3, <1>4, <1>5, <1>6, <1>7, <1>8, NextCases DEF CallStep

LEMMA CallInductive == Spec => []CallInv
<1>1. Init => CallInv
  BY CallsApart DEF Init, CallInv, MutexInv, UnloadedInv, DestroyInv, Caller
<1> QED
  BY <1>1, TypeCorrect, CallInvStep, PTL DEF Spec

-----------------------------------------------------------------------------
(* The passes. *)

PassOK(p, c) ==
  Concerns(p, c) =>
    /\ stage[p] = "scan" => again[p] \/ c \in todo[p] \/ Excused(p, c)
    /\ stage[p] = "dumped" => Excused(p, c)

EntriesInv == TypeOK /\ EntryInv /\ DumpedWhenReady /\ CountInv /\ CallInv

(* An entry that is added is no business of a destroy callback, whose queue takes no
   dispatches, and is late for an unloader; no pass is under way meanwhile. *)
LEMMA AllocLate ==
  ASSUME EntriesInv, NEW c \in Context, AllocEntry(c), NEW p \in Dumper, Concerns(p, c)
  PROVE  stage[p] # "scan" /\ (stage[p] = "dumped" => p \in Unloader /\ c \in late')
<1>1. step[c] = "enter" /\ owner = Nobody
  BY DEF AllocEntry, MutexFree
<1>2. stage[p] # "scan"
  BY <1>1, CallsApart DEF EntriesInv, CallInv, MutexInv
<1>3. CASE p \in Unloader
  BY <1>2, <1>3 DEF AllocEntry, EntriesInv, CallInv, UnloadedInv
<1>4. CASE p \notin Unloader
  <2>1. stage[p] = "start"
    BY <1>1, <1>4 DEF Concerns, EntriesInv, CallInv, DestroyInv
  <2> QED
    BY <2>1
<1> QED
  BY <1>3, <1>4

(* If the counts are equal, every dispatch counted so far has been dumped. *)
LEMMA EqualCounts ==
  ASSUME EntriesInv, collected = count
  PROVE  table \subseteq dumped
<1>1. dumped \subseteq Begun
  BY DumpedBegun DEF EntriesInv
<1>2. dumped = Begun
  BY <1>1, BegunFinite, FS_Subset DEF EntriesInv, CountInv
<1> QED
  BY <1>2 DEF EntriesInv, TypeOK, EntryInv, Begun

LEMMA PassStep == EntriesInv /\ PassInv /\ [Next]_vars => PassInv'
<1> SUFFICES ASSUME EntriesInv, PassInv, [Next]_vars, NEW p \in Dumper, NEW c \in table'
             PROVE  PassOK(p, c)'
  BY DEF PassInv, PassOK
<1> USE CallsApart DEF tableVars, countVars, toolVars, passVars
<1>1. TypeOK /\ c \in Context
  <2>1. TypeOK'
    BY TypeStep DEF EntriesInv
  <2> QED
    BY <2>1 DEF TypeOK, EntriesInv
<1>2. c \in table => PassOK(p, c)
  BY DEF PassInv, PassOK
<1>3. ASSUME c \in table, dumped \subseteq dumped', late \subseteq late',
             stage'[p] = stage[p], todo'[p] = todo[p], again[p] => again'[p]
      PROVE  PassOK(p, c)'
  BY <1>2, <1>3 DEF PassOK, Excused, Concerns
<1>4. ASSUME NEW d \in Context, ContextStep(d)
      PROVE  PassOK(p, c)'
  <2>1. UNCHANGED <<passVars, stage>>
    BY <1>4, ContextLeavesCalls
  <2>2. CASE c \in table
    <3>1. dumped \subseteq dumped' /\ late \subseteq late'
      BY <1>4 DEF ContextStep, DispatchCallback, CallbackStep, CountRejected, AllocEntry,
                  AllocNowhere, FillEntry, PublishEntry, FillNowhere, CompleteKernel,
                  HandlerStep, HandleCompletion, HandleOrphan, DumpAll
    <3> QED
      BY <1>3, <2>1, <2>2, <3>1
  <2>3. CASE c \notin table
    <3>1. AllocEntry(d) /\ c = d
      BY <1>4, <2>3 DEF ContextStep, DispatchCallback, CallbackStep, CountRejected, AllocEntry,
                  AllocNowhere, FillEntry, PublishEntry, FillNowhere, CompleteKernel,
                  HandlerStep, HandleCompletion, HandleOrphan
    <3> QED
      BY <2>1, <3>1, AllocLate DEF PassOK, Excused, Concerns
  <2> QED
    BY <2>2, <2>3
<1>5. CASE CallStep
  <2>1. UNCHANGED <<table, dumped, late>>
    BY <1>5, CallLeavesEntries DEF entryVars
  <2>2. CASE stage'[p] = stage[p] /\ todo'[p] = todo[p] /\ again'[p] = again[p]
    BY <1>3, <2>1, <2>2
  <2>3. CASE stage'[p] \notin {"scan", "dumped"}
    BY <2>3 DEF PassOK
  <2>4. ASSUME NEW x \in Dumper, BeginPass(x) \/ VisitNowhere(x) \/ EndPass(x)
        PROVE  PassOK(p, c)'
    <3>1. CASE x # p
      BY <1>1, <2>2, <2>4, <3>1 DEF BeginPass, VisitNowhere, EndPass, Reach, TypeOK
    <3>2. CASE x = p /\ BeginPass(x)
      BY <1>1, <2>1, <3>2 DEF BeginPass, Reach, TypeOK, PassOK
    <3>3. CASE x = p /\ VisitNowhere(x)
      BY <1>1, <2>3, <3>3 DEF VisitNowhere, Reach, TypeOK
    <3>4. CASE x = p /\ EndPass(x)
      <4>1. stage[p] = "scan" /\ todo[p] = {}
        BY <3>4 DEF EndPass
      <4>2. stage'[p] = IF again[p] THEN "pass" ELSE "dumped"
        BY <1>1, <3>4 DEF EndPass, Reach, TypeOK
      <4>3. CASE again[p]
        BY <2>3, <4>2, <4>3
      <4>4. CASE ~again[p]
        BY <1>2, <2>1, <4>1, <4>2, <4>4 DEF PassOK, Excused, Concerns
      <4> QED
        BY <4>3, <4>4
    <3> QED
      BY <2>4, <3>1, <3>2, <3>3, <3>4
  <2>5. ASSUME NEW l \in Loader, LoadTool(l) \/ LoadAgain(l) \/ InstallTool(l)
        PROVE  PassOK(p, c)'
    BY <1>1, <2>2, <2>5 DEF LoadTool, LoadAgain, InstallTool, Reach, TypeOK
  <2>6. ASSUME NEW q \in Queue, DestroyCallback(q)
        PROVE  PassOK(p, c)'
    <3>1. CASE q = p
      BY <1>1, <2>3, <2>6, <3>1 DEF DestroyCallback, Reach, TypeOK
    <3>2. CASE q # p
      BY <1>1, <2>2, <2>6, <3>2 DEF DestroyCallback, Reach, TypeOK
    <3> QED
      BY <3>1, <3>2
  <2>7. ASSUME NEW u \in Unloader,
               CallUnload(u) \/ UnloadTool(u) \/ UnloadAgain(u) \/ RemoveCallbacks(u)
        PROVE  PassOK(p, c)'
    <3>1. CASE u = p
      BY <1>1, <2>3, <2>7, <3>1
      DEF CallUnload, UnloadTool, UnloadAgain, RemoveCallbacks, Reach, TypeOK
    <3>2. CASE u # p
      BY <1>1, <2>2, <2>7, <3>2
      DEF CallUnload, UnloadTool, UnloadAgain, RemoveCallbacks, Reach, TypeOK
    <3> QED
      BY <3>1, <3>2
  <2>8. ASSUME NEW u \in Unloader, DecideDump(u)
        PROVE  PassOK(p, c)'
    <3>1. CASE u # p
      BY <1>1, <2>2, <2>8, <3>1 DEF DecideDump, Reach, TypeOK
    <3>2. CASE u = p /\ Outstanding
      BY <1>1, <2>3, <2>8, <3>2 DEF DecideDump, Reach, TypeOK
    <3>3. CASE u = p /\ ~Outstanding
      <4>1. c \in dumped
        BY <2>1, <3>3, EqualCounts DEF Outstanding
      <4> QED
        BY <2>1, <4>1 DEF PassOK, Excused
    <3> QED
      BY <3>1, <3>2, <3>3
  <2> QED
    BY <1>5, <2>4, <2>5, <2>6, <2>7, <2>8 DEF CallStep
<1>6. ASSUME NEW x \in Dumper, VisitEntry(x)
      PROVE  PassOK(p, c)'
  <2>1. PICK d \in table \cap valid, ready \in SUBSET active :
          /\ stage[x] = "scan"
          /\ DumpAll(ready)
          /\ again[x] => again'[x]
          /\ Concerns(x, d) /\ d \in active => d \in ready \/ again'[x]
          /\ todo' = [todo EXCEPT ![x] = @ \ {d}]
          /\ UNCHANGED <<table, stage, late>>
          /\ \A y \in Dumper \ {x} : again'[y] = again[y]
    BY <1>6, <1>1, VisitShape
  <2>2. dumped' = dumped \cup ready
    BY <2>1 DEF DumpAll
  <2>3. CASE x # p
    BY <1>1, <1>3, <2>1, <2>2, <2>3 DEF TypeOK
  <2>4. CASE x = p
    <3>1. c \in table /\ stage'[p] = stage[p] /\ stage[p] = "scan"
      BY <2>1, <2>4
    <3>2. todo'[p] = todo[p] \ {d}
      BY <1>1, <2>1, <2>4 DEF TypeOK
    <3>3. d \in active \cup dumped
      BY <2>1 DEF EntriesInv, TypeOK, EntryInv
    <3>4. Concerns(p, d) => again'[p] \/ d \in dumped'
      BY <2>1, <2>2, <2>4, <3>3
    <3> QED
      BY <1>2, <2>1, <2>2, <2>4, <3>1, <3>2, <3>4 DEF PassOK, Excused, Concerns
  <2> QED
    BY <2>3, <2>4
<1>7. ASSUME NEW u \in Unloader, DeleteTable(u)
      PROVE  FALSE
  BY <1>7 DEF DeleteTable
<1>8. CASE UNCHANGED vars
  BY <1>3, <1>8 DEF vars
<1> QED
  BY <1>4, <1>5, <1>6, <1>7, <1>8, NextCases

LEMMA EntriesInductive == Spec => []EntriesInv
  BY TypeCorrect, DumpsAreReady, CountInductive, CallInductive, PTL DEF EntriesInv

LEMMA PassInductive == Spec => []PassInv
<1>1. Init => PassInv
  BY DEF Init, PassInv
<1> QED
  BY <1>1, EntriesInductive, PassStep, PTL DEF Spec

(* Unloading deletes no results but those of dispatches that were under way when the
   callbacks were removed, whatever destroy callbacks, handlers and other unloaders do. *)
THEOREM OnlyLateEntriesLost == Spec => []OnlyLateLost
<1>1. Init => OnlyLateLost
  BY DEF Init, OnlyLateLost
<1>2. PassInv /\ OnlyLateLost /\ [Next]_vars => OnlyLateLost'
  <2> SUFFICES ASSUME PassInv, OnlyLateLost, [Next]_vars
               PROVE  OnlyLateLost'
    OBVIOUS
  <2>1. ASSUME UNCHANGED lost, late \subseteq late'
        PROVE  OnlyLateLost'
    BY <2>1 DEF OnlyLateLost
  <2>2. ASSUME NEW c \in Context, ContextStep(c)
        PROVE  OnlyLateLost'
    BY <2>1, <2>2 DEF ContextStep, DispatchCallback, CallbackStep, CountRejected, AllocEntry,
                  AllocNowhere, FillEntry, PublishEntry, FillNowhere, CompleteKernel,
                  HandlerStep, HandleCompletion, HandleOrphan
  <2>3. ASSUME NEW p \in Dumper, VisitEntry(p)
        PROVE  OnlyLateLost'
    BY <2>1, <2>3 DEF VisitEntry
  <2>4. ASSUME NEW u \in Unloader, DeleteTable(u)
        PROVE  OnlyLateLost'
    <3>1. \A c \in table : c \in dumped \/ c \in late
      BY <2>4, CallsApart DEF DeleteTable, PassInv, Concerns, Excused
    <3> QED
      BY <2>4, <3>1 DEF DeleteTable, OnlyLateLost
  <2> QED
    BY <2>1, <2>2, <2>3, <2>4, CallLeavesEntries, NextCases DEF vars, entryVars
<1> QED
  BY <1>1, <1>2, PassInductive, PTL DEF Spec

(* When a queue's destroy callback has dumped, every dispatch made on the queue has been
   dumped, or was lost with the table. *)
THEOREM QueuesDrained == Spec => []QueueDrained
<1>1. EntriesInv /\ PassInv => QueueDrained
  <2> SUFFICES ASSUME EntriesInv, PassInv, NEW c \in Context, stage[QueueOf[c]] = "dumped",
                      step[c] \in {"running", "complete", "handled", "orphaned"},
                      c \notin dumped \cup lost
               PROVE  FALSE
    BY DEF QueueDrained
  <2>1. c \in table
    BY DEF EntriesInv, EntryInv
  <2> QED
    BY <2>1, CallsApart DEF PassInv, Concerns, Excused
<1> QED
  BY <1>1, EntriesInductive, PassInductive, PTL
=============================================================================
