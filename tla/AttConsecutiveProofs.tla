------------------------ MODULE AttConsecutiveProofs ------------------------
(***************************************************************************)
(* Proofs about consecutive-kernel thread tracing, for every set of        *)
(* dispatches, every targeting, every window length and any number of      *)
(* concurrent callbacks: type correctness, the two safety invariants that  *)
(* tie captured ids, context and label together, the two that bound a      *)
(* window, and that the windows are those TraceWindow promises.            *)
(***************************************************************************)
EXTENDS AttConsecutive, TargetingProofs, FiniteSetTheorems

USE DispatchAssumption, ConsecutiveAssumption, MaxIdAssumption
USE DEF IdleLabel, WithinCount, LabelWith, NoneLeft, FileTrace, RequestAfterStop

(* The handler's lock is reached only after is_targeted_kernel has answered. *)
PhaseAfterAnswer ==
  \A d \in Dispatch : phase[d] # "enter" => pc[d] = "answered"

(* Dispatches that have left the ENTER callback. *)
Entered == {d \in Dispatch : phase[d] \in {"running", "erase", "done"}}

(* Only those are members of a window, open or closed. *)
MembersEntered ==
  /\ session \subseteq Entered
  /\ \A w \in filed : w.members \subseteq Entered

(* The inductive invariant, apart from the sizes of windows. *)
AttInv ==
  /\ AttTypeOK
  /\ MembersEntered
  /\ CapturedAreTraced
  /\ LabelIsLowest

-----------------------------------------------------------------------------
(* AttConsecutive uses KernelTarget as it is: each of its steps is a step of KernelTarget
   or leaves KernelTarget's variables alone. *)
LEMMA AttStepIsTargetStep == [AttNext]_vars => [TargetNext]_targetVars
<1> SUFFICES ASSUME [AttNext]_vars PROVE [TargetNext]_targetVars
  OBVIOUS
<1>1. CASE Targeting
  BY <1>1 DEF Targeting, TargetNext
<1>2. ASSUME NEW d \in Dispatch, EnterCallback(d) PROVE [TargetNext]_targetVars
  BY <1>2 DEF EnterCallback, TargetNext
<1>3. ASSUME NEW d \in Dispatch, EnterCheck(d) PROVE [TargetNext]_targetVars
  BY <1>3 DEF EnterCheck
<1>4. ASSUME NEW d \in Dispatch, EnterLocked(d) PROVE [TargetNext]_targetVars
  BY <1>4 DEF EnterLocked, OpenWindow, CaptureDispatch, PassDispatch
<1>5. ASSUME NEW d \in Dispatch, FinishCheck(d) PROVE [TargetNext]_targetVars
  BY <1>5 DEF FinishCheck
<1>6. ASSUME NEW d \in Dispatch, FinishLocked(d) PROVE [TargetNext]_targetVars
  BY <1>6 DEF FinishLocked, EraseFinished, StopWindow
<1>7. CASE UNCHANGED vars
  BY <1>7 DEF vars
<1>8. QED
  BY <1>1, <1>2, <1>3, <1>4, <1>5, <1>6, <1>7 DEF AttNext

(* What is proved of is_targeted_kernel holds inside the tracing callback. *)
THEOREM AttUsesTargeting == AttSpec => TargetSpec
<1>1. AttInit => TargetInit
  BY DEF AttInit
<1>2. QED
  BY <1>1, AttStepIsTargetStep, PTL DEF AttSpec, TargetSpec

-----------------------------------------------------------------------------
(* The steps of the callback, with the invariant after them. *)
LEMMA AttInvInit == AttInit => AttInv
<1> SUFFICES ASSUME AttInit PROVE AttInv
  OBVIOUS
<1> USE DEF AttInit
<1>1. AttTypeOK
  BY DEF AttTypeOK
<1>2. MembersEntered
  BY DEF MembersEntered
<1>3. CapturedAreTraced /\ LabelIsLowest
  BY DEF CapturedAreTraced, LabelIsLowest
<1>4. QED
  BY <1>1, <1>2, <1>3 DEF AttInv

(* The unlocked reads move a dispatch on; a captured dispatch never returns early. *)
LEMMA ChecksPreserve ==
  ASSUME AttInv, NEW d \in Dispatch, EnterCheck(d) \/ FinishCheck(d)
  PROVE  AttInv'
<1>1. AttTypeOK'
  BY DEF AttInv, AttTypeOK, EnterCheck, FinishCheck
<1>2. MembersEntered'
  BY DEF AttInv, AttTypeOK, MembersEntered, Entered, EnterCheck, FinishCheck
<1>3. CapturedAreTraced'
  <2>1. CASE EnterCheck(d)
    BY <2>1 DEF AttInv, AttTypeOK, MembersEntered, Entered, CapturedAreTraced, EnterCheck
  <2>2. CASE FinishCheck(d)
    BY <2>2 DEF AttInv, AttTypeOK, CapturedAreTraced, FinishCheck
  <2>3. QED
    BY <2>1, <2>2
<1>4. LabelIsLowest'
  BY DEF AttInv, LabelIsLowest, EnterCheck, FinishCheck
<1>5. QED
  BY <1>1, <1>2, <1>3, <1>4 DEF AttInv

(* Capturing a dispatch, in an open window or one that opens with it. *)
LEMMA CapturePreserves ==
  ASSUME AttInv, NEW d \in Dispatch, OpenWindow(d) \/ CaptureDispatch(d)
  PROVE  AttInv'
<1>1. /\ phase[d] = "window"
      /\ phase' = [phase EXCEPT ![d] = "running"]
      /\ session' = session \cup {d}
      /\ captured' = captured \cup {d}
      /\ min_dispatch' = IF min_dispatch > d THEN d ELSE min_dispatch
      /\ num_consecutive' = LocalCount(d) + 1
      /\ isprofiling' = TRUE
      /\ context' = TRUE
      /\ UNCHANGED <<stop_profiling, filed>>
      /\ overtaken' = overtaken
  BY DEF AttInv, AttTypeOK, CapturedAreTraced, LabelIsLowest, OpenWindow, CaptureDispatch,
         Capture
<1>2. AttTypeOK'
  BY <1>1 DEF AttInv, AttTypeOK, LocalCount
<1>3. MembersEntered'
  BY <1>1 DEF AttInv, AttTypeOK, MembersEntered, Entered
<1>4. CapturedAreTraced'
  BY <1>1 DEF AttInv, AttTypeOK, CapturedAreTraced, MembersEntered, Entered
<1>5. LabelIsLowest'
  <2>1. min_dispatch \in Nat /\ d \in Nat /\ d < MaxId /\ session \subseteq Nat
    BY DEF AttInv, AttTypeOK
  <2>2. min_dispatch' \in session'
    BY <1>1, <2>1 DEF AttInv, LabelIsLowest
  <2>3. \A e \in session' : min_dispatch' <= e
    BY <1>1, <2>1 DEF AttInv, LabelIsLowest
  <2>4. QED
    BY <1>1, <2>2, <2>3 DEF LabelIsLowest
<1>6. QED
  BY <1>2, <1>3, <1>4, <1>5 DEF AttInv

(* A dispatch that is not captured changes only the count and the stop request. *)
LEMMA PassPreserves ==
  ASSUME AttInv, NEW d \in Dispatch, PassDispatch(d)
  PROVE  AttInv'
<1> USE DEF PassDispatch
<1>1. AttTypeOK'
  BY DEF AttInv, AttTypeOK, LocalCount
<1>2. MembersEntered'
  BY DEF AttInv, AttTypeOK, MembersEntered, Entered
<1>3. CapturedAreTraced'
  BY DEF AttInv, AttTypeOK, CapturedAreTraced, MembersEntered, Entered
<1>4. LabelIsLowest'
  BY DEF AttInv, LabelIsLowest
<1>5. QED
  BY <1>1, <1>2, <1>3, <1>4 DEF AttInv

(* A completion removes its own id and nothing else. *)
LEMMA ErasePreserves ==
  ASSUME AttInv, NEW d \in Dispatch, EraseFinished(d)
  PROVE  AttInv'
<1> USE DEF EraseFinished
<1>1. AttTypeOK'
  BY DEF AttInv, AttTypeOK
<1>2. MembersEntered'
  BY DEF AttInv, AttTypeOK, MembersEntered, Entered
<1>3. CapturedAreTraced'
  BY DEF AttInv, AttTypeOK, CapturedAreTraced
<1>4. LabelIsLowest'
  BY DEF AttInv, LabelIsLowest
<1>5. QED
  BY <1>1, <1>2, <1>3, <1>4 DEF AttInv

(* Stopping the context closes the window and resets what belongs to it. *)
LEMMA StopPreserves ==
  ASSUME AttInv, NEW d \in Dispatch, StopWindow(d)
  PROVE  AttInv'
<1> USE DEF StopWindow
<1>1. AttTypeOK'
  <2>1. [label |-> min_dispatch, members |-> session]
          \in [label : Dispatch \cup {MaxId}, members : SUBSET Dispatch]
    BY DEF AttInv, AttTypeOK
  <2>2. filed' \subseteq [label : Dispatch \cup {MaxId}, members : SUBSET Dispatch]
    BY <2>1 DEF AttInv, AttTypeOK
  <2>3. QED
    BY <2>2 DEF AttInv, AttTypeOK
<1>2. MembersEntered'
  <2>1. Entered \subseteq Entered'
    BY DEF AttInv, AttTypeOK, Entered
  <2>2. \A w \in filed' : w.members \subseteq Entered
    BY DEF AttInv, MembersEntered
  <2>3. QED
    BY <2>1, <2>2 DEF MembersEntered
<1>3. CapturedAreTraced' /\ LabelIsLowest'
  BY DEF CapturedAreTraced, LabelIsLowest
<1>4. QED
  BY <1>1, <1>2, <1>3 DEF AttInv

(* Steps that leave the callback's own variables alone. *)
LEMMA WindowUnchangedPreserves ==
  ASSUME AttInv, UNCHANGED windowVars
  PROVE  AttInv'
BY DEF windowVars, AttInv, AttTypeOK, MembersEntered, Entered, CapturedAreTraced, LabelIsLowest

(* Every step preserves the invariant. *)
LEMMA AttInvStep == AttInv /\ [AttNext]_vars => AttInv'
<1> SUFFICES ASSUME AttInv, [AttNext]_vars PROVE AttInv'
  OBVIOUS
<1>1. CASE Targeting
  BY <1>1, WindowUnchangedPreserves DEF Targeting
<1>2. ASSUME NEW d \in Dispatch, EnterCallback(d) PROVE AttInv'
  BY <1>2, WindowUnchangedPreserves DEF EnterCallback
<1>3. ASSUME NEW d \in Dispatch, EnterCheck(d) \/ FinishCheck(d) PROVE AttInv'
  BY <1>3, ChecksPreserve
<1>4. ASSUME NEW d \in Dispatch, EnterLocked(d) PROVE AttInv'
  BY <1>4, CapturePreserves, PassPreserves DEF EnterLocked
<1>5. ASSUME NEW d \in Dispatch, FinishLocked(d) PROVE AttInv'
  BY <1>5, ErasePreserves, StopPreserves DEF FinishLocked
<1>6. CASE UNCHANGED vars
  BY <1>6, WindowUnchangedPreserves DEF vars
<1>7. QED
  BY <1>1, <1>2, <1>3, <1>4, <1>5, <1>6 DEF AttNext

(* The inductive invariant holds of every behaviour. *)
THEOREM AttInvariant == AttSpec => []AttInv
BY AttInvInit, AttInvStep, PTL DEF AttSpec

(* Type correctness of the whole callback, targeting included. *)
THEOREM AttTyping == AttSpec => [](TargetTypeOK /\ AttTypeOK)
<1>1. AttInv => AttTypeOK
  BY DEF AttInv
<1>2. QED
  BY <1>1, AttInvariant, AttUsesTargeting, TargetTyping, PTL

(* No captured dispatch runs without the context, and no completion of one is missed. *)
THEOREM AttCaptured == AttSpec => []CapturedAreTraced
<1>1. AttInv => CapturedAreTraced
  BY DEF AttInv
<1>2. QED
  BY <1>1, AttInvariant, PTL

(* The trace's label is the lowest dispatch id captured since the context started. *)
THEOREM AttLabel == AttSpec => []LabelIsLowest
<1>1. AttInv => LabelIsLowest
  BY DEF AttInv
<1>2. QED
  BY <1>1, AttInvariant, PTL

-----------------------------------------------------------------------------
(* The targeted dispatches of the open window: each of them restarted the count. *)
Restarts == {d \in session : answer[d]}

(***************************************************************************)
(* A stop request is pending that will stop a window before it is full.    *)
(***************************************************************************)
Due == IF stop_profiling /\ Cardinality(session) < ConsecutiveKernels THEN 1 ELSE 0

(***************************************************************************)
(* The sizes of windows.  While the count has not reached the limit, what  *)
(* may still be captured is the difference, and a window never holds more  *)
(* than one full count per restart; the count itself runs ahead of the     *)
(* window only once the window is full.  Every window that was cut short,  *)
(* and the request that will cut the next one, has its overtaken dispatch. *)
(***************************************************************************)
SizeInv ==
  /\ IsFiniteSet(session)
  /\ WindowBounded
  /\ isprofiling /\ num_consecutive <= ConsecutiveKernels
       => Cardinality(session) + ConsecutiveKernels - num_consecutive
            <= ConsecutiveKernels * Cardinality(Restarts)
  /\ isprofiling => \/ num_consecutive <= Cardinality(session)
                    \/ ConsecutiveKernels <= Cardinality(session)
  /\ IsFiniteSet(filed) /\ IsFiniteSet(overtaken)
  /\ overtaken \subseteq Entered
  /\ Cardinality(CutShort) + Due <= Cardinality(overtaken)

(* Facts about the sizes that every step uses. *)
LEMMA SizesAreNat ==
  ASSUME AttInv, SizeInv
  PROVE  /\ Cardinality(session) \in Nat
         /\ Cardinality(Restarts) \in Nat
         /\ IsFiniteSet(Restarts)
BY FS_Subset, FS_CardinalityType DEF SizeInv, Restarts

(* So are the numbers of windows cut short and of overtaken dispatches. *)
LEMMA CutsAreNat ==
  ASSUME SizeInv
  PROVE  /\ Cardinality(CutShort) \in Nat
         /\ Cardinality(overtaken) \in Nat
         /\ IsFiniteSet(CutShort)
BY FS_Subset, FS_CardinalityType DEF SizeInv, CutShort

(* The account of cut windows as long as none is filed and nothing new falls due. *)
LEMMA AccountKept ==
  ASSUME SizeInv, UNCHANGED <<filed, overtaken>>, Entered \subseteq Entered', Due' <= Due
  PROVE  /\ IsFiniteSet(filed') /\ IsFiniteSet(overtaken')
         /\ overtaken' \subseteq Entered'
         /\ Cardinality(CutShort') + Due' <= Cardinality(overtaken')
<1>1. Due \in Nat /\ Due' \in Nat
  BY DEF Due
<1>2. CutShort' = CutShort
  BY DEF CutShort
<1>3. Cardinality(CutShort') + Due' <= Cardinality(overtaken')
  BY <1>1, <1>2, CutsAreNat DEF SizeInv
<1>4. QED
  BY <1>3 DEF SizeInv

(* A full count for each restart, and one more restart. *)
LEMMA OneMoreRestart ==
  ASSUME NEW n \in Nat, NEW r \in Nat
  PROVE  n * r \in Nat /\ n * (r + 1) = n * r + n
OBVIOUS

(* A dispatch whose ENTER callback passed the first check keeps its answer. *)
LEMMA PhaseStep ==
  ASSUME TargetTypeOK, AttTypeOK, PhaseAfterAnswer, [AttNext]_vars
  PROVE  PhaseAfterAnswer'
<1>1. CASE Targeting
  BY <1>1 DEF Targeting, windowVars, TargetTypeOK, PhaseAfterAnswer, RegisterKernelSymbol,
              is_targeted_kernel, LookupTarget, CountIteration, JudgeIteration
<1>2. ASSUME NEW d \in Dispatch, EnterCallback(d) PROVE PhaseAfterAnswer'
  BY <1>2 DEF EnterCallback, windowVars, TargetTypeOK, PhaseAfterAnswer, DispatchKernel
<1>3. ASSUME NEW d \in Dispatch, EnterCheck(d) PROVE PhaseAfterAnswer'
  BY <1>3 DEF EnterCheck, targetVars, AttTypeOK, PhaseAfterAnswer
<1>4. ASSUME NEW d \in Dispatch, EnterLocked(d) PROVE PhaseAfterAnswer'
  BY <1>4 DEF EnterLocked, OpenWindow, CaptureDispatch, PassDispatch, Capture, targetVars,
              AttTypeOK, PhaseAfterAnswer
<1>5. ASSUME NEW d \in Dispatch, FinishCheck(d) \/ FinishLocked(d) PROVE PhaseAfterAnswer'
  BY <1>5 DEF FinishCheck, FinishLocked, EraseFinished, StopWindow, targetVars,
              AttTypeOK, PhaseAfterAnswer
<1>6. CASE UNCHANGED vars
  BY <1>6 DEF vars, targetVars, windowVars, PhaseAfterAnswer
<1>7. QED
  BY <1>1, <1>2, <1>3, <1>4, <1>5, <1>6 DEF AttNext

(* The sizes depend on these variables only, and on the answers of the window's members. *)
LEMMA SizeUnchanged ==
  ASSUME SizeInv, UNCHANGED windowVars, \A d \in session : answer'[d] = answer[d]
  PROVE  SizeInv'
<1>1. session' = session /\ Restarts' = Restarts
  BY DEF windowVars, Restarts
<1>2. {d \in session : answer[d]}' = {d \in session : answer[d]}
  BY DEF windowVars
<1>3. WindowBounded'
  BY <1>1, <1>2 DEF SizeInv, WindowBounded, windowVars
<1>4. Entered' = Entered /\ Due' = Due /\ Due \in Nat
  BY <1>1 DEF Entered, Due, windowVars
<1>5. UNCHANGED <<filed, overtaken, session, isprofiling, num_consecutive>>
  BY DEF windowVars
<1>6. /\ IsFiniteSet(filed') /\ IsFiniteSet(overtaken')
      /\ overtaken' \subseteq Entered'
      /\ Cardinality(CutShort') + Due' <= Cardinality(overtaken')
  BY <1>4, <1>5, AccountKept
<1>7. QED
  BY <1>1, <1>3, <1>5, <1>6 DEF SizeInv

(* Judging a dispatch does not concern the members of the window. *)
LEMMA TargetingKeepsSizes ==
  ASSUME AttInv, SizeInv, TargetTypeOK, PhaseAfterAnswer, NEW d \in Dispatch,
         Targeting \/ EnterCallback(d)
  PROVE  SizeInv'
<1>1. \A e \in session : pc[e] = "answered" /\ e \in Dispatch
  BY DEF AttInv, AttTypeOK, MembersEntered, Entered, PhaseAfterAnswer
<1>2. \A e \in session : answer'[e] = answer[e]
  <2>1. CASE UNCHANGED answer
    BY <2>1
  <2>2. CASE \E x \in Dispatch : JudgeIteration(x)
    BY <1>1, <2>2 DEF JudgeIteration, TargetTypeOK
  <2>3. QED
    BY <2>1, <2>2 DEF Targeting, EnterCallback, RegisterKernelSymbol, DispatchKernel,
                      is_targeted_kernel, LookupTarget, CountIteration
<1>3. UNCHANGED windowVars
  BY DEF Targeting, EnterCallback
<1>4. QED
  BY <1>2, <1>3, SizeUnchanged

(* Capturing adds one dispatch; a restart of the count adds a target with it. *)
LEMMA CaptureKeepsSizes ==
  ASSUME AttInv, SizeInv, NEW d \in Dispatch, OpenWindow(d) \/ CaptureDispatch(d)
  PROVE  SizeInv'
<1> DEFINE N == ConsecutiveKernels
           s == Cardinality(session)
           r == Cardinality(Restarts)
<1>1. /\ N \in Nat \ {0} /\ s \in Nat /\ r \in Nat
      /\ IsFiniteSet(session) /\ IsFiniteSet(Restarts)
      /\ num_consecutive \in Nat
  BY SizesAreNat DEF AttInv, AttTypeOK, SizeInv
<1>2. /\ d \notin session
      /\ session' = session \cup {d}
      /\ num_consecutive' = LocalCount(d) + 1
      /\ isprofiling'
      /\ UNCHANGED <<answer, stop_profiling, filed, overtaken>>
  <2>1. d \notin session
    BY DEF AttInv, MembersEntered, Entered, OpenWindow, CaptureDispatch
  <2>2. CASE OpenWindow(d)
    BY <2>1, <2>2 DEF AttInv, LabelIsLowest, OpenWindow, Capture, targetVars
  <2>3. CASE CaptureDispatch(d)
    BY <2>1, <2>3 DEF CaptureDispatch, Capture, targetVars
  <2>4. QED
    BY <2>2, <2>3
<1>3. Cardinality(session') = s + 1 /\ IsFiniteSet(session')
  BY <1>1, <1>2, FS_AddElement
<1>4. WindowBounded' /\ (num_consecutive' <= N =>
                            s + 1 + N - num_consecutive' <= N * Cardinality(Restarts'))
  <2>1. CASE answer[d]
    <3>1. Restarts' = Restarts \cup {d} /\ d \notin Restarts
      BY <1>2, <2>1 DEF Restarts
    <3>2. Cardinality(Restarts') = r + 1
      BY <1>1, <3>1, FS_AddElement
    <3>3. num_consecutive' = 1
      BY <1>2, <2>1 DEF LocalCount
    <3>4. s <= N * r
      BY DEF SizeInv, WindowBounded, Restarts
    <3>5. N * r \in Nat /\ N * (r + 1) = N * r + N
      BY <1>1, OneMoreRestart
    <3>6. s + 1 + N - 1 <= N * (r + 1) /\ s + 1 <= N * (r + 1)
      BY <1>1, <3>4, <3>5
    <3>7. QED
      BY <1>3, <3>2, <3>3, <3>6 DEF WindowBounded, Restarts
  <2>2. CASE ~answer[d]
    <3>1. Restarts' = Restarts
      BY <1>2, <2>2 DEF Restarts
    <3>2. isprofiling /\ num_consecutive < N /\ num_consecutive' = num_consecutive + 1
      BY <1>2, <2>2 DEF OpenWindow, CaptureDispatch, LocalCount
    <3>3. s + N - num_consecutive <= N * r /\ N * r \in Nat
      BY <1>1, <3>2, OneMoreRestart DEF SizeInv
    <3>4. s + 1 + N - num_consecutive' <= N * r /\ s + 1 <= N * r
      BY <1>1, <3>2, <3>3
    <3>5. QED
      BY <1>3, <3>1, <3>4 DEF WindowBounded, Restarts
  <2>3. QED
    BY <2>1, <2>2
<1>5. num_consecutive' <= s + 1 \/ N <= s + 1
  <2>1. CASE answer[d]
    BY <1>1, <1>2, <2>1 DEF LocalCount
  <2>2. CASE ~answer[d]
    <3>1. isprofiling /\ num_consecutive' = num_consecutive + 1
      BY <1>2, <2>2 DEF LocalCount, OpenWindow, CaptureDispatch
    <3>2. num_consecutive <= s \/ N <= s
      BY <3>1 DEF SizeInv
    <3>3. QED
      BY <1>1, <3>1, <3>2
  <2>3. QED
    BY <2>1, <2>2
<1>6. /\ IsFiniteSet(filed') /\ IsFiniteSet(overtaken')
      /\ overtaken' \subseteq Entered'
      /\ Cardinality(CutShort') + Due' <= Cardinality(overtaken')
  <2>1. Due' <= Due
    BY <1>1, <1>2, <1>3 DEF Due
  <2>2. Entered \subseteq Entered'
    BY DEF AttInv, AttTypeOK, Entered, OpenWindow, CaptureDispatch, Capture
  <2>3. QED
    BY <1>2, <2>1, <2>2, AccountKept
<1>7. QED
  BY <1>2, <1>3, <1>4, <1>5, <1>6 DEF SizeInv

(* A dispatch that is passed over, and asks to stop once the count is reached. *)
LEMMA PassKeepsSizes ==
  ASSUME AttInv, SizeInv, NEW d \in Dispatch, PassDispatch(d)
  PROVE  SizeInv'
<1>1. /\ ConsecutiveKernels \in Nat \ {0}
      /\ Cardinality(session) \in Nat
      /\ num_consecutive \in Nat
  BY SizesAreNat DEF AttInv, AttTypeOK
<1>2. session' = session /\ Restarts' = Restarts /\ isprofiling' = isprofiling /\ answer' = answer
  BY DEF PassDispatch, targetVars, Restarts
<1>3. WindowBounded'
  BY <1>2 DEF SizeInv, WindowBounded
<1>4. LocalCount(d) \in Nat /\ num_consecutive' = LocalCount(d) + 1
  BY <1>1 DEF PassDispatch, LocalCount
<1>5. Entered \subseteq Entered' /\ d \notin Entered /\ d \in Entered'
  BY DEF AttInv, AttTypeOK, Entered, PassDispatch
<1>6. CASE isprofiling
  <2>1. ~answer[d] /\ LocalCount(d) = num_consecutive /\ ConsecutiveKernels <= num_consecutive
    BY <1>1, <1>6 DEF PassDispatch, LocalCount
  <2>2. ConsecutiveKernels <= Cardinality(session)
    BY <1>1, <1>6, <2>1 DEF SizeInv
  <2>3. UNCHANGED <<filed, overtaken>> /\ Due' <= Due
    BY <1>1, <1>2, <1>6, <2>2 DEF Due, PassDispatch
  <2>4. /\ IsFiniteSet(filed') /\ IsFiniteSet(overtaken')
        /\ overtaken' \subseteq Entered'
        /\ Cardinality(CutShort') + Due' <= Cardinality(overtaken')
    BY <1>5, <2>3, AccountKept
  <2>5. QED
    BY <1>1, <1>2, <1>3, <1>4, <1>6, <2>1, <2>2, <2>4 DEF SizeInv
<1>7. CASE ~isprofiling /\ WithinCount(d)
  <2>1. UNCHANGED <<filed, overtaken>> /\ Due' <= Due
    <3>1. UNCHANGED <<filed, overtaken, stop_profiling>>
      BY <1>7 DEF AttInv, AttTypeOK, PassDispatch
    <3>2. QED
      BY <1>2, <3>1 DEF Due
  <2>2. /\ IsFiniteSet(filed') /\ IsFiniteSet(overtaken')
        /\ overtaken' \subseteq Entered'
        /\ Cardinality(CutShort') + Due' <= Cardinality(overtaken')
    BY <1>5, <2>1, AccountKept
  <2>3. QED
    BY <1>2, <1>3, <1>7, <2>2 DEF SizeInv
<1>8. CASE ~isprofiling /\ ~WithinCount(d)
  <2>1. overtaken' = overtaken \cup {d} /\ d \notin overtaken /\ filed' = filed
    BY <1>5, <1>8 DEF PassDispatch, SizeInv
  <2>2. IsFiniteSet(overtaken') /\ Cardinality(overtaken') = Cardinality(overtaken) + 1
    BY <2>1, FS_AddElement DEF SizeInv
  <2>3. Due \in 0..1 /\ Due' \in 0..1 /\ CutShort' = CutShort
    BY <2>1 DEF Due, CutShort
  <2>4. Cardinality(CutShort') + Due' <= Cardinality(overtaken')
    BY <2>2, <2>3, CutsAreNat DEF SizeInv
  <2>5. overtaken' \subseteq Entered'
    BY <1>5, <2>1 DEF SizeInv
  <2>6. QED
    BY <1>2, <1>3, <1>8, <2>1, <2>2, <2>4, <2>5 DEF SizeInv
<1>9. QED
  BY <1>6, <1>7, <1>8

(* A window that is cut short uses up the request that was due; a full one files nothing
   that counts as cut. *)
LEMMA StopKeepsAccount ==
  ASSUME AttInv, SizeInv, NEW d \in Dispatch, StopWindow(d)
  PROVE  /\ IsFiniteSet(filed') /\ IsFiniteSet(overtaken')
         /\ overtaken' \subseteq Entered'
         /\ Cardinality(CutShort') + Due' <= Cardinality(overtaken')
<1> DEFINE w == [label |-> min_dispatch, members |-> session]
<1>1. /\ filed' = filed \cup {w} /\ overtaken' = overtaken
      /\ stop_profiling /\ ~stop_profiling'
  BY DEF StopWindow
<1>2. IsFiniteSet(filed')
  BY <1>1, FS_AddElement DEF SizeInv
<1>3. Due \in 0..1 /\ Due' = 0
  BY <1>1 DEF Due
<1>4. Cardinality(CutShort') <= Cardinality(CutShort) + Due /\ Cardinality(CutShort') \in Nat
  <2>1. w.members = session
    OBVIOUS
  <2> HIDE DEF w
  <2>2. CASE Cardinality(session) < ConsecutiveKernels
    <3>1. CutShort' = CutShort \cup {w} /\ Due = 1
      BY <1>1, <2>1, <2>2 DEF CutShort, Due
    <3>2. IsFiniteSet(CutShort) /\ Cardinality(CutShort) \in Nat
      BY CutsAreNat
    <3>3. Cardinality(CutShort \cup {w}) \in {Cardinality(CutShort), Cardinality(CutShort) + 1}
      BY <3>2, FS_AddElement
    <3>4. QED
      BY <3>1, <3>2, <3>3
  <2>3. CASE ~(Cardinality(session) < ConsecutiveKernels)
    <3>1. CutShort' = CutShort /\ Due = 0
      BY <1>1, <2>1, <2>3 DEF CutShort, Due
    <3>2. QED
      BY <3>1, CutsAreNat
  <2>4. QED
    BY <2>2, <2>3
<1>5. Cardinality(CutShort') + Due' <= Cardinality(overtaken')
  BY <1>1, <1>3, <1>4, CutsAreNat DEF SizeInv
<1>6. overtaken' \subseteq Entered'
  BY <1>1 DEF SizeInv, StopWindow, AttInv, AttTypeOK, Entered
<1>7. QED
  BY <1>1, <1>2, <1>5, <1>6 DEF SizeInv

(* Stopping empties the window and clears the request. *)
LEMMA StopKeepsSizes ==
  ASSUME AttInv, SizeInv, NEW d \in Dispatch, StopWindow(d)
  PROVE  SizeInv'
<1>1. session' = {} /\ ~isprofiling' /\ ~stop_profiling'
  BY DEF StopWindow
<1>2. IsFiniteSet(session') /\ Cardinality(session') = 0
  BY <1>1, FS_EmptySet
<1>3. {e \in session : answer[e]}' = {}
  BY <1>1
<1>4. WindowBounded'
  BY <1>2, <1>3, FS_EmptySet DEF WindowBounded
<1>5. QED
  BY <1>1, <1>2, <1>4, StopKeepsAccount DEF SizeInv

(* Every step preserves the size invariant. *)
LEMMA SizeStep ==
  ASSUME AttInv, SizeInv, TargetTypeOK, PhaseAfterAnswer, [AttNext]_vars
  PROVE  SizeInv'
<1>1. ASSUME NEW d \in Dispatch, Targeting \/ EnterCallback(d) PROVE SizeInv'
  BY <1>1, TargetingKeepsSizes
<1>2. ASSUME NEW d \in Dispatch, EnterCheck(d) \/ FinishCheck(d) \/ EraseFinished(d)
      PROVE  SizeInv'
  <2>1. UNCHANGED <<answer, session, isprofiling, stop_profiling, num_consecutive, filed, overtaken>>
    BY <1>2 DEF EnterCheck, FinishCheck, EraseFinished, targetVars
  <2>2. WindowBounded' /\ Restarts' = Restarts
    BY <2>1 DEF SizeInv, WindowBounded, Restarts
  <2>3. Entered \subseteq Entered' /\ Due' <= Due
    <3>1. Entered \subseteq Entered'
      BY <1>2 DEF AttInv, AttTypeOK, Entered, EnterCheck, FinishCheck, EraseFinished
    <3>2. QED
      BY <2>1, <3>1 DEF Due
  <2>4. /\ IsFiniteSet(filed') /\ IsFiniteSet(overtaken')
        /\ overtaken' \subseteq Entered'
        /\ Cardinality(CutShort') + Due' <= Cardinality(overtaken')
    BY <2>1, <2>3, AccountKept
  <2>5. QED
    BY <2>1, <2>2, <2>4 DEF SizeInv
<1>3. ASSUME NEW d \in Dispatch, EnterLocked(d) PROVE SizeInv'
  BY <1>3, CaptureKeepsSizes, PassKeepsSizes DEF EnterLocked
<1>4. ASSUME NEW d \in Dispatch, StopWindow(d) PROVE SizeInv'
  BY <1>4, StopKeepsSizes
<1>5. CASE Targeting \/ UNCHANGED vars
  <2>1. CASE Dispatch = {}
    BY <1>5, <2>1, SizeUnchanged DEF Targeting, vars, AttInv, AttTypeOK
  <2>2. CASE UNCHANGED vars
    BY <2>2, SizeUnchanged DEF vars, targetVars
  <2>3. QED
    BY <1>1, <1>5, <2>1, <2>2
<1>6. QED
  BY <1>1, <1>2, <1>3, <1>4, <1>5 DEF AttNext, FinishLocked

(* A window captures at most a full count per targeted dispatch, and every window that is
   cut short has a dispatch of its own that was overtaken by the end of another. *)
THEOREM AttWindowSizes == AttSpec => []WindowSizes
<1>1. AttInit => SizeInv /\ PhaseAfterAnswer
  <2> SUFFICES ASSUME AttInit PROVE SizeInv /\ PhaseAfterAnswer
    OBVIOUS
  <2>1. session = {} /\ {d \in session : answer[d]} = {}
    BY DEF AttInit
  <2>2. WindowBounded
    BY <2>1, FS_EmptySet DEF WindowBounded
  <2>3. CutShort = {} /\ Due = 0 /\ overtaken = {} /\ filed = {}
    BY DEF AttInit, CutShort, Due
  <2>4. SizeInv
    BY <2>1, <2>2, <2>3, FS_EmptySet DEF AttInit, SizeInv
  <2>5. QED
    BY <2>4 DEF AttInit, PhaseAfterAnswer
<1>2. AttInv /\ TargetTypeOK /\ SizeInv /\ PhaseAfterAnswer /\ [AttNext]_vars
        => SizeInv' /\ PhaseAfterAnswer'
  BY SizeStep, PhaseStep DEF AttInv
<1>3. SizeInv => WindowSizes
  <2> SUFFICES ASSUME SizeInv PROVE WindowSizes
    OBVIOUS
  <2>1. (IF BeingCutShort THEN 1 ELSE 0) <= Due /\ Due \in Nat
    BY DEF BeingCutShort, Due
  <2>2. CutsArePaid
    BY <2>1, CutsAreNat DEF SizeInv, CutsArePaid, BeingCutShort
  <2>3. QED
    BY <2>2 DEF SizeInv, WindowSizes
<1>4. QED
  BY <1>1, <1>2, <1>3, AttInvariant, AttTyping, PTL DEF AttSpec

-----------------------------------------------------------------------------
(* The lowest element of a set of dispatch ids is the one LabelIsLowest speaks of. *)
LEMMA LowestIsUnique ==
  ASSUME NEW S \in SUBSET Nat, NEW m \in S, \A e \in S : m <= e
  PROVE  Windows!Lowest(S) = m
<1>1. \A x \in S : (\A e \in S : x <= e) => x = m
  OBVIOUS
<1>2. QED
  BY <1>1 DEF Windows!Lowest

(* Each step of the callback is a step of TraceWindow or a stutter. *)
LEMMA WindowStep == AttInv /\ [AttNext]_vars => [Windows!Next]_(Windows!vars)
<1> SUFFICES ASSUME AttInv, [AttNext]_vars PROVE [Windows!Next]_(Windows!vars)
  OBVIOUS
<1> USE DEF Windows!vars
<1>1. CASE Targeting \/ (\E d \in Dispatch : EnterCallback(d)) \/ UNCHANGED vars
  BY <1>1 DEF Targeting, EnterCallback, windowVars, vars
<1>2. ASSUME NEW d \in Dispatch, EnterCheck(d) \/ FinishCheck(d) \/ PassDispatch(d)
      PROVE  [Windows!Next]_(Windows!vars)
  BY <1>2 DEF EnterCheck, FinishCheck, PassDispatch
<1>3. ASSUME NEW d \in Dispatch, OpenWindow(d) PROVE [Windows!Next]_(Windows!vars)
  <2>1. session = {} /\ captured = {}
    BY <1>3 DEF AttInv, OpenWindow, LabelIsLowest, CapturedAreTraced
  <2>2. Windows!Fresh(d)
    BY <1>3 DEF AttInv, OpenWindow, MembersEntered, Entered, Windows!Fresh
  <2>3. Windows!Open(d)
    BY <1>3, <2>1, <2>2 DEF OpenWindow, Capture, Windows!Open
  <2>4. QED
    BY <2>3 DEF Windows!Next
<1>4. ASSUME NEW d \in Dispatch, CaptureDispatch(d) PROVE [Windows!Next]_(Windows!vars)
  <2>1. session # {}
    BY <1>4 DEF AttInv, CaptureDispatch, LabelIsLowest
  <2>2. Windows!Fresh(d)
    BY <1>4 DEF AttInv, CaptureDispatch, MembersEntered, Entered, Windows!Fresh
  <2>3. Windows!Capture(d)
    BY <1>4, <2>1, <2>2 DEF CaptureDispatch, Capture, Windows!Capture
  <2>4. QED
    BY <2>3 DEF Windows!Next
<1>5. ASSUME NEW d \in Dispatch, EraseFinished(d) PROVE [Windows!Next]_(Windows!vars)
  <2>1. CASE d \in captured
    BY <1>5, <2>1 DEF EraseFinished, Windows!Finish, Windows!Next
  <2>2. CASE d \notin captured
    BY <1>5, <2>2 DEF EraseFinished
  <2>3. QED
    BY <2>1, <2>2
<1>6. ASSUME NEW d \in Dispatch, StopWindow(d) PROVE [Windows!Next]_(Windows!vars)
  <2>1. session # {} /\ captured \subseteq {d}
    BY <1>6 DEF AttInv, StopWindow, LabelIsLowest
  <2>2. Windows!Lowest(session) = min_dispatch
    <3>1. session \in SUBSET Nat /\ min_dispatch \in session
      BY <1>6 DEF AttInv, AttTypeOK, StopWindow, LabelIsLowest
    <3>2. \A e \in session : min_dispatch <= e
      BY <1>6 DEF AttInv, StopWindow, LabelIsLowest
    <3>3. QED
      BY <3>1, <3>2, LowestIsUnique
  <2>3. Windows!Close
    BY <1>6, <2>1, <2>2 DEF StopWindow, Windows!Close
  <2>4. QED
    BY <2>3 DEF Windows!Next
<1>7. QED
  BY <1>1, <1>2, <1>3, <1>4, <1>5, <1>6 DEF AttNext, EnterLocked, FinishLocked

(* The callback implements the abstract trace windows. *)
THEOREM AttImplementsWindows == AttSpec => WindowsImplemented
<1>1. AttInit => Windows!Init
  BY DEF AttInit, Windows!Init
<1>2. QED
  BY <1>1, WindowStep, AttInvariant, PTL DEF AttSpec, WindowsImplemented, Windows!Spec
=============================================================================
