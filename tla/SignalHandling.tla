--------------------------- MODULE SignalHandling ---------------------------
(***************************************************************************)
(* Version3's signal handler, the wrappers of signal() and sigaction() the *)
(* application calls, and the finalization both the handler and the end of *)
(* main run.  A handler waits for the process's children, finalizes the    *)
(* tool and calls the application's own handler, all inside one call_once; *)
(* then it raises the signal again.                                        *)
(*                                                                         *)
(* A thread's handlers nest: no signal but the one being handled is        *)
(* blocked.  frames[t] are the handlers running on thread t, the last one  *)
(* on top; only that one makes steps.                                      *)
(***************************************************************************)
EXTENDS Naturals, Sequences, SequencesExt

CONSTANTS
  Thread,
  Main,           \* the thread that runs rocprofv3_main
  Signal,         \* rocprofv3_handled_signals
  Calls,          \* the wrapped calls the application makes: {"sigaction", "signal"}
  MaxCalls        \* bound: wrapped calls of the application

ASSUME ThreadAssumption ==
  /\ Main \in Thread /\ Thread \cap {"no", "done"} = {}  \* what once stands for is told apart
  /\ Calls \subseteq {"sigaction", "signal"}
ASSUME BoundAssumption == MaxCalls \in Nat

VARIABLES
  process,      \* "start", "running", "exited" or "killed"
  disposition,  \* the kernel's, per signal
  chained,      \* get_chained_signals(): what the handler will call
  calls,        \* wrapped calls made
  signalled,    \* history: the signals signal() was called for
  sent,         \* signals sent to the process
  pending,      \* signals a thread raised for itself
  frames,       \* the handlers running on a thread
  once,         \* the once_flag: "no", the thread inside call_once, or "done"
  client,       \* client_finalizer and client_identifier are set
  fini,         \* tool_fini: "no", "running" or "done"
  main,         \* "main", "finalizing" or "returned"
  ran,          \* history: how often a handler of the application was called
  overtook      \* history: a handler found the tool in the middle of finalization

osVars == <<process, disposition, sent, pending>>
appVars == <<calls, signalled>>
toolVars == <<once, client, fini, main>>
vars == <<osVars, appVars, toolVars, chained, frames, ran, overtook>>

-----------------------------------------------------------------------------
Init ==
  /\ process = "start"
  /\ disposition = [s \in Signal |-> "default"]
  /\ chained = [s \in Signal |-> "none"]
  /\ calls = 0 /\ signalled = {} /\ sent = {}
  /\ pending = [t \in Thread |-> {}]
  /\ frames = [t \in Thread |-> <<>>]
  /\ once = "no" /\ client = TRUE /\ fini = "no" /\ main = "main"
  /\ ran = 0 /\ overtook = FALSE

(* Mutant of SigactionMode: SA_RESETHAND is missing from the flags. *)
SigactionKept == "tool_keep"

(* The flags both installers use contain SA_RESETHAND. *)
SigactionMode == "tool_reset"

(* rocprofv3_main: initialize_signal_handler, except for signals wrapped before. *)
StartMain ==
  /\ process = "start"
  /\ process' = "running"
  /\ disposition' = [s \in Signal |->
       IF chained[s] # "none" THEN disposition[s] ELSE SigactionMode]
  /\ UNCHANGED <<sent, pending, appVars, toolVars, chained, frames, ran, overtook>>

Alive == process \in {"start", "running"}

(* The handler the application can put back: one it was given as the old one. *)
CanRestore(s) == disposition[s] # "default"

(* rocprofv3_sigaction chains SA_SIGINFO handlers other than its own. *)
Chainable(h) == h = "siginfo"

(* rocprofv3_sigaction(s, act): act has a sa_sigaction of the application, a plain
   sa_handler of the application, or the tool's handler put back.  Constructors
   may run it before main. *)
WrappedSigaction(s) ==
  /\ Alive /\ "sigaction" \in Calls
  /\ calls < MaxCalls /\ calls' = calls + 1
  /\ \E h \in {"siginfo", "plain"} \cup {x \in {"tool"} : CanRestore(s)} :
       chained' = [chained EXCEPT ![s] = IF Chainable(h) THEN h ELSE @]
  /\ disposition' = [disposition EXCEPT ![s] = SigactionMode]
  /\ UNCHANGED <<process, sent, pending, signalled, toolVars, frames, ran, overtook>>

(* rocprofv3_signal(s, handler): chained as it is, the tool's own handler put back
   included; the lambda is not reset. *)
WrappedSignal(s) ==
  /\ Alive /\ "signal" \in Calls
  /\ calls < MaxCalls /\ calls' = calls + 1
  /\ \E h \in {"handler"} \cup {x \in {"self"} : CanRestore(s)} :
       chained' = [chained EXCEPT ![s] = h]
  /\ disposition' = [disposition EXCEPT ![s] = "tool_keep"]
  /\ signalled' = signalled \cup {s}
  /\ UNCHANGED <<process, sent, pending, toolVars, frames, ran, overtook>>

-----------------------------------------------------------------------------
(* Delivery of signals, by the kernel. *)

Handling(t) == {frames[t][i].sig : i \in 1..Len(frames[t])}

(* SA_RESETHAND: the disposition goes back to the default. *)
Accept(t, s) ==
  /\ frames' = [frames EXCEPT ![t] = Append(@, [sig |-> s, pos |-> "enter"])]
  /\ disposition' = [disposition EXCEPT ![s] = IF @ = "tool_reset" THEN "default" ELSE @]
  /\ UNCHANGED process

(* Someone sends the process a signal; any thread that does not handle it takes it. *)
SendSignal(t, s) ==
  /\ process = "running" /\ s \notin sent /\ s \notin Handling(t)
  /\ disposition[s] # "default"
  /\ sent' = sent \cup {s}
  /\ Accept(t, s)
  /\ UNCHANGED <<pending, appVars, toolVars, chained, ran, overtook>>

(* The raised signal arrives once its handler has returned. *)
TakeRaised(t, s) ==
  /\ process = "running" /\ s \in pending[t] /\ s \notin Handling(t)
  /\ pending' = [pending EXCEPT ![t] = @ \ {s}]
  /\ IF disposition[s] = "default"
       THEN process' = "killed" /\ UNCHANGED <<frames, disposition>>
       ELSE Accept(t, s)
  /\ UNCHANGED <<sent, appVars, toolVars, chained, ran, overtook>>

-----------------------------------------------------------------------------
(* rocprofv3_error_signal_handler, the top frame of thread t. *)

AtPos(t, p) == process = "running" /\ frames[t] # <<>> /\ Last(frames[t]).pos = p
TopSignal(t) == Last(frames[t]).sig
Move(t, p) == frames' = [frames EXCEPT ![t] = Append(Front(@), [sig |-> Last(@).sig, pos |-> p])]

(* Mutant of OnceFree: a flag that is tested on entry and set at the end. *)
OnceNotDone == once # "done"

OnceFree == once = "no"

(* call_once: the first handler runs the function ... *)
EnterOnce(t) ==
  /\ AtPos(t, "enter") /\ OnceFree
  /\ once' = t
  /\ Move(t, "finalize")
  /\ UNCHANGED <<osVars, appVars, client, fini, main, chained, ran, overtook>>

(* Mutant of OncePassed: a flag that is set on entry. *)
OnceEntered == once # "no"

(* ... and the others wait until it has returned. *)
OncePassed == once = "done"

SkipOnce(t) ==
  /\ AtPos(t, "enter") /\ OncePassed
  /\ Move(t, "raise")
  /\ UNCHANGED <<osVars, appVars, toolVars, chained, ran, overtook>>

(* Mutant of BeginFinalize: the pointers are left set. *)
BeginFinalizeKept ==
  /\ client
  /\ client' = client
  /\ fini' = "running"

(* finalize_rocprofv3: the finalizer runs tool_fini, which clears both pointers first. *)
BeginFinalize ==
  /\ client
  /\ client' = FALSE
  /\ fini' = "running"

(* Children are waited for, then the tool is finalized. *)
HandlerFinalize(t) ==
  /\ AtPos(t, "finalize")
  /\ BeginFinalize
  /\ Move(t, "finish")
  /\ UNCHANGED <<osVars, appVars, once, main, chained, ran, overtook>>

(* finalize_rocprofv3 "ignored: already finalized". *)
HandlerIgnore(t) ==
  /\ AtPos(t, "finalize")
  /\ ~client
  /\ overtook' = (overtook \/ fini = "running")
  /\ Move(t, "chain")
  /\ UNCHANGED <<osVars, appVars, toolVars, chained, ran>>

HandlerFinish(t) ==
  /\ AtPos(t, "finish")
  /\ fini' = "done"
  /\ Move(t, "chain")
  /\ UNCHANGED <<osVars, appVars, once, client, main, chained, ran, overtook>>

(* What the handler calls: a chained sigaction unless it is the tool's own, and whatever
   signal() chained. *)
Callable == {"siginfo", "handler", "self"}

(* Nothing to call: call_once returns. *)
ChainNothing(t) ==
  /\ AtPos(t, "chain")
  /\ chained[TopSignal(t)] \notin Callable
  /\ once' = "done"
  /\ Move(t, "raise")
  /\ UNCHANGED <<osVars, appVars, client, fini, main, chained, ran, overtook>>

CallsApplication(t) ==
  /\ AtPos(t, "chain")
  /\ chained[TopSignal(t)] \in Callable \ {"self"}
  /\ ran' = ran + 1

(* The application's handler is called; it returns ... *)
ChainReturns(t) ==
  /\ CallsApplication(t)
  /\ once' = "done"
  /\ Move(t, "raise")
  /\ UNCHANGED <<osVars, appVars, client, fini, main, chained, overtook>>

(* ... or ends the process. *)
ChainExits(t) ==
  /\ CallsApplication(t)
  /\ process' = "exited"
  /\ UNCHANGED <<disposition, sent, pending, appVars, toolVars, chained, frames, overtook>>

(* signal() chained the tool's handler, and a plain handler is called unchecked: it
   enters call_once again, inside call_once. *)
ChainSelf(t) ==
  /\ AtPos(t, "chain")
  /\ chained[TopSignal(t)] = "self"
  /\ Move(t, "enter")
  /\ UNCHANGED <<osVars, appVars, toolVars, chained, ran, overtook>>

(* raise: the signal is blocked until this handler returns. *)
Reraise(t) ==
  /\ AtPos(t, "raise")
  /\ pending' = [pending EXCEPT ![t] = @ \cup {TopSignal(t)}]
  /\ frames' = [frames EXCEPT ![t] = Front(@)]
  /\ UNCHANGED <<process, disposition, sent, appVars, toolVars, chained, ran, overtook>>

rocprofv3_error_signal_handler(t) ==
  \/ EnterOnce(t) \/ SkipOnce(t)
  \/ HandlerFinalize(t) \/ HandlerIgnore(t) \/ HandlerFinish(t)
  \/ ChainNothing(t) \/ ChainReturns(t) \/ ChainExits(t) \/ ChainSelf(t)
  \/ Reraise(t)

-----------------------------------------------------------------------------
(* rocprofv3_main after the application's main has returned; handlers on the main
   thread suspend it. *)
OnMain == process = "running" /\ frames[Main] = <<>> /\ pending[Main] = {}

MainFinalize ==
  /\ OnMain /\ main = "main"
  /\ BeginFinalize
  /\ main' = "finalizing"
  /\ UNCHANGED <<osVars, appVars, once, chained, frames, ran, overtook>>

MainIgnore ==
  /\ OnMain /\ main = "main"
  /\ ~client
  /\ main' = "returned"
  /\ UNCHANGED <<osVars, appVars, once, client, fini, chained, frames, ran, overtook>>

MainFinish ==
  /\ OnMain /\ main = "finalizing"
  /\ fini' = "done"
  /\ main' = "returned"
  /\ UNCHANGED <<osVars, appVars, once, client, chained, frames, ran, overtook>>

(* main returns: exit, and the atexit finalization finds nothing left to do. *)
ExitProcess ==
  /\ OnMain /\ main = "returned"
  /\ process' = "exited"
  /\ UNCHANGED <<disposition, sent, pending, appVars, toolVars, chained, frames, ran,
                 overtook>>

rocprofv3_main == MainFinalize \/ MainIgnore \/ MainFinish \/ ExitProcess

Next ==
  \/ StartMain
  \/ \E s \in Signal : WrappedSigaction(s) \/ WrappedSignal(s)
  \/ \E t \in Thread, s \in Signal : SendSignal(t, s) \/ TakeRaised(t, s)
  \/ \E t \in Thread : rocprofv3_error_signal_handler(t)
  \/ rocprofv3_main

Spec == Init /\ [][Next]_vars

(* A handler goes on, and a raised signal arrives; main need not return. *)
Fairness ==
  \A t \in Thread :
    /\ WF_vars(rocprofv3_error_signal_handler(t))
    /\ \A s \in Signal : WF_vars(TakeRaised(t, s))

FairSpec == Spec /\ Fairness

-----------------------------------------------------------------------------
Positions == {"enter", "finalize", "finish", "chain", "raise"}

(* Types of the kernel's, the tool's and the history variables; the pointers are
   cleared exactly when tool_fini starts. *)
TypeOK ==
  /\ process \in {"start", "running", "exited", "killed"}
  /\ disposition \in [Signal -> {"default", "tool_reset", "tool_keep"}]
  /\ chained \in [Signal -> {"none", "siginfo", "tool", "handler", "self"}]
  /\ calls \in 0..MaxCalls /\ signalled \subseteq Signal /\ sent \subseteq Signal
  /\ pending \in [Thread -> SUBSET Signal]
  /\ frames \in [Thread -> Seq([sig : Signal, pos : Positions])]
  /\ once \in {"no", "done"} \cup Thread
  /\ client \in BOOLEAN /\ fini \in {"no", "running", "done"} /\ (client <=> fini = "no")
  /\ main \in {"main", "finalizing", "returned"}
  /\ ran \in Nat /\ overtook \in BOOLEAN

(***************************************************************************)
(* A signal does not kill the process in the middle of its output:         *)
(* call_once makes the handlers of other threads wait for the              *)
(* finalization, so a process killed by a re-raised signal has finished    *)
(* tool_fini, unless a handler found the end of main (or another handler   *)
(* on its thread) at it and went on.                                       *)
(***************************************************************************)
OutputBeforeDeath == process = "killed" => fini = "done" \/ overtook

(***************************************************************************)
(* The pointers of the client are cleared with the finalization, and no    *)
(* signal cuts it short.                                                   *)
(***************************************************************************)
FinalizedAlive == TypeOK /\ OutputBeforeDeath

(***************************************************************************)
(* However many signals arrive on however many threads, the handlers call  *)
(* at most one handler of the application, and that once, as call_once     *)
(* promises; and only after tool_fini, since it may end the process: here  *)
(* too unless a handler found tool_fini under way and went on.             *)
(***************************************************************************)
ChainedOnce == ran <= 1 /\ (ran = 1 => fini = "done" \/ overtook)

(***************************************************************************)
(* Raising the signal again ends the process, also when the application    *)
(* installs handlers with sigaction meanwhile; handlers that signal()      *)
(* installed are not reset and may raise their signal for ever.            *)
(***************************************************************************)
ReraiseEnds == \A t \in Thread : AtPos(t, "raise") ~> ~Alive \/ signalled # {}
=============================================================================
