----------------------------- MODULE TraceWindow -----------------------------
(***************************************************************************)
(* What consecutive-kernel thread tracing promises, without counters,      *)
(* flags or locks: trace windows open one at a time, a dispatch belongs to *)
(* at most one of them, a window is closed only when every dispatch it     *)
(* captured has finished, and its data is filed under the lowest dispatch  *)
(* id it captured.                                                         *)
(***************************************************************************)
EXTENDS Naturals

CONSTANT Dispatch

VARIABLES
  window,   \* the dispatches captured by the open window; {} when none is open
  running,  \* the captured dispatches that have not finished
  filed     \* the closed windows: their members and the label of their data

vars == <<window, running, filed>>

Lowest(S) == CHOOSE d \in S : \A e \in S : d <= e

(* A dispatch enters the callback once, so it is captured once. *)
Fresh(d) == d \notin window /\ \A w \in filed : d \notin w.members

Init ==
  /\ window = {}
  /\ running = {}
  /\ filed = {}

Open(d) ==
  /\ window = {}
  /\ Fresh(d)
  /\ window' = {d}
  /\ running' = {d}
  /\ UNCHANGED filed

Capture(d) ==
  /\ window # {}
  /\ Fresh(d)
  /\ window' = window \cup {d}
  /\ running' = running \cup {d}
  /\ UNCHANGED filed

Finish(d) ==
  /\ d \in running
  /\ running' = running \ {d}
  /\ UNCHANGED <<window, filed>>

(* The window closes in the step that sees its last dispatch finish, or later. *)
Close ==
  /\ window # {}
  /\ \E d \in Dispatch : running \subseteq {d}
  /\ window' = {}
  /\ running' = {}
  /\ filed' = filed \cup {[label |-> Lowest(window), members |-> window]}

Next ==
  \/ \E d \in Dispatch : Open(d) \/ Capture(d) \/ Finish(d)
  \/ Close

Spec == Init /\ [][Next]_vars
==============================================================================
