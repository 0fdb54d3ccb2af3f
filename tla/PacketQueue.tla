----------------------------- MODULE PacketQueue -----------------------------
(***************************************************************************)
(* What a user queue of HsaRsrcFactory promises to those who submit to it: *)
(* packets get a place in line, and the packet processor takes them up in  *)
(* that order, each of them once and as it was submitted.                  *)
(***************************************************************************)
EXTENDS Naturals, Sequences

CONSTANT Packet    \* what can be submitted

VARIABLES order,   \* the packets submitted, in the order of their write indices
          taken    \* the packets the processor took up

vars == <<order, taken>>

Init == order = <<>> /\ taken = <<>>

(* The packet is given by the state after the step: Packet need not be finite. *)
Submit ==
  /\ Len(order') = Len(order) + 1
  /\ order'[Len(order')] \in Packet
  /\ order' = Append(order, order'[Len(order')])
  /\ UNCHANGED taken

Take ==
  /\ Len(taken) < Len(order)
  /\ taken' = Append(taken, order[Len(taken) + 1])
  /\ UNCHANGED order

Next == Submit \/ Take

Spec == Init /\ [][Next]_vars
=============================================================================
