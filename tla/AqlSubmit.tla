------------------------------ MODULE AqlSubmit ------------------------------
(***************************************************************************)
(* HsaRsrcFactory::Submit and SignalWaitRestore: threads put AQL packets   *)
(* into one user queue without a lock, and wait for the signal of the last *)
(* packet of their command.  The queue is a ring of Size slots; a place in *)
(* it is taken by adding to the write index, the slot is filled from its   *)
(* second dword on, the header is stored last, and the doorbell is rung.   *)
(*                                                                         *)
(* The packet processor is not under src/: once the doorbell was rung it   *)
(* takes up the packets from the read index on until it meets an invalid   *)
(* header, invalidates the header it took up, advances the read index, and *)
(* decrements the signal of a packet when the packet completes.            *)
(***************************************************************************)
EXTENDS Integers, Sequences

CONSTANTS
  Thread,    \* threads that submit
  Size,      \* queue->size, slots in the ring
  Lengths,   \* packets in a command
  Commands,  \* bound: commands of all threads
  Invalid    \* an AQL header of type INVALID, or a rest that nobody wrote

ASSUME RingAssumption == Size \in Nat \ {0}
ASSUME CommandAssumption == Lengths \subseteq Nat \ {0} /\ Commands \in Nat

VARIABLES
  write_index,  \* the queue's write index
  read_index,   \* the queue's read index
  slot,         \* the ring: first dword and the rest of the packet in each slot
  pc,           \* where a thread is in Submit and SignalWaitRestore
  write_idx,    \* the local of Submit
  left,         \* packets of its command a thread has yet to submit
  serial,       \* packets a thread has submitted
  commands,     \* bound: commands that may still begin
  signal,       \* value of the completion signal of a thread
  rung,         \* the processor has the doorbell to answer
  retiring,     \* the processor has taken up the packet at the read index
  running,      \* last packets of a command that execute
  order,        \* history: packets in the order of their write indices
  taken         \* history: what the processor took up

threadVars == <<pc, write_idx, left, serial, commands>>
vars == <<write_index, read_index, slot, threadVars, signal, rung, retiring, running, order,
          taken>>

-----------------------------------------------------------------------------
Packet == [thread : Thread, serial : Nat, last : BOOLEAN]

ASSUME InvalidAssumption == Invalid \notin Packet

(* The packet t is about to submit; the last of a command carries the signal. *)
Current(t) == [thread |-> t, serial |-> serial[t], last |-> left[t] = 1]

(* slot_idx, the place of an index in the ring. *)
SlotOf(index) == index % Size

Init ==
  /\ write_index = 0 /\ read_index = 0
  /\ slot = [s \in 0 .. Size - 1 |-> [header |-> Invalid, rest |-> Invalid]]
  /\ pc = [t \in Thread |-> "idle"]
  /\ write_idx = [t \in Thread |-> 0]
  /\ left = [t \in Thread |-> 0]
  /\ serial = [t \in Thread |-> 0]
  /\ commands = Commands
  /\ signal = [t \in Thread |-> 1]
  /\ rung = FALSE /\ retiring = FALSE /\ running = {}
  /\ order = <<>> /\ taken = <<>>

-----------------------------------------------------------------------------
(* Submit(queue, packet, size_bytes): a command of several packets, submitted one by
   one by the loop over Submit(queue, packet). *)
BeginCommand(t) ==
  /\ pc[t] = "idle" /\ commands > 0
  /\ \E n \in Lengths : left' = [left EXCEPT ![t] = n]
  /\ commands' = commands - 1
  /\ pc' = [pc EXCEPT ![t] = "claim"]
  /\ UNCHANGED <<write_index, read_index, slot, write_idx, serial, signal, rung, retiring,
                 running, order, taken>>

(* hsa_queue_add_write_index_scacq_screl: take a place in line. *)
Claim(t) ==
  /\ pc[t] = "claim"
  /\ write_idx' = [write_idx EXCEPT ![t] = write_index]
  /\ write_index' = write_index + 1
  /\ order' = Append(order, Current(t))
  /\ pc' = [pc EXCEPT ![t] = "spin"]
  /\ UNCHANGED <<read_index, slot, left, serial, commands, signal, rung, retiring, running,
                 taken>>

(* Mutant of HasRoom: the comparison is > instead of >=. *)
HasRoomOffByOne(t) == write_idx[t] - read_index <= Size

(* The ring has come round to the place of t. *)
HasRoom(t) == write_idx[t] - read_index < Size

(* Mutant of SubmitOrder: the packet is copied from its first dword on. *)
HeaderFirst == [spin |-> "header", header |-> "rest", rest |-> "doorbell", doorbell |-> "next"]

(* Mutant of SubmitOrder: the doorbell is rung before the header is stored. *)
DoorbellFirst == [spin |-> "rest", rest |-> "doorbell", doorbell |-> "header", header |-> "next"]

(* The rest of the packet before its header, the doorbell last. *)
SubmitOrder == [spin |-> "rest", rest |-> "header", header |-> "doorbell", doorbell |-> "next"]

(* The step after this one; behind the last, the next packet or the wait for them. *)
Proceed(t) ==
  LET next == SubmitOrder[pc[t]]
  IN IF next = "next"
       THEN /\ pc' = [pc EXCEPT ![t] = IF left[t] = 1 THEN "wait" ELSE "claim"]
            /\ left' = [left EXCEPT ![t] = @ - 1]
            /\ serial' = [serial EXCEPT ![t] = @ + 1]
       ELSE /\ pc' = [pc EXCEPT ![t] = next]
            /\ UNCHANGED <<left, serial>>

(* The loop around sched_yield ends. *)
EnterSlot(t) ==
  /\ pc[t] = "spin" /\ HasRoom(t)
  /\ Proceed(t)
  /\ UNCHANGED <<write_index, read_index, slot, write_idx, commands, signal, rung, retiring,
                 running, order, taken>>

(* memcpy of all but the first dword. *)
CopyRest(t) ==
  /\ pc[t] = "rest"
  /\ slot' = [slot EXCEPT ![SlotOf(write_idx[t])].rest = Current(t)]
  /\ Proceed(t)
  /\ UNCHANGED <<write_index, read_index, write_idx, commands, signal, rung, retiring, running,
                 order, taken>>

(* header_atomic_ptr->store, with release order. *)
StoreHeader(t) ==
  /\ pc[t] = "header"
  /\ slot' = [slot EXCEPT ![SlotOf(write_idx[t])].header = Current(t)]
  /\ Proceed(t)
  /\ UNCHANGED <<write_index, read_index, write_idx, commands, signal, rung, retiring, running,
                 order, taken>>

(* hsa_signal_store_relaxed on the doorbell: values of several threads arrive in any
   order, that one arrived is what counts. *)
RingDoorbell(t) ==
  /\ pc[t] = "doorbell"
  /\ rung' = TRUE
  /\ Proceed(t)
  /\ UNCHANGED <<write_index, read_index, slot, write_idx, commands, signal, retiring, running,
                 order, taken>>

-----------------------------------------------------------------------------
(* What SignalWait does with the value hsa_signal_wait_scacquire returned for a signal
   that was 1: done, waiting on (it timed out), or abort(). *)
WaitResult(value) ==
  CASE value = 0 -> "restore" [] value = 1 -> "wait" [] OTHER -> "abort"

(* SignalWait: woken by the signal, or by the timeout. *)
SignalWait(t) ==
  /\ pc[t] = "wait"
  /\ pc' = [pc EXCEPT ![t] = WaitResult(signal[t])]
  /\ UNCHANGED <<write_index, read_index, slot, write_idx, left, serial, commands, signal, rung,
                 retiring, running, order, taken>>

(* Mutant of Restored: the signal is left as it is. *)
NotRestored(t) == signal[t]

(* The value SignalWaitRestore stores. *)
Restored(t) == 1

SignalRestore(t) ==
  /\ pc[t] = "restore"
  /\ signal' = [signal EXCEPT ![t] = Restored(t)]
  /\ pc' = [pc EXCEPT ![t] = "idle"]
  /\ UNCHANGED <<write_index, read_index, slot, write_idx, left, serial, commands, rung,
                 retiring, running, order, taken>>

-----------------------------------------------------------------------------
AtFront == slot[SlotOf(read_index)]

(* A slot as the processor sees it: whole, or header and rest of two packets. *)
Seen(s) == IF s.header = s.rest THEN s.header ELSE Invalid

(* The processor takes up the packet at the read index and invalidates its header. *)
TakeUp ==
  /\ rung /\ ~retiring /\ AtFront.header # Invalid
  /\ taken' = Append(taken, Seen(AtFront))
  /\ slot' = [slot EXCEPT ![SlotOf(read_index)].header = Invalid]
  /\ retiring' = TRUE
  /\ running' = IF AtFront.header.last THEN running \cup {AtFront.header} ELSE running
  /\ UNCHANGED <<write_index, read_index, threadVars, signal, rung, order>>

(* It advances the read index. *)
Retire ==
  /\ retiring
  /\ retiring' = FALSE
  /\ read_index' = read_index + 1
  /\ UNCHANGED <<write_index, slot, threadVars, signal, rung, running, order, taken>>

(* It meets an invalid header and waits for the doorbell. *)
Sleep ==
  /\ rung /\ ~retiring /\ AtFront.header = Invalid
  /\ rung' = FALSE
  /\ UNCHANGED <<write_index, read_index, slot, threadVars, signal, retiring, running, order,
                 taken>>

(* The last packet of a command completes. *)
Complete(p) ==
  /\ running' = running \ {p}
  /\ signal' = [signal EXCEPT ![p.thread] = @ - 1]
  /\ UNCHANGED <<write_index, read_index, slot, threadVars, rung, retiring, order, taken>>

SubmitPacket(t) ==
  Claim(t) \/ EnterSlot(t) \/ CopyRest(t) \/ StoreHeader(t) \/ RingDoorbell(t)

ThreadStep(t) == BeginCommand(t) \/ SubmitPacket(t) \/ SignalWait(t) \/ SignalRestore(t)

Processor == TakeUp \/ Retire \/ Sleep \/ \E p \in running : Complete(p)

Next == (\E t \in Thread : ThreadStep(t)) \/ Processor

(* Threads in a call are scheduled, the processor works, kernels end. *)
Fairness ==
  /\ \A t \in Thread : WF_vars(SubmitPacket(t) \/ SignalWait(t) \/ SignalRestore(t))
  /\ WF_vars(Processor)

Spec == Init /\ [][Next]_vars
FairSpec == Spec /\ Fairness

-----------------------------------------------------------------------------
Queue == INSTANCE PacketQueue

(* Types of the queue, the locals of the threads and the histories. *)
AqlTypeOK ==
  /\ write_index \in Nat /\ read_index \in Nat
  /\ slot \in [0 .. Size - 1 -> [header : Packet \cup {Invalid}, rest : Packet \cup {Invalid}]]
  /\ pc \in [Thread -> {"idle", "claim", "spin", "rest", "header", "doorbell", "wait",
                        "restore", "abort"}]
  /\ write_idx \in [Thread -> Nat] /\ left \in [Thread -> Nat] /\ serial \in [Thread -> Nat]
  /\ commands \in Nat
  /\ signal \in [Thread -> Int]
  /\ rung \in BOOLEAN /\ retiring \in BOOLEAN
  /\ running \subseteq Packet
  /\ order \in Seq(Packet) /\ taken \in Seq(Packet \cup {Invalid})

(***************************************************************************)
(* The comment in Submit, "This prevents the slot from being read until    *)
(* it's fully written", and what the claim by the write index is for:      *)
(* the processor takes up the packets of all threads in the order of their *)
(* write indices, whole, each of them once, also when the ring is full.    *)
(***************************************************************************)
QueueImplemented == Queue!Spec

(* A thread whose wait is over, or that does not wait, has no command in the queue. *)
Returned(t) == pc[t] \in {"idle", "restore"}

(***************************************************************************)
(* SignalWaitRestore returns when the command is done and not earlier,     *)
(* also when the signal is used again: all packets of the thread were      *)
(* taken up, the last one has completed, and no wait ends in abort().      *)
(***************************************************************************)
WaitMeansDone ==
  \A t \in Thread :
    /\ pc[t] # "abort"
    /\ Returned(t) => /\ \A i \in DOMAIN order : order[i].thread = t => i <= Len(taken)
                      /\ \A p \in running : p.thread # t
=============================================================================
