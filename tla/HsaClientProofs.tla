--------------------------- MODULE HsaClientProofs ---------------------------
(***************************************************************************)
(* AqlSubmit implements PacketQueue for every number of threads, ring size *)
(* and command length, and it does so for threads that get and leave the   *)
(* factory, of which there is one.                                         *)
(*                                                                         *)
(* The packets that are in line but not taken up have the indices from     *)
(* Len(taken) on.  The invariant says that a slot with a valid header      *)
(* holds, whole, the packet of one such index within a ring's length of    *)
(* the read index, and that no thread still fills the slot for that index. *)
(* Two indices of one window that fall into the same slot are equal, so a  *)
(* thread that was let into its slot finds it invalid and alone, and the   *)
(* valid header at the read index is that of the next packet in line.      *)
(***************************************************************************)
EXTENDS HsaClient, SequenceTheorems, WellFoundedInduction, TLAPS

USE RingAssumption, CommandAssumption, InvalidAssumption

(***************************************************************************)
(* Division with remainder, as the slot computation in Submit uses it.     *)
(***************************************************************************)
LEMMA Division ==
  ASSUME NEW n \in Nat \ {0}, NEW a \in Nat
  PROVE  /\ a = n * (a \div n) + (a % n)
         /\ a \div n \in Nat
         /\ a % n \in 0 .. n - 1
  OBVIOUS

LEMMA SlotDivision ==
  ASSUME NEW a \in Nat
  PROVE  /\ a = Size * (a \div Size) + SlotOf(a)
         /\ a \div Size \in Nat
         /\ SlotOf(a) \in 0 .. Size - 1
         /\ SlotOf(a) \in Nat
<1>1. /\ a = Size * (a \div Size) + (a % Size)
      /\ a \div Size \in Nat
      /\ a % Size \in 0 .. Size - 1
  BY Division
<1>2. a % Size \in Nat
  BY <1>1
<1> QED BY <1>1, <1>2 DEF SlotOf

(* An index less than a ring's length behind another, in the same slot, is that index. *)
LEMMA BehindInSlot ==
  ASSUME NEW a \in Nat, NEW b \in Nat, SlotOf(a) = SlotOf(b), a <= b, b - a < Size
  PROVE  a = b
<1> DEFINE p == a \div Size
           q == b \div Size
<1>1. a = Size * p + SlotOf(a) /\ p \in Nat /\ SlotOf(a) \in Nat
  BY SlotDivision
<1>2. b = Size * q + SlotOf(b) /\ q \in Nat
  BY SlotDivision
<1> HIDE DEF p, q
<1>3. CASE q > p
  <2>1. q - p - 1 \in Nat
    BY <1>1, <1>2, <1>3
  <2>2. PICK k \in Nat : q = p + 1 + k
    BY <2>1, <1>1, <1>2
  <2>3. Size * q = Size * p + Size + Size * k
    BY <2>2, <1>1
  <2>4. Size * k \in Nat
    BY <2>2
  <2> QED BY <1>1, <1>2, <2>3, <2>4
<1>4. CASE q <= p
  <2>1. p - q \in Nat
    BY <1>1, <1>2, <1>4
  <2>2. PICK k \in Nat : p = q + k
    BY <2>1, <1>1, <1>2
  <2>3. Size * p = Size * q + Size * k
    BY <2>2, <1>2
  <2>4. Size * k \in Nat
    BY <2>2
  <2> QED BY <1>1, <1>2, <2>3, <2>4
<1> QED BY <1>1, <1>2, <1>3, <1>4

(* Two indices of the window behind the read index that share a slot are equal. *)
LEMMA OneIndexPerSlot ==
  ASSUME NEW r \in Nat, NEW a \in Nat, NEW b \in Nat, SlotOf(a) = SlotOf(b),
         r <= a, r <= b, a - r < Size, b - r < Size
  PROVE  a = b
<1>1. CASE a <= b
  BY <1>1, BehindInSlot
<1>2. CASE b <= a
  BY <1>2, BehindInSlot
<1> QED BY <1>1, <1>2

-----------------------------------------------------------------------------
(* A thread inside Submit has a packet left to submit. *)
Submitting == {"claim", "spin", "rest", "header", "doorbell"}
PacketLeft == \A t \in Thread : pc[t] \in Submitting => left[t] >= 1

TypeInv == AqlTypeOK /\ PacketLeft

LEMMA CurrentIsPacket ==
  ASSUME AqlTypeOK, NEW t \in Thread PROVE Current(t) \in Packet
  BY DEF AqlTypeOK, Current, Packet

(* Where a thread is after one more step of Submit. *)
LEMMA ProceedSteps ==
  ASSUME NEW t \in Thread, Proceed(t)
  PROVE  /\ pc[t] = "spin" => pc' = [pc EXCEPT ![t] = "rest"] /\ UNCHANGED <<left, serial>>
         /\ pc[t] = "rest" => pc' = [pc EXCEPT ![t] = "header"] /\ UNCHANGED <<left, serial>>
         /\ pc[t] = "header" => pc' = [pc EXCEPT ![t] = "doorbell"] /\ UNCHANGED <<left, serial>>
         /\ pc[t] = "doorbell" =>
              /\ pc' = [pc EXCEPT ![t] = IF left[t] = 1 THEN "wait" ELSE "claim"]
              /\ left' = [left EXCEPT ![t] = @ - 1]
              /\ serial' = [serial EXCEPT ![t] = @ + 1]
  BY DEF Proceed, SubmitOrder

LEMMA TypeInit == Init => TypeInv
<1> SUFFICES ASSUME Init PROVE TypeInv
  OBVIOUS
<1>1. slot \in [0 .. Size - 1 -> [header : Packet \cup {Invalid}, rest : Packet \cup {Invalid}]]
  BY DEF Init
<1>2. order \in Seq(Packet) /\ taken \in Seq(Packet \cup {Invalid})
  BY DEF Init
<1> QED BY <1>1, <1>2 DEF Init, TypeInv, AqlTypeOK, PacketLeft, Submitting

LEMMA TypeNext == TypeInv /\ [Next]_vars => TypeInv'
<1> SUFFICES ASSUME TypeInv, [Next]_vars PROVE TypeInv'
  OBVIOUS
<1> USE DEF TypeInv, AqlTypeOK, PacketLeft, Submitting
<1>1. ASSUME NEW t \in Thread, BeginCommand(t) PROVE TypeInv'
  <2>1. PICK n \in Lengths : left' = [left EXCEPT ![t] = n]
    BY <1>1 DEF BeginCommand
  <2>2. n \in Nat /\ n >= 1
    BY <2>1
  <2> QED BY <1>1, <2>1, <2>2 DEF BeginCommand
<1>2. ASSUME NEW t \in Thread, Claim(t) PROVE TypeInv'
  <2>1. order' \in Seq(Packet)
    BY <1>2, CurrentIsPacket DEF Claim
  <2> QED BY <1>2, <2>1 DEF Claim
<1>3. ASSUME NEW t \in Thread, EnterSlot(t) PROVE TypeInv'
  BY <1>3, ProceedSteps DEF EnterSlot
<1>4. ASSUME NEW t \in Thread, CopyRest(t) PROVE TypeInv'
  <2>1. SlotOf(write_idx[t]) \in 0 .. Size - 1 /\ Current(t) \in Packet
    BY SlotDivision, CurrentIsPacket
  <2>2. slot' \in [0 .. Size - 1 -> [header : Packet \cup {Invalid}, rest : Packet \cup {Invalid}]]
    BY <1>4, <2>1 DEF CopyRest
  <2> QED BY <1>4, <2>2, ProceedSteps DEF CopyRest
<1>5. ASSUME NEW t \in Thread, StoreHeader(t) PROVE TypeInv'
  <2>1. SlotOf(write_idx[t]) \in 0 .. Size - 1 /\ Current(t) \in Packet
    BY SlotDivision, CurrentIsPacket
  <2>2. slot' \in [0 .. Size - 1 -> [header : Packet \cup {Invalid}, rest : Packet \cup {Invalid}]]
    BY <1>5, <2>1 DEF StoreHeader
  <2> QED BY <1>5, <2>2, ProceedSteps DEF StoreHeader
<1>6. ASSUME NEW t \in Thread, RingDoorbell(t) PROVE TypeInv'
  <2>1. pc[t] = "doorbell" /\ left[t] - 1 \in Nat
    BY <1>6 DEF RingDoorbell
  <2>2. /\ pc' = [pc EXCEPT ![t] = IF left[t] = 1 THEN "wait" ELSE "claim"]
        /\ left' = [left EXCEPT ![t] = left[t] - 1]
        /\ serial' = [serial EXCEPT ![t] = serial[t] + 1]
    BY <1>6, <2>1, ProceedSteps DEF RingDoorbell
  <2>3. left' \in [Thread -> Nat] /\ serial' \in [Thread -> Nat]
    BY <2>1, <2>2
  <2>4. PacketLeft'
    BY <2>1, <2>2
  <2> QED BY <1>6, <2>2, <2>3, <2>4 DEF RingDoorbell
<1>7. ASSUME NEW t \in Thread, SignalWait(t) PROVE TypeInv'
  <2>1. WaitResult(signal[t]) \in {"restore", "wait", "abort"}
    BY DEF WaitResult
  <2> QED BY <1>7, <2>1 DEF SignalWait
<1>8. ASSUME NEW t \in Thread, SignalRestore(t) PROVE TypeInv'
  BY <1>8 DEF SignalRestore, Restored
<1>9. ASSUME TakeUp PROVE TypeInv'
  <2>1. SlotOf(read_index) \in 0 .. Size - 1
    BY SlotDivision
  <2>2. AtFront \in [header : Packet \cup {Invalid}, rest : Packet \cup {Invalid}]
    BY <2>1 DEF AtFront
  <2>3. slot' \in [0 .. Size - 1 -> [header : Packet \cup {Invalid}, rest : Packet \cup {Invalid}]]
    BY <1>9, <2>1 DEF TakeUp
  <2>4. Seen(AtFront) \in Packet \cup {Invalid}
    BY <2>2 DEF Seen
  <2>5. taken' \in Seq(Packet \cup {Invalid})
    BY <1>9, <2>4 DEF TakeUp
  <2>6. running' \subseteq Packet
    BY <1>9, <2>2 DEF TakeUp
  <2> QED BY <1>9, <2>3, <2>5, <2>6 DEF TakeUp, threadVars
<1>10. ASSUME Retire PROVE TypeInv'
  <2>1. read_index' \in Nat
    BY <1>10 DEF Retire
  <2>2. retiring' \in BOOLEAN /\ rung' \in BOOLEAN
    BY <1>10 DEF Retire
  <2> QED BY <1>10, <2>1, <2>2 DEF Retire, threadVars
<1>11. ASSUME Sleep PROVE TypeInv'
  BY <1>11 DEF Sleep, threadVars
<1>12. ASSUME NEW p \in running, Complete(p) PROVE TypeInv'
  <2>1. p.thread \in Thread
    BY DEF Packet
  <2>2. signal' \in [Thread -> Int] /\ running' \subseteq Packet
    BY <1>12, <2>1 DEF Complete
  <2>3. /\ UNCHANGED <<write_index, read_index, slot, pc, write_idx, left, serial, commands>>
        /\ UNCHANGED <<rung, retiring, order, taken>>
    BY <1>12 DEF Complete, threadVars
  <2> QED BY <2>2, <2>3
<1>13. ASSUME UNCHANGED vars PROVE TypeInv'
  BY <1>13 DEF vars, threadVars
<1> QED BY <1>1, <1>2, <1>3, <1>4, <1>5, <1>6, <1>7, <1>8, <1>9, <1>10, <1>11, <1>12, <1>13
        DEF Next, ThreadStep, SubmitPacket, Processor

(***************************************************************************)
(* The queue, the locals of Submit and the signals keep their types.       *)
(***************************************************************************)
THEOREM TypesKept == Spec => []AqlTypeOK
<1>1. TypeInv => AqlTypeOK
  BY DEF TypeInv
<1> QED BY TypeInit, TypeNext, <1>1, PTL DEF Spec

-----------------------------------------------------------------------------
(* A thread has a place in line that it has not filled yet. *)
Filling(t) == pc[t] \in {"spin", "rest", "header"}

(* The histories agree with the indices. *)
IndicesInv ==
  /\ Len(order) = write_index
  /\ Len(taken) = read_index + (IF retiring THEN 1 ELSE 0)
  /\ Len(taken) <= write_index

(* Threads that fill have places of their own, and the ring has room for those that
   were let into their slot. *)
PlacesInv ==
  \A t \in Thread : Filling(t) =>
    /\ Len(taken) <= write_idx[t] /\ write_idx[t] < write_index
    /\ order[write_idx[t] + 1] = Current(t)
    /\ pc[t] # "spin" => write_idx[t] - read_index < Size
    /\ pc[t] = "header" => slot[SlotOf(write_idx[t])].rest = Current(t)
    /\ \A u \in Thread : Filling(u) /\ write_idx[u] = write_idx[t] => u = t

(* The slot s holds the packet with index i, and nobody is filling it. *)
Holds(s, i) ==
  /\ Len(taken) <= i /\ i < write_index /\ i - read_index < Size
  /\ SlotOf(i) = s
  /\ slot[s].header = order[i + 1] /\ slot[s].rest = order[i + 1]
  /\ \A t \in Thread : Filling(t) => write_idx[t] # i

SlotsInv ==
  \A s \in 0 .. Size - 1 : slot[s].header # Invalid => \E i \in Nat : Holds(s, i)

RingInv == TypeInv /\ IndicesInv /\ PlacesInv /\ SlotsInv

LEMMA RingInit == Init => RingInv
<1> SUFFICES ASSUME Init PROVE RingInv
  OBVIOUS
<1>1. TypeInv
  BY TypeInit
<1>2. IndicesInv
  BY DEF Init, IndicesInv
<1>3. PlacesInv /\ SlotsInv
  BY DEF Init, PlacesInv, SlotsInv, Filling
<1> QED BY <1>1, <1>2, <1>3 DEF RingInv

(* A slot that is left alone, and whose index nobody starts to fill, still holds it. *)
LEMMA HoldsKept ==
  ASSUME NEW s \in 0 .. Size - 1, NEW i \in Nat, Holds(s, i),
         slot'[s] = slot[s], order'[i + 1] = order[i + 1],
         Len(taken)' <= i, i < write_index', i - read_index' < Size,
         \A t \in Thread : Filling(t)' => write_idx'[t] # i
  PROVE  Holds(s, i)'
  BY DEF Holds

(* The places of the threads that fill are untouched by a step that leaves them, the
   ring and the locals alone. *)
LEMMA RestKept ==
  ASSUME RingInv, [Next]_vars,
         UNCHANGED <<write_index, read_index, slot, write_idx, order, taken, retiring>>,
         \A t \in Thread : Filling(t)' =>
           Filling(t) /\ Current(t)' = Current(t) /\ pc'[t] = pc[t]
  PROVE  RingInv'
<1>1. TypeInv'
  BY TypeNext DEF RingInv
<1>2. IndicesInv'
  BY DEF RingInv, IndicesInv
<1>3. PlacesInv'
  BY DEF RingInv, PlacesInv
<1>4. SlotsInv'
  <2> SUFFICES ASSUME NEW s \in 0 .. Size - 1, slot'[s].header # Invalid
               PROVE  \E i \in Nat : Holds(s, i)'
    BY DEF SlotsInv
  <2>1. PICK i \in Nat : Holds(s, i)
    BY DEF RingInv, SlotsInv
  <2>2. Holds(s, i)'
    BY <2>1 DEF Holds
  <2> QED BY <2>2
<1> QED BY <1>1, <1>2, <1>3, <1>4 DEF RingInv

LEMMA ClaimKeeps ==
  ASSUME RingInv, NEW t \in Thread, Claim(t) PROVE RingInv'
<1> USE DEF RingInv, TypeInv, AqlTypeOK
<1>1. TypeInv'
  BY TypeNext DEF Next, ThreadStep, SubmitPacket
<1>2. /\ Len(order') = write_index + 1 /\ order'[write_index + 1] = Current(t)
      /\ \A i \in Nat : i < write_index => order'[i + 1] = order[i + 1]
  <2>1. Current(t) \in Packet /\ order \in Seq(Packet) /\ Len(order) = write_index
    BY CurrentIsPacket DEF IndicesInv
  <2>2. order' = Append(order, Current(t))
    BY DEF Claim
  <2> HIDE DEF RingInv, TypeInv, AqlTypeOK
  <2> QED BY <2>1, <2>2
<1>3. IndicesInv'
  BY <1>2 DEF Claim, IndicesInv
<1>4. ~Filling(t) /\ \A u \in Thread : Filling(u)' => u = t \/ Filling(u)
  BY DEF Claim, Filling
<1>5. \A u \in Thread : Current(u)' = Current(u)
  BY DEF Claim, Current
<1>6. PlacesInv'
  <2> SUFFICES ASSUME NEW u \in Thread, Filling(u)'
               PROVE  /\ Len(taken)' <= write_idx'[u] /\ write_idx'[u] < write_index'
                      /\ order'[write_idx'[u] + 1] = Current(u)'
                      /\ pc'[u] # "spin" => write_idx'[u] - read_index' < Size
                      /\ pc'[u] = "header" => slot'[SlotOf(write_idx'[u])].rest = Current(u)'
                      /\ \A v \in Thread : Filling(v)' /\ write_idx'[v] = write_idx'[u] => v = u
    BY DEF PlacesInv, SlotOf
  <2>1. CASE u = t
    <3>1. write_idx'[u] = write_index /\ pc'[u] = "spin"
      BY <2>1 DEF Claim
    <3>2. \A v \in Thread : Filling(v)' /\ v # t => write_idx'[v] < write_index
      BY <1>4 DEF Claim, PlacesInv
    <3> QED BY <2>1, <3>1, <3>2, <1>2, <1>5 DEF Claim, IndicesInv
  <2>2. CASE u # t
    <3>1. Filling(u) /\ write_idx'[u] = write_idx[u] /\ pc'[u] = pc[u]
      BY <2>2, <1>4 DEF Claim
    <3>2. \A v \in Thread : Filling(v)' /\ write_idx'[v] = write_idx'[u] => v = u
      BY <2>2, <3>1, <1>4 DEF Claim, PlacesInv
    <3>3. /\ Len(taken)' <= write_idx'[u] /\ write_idx'[u] < write_index'
          /\ order'[write_idx'[u] + 1] = Current(u)'
      BY <3>1, <1>2, <1>5 DEF Claim, PlacesInv
    <3>4. /\ pc'[u] # "spin" => write_idx'[u] - read_index' < Size
          /\ pc'[u] = "header" => slot'[SlotOf(write_idx'[u])].rest = Current(u)'
      BY <3>1, <1>5 DEF Claim, PlacesInv
    <3> QED BY <3>2, <3>3, <3>4
  <2> QED BY <2>1, <2>2
<1>7. SlotsInv'
  <2> SUFFICES ASSUME NEW s \in 0 .. Size - 1, slot'[s].header # Invalid
               PROVE  \E i \in Nat : Holds(s, i)'
    BY DEF SlotsInv
  <2>1. PICK i \in Nat : Holds(s, i)
    BY DEF SlotsInv, Claim
  <2>2. \A u \in Thread : Filling(u)' => write_idx'[u] # i
    BY <2>1, <1>4 DEF Claim, Holds
  <2>3. Holds(s, i)'
    BY <2>1, <2>2, <1>2, HoldsKept DEF Claim, Holds
  <2> QED BY <2>3
<1> QED BY <1>1, <1>3, <1>6, <1>7

LEMMA EnterSlotKeeps ==
  ASSUME RingInv, NEW t \in Thread, EnterSlot(t) PROVE RingInv'
<1> USE DEF RingInv, TypeInv, AqlTypeOK
<1>1. TypeInv'
  BY TypeNext DEF Next, ThreadStep, SubmitPacket
<1>2. pc[t] = "spin" /\ pc' = [pc EXCEPT ![t] = "rest"] /\ UNCHANGED <<left, serial>>
  BY ProceedSteps DEF EnterSlot
<1>3. \A u \in Thread : (Filling(u)' <=> Filling(u)) /\ Current(u)' = Current(u)
  BY <1>2 DEF Filling, Current
<1>4. IndicesInv'
  BY DEF EnterSlot, IndicesInv
<1>5. PlacesInv'
  BY <1>2, <1>3 DEF EnterSlot, PlacesInv, HasRoom, SlotOf
<1>6. SlotsInv'
  <2> SUFFICES ASSUME NEW s \in 0 .. Size - 1, slot'[s].header # Invalid
               PROVE  \E i \in Nat : Holds(s, i)'
    BY DEF SlotsInv
  <2>1. PICK i \in Nat : Holds(s, i)
    BY DEF SlotsInv, EnterSlot
  <2>2. Holds(s, i)'
    BY <2>1, <1>3 DEF Holds, EnterSlot
  <2> QED BY <2>2
<1> QED BY <1>1, <1>4, <1>5, <1>6

(* The slot a thread was let into is invalid, and no other thread fills it. *)
LEMMA SlotIsFree ==
  ASSUME RingInv, NEW t \in Thread, pc[t] \in {"rest", "header"}
  PROVE  /\ slot[SlotOf(write_idx[t])].header = Invalid
         /\ \A u \in Thread :
              pc[u] \in {"rest", "header"} /\ SlotOf(write_idx[u]) = SlotOf(write_idx[t])
                => u = t
<1> USE DEF RingInv, TypeInv, AqlTypeOK
<1>1. /\ Filling(t) /\ write_idx[t] \in Nat /\ write_idx[t] - read_index < Size
      /\ read_index <= write_idx[t]
  BY DEF Filling, PlacesInv, IndicesInv
<1>2. ASSUME slot[SlotOf(write_idx[t])].header # Invalid PROVE FALSE
  <2>1. PICK i \in Nat : Holds(SlotOf(write_idx[t]), i)
    BY <1>1, <1>2, SlotDivision DEF SlotsInv
  <2>2. read_index <= i /\ i - read_index < Size /\ SlotOf(i) = SlotOf(write_idx[t])
    BY <2>1 DEF Holds, IndicesInv
  <2>3. i = write_idx[t]
    BY <1>1, <2>2, OneIndexPerSlot
  <2> QED BY <2>1, <2>3, <1>1 DEF Holds
<1>3. ASSUME NEW u \in Thread, pc[u] \in {"rest", "header"},
             SlotOf(write_idx[u]) = SlotOf(write_idx[t])
      PROVE  u = t
  <2>1. /\ Filling(u) /\ write_idx[u] \in Nat /\ write_idx[u] - read_index < Size
        /\ read_index <= write_idx[u]
    BY <1>3 DEF Filling, PlacesInv, IndicesInv
  <2>2. write_idx[u] = write_idx[t]
    BY <1>1, <1>3, <2>1, OneIndexPerSlot
  <2> QED BY <1>1, <2>1, <2>2 DEF PlacesInv
<1> QED BY <1>2, <1>3

LEMMA CopyRestKeeps ==
  ASSUME RingInv, NEW t \in Thread, CopyRest(t) PROVE RingInv'
<1> USE DEF RingInv, TypeInv, AqlTypeOK
<1> DEFINE mine == SlotOf(write_idx[t])
<1>1. TypeInv'
  BY TypeNext DEF Next, ThreadStep, SubmitPacket
<1>2. pc[t] = "rest" /\ pc' = [pc EXCEPT ![t] = "header"] /\ UNCHANGED <<left, serial>>
  BY ProceedSteps DEF CopyRest
<1>3. \A u \in Thread : (Filling(u)' <=> Filling(u)) /\ Current(u)' = Current(u)
  BY <1>2 DEF Filling, Current
<1>4. mine \in 0 .. Size - 1 /\ slot[mine].header = Invalid
  BY <1>2, SlotIsFree, SlotDivision
<1>5. /\ slot'[mine].rest = Current(t) /\ slot'[mine].header = Invalid
      /\ \A s \in 0 .. Size - 1 : s # mine => slot'[s] = slot[s]
  BY <1>4 DEF CopyRest
<1>6. IndicesInv'
  BY DEF CopyRest, IndicesInv
<1>7. PlacesInv'
  <2> SUFFICES ASSUME NEW u \in Thread, Filling(u)'
               PROVE  /\ Len(taken)' <= write_idx'[u] /\ write_idx'[u] < write_index'
                      /\ order'[write_idx'[u] + 1] = Current(u)'
                      /\ pc'[u] # "spin" => write_idx'[u] - read_index' < Size
                      /\ pc'[u] = "header" => slot'[SlotOf(write_idx'[u])].rest = Current(u)'
                      /\ \A v \in Thread : Filling(v)' /\ write_idx'[v] = write_idx'[u] => v = u
    BY DEF PlacesInv, SlotOf
  <2>1. ASSUME pc'[u] = "header" PROVE slot'[SlotOf(write_idx'[u])].rest = Current(u)'
    <3>1. CASE u = t
      BY <3>1, <1>3, <1>5 DEF CopyRest
    <3>2. CASE u # t
      <4>1. pc[u] = "header" /\ write_idx'[u] = write_idx[u]
        BY <2>1, <3>2, <1>2 DEF CopyRest
      <4>2. SlotOf(write_idx[u]) # mine
        BY <4>1, <3>2, <1>2, SlotIsFree
      <4>3. SlotOf(write_idx[u]) \in 0 .. Size - 1
        BY SlotDivision
      <4> QED BY <4>1, <4>2, <4>3, <1>3, <1>5 DEF PlacesInv, Filling
    <3> QED BY <3>1, <3>2
  <2>2. pc'[u] # "spin" => pc[u] # "spin"
    BY <1>2
  <2> QED BY <2>1, <2>2, <1>3 DEF CopyRest, PlacesInv
<1>8. SlotsInv'
  <2> SUFFICES ASSUME NEW s \in 0 .. Size - 1, slot'[s].header # Invalid
               PROVE  \E i \in Nat : Holds(s, i)'
    BY DEF SlotsInv
  <2>1. s # mine /\ slot'[s] = slot[s]
    BY <1>5
  <2>2. PICK i \in Nat : Holds(s, i)
    BY <2>1 DEF SlotsInv
  <2>3. Holds(s, i)'
    BY <2>1, <2>2, <1>3 DEF Holds, CopyRest
  <2> QED BY <2>3
<1> QED BY <1>1, <1>6, <1>7, <1>8

LEMMA StoreHeaderKeeps ==
  ASSUME RingInv, NEW t \in Thread, StoreHeader(t) PROVE RingInv'
<1> USE DEF RingInv, TypeInv, AqlTypeOK
<1> DEFINE mine == SlotOf(write_idx[t])
<1>1. TypeInv'
  BY TypeNext DEF Next, ThreadStep, SubmitPacket
<1>2. pc[t] = "header" /\ pc' = [pc EXCEPT ![t] = "doorbell"] /\ UNCHANGED <<left, serial>>
  BY ProceedSteps DEF StoreHeader
<1>3. \A u \in Thread : /\ Filling(u)' <=> Filling(u) /\ u # t
                        /\ Current(u)' = Current(u)
  BY <1>2 DEF Filling, Current
<1>4. /\ mine \in 0 .. Size - 1 /\ slot[mine].rest = Current(t)
      /\ Filling(t) /\ write_idx[t] \in Nat
  BY <1>2, SlotDivision DEF PlacesInv, Filling
<1>5. /\ slot'[mine].rest = Current(t) /\ slot'[mine].header = Current(t)
      /\ \A s \in 0 .. Size - 1 : slot'[s].rest = slot[s].rest /\ (s # mine => slot'[s] = slot[s])
  BY <1>4 DEF StoreHeader
<1>6. IndicesInv'
  BY DEF StoreHeader, IndicesInv
<1>7. PlacesInv'
  <2> SUFFICES ASSUME NEW u \in Thread, Filling(u)'
               PROVE  /\ Len(taken)' <= write_idx'[u] /\ write_idx'[u] < write_index'
                      /\ order'[write_idx'[u] + 1] = Current(u)'
                      /\ pc'[u] # "spin" => write_idx'[u] - read_index' < Size
                      /\ pc'[u] = "header" => slot'[SlotOf(write_idx'[u])].rest = Current(u)'
                      /\ \A v \in Thread : Filling(v)' /\ write_idx'[v] = write_idx'[u] => v = u
    BY DEF PlacesInv, SlotOf
  <2>1. u # t /\ pc'[u] = pc[u] /\ Filling(u) /\ SlotOf(write_idx[u]) \in 0 .. Size - 1
    BY <1>2, <1>3, SlotDivision
  <2> QED BY <2>1, <1>3, <1>5 DEF StoreHeader, PlacesInv
<1>8. SlotsInv'
  <2> SUFFICES ASSUME NEW s \in 0 .. Size - 1, slot'[s].header # Invalid
               PROVE  \E i \in Nat : Holds(s, i)'
    BY DEF SlotsInv
  <2>1. CASE s = mine
    <3>1. /\ Len(taken) <= write_idx[t] /\ write_idx[t] < write_index
          /\ write_idx[t] - read_index < Size /\ order[write_idx[t] + 1] = Current(t)
          /\ \A u \in Thread : Filling(u) /\ u # t => write_idx[u] # write_idx[t]
      BY <1>2, <1>4 DEF PlacesInv
    <3>2. Holds(s, write_idx[t])'
      BY <2>1, <3>1, <1>3, <1>4, <1>5 DEF Holds, StoreHeader, SlotOf
    <3> QED BY <3>2, <1>4 DEF StoreHeader
  <2>2. CASE s # mine
    <3>1. slot'[s] = slot[s]
      BY <2>2, <1>5
    <3>2. PICK i \in Nat : Holds(s, i)
      BY <3>1 DEF SlotsInv
    <3>3. Holds(s, i)'
      BY <3>1, <3>2, <1>3 DEF Holds, StoreHeader
    <3> QED BY <3>3
  <2> QED BY <2>1, <2>2
<1> QED BY <1>1, <1>6, <1>7, <1>8

(* A thread that leaves Submit, begins or waits touches no place in line. *)
LEMMA OutsideKeeps ==
  ASSUME RingInv, NEW t \in Thread,
         BeginCommand(t) \/ RingDoorbell(t) \/ SignalWait(t) \/ SignalRestore(t)
  PROVE  RingInv'
<1> USE DEF RingInv, TypeInv, AqlTypeOK
<1>1. [Next]_vars
  BY DEF Next, ThreadStep, SubmitPacket
<1>2. UNCHANGED <<write_index, read_index, slot, write_idx, order, taken, retiring>>
  BY DEF BeginCommand, RingDoorbell, SignalWait, SignalRestore
<1>3. /\ pc'[t] \notin {"spin", "rest", "header"}
      /\ \A u \in Thread \ {t} : pc'[u] = pc[u] /\ left'[u] = left[u] /\ serial'[u] = serial[u]
  <2>1. CASE BeginCommand(t)
    BY <2>1 DEF BeginCommand
  <2>2. CASE RingDoorbell(t)
    <3>1. /\ pc' = [pc EXCEPT ![t] = IF left[t] = 1 THEN "wait" ELSE "claim"]
          /\ left' = [left EXCEPT ![t] = left[t] - 1]
          /\ serial' = [serial EXCEPT ![t] = serial[t] + 1]
      BY <2>2, ProceedSteps DEF RingDoorbell
    <3> QED BY <3>1
  <2>3. CASE SignalWait(t)
    BY <2>3 DEF SignalWait, WaitResult
  <2>4. CASE SignalRestore(t)
    BY <2>4 DEF SignalRestore
  <2> QED BY <2>1, <2>2, <2>3, <2>4
<1>4. \A u \in Thread : Filling(u)' => Filling(u) /\ Current(u)' = Current(u) /\ pc'[u] = pc[u]
  BY <1>3 DEF Filling, Current
<1> QED BY <1>1, <1>2, <1>4, RestKept

(* A valid header at the read index is that of the next packet in line, whole. *)
LEMMA FrontIsNext ==
  ASSUME RingInv, TakeUp
  PROVE  /\ Len(taken) = read_index /\ read_index < write_index
         /\ Seen(AtFront) = order[read_index + 1]
         /\ \A t \in Thread : Filling(t) => write_idx[t] # read_index
<1> USE DEF RingInv, TypeInv, AqlTypeOK
<1>1. Len(taken) = read_index
  BY DEF TakeUp, IndicesInv
<1>2. SlotOf(read_index) \in 0 .. Size - 1 /\ slot[SlotOf(read_index)].header # Invalid
  BY SlotDivision DEF TakeUp, AtFront
<1>3. PICK i \in Nat : Holds(SlotOf(read_index), i)
  BY <1>2 DEF SlotsInv
<1>4. read_index <= i /\ i - read_index < Size /\ SlotOf(i) = SlotOf(read_index)
  BY <1>1, <1>3 DEF Holds
<1>5. i = read_index
  <2>1. read_index - read_index < Size /\ read_index <= read_index /\ read_index \in Nat
    OBVIOUS
  <2> QED BY <1>4, <2>1, OneIndexPerSlot
<1> QED BY <1>1, <1>3, <1>5 DEF Holds, Seen, AtFront

LEMMA TakeUpKeeps ==
  ASSUME RingInv, TakeUp PROVE RingInv'
<1> USE DEF RingInv, TypeInv, AqlTypeOK
<1> DEFINE front == SlotOf(read_index)
<1>1. TypeInv'
  BY TypeNext DEF Next, Processor
<1>2. front \in 0 .. Size - 1
  BY SlotDivision
<1>3. /\ slot'[front].header = Invalid
      /\ \A s \in 0 .. Size - 1 : slot'[s].rest = slot[s].rest
                                /\ (s # front => slot'[s] = slot[s])
  BY <1>2 DEF TakeUp
<1>4. Len(taken') = read_index + 1
  <2>1. Seen(AtFront) \in Packet \cup {Invalid}
    BY <1>2 DEF Seen, AtFront
  <2> QED BY <2>1, FrontIsNext DEF TakeUp
<1>5. \A u \in Thread : /\ Filling(u)' <=> Filling(u)
                       /\ Current(u)' = Current(u)
  BY DEF TakeUp, threadVars, Filling, Current
<1>6. IndicesInv'
  BY <1>4, FrontIsNext DEF TakeUp, IndicesInv
<1>7. PlacesInv'
  <2> SUFFICES ASSUME NEW u \in Thread, Filling(u)'
               PROVE  /\ Len(taken)' <= write_idx'[u] /\ write_idx'[u] < write_index'
                      /\ order'[write_idx'[u] + 1] = Current(u)'
                      /\ pc'[u] # "spin" => write_idx'[u] - read_index' < Size
                      /\ pc'[u] = "header" => slot'[SlotOf(write_idx'[u])].rest = Current(u)'
                      /\ \A v \in Thread : Filling(v)' /\ write_idx'[v] = write_idx'[u] => v = u
    BY DEF PlacesInv, SlotOf
  <2>1. Filling(u) /\ write_idx[u] # read_index /\ SlotOf(write_idx[u]) \in 0 .. Size - 1
    BY <1>5, FrontIsNext, SlotDivision
  <2>2. read_index + 1 <= write_idx[u]
    BY <2>1, FrontIsNext DEF PlacesInv
  <2> QED BY <2>1, <2>2, <1>3, <1>4, <1>5 DEF TakeUp, threadVars, PlacesInv
<1>8. SlotsInv'
  <2> SUFFICES ASSUME NEW s \in 0 .. Size - 1, slot'[s].header # Invalid
               PROVE  \E i \in Nat : Holds(s, i)'
    BY DEF SlotsInv
  <2>1. s # front /\ slot'[s] = slot[s]
    BY <1>3
  <2>2. PICK i \in Nat : Holds(s, i)
    BY <2>1 DEF SlotsInv
  <2>3. read_index + 1 <= i
    BY <2>1, <2>2, FrontIsNext DEF Holds
  <2>4. Holds(s, i)'
    BY <2>1, <2>2, <2>3, <1>4, <1>5 DEF Holds, TakeUp, threadVars
  <2> QED BY <2>4
<1> QED BY <1>1, <1>6, <1>7, <1>8

LEMMA RetireKeeps ==
  ASSUME RingInv, Retire PROVE RingInv'
<1> USE DEF RingInv, TypeInv, AqlTypeOK
<1>1. TypeInv'
  BY TypeNext DEF Next, Processor
<1>2. IndicesInv'
  BY DEF Retire, IndicesInv
<1>3. \A u \in Thread : Filling(u)' <=> Filling(u)
  BY DEF Retire, threadVars, Filling
<1>4. PlacesInv'
  BY DEF Retire, threadVars, PlacesInv, Filling, Current, SlotOf
<1>5. SlotsInv'
  <2> SUFFICES ASSUME NEW s \in 0 .. Size - 1, slot'[s].header # Invalid
               PROVE  \E i \in Nat : Holds(s, i)'
    BY DEF SlotsInv
  <2>1. PICK i \in Nat : Holds(s, i)
    BY DEF SlotsInv, Retire
  <2>2. Holds(s, i)'
    BY <2>1, <1>3 DEF Holds, Retire, threadVars
  <2> QED BY <2>2
<1> QED BY <1>1, <1>2, <1>4, <1>5

LEMMA RingNext == RingInv /\ [Next]_vars => RingInv'
<1> SUFFICES ASSUME RingInv, [Next]_vars PROVE RingInv'
  OBVIOUS
<1>1. ASSUME NEW t \in Thread, ThreadStep(t) PROVE RingInv'
  BY <1>1, ClaimKeeps, EnterSlotKeeps, CopyRestKeeps, StoreHeaderKeeps, OutsideKeeps
     DEF ThreadStep, SubmitPacket
<1>2. CASE TakeUp
  BY <1>2, TakeUpKeeps
<1>3. CASE Retire
  BY <1>3, RetireKeeps
<1>4. CASE Sleep
  BY <1>4, RestKept DEF Sleep, threadVars, Filling, Current
<1>5. ASSUME NEW p \in running, Complete(p) PROVE RingInv'
  BY <1>5, RestKept DEF Complete, threadVars, Filling, Current
<1>6. CASE UNCHANGED vars
  BY <1>6, RestKept DEF vars, threadVars, Filling, Current
<1> QED BY <1>1, <1>2, <1>3, <1>4, <1>5, <1>6 DEF Next, Processor

(***************************************************************************)
(* The ring always holds the packets in line that are written, each in the *)
(* slot of its index, and every other slot is free.                        *)
(***************************************************************************)
THEOREM RingKept == Spec => []RingInv
  BY RingInit, RingNext, PTL DEF Spec

-----------------------------------------------------------------------------
LEMMA QueueNext == RingInv /\ [Next]_vars => [Queue!Next]_Queue!vars
<1> SUFFICES ASSUME RingInv, [Next]_vars PROVE [Queue!Next]_Queue!vars
  OBVIOUS
<1> USE DEF RingInv, TypeInv, AqlTypeOK, Queue!Next, Queue!vars
<1>1. ASSUME NEW t \in Thread, Claim(t) PROVE Queue!Submit
  <2>1. order' = Append(order, Current(t)) /\ taken' = taken /\ Current(t) \in Packet
    BY <1>1, CurrentIsPacket DEF Claim
  <2>2. Len(order') = Len(order) + 1 /\ order'[Len(order')] = Current(t)
    BY <2>1
  <2> QED BY <2>1, <2>2 DEF Queue!Submit
<1>2. ASSUME NEW t \in Thread, ThreadStep(t), ~Claim(t) PROVE UNCHANGED <<order, taken>>
  BY <1>2 DEF ThreadStep, SubmitPacket, BeginCommand, EnterSlot, CopyRest, StoreHeader,
              RingDoorbell, SignalWait, SignalRestore
<1>3. CASE TakeUp
  <2>1. /\ Len(taken) < Len(order) /\ order' = order
        /\ taken' = Append(taken, order[Len(taken) + 1])
    BY <1>3, FrontIsNext DEF TakeUp, IndicesInv
  <2> QED BY <2>1 DEF Queue!Take
<1>4. CASE Retire \/ Sleep \/ \E p \in running : Complete(p)
  BY <1>4 DEF Retire, Sleep, Complete
<1>5. CASE UNCHANGED vars
  BY <1>5 DEF vars
<1> QED BY <1>1, <1>2, <1>3, <1>4, <1>5 DEF Next, Processor

(***************************************************************************)
(* Submit and the packet processor implement the queue: the packets of all *)
(* threads are taken up in the order of their write indices, whole, each   *)
(* once, for every size of the ring.                                       *)
(***************************************************************************)
THEOREM QueueRefined == Spec => QueueImplemented
<1>1. Init => Queue!Init
  BY DEF Init, Queue!Init
<1> QED BY <1>1, QueueNext, RingKept, PTL DEF Spec, Queue!Spec, QueueImplemented

-----------------------------------------------------------------------------
(* All packets of t were taken up. *)
AllTaken(t) == \A i \in DOMAIN order : order[i].thread = t => i <= Len(taken)

NoneRuns(t) == \A p \in running : p.thread # t

(* The last packet of its command has a place in line and t has not returned. *)
LastInLine(t) ==
  \/ pc[t] \in {"spin", "rest", "header", "doorbell"} /\ left[t] = 1
  \/ pc[t] = "wait"

(* The signal is 0 from the completion of the last packet to the restore. *)
SignalInv ==
  \A t \in Thread :
    /\ pc[t] # "abort" /\ signal[t] \in {0, 1}
    /\ pc[t] = "restore" => signal[t] = 0
    /\ pc[t] = "idle" => signal[t] = 1 /\ AllTaken(t) /\ NoneRuns(t)
    /\ signal[t] = 0 => AllTaken(t) /\ NoneRuns(t) /\ (LastInLine(t) \/ pc[t] = "restore")

(* A last packet that executes is the only one of its thread, behind all the others. *)
RunningInv ==
  \A p \in running : /\ signal[p.thread] = 1 /\ AllTaken(p.thread) /\ LastInLine(p.thread)
                     /\ \A q \in running : q.thread = p.thread => q = p

(* A last packet in line is the last of its thread in line. *)
InLineInv ==
  \A i \in DOMAIN order : order[i].last /\ i > Len(taken) =>
    /\ \A j \in DOMAIN order : order[j].thread = order[i].thread => j <= i
    /\ signal[order[i].thread] = 1 /\ LastInLine(order[i].thread)
    /\ NoneRuns(order[i].thread)

CommandInv == RingInv /\ SignalInv /\ RunningInv /\ InLineInv

LEMMA CommandInit == Init => CommandInv
<1> SUFFICES ASSUME Init PROVE CommandInv
  OBVIOUS
<1>1. DOMAIN order = {}
  BY DEF Init
<1> QED BY <1>1, RingInit
        DEF CommandInv, SignalInv, RunningInv, InLineInv, AllTaken, NoneRuns, Init

(* The packets in line are packets of threads, and so are those that execute. *)
LEMMA Members ==
  ASSUME AqlTypeOK
  PROVE  /\ DOMAIN order = 1 .. Len(order)
         /\ \A i \in DOMAIN order : i \in Nat /\ order[i] \in Packet /\ order[i].thread \in Thread
         /\ \A p \in running : p.thread \in Thread
<1>1. DOMAIN order = 1 .. Len(order) /\ Len(order) \in Nat
  BY DEF AqlTypeOK
<1>2. ASSUME NEW i \in DOMAIN order
      PROVE  i \in Nat /\ order[i] \in Packet /\ order[i].thread \in Thread
  <2>1. i \in 1 .. Len(order) /\ order \in Seq(Packet)
    BY <1>1 DEF AqlTypeOK
  <2>2. order[i] \in Packet
    BY <2>1
  <2> QED BY <2>1, <2>2 DEF Packet
<1>3. ASSUME NEW p \in running PROVE p.thread \in Thread
  BY DEF AqlTypeOK, Packet
<1> QED BY <1>1, <1>2, <1>3

LEMMA Appended ==
  ASSUME NEW S, NEW q \in Seq(S), NEW x \in S
  PROVE  /\ DOMAIN Append(q, x) = 1 .. Len(q) + 1
         /\ Append(q, x)[Len(q) + 1] = x
         /\ \A i \in DOMAIN q : Append(q, x)[i] = q[i]
  OBVIOUS

(* The parts of the invariant below, and the types the proofs need. *)
LEMMA CommandFacts ==
  ASSUME CommandInv
  PROVE  /\ SignalInv /\ RunningInv /\ InLineInv /\ AqlTypeOK
         /\ pc \in [Thread -> {"idle", "claim", "spin", "rest", "header", "doorbell", "wait",
                               "restore", "abort"}]
         /\ left \in [Thread -> Nat] /\ signal \in [Thread -> Int]
         /\ Len(order) \in Nat /\ Len(taken) \in Nat /\ Len(taken) <= Len(order)
         /\ DOMAIN order = 1 .. Len(order)
         /\ \A i \in DOMAIN order : i \in Nat /\ order[i] \in Packet /\ order[i].thread \in Thread
         /\ \A p \in running : p.thread \in Thread
<1>1. AqlTypeOK /\ IndicesInv /\ SignalInv /\ RunningInv /\ InLineInv
  BY DEF CommandInv, RingInv, TypeInv
<1>2. Len(order) \in Nat /\ Len(taken) \in Nat /\ Len(taken) <= Len(order)
  BY <1>1 DEF AqlTypeOK, IndicesInv
<1> QED BY <1>1, <1>2, Members DEF AqlTypeOK

(* What a step inside Submit, or one of the processor that takes up nothing, may do. *)
LEMMA CommandKept ==
  ASSUME CommandInv, RingInv', UNCHANGED <<order, taken, running, signal>>,
         \A u \in Thread : /\ LastInLine(u) => LastInLine(u)'
                           /\ pc'[u] \in {"idle", "restore", "abort"} => pc'[u] = pc[u]
                           /\ pc[u] = "restore" => pc'[u] = "restore"
  PROVE  CommandInv'
<1> USE CommandFacts
<1>1. \A u \in Thread : (AllTaken(u)' <=> AllTaken(u)) /\ (NoneRuns(u)' <=> NoneRuns(u))
  BY DEF AllTaken, NoneRuns
<1>2. SignalInv'
  BY <1>1 DEF SignalInv
<1>3. RunningInv'
  BY <1>1 DEF RunningInv, Packet
<1>4. InLineInv'
  BY <1>1, Members DEF InLineInv
<1> QED BY <1>2, <1>3, <1>4 DEF CommandInv

LEMMA CommandClaim ==
  ASSUME CommandInv, RingInv', NEW t \in Thread, Claim(t) PROVE CommandInv'
<1> USE CommandFacts
<1>1. /\ DOMAIN order = 1 .. Len(order) /\ DOMAIN order' = 1 .. Len(order) + 1
      /\ order'[Len(order) + 1] = Current(t) /\ Len(taken) <= Len(order)
      /\ \A i \in DOMAIN order : order'[i] = order[i] /\ order[i].thread \in Thread
  <2>1. order \in Seq(Packet) /\ Current(t) \in Packet /\ order' = Append(order, Current(t))
    BY CurrentIsPacket DEF Claim, AqlTypeOK
  <2> QED BY <2>1, Appended
<1>2. /\ pc[t] = "claim" /\ pc'[t] = "spin" /\ ~LastInLine(t) /\ signal[t] = 1
      /\ \A u \in Thread \ {t} : pc'[u] = pc[u]
      /\ UNCHANGED <<left, signal, running, taken>>
  BY DEF Claim, LastInLine, SignalInv
<1>3. NoneRuns(t)
  BY <1>2 DEF RunningInv, NoneRuns
<1>4. Current(t).thread = t /\ (Current(t).last <=> left[t] = 1)
  BY DEF Current
<1>5. ASSUME NEW u \in Thread
      PROVE  /\ NoneRuns(u)' <=> NoneRuns(u)
             /\ u # t => (AllTaken(u)' <=> AllTaken(u)) /\ (LastInLine(u)' <=> LastInLine(u))
  <2>1. NoneRuns(u)' <=> NoneRuns(u)
    BY <1>2 DEF NoneRuns
  <2>2. CASE u # t
    <3>1. LastInLine(u)' <=> LastInLine(u)
      BY <2>2, <1>2 DEF LastInLine
    <3>2. /\ \A i \in DOMAIN order : i \in DOMAIN order' /\ order'[i] = order[i]
          /\ \A i \in DOMAIN order' : order'[i].thread = u => i \in DOMAIN order
      BY <2>2, <1>1, <1>4
    <3>3. AllTaken(u)' <=> AllTaken(u)
      BY <3>2, <1>2 DEF AllTaken
    <3> QED BY <2>1, <3>1, <3>3
  <2> QED BY <2>1, <2>2
<1>6. SignalInv'
  BY <1>2, <1>5 DEF SignalInv
<1>7. RunningInv'
  BY <1>2, <1>3, <1>5 DEF RunningInv, NoneRuns, Packet
<1>8. InLineInv'
  <2> SUFFICES ASSUME NEW i \in DOMAIN order', order'[i].last, i > Len(taken')
               PROVE  /\ \A j \in DOMAIN order' : order'[j].thread = order'[i].thread => j <= i
                      /\ signal'[order'[i].thread] = 1 /\ LastInLine(order[i].thread)'
                      /\ NoneRuns(order[i].thread)'
    BY DEF InLineInv
  <2>1. CASE i = Len(order) + 1
    <3>1. order'[i].thread = t /\ left[t] = 1
      BY <2>1, <1>1, <1>4
    <3>2. LastInLine(t)'
      BY <3>1, <1>2 DEF LastInLine
    <3> QED BY <2>1, <3>1, <3>2, <1>1, <1>2, <1>3, <1>5
  <2>2. CASE i \in DOMAIN order
    <3>1. /\ order'[i] = order[i] /\ order[i].thread \in Thread
          /\ signal[order[i].thread] = 1 /\ LastInLine(order[i].thread)
          /\ NoneRuns(order[i].thread)
          /\ \A j \in DOMAIN order : order[j].thread = order[i].thread => j <= i
      BY <2>2, <1>1, <1>2 DEF InLineInv
    <3>2. order[i].thread # t
      BY <3>1, <1>2
    <3>3. \A j \in DOMAIN order' : order'[j].thread = order'[i].thread => j <= i
      BY <3>1, <3>2, <1>1, <1>4
    <3> QED BY <3>1, <3>2, <3>3, <1>2, <1>5
  <2> QED BY <2>1, <2>2, <1>1
<1> QED BY <1>6, <1>7, <1>8 DEF CommandInv

LEMMA CommandWait ==
  ASSUME CommandInv, RingInv', NEW t \in Thread, SignalWait(t) PROVE CommandInv'
<1> USE CommandFacts
<1>1. CASE signal[t] = 1
  BY <1>1, CommandKept DEF SignalWait, WaitResult, LastInLine, CommandInv
<1>2. CASE signal[t] = 0
  <2>1. /\ pc[t] = "wait" /\ pc'[t] = "restore" /\ AllTaken(t) /\ NoneRuns(t)
        /\ \A u \in Thread \ {t} : pc'[u] = pc[u] /\ (LastInLine(u)' <=> LastInLine(u))
        /\ UNCHANGED <<order, taken, running, signal>>
    BY <1>2 DEF SignalWait, WaitResult, LastInLine, SignalInv
  <2>2. \A u \in Thread : (AllTaken(u)' <=> AllTaken(u)) /\ (NoneRuns(u)' <=> NoneRuns(u))
    BY <2>1 DEF AllTaken, NoneRuns
  <2>3. SignalInv'
    BY <1>2, <2>1, <2>2 DEF SignalInv
  <2>4. RunningInv'
    BY <2>1, <2>2 DEF RunningInv, NoneRuns, Packet
  <2>5. InLineInv'
    BY <1>2, <2>1, <2>2, Members DEF InLineInv
  <2> QED BY <2>3, <2>4, <2>5 DEF CommandInv
<1> QED BY <1>1, <1>2 DEF SignalInv

LEMMA CommandRestore ==
  ASSUME CommandInv, RingInv', NEW t \in Thread, SignalRestore(t) PROVE CommandInv'
<1> USE CommandFacts
<1>1. /\ pc[t] = "restore" /\ pc'[t] = "idle" /\ signal[t] = 0 /\ signal'[t] = 1
      /\ AllTaken(t) /\ NoneRuns(t)
      /\ \A u \in Thread \ {t} : /\ pc'[u] = pc[u] /\ signal'[u] = signal[u]
                                 /\ LastInLine(u)' <=> LastInLine(u)
      /\ UNCHANGED <<order, taken, running>>
  BY DEF SignalRestore, Restored, LastInLine, SignalInv
<1>2. \A u \in Thread : (AllTaken(u)' <=> AllTaken(u)) /\ (NoneRuns(u)' <=> NoneRuns(u))
  BY <1>1 DEF AllTaken, NoneRuns
<1>3. SignalInv'
  BY <1>1, <1>2 DEF SignalInv
<1>4. RunningInv'
  BY <1>1, <1>2 DEF RunningInv, NoneRuns, Packet
<1>5. InLineInv'
  BY <1>1, <1>2, Members DEF InLineInv
<1> QED BY <1>3, <1>4, <1>5 DEF CommandInv

LEMMA CommandTakeUp ==
  ASSUME CommandInv, RingInv', TakeUp PROVE CommandInv'
<1> USE CommandFacts
<1>1. Len(taken) + 1 \in DOMAIN order
  <2>1. Len(taken) = read_index /\ read_index < write_index /\ write_index = Len(order)
    BY FrontIsNext DEF CommandInv, RingInv, IndicesInv
  <2> QED BY <2>1
<1>2. PICK next \in DOMAIN order : next = Len(taken) + 1
  BY <1>1
<1>3. PICK packet \in Packet : packet = order[next]
  OBVIOUS
<1>4. packet.thread \in Thread /\ Len(taken) = read_index
  BY <1>3, FrontIsNext DEF CommandInv
<1>5. AtFront.header = packet
  <2>1. Seen(AtFront) = packet
    BY <1>2, <1>3, <1>4, FrontIsNext DEF CommandInv
  <2> QED BY <2>1, <1>2, <1>3, <1>4 DEF Seen
<1>6. /\ running' = IF packet.last THEN running \cup {packet} ELSE running
      /\ Len(taken') = next /\ UNCHANGED <<order, signal, pc, left>>
  <2>1. Seen(AtFront) \in Packet \cup {Invalid}
    BY <1>2, <1>3, <1>4, FrontIsNext DEF CommandInv
  <2>2. taken \in Seq(Packet \cup {Invalid}) /\ taken' = Append(taken, Seen(AtFront))
    BY DEF TakeUp, AqlTypeOK
  <2>3. Len(taken') = next
    BY <2>1, <2>2, <1>2
  <2> QED BY <2>3, <1>5 DEF TakeUp, threadVars
<1>7. ASSUME NEW u \in Thread
      PROVE  /\ LastInLine(u)' <=> LastInLine(u)
             /\ AllTaken(u) => AllTaken(u)'
  <2>1. LastInLine(u)' <=> LastInLine(u)
    BY <1>6 DEF LastInLine
  <2>2. Len(taken') >= Len(taken) /\ Len(taken') \in Nat
    BY <1>2, <1>6
  <2>3. AllTaken(u) => AllTaken(u)'
    BY <1>6, <2>2 DEF AllTaken
  <2> QED BY <2>1, <2>3
<1>8. CASE ~packet.last
  <2>1. \A u \in Thread : NoneRuns(u)' <=> NoneRuns(u)
    BY <1>6, <1>8 DEF NoneRuns
  <2>2. SignalInv'
    BY <1>6, <1>7, <2>1 DEF SignalInv
  <2>3. RunningInv'
    BY <1>6, <1>7, <1>8 DEF RunningInv, Packet
  <2>4. InLineInv'
    BY <1>2, <1>3, <1>4, <1>6, <1>7, <2>1 DEF InLineInv
  <2> QED BY <2>2, <2>3, <2>4 DEF CommandInv
<1>9. CASE packet.last
  <2>1. /\ \A j \in DOMAIN order : order[j].thread = packet.thread => j <= next
        /\ signal[packet.thread] = 1 /\ LastInLine(packet.thread) /\ NoneRuns(packet.thread)
    BY <1>2, <1>3, <1>4, <1>9 DEF InLineInv
  <2>2. AllTaken(packet.thread)' /\ ~AllTaken(packet.thread)
    <3>1. AllTaken(packet.thread)'
      BY <1>6, <2>1 DEF AllTaken
    <3>2. next > Len(taken) /\ order[next].thread = packet.thread
      BY <1>2, <1>3
    <3>3. ~AllTaken(packet.thread)
      BY <3>2 DEF AllTaken
    <3> QED BY <3>1, <3>3
  <2>3. \A u \in Thread \ {packet.thread} : NoneRuns(u)' <=> NoneRuns(u)
    BY <1>6, <1>9 DEF NoneRuns
  <2>4. SignalInv'
    BY <1>6, <1>7, <2>1, <2>2, <2>3 DEF SignalInv
  <2>5. RunningInv'
    <3> SUFFICES ASSUME NEW p \in running'
                 PROVE  /\ signal'[p.thread] = 1 /\ AllTaken(p.thread)' /\ LastInLine(p.thread)'
                        /\ \A q \in running' : q.thread = p.thread => q = p
      BY DEF RunningInv
    <3>1. CASE p = packet
      BY <3>1, <1>2, <1>3, <1>4, <1>6, <1>7, <1>9, <2>1, <2>2 DEF NoneRuns
    <3>2. CASE p \in running
      <4>1. p.thread # packet.thread /\ p.thread \in Thread
        BY <3>2, <2>1 DEF NoneRuns, Packet
      <4> QED BY <3>2, <4>1, <1>6, <1>7, <1>9 DEF RunningInv
    <3> QED BY <3>1, <3>2, <1>6, <1>9
  <2>6. InLineInv'
    <3> SUFFICES ASSUME NEW i \in DOMAIN order, order[i].last, i > next
                 PROVE  /\ \A j \in DOMAIN order : order[j].thread = order[i].thread => j <= i
                        /\ signal[order[i].thread] = 1 /\ LastInLine(order[i].thread)'
                        /\ NoneRuns(order[i].thread)'
      BY <1>6 DEF InLineInv
    <3>1. order[i].thread # packet.thread
      BY <1>2, <1>3, <1>4, <2>1
    <3>2. /\ \A j \in DOMAIN order : order[j].thread = order[i].thread => j <= i
          /\ signal[order[i].thread] = 1 /\ LastInLine(order[i].thread)
          /\ NoneRuns(order[i].thread)
      BY <1>2 DEF InLineInv
    <3> QED BY <3>1, <3>2, <1>6, <1>7, <2>3
  <2> QED BY <2>4, <2>5, <2>6 DEF CommandInv
<1> QED BY <1>8, <1>9

LEMMA CommandComplete ==
  ASSUME CommandInv, RingInv', NEW p \in running, Complete(p) PROVE CommandInv'
<1> USE CommandFacts
<1> DEFINE t == p.thread
<1>1. /\ t \in Thread /\ signal[t] = 1 /\ AllTaken(t) /\ LastInLine(t)
      /\ \A q \in running : q.thread = t => q = p
  BY DEF RunningInv, Packet
<1>2. /\ signal'[t] = 0 /\ \A u \in Thread \ {t} : signal'[u] = signal[u]
      /\ running' = running \ {p} /\ UNCHANGED <<order, taken, pc, left>>
  BY <1>1 DEF Complete, threadVars
<1>3. /\ NoneRuns(t)' /\ pc[t] # "idle"
      /\ \A u \in Thread : /\ AllTaken(u)' <=> AllTaken(u)
                           /\ LastInLine(u)' <=> LastInLine(u)
                           /\ NoneRuns(u) => NoneRuns(u)'
  BY <1>1, <1>2 DEF NoneRuns, AllTaken, LastInLine
<1>4. SignalInv'
  BY <1>1, <1>2, <1>3 DEF SignalInv
<1>5. RunningInv'
  BY <1>1, <1>2, <1>3 DEF RunningInv, Packet
<1>6. InLineInv'
  <2>1. \A i \in DOMAIN order : order[i].last /\ i > Len(taken) => order[i].thread # t
    BY DEF InLineInv, NoneRuns
  <2> QED BY <1>2, <1>3, <2>1, Members DEF InLineInv
<1> QED BY <1>4, <1>5, <1>6 DEF CommandInv

LEMMA CommandNext == CommandInv /\ [Next]_vars => CommandInv'
<1> SUFFICES ASSUME CommandInv, [Next]_vars PROVE CommandInv'
  OBVIOUS
<1>1. RingInv'
  BY RingNext DEF CommandInv
<1>2. /\ pc \in [Thread -> {"idle", "claim", "spin", "rest", "header", "doorbell", "wait",
                           "restore", "abort"}]
      /\ left \in [Thread -> Nat] /\ PacketLeft
  BY DEF CommandInv, RingInv, TypeInv, AqlTypeOK
<1>3. ASSUME NEW t \in Thread, BeginCommand(t) PROVE CommandInv'
  BY <1>1, <1>2, <1>3, CommandKept DEF BeginCommand, LastInLine
<1>4. ASSUME NEW t \in Thread, EnterSlot(t) PROVE CommandInv'
  BY <1>1, <1>2, <1>4, CommandKept, ProceedSteps DEF EnterSlot, LastInLine
<1>5. ASSUME NEW t \in Thread, CopyRest(t) PROVE CommandInv'
  BY <1>1, <1>2, <1>5, CommandKept, ProceedSteps DEF CopyRest, LastInLine
<1>6. ASSUME NEW t \in Thread, StoreHeader(t) PROVE CommandInv'
  BY <1>1, <1>2, <1>6, CommandKept, ProceedSteps DEF StoreHeader, LastInLine
<1>7. ASSUME NEW t \in Thread, RingDoorbell(t) PROVE CommandInv'
  <2>1. /\ pc[t] = "doorbell" /\ left[t] - 1 \in Nat
        /\ pc' = [pc EXCEPT ![t] = IF left[t] = 1 THEN "wait" ELSE "claim"]
        /\ left' = [left EXCEPT ![t] = left[t] - 1]
    BY <1>2, <1>7, ProceedSteps DEF RingDoorbell, PacketLeft, Submitting
  <2> QED BY <1>1, <1>2, <1>7, <2>1, CommandKept DEF RingDoorbell, LastInLine
<1>8. ASSUME NEW t \in Thread, Claim(t) \/ SignalWait(t) \/ SignalRestore(t) PROVE CommandInv'
  BY <1>1, <1>8, CommandClaim, CommandWait, CommandRestore
<1>9. CASE TakeUp \/ \E p \in running : Complete(p)
  BY <1>1, <1>9, CommandTakeUp, CommandComplete
<1>10. CASE Retire \/ Sleep \/ UNCHANGED vars
  BY <1>1, <1>10, CommandKept DEF Retire, Sleep, vars, threadVars, LastInLine
<1> QED BY <1>3, <1>4, <1>5, <1>6, <1>7, <1>8, <1>9, <1>10
        DEF Next, ThreadStep, SubmitPacket, Processor

(***************************************************************************)
(* SignalWaitRestore returns when the command is done and not earlier, and *)
(* never aborts, also when the signal is used again.                       *)
(***************************************************************************)
THEOREM WaitsForCommand == Spec => []WaitMeansDone
<1>1. CommandInv => WaitMeansDone
  BY DEF CommandInv, SignalInv, WaitMeansDone, Returned, AllTaken, NoneRuns
<1> QED BY CommandInit, CommandNext, <1>1, PTL DEF Spec

-----------------------------------------------------------------------------
(***************************************************************************)
(* The factory.  What the threads find of the object depends on who holds  *)
(* the mutex: a thread that builds or deletes the object, or has it built, *)
(* is alone at it.                                                         *)
(***************************************************************************)

(* The object in work is a record with the fields the constructor knows. *)
IsObject ==
  object = [cpu_list |-> object.cpu_list, gpu_list |-> object.gpu_list,
            agent_map |-> object.agent_map, cpu_pool |-> object.cpu_pool,
            kern_arg_pool |-> object.kern_arg_pool, timeout |-> object.timeout]

Locking == {"build", "unlock", "destroy"}
FactoryMutexInv == \A t \in User : call[t] \in Locking => mutex = t

(* The objects that exist, as far as the thread with the mutex is. *)
ObjectInv ==
  /\ instance \in {0, built}
  /\ \A t \in User :
       /\ call[t] = "unlock" => instance # 0
       /\ call[t] = "build" => instance = 0 /\ alive = {built}
       /\ call[t] = "destroy" => alive = {}
  /\ (\A t \in User : call[t] \notin {"build", "destroy"}) => alive = {instance} \ {0}

(* Before the first Destroy, who has an object has the one instance_ points to. *)
GivenInv ==
  /\ destroys <= Destroys
  /\ destroys = Destroys =>
       \A t \in User : /\ call[t] # "destroy"
                       /\ call[t] = "have" => instance # 0 /\ obj[t] = instance

FactoryInv == FactoryTypeOK /\ IsObject /\ FactoryMutexInv /\ ObjectInv /\ GivenInv

LEMMA FactoryInvInit == FactoryInit => FactoryInv
<1> SUFFICES ASSUME FactoryInit PROVE FactoryInv
  OBVIOUS
<1> USE FactoryAssumption DEF FactoryInit, NewObject
<1>1. FactoryTypeOK
  <2>1. call \in [User -> {"out", "create", "build", "unlock", "have", "destroy"}]
    OBVIOUS
  <2>2. obj \in [User -> 0 .. built]
    OBVIOUS
  <2>3. object.timeout \in 0 .. TimestampMax /\ timeout_ns \in 0 .. TimestampMax
    OBVIOUS
  <2> QED BY <2>1, <2>2, <2>3 DEF FactoryTypeOK
<1>2. IsObject
  BY DEF IsObject
<1> QED BY <1>1, <1>2 DEF FactoryInv, FactoryMutexInv, ObjectInv, GivenInv, Locking

(* The ticks of a time are no more than its nanoseconds. *)
LEMMA TicksBelow ==
  ASSUME NEW time \in 0 .. TimestampMax
  PROVE  ns_to_sysclock(time) \in 0 .. TimestampMax
<1>1. /\ time = Factor * (time \div Factor) + (time % Factor)
      /\ time \div Factor \in Nat /\ time % Factor \in Nat
  BY Division, FactoryAssumption
<1> DEFINE q == time \div Factor
<1>2. Factor - 1 \in Nat /\ q \in Nat
  BY <1>1, FactoryAssumption
<1> HIDE DEF q
<1>3. (Factor - 1) * q \in Nat /\ Factor * q = (Factor - 1) * q + q
  BY <1>2, FactoryAssumption
<1>4. time = Factor * q + (time % Factor)
  BY <1>1 DEF q
<1>5. q <= time
  BY <1>1, <1>2, <1>3, <1>4
<1> QED BY <1>2, <1>5, FactoryAssumption DEF ns_to_sysclock, q

(* A new timeout leaves the rest of the object alone. *)
LEMMA TimeoutSet ==
  ASSUME IsObject, NEW time
  PROVE  LET o == [object EXCEPT !.timeout = time]
         IN  /\ o.timeout = time
             /\ o = [cpu_list |-> o.cpu_list, gpu_list |-> o.gpu_list,
                     agent_map |-> o.agent_map, cpu_pool |-> o.cpu_pool,
                     kern_arg_pool |-> o.kern_arg_pool, timeout |-> o.timeout]
  BY DEF IsObject

(* An agent that is added does not touch the timeout. *)
LEMMA AgentAdded ==
  ASSUME IsObject, NEW handle
  PROVE  LET o == AddAgentInfo(object, handle)
         IN  /\ o.timeout = object.timeout
             /\ o = [cpu_list |-> o.cpu_list, gpu_list |-> o.gpu_list,
                     agent_map |-> o.agent_map, cpu_pool |-> o.cpu_pool,
                     kern_arg_pool |-> o.kern_arg_pool, timeout |-> o.timeout]
  BY DEF IsObject, AddAgentInfo

(* A step of the factory that only moves its thread, or the mutex with it. *)
LEMMA CreateKeeps ==
  ASSUME FactoryInv, NEW t \in User, Create(t) PROVE FactoryInv'
<1> USE FactoryAssumption DEF FactoryInv
<1>1. /\ call \in [User -> {"out", "create", "build", "unlock", "have", "destroy"}]
      /\ call[t] = "create" /\ mutex = Nobody /\ mutex' = t
      /\ UNCHANGED <<platform, instance, timeout_ns, reset, obj, destroys, aborted, failed>>
  BY DEF Create, FactoryTypeOK
<1>2. \A u \in User : call[u] \notin Locking
  BY <1>1 DEF FactoryMutexInv
<1>3. /\ built \in Nat /\ alive \subseteq 1 .. built /\ obj \in [User -> 0 .. built]
      /\ instance \in {0, built}
      /\ alive = {instance} \ {0}
  BY <1>2 DEF FactoryTypeOK, ObjectInv, Locking
<1>4. CASE MustBuild
  <2>1. /\ call' = [call EXCEPT ![t] = "build"] /\ object' = NewObject /\ built' = built + 1
        /\ alive' = alive \cup {built + 1} /\ instance = 0
    BY <1>4 DEF Create, MustBuild
  <2>2. alive' = {built'} /\ built' \in Nat \ {0}
    BY <1>3, <2>1
  <2>3. api' \in {"none", "table", "linked"}
    BY DEF Create, InitHsaApiTable, FactoryTypeOK
  <2>4. obj' \in [User -> 0 .. built'] /\ alive' \subseteq 1 .. built'
    BY <1>1, <1>3, <2>1, <2>2
  <2>5. object'.timeout \in 0 .. TimestampMax /\ IsObject'
    BY <2>1 DEF NewObject, IsObject
  <2>6. FactoryTypeOK'
    BY <1>1, <1>3, <2>1, <2>2, <2>3, <2>4, <2>5 DEF FactoryTypeOK
  <2>7. FactoryMutexInv' /\ ObjectInv' /\ GivenInv'
    BY <1>1, <1>2, <1>3, <2>1, <2>2 DEF FactoryMutexInv, ObjectInv, GivenInv, Locking
  <2> QED BY <2>5, <2>6, <2>7
<1>5. CASE ~MustBuild
  <2>1. /\ call' = [call EXCEPT ![t] = "unlock"] /\ UNCHANGED <<object, built, alive, api>>
        /\ instance # 0
    BY <1>5, <1>1 DEF Create, MustBuild
  <2>2. FactoryTypeOK' /\ IsObject'
    BY <1>1, <2>1 DEF FactoryTypeOK, IsObject
  <2>3. FactoryMutexInv' /\ ObjectInv' /\ GivenInv'
    BY <1>1, <1>2, <1>3, <2>1 DEF FactoryMutexInv, ObjectInv, GivenInv, Locking
  <2> QED BY <2>2, <2>3
<1> QED BY <1>4, <1>5

LEMMA PublishKeeps ==
  ASSUME FactoryInv, NEW t \in User, Publish(t) PROVE FactoryInv'
<1> USE FactoryAssumption DEF FactoryInv
<1>1. /\ call \in [User -> {"out", "create", "build", "unlock", "have", "destroy"}]
      /\ call[t] = "build"
      /\ UNCHANGED <<platform, mutex, api, built, alive, timeout_ns, obj, destroys, failed>>
  BY DEF Publish, FactoryTypeOK
<1>2. /\ mutex = t /\ \A u \in User \ {t} : call[u] \notin Locking
      /\ instance = 0 /\ alive = {built} /\ built \in Nat /\ built # 0
  BY <1>1 DEF FactoryMutexInv, ObjectInv, FactoryTypeOK, Locking
<1>3. CASE aborted' = TRUE /\ UNCHANGED <<object, reset, instance, call>>
  BY <1>1, <1>3
  DEF FactoryTypeOK, IsObject, FactoryMutexInv, ObjectInv, GivenInv
<1>4. CASE /\ object' = [object EXCEPT !.timeout = SysTimeout] /\ instance' = built
           /\ call' = [call EXCEPT ![t] = "unlock"] /\ UNCHANGED aborted /\ reset' = FALSE
  <2>1. SysTimeout \in 0 .. TimestampMax
    BY TicksBelow DEF SysTimeout, FactoryTypeOK
  <2>2. IsObject' /\ object'.timeout \in 0 .. TimestampMax
    BY <1>4, <2>1, TimeoutSet DEF IsObject
  <2>3. FactoryTypeOK'
    BY <1>1, <1>2, <1>4, <2>2 DEF FactoryTypeOK
  <2>4. FactoryMutexInv' /\ ObjectInv'
    BY <1>1, <1>2, <1>4 DEF FactoryMutexInv, ObjectInv, Locking
  <2>5. GivenInv'
    BY <1>1, <1>2, <1>4 DEF GivenInv
  <2> QED BY <2>2, <2>3, <2>4, <2>5
<1> QED BY <1>3, <1>4 DEF Publish

LEMMA DestroyKeeps ==
  ASSUME FactoryInv, NEW t \in User, Destroy(t) \/ ClearInstance(t) PROVE FactoryInv'
<1> USE FactoryAssumption DEF FactoryInv
<1>1. call \in [User -> {"out", "create", "build", "unlock", "have", "destroy"}]
  BY DEF FactoryTypeOK
<1>2. CASE Destroy(t)
  <2>1. /\ mutex = Nobody /\ mutex' = t /\ call[t] = "out"
        /\ destroys > 0 /\ destroys' = destroys - 1 /\ alive' = alive \ {instance}
        /\ call' = [call EXCEPT ![t] = "destroy"]
        /\ UNCHANGED <<platform, instance, api, built, object, timeout_ns, reset, obj, aborted, failed>>
    BY <1>2 DEF Destroy
  <2>2. \A u \in User : call[u] \notin Locking
    BY <2>1 DEF FactoryMutexInv
  <2>3. alive' = {} /\ instance \in {0, built}
    BY <2>1, <2>2 DEF ObjectInv, Locking
  <2>4. destroys' \in Nat /\ destroys' < Destroys
    BY <2>1 DEF FactoryTypeOK, GivenInv
  <2>5. FactoryTypeOK' /\ IsObject'
    BY <1>1, <2>1, <2>3, <2>4 DEF FactoryTypeOK, IsObject
  <2>6. FactoryMutexInv' /\ ObjectInv'
    BY <1>1, <2>1, <2>2, <2>3 DEF FactoryMutexInv, ObjectInv, Locking
  <2>7. GivenInv'
    BY <2>4 DEF GivenInv, FactoryTypeOK
  <2> QED BY <2>5, <2>6, <2>7
<1>3. CASE ClearInstance(t)
  <2>1. /\ call[t] = "destroy" /\ instance' = 0 /\ mutex' = Nobody
        /\ call' = [call EXCEPT ![t] = "out"]
        /\ UNCHANGED <<platform, api, built, alive, object, timeout_ns, reset, obj, destroys, aborted, failed>>
    BY <1>3 DEF ClearInstance
  <2>2. /\ \A u \in User \ {t} : call[u] \notin Locking
        /\ alive = {} /\ destroys # Destroys
    BY <2>1 DEF FactoryMutexInv, ObjectInv, GivenInv, Locking
  <2>3. FactoryTypeOK' /\ IsObject'
    BY <1>1, <2>1 DEF FactoryTypeOK, IsObject
  <2>4. FactoryMutexInv' /\ ObjectInv' /\ GivenInv'
    BY <1>1, <2>1, <2>2 DEF FactoryMutexInv, ObjectInv, GivenInv, Locking
  <2> QED BY <2>3, <2>4
<1> QED BY <1>2, <1>3

(* The calls that leave instance_ and the mutex as they are. *)
LEMMA LookKeeps ==
  ASSUME FactoryInv, NEW t \in User,
         call[t] \notin Locking, call'[t] \notin Locking,
         call' \in [User -> {"out", "create", "build", "unlock", "have", "destroy"}],
         obj' \in [User -> 0 .. built],
         \A u \in User \ {t} : call'[u] = call[u] /\ obj'[u] = obj[u],
         call'[t] = "have" => instance # 0 /\ obj'[t] = instance,
         UNCHANGED <<platform, mutex, instance, api, built, alive, object, timeout_ns, reset, destroys,
                     aborted, failed>>
  PROVE  FactoryInv'
<1>1. FactoryTypeOK' /\ IsObject'
  BY DEF FactoryInv, FactoryTypeOK, IsObject
<1>2. FactoryMutexInv' /\ ObjectInv'
  BY DEF FactoryInv, FactoryMutexInv, ObjectInv, Locking
<1>3. GivenInv'
  BY DEF FactoryInv, GivenInv, Locking
<1> QED BY <1>1, <1>2, <1>3 DEF FactoryInv

LEMMA FactoryStepKeeps ==
  ASSUME FactoryInv, NEW t \in User, FactoryStep(t) PROVE FactoryInv'
<1> USE FactoryAssumption
<1>1. /\ call \in [User -> {"out", "create", "build", "unlock", "have", "destroy"}]
      /\ obj \in [User -> 0 .. built] /\ built \in Nat /\ instance \in 0 .. built
  BY DEF FactoryInv, FactoryTypeOK, ObjectInv
<1>2. CASE Instance(t)
  <2>1. /\ call[t] = "out" /\ call'[t] \in {"create", "have"}
        /\ call' \in [User -> {"out", "create", "build", "unlock", "have", "destroy"}]
        /\ obj' \in [User -> 0 .. built]
        /\ \A u \in User \ {t} : call'[u] = call[u] /\ obj'[u] = obj[u]
        /\ call'[t] = "have" => instance # 0 /\ obj'[t] = instance
    BY <1>1, <1>2 DEF Instance
  <2>2. call[t] \notin Locking /\ call'[t] \notin Locking
    BY <2>1 DEF Locking
  <2> QED BY <1>2, <2>1, <2>2, LookKeeps DEF Instance
<1>3. CASE AddAgent(t)
  <2>1. /\ UNCHANGED <<platform, mutex, instance, api, built, alive, timeout_ns, reset, call, obj, destroys,
                     failed>>
        /\ \/ object' = AddAgentInfo(object, Added + 1) /\ UNCHANGED aborted
           \/ aborted' = TRUE /\ UNCHANGED object
    BY <1>3 DEF AddAgent
  <2>2. IsObject' /\ object'.timeout = object.timeout
    BY <2>1, AgentAdded DEF FactoryInv, IsObject
  <2>3. FactoryTypeOK'
    BY <2>1, <2>2 DEF FactoryInv, FactoryTypeOK
  <2> QED BY <2>1, <2>2, <2>3 DEF FactoryInv, FactoryMutexInv, ObjectInv, GivenInv
<1>4. CASE ReturnCreated(t)
  <2>1. /\ call[t] = "unlock" /\ mutex' = Nobody /\ call' = [call EXCEPT ![t] = "have"]
        /\ obj' = [obj EXCEPT ![t] = instance]
        /\ UNCHANGED <<platform, instance, api, built, alive, object, timeout_ns, reset, destroys, aborted, failed>>
    BY <1>4 DEF ReturnCreated
  <2>2. instance # 0 /\ \A u \in User \ {t} : call[u] \notin Locking
    BY <2>1 DEF FactoryInv, FactoryMutexInv, ObjectInv, Locking
  <2>3. FactoryTypeOK' /\ IsObject'
    BY <1>1, <2>1 DEF FactoryInv, FactoryTypeOK, IsObject
  <2>4. FactoryMutexInv' /\ ObjectInv' /\ GivenInv'
    BY <1>1, <2>1, <2>2 DEF FactoryInv, FactoryMutexInv, ObjectInv, GivenInv, Locking
  <2> QED BY <2>3, <2>4 DEF FactoryInv
<1>5. ASSUME NEW time \in Timeouts, SetTimeoutNs(t, time) PROVE FactoryInv'
  <2>1. /\ timeout_ns' = time /\ reset' \in BOOLEAN
        /\ object' = IF instance # 0 THEN [object EXCEPT !.timeout = ns_to_sysclock(time)] ELSE object
        /\ UNCHANGED <<platform, mutex, instance, api, built, alive, call, obj, destroys, aborted, failed>>
    BY <1>5 DEF SetTimeoutNs
  <2>2. time \in 0 .. TimestampMax
    OBVIOUS
  <2>3. IsObject' /\ object'.timeout \in 0 .. TimestampMax
    BY <2>1, <2>2, TicksBelow, TimeoutSet DEF FactoryInv, FactoryTypeOK, IsObject
  <2>4. FactoryTypeOK'
    BY <2>1, <2>2, <2>3 DEF FactoryInv, FactoryTypeOK
  <2> QED BY <2>1, <2>3, <2>4 DEF FactoryInv, FactoryMutexInv, ObjectInv, GivenInv
<1>6. CASE UseTable(t)
  <2>1. /\ api' \in {"none", "table", "linked"}
        /\ UNCHANGED <<platform, mutex, instance, built, alive, object, timeout_ns, reset, call, obj,
                       destroys, aborted, failed>>
    BY <1>6 DEF UseTable, InitHsaApiTable, FactoryInv, FactoryTypeOK
  <2> QED BY <2>1
          DEF FactoryInv, FactoryTypeOK, IsObject, FactoryMutexInv, ObjectInv, GivenInv
<1>7. CASE RuntimeFails(t)
  <2>1. /\ aborted' = TRUE /\ failed' = TRUE
        /\ UNCHANGED <<platform, mutex, instance, api, built, alive, object, timeout_ns, reset,
                       call, obj, destroys>>
    BY <1>7 DEF RuntimeFails
  <2> QED BY <2>1
          DEF FactoryInv, FactoryTypeOK, IsObject, FactoryMutexInv, ObjectInv, GivenInv
<1> QED BY <1>2, <1>3, <1>4, <1>5, <1>6, <1>7, CreateKeeps, PublishKeeps, DestroyKeeps DEF FactoryStep

LEMMA FactoryInvNext == FactoryInv /\ [ClientNext]_clientVars => FactoryInv'
<1> SUFFICES ASSUME FactoryInv, [ClientNext]_clientVars PROVE FactoryInv'
  OBVIOUS
<1>1. CASE GetFactory
  BY <1>1, FactoryStepKeeps, ClientAssumption DEF GetFactory
<1>2. ASSUME NEW t \in Thread, Leave(t) PROVE FactoryInv'
  <2>1. /\ call \in [User -> {"out", "create", "build", "unlock", "have", "destroy"}]
        /\ obj \in [User -> 0 .. built] /\ built \in Nat /\ t \in User
    BY ClientAssumption DEF FactoryInv, FactoryTypeOK
  <2>2. /\ call[t] = "have" /\ call'[t] = "out"
        /\ call' \in [User -> {"out", "create", "build", "unlock", "have", "destroy"}]
        /\ obj' \in [User -> 0 .. built]
        /\ \A u \in User \ {t} : call'[u] = call[u] /\ obj'[u] = obj[u]
    BY <1>2, <2>1 DEF Leave
  <2>3. call[t] \notin Locking /\ call'[t] \notin Locking
    BY <2>2 DEF Locking
  <2> QED BY <1>2, <2>1, <2>2, <2>3, LookKeeps DEF Leave
<1>3. CASE UNCHANGED factoryVars
  BY <1>3 DEF factoryVars, FactoryInv, FactoryTypeOK, IsObject, FactoryMutexInv, ObjectInv, GivenInv
<1> QED BY <1>1, <1>2, <1>3 DEF ClientNext, QueueStep, clientVars

LEMMA OneFromInv == FactoryInv => OneInstance
<1> SUFFICES ASSUME FactoryInv PROVE OneInstance
  OBVIOUS
<1>1. \A a, b \in alive : a = b
  BY DEF FactoryInv, ObjectInv
<1>2. ASSUME NEW t \in User, call[t] = "have", destroys = Destroys PROVE alive = {obj[t]}
  <2>1. /\ instance # 0 /\ obj[t] = instance
        /\ \A u \in User : call[u] \notin {"build", "destroy"}
    BY <1>2 DEF FactoryInv, GivenInv, ObjectInv
  <2> QED BY <2>1 DEF FactoryInv, ObjectInv
<1> QED BY <1>1, <1>2 DEF OneInstance

-----------------------------------------------------------------------------
(* Every step of a client is a step of the queue or leaves the queue alone. *)
LEMMA ClientStep == [ClientNext]_clientVars => [Next]_vars
  BY DEF ClientNext, clientVars, QueueStep, GetFactory, Leave, Next

(***************************************************************************)
(* A client is a behaviour of AqlSubmit, so its queue is that of           *)
(* PacketQueue and its waits end with their commands, however its threads  *)
(* come by the factory.                                                    *)
(***************************************************************************)
THEOREM ClientsSubmit == ClientSpec => QueueImplemented /\ []WaitMeansDone
<1>1. ClientSpec => Spec
  BY ClientStep, PTL DEF ClientSpec, ClientInit, Spec
<1> QED BY <1>1, QueueRefined, WaitsForCommand, PTL

(***************************************************************************)
(* There is at most one factory object, and who was given one before any   *)
(* Destroy has the one that exists, for any number of threads that look    *)
(* for it without the mutex.                                               *)
(***************************************************************************)
THEOREM ClientsShareOne == ClientSpec => []ClientInv
<1>1. TypeInv /\ FactoryInv => ClientInv
  BY OneFromInv DEF TypeInv, FactoryInv, ClientInv
<1>2. TypeInv /\ [ClientNext]_clientVars => TypeInv'
  BY ClientStep, TypeNext
<1>3. ClientInit => TypeInv /\ FactoryInv
  BY TypeInit, FactoryInvInit DEF ClientInit
<1> QED BY <1>1, <1>2, <1>3, FactoryInvNext, PTL DEF ClientSpec

-----------------------------------------------------------------------------
(***************************************************************************)
(* The tables of the object.  While it is built, and as long as instance_  *)
(* points to it, it says of the agents added so far what it is to say of   *)
(* all of them.                                                            *)
(***************************************************************************)

(* Every set of natural numbers that is not empty has a least element. *)
LEMMA LeastNumber ==
  ASSUME NEW T, T \subseteq Nat, T # {}
  PROVE  \E x \in T : \A y \in T : x <= y
<1> DEFINE R == {ss \in Nat \X Nat : ss[1] < ss[2]}
<1>1. IsWellFoundedOn(R, Nat)
  BY NatLessThanWellFounded DEF OpToRel
<1>2. \A x, y \in Nat : <<y, x>> \in R <=> y < x
  OBVIOUS
<1> HIDE DEF R
<1>3. PICK x \in T : \A y \in T : ~(<<y, x>> \in R)
  BY <1>1, WFMin
<1>4. \A y \in T : ~(y < x) /\ x \in Nat /\ y \in Nat
  BY <1>2, <1>3
<1> QED BY <1>4

LEMMA LeastIsMember ==
  ASSUME NEW T, T \subseteq Nat, T # {}
  PROVE  Min(T) \in T
  BY LeastNumber DEF Min

(* The iteration over the pools finds one of a kind when there is one. *)
LEMMA PoolFound ==
  ASSUME NEW pools \in Seq(Pools), NEW kind
  PROVE  /\ FindGlobalPool(pools, kind) \in Nat
         /\ FindGlobalPool(pools, kind) # 0 <=> kind \in ToSet(pools)
<1> DEFINE I == {i \in 1 .. Len(pools) : pools[i] = kind}
<1>1. FindGlobalPool(pools, kind) = IF I # {} THEN Min(I) ELSE 0
  BY DEF FindGlobalPool, SelectInSeq
<1>2. I # {} <=> kind \in ToSet(pools)
  BY DEF ToSet
<1>3. I \subseteq Nat \ {0}
  OBVIOUS
<1> HIDE DEF I
<1>4. I # {} => Min(I) \in I
  BY <1>3, LeastIsMember
<1>5. CASE I = {}
  BY <1>1, <1>2, <1>5
<1>6. CASE I # {}
  <2>1. FindGlobalPool(pools, kind) \in I
    BY <1>1, <1>4, <1>6
  <2> QED BY <1>2, <1>3, <1>6, <2>1
<1> QED BY <1>5, <1>6

(* The tables of an object to which the first n agents were added. *)
PoolInv(pointer, kind, n) ==
  \/ pointer = NoPool /\ NoneHas(kind, n)
  \/ pointer # NoPool /\ pointer[1] \in 1 .. n /\ IsFirst(pointer, kind)

(* The entries of the listed agents say at which place they are. *)
Places(map, list) == \A k \in 1 .. Len(list) : map[list[k]].dev_index = k - 1

ListInv(list, type, n) ==
  list \in Seq(1 .. n) /\ Lists(list, type, n) /\ Places(object.agent_map, list)

MapInv ==
  /\ object.agent_map \in Seq([handle : Nat, dev_index : Nat])
  /\ Added \in 0 .. Len(platform)
  /\ \A h \in 1 .. Added : object.agent_map[h].handle = h /\ AgentAccepted(platform[h])

ObjectTables ==
  /\ MapInv
  /\ ListInv(object.cpu_list, "cpu", Added)
  /\ ListInv(object.gpu_list, "gpu", Added)
  /\ PoolInv(object.cpu_pool, "standard", Added)
  /\ PoolInv(object.kern_arg_pool, "kern_arg", Added)

TablesInv ==
  /\ (instance # 0 \/ \E t \in User : call[t] = "build") => ObjectTables /\ api # "none"
  /\ instance # 0 => /\ Added = Len(platform)
                     /\ object.cpu_pool # NoPool /\ object.kern_arg_pool # NoPool
                     /\ object.timeout = LastTimeout
  /\ aborted => failed \/ ~Usable

(* The entry of an agent is found by its handle. *)
LEMMA EntryFound ==
  ASSUME MapInv, NEW h \in 1 .. Added
  PROVE  GetAgentInfo(h) = object.agent_map[h]
<1> DEFINE I == {i \in 1 .. Len(object.agent_map) : object.agent_map[i].handle = h}
<1>1. GetAgentInfo(h) = object.agent_map[IF I # {} THEN Min(I) ELSE 0]
  BY DEF GetAgentInfo, SelectInSeq
<1>2. I = {h}
  BY DEF MapInv, Added
<1>3. Min({h}) = h
  <2>1. h \in Nat
    OBVIOUS
  <2> QED BY <2>1, LeastIsMember
<1> QED BY <1>1, <1>2, <1>3


(* The agents of a platform are what the runtime can report. *)
LEMMA AgentTyping ==
  ASSUME platform \in Platforms
  PROVE  /\ Len(platform) \in Nat /\ DOMAIN platform = 1 .. Len(platform)
         /\ \A h \in 1 .. Len(platform) : /\ platform[h].type \in AgentTypes
                                          /\ platform[h].pools \in Seq(Pools)
<1> DEFINE Agent == [type : AgentTypes, pools : Seq(Pools)]
<1>1. platform \in Seq(Agent)
  BY PlatformAssumption
<1>2. \A a \in Agent : a.type \in AgentTypes /\ a.pools \in Seq(Pools)
  OBVIOUS
<1> HIDE DEF Agent
<1>3. /\ Len(platform) \in Nat /\ DOMAIN platform = 1 .. Len(platform)
      /\ \A h \in 1 .. Len(platform) : platform[h] \in Agent
  BY <1>1
<1> QED BY <1>2, <1>3

(* The list of one type, when an agent of this type is added to it ... *)
LEMMA ListGrows ==
  ASSUME NEW n \in Nat, NEW type, platform[n + 1].type = type,
         NEW list \in Seq(1 .. n), Lists(list, type, n)
  PROVE  /\ Append(list, n + 1) \in Seq(1 .. n + 1)
         /\ Lists(Append(list, n + 1), type, n + 1)
<1> DEFINE more == Append(list, n + 1)
           len == Len(list)
<1>1. list \in Seq(1 .. n + 1) /\ len \in Nat
  OBVIOUS
<1>2. /\ more \in Seq(1 .. n + 1) /\ Len(more) = len + 1
      /\ \A i \in 1 .. len : more[i] = list[i]
      /\ more[len + 1] = n + 1
  BY <1>1, AppendProperties
<1>3. /\ ToSet(list) = {list[i] : i \in 1 .. len}
      /\ ToSet(more) = {more[i] : i \in 1 .. len + 1}
  BY <1>2 DEF ToSet
<1> HIDE DEF more, len
<1>4. ToSet(more) = ToSet(list) \cup {n + 1}
  <2>1. \A x \in ToSet(more) : x \in ToSet(list) \cup {n + 1}
    <3> SUFFICES ASSUME NEW i \in 1 .. len + 1 PROVE more[i] \in ToSet(list) \cup {n + 1}
      BY <1>3
    <3>1. CASE i = len + 1
      BY <1>2, <3>1
    <3>2. CASE i \in 1 .. len
      BY <1>2, <1>3, <3>2
    <3> QED BY <1>1, <3>1, <3>2
  <2>2. \A x \in ToSet(list) : x \in ToSet(more)
    <3> SUFFICES ASSUME NEW i \in 1 .. len PROVE list[i] \in ToSet(more)
      BY <1>3
    <3>1. i \in 1 .. len + 1 /\ more[i] = list[i]
      BY <1>1, <1>2
    <3> QED BY <1>3, <3>1
  <2>3. n + 1 \in ToSet(more)
    <3>1. len + 1 \in 1 .. len + 1
      BY <1>1
    <3> QED BY <1>2, <1>3, <3>1
  <2> QED BY <2>1, <2>2, <2>3
<1>5. {h \in 1 .. n + 1 : platform[h].type = type}
        = {h \in 1 .. n : platform[h].type = type} \cup {n + 1}
  OBVIOUS
<1>6. ToSet(more) = {h \in 1 .. n + 1 : platform[h].type = type}
  BY <1>4, <1>5 DEF Lists
<1>7. ASSUME NEW i \in DOMAIN more, NEW j \in DOMAIN more, i < j PROVE more[i] < more[j]
  <2>1. i \in 1 .. len /\ j \in 1 .. len + 1
    BY <1>1, <1>2, <1>7
  <2>2. list[i] \in 1 .. n /\ more[i] = list[i]
    BY <1>2, <2>1 DEF len
  <2>3. CASE j = len + 1
    BY <1>2, <2>2, <2>3
  <2>4. CASE j \in 1 .. len
    <3>1. i \in DOMAIN list /\ j \in DOMAIN list
      BY <2>1, <2>4 DEF len
    <3> QED BY <1>2, <1>7, <2>2, <2>4, <3>1 DEF Lists
  <2> QED BY <1>1, <2>1, <2>3, <2>4
<1> QED BY <1>2, <1>6, <1>7 DEF Lists, more

(* ... and when it is of another type. *)
LEMMA ListStays ==
  ASSUME NEW n \in Nat, NEW type, platform[n + 1].type # type,
         NEW list \in Seq(1 .. n), Lists(list, type, n)
  PROVE  list \in Seq(1 .. n + 1) /\ Lists(list, type, n + 1)
<1>1. {h \in 1 .. n + 1 : platform[h].type = type} = {h \in 1 .. n : platform[h].type = type}
  OBVIOUS
<1>2. list \in Seq(1 .. n + 1)
  OBVIOUS
<1> QED BY <1>1, <1>2 DEF Lists

(* A pool pointer, when a CPU is added. *)
LEMMA PoolOfCpu ==
  ASSUME platform \in Platforms, NEW n \in 0 .. Len(platform) - 1, NEW kind,
         platform[n + 1].type = "cpu", NEW pointer, PoolInv(pointer, kind, n)
  PROVE  PoolInv(FirstPool(pointer, n + 1, FindGlobalPool(platform[n + 1].pools, kind)),
                 kind, n + 1)
<1> DEFINE pools == platform[n + 1].pools
           pool == FindGlobalPool(pools, kind)
<1>1. n \in Nat /\ n + 1 \in 1 .. Len(platform) /\ Len(platform) \in Nat
  BY AgentTyping
<1>2. pool \in Nat /\ (pool # 0 <=> kind \in ToSet(pools))
  BY <1>1, AgentTyping, PoolFound
<1> HIDE DEF pool
<1>3. CASE pointer # NoPool
  <2>1. FirstPool(pointer, n + 1, pool) = pointer
    BY <1>3 DEF FirstPool
  <2> QED BY <1>1, <1>3, <2>1 DEF PoolInv, pool
<1>4. CASE pointer = NoPool /\ pool = 0
  <2>1. FirstPool(pointer, n + 1, pool) = NoPool /\ NoneHas(kind, n)
    BY <1>4 DEF FirstPool, PoolInv
  <2>2. NoneHas(kind, n + 1)
    BY <1>1, <1>2, <1>4, <2>1 DEF NoneHas, pools
  <2> QED BY <2>1, <2>2 DEF PoolInv, pool
<1>5. CASE pointer = NoPool /\ pool # 0
  <2> DEFINE new == <<n + 1, pool>>
  <2>1. FirstPool(pointer, n + 1, pool) = new /\ NoneHas(kind, n)
    BY <1>5 DEF FirstPool, PoolInv
  <2>2. new[1] = n + 1 /\ new[2] = pool /\ new # NoPool /\ (n + 1) - 1 = n
    BY <1>1 DEF NoPool
  <2>3. IsFirst(new, kind)
    <3> HIDE DEF new
    <3>1. NoneHas(kind, new[1] - 1)
      BY <2>1, <2>2
    <3> QED BY <1>1, <1>2, <1>5, <2>2, <3>1 DEF IsFirst, pool, pools
  <2>4. new[1] \in 1 .. n + 1
    BY <1>1, <2>2
  <2> QED BY <2>1, <2>2, <2>3, <2>4 DEF PoolInv, pool
<1> QED BY <1>3, <1>4, <1>5

(* ... and when a GPU is. *)
LEMMA PoolOfGpu ==
  ASSUME NEW n \in Nat, NEW kind, platform[n + 1].type # "cpu",
         NEW pointer, PoolInv(pointer, kind, n)
  PROVE  PoolInv(pointer, kind, n + 1)
  BY DEF PoolInv, NoneHas

(* What AddAgentInfo does to the fields of the object. *)
LEMMA FieldsAdded ==
  ASSUME IsObject, NEW handle,
         object' = AddAgentInfo(object, handle)
  PROVE  LET cpu == platform[handle].type = "cpu"
             pools == platform[handle].pools
             list == IF cpu THEN object.cpu_list ELSE object.gpu_list
         IN  /\ object'.agent_map = Append(object.agent_map,
                                           [handle |-> handle, dev_index |-> Len(list)])
             /\ cpu =>
                  /\ object'.cpu_list = Append(object.cpu_list, handle)
                  /\ object'.gpu_list = object.gpu_list
                  /\ object'.cpu_pool =
                       FirstPool(object.cpu_pool, handle, FindGlobalPool(pools, "standard"))
                  /\ object'.kern_arg_pool =
                       FirstPool(object.kern_arg_pool, handle, FindGlobalPool(pools, "kern_arg"))
             /\ ~cpu =>
                  /\ object'.gpu_list = Append(object.gpu_list, handle)
                  /\ UNCHANGED <<object.cpu_list, object.cpu_pool, object.kern_arg_pool>>
<1> DEFINE cpu == platform[handle].type = "cpu"
<1>1. CASE cpu
  BY <1>1 DEF IsObject, AddAgentInfo, DevIndex, FindStandardPool, FindKernArgPool
<1>2. CASE ~cpu
  BY <1>2 DEF IsObject, AddAgentInfo, DevIndex
<1> QED BY <1>1, <1>2

(* The places in a list stay what they are when an agent is added to the map ... *)
Continues(more, map, n) == \A h \in 1 .. n : more[h] = map[h]

LEMMA PlacesStay ==
  ASSUME NEW n \in Nat, NEW list \in Seq(1 .. n), NEW map, NEW more,
         Continues(more, map, n), Places(map, list)
  PROVE  Places(more, list)
<1> SUFFICES ASSUME NEW k \in 1 .. Len(list) PROVE more[list[k]].dev_index = k - 1
  BY DEF Places
<1>1. list[k] \in 1 .. n
  OBVIOUS
<1> QED BY <1>1 DEF Places, Continues

(* ... and its own place is the number of those before it. *)
LEMMA PlacesGrow ==
  ASSUME NEW n \in Nat, NEW list \in Seq(1 .. n), NEW map, NEW more,
         Continues(more, map, n), Places(map, list),
         more[n + 1].dev_index = Len(list)
  PROVE  Places(more, Append(list, n + 1))
<1>1. list \in Seq(1 .. n + 1) /\ Len(list) \in Nat
  OBVIOUS
<1>2. /\ Len(Append(list, n + 1)) = Len(list) + 1
      /\ \A i \in 1 .. Len(list) : Append(list, n + 1)[i] = list[i]
      /\ Append(list, n + 1)[Len(list) + 1] = n + 1
  BY <1>1, AppendProperties
<1> SUFFICES ASSUME NEW k \in 1 .. Len(list) + 1
             PROVE  more[Append(list, n + 1)[k]].dev_index = k - 1
  BY <1>2 DEF Places
<1>3. CASE k \in 1 .. Len(list)
  BY <1>2, <1>3, PlacesStay DEF Places
<1>4. CASE k = Len(list) + 1
  BY <1>1, <1>2, <1>4
<1> QED BY <1>1, <1>3, <1>4

LEMMA AgentKeepsTables ==
  ASSUME FactoryInv, ObjectTables, NEW t \in User, AddAgent(t),
         AgentAccepted(platform[Added + 1])
  PROVE  ObjectTables' /\ UNCHANGED aborted
<1> DEFINE n == Added
           agent == platform[n + 1]
           map == object.agent_map
           Entry == [handle : Nat, dev_index : Nat]
<1>1. /\ Added < Len(platform) /\ object' = AddAgentInfo(object, Added + 1)
      /\ UNCHANGED <<platform, aborted>>
  BY DEF AddAgent
<1>2. /\ platform \in Platforms /\ IsObject
      /\ n \in 0 .. Len(platform) - 1 /\ n \in Nat
      /\ agent.type = "cpu" \/ agent.type = "gpu"
  BY <1>1, AgentTyping DEF FactoryInv, FactoryTypeOK, ObjectTables, MapInv, AgentAccepted
<1>3. /\ map \in Seq(Entry) /\ n = Len(map)
      /\ \A h \in 1 .. n : map[h].handle = h /\ AgentAccepted(platform[h])
  BY DEF ObjectTables, MapInv, Added
<1> DEFINE list == IF agent.type = "cpu" THEN object.cpu_list ELSE object.gpu_list
           new == [handle |-> n + 1, dev_index |-> Len(list)]
<1>4. object'.agent_map = Append(map, new)
  BY <1>1, <1>2, FieldsAdded
<1>5. /\ object.cpu_list \in Seq(1 .. n) /\ object.gpu_list \in Seq(1 .. n)
      /\ list \in Seq(1 .. n) /\ Len(list) \in Nat
  BY DEF ObjectTables, ListInv
<1>6. new \in Entry /\ new.handle = n + 1 /\ new.dev_index = Len(list)
  BY <1>2, <1>5
<1> HIDE DEF new, Entry, list
<1>7. /\ object'.agent_map \in Seq(Entry) /\ Len(object'.agent_map) = n + 1
      /\ \A h \in 1 .. n : object'.agent_map[h] = map[h]
      /\ object'.agent_map[n + 1] = new
  BY <1>3, <1>4, <1>6, AppendProperties
<1>8. Added' = n + 1
  BY <1>7 DEF Added
<1>9. MapInv'
  <2>1. n + 1 \in 0 .. Len(platform) /\ n + 1 \in Nat
    BY <1>2
  <2>2. ASSUME NEW h \in 1 .. n + 1
        PROVE  object'.agent_map[h].handle = h /\ AgentAccepted(platform[h])
    <3>1. CASE h \in 1 .. n
      BY <1>3, <1>7, <3>1
    <3>2. CASE h = n + 1
      BY <1>6, <1>7, <3>2
    <3> QED BY <1>2, <3>1, <3>2
  <2>3. \A h \in 1 .. Added' :
          object'.agent_map[h].handle = h /\ AgentAccepted(platform'[h])
    BY <1>1, <1>8, <2>2
  <2> QED BY <1>1, <1>7, <1>8, <2>1, <2>3 DEF MapInv, AgentAccepted, Entry
<1>10. /\ Lists(object.cpu_list, "cpu", n) /\ Lists(object.gpu_list, "gpu", n)
       /\ Places(map, object.cpu_list)
       /\ Places(map, object.gpu_list)
       /\ PoolInv(object.cpu_pool, "standard", n)
       /\ PoolInv(object.kern_arg_pool, "kern_arg", n)
  BY DEF ObjectTables, ListInv
<1> DEFINE more == object'.agent_map
<1>11. n \in Nat /\ Continues(more, map, n)
  BY <1>2, <1>7 DEF Continues
<1> HIDE DEF n, map, more
<1>12. CASE agent.type = "cpu"
  <2>1. /\ object'.cpu_list = Append(object.cpu_list, n + 1)
        /\ object'.gpu_list = object.gpu_list
        /\ object'.cpu_pool =
             FirstPool(object.cpu_pool, n + 1, FindGlobalPool(agent.pools, "standard"))
        /\ object'.kern_arg_pool =
             FirstPool(object.kern_arg_pool, n + 1, FindGlobalPool(agent.pools, "kern_arg"))
    BY <1>1, <1>2, <1>12, FieldsAdded DEF n
  <2>2. list = object.cpu_list
    BY <1>12 DEF list
  <2>3. /\ object'.cpu_list \in Seq(1 .. n + 1) /\ Lists(object'.cpu_list, "cpu", n + 1)
    BY <1>2, <1>5, <1>10, <1>12, <2>1, ListGrows
  <2>4. Places(object'.agent_map, object'.cpu_list)
    <3>1. more[n + 1].dev_index = Len(object.cpu_list)
      BY <1>6, <1>7, <2>2 DEF more
    <3>2. Places(more, Append(object.cpu_list, n + 1))
      BY <1>11, <1>5, <1>10, <3>1, PlacesGrow
    <3> QED BY <2>1, <3>2 DEF more
  <2>5. /\ object'.gpu_list \in Seq(1 .. n + 1) /\ Lists(object'.gpu_list, "gpu", n + 1)
    BY <1>2, <1>5, <1>10, <1>12, <2>1, ListStays
  <2>6. Places(object'.agent_map, object'.gpu_list)
    <3>1. Places(more, object.gpu_list)
      BY <1>11, <1>5, <1>10, PlacesStay
    <3> QED BY <2>1, <3>1 DEF more
  <2>7. /\ PoolInv(object'.cpu_pool, "standard", n + 1)
        /\ PoolInv(object'.kern_arg_pool, "kern_arg", n + 1)
    BY <1>2, <1>10, <1>12, <2>1, PoolOfCpu
  <2> QED BY <1>1, <1>8, <1>9, <2>3, <2>4, <2>5, <2>6, <2>7
          DEF ObjectTables, ListInv, Lists, PoolInv, IsFirst, NoneHas
<1>13. CASE agent.type = "gpu"
  <2>1. /\ object'.gpu_list = Append(object.gpu_list, n + 1)
        /\ UNCHANGED <<object.cpu_list, object.cpu_pool, object.kern_arg_pool>>
    BY <1>1, <1>2, <1>13, FieldsAdded DEF n
  <2>2. list = object.gpu_list
    BY <1>13 DEF list
  <2>3. /\ object'.gpu_list \in Seq(1 .. n + 1) /\ Lists(object'.gpu_list, "gpu", n + 1)
    BY <1>2, <1>5, <1>10, <1>13, <2>1, ListGrows
  <2>4. Places(object'.agent_map, object'.gpu_list)
    <3>1. more[n + 1].dev_index = Len(object.gpu_list)
      BY <1>6, <1>7, <2>2 DEF more
    <3>2. Places(more, Append(object.gpu_list, n + 1))
      BY <1>11, <1>5, <1>10, <3>1, PlacesGrow
    <3> QED BY <2>1, <3>2 DEF more
  <2>5. /\ object'.cpu_list \in Seq(1 .. n + 1) /\ Lists(object'.cpu_list, "cpu", n + 1)
    BY <1>2, <1>5, <1>10, <1>13, <2>1, ListStays
  <2>6. Places(object'.agent_map, object'.cpu_list)
    <3>1. Places(more, object.cpu_list)
      BY <1>11, <1>5, <1>10, PlacesStay
    <3> QED BY <2>1, <3>1 DEF more
  <2>7. /\ PoolInv(object'.cpu_pool, "standard", n + 1)
        /\ PoolInv(object'.kern_arg_pool, "kern_arg", n + 1)
    BY <1>2, <1>10, <1>13, <2>1, PoolOfGpu
  <2> QED BY <1>1, <1>8, <1>9, <2>3, <2>4, <2>5, <2>6, <2>7
          DEF ObjectTables, ListInv, Lists, PoolInv, IsFirst, NoneHas
<1> QED BY <1>1, <1>2, <1>12, <1>13

(* A platform is usable when nothing is missing in the end. *)
LEMMA UsableIs ==
  ASSUME platform \in Platforms
  PROVE  Usable <=> /\ ~NoneHas("standard", Len(platform)) /\ ~NoneHas("kern_arg", Len(platform))
                    /\ \A h \in 1 .. Len(platform) : AgentAccepted(platform[h])
<1> DEFINE all == 1 .. Len(platform)
<1>1. ToSet(platform) = {platform[h] : h \in all}
  BY AgentTyping DEF ToSet
<1>2. ASSUME NEW kind PROVE CpuWith(kind) <=> ~NoneHas(kind, Len(platform))
  BY <1>1 DEF CpuWith, NoneHas
<1>3. ASSUME NEW h \in all
      PROVE  FindStandardPool(platform[h]) # 0 <=> "standard" \in ToSet(platform[h].pools)
  BY AgentTyping, PoolFound DEF FindStandardPool
<1>4. (\A h \in all : AgentAccepted(platform[h]))
        <=> \A agent \in ToSet(platform) :
              agent.type = "cpu" \/ (agent.type = "gpu" /\ "standard" \in ToSet(agent.pools))
  BY <1>1, <1>3 DEF AgentAccepted
<1> QED BY <1>2, <1>4 DEF Usable

(* The tables do not depend on the timeout. *)
LEMMA TablesStay ==
  ASSUME ObjectTables,
         UNCHANGED <<platform, object.agent_map, object.cpu_list, object.gpu_list,
                     object.cpu_pool, object.kern_arg_pool>>
  PROVE  ObjectTables'
<1>1. MapInv' /\ Added' = Added
  BY DEF ObjectTables, MapInv, Added
<1>2. ListInv(object.cpu_list, "cpu", Added)' /\ ListInv(object.gpu_list, "gpu", Added)'
  BY <1>1 DEF ObjectTables, ListInv, Lists
<1>3. /\ PoolInv(object.cpu_pool, "standard", Added)'
      /\ PoolInv(object.kern_arg_pool, "kern_arg", Added)'
  BY <1>1 DEF ObjectTables, PoolInv, IsFirst, NoneHas
<1> QED BY <1>1, <1>2, <1>3 DEF ObjectTables

LEMMA UsableStays ==
  ASSUME UNCHANGED platform PROVE Usable' = Usable
  BY DEF Usable, CpuWith

(* Nothing changes for the object but that instance_ may be cleared. *)
LEMMA TablesUntouched ==
  ASSUME TablesInv, UNCHANGED <<platform, object, timeout_ns, reset, aborted, failed>>,
         instance' \in {0, instance}, api' = api \/ api' = InitHsaApiTable("table"),
         \A u \in User : call'[u] = "build" => call[u] = "build"
  PROVE  TablesInv'
<1>1. ObjectTables => ObjectTables'
  BY TablesStay
<1>2. api # "none" => api' # "none"
  BY DEF InitHsaApiTable
<1>3. Added' = Added /\ LastTimeout' = LastTimeout
  BY DEF Added, LastTimeout, SysTimeout, ns_to_sysclock
<1> QED BY <1>1, <1>2, <1>3, UsableStays DEF TablesInv

LEMMA NewTables ==
  ASSUME object' = NewObject, platform \in Platforms, UNCHANGED platform
  PROVE  ObjectTables'
<1>1. /\ object'.agent_map = <<>> /\ object'.cpu_list = <<>> /\ object'.gpu_list = <<>>
      /\ object'.cpu_pool = NoPool /\ object'.kern_arg_pool = NoPool
  BY DEF NewObject
<1>2. Added' = 0 /\ MapInv'
  BY <1>1, AgentTyping DEF MapInv, Added
<1>3. ToSet(<<>>) = {}
  BY DEF ToSet
<1>4. ASSUME NEW type PROVE Lists(<<>>, type, 0)'
  BY <1>3 DEF Lists
<1>5. ListInv(object.cpu_list, "cpu", Added)' /\ ListInv(object.gpu_list, "gpu", Added)'
  BY <1>1, <1>2, <1>4 DEF ListInv, Places
<1>6. /\ PoolInv(object.cpu_pool, "standard", Added)'
      /\ PoolInv(object.kern_arg_pool, "kern_arg", Added)'
  BY <1>1, <1>2 DEF PoolInv, NoneHas
<1> QED BY <1>2, <1>5, <1>6 DEF ObjectTables

LEMMA TablesInvInit == FactoryInit => TablesInv
  BY DEF FactoryInit, TablesInv

LEMMA CreateKeepsTables ==
  ASSUME FactoryInv, TablesInv, NEW t \in User, Create(t) PROVE TablesInv'
<1>1. /\ call \in [User -> {"out", "create", "build", "unlock", "have", "destroy"}]
      /\ platform \in Platforms
      /\ UNCHANGED <<platform, instance, timeout_ns, reset, obj, destroys, aborted, failed>>
  BY DEF FactoryInv, FactoryTypeOK, Create
<1>2. CASE MustBuild
  <2>1. /\ call' = [call EXCEPT ![t] = "build"] /\ object' = NewObject /\ instance = 0
        /\ api' = InitHsaApiTable("linked")
    BY <1>1, <1>2 DEF Create, MustBuild
  <2>2. ObjectTables' /\ api' # "none"
    BY <1>1, <2>1, NewTables DEF InitHsaApiTable
  <2> QED BY <1>1, <2>1, <2>2, UsableStays DEF TablesInv
<1>3. CASE ~MustBuild
  <2>1. call' = [call EXCEPT ![t] = "unlock"] /\ UNCHANGED <<object, api>>
    BY <1>1, <1>3 DEF Create
  <2> QED BY <1>1, <2>1, TablesUntouched
<1> QED BY <1>2, <1>3

LEMMA AddKeepsTables ==
  ASSUME FactoryInv, TablesInv, NEW t \in User, AddAgent(t) PROVE TablesInv'
<1>1. /\ call[t] = "build" /\ instance = 0 /\ ObjectTables /\ api # "none"
      /\ platform \in Platforms
      /\ UNCHANGED <<platform, instance, api, timeout_ns, reset, call, failed>>
  BY DEF FactoryInv, FactoryTypeOK, ObjectInv, TablesInv, AddAgent
<1>2. CASE AgentAccepted(platform[Added + 1])
  <2>1. ObjectTables' /\ UNCHANGED aborted
    BY <1>1, <1>2, AgentKeepsTables
  <2> QED BY <1>1, <2>1, UsableStays DEF TablesInv
<1>3. CASE ~AgentAccepted(platform[Added + 1])
  <2>1. aborted' = TRUE /\ UNCHANGED object
    BY <1>3 DEF AddAgent
  <2>2. Added + 1 \in 1 .. Len(platform)
    BY <1>1, AgentTyping DEF AddAgent, ObjectTables, MapInv
  <2>3. ~Usable
    BY <1>1, <1>3, <2>2, UsableIs
  <2>4. ObjectTables'
    BY <1>1, <2>1, TablesStay
  <2> QED BY <1>1, <2>3, <2>4, UsableStays DEF TablesInv
<1> QED BY <1>2, <1>3

LEMMA PublishKeepsTables ==
  ASSUME FactoryInv, TablesInv, NEW t \in User, Publish(t) PROVE TablesInv'
<1>1. /\ call[t] = "build" /\ instance = 0 /\ ObjectTables /\ api # "none"
      /\ platform \in Platforms /\ IsObject
      /\ Added = Len(platform)
      /\ call \in [User -> {"out", "create", "build", "unlock", "have", "destroy"}]
      /\ UNCHANGED <<platform, api, timeout_ns, failed>>
  BY DEF FactoryInv, FactoryTypeOK, ObjectInv, TablesInv, Publish
<1>2. CASE ~PoolsFound
  <2>1. aborted' = TRUE /\ UNCHANGED <<object, reset, instance, call>>
    BY <1>2 DEF Publish
  <2>2. NoneHas("standard", Len(platform)) \/ NoneHas("kern_arg", Len(platform))
    BY <1>1, <1>2 DEF ObjectTables, PoolInv, PoolsFound
  <2>3. ~Usable
    BY <1>1, <2>2, UsableIs
  <2>4. ObjectTables'
    BY <1>1, <2>1, TablesStay
  <2> QED BY <1>1, <2>1, <2>3, <2>4, UsableStays DEF TablesInv
<1>3. CASE PoolsFound
  <2>1. /\ object' = [object EXCEPT !.timeout = SysTimeout] /\ UNCHANGED aborted
        /\ call' = [call EXCEPT ![t] = "unlock"] /\ reset' = FALSE
    BY <1>3 DEF Publish
  <2>2. /\ object'.timeout = SysTimeout
        /\ UNCHANGED <<object.agent_map, object.cpu_list, object.gpu_list, object.cpu_pool,
                       object.kern_arg_pool>>
    BY <1>1, <2>1 DEF IsObject
  <2>3. ObjectTables' /\ Added' = Added /\ object'.timeout = LastTimeout'
    BY <1>1, <2>1, <2>2, TablesStay DEF Added, LastTimeout, SysTimeout, ns_to_sysclock
  <2> QED BY <1>1, <1>3, <2>1, <2>2, <2>3, UsableStays DEF TablesInv, PoolsFound
<1> QED BY <1>2, <1>3

LEMMA TimeoutKeepsTables ==
  ASSUME FactoryInv, TablesInv, NEW t \in User, NEW time \in Timeouts, SetTimeoutNs(t, time)
  PROVE  TablesInv'
<1>1. /\ UNCHANGED <<platform, instance, api, call, aborted, failed>> /\ IsObject
      /\ timeout_ns' = time /\ reset' = (instance # 0)
      /\ object' = IF instance # 0 THEN [object EXCEPT !.timeout = ns_to_sysclock(time)]
                                   ELSE object
  BY DEF SetTimeoutNs, FactoryInv
<1>2. /\ instance # 0 => object'.timeout = ns_to_sysclock(time)
      /\ UNCHANGED <<object.agent_map, object.cpu_list, object.gpu_list, object.cpu_pool,
                     object.kern_arg_pool>>
  BY <1>1 DEF IsObject
<1>3. instance # 0 => object'.timeout = LastTimeout'
  BY <1>1, <1>2 DEF LastTimeout, ns_to_sysclock
<1>4. (ObjectTables => ObjectTables') /\ Added' = Added
  BY <1>1, <1>2, TablesStay DEF Added
<1> QED BY <1>1, <1>2, <1>3, <1>4, UsableStays DEF TablesInv

(* A failing call of the runtime leaves the tables as they are. *)
LEMMA FailureKeepsTables ==
  ASSUME FactoryInv, TablesInv, NEW t \in User, RuntimeFails(t) PROVE TablesInv'
<1>1. /\ aborted' = TRUE /\ failed' = TRUE
      /\ UNCHANGED <<platform, instance, api, object, timeout_ns, reset, call>>
  BY DEF RuntimeFails
<1>2. (ObjectTables => ObjectTables') /\ Added' = Added /\ LastTimeout' = LastTimeout
  BY <1>1, TablesStay DEF Added, LastTimeout, SysTimeout, ns_to_sysclock
<1> QED BY <1>1, <1>2, UsableStays DEF TablesInv

LEMMA TablesInvNext == FactoryInv /\ TablesInv /\ [ClientNext]_clientVars => TablesInv'
<1> SUFFICES ASSUME FactoryInv, TablesInv, [ClientNext]_clientVars PROVE TablesInv'
  OBVIOUS
<1>1. call \in [User -> {"out", "create", "build", "unlock", "have", "destroy"}]
  BY DEF FactoryInv, FactoryTypeOK
<1>2. ASSUME NEW t \in User, FactoryStep(t) PROVE TablesInv'
  <2>1. CASE Instance(t) \/ ReturnCreated(t)
    BY <1>1, <2>1, TablesUntouched DEF Instance, ReturnCreated
  <2>2. CASE UseTable(t)
    BY <1>1, <2>2, TablesUntouched DEF UseTable
  <2>3. CASE Destroy(t)
    BY <1>1, <2>3, TablesUntouched DEF Destroy
  <2>4. CASE ClearInstance(t)
    BY <1>1, <2>4, TablesUntouched DEF ClearInstance
  <2> QED BY <1>2, <2>1, <2>2, <2>3, <2>4, CreateKeepsTables, AddKeepsTables,
             PublishKeepsTables, TimeoutKeepsTables, FailureKeepsTables DEF FactoryStep
<1>3. CASE GetFactory
  BY <1>2, <1>3, ClientAssumption DEF GetFactory
<1>4. ASSUME NEW t \in Thread, Leave(t) PROVE TablesInv'
  BY <1>1, <1>4, TablesUntouched, ClientAssumption DEF Leave
<1>5. CASE UNCHANGED factoryVars
  BY <1>5, TablesUntouched DEF factoryVars
<1> QED BY <1>3, <1>4, <1>5 DEF ClientNext, QueueStep, clientVars

(***************************************************************************)
(* The object that can be reached through instance_ lists every agent of   *)
(* the platform, whatever the platform is, and has the timeout last set;   *)
(* the constructor aborts the process only for a platform it cannot use or *)
(* when a call of the runtime fails.                                       *)
(***************************************************************************)
THEOREM ObjectsComplete == ClientSpec => []TablesComplete
<1>1. FactoryInv /\ TablesInv => TablesComplete
  <2> SUFFICES ASSUME FactoryInv, TablesInv, instance # 0
               PROVE  /\ Usable /\ api # "none"
                      /\ Lists(object.cpu_list, "cpu", Len(platform))
                      /\ Lists(object.gpu_list, "gpu", Len(platform))
                      /\ \A idx \in 0 .. GetCountOfGpuAgents - 1 :
                           GetAgentInfo(GetGpuAgentInfo(idx)).dev_index = idx
                      /\ \A idx \in 0 .. Len(object.cpu_list) - 1 :
                           GetAgentInfo(GetCpuAgentInfo(idx)).dev_index = idx
                      /\ IsFirst(object.cpu_pool, "standard")
                      /\ IsFirst(object.kern_arg_pool, "kern_arg")
                      /\ object.timeout = LastTimeout
    BY DEF TablesInv, TablesComplete
  <2>1. /\ ObjectTables /\ MapInv /\ api # "none" /\ Added = Len(platform)
        /\ platform \in Platforms /\ object.timeout = LastTimeout
        /\ object.cpu_pool # NoPool /\ object.kern_arg_pool # NoPool
    BY DEF TablesInv, ObjectTables, FactoryInv, FactoryTypeOK
  <2>2. /\ IsFirst(object.cpu_pool, "standard") /\ IsFirst(object.kern_arg_pool, "kern_arg")
        /\ object.cpu_list \in Seq(1 .. Added) /\ object.gpu_list \in Seq(1 .. Added)
        /\ Lists(object.cpu_list, "cpu", Len(platform))
        /\ Lists(object.gpu_list, "gpu", Len(platform))
        /\ Places(object.agent_map, object.cpu_list)
        /\ Places(object.agent_map, object.gpu_list)
    BY <2>1 DEF ObjectTables, PoolInv, ListInv
  <2>3. Usable
    <3>1. ~NoneHas("standard", Len(platform)) /\ ~NoneHas("kern_arg", Len(platform))
      BY <2>2 DEF IsFirst, NoneHas
    <3>2. \A h \in 1 .. Len(platform) : AgentAccepted(platform[h])
      BY <2>1 DEF MapInv
    <3> QED BY <2>1, <3>1, <3>2, UsableIs
  <2>4. ASSUME NEW list \in Seq(1 .. Added), Places(object.agent_map, list),
               NEW idx \in 0 .. Len(list) - 1
        PROVE  GetAgentInfo(list[idx + 1]).dev_index = idx
    <3>1. idx + 1 \in 1 .. Len(list) /\ (idx + 1) - 1 = idx
      OBVIOUS
    <3>2. list[idx + 1] \in 1 .. Added
      BY <3>1, ElementOfSeq
    <3>3. GetAgentInfo(list[idx + 1]) = object.agent_map[list[idx + 1]]
      BY <2>1, <3>2, EntryFound
    <3> QED BY <2>4, <3>1, <3>3 DEF Places
  <2>5. \A idx \in 0 .. GetCountOfGpuAgents - 1 :
          GetAgentInfo(GetGpuAgentInfo(idx)).dev_index = idx
    BY <2>2, <2>4 DEF GetCountOfGpuAgents, GetGpuAgentInfo
  <2>6. \A idx \in 0 .. Len(object.cpu_list) - 1 :
          GetAgentInfo(GetCpuAgentInfo(idx)).dev_index = idx
    BY <2>2, <2>4 DEF GetCpuAgentInfo
  <2> QED BY <2>1, <2>2, <2>3, <2>5, <2>6
<1>2. ClientInit => FactoryInv /\ TablesInv
  BY FactoryInvInit, TablesInvInit DEF ClientInit
<1> QED BY <1>1, <1>2, FactoryInvNext, TablesInvNext, PTL DEF ClientSpec
=============================================================================
