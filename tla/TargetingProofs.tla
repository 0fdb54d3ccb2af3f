--------------------------- MODULE TargetingProofs ---------------------------
(***************************************************************************)
(* Proofs about is_targeted_kernel, for every set of dispatches and        *)
(* kernels, every filter, every range and both modes; and about counter    *)
(* collection, which calls it, for any agents and groups of counters.      *)
(***************************************************************************)
EXTENDS CounterDispatch, FiniteSetTheorems, WellFoundedInduction, TLAPS

(* A call has a ticket exactly from its count on, and no answer before its judgement. *)
TicketWhenCounted ==
  \A d \in Dispatch :
    /\ pc[d] \in {"idle", "lookup", "count"} => ticket[d] = 0
    /\ pc[d] = "judge" => ticket[d] # 0
    /\ pc[d] # "answered" => ~answer[d]
    /\ answer[d] => ticket[d] # 0

(* Between count and judgement the count is still the call's own, unless calls crossed. *)
UncrossedCountIsOwn ==
  \A d \in Dispatch :
    pc[d] = "judge" /\ kern[d] \notin crossed => ticket[d] = iteration[kern[d]]

(* TicketsExact without the existence of a holder for each count. *)
TicketsUnique ==
  /\ \A d \in Dispatch : ticket[d] <= iteration[kern[d]]
  /\ \A d, e \in Dispatch :
       ticket[d] # 0 /\ kern[d] = kern[e] /\ ticket[d] = ticket[e] => d = e

TicketsHeld ==
  \A k \in Kernel : \A i \in 1..iteration[k] :
    \E d \in Dispatch : kern[d] = k /\ ticket[d] = i

(* The inductive invariant of TargetSpec. *)
TargetInv ==
  /\ TargetTypeOK
  /\ TicketWhenCounted
  /\ TicketsUnique
  /\ TicketsHeld
  /\ NeverPastRange
  /\ LatestIterationJudged
  /\ UncrossedCountIsOwn
  /\ SerialCallsExact

USE DispatchAssumption, KernelAssumption, FilterAssumption, RangeAssumption, ModeAssumption

-----------------------------------------------------------------------------
(* The initial state satisfies the inductive invariant: nothing is dispatched. *)
LEMMA TargetInvInit == TargetInit => TargetInv
<1> SUFFICES ASSUME TargetInit PROVE TargetInv
  OBVIOUS
<1> USE DEF TargetInit
<1>1. TargetTypeOK
  BY DEF TargetTypeOK
<1>2. TicketWhenCounted /\ TicketsUnique /\ UncrossedCountIsOwn
  BY DEF TicketWhenCounted, TicketsUnique, UncrossedCountIsOwn
<1>3. TicketsHeld
  BY DEF TicketsHeld
<1>4. NeverPastRange /\ LatestIterationJudged /\ SerialCallsExact
  BY DEF NeverPastRange, LatestIterationJudged, SerialCallsExact, Profiled
<1>5. QED
  BY <1>1, <1>2, <1>3, <1>4 DEF TargetInv

(* Loading a kernel symbol touches no call. *)
LEMMA RegisterPreserves ==
  ASSUME TargetInv, NEW k \in Kernel, RegisterKernelSymbol(k)
  PROVE  TargetInv'
<1> USE DEF RegisterKernelSymbol
<1>1. TargetTypeOK'
  BY DEF TargetInv, TargetTypeOK
<1>2. TicketWhenCounted' /\ TicketsUnique' /\ UncrossedCountIsOwn' /\ TicketsHeld'
  BY DEF TargetInv, TicketWhenCounted, TicketsUnique, UncrossedCountIsOwn, TicketsHeld
<1>3. NeverPastRange' /\ LatestIterationJudged' /\ SerialCallsExact'
  BY DEF TargetInv, NeverPastRange, LatestIterationJudged, SerialCallsExact, Profiled, InRange
<1>4. QED
  BY <1>1, <1>2, <1>3 DEF TargetInv

(* A dispatch without a ticket may choose its kernel. *)
LEMMA DispatchPreserves ==
  ASSUME TargetInv, NEW d \in Dispatch, NEW k \in Kernel, DispatchKernel(d, k)
  PROVE  TargetInv'
<1> USE DEF DispatchKernel
<1>1. TargetTypeOK'
  BY DEF TargetInv, TargetTypeOK
<1>2. TicketWhenCounted'
  BY DEF TargetInv, TargetTypeOK, TicketWhenCounted
<1>3. ticket[d] = 0 /\ ~answer[d]
  BY DEF TargetInv, TicketWhenCounted
<1>4. TicketsUnique'
  BY <1>3 DEF TargetInv, TargetTypeOK, TicketsUnique
<1>5. TicketsHeld'
  <2> SUFFICES ASSUME NEW j \in Kernel, NEW i \in 1..iteration[j]
               PROVE  \E e \in Dispatch : kern'[e] = j /\ ticket[e] = i
    BY DEF TicketsHeld
  <2>1. PICK e \in Dispatch : kern[e] = j /\ ticket[e] = i
    BY DEF TargetInv, TicketsHeld
  <2>2. i # 0
    BY DEF TargetInv, TargetTypeOK
  <2>3. QED
    BY <1>3, <2>1, <2>2 DEF TargetInv, TargetTypeOK
<1>6. NeverPastRange'
  BY DEF TargetInv, NeverPastRange, Profiled
<1>7. LatestIterationJudged' /\ SerialCallsExact' /\ UncrossedCountIsOwn'
  BY DEF TargetInv, TargetTypeOK, LatestIterationJudged, SerialCallsExact,
         UncrossedCountIsOwn, InRange
<1>8. QED
  BY <1>1, <1>2, <1>4, <1>5, <1>6, <1>7 DEF TargetInv

(* A call that has no ticket is answered FALSE or goes on to count. *)
LEMMA LookupPreserves ==
  ASSUME TargetInv, NEW d \in Dispatch, LookupTarget(d)
  PROVE  TargetInv'
<1> USE DEF LookupTarget
<1>1. TargetTypeOK'
  BY DEF TargetInv, TargetTypeOK
<1>2. ticket[d] = 0 /\ ~answer[d]
  BY DEF TargetInv, TicketWhenCounted
<1>3. TicketWhenCounted'
  BY <1>2 DEF TargetInv, TargetTypeOK, TicketWhenCounted
<1>4. TicketsUnique' /\ TicketsHeld' /\ NeverPastRange'
  BY DEF TargetInv, TicketsUnique, TicketsHeld, NeverPastRange, Profiled
<1>5. LatestIterationJudged' /\ SerialCallsExact' /\ UncrossedCountIsOwn'
  BY <1>2 DEF TargetInv, TargetTypeOK, LatestIterationJudged, SerialCallsExact,
              UncrossedCountIsOwn, InRange
<1>6. QED
  BY <1>1, <1>3, <1>4, <1>5 DEF TargetInv

(* Counting hands out the next ticket, which no other dispatch of the kernel holds. *)
LEMMA CountPreserves ==
  ASSUME TargetInv, NEW d \in Dispatch, CountIteration(d)
  PROVE  TargetInv'
<1> DEFINE k == kern[d]
<1>1. /\ k \in Kernel
      /\ iteration[k] \in Nat
      /\ iteration' = [iteration EXCEPT ![k] = iteration[k] + 1]
      /\ ticket' = [ticket EXCEPT ![d] = iteration[k] + 1]
      /\ pc' = [pc EXCEPT ![d] = "judge"]
      /\ UNCHANGED <<kern, answer>>
  BY DEF TargetInv, TargetTypeOK, CountIteration, NextCount
<1>2. TargetTypeOK'
  BY <1>1 DEF TargetInv, TargetTypeOK, CountIteration
<1>3. ticket[d] = 0 /\ ~answer[d]
  BY DEF TargetInv, TicketWhenCounted, CountIteration
<1>4. TicketWhenCounted'
  BY <1>1, <1>3 DEF TargetInv, TargetTypeOK, TicketWhenCounted
<1>5. \A e \in Dispatch : kern[e] = k => ticket[e] < iteration[k] + 1
  BY <1>1 DEF TargetInv, TargetTypeOK, TicketsUnique
<1>6. TicketsUnique'
  <2>1. \A e \in Dispatch : ticket'[e] <= iteration'[kern'[e]]
    BY <1>1 DEF TargetInv, TargetTypeOK, TicketsUnique
  <2>2. ASSUME NEW e \in Dispatch, NEW f \in Dispatch,
               ticket'[e] # 0, kern'[e] = kern'[f], ticket'[e] = ticket'[f]
        PROVE  e = f
    BY <1>1, <1>5, <2>2 DEF TargetInv, TargetTypeOK, TicketsUnique
  <2>3. QED
    BY <2>1, <2>2 DEF TicketsUnique
<1>7. TicketsHeld'
  <2> SUFFICES ASSUME NEW j \in Kernel, NEW i \in 1..iteration'[j]
               PROVE  \E e \in Dispatch : kern[e] = j /\ ticket'[e] = i
    BY <1>1 DEF TicketsHeld
  <2>1. CASE j = k /\ i = iteration[k] + 1
    BY <1>1, <2>1 DEF TargetInv, TargetTypeOK
  <2>2. CASE ~(j = k /\ i = iteration[k] + 1)
    <3>1. i \in 1..iteration[j] /\ i # 0
      BY <1>1, <2>2 DEF TargetInv, TargetTypeOK
    <3>2. PICK e \in Dispatch : kern[e] = j /\ ticket[e] = i
      BY <3>1 DEF TargetInv, TicketsHeld
    <3>3. e # d
      BY <1>3, <3>1, <3>2
    <3>4. QED
      BY <1>1, <3>2, <3>3 DEF TargetInv, TargetTypeOK
  <2>3. QED
    BY <2>1, <2>2
<1>8. NeverPastRange'
  BY <1>1, <1>3 DEF TargetInv, TargetTypeOK, NeverPastRange, Profiled
<1>9. LatestIterationJudged'
  BY <1>1, <1>5 DEF TargetInv, TargetTypeOK, LatestIterationJudged, InRange
<1>10. UncrossedCountIsOwn'
  <2> SUFFICES ASSUME NEW e \in Dispatch, pc'[e] = "judge", kern[e] \notin crossed'
               PROVE  ticket'[e] = iteration'[kern[e]]
    BY <1>1 DEF UncrossedCountIsOwn
  <2>1. CASE e = d
    BY <1>1, <2>1 DEF TargetInv, TargetTypeOK
  <2>2. CASE e # d
    <3>1. pc[e] = "judge" /\ kern[e] \notin crossed
      BY <1>1, <2>2 DEF TargetInv, TargetTypeOK, CountIteration
    <3>2. kern[e] # k
      BY <3>1 DEF CountIteration
    <3>3. QED
      BY <1>1, <2>2, <3>1, <3>2 DEF TargetInv, TargetTypeOK, UncrossedCountIsOwn
  <2>3. QED
    BY <2>1, <2>2
<1>11. SerialCallsExact'
  <2>1. crossed \subseteq crossed'
    BY DEF CountIteration
  <2>2. QED
    BY <1>1, <2>1 DEF TargetInv, TargetTypeOK, SerialCallsExact, InRange
<1>12. QED
  BY <1>2, <1>4, <1>6, <1>7, <1>8, <1>9, <1>10, <1>11 DEF TargetInv

(* The count a call is judged on is its own or a later one. *)
LEMMA JudgePreserves ==
  ASSUME TargetInv, NEW d \in Dispatch, JudgeIteration(d)
  PROVE  TargetInv'
<1> DEFINE n == iteration[kern[d]]
<1>1. /\ n \in Nat
      /\ ticket[d] \in Nat \ {0}
      /\ ticket[d] <= n
      /\ answer' = [answer EXCEPT ![d] = InRange(n)]
      /\ pc' = [pc EXCEPT ![d] = "answered"]
      /\ UNCHANGED <<iteration, kern, ticket, crossed>>
  BY DEF TargetInv, TargetTypeOK, TicketWhenCounted, TicketsUnique, JudgeIteration, JudgedCount
<1>2. InRange(n) \in BOOLEAN
  BY DEF InRange
<1>3. TargetTypeOK'
  BY <1>1, <1>2 DEF TargetInv, TargetTypeOK, JudgeIteration, JudgedCount
<1>4. TicketWhenCounted'
  BY <1>1 DEF TargetInv, TargetTypeOK, TicketWhenCounted
<1>5. TicketsUnique' /\ TicketsHeld'
  <2>1. UNCHANGED <<iteration, kern, ticket>>
    BY <1>1
  <2>2. TicketsUnique'
    BY <2>1 DEF TargetInv, TicketsUnique
  <2>3. TicketsHeld'
    <3> SUFFICES ASSUME NEW j \in Kernel, NEW i \in 1..iteration[j]
                 PROVE  \E e \in Dispatch : kern[e] = j /\ ticket[e] = i
      BY <2>1 DEF TicketsHeld
    <3>1. QED
      BY DEF TargetInv, TicketsHeld
  <2>4. QED
    BY <2>2, <2>3
<1>6. NeverPastRange'
  <2> SUFFICES ASSUME NEW e \in Dispatch, answer'[e]
               PROVE  \/ \E i \in FilterRange : ticket[e] <= i
                      \/ FilterRange = {} /\ (AdvancedThreadTrace => ticket[e] = 1)
    BY <1>1 DEF NeverPastRange, Profiled
  <2>1. CASE e = d
    <3>1. InRange(n)
      BY <1>1, <2>1 DEF TargetInv, TargetTypeOK
    <3>2. QED
      BY <1>1, <2>1, <3>1 DEF InRange
  <2>2. CASE e # d
    BY <1>1, <2>2 DEF TargetInv, TargetTypeOK, NeverPastRange, Profiled
  <2>3. QED
    BY <2>1, <2>2
<1>7. LatestIterationJudged'
  <2> SUFFICES ASSUME NEW e \in Dispatch, pc'[e] = "answered", ticket[e] # 0,
                      ticket[e] = iteration[kern[e]]
               PROVE  answer'[e] <=> InRange(ticket[e])
    BY <1>1 DEF LatestIterationJudged, InRange
  <2>1. CASE e = d
    BY <1>1, <2>1 DEF TargetInv, TargetTypeOK
  <2>2. CASE e # d
    BY <1>1, <2>2 DEF TargetInv, TargetTypeOK, LatestIterationJudged
  <2>3. QED
    BY <2>1, <2>2
<1>8. UncrossedCountIsOwn'
  BY <1>1 DEF TargetInv, TargetTypeOK, UncrossedCountIsOwn
<1>9. SerialCallsExact'
  <2> SUFFICES ASSUME NEW e \in Dispatch, pc'[e] = "answered", ticket[e] # 0,
                      kern[e] \notin crossed
               PROVE  answer'[e] <=> InRange(ticket[e])
    BY <1>1 DEF SerialCallsExact, InRange
  <2>1. CASE e = d
    <3>1. ticket[d] = n
      BY <2>1 DEF TargetInv, UncrossedCountIsOwn, JudgeIteration
    <3>2. QED
      BY <1>1, <2>1, <3>1 DEF TargetInv, TargetTypeOK
  <2>2. CASE e # d
    BY <1>1, <2>2 DEF TargetInv, TargetTypeOK, SerialCallsExact
  <2>3. QED
    BY <2>1, <2>2
<1>10. QED
  BY <1>3, <1>4, <1>5, <1>6, <1>7, <1>8, <1>9 DEF TargetInv

(* Every step of is_targeted_kernel and its callers preserves the invariant. *)
LEMMA TargetInvStep == TargetInv /\ [TargetNext]_targetVars => TargetInv'
<1> SUFFICES ASSUME TargetInv, [TargetNext]_targetVars PROVE TargetInv'
  OBVIOUS
<1>1. CASE \E k \in Kernel : RegisterKernelSymbol(k)
  BY <1>1, RegisterPreserves
<1>2. CASE \E d \in Dispatch, k \in Kernel : DispatchKernel(d, k)
  BY <1>2, DispatchPreserves
<1>3. ASSUME NEW d \in Dispatch, is_targeted_kernel(d) PROVE TargetInv'
  BY <1>3, LookupPreserves, CountPreserves, JudgePreserves DEF is_targeted_kernel
<1>4. CASE UNCHANGED targetVars
  BY <1>4 DEF targetVars, TargetInv, TargetTypeOK, TicketWhenCounted, TicketsUnique,
              TicketsHeld, NeverPastRange, LatestIterationJudged, UncrossedCountIsOwn,
              SerialCallsExact, Profiled, InRange
<1>5. QED
  BY <1>1, <1>2, <1>3, <1>4 DEF TargetNext

(* The inductive invariant holds of every behaviour of the targeting code. *)
THEOREM TargetInvariant == TargetSpec => []TargetInv
BY TargetInvInit, TargetInvStep, PTL DEF TargetSpec

-----------------------------------------------------------------------------
(* Counted dispatches hold the tickets 1..iteration, once each. *)
LEMMA TicketsFromInv == TargetInv => TicketsExact
<1> SUFFICES ASSUME TargetInv, NEW k \in Kernel
             PROVE  /\ \A i \in 1..iteration[k] : \E d \in Counted(k) : ticket[d] = i
                    /\ \A d \in Counted(k) : ticket[d] <= iteration[k]
                    /\ \A d, e \in Counted(k) : ticket[d] = ticket[e] => d = e
  BY DEF TicketsExact
<1>1. ASSUME NEW i \in 1..iteration[k] PROVE \E d \in Counted(k) : ticket[d] = i
  <2>1. PICK d \in Dispatch : kern[d] = k /\ ticket[d] = i
    BY DEF TargetInv, TicketsHeld
  <2>2. i # 0
    BY DEF TargetInv, TargetTypeOK
  <2>3. QED
    BY <2>1, <2>2 DEF Counted
<1>2. \A d \in Counted(k) : ticket[d] <= iteration[k]
  BY DEF TargetInv, TicketsUnique, Counted
<1>3. \A d, e \in Counted(k) : ticket[d] = ticket[e] => d = e
  BY DEF TargetInv, TicketsUnique, Counted
<1>4. QED
  BY <1>1, <1>2, <1>3

(* Type correctness. *)
THEOREM TargetTyping == TargetSpec => []TargetTypeOK
<1>1. TargetInv => TargetTypeOK
  BY DEF TargetInv
<1>2. QED
  BY <1>1, TargetInvariant, PTL

(* No count is lost or handed out twice, for any number of concurrent callbacks. *)
THEOREM TargetTickets == TargetSpec => []TicketsExact
BY TicketsFromInv, TargetInvariant, PTL

(* No dispatch issued after the last iteration of the range is profiled, and the most
   recent iteration is always judged as itself. *)
THEOREM TargetRange == TargetSpec => []RangeRespected
<1>1. TargetInv => RangeRespected
  BY DEF TargetInv, RangeRespected
<1>2. QED
  BY <1>1, TargetInvariant, PTL

(* While calls for a kernel never cross, exactly its configured iterations are profiled. *)
THEOREM TargetSerial == TargetSpec => []SerialCallsExact
<1>1. TargetInv => SerialCallsExact
  BY DEF TargetInv
<1>2. QED
  BY <1>1, TargetInvariant, PTL

-----------------------------------------------------------------------------
(***************************************************************************)
(* Counter collection.  The requests of an agent are numbered by the       *)
(* atomic count, so after n of them it is known how often each             *)
(* configuration was used.                                                 *)
(***************************************************************************)

(* How often the i-th of size configurations is used by the first n requests. *)
Turns(n, i, size) ==
  LET round == (n \div Rotation) \div size
      next == (n \div Rotation) % size
  IN Rotation * round + IF i <= next THEN Rotation
                        ELSE IF i = next + 1 THEN n % Rotation ELSE 0

UsersOf(a, i) == {d \in Dispatch : AgentOf[d] = a /\ chosen[d] = i}
SizeOf(a) == Cardinality(Collectable(a))

BuiltInv ==
  /\ built => /\ profiles = [a \in Agent |-> ProfilesOf(a)]
              /\ warned = UNION {{a} \X MissingIn(a) : a \in Agent}
  /\ ~built => profiles = [a \in Agent |-> <<>>] /\ current_iter = [a \in Agent |-> 0]

ChosenInv ==
  /\ chosen \in [Dispatch -> Nat]
  /\ \A d \in Dispatch : stage[d] = "callback" => chosen[d] = 0

TurnsInv ==
  \A a \in Agent : \A i \in 1..SizeOf(a) :
    IsFiniteSet(UsersOf(a, i)) /\ Cardinality(UsersOf(a, i)) = Turns(current_iter[a], i, SizeOf(a))

CounterInv == CounterTypeOK /\ BuiltInv /\ ChosenInv /\ TurnsInv

-----------------------------------------------------------------------------
(* A number has one quotient and one remainder. *)
LEMMA DivisionUnique ==
  ASSUME NEW n \in Nat \ {0}, NEW a \in Nat, NEW q \in Nat, NEW r \in 0..(n - 1), a = n * q + r
  PROVE  a \div n = q /\ a % n = r
<1> DEFINE p == a \div n
           s == a % n
<1>1. a = n * p + s /\ p \in Nat /\ s \in 0..(n - 1)
  OBVIOUS
<1> HIDE DEF p, s
<1>2. CASE q > p
  <2>1. q - p - 1 \in Nat
    BY <1>1, <1>2
  <2>2. PICK k \in Nat : q = p + 1 + k
    BY <2>1, <1>1
  <2>3. n * q = n * p + n + n * k /\ n * k \in Nat
    BY <2>2, <1>1
  <2> QED BY <1>1, <2>3
<1>3. CASE p > q
  <2>1. p - q - 1 \in Nat
    BY <1>1, <1>3
  <2>2. PICK k \in Nat : p = q + 1 + k
    BY <2>1, <1>1
  <2>3. n * p = n * q + n + n * k /\ n * k \in Nat
    BY <2>2, <1>1
  <2> QED BY <1>1, <2>3
<1>4. CASE p = q
  BY <1>1, <1>4 DEF p, s
<1> QED BY <1>1, <1>2, <1>3, <1>4

(* The quotient and the remainder of the next number. *)
LEMMA DivisionStep ==
  ASSUME NEW n \in Nat \ {0}, NEW a \in Nat
  PROVE  /\ a \div n \in Nat /\ a % n \in 0..(n - 1)
         /\ a % n = n - 1 => (a + 1) \div n = (a \div n) + 1 /\ (a + 1) % n = 0
         /\ a % n # n - 1 => (a + 1) \div n = a \div n /\ (a + 1) % n = (a % n) + 1
<1> DEFINE p == a \div n
           s == a % n
<1>1. a = n * p + s /\ p \in Nat /\ s \in 0..(n - 1)
  OBVIOUS
<1> HIDE DEF p, s
<1>2. CASE s = n - 1
  <2>1. a + 1 = n * (p + 1) + 0 /\ p + 1 \in Nat /\ 0 \in 0..(n - 1) /\ a + 1 \in Nat
    BY <1>1, <1>2
  <2>2. (a + 1) \div n = p + 1 /\ (a + 1) % n = 0
    BY <2>1, DivisionUnique
  <2> QED BY <1>1, <1>2, <2>2 DEF p, s
<1>3. CASE s # n - 1
  <2>1. a + 1 = n * p + (s + 1) /\ s + 1 \in 0..(n - 1) /\ a + 1 \in Nat
    BY <1>1, <1>3
  <2>2. (a + 1) \div n = p /\ (a + 1) % n = s + 1
    BY <1>1, <2>1, DivisionUnique
  <2> QED BY <1>1, <1>3, <2>2 DEF p, s
<1> QED BY <1>2, <1>3

(* Each request is one more turn of the configuration it is given. *)
LEMMA TurnStep ==
  ASSUME NEW n \in Nat, NEW size \in Nat \ {0}, NEW i \in 1..size
  PROVE  /\ Turns(n, i, size) \in Nat /\ Position(n, size) \in 1..size
         /\ Turns(n + 1, i, size) = Turns(n, i, size) + IF i = Position(n, size) THEN 1 ELSE 0
<1> DEFINE m == n \div Rotation
           r == n % Rotation
           round == m \div size
           next == m % size
           base == Rotation * round
           mm == (n + 1) \div Rotation
           rr == (n + 1) % Rotation
           base2 == Rotation * (mm \div size)
           next2 == mm % size
<1>1. /\ m \in Nat /\ r \in 0..(Rotation - 1)
      /\ r = Rotation - 1 => mm = m + 1 /\ rr = 0
      /\ r # Rotation - 1 => mm = m /\ rr = r + 1
  BY DivisionStep, RotationAssumption
<1> HIDE DEF m
<1>2. /\ round \in Nat /\ next \in 0..(size - 1)
      /\ next = size - 1 => (m + 1) \div size = round + 1 /\ (m + 1) % size = 0
      /\ next # size - 1 => (m + 1) \div size = round /\ (m + 1) % size = next + 1
  BY <1>1, DivisionStep
<1>3. base \in Nat /\ Rotation * (round + 1) = base + Rotation
  BY <1>2, RotationAssumption
<1>4. /\ r = Rotation - 1 /\ next = size - 1 => base2 = base + Rotation /\ next2 = 0 /\ rr = 0
      /\ r = Rotation - 1 /\ next # size - 1 => base2 = base /\ next2 = next + 1 /\ rr = 0
      /\ r # Rotation - 1 => base2 = base /\ next2 = next /\ rr = r + 1
  BY <1>1, <1>2, <1>3
<1>5. /\ Turns(n, i, size) = base + IF i <= next THEN Rotation ELSE IF i = next + 1 THEN r ELSE 0
      /\ Turns(n + 1, i, size) =
           base2 + IF i <= next2 THEN Rotation ELSE IF i = next2 + 1 THEN rr ELSE 0
      /\ Position(n, size) = 1 + next
  BY DEF Turns, Position, m
<1> HIDE DEF r, round, next, base, mm, rr, base2, next2
<1> QED BY <1>1, <1>2, <1>3, <1>4, <1>5, RotationAssumption

LEMMA NoTurns ==
  ASSUME NEW size \in Nat \ {0}, NEW i \in 1..size PROVE Turns(0, i, size) = 0
<1>1. 0 \div Rotation = 0 /\ 0 % Rotation = 0
  BY DivisionUnique, RotationAssumption
<1>2. 0 \div size = 0 /\ 0 % size = 0
  BY DivisionUnique
<1> QED BY <1>1, <1>2, RotationAssumption DEF Turns

(* Of two configurations the earlier one is ahead, by at most one interval. *)
LEMMA TurnsEven ==
  ASSUME NEW n \in Nat, NEW size \in Nat \ {0}, NEW i \in 1..size, NEW j \in 1..size, i < j
  PROVE  Turns(n, j, size) <= Turns(n, i, size) /\ Turns(n, i, size) <= Turns(n, j, size) + Rotation
<1> DEFINE m == n \div Rotation
           r == n % Rotation
           next == m % size
           base == Rotation * (m \div size)
<1>1. m \in Nat /\ r \in 0..(Rotation - 1)
  BY DivisionStep, RotationAssumption
<1> HIDE DEF m
<1>2. m \div size \in Nat /\ next \in 0..(size - 1)
  BY <1>1, DivisionStep
<1>3. base \in Nat
  BY <1>2, RotationAssumption
<1>4. /\ Turns(n, i, size) = base + IF i <= next THEN Rotation ELSE IF i = next + 1 THEN r ELSE 0
      /\ Turns(n, j, size) = base + IF j <= next THEN Rotation ELSE IF j = next + 1 THEN r ELSE 0
  BY DEF Turns, m
<1> HIDE DEF r, next, base
<1> QED BY <1>1, <1>2, <1>3, <1>4, RotationAssumption

-----------------------------------------------------------------------------
(* Every set of natural numbers that is not empty has a least element. *)
LEMMA LeastNumber ==
  ASSUME NEW T, T \subseteq Nat, T # {}
  PROVE  \E x \in T : \A y \in T : x <= y
<1> DEFINE R == {ss \in Nat \X Nat : ss[1] < ss[2]}
<1>1. IsWellFoundedOn(R, Nat)
  BY NatLessThanWellFounded DEF OpToRel
<1>2. \A x, y \in Nat : <<y, x>> \in R <=> y < x
  OBVIOUS
<1> HIDE DEF R
<1>3. PICK x \in T : \A y \in T : ~(<<y, x>> \in R)
  BY <1>1, WFMin
<1>4. \A y \in T : ~(y < x) /\ x \in Nat /\ y \in Nat
  BY <1>2, <1>3
<1>5. \A y \in T : x <= y
  BY <1>4
<1> QED BY <1>5

(* The groups an agent collects are numbered without a gap. *)
LEMMA RankOnto ==
  ASSUME NEW a, NEW n \in 1..SizeOf(a)
  PROVE  \E i \in Collectable(a) : Rank(a, i) = n
<1> DEFINE C == Collectable(a)
           UpTo(m) == {j \in C : j <= m}
           T == {m \in 0..Len(Groups) : Cardinality(UpTo(m)) >= n}
<1>1. C \subseteq 1..Len(Groups) /\ Len(Groups) \in Nat
  BY GroupAssumption DEF Collectable
<1>2. IsFiniteSet(C)
  <2>1. IsFiniteSet(1..Len(Groups)) /\ C \in SUBSET (1..Len(Groups))
    BY <1>1, FS_Interval
  <2> HIDE DEF C
  <2> QED BY <2>1, FS_Subset
<1>3. \A m \in 0..Len(Groups) : IsFiniteSet(UpTo(m)) /\ Cardinality(UpTo(m)) \in Nat
  <2> TAKE m \in 0..Len(Groups)
  <2>1. UpTo(m) \in SUBSET C
    OBVIOUS
  <2>2. IsFiniteSet(UpTo(m))
    BY <1>2, <2>1, FS_Subset
  <2> QED BY <2>2, FS_CardinalityType
<1>4. n \in Nat /\ n >= 1 /\ n <= Cardinality(C) /\ Cardinality(C) \in Nat
  BY <1>2, FS_CardinalityType DEF SizeOf
<1>5. Len(Groups) \in T
  <2>1. UpTo(Len(Groups)) = C
    BY <1>1
  <2>2. Cardinality(UpTo(Len(Groups))) >= n
    BY <1>4, <2>1
  <2> QED BY <1>1, <2>2
<1>6. PICK m \in T : \A k \in T : m <= k
  <2>1. T \subseteq 0..Len(Groups)
    OBVIOUS
  <2> HIDE DEF T
  <2>2. T \subseteq Nat
    BY <1>1, <2>1
  <2>3. T # {}
    BY <1>5
  <2> QED BY <2>2, <2>3, LeastNumber
<1>7. m \in 1..Len(Groups)
  <2>1. UpTo(0) = {}
    BY <1>1
  <2>2. Cardinality(UpTo(0)) = 0
    BY <2>1, FS_EmptySet
  <2>3. 0 \notin T
    BY <1>4, <2>2
  <2>4. m \in 0..Len(Groups) /\ m # 0
    BY <1>6, <2>3
  <2> QED BY <1>1, <2>4
<1>8. m - 1 \in 0..Len(Groups) /\ Cardinality(UpTo(m - 1)) < n
  <2>1. m - 1 \in 0..Len(Groups) /\ m \in Nat /\ ~(m <= m - 1)
    BY <1>1, <1>7
  <2>2. m - 1 \notin T
    BY <1>6, <2>1
  <2>3. Cardinality(UpTo(m - 1)) \in Nat /\ ~(Cardinality(UpTo(m - 1)) >= n)
    BY <1>3, <2>1, <2>2
  <2> QED BY <1>4, <2>1, <2>3
<1>9. m \in C
  <2>1. SUFFICES ASSUME m \notin C PROVE FALSE
    OBVIOUS
  <2>2. UpTo(m) = UpTo(m - 1)
    BY <1>1, <1>7, <2>1
  <2> QED BY <1>3, <1>4, <1>6, <1>8, <2>2
<1>10. UpTo(m) = UpTo(m - 1) \cup {m} /\ m \notin UpTo(m - 1)
  BY <1>1, <1>7, <1>9
<1>11. Cardinality(UpTo(m)) = Cardinality(UpTo(m - 1)) + 1
  BY <1>3, <1>8, <1>10, FS_AddElement
<1>12. Cardinality(UpTo(m)) >= n
  BY <1>6
<1>13. Cardinality(UpTo(m)) = n
  <2> DEFINE c == Cardinality(UpTo(m))
             b == Cardinality(UpTo(m - 1))
  <2>1. b \in Nat /\ c = b + 1 /\ b < n /\ c >= n
    BY <1>3, <1>8, <1>11, <1>12
  <2> HIDE DEF b, c
  <2>2. c = n
    BY <1>4, <2>1
  <2> QED BY <2>2 DEF c
<1> QED BY <1>9, <1>13 DEF Rank

(* A configuration has counters, and the agent has them. *)
LEMMA ProfilesTyped ==
  ASSUME NEW a
  PROVE  /\ SizeOf(a) \in Nat /\ Len(ProfilesOf(a)) = SizeOf(a)
         /\ \A n \in 1..SizeOf(a) :
              ProfilesOf(a)[n] # {} /\ ProfilesOf(a)[n] \subseteq Available[a]
<1>1. Collectable(a) \in SUBSET (1..Len(Groups)) /\ Len(Groups) \in Nat
  BY GroupAssumption DEF Collectable
<1>2. SizeOf(a) \in Nat
  <2>1. IsFiniteSet(1..Len(Groups))
    BY <1>1, FS_Interval
  <2>2. IsFiniteSet(Collectable(a))
    BY <1>1, <2>1, FS_Subset
  <2> QED BY <2>2, FS_CardinalityType DEF SizeOf
<1>3. Len(ProfilesOf(a)) = SizeOf(a)
  BY <1>2 DEF ProfilesOf, SizeOf
<1>4. ASSUME NEW n \in 1..SizeOf(a)
      PROVE  ProfilesOf(a)[n] # {} /\ ProfilesOf(a)[n] \subseteq Available[a]
  <2> DEFINE i == CHOOSE x \in Collectable(a) : Rank(a, x) = n
  <2>1. i \in Collectable(a)
    BY RankOnto
  <2>2. ProfilesOf(a)[n] = CountersOf(a, Groups[i])
    BY DEF ProfilesOf, SizeOf
  <2> HIDE DEF i
  <2>3. CountersOf(a, Groups[i]) # {}
    BY <2>1 DEF Collectable
  <2>4. CountersOf(a, Groups[i]) \subseteq Available[a]
    BY DEF CountersOf, Found
  <2> QED BY <2>2, <2>3, <2>4
<1> QED BY <1>2, <1>3, <1>4

(* Comparing the numbers says whether a counter is missing. *)
LEMMA MissingExact ==
  ASSUME NEW a, NEW i \in 1..Len(Groups)
  PROVE  i \in MissingIn(a) <=>
           \E r \in Groups[i] : r.device \in {AnyDevice, GpuIndex[a]} /\ r.name \notin Available[a]
<1> DEFINE g == Groups[i]
           other == OtherDevice(a, g)
           found == Found(a, g)
<1>1. IsFiniteSet(g)
  BY GroupAssumption
<1> HIDE DEF g
<1>2. other \in SUBSET g /\ found \in SUBSET (g \ other)
  BY DEF OtherDevice, Found
<1> HIDE DEF other, found
<1>3. /\ IsFiniteSet(g \ other)
      /\ Cardinality(g \ other) = Cardinality(g) - Cardinality(g \cap other)
  BY <1>1, FS_Difference
<1>4. g \cap other = other
  BY <1>2
<1>5. Expected(a, g) = Cardinality(g \ other)
  BY <1>3, <1>4 DEF Expected, other
<1>6. Cardinality(g \ other) = Cardinality(found) <=> g \ other = found
  BY <1>2, <1>3, FS_Subset
<1>7. i \in MissingIn(a) <=> g \ other # found
  BY <1>5, <1>6 DEF MissingIn, g, found
<1>8. g \ other # found <=>
        \E r \in g : r.device \in {AnyDevice, GpuIndex[a]} /\ r.name \notin Available[a]
  BY DEF other, found, OtherDevice, Found
<1> QED BY <1>7, <1>8 DEF g

-----------------------------------------------------------------------------
LEMMA CounterInvInit == CounterInit => CounterInv
<1> SUFFICES ASSUME CounterInit PROVE CounterInv
  OBVIOUS
<1> USE AgentAssumption DEF CounterInit
<1>1. TargetTypeOK
  BY TargetInvInit DEF TargetInv
<1>2. \A a \in Agent : profiles[a] = <<>> /\ Len(profiles[a]) = 0
  OBVIOUS
<1>3. CounterTypeOK
  <2>1. stage \in [Dispatch -> {"callback", "running", "done"}] /\ current_iter \in [Agent -> Nat]
    OBVIOUS
  <2>2. DOMAIN profiles = Agent /\ \A d \in Dispatch : chosen[d] \in 0..Len(profiles[AgentOf[d]])
    BY <1>2
  <2>3. \A a \in Agent : \A i \in 1..Len(profiles[a]) :
          profiles[a][i] # {} /\ profiles[a][i] \subseteq Available[a]
    BY <1>2
  <2>4. built \in BOOLEAN /\ warned = {} /\ ring = {}
    OBVIOUS
  <2> HIDE DEF CounterInit
  <2> QED BY <1>1, <2>1, <2>2, <2>3, <2>4 DEF CounterTypeOK
<1>4. BuiltInv /\ ChosenInv
  BY DEF BuiltInv, ChosenInv
<1>5. TurnsInv
  <2> SUFFICES ASSUME NEW a \in Agent, NEW i \in 1..SizeOf(a)
               PROVE  /\ IsFiniteSet(UsersOf(a, i))
                      /\ Cardinality(UsersOf(a, i)) = Turns(current_iter[a], i, SizeOf(a))
    BY DEF TurnsInv
  <2>1. UsersOf(a, i) = {}
    BY DEF UsersOf
  <2>2. SizeOf(a) \in Nat \ {0} /\ current_iter[a] = 0
    BY ProfilesTyped
  <2> QED BY <2>1, <2>2, NoTurns, FS_EmptySet
<1> QED BY <1>3, <1>4, <1>5 DEF CounterInv

(* What the choice of a configuration reads and writes, whether or not it is the one
   that has the configurations built. *)
LEMMA ChoiceMade ==
  ASSUME CounterInv, NEW d \in Dispatch, ChooseProfile(d)
  PROVE  LET a == AgentOf[d]
         IN  /\ profiles' = [b \in Agent |-> ProfilesOf(b)]
             /\ warned' = UNION {{b} \X MissingIn(b) : b \in Agent} /\ built'
             /\ current_iter' = [current_iter EXCEPT ![a] = @ + 1]
             /\ chosen' = [chosen EXCEPT ![d] =
                  IF SizeOf(a) = 0 THEN 0 ELSE Position(current_iter[a], SizeOf(a))]
             /\ stage[d] = "callback" /\ stage' = [stage EXCEPT ![d] = "running"]
             /\ UNCHANGED <<targetVars, ring>>
<1> DEFINE a == AgentOf[d]
<1>1. a \in Agent
  BY AgentAssumption
<1>2. /\ profiles' = [b \in Agent |-> ProfilesOf(b)]
      /\ warned' = UNION {{b} \X MissingIn(b) : b \in Agent} /\ built'
  BY DEF ChooseProfile, generate_agent_profiles, CounterInv, BuiltInv
<1>3. profiles'[a] = ProfilesOf(a) /\ Len(ProfilesOf(a)) = SizeOf(a) /\ SizeOf(a) \in Nat
  BY <1>1, <1>2, ProfilesTyped
<1>4. ProfilesOf(a) = <<>> <=> SizeOf(a) = 0
  <2>1. ProfilesOf(a) = [n \in 1..SizeOf(a) |->
          CountersOf(a, Groups[CHOOSE i \in Collectable(a) : Rank(a, i) = n])]
    BY DEF ProfilesOf, SizeOf
  <2>2. SizeOf(a) = 0 => 1..SizeOf(a) = {}
    BY <1>3
  <2>3. SizeOf(a) = 0 => ProfilesOf(a) = <<>>
    BY <2>1, <2>2
  <2> QED BY <1>3, <2>3
<1>5. /\ chosen' = [chosen EXCEPT ![d] =
           IF profiles'[a] = <<>> THEN 0 ELSE Position(current_iter[a], Len(profiles'[a]))]
      /\ current_iter' = [current_iter EXCEPT ![a] = @ + 1]
      /\ stage[d] = "callback" /\ stage' = [stage EXCEPT ![d] = "running"]
      /\ UNCHANGED <<targetVars, ring>>
  BY DEF ChooseProfile
<1>6. (IF profiles'[a] = <<>> THEN 0 ELSE Position(current_iter[a], Len(profiles'[a])))
        = IF SizeOf(a) = 0 THEN 0 ELSE Position(current_iter[a], SizeOf(a))
  BY <1>3, <1>4
<1> QED BY <1>2, <1>5, <1>6

LEMMA ChooseKeeps ==
  ASSUME CounterInv, NEW d \in Dispatch, ChooseProfile(d) PROVE CounterInv'
<1> DEFINE a == AgentOf[d]
           p == IF SizeOf(a) = 0 THEN 0 ELSE Position(current_iter[a], SizeOf(a))
<1>1. /\ profiles' = [b \in Agent |-> ProfilesOf(b)]
      /\ warned' = UNION {{b} \X MissingIn(b) : b \in Agent} /\ built'
      /\ current_iter' = [current_iter EXCEPT ![a] = @ + 1]
      /\ chosen' = [chosen EXCEPT ![d] = p]
      /\ stage[d] = "callback" /\ stage' = [stage EXCEPT ![d] = "running"]
      /\ UNCHANGED <<targetVars, ring>>
  BY ChoiceMade
<1>2. a \in Agent /\ SizeOf(a) \in Nat /\ current_iter \in [Agent -> Nat] /\ chosen[d] = 0
  BY <1>1, AgentAssumption, ProfilesTyped DEF CounterInv, CounterTypeOK, ChosenInv
<1>a. chosen \in [Dispatch -> Nat] /\ chosen'[d] = p
      /\ \A e \in Dispatch \ {d} : chosen'[e] = chosen[e]
  BY <1>1 DEF CounterInv, ChosenInv
<1>3. p \in 0..SizeOf(a)
  <2>1. CASE SizeOf(a) = 0
    BY <2>1
  <2>2. CASE SizeOf(a) # 0
    <3>1. current_iter[a] \in Nat /\ SizeOf(a) \in Nat \ {0} /\ 1 \in 1..SizeOf(a)
      BY <1>2, <2>2
    <3>2. Position(current_iter[a], SizeOf(a)) \in 1..SizeOf(a)
      BY <3>1, TurnStep
    <3> QED BY <2>2, <3>1, <3>2
  <2> QED BY <2>1, <2>2
<1> HIDE DEF p
<1>4. CounterTypeOK'
  <2>1. TargetTypeOK'
    BY <1>1 DEF CounterInv, CounterTypeOK, TargetTypeOK, targetVars
  <2>2. /\ stage' \in [Dispatch -> {"callback", "running", "done"}]
        /\ current_iter' \in [Agent -> Nat]
    BY <1>1, <1>2 DEF CounterInv, CounterTypeOK
  <2>3. \A b \in Agent : \A i \in 1..Len(profiles'[b]) :
          profiles'[b][i] # {} /\ profiles'[b][i] \subseteq Available[b]
    BY <1>1, ProfilesTyped
  <2>4. warned' \subseteq Agent \X (1..Len(Groups))
    BY <1>1 DEF MissingIn
  <2>5. ASSUME NEW e \in Dispatch PROVE chosen'[e] \in 0..Len(profiles'[AgentOf[e]])
    <3>1. AgentOf[e] \in Agent /\ Len(profiles'[AgentOf[e]]) = SizeOf(AgentOf[e])
      BY <1>1, AgentAssumption, ProfilesTyped
    <3>2. CASE e = d
      BY <1>a, <1>3, <3>1, <3>2
    <3>3. CASE e # d
      <4>1. chosen'[e] = chosen[e] /\ chosen[e] \in 0..Len(profiles[AgentOf[e]])
        BY <1>a, <3>3 DEF CounterInv, CounterTypeOK
      <4>2. Len(profiles[AgentOf[e]]) \in {0, SizeOf(AgentOf[e])}
        BY <3>1, ProfilesTyped DEF CounterInv, BuiltInv
      <4>3. SizeOf(AgentOf[e]) \in Nat
        BY ProfilesTyped
      <4> QED BY <3>1, <4>1, <4>2, <4>3
    <3> QED BY <3>2, <3>3
  <2> QED BY <1>1, <2>1, <2>2, <2>3, <2>4, <2>5 DEF CounterInv, CounterTypeOK
<1>5. BuiltInv'
  BY <1>1 DEF BuiltInv
<1>6. ChosenInv'
  <2>1. chosen' \in [Dispatch -> Nat]
    BY <1>1, <1>2, <1>3, <1>a
  <2>2. \A e \in Dispatch : stage'[e] = "callback" => e # d /\ stage[e] = "callback"
    BY <1>1 DEF CounterInv, CounterTypeOK
  <2> QED BY <1>a, <2>1, <2>2 DEF CounterInv, ChosenInv
<1>7. TurnsInv'
  <2> SUFFICES ASSUME NEW b \in Agent, NEW i \in 1..SizeOf(b)
               PROVE  /\ IsFiniteSet(UsersOf(b, i)')
                      /\ Cardinality(UsersOf(b, i)') = Turns(current_iter'[b], i, SizeOf(b))
    BY DEF TurnsInv
  <2>1. IsFiniteSet(UsersOf(b, i)) /\ Cardinality(UsersOf(b, i)) = Turns(current_iter[b], i, SizeOf(b))
    BY DEF CounterInv, TurnsInv
  <2>2. SizeOf(b) \in Nat \ {0} /\ current_iter[b] \in Nat /\ current_iter[a] \in Nat
    BY <1>2, ProfilesTyped
  <2>3. CASE b = a /\ i = p
    <3>1. UsersOf(b, i)' = UsersOf(b, i) \cup {d} /\ d \notin UsersOf(b, i)
      <4>1. i # 0
        BY <2>2
      <4>2. \A e \in Dispatch : chosen'[e] = i <=> chosen[e] = i \/ e = d
        BY <1>a, <2>3
      <4> QED BY <1>2, <2>3, <4>1, <4>2 DEF UsersOf
    <3>2. Turns(current_iter[b] + 1, i, SizeOf(b)) = Turns(current_iter[b], i, SizeOf(b)) + 1
      BY <2>2, <2>3, TurnStep DEF p
    <3>3. current_iter'[b] = current_iter[b] + 1
      BY <1>1, <1>2, <2>3
    <3> QED BY <2>1, <3>1, <3>2, <3>3, FS_AddElement
  <2>4. CASE b = a /\ i # p
    <3>1. UsersOf(b, i)' = UsersOf(b, i)
      <4>1. i # 0
        BY <2>2
      <4>2. \A e \in Dispatch : chosen'[e] = i <=> chosen[e] = i
        BY <1>2, <1>a, <2>4, <4>1
      <4> QED BY <4>2 DEF UsersOf
    <3>2. p = Position(current_iter[b], SizeOf(b))
      BY <2>2, <2>4 DEF p
    <3>3. /\ Turns(current_iter[b], i, SizeOf(b)) \in Nat
          /\ Turns(current_iter[b] + 1, i, SizeOf(b)) = Turns(current_iter[b], i, SizeOf(b)) + 0
      BY <2>2, <2>4, <3>2, TurnStep
    <3>4. current_iter'[b] = current_iter[b] + 1
      BY <1>1, <1>2, <2>4
    <3> QED BY <2>1, <3>1, <3>3, <3>4
  <2>5. CASE b # a
    <3>1. UsersOf(b, i)' = UsersOf(b, i)
      BY <1>2, <1>a, <2>5 DEF UsersOf
    <3>2. current_iter'[b] = current_iter[b]
      BY <1>1, <1>2, <2>5
    <3> QED BY <2>1, <3>1, <3>2
  <2> QED BY <2>3, <2>4, <2>5
<1> QED BY <1>4, <1>5, <1>6, <1>7 DEF CounterInv

LEMMA CounterKept ==
  ASSUME CounterInv, TargetTypeOK',
         UNCHANGED <<current_iter, profiles, built, warned, chosen>>,
         stage' \in [Dispatch -> {"callback", "running", "done"}],
         \A d \in Dispatch : stage'[d] = "callback" => stage[d] = "callback",
         \A r \in ring' : r.dispatch \in Dispatch /\ r.counters \subseteq Available[AgentOf[r.dispatch]]
  PROVE  CounterInv'
<1>1. CounterTypeOK'
  BY DEF CounterInv, CounterTypeOK
<1>2. BuiltInv' /\ ChosenInv'
  BY DEF CounterInv, BuiltInv, ChosenInv
<1>3. TurnsInv'
  BY DEF CounterInv, TurnsInv, UsersOf
<1> QED BY <1>1, <1>2, <1>3 DEF CounterInv

LEMMA CounterInvStep == CounterInv /\ TargetInv /\ [CounterNext]_allVars => CounterInv'
<1> SUFFICES ASSUME CounterInv, TargetInv, [CounterNext]_allVars PROVE CounterInv'
  OBVIOUS
<1>1. /\ stage \in [Dispatch -> {"callback", "running", "done"}]
      /\ \A r \in ring : r.dispatch \in Dispatch /\ r.counters \subseteq Available[AgentOf[r.dispatch]]
      /\ TargetTypeOK
  BY DEF CounterInv, CounterTypeOK
<1>2. CASE TargetingStep
  <2>1. TargetTypeOK'
    BY <1>2, TargetInvStep DEF TargetingStep, TargetInv
  <2> QED BY <1>1, <1>2, <2>1, CounterKept DEF TargetingStep, counterVars
<1>3. ASSUME NEW d \in Dispatch, SkipDispatch(d) PROVE CounterInv'
  <2>1. TargetTypeOK'
    BY <1>1, <1>3 DEF SkipDispatch, targetVars, TargetTypeOK
  <2> QED BY <1>1, <1>3, <2>1, CounterKept DEF SkipDispatch
<1>4. ASSUME NEW d \in Dispatch, counter_record_callback(d) PROVE CounterInv'
  <2>1. TargetTypeOK'
    BY <1>1, <1>4 DEF counter_record_callback, targetVars, TargetTypeOK
  <2>2. AgentOf[d] \in Agent /\ chosen[d] \in 1..Len(profiles[AgentOf[d]])
    <3>1. chosen[d] # 0 /\ AgentOf[d] \in Agent
      BY <1>4, AgentAssumption DEF counter_record_callback
    <3>2. chosen[d] \in 0..Len(profiles[AgentOf[d]])
      BY DEF CounterInv, CounterTypeOK
    <3>3. Len(profiles[AgentOf[d]]) \in Nat
      BY <3>1, ProfilesTyped DEF CounterInv, BuiltInv
    <3> QED BY <3>1, <3>2, <3>3
  <2>3. profiles[AgentOf[d]][chosen[d]] \subseteq Available[AgentOf[d]]
    BY <2>2 DEF CounterInv, CounterTypeOK
  <2>4. \A r \in ring' : r.dispatch \in Dispatch /\ r.counters \subseteq Available[AgentOf[r.dispatch]]
    BY <1>1, <1>4, <2>3 DEF counter_record_callback
  <2> QED BY <1>1, <1>4, <2>1, <2>4, CounterKept DEF counter_record_callback
<1>5. CASE UNCHANGED allVars
  <2>1. TargetTypeOK'
    BY <1>1, <1>5 DEF allVars, targetVars, TargetTypeOK
  <2> QED BY <1>1, <1>5, <2>1, CounterKept DEF allVars, counterVars
<1> QED BY <1>2, <1>3, <1>4, <1>5, ChooseKeeps DEF CounterNext, counter_dispatch_callback

-----------------------------------------------------------------------------
LEMMA CounterStepIsTargetStep == [CounterNext]_allVars => [TargetNext]_targetVars
  BY DEF CounterNext, allVars, TargetingStep, counter_dispatch_callback, SkipDispatch,
         ChooseProfile, counter_record_callback

(***************************************************************************)
(* Counter collection calls is_targeted_kernel as it is: its behaviours    *)
(* are behaviours of KernelTarget, so the counts stay exact, the range is  *)
(* respected and serial calls are judged exactly.                          *)
(***************************************************************************)
THEOREM CountersUseTargeting ==
  CounterSpec => TargetSpec /\ [](TicketsExact /\ RangeRespected /\ SerialCallsExact)
<1>1. CounterSpec => TargetSpec
  BY CounterStepIsTargetStep, PTL DEF CounterSpec, CounterInit, TargetSpec
<1> QED BY <1>1, TargetTickets, TargetRange, TargetSerial, PTL

LEMMA CounterInvariant == CounterSpec => []CounterInv
<1>1. CounterSpec => []TargetInv
  BY CountersUseTargeting, TargetInvariant, PTL
<1> QED BY <1>1, CounterInvInit, CounterInvStep, PTL DEF CounterSpec

(* The variables of counter collection keep their types; a configuration that is used has
   counters, and its records hold counters of the dispatch's agent. *)
THEOREM CounterTyping == CounterSpec => []CounterTypeOK
<1>1. CounterInv => CounterTypeOK
  BY DEF CounterInv
<1> QED BY <1>1, CounterInvariant, PTL

(***************************************************************************)
(* The groups take turns, for any number of groups, any interval and       *)
(* however the callbacks interleave.                                       *)
(***************************************************************************)
THEOREM GroupsRotate == CounterSpec => []GroupsTakeTurns
<1>1. CounterInv => GroupsTakeTurns
  <2> SUFFICES ASSUME CounterInv, NEW a \in Agent, NEW i \in 1..Len(profiles[a]),
                      NEW j \in 1..Len(profiles[a]), i < j
               PROVE  Uses(a, j) <= Uses(a, i) /\ Uses(a, i) <= Uses(a, j) + Rotation
    BY DEF GroupsTakeTurns
  <2>1. CASE ~built
    <3>1. Len(profiles[a]) = 0
      BY <2>1 DEF CounterInv, BuiltInv
    <3> QED BY <3>1
  <2>2. CASE built
    <3>1. Len(profiles[a]) = SizeOf(a) /\ SizeOf(a) \in Nat
      BY <2>2, ProfilesTyped DEF CounterInv, BuiltInv
    <3>2. SizeOf(a) \in Nat \ {0} /\ i \in 1..SizeOf(a) /\ j \in 1..SizeOf(a)
          /\ current_iter[a] \in Nat
      BY <3>1 DEF CounterInv, CounterTypeOK
    <3>3. /\ Uses(a, i) = Turns(current_iter[a], i, SizeOf(a))
          /\ Uses(a, j) = Turns(current_iter[a], j, SizeOf(a))
      BY <3>2 DEF CounterInv, TurnsInv, Uses, UsersOf
    <3> QED BY <3>2, <3>3, TurnsEven
  <2> QED BY <2>1, <2>2
<1> QED BY <1>1, CounterInvariant, PTL

(***************************************************************************)
(* The warning about missing counters is given exactly where one is        *)
(* missing, for groups of any size with any mix of device qualifiers.      *)
(***************************************************************************)
THEOREM MissingAreWarned == CounterSpec => []MissingCountersWarned
<1>1. CounterInv => MissingCountersWarned
  <2> SUFFICES ASSUME CounterInv, built, NEW a \in Agent, NEW i \in 1..Len(Groups)
               PROVE  <<a, i>> \in warned <=>
                        \E r \in Groups[i] : /\ r.device \in {AnyDevice, GpuIndex[a]}
                                             /\ r.name \notin Available[a]
    BY DEF MissingCountersWarned
  <2>1. <<a, i>> \in warned <=> i \in MissingIn(a)
    BY DEF CounterInv, BuiltInv
  <2> QED BY <2>1, MissingExact
<1> QED BY <1>1, CounterInvariant, PTL
=============================================================================
