-------------------------- MODULE RangeRenameProofs --------------------------
(***************************************************************************)
(* RangeRename's invariants for every set of threads, streams, agents and  *)
(* configurations.  What it takes: the contexts and services are those of  *)
(* the configuration, and the client context is active exactly while       *)
(* recording is wanted; a stack of regions is the list of the regions that *)
(* are live, in the order they were opened, its upper part as long as      *)
(* ranges are open; and a struct says of its launch what the thread's      *)
(* stacks said then, there is one for a launch and a context, and it is    *)
(* there as long as a record with its address is pending.                  *)
(***************************************************************************)
EXTENDS RangeRename, FiniteSetTheorems, SequenceTheorems, WellFoundedInduction, TLAPS

Events == Seq([op : {"mark", "push", "pop"}, named : BOOLEAN])

Count(l, i, op) == Cardinality({j \in 1 .. i : l[j].op = op})

(* Ranges that are open. *)
Open(l) == Depth(l, Len(l))

-----------------------------------------------------------------------------
(* One more event is one more of its sort. *)
LEMMA CountStep ==
  ASSUME NEW l \in Events, NEW i \in Nat, NEW op
  PROVE  /\ Count(l, i, op) \in Nat
         /\ Count(l, i + 1, op) = IF l[i + 1].op = op THEN Count(l, i, op) + 1
                                                      ELSE Count(l, i, op)
<1> DEFINE S(n) == {j \in 1 .. n : l[j].op = op}
<1>1. IsFiniteSet(S(i))
  <2>1. IsFiniteSet(1 .. i)
    BY FS_Interval
  <2>2. S(i) \in SUBSET (1 .. i)
    OBVIOUS
  <2> HIDE DEF S
  <2> QED BY <2>1, <2>2, FS_Subset
<1>2. Cardinality(S(i)) \in Nat
  BY <1>1, FS_CardinalityType
<1>3. 1 .. i + 1 = (1 .. i) \cup {i + 1} /\ i + 1 \notin 1 .. i
  OBVIOUS
<1>4. CASE l[i + 1].op = op
  <2>1. S(i + 1) = S(i) \cup {i + 1} /\ i + 1 \notin S(i)
    BY <1>3, <1>4
  <2>2. Cardinality(S(i + 1)) = Cardinality(S(i)) + 1
    <3> HIDE DEF S
    <3> QED BY <1>1, <2>1, FS_AddElement
  <2> QED BY <1>2, <1>4, <2>2 DEF Count
<1>5. CASE l[i + 1].op # op
  <2>1. S(i + 1) = S(i)
    BY <1>3, <1>5
  <2> QED BY <1>2, <1>5, <2>1 DEF Count
<1> QED BY <1>4, <1>5

(* A depth is a number, 0 before the first event. *)
LEMMA DepthNumber ==
  ASSUME NEW l \in Events
  PROVE  Depth(l, 0) = 0 /\ \A i \in Nat : Depth(l, i) \in Int
<1>1. \A i \in Nat : Depth(l, i) \in Int
  <2>1. \A i \in Nat, op \in {"push", "pop"} : Count(l, i, op) \in Nat
    BY CountStep
  <2> QED BY <2>1 DEF Depth, Count
<1>2. \A op : {j \in 1 .. 0 : l[j].op = op} = {}
  OBVIOUS
<1>3. Depth(l, 0) = 0
  BY <1>2, FS_EmptySet DEF Depth
<1> QED BY <1>1, <1>3

(* An event at the end changes no earlier depth ... *)
LEMMA DepthPrefix ==
  ASSUME NEW l \in Events, NEW op \in {"mark", "push", "pop"}, NEW named \in BOOLEAN,
         NEW i \in 0 .. Len(l)
  PROVE  Depth(Append(l, [op |-> op, named |-> named]), i) = Depth(l, i)
<1> DEFINE e == [op |-> op, named |-> named]
<1>1. \A j \in 1 .. i : Append(l, e)[j] = l[j]
  BY DEF Events
<1> HIDE DEF e
<1>2. \A o : {j \in 1 .. i : Append(l, e)[j].op = o} = {j \in 1 .. i : l[j].op = o}
  BY <1>1
<1> QED BY <1>2 DEF Depth, e

(* ... and has a depth of its own. *)
LEMMA DepthStep ==
  ASSUME NEW l \in Events, NEW op \in {"mark", "push", "pop"}, NEW named \in BOOLEAN
  PROVE  LET m == Append(l, [op |-> op, named |-> named])
         IN  /\ m \in Events /\ Len(m) = Len(l) + 1
             /\ m[Len(m)] = [op |-> op, named |-> named]
             /\ \A i \in 1 .. Len(l) : m[i] = l[i]
             /\ op = "mark" => Open(m) = Open(l)
             /\ op = "push" => Open(m) = Open(l) + 1
             /\ op = "pop" => Open(m) = Open(l) - 1
<1> DEFINE e == [op |-> op, named |-> named]
           m == Append(l, e)
           n == Len(l)
<1>1. m \in Events /\ Len(m) = n + 1 /\ m[n + 1] = e /\ n \in Nat /\ e.op = op
  BY DEF Events
<1>2. \A i \in 1 .. n : m[i] = l[i]
  BY DEF Events
<1>3. Depth(m, n) = Depth(l, n)
  BY <1>1, DepthPrefix
<1>4. Depth(m, n + 1) = Count(m, n + 1, "push") - Count(m, n + 1, "pop")
  BY DEF Depth, Count
<1>5. Depth(m, n) = Count(m, n, "push") - Count(m, n, "pop")
  BY DEF Depth, Count
<1>6. \A o : /\ Count(m, n, o) \in Nat
             /\ Count(m, n + 1, o) = IF op = o THEN Count(m, n, o) + 1 ELSE Count(m, n, o)
  <2> HIDE DEF m
  <2> QED BY <1>1, CountStep
<1>7. Open(m) = Depth(m, n + 1) /\ Open(l) = Depth(m, n)
  BY <1>1, <1>3 DEF Open
<1> HIDE DEF m, n
<1>8. /\ Count(m, n, "push") \in Nat /\ Count(m, n, "pop") \in Nat
      /\ Count(m, n + 1, "push") = IF op = "push" THEN Count(m, n, "push") + 1
                                                  ELSE Count(m, n, "push")
      /\ Count(m, n + 1, "pop") = IF op = "pop" THEN Count(m, n, "pop") + 1
                                                ELSE Count(m, n, "pop")
  BY <1>6
<1>9. /\ op = "mark" => Open(m) = Open(l)
      /\ op = "push" => Open(m) = Open(l) + 1
      /\ op = "pop" => Open(m) = Open(l) - 1
  BY <1>4, <1>5, <1>7, <1>8
<1> QED BY <1>1, <1>2, <1>9 DEF m, n

-----------------------------------------------------------------------------
(* What is live is an event. *)
LEMMA LiveRange ==
  ASSUME NEW l \in Events
  PROVE  /\ Len(l) \in Nat /\ Live(l) \subseteq 1 .. Len(l)
         /\ \A i \in Live(l) : l[i].op = "mark" \/ (l[i].op = "push" /\ Depth(l, i) <= Open(l))
<1>1. Len(l) \in Nat /\ DOMAIN l = 1 .. Len(l)
  BY DEF Events
<1>2. \A i \in 1 .. Len(l) : Len(l) \in i .. Len(l)
  BY <1>1
<1>3. \A i \in Nat : Depth(l, i) \in Int
  BY DepthNumber
<1> QED BY <1>1, <1>2, <1>3 DEF Live, Open

(* What stays live as an event is added, and whether the event is. *)
LEMMA LiveStep ==
  ASSUME NEW l \in Events, NEW op \in {"mark", "push", "pop"}, NEW named \in BOOLEAN
  PROVE  LET m == Append(l, [op |-> op, named |-> named])
         IN  /\ \A i \in 1 .. Len(l) :
                  i \in Live(m) <=> i \in Live(l) /\ (l[i].op = "push" => Depth(l, i) <= Open(m))
             /\ Len(m) \in Live(m) <=> (op = "mark" /\ named) \/ op = "push"
<1> DEFINE m == Append(l, [op |-> op, named |-> named])
           n == Len(l)
<1>1. /\ m \in Events /\ Len(m) = n + 1 /\ m[n + 1] = [op |-> op, named |-> named]
      /\ \A i \in 1 .. n : m[i] = l[i]
  <2>1. Len(m) = n + 1 /\ m[Len(m)] = [op |-> op, named |-> named]
    BY DepthStep
  <2> QED BY <2>1, DepthStep
<1>2. n \in Nat /\ DOMAIN l = 1 .. n /\ DOMAIN m = 1 .. n + 1
  BY <1>1 DEF Events
<1>3. \A i \in 0 .. n : Depth(m, i) = Depth(l, i)
  BY DepthPrefix
<1>4. Open(m) = Depth(m, n + 1)
  BY <1>1 DEF Open
<1>5. \A i \in Nat : Depth(l, i) \in Int /\ Depth(m, i) \in Int
  BY <1>1, DepthNumber
<1> HIDE DEF m, n
<1>6. ASSUME NEW i \in 1 .. n
      PROVE  i \in Live(m) <=> i \in Live(l) /\ (l[i].op = "push" => Depth(l, i) <= Open(m))
  <2>1. i .. n + 1 = (i .. n) \cup {n + 1} /\ i \in 1 .. n + 1
    BY <1>2
  <2>2. \A j \in i .. n : j \in 0 .. n
    BY <1>2
  <2>3. i \in 0 .. n /\ i \in Nat /\ n + 1 \in Nat
    BY <1>2
  <2>4. Depth(m, i) = Depth(l, i) /\ Depth(l, i) \in Int /\ Open(m) \in Int
    BY <1>3, <1>4, <1>5, <2>3
  <2>5. (\A j \in i .. n + 1 : Depth(m, j) >= Depth(m, i))
        <=> (\A j \in i .. n : Depth(l, j) >= Depth(l, i)) /\ Depth(l, i) <= Open(m)
    BY <1>3, <1>4, <2>1, <2>2, <2>4
  <2>6. m[i] = l[i]
    BY <1>1
  <2>7. i \in Live(m) <=> \/ l[i].op = "mark" /\ l[i].named
                          \/ l[i].op = "push" /\ \A j \in i .. n + 1 : Depth(m, j) >= Depth(m, i)
    BY <1>1, <1>2, <2>1, <2>6 DEF Live
  <2>8. i \in Live(l) <=> \/ l[i].op = "mark" /\ l[i].named
                          \/ l[i].op = "push" /\ \A j \in i .. n : Depth(l, j) >= Depth(l, i)
    BY <1>2 DEF Live, n
  <2> QED BY <2>5, <2>7, <2>8
<1>7. n + 1 \in Live(m) <=> (op = "mark" /\ named) \/ op = "push"
  <2>1. \A j \in n + 1 .. n + 1 : j = n + 1
    BY <1>2
  <2>2. Depth(m, n + 1) \in Int
    BY <1>2, <1>5
  <2>3. n + 1 \in DOMAIN m
    BY <1>2
  <2>4. n + 1 \in Live(m) <=> \/ m[n + 1].op = "mark" /\ m[n + 1].named
                              \/ /\ m[n + 1].op = "push"
                                 /\ \A j \in n + 1 .. n + 1 : Depth(m, j) >= Depth(m, n + 1)
    BY <1>1, <2>3 DEF Live
  <2>5. m[n + 1].op = op /\ m[n + 1].named = named
    BY <1>1
  <2> QED BY <2>1, <2>2, <2>4, <2>5
<1> QED BY <1>1, <1>6, <1>7 DEF m, n

(* Ranges with a name. *)
AllNamed(l) == \A i \in DOMAIN l : l[i].op = "push" => l[i].named

(* A program stays plain as far as it was. *)
LEMMA PlainStep ==
  ASSUME NEW l \in Events, NEW op \in {"mark", "push", "pop"}, NEW named \in BOOLEAN
  PROVE  LET m == Append(l, [op |-> op, named |-> named])
         IN  /\ AllNamed(m) => AllNamed(l) /\ (op = "push" => named)
             /\ Plain(m) => /\ AllNamed(m) /\ Plain(l)
                            /\ op = "mark" => Open(l) = 0
<1> DEFINE m == Append(l, [op |-> op, named |-> named])
           n == Len(l)
<1>1. /\ m \in Events /\ Len(m) = n + 1 /\ m[n + 1] = [op |-> op, named |-> named]
      /\ \A i \in 1 .. n : m[i] = l[i]
      /\ op = "mark" => Open(m) = Open(l)
  <2>1. Len(m) = n + 1 /\ m[Len(m)] = [op |-> op, named |-> named]
    BY DepthStep
  <2> QED BY <2>1, DepthStep
<1>2. n \in Nat /\ DOMAIN l = 1 .. n /\ DOMAIN m = 1 .. n + 1
  BY <1>1 DEF Events
<1>3. \A i \in 0 .. n : Depth(m, i) = Depth(l, i)
  BY DepthPrefix
<1>4. Open(m) = Depth(m, n + 1)
  BY <1>1 DEF Open
<1> HIDE DEF m, n
<1>5. /\ \A i \in 1 .. n : i \in DOMAIN m /\ i \in 0 .. n
      /\ n + 1 \in DOMAIN m
  BY <1>2
<1>6. m[n + 1].op = op /\ m[n + 1].named = named
  BY <1>1
<1>7. AllNamed(m) => AllNamed(l) /\ (op = "push" => named)
  BY <1>1, <1>2, <1>5, <1>6 DEF AllNamed
<1>8. Plain(m) => AllNamed(m)
  BY DEF Plain, AllNamed
<1>9. Plain(m) => Plain(l)
  BY <1>1, <1>2, <1>3, <1>5 DEF Plain
<1>10. Plain(m) /\ op = "mark" => Open(l) = 0
  BY <1>1, <1>4, <1>5, <1>6 DEF Plain
<1> QED BY <1>7, <1>8, <1>9, <1>10 DEF m, n

-----------------------------------------------------------------------------
(* The stack of a thread is the list of what is live; what is on it above the marks are
   the ranges that are open. *)
Stacked(t, s, l) ==
  /\ Open(l) <= Len(s)
  /\ \A k \in 1 .. Len(s) :
       /\ s[k] = <<t, s[k][2]>> /\ s[k][2] \in Live(l)
       /\ \A j \in 1 .. k - 1 : s[j][2] < s[k][2]
       /\ k <= Len(s) - Open(l) => l[s[k][2]].op = "mark"
       /\ k > Len(s) - Open(l) => /\ l[s[k][2]].op = "push"
                                  /\ Depth(l, s[k][2]) = k - (Len(s) - Open(l))
  /\ \A i \in Live(l) : \E k \in 1 .. Len(s) : s[k][2] = i

(* A range or a named mark goes on top. *)
LEMMA StackedPush ==
  ASSUME NEW t \in Thread, NEW s \in Seq(Thread \X Nat), NEW l \in Events, Stacked(t, s, l),
         Open(l) \in Nat, NEW op \in {"mark", "push"}, NEW named \in BOOLEAN, named,
         Plain(Append(l, [op |-> op, named |-> named]))
  PROVE  Stacked(t, Append(s, <<t, Len(l) + 1>>), Append(l, [op |-> op, named |-> named]))
<1> DEFINE m == Append(l, [op |-> op, named |-> named])
           n == Len(l)
           u == Append(s, <<t, n + 1>>)
           up == IF op = "push" THEN 1 ELSE 0
<1>0. op \in {"mark", "push", "pop"}
  OBVIOUS
<1>1. /\ m \in Events /\ Len(m) = n + 1 /\ m[n + 1].op = op
      /\ \A i \in 1 .. n : m[i] = l[i]
      /\ Open(m) = Open(l) + up
  <2>1. Len(m) = n + 1 /\ m[Len(m)] = [op |-> op, named |-> named]
    BY <1>0, DepthStep
  <2>2. /\ op = "mark" => Open(m) = Open(l)
        /\ op = "push" => Open(m) = Open(l) + 1
    BY <1>0, DepthStep
  <2>3. Open(m) = Open(l) + up
    <3> HIDE DEF m
    <3> QED BY <2>2
  <2>4. m \in Events /\ \A i \in 1 .. n : m[i] = l[i]
    BY <1>0, DepthStep
  <2> HIDE DEF m
  <2> QED BY <2>1, <2>3, <2>4
<1>2. op = "mark" => Open(l) = 0
  BY <1>0, PlainStep
<1>3. /\ n \in Nat /\ Live(l) \subseteq 1 .. n
      /\ \A i \in Live(l) : l[i].op = "mark" \/ (l[i].op = "push" /\ Depth(l, i) <= Open(l))
  BY LiveRange
<1>4. \A i \in 0 .. n : Depth(m, i) = Depth(l, i) /\ Depth(l, i) \in Int
  <2>1. \A i \in 0 .. n : Depth(m, i) = Depth(l, i)
    BY <1>0, DepthPrefix
  <2>2. \A i \in 0 .. n : i \in Nat
    BY <1>3
  <2> QED BY <2>1, <2>2, DepthNumber
<1>5. Live(m) = Live(l) \cup {n + 1}
  <2>1. \A i \in 1 .. n :
          i \in Live(m) <=> i \in Live(l) /\ (l[i].op = "push" => Depth(l, i) <= Open(m))
    BY <1>0, LiveStep
  <2>2. n + 1 \in Live(m)
    <3>1. Len(m) \in Live(m) <=> (op = "mark" /\ named) \/ op = "push"
      BY <1>0, LiveStep
    <3> QED BY <1>1, <3>1
  <2>3. Live(m) \subseteq 1 .. n + 1
    BY <1>1, LiveRange
  <2>4. \A i \in Live(l) : l[i].op = "push" => Depth(l, i) <= Open(m)
    <3>1. \A i \in Live(l) : i \in 0 .. n
      BY <1>3
    <3>2. Open(m) \in Int /\ Open(l) <= Open(m)
      BY <1>1
    <3> HIDE DEF m, n, up
    <3> QED BY <1>3, <1>4, <3>1, <3>2
  <2>5. \A i \in 1 .. n : i \in Live(m) <=> i \in Live(l)
    BY <2>1, <2>4
  <2> HIDE DEF m, n
  <2> QED BY <1>3, <2>2, <2>3, <2>5
<1>6. /\ Len(u) = Len(s) + 1 /\ Len(s) \in Nat /\ u[Len(s) + 1] = <<t, n + 1>>
      /\ \A k \in 1 .. Len(s) : u[k] = s[k]
  <2>1. <<t, n + 1>> \in Thread \X Nat
    BY <1>3
  <2> HIDE DEF n
  <2> QED BY <2>1
<1>7. Depth(m, n + 1) = Open(m)
  BY <1>1 DEF Open
<1>8. \A k \in 1 .. Len(s) : s[k][2] \in 1 .. n /\ s[k][2] \in 0 .. n
  BY <1>3 DEF Stacked
<1> HIDE DEF m, n, u
<1>9. Len(u) - Open(m) = Len(s) - Open(l) + (1 - up) /\ Open(m) \in Nat
  <2>1. up \in {0, 1}
    OBVIOUS
  <2> HIDE DEF up
  <2> QED BY <1>1, <1>6, <2>1
<1>10. ASSUME NEW k \in 1 .. Len(u)
       PROVE  /\ u[k] = <<t, u[k][2]>> /\ u[k][2] \in Live(m)
              /\ \A j \in 1 .. k - 1 : u[j][2] < u[k][2]
              /\ k <= Len(u) - Open(m) => m[u[k][2]].op = "mark"
              /\ k > Len(u) - Open(m) => /\ m[u[k][2]].op = "push"
                                         /\ Depth(m, u[k][2]) = k - (Len(u) - Open(m))
  <2>1. CASE k = Len(s) + 1
    <3>1. u[k] = <<t, n + 1>> /\ u[k][2] = n + 1
      BY <1>6, <2>1
    <3>2. \A j \in 1 .. k - 1 : u[j][2] < u[k][2]
      <4>1. \A j \in 1 .. k - 1 : j \in 1 .. Len(s)
        BY <1>6, <2>1
      <4> QED BY <1>3, <1>6, <1>8, <3>1, <4>1
    <3>3. CASE op = "push"
      <4>1. k > Len(u) - Open(m) /\ k - (Len(u) - Open(m)) = Open(m)
        BY <1>1, <1>6, <1>9, <2>1, <3>3
      <4> QED BY <1>1, <1>5, <1>7, <1>6, <1>9, <3>1, <3>2, <3>3, <4>1
    <3>4. CASE op = "mark"
      <4>1. k <= Len(u) - Open(m) /\ ~(k > Len(u) - Open(m))
        BY <1>1, <1>2, <1>6, <2>1, <3>4
      <4> QED BY <1>1, <1>5, <3>1, <3>2, <3>4, <4>1
    <3> QED BY <3>3, <3>4
  <2>2. CASE k # Len(s) + 1
    <3>1. k \in 1 .. Len(s) /\ u[k] = s[k]
      BY <1>6, <2>2
    <3>2. \A j \in 1 .. k - 1 : u[j] = s[j]
      BY <1>6, <3>1
    <3>3. m[u[k][2]] = l[s[k][2]] /\ Depth(m, u[k][2]) = Depth(l, s[k][2])
      BY <1>1, <1>4, <1>8, <3>1
    <3>4. CASE op = "push"
      <4>1. Len(u) - Open(m) = Len(s) - Open(l)
        BY <1>6, <1>9, <3>4
      <4> QED BY <1>5, <3>1, <3>2, <3>3, <4>1 DEF Stacked
    <3>5. CASE op = "mark"
      <4>1. Open(l) = 0 /\ Len(s) - Open(l) = Len(s) /\ Len(u) - Open(m) = Len(s) + 1
        BY <1>1, <1>2, <1>6, <3>5
      <4>2. k <= Len(s) - Open(l) /\ ~(k > Len(u) - Open(m))
        BY <1>6, <3>1, <4>1
      <4> QED BY <1>5, <3>1, <3>2, <3>3, <4>2 DEF Stacked
    <3> QED BY <3>4, <3>5
  <2> QED BY <2>1, <2>2
<1>11. \A i \in Live(m) : \E k \in 1 .. Len(u) : u[k][2] = i
  <2>1. ASSUME NEW i \in Live(m)
        PROVE  \E k \in 1 .. Len(u) : u[k][2] = i
    <3>1. CASE i = n + 1
      <4>1. Len(s) + 1 \in 1 .. Len(u) /\ u[Len(s) + 1][2] = n + 1
        BY <1>6
      <4> QED BY <3>1, <4>1
    <3>2. CASE i \in Live(l)
      <4>1. PICK k \in 1 .. Len(s) : s[k][2] = i
        BY <3>2 DEF Stacked
      <4>2. k \in 1 .. Len(u) /\ u[k] = s[k]
        BY <1>6
      <4> QED BY <4>1, <4>2
    <3> QED BY <1>5, <3>1, <3>2
  <2> QED BY <2>1
<1>12. Open(m) <= Len(u)
  <2>1. Open(l) <= Len(s)
    BY DEF Stacked
  <2> QED BY <1>1, <1>6, <2>1
<1>13. Stacked(t, u, m)
  BY <1>10, <1>11, <1>12 DEF Stacked
<1> QED BY <1>13 DEF u, m, n

(* A mark without a message leaves the stack alone. *)
LEMMA StackedMark ==
  ASSUME NEW t \in Thread, NEW s \in Seq(Thread \X Nat), NEW l \in Events, Stacked(t, s, l),
         Open(l) \in Nat
  PROVE  Stacked(t, s, Append(l, [op |-> "mark", named |-> FALSE]))
<1> DEFINE m == Append(l, [op |-> "mark", named |-> FALSE])
           n == Len(l)
<1>1. m \in Events /\ Len(m) = n + 1 /\ Open(m) = Open(l) /\ \A i \in 1 .. n : m[i] = l[i]
  BY DepthStep
<1>2. /\ n \in Nat /\ Live(l) \subseteq 1 .. n
      /\ \A i \in Live(l) : l[i].op = "mark" \/ (l[i].op = "push" /\ Depth(l, i) <= Open(l))
  BY LiveRange
<1>3. \A i \in 0 .. n : Depth(m, i) = Depth(l, i)
  BY DepthPrefix
<1>4. Live(m) = Live(l)
  <2>1. \A i \in 1 .. n :
          i \in Live(m) <=> i \in Live(l) /\ (l[i].op = "push" => Depth(l, i) <= Open(m))
    BY LiveStep
  <2>2. ~(n + 1 \in Live(m))
    <3>1. Len(m) \in Live(m) <=> ("mark" = "mark" /\ FALSE) \/ "mark" = "push"
      BY LiveStep
    <3> QED BY <1>1, <3>1
  <2>3. Live(m) \subseteq 1 .. n + 1
    BY <1>1, LiveRange
  <2> HIDE DEF m, n
  <2>4. \A i \in 1 .. n : i \in Live(m) <=> i \in Live(l)
    BY <1>1, <1>2, <2>1
  <2>5. 1 .. n + 1 = (1 .. n) \cup {n + 1}
    BY <1>2
  <2> QED BY <1>2, <2>2, <2>3, <2>4, <2>5
<1>5. \A k \in 1 .. Len(s) : s[k][2] \in 1 .. n /\ s[k][2] \in 0 .. n
  BY <1>2 DEF Stacked
<1> HIDE DEF m, n
<1>6. \A k \in 1 .. Len(s) : m[s[k][2]] = l[s[k][2]] /\ Depth(m, s[k][2]) = Depth(l, s[k][2])
  BY <1>1, <1>3, <1>5
<1>7. Stacked(t, s, m)
  BY <1>1, <1>4, <1>6 DEF Stacked
<1> QED BY <1>7 DEF m

(* What is left without the last element. *)
LEMMA FrontProperties ==
  ASSUME NEW S, NEW s \in Seq(S), s # <<>>
  PROVE  /\ Front(s) \in Seq(S) /\ Len(Front(s)) = Len(s) - 1
         /\ \A k \in 1 .. Len(s) - 1 : Front(s)[k] = s[k]
<1> DEFINE n == Len(s)
<1>1. n \in Nat /\ n > 0 /\ \A i \in 1 .. n - 1 : s[i] \in S
  OBVIOUS
<1>2. Front(s) = SubSeq(s, 1, n - 1)
  BY DEF Front
<1> HIDE DEF n
<1>3. /\ Front(s) \in Seq(S)
      /\ Len(Front(s)) = IF 1 <= n - 1 THEN n - 1 - 1 + 1 ELSE 0
      /\ \A i \in 1 .. n - 1 - 1 + 1 : Front(s)[i] = s[1 + i - 1]
  BY <1>1, <1>2, SubSeqProperties
<1>4. Len(Front(s)) = n - 1 /\ n - 1 - 1 + 1 = n - 1
  BY <1>1, <1>3
<1>5. \A k \in 1 .. n - 1 : Front(s)[k] = s[k]
  <2>1. \A k \in 1 .. n - 1 : 1 + k - 1 = k
    BY <1>1
  <2> QED BY <1>3, <1>4, <2>1
<1> QED BY <1>3, <1>4, <1>5 DEF n

(* The end of a range takes its own region off. *)
LEMMA StackedPop ==
  ASSUME NEW t \in Thread, NEW s \in Seq(Thread \X Nat), NEW l \in Events, Stacked(t, s, l),
         Open(l) \in Nat, Open(l) > 0
  PROVE  /\ s # <<>>
         /\ Stacked(t, Front(s), Append(l, [op |-> "pop", named |-> FALSE]))
<1> DEFINE m == Append(l, [op |-> "pop", named |-> FALSE])
           n == Len(l)
           u == Front(s)
<1>1. m \in Events /\ Len(m) = n + 1 /\ Open(m) = Open(l) - 1 /\ \A i \in 1 .. n : m[i] = l[i]
  BY DepthStep
<1>2. n \in Nat /\ Live(l) \subseteq 1 .. n
  BY LiveRange
<1>3. \A i \in 0 .. n : Depth(m, i) = Depth(l, i)
  BY DepthPrefix
<1>4. Live(m) = {i \in Live(l) : l[i].op = "push" => Depth(l, i) <= Open(m)}
  <2>1. \A i \in 1 .. n :
          i \in Live(m) <=> i \in Live(l) /\ (l[i].op = "push" => Depth(l, i) <= Open(m))
    BY LiveStep
  <2>2. ~(n + 1 \in Live(m))
    <3>1. Len(m) \in Live(m) <=> ("pop" = "mark" /\ FALSE) \/ "pop" = "push"
      BY LiveStep
    <3> QED BY <1>1, <3>1
  <2>3. Live(m) \subseteq 1 .. n + 1
    BY <1>1, LiveRange
  <2> HIDE DEF m, n
  <2>4. 1 .. n + 1 = (1 .. n) \cup {n + 1}
    BY <1>2
  <2> QED BY <1>2, <2>1, <2>2, <2>3, <2>4
<1>5. Len(s) \in Nat /\ Len(s) > 0 /\ s # <<>>
  BY DEF Stacked
<1>6. Len(u) = Len(s) - 1 /\ \A k \in 1 .. Len(u) : u[k] = s[k]
  BY <1>5, FrontProperties
<1>7. Len(u) - Open(m) = Len(s) - Open(l) /\ Open(m) \in Nat /\ Open(m) <= Len(u)
  <2>1. Open(l) <= Len(s)
    BY DEF Stacked
  <2> HIDE DEF m, u
  <2> QED BY <1>1, <1>5, <1>6, <2>1
<1> HIDE DEF m, n, u
<1>8. \A k \in 1 .. Len(s) : s[k][2] \in 1 .. n /\ s[k][2] \in 0 .. n
  BY <1>2 DEF Stacked
<1>9. \A k \in 1 .. Len(s) : m[s[k][2]] = l[s[k][2]] /\ Depth(m, s[k][2]) = Depth(l, s[k][2])
  BY <1>1, <1>3, <1>8
<1>10. ASSUME NEW k \in 1 .. Len(u)
       PROVE  /\ k \in 1 .. Len(s) /\ s[k][2] \in Live(m)
              /\ \A j \in 1 .. k - 1 : j \in 1 .. Len(u)
  <2>1. k \in 1 .. Len(s) /\ \A j \in 1 .. k - 1 : j \in 1 .. Len(u)
    BY <1>5, <1>6
  <2>2. s[k][2] \in Live(l)
    BY <2>1 DEF Stacked
  <2>3. ASSUME l[s[k][2]].op = "push" PROVE Depth(l, s[k][2]) <= Open(m)
    <3>1. k > Len(s) - Open(l)
      <4>1. k <= Len(s) - Open(l) => l[s[k][2]].op = "mark"
        BY <2>1 DEF Stacked
      <4> QED BY <1>5, <2>1, <2>3, <4>1
    <3>2. Depth(l, s[k][2]) = k - (Len(s) - Open(l))
      BY <2>1, <3>1 DEF Stacked
    <3>3. k <= Len(s) - 1
      BY <1>5, <1>6
    <3> QED BY <1>1, <1>5, <2>1, <3>2, <3>3
  <2> QED BY <1>4, <2>1, <2>2, <2>3
<1>11. ~(s[Len(s)][2] \in Live(m))
  <2>1. Len(s) \in 1 .. Len(s) /\ Len(s) > Len(s) - Open(l)
    BY <1>5
  <2>2. l[s[Len(s)][2]].op = "push" /\ Depth(l, s[Len(s)][2]) = Len(s) - (Len(s) - Open(l))
    BY <2>1 DEF Stacked
  <2>3. ~(Depth(l, s[Len(s)][2]) <= Open(m))
    BY <1>1, <1>5, <2>2
  <2> QED BY <1>4, <2>2, <2>3
<1>12. \A i \in Live(m) : \E k \in 1 .. Len(u) : u[k][2] = i
  <2>1. ASSUME NEW i \in Live(m)
        PROVE  \E k \in 1 .. Len(u) : u[k][2] = i
    <3>1. i \in Live(l)
      BY <1>4
    <3>2. PICK k \in 1 .. Len(s) : s[k][2] = i
      BY <3>1 DEF Stacked
    <3>3. k # Len(s)
      BY <1>11, <3>2
    <3>4. k \in 1 .. Len(u)
      BY <1>5, <1>6, <3>3
    <3> QED BY <1>6, <3>2, <3>4
  <2> QED BY <2>1
<1>13. \A k \in 1 .. Len(u) :
         /\ u[k] = <<t, u[k][2]>> /\ u[k][2] \in Live(m)
         /\ \A j \in 1 .. k - 1 : u[j][2] < u[k][2]
         /\ k <= Len(u) - Open(m) => m[u[k][2]].op = "mark"
         /\ k > Len(u) - Open(m) => /\ m[u[k][2]].op = "push"
                                    /\ Depth(m, u[k][2]) = k - (Len(u) - Open(m))
  <2>1. ASSUME NEW k \in 1 .. Len(u)
        PROVE  /\ u[k] = <<t, u[k][2]>> /\ u[k][2] \in Live(m)
               /\ \A j \in 1 .. k - 1 : u[j][2] < u[k][2]
               /\ k <= Len(u) - Open(m) => m[u[k][2]].op = "mark"
               /\ k > Len(u) - Open(m) => /\ m[u[k][2]].op = "push"
                                          /\ Depth(m, u[k][2]) = k - (Len(u) - Open(m))
    <3>1. k \in 1 .. Len(s) /\ u[k] = s[k] /\ s[k][2] \in Live(m)
      BY <1>6, <1>10
    <3>2. \A j \in 1 .. k - 1 : u[j] = s[j]
      BY <1>6, <1>10
    <3>3. m[u[k][2]] = l[s[k][2]] /\ Depth(m, u[k][2]) = Depth(l, s[k][2])
      BY <1>9, <3>1
    <3> QED BY <1>7, <3>1, <3>2, <3>3 DEF Stacked
  <2> QED BY <2>1
<1>14. Stacked(t, u, m)
  BY <1>7, <1>12, <1>13 DEF Stacked
<1> QED BY <1>5, <1>14 DEF u, m

(* The region on top is the innermost that is live. *)
LEMMA StackedTop ==
  ASSUME NEW t \in Thread, NEW s \in Seq(Thread \X Nat), NEW l \in Events, Stacked(t, s, l)
  PROVE  /\ s = <<>> <=> Live(l) = {}
         /\ s # <<>> => s[Len(s)] = <<t, CHOOSE i \in Live(l) : \A j \in Live(l) : j <= i>>
<1>1. Len(s) \in Nat /\ (s = <<>> <=> Len(s) = 0)
  OBVIOUS
<1>2. s = <<>> => Live(l) = {}
  BY <1>1 DEF Stacked
<1>3. ASSUME s # <<>>
      PROVE  /\ Live(l) # {}
             /\ s[Len(s)] = <<t, CHOOSE i \in Live(l) : \A j \in Live(l) : j <= i>>
  <2> DEFINE top == s[Len(s)][2]
  <2>1. Len(s) \in 1 .. Len(s)
    BY <1>1, <1>3
  <2>2. top \in Live(l) /\ s[Len(s)] = <<t, top>>
    BY <2>1 DEF Stacked
  <2>3. Live(l) \subseteq Nat
    BY LiveRange
  <2>4. ASSUME NEW j \in Live(l) PROVE j <= top
    <3>1. PICK k \in 1 .. Len(s) : s[k][2] = j
      BY DEF Stacked
    <3>2. CASE k = Len(s)
      BY <2>3, <3>1, <3>2
    <3>3. CASE k # Len(s)
      <4>1. k \in 1 .. Len(s) - 1
        BY <1>1, <3>3
      <4>2. s[k][2] < top
        BY <2>1, <4>1 DEF Stacked
      <4> QED BY <2>2, <2>3, <3>1, <4>2
    <3> QED BY <3>2, <3>3
  <2> HIDE DEF top
  <2>5. \A i \in Live(l) : (\A j \in Live(l) : j <= i) => i = top
    <3>1. ASSUME NEW i \in Live(l), \A j \in Live(l) : j <= i PROVE i = top
      <4>1. top <= i /\ i <= top /\ i \in Nat /\ top \in Nat
        BY <2>2, <2>3, <2>4, <3>1
      <4> QED BY <4>1
    <3> QED BY <3>1
  <2>6. top = CHOOSE i \in Live(l) : \A j \in Live(l) : j <= i
    BY <2>2, <2>4, <2>5
  <2> QED BY <2>2, <2>6
<1> QED BY <1>2, <1>3

(* The stack is as high as there are live regions. *)
LEMMA StackedHeight ==
  ASSUME NEW t \in Thread, NEW s \in Seq(Thread \X Nat), NEW l \in Events, Stacked(t, s, l)
  PROVE  Len(s) = Cardinality(Live(l))
<1> DEFINE f == [k \in 1 .. Len(s) |-> s[k][2]]
<1>1. Len(s) \in Nat /\ Live(l) \subseteq Nat
  BY LiveRange
<1>2. f \in [1 .. Len(s) -> Live(l)]
  BY DEF Stacked
<1>3. \A i \in Live(l) : \E k \in 1 .. Len(s) : f[k] = i
  BY DEF Stacked
<1>4. ASSUME NEW j \in 1 .. Len(s), NEW k \in 1 .. Len(s), j < k
      PROVE  f[j] # f[k]
  <2>1. j \in 1 .. k - 1
    BY <1>4
  <2>2. s[j][2] < s[k][2] /\ s[j][2] \in Nat /\ s[k][2] \in Nat
    BY <1>1, <2>1 DEF Stacked
  <2> QED BY <2>2
<1> HIDE DEF f
<1>5. \A j, k \in 1 .. Len(s) : f[j] = f[k] => j = k
  <2>1. \A j, k \in 1 .. Len(s) : j = k \/ j < k \/ k < j
    OBVIOUS
  <2> QED BY <1>4, <2>1
<1>6. f \in Bijection(1 .. Len(s), Live(l))
  BY <1>2, <1>3, <1>5 DEF Bijection, Injection, Surjection, IsInjective
<1> QED BY <1>1, <1>6, FS_CountingElements DEF ExistsBijection

-----------------------------------------------------------------------------
(* What a service of a configuration can be, for the kinds that are launched. *)
LEMMA ServiceSorts ==
  ASSUME NEW c, NEW s \in ServicesOf(c)
  PROVE  /\ DOMAIN s = {"context", "sort", "kind"}
         /\ s.sort = "buffer" => s.context = "client" /\ s.kind \in c.options
                                 /\ c.benchmark # "sdk_callback_overhead"
         /\ s.sort = "callback" /\ s.kind \in Kinds =>
              /\ s.context = "client"
              /\ \/ c.benchmark = "sdk_callback_overhead"
                 \/ c.advanced_thread_trace /\ s.kind = "kernel_dispatch"
         /\ s.sort = "dispatch_counting" => /\ s.context = "counters" /\ c.counter_collection
                                            /\ s.kind = "kernel_dispatch"
         /\ s.sort = "dispatch_thread_trace" => s.context = "client" /\ c.advanced_thread_trace
         /\ s.sort = "request" => s.context \in {"client", "counters"} /\ s.kind \in RequestKinds
<1> USE DEF Service
<1>1. CASE s \in ToolContextServices
  BY <1>1 DEF ToolContextServices, Kinds
<1>2. CASE s \in MarkerServices(c)
  BY <1>2 DEF MarkerServices, Kinds
<1>3. CASE s \in BufferServices(c)
  BY <1>3 DEF BufferServices
<1>4. CASE s \in CallbackServices(c)
  BY <1>4 DEF CallbackServices
<1>5. CASE s \in AttServices(c)
  <2>1. CASE c.advanced_thread_trace /\ c.att_consecutive
    BY <1>5, <2>1 DEF AttServices
  <2>2. CASE c.advanced_thread_trace /\ ~c.att_consecutive
    BY <1>5, <2>2 DEF AttServices
  <2>3. CASE ~c.advanced_thread_trace
    BY <1>5, <2>3 DEF AttServices
  <2> QED BY <2>1, <2>2, <2>3
<1>6. CASE s \in CounterServices(c)
  BY <1>6 DEF CounterServices
<1>7. CASE s \in CorrelationRequests(c)
  BY <1>7 DEF CorrelationRequests, RequestKinds
<1>8. CASE s \in PcServices(c)
  BY <1>8 DEF PcServices
<1>9. CASE s \in ProfileRequests(c)
  BY <1>9 DEF ProfileRequests
<1> QED
  BY <1>1, <1>2, <1>3, <1>4, <1>5, <1>6, <1>7, <1>8, <1>9 DEF ServicesOf

(* The contexts that trace a kind of operation, those that record it, and those that ask for
   an id. *)
LEMMA ServicesTell ==
  ASSUME services = ServicesOf(config), NEW kind \in Kinds, NEW ctx
  PROVE  /\ Traces(ctx, kind) => ctx \in {"client", "counters"}
         /\ Traces("counters", kind) => kind = "kernel_dispatch" /\ config.counter_collection
         /\ Service(ctx, "buffer", kind) \in services <=>
              ctx = "client" /\ kind \in config.options
              /\ config.benchmark # "sdk_callback_overhead"
         /\ Service(ctx, "buffer", kind) \in services => Traces(ctx, kind)
         /\ Traces("client", kind) => \/ Service("client", "buffer", kind) \in services
                                      \/ DummyCallbacks(config)
                                      \/ /\ config.advanced_thread_trace
                                         /\ kind = "kernel_dispatch" /\ kind \notin config.options
         /\ Service(ctx, "request", kind) \in services =>
              ctx \in {"client", "counters"} /\ kind \in RequestKinds
         /\ ~DummyCallbacks(config) /\ kind \in RequestKinds /\ Traces(ctx, kind) =>
              Service(ctx, "request", kind) \in services
<1>1. \A s \in services :
         /\ s.sort = "buffer" => s.context = "client" /\ s.kind \in config.options
                                 /\ config.benchmark # "sdk_callback_overhead"
         /\ s.sort = "callback" /\ s.kind \in Kinds =>
              /\ s.context = "client"
              /\ \/ config.benchmark = "sdk_callback_overhead"
                 \/ config.advanced_thread_trace /\ s.kind = "kernel_dispatch"
         /\ s.sort = "dispatch_counting" => /\ s.context = "counters"
                                            /\ config.counter_collection
                                            /\ s.kind = "kernel_dispatch"
         /\ s.sort = "dispatch_thread_trace" => /\ s.context = "client"
                                                /\ config.advanced_thread_trace
         /\ s.sort = "request" => s.context \in {"client", "counters"} /\ s.kind \in RequestKinds
  BY ServiceSorts
<1>2. \A sort : LET s == Service(ctx, sort, kind)
                IN  s.context = ctx /\ s.sort = sort /\ s.kind = kind
  BY DEF Service
<1>3. Service("client", "buffer", kind) \in services
      <=> kind \in config.options /\ config.benchmark # "sdk_callback_overhead"
  <2>1. kind \in config.options /\ config.benchmark # "sdk_callback_overhead" =>
          Service("client", "buffer", kind) \in BufferServices(config)
    BY DEF BufferServices
  <2>2. Service("client", "buffer", kind) \in services =>
          kind \in config.options /\ config.benchmark # "sdk_callback_overhead"
    BY <1>1 DEF Service
  <2> QED BY <2>1, <2>2 DEF ServicesOf
<1>4. Service(ctx, "buffer", kind) \in services <=>
        ctx = "client" /\ kind \in config.options /\ config.benchmark # "sdk_callback_overhead"
  <2>1. Service(ctx, "buffer", kind) \in services => ctx = "client"
    BY <1>1, <1>2
  <2> QED BY <1>3, <2>1
<1>5. Service(ctx, "buffer", kind) \in services => Traces(ctx, kind)
  BY <1>2 DEF Traces
<1>6. Service(ctx, "request", kind) \in services =>
        ctx \in {"client", "counters"} /\ kind \in RequestKinds
  BY <1>1, <1>2
<1>7. Traces(ctx, kind) => ctx \in {"client", "counters"}
  BY <1>1 DEF Traces
<1>8. Traces("counters", kind) => kind = "kernel_dispatch" /\ config.counter_collection
  BY <1>1 DEF Traces
<1>9. Traces("client", kind) => \/ Service("client", "buffer", kind) \in services
                                \/ DummyCallbacks(config)
                                \/ /\ config.advanced_thread_trace
                                   /\ kind = "kernel_dispatch" /\ kind \notin config.options
  BY <1>1, <1>3 DEF Traces, DummyCallbacks
<1>10. ~DummyCallbacks(config) /\ kind \in RequestKinds /\ Traces(ctx, kind) =>
         Service(ctx, "request", kind) \in services
  <2>1. ASSUME ~DummyCallbacks(config), kind \in RequestKinds, Traces(ctx, kind)
        PROVE  Service(ctx, "request", kind) \in CorrelationRequests(config)
    <3>1. config.benchmark # "execution_profile"
      BY <2>1 DEF DummyCallbacks
    <3>2. CASE ctx = "client"
      BY <2>1, <3>1, <3>2 DEF CorrelationRequests
    <3>3. CASE ctx = "counters"
      BY <1>8, <2>1, <3>1, <3>3 DEF CorrelationRequests
    <3> QED BY <1>7, <2>1, <3>2, <3>3
  <2> QED BY <2>1 DEF ServicesOf
<1> QED BY <1>4, <1>5, <1>6, <1>7, <1>8, <1>9, <1>10

-----------------------------------------------------------------------------
(* The contexts and services are the configuration's, but for the client context, which is
   active while recording is wanted; and the periods that are left. *)
ServiceInv ==
  /\ ServicesTypeOK
  /\ control \in [Thread -> {"none", "pause", "resume"}]
  /\ periods \in Seq(Nat) /\ in_period \in BOOLEAN
  /\ round \in Nat /\ (periods = <<>> => round = 0 /\ ~in_period)
  /\ round > 0 => round < Head(periods)
  /\ wanted \in BOOLEAN /\ (wanted <=> "client" \in active)
  /\ tool = "loading" => active = {} /\ periods = <<>>
  /\ tool = "ready" => /\ services = ServicesOf(config)
                       /\ active \ {"client"} = start_context(config) \ {"client"}
  /\ config.benchmark = "disabled_contexts_overhead" => "client" \notin active /\ periods = <<>>

(* The steps that leave all of it alone. *)
serviceInvVars == <<serviceVars, controlVars, wanted>>

LEMMA ServiceStart == Init => ServiceInv
<1> SUFFICES ASSUME Init PROVE ServiceInv
  OBVIOUS
<1>1. config \in Configs /\ tool = "loading" /\ services = {} /\ active = {}
  BY DEF Init, ServicesInit
<1>2. ServicesTypeOK
  BY <1>1 DEF ServicesTypeOK
<1>3. control \in [Thread -> {"none", "pause", "resume"}]
  BY DEF Init
<1>4. /\ periods = <<>> /\ round = 0 /\ in_period = FALSE /\ wanted = FALSE
      /\ periods \in Seq(Nat)
  BY DEF Init
<1>5. ~(round > 0)
  BY <1>4
<1> QED BY <1>1, <1>2, <1>3, <1>4, <1>5 DEF ServiceInv

(* When the tool is loaded. *)
LEMMA ServiceLoad == ServiceInv /\ Load => ServiceInv'
<1> SUFFICES ASSUME ServiceInv, Load PROVE ServiceInv'
  OBVIOUS
<1>1. /\ tool = "loading" /\ config \in Configs /\ config' = config /\ active = {}
      /\ round = 0 /\ ~in_period /\ wanted' \in BOOLEAN
      /\ UNCHANGED <<control, round, in_period>>
  BY DEF ServiceInv, ServicesTypeOK, Load, tool_init
<1>2. periods' = IF StartMode(config) = "periods" THEN config.periods ELSE <<>>
  BY DEF Load
<1>3. periods' \in Seq(Nat)
  BY <1>1, <1>2, ConfigAssumption
<1>4. /\ control' \in [Thread -> {"none", "pause", "resume"}]
      /\ in_period' \in BOOLEAN /\ round' = 0 /\ ~in_period' /\ ~(round' > 0)
  BY <1>1 DEF ServiceInv
<1>5. config.benchmark = "disabled_contexts_overhead" => periods' = <<>>
  BY <1>2 DEF StartMode
<1>6. CASE AttFatal(config) \/ PcUnsupported(config)
  <2>1. tool' = "aborted" /\ services' = services /\ active' = active
    BY <1>6 DEF Load, tool_init
  <2>2. ServicesTypeOK'
    BY <1>1, <2>1 DEF ServiceInv, ServicesTypeOK
  <2>3. wanted' = FALSE
    BY <2>1 DEF Load
  <2> QED BY <1>1, <1>3, <1>4, <1>5, <2>1, <2>2, <2>3 DEF ServiceInv
<1>7. CASE ~(AttFatal(config) \/ PcUnsupported(config))
  <2>1. /\ tool' = "ready" /\ services' = ServicesOf(config)
        /\ active' = start_context(config)
    BY <1>7 DEF Load, tool_init
  <2>2. ServicesTypeOK'
    <3>1. \A s \in services' : DOMAIN s = {"context", "sort", "kind"}
      BY <2>1, ServiceSorts
    <3>2. active' \subseteq {"client", "code_object", "rename", "hip_stream", "runtime_init",
                             "pause_resume", "counters"}
      BY <2>1 DEF start_context, ToStart
    <3> QED BY <1>1, <2>1, <3>1, <3>2 DEF ServicesTypeOK
  <2>3. wanted' = (StartMode(config) = "now")
    BY <2>1 DEF Load
  <2>4. "client" \in active' <=> StartMode(config) = "now"
    <3>1. StartMode(config) = "now" => config.benchmark # "disabled_contexts_overhead"
      BY DEF StartMode
    <3> QED BY <2>1, <3>1 DEF start_context, ToStart
  <2>5. config.benchmark = "disabled_contexts_overhead" => "client" \notin active'
    BY <2>4 DEF StartMode
  <2> QED BY <1>1, <1>3, <1>4, <1>5, <2>1, <2>2, <2>3, <2>4, <2>5 DEF ServiceInv
<1> QED BY <1>6, <1>7

(* A pause and a resume are heard by the tool if the configuration lets them. *)
LEMMA HeardControls ==
  ASSUME ServiceInv, tool = "ready"
  PROVE  Controls <=> Heard
<1>1. "pause_resume" \in active <=> "pause_resume" \in start_context(config)
  BY DEF ServiceInv
<1>2. "pause_resume" \in start_context(config) <=>
        config.marker_api_trace /\ config.benchmark # "disabled_contexts_overhead"
  BY DEF start_context, ToStart
<1>3. config.benchmark \in Benchmarks
  BY ConfigAssumption DEF ServiceInv, ServicesTypeOK
<1> QED BY <1>1, <1>2, <1>3 DEF Controls, Heard, DummyCallbacks, Benchmarks

(* The steps that start or stop the client context. *)
LEMMA ServiceControl ==
  ASSUME ServiceInv,
         (\E t \in Thread : ControlExit(t)) \/ (\E t \in Thread, op \in {"pause", "resume"} :
                                                  ControlEnter(t, op))
         \/ StartPeriod \/ StopPeriod
  PROVE  ServiceInv'
<1>1. /\ tool = "ready" /\ UNCHANGED <<config, tool, services>>
      /\ services = ServicesOf(config)
      /\ active \ {"client"} = start_context(config) \ {"client"}
      /\ wanted \in BOOLEAN /\ (wanted <=> "client" \in active)
  BY DEF ServiceInv, ControlExit, ControlEnter, StartPeriod, StopPeriod, Act
<1>2. ASSUME NEW on \in BOOLEAN, active' = IF on THEN active \cup {"client"}
                                                 ELSE active \ {"client"},
             config.benchmark # "disabled_contexts_overhead" \/ ~on,
             wanted' = on
      PROVE  /\ ServicesTypeOK' /\ wanted' \in BOOLEAN /\ (wanted' <=> "client" \in active')
             /\ tool' = "ready" /\ services' = ServicesOf(config')
             /\ active' \ {"client"} = start_context(config') \ {"client"}
             /\ config'.benchmark = "disabled_contexts_overhead" => "client" \notin active'
  <2>1. active' \ {"client"} = active \ {"client"}
    BY <1>2
  <2>2. active' \subseteq active \cup {"client"}
    BY <1>2
  <2>3. ServicesTypeOK'
    BY <1>1, <2>2 DEF ServiceInv, ServicesTypeOK
  <2>4. "client" \in active' <=> on
    BY <1>2
  <2> QED BY <1>1, <1>2, <2>1, <2>3, <2>4
<1>3. ASSUME active' = active, wanted' = wanted
      PROVE  /\ ServicesTypeOK' /\ wanted' \in BOOLEAN /\ (wanted' <=> "client" \in active')
             /\ tool' = "ready" /\ services' = ServicesOf(config')
             /\ active' \ {"client"} = start_context(config') \ {"client"}
             /\ config'.benchmark = "disabled_contexts_overhead" => "client" \notin active'
  BY <1>1, <1>3 DEF ServiceInv, ServicesTypeOK
<1>4. Controls <=> Heard
  BY <1>1, HeardControls
<1>5. ASSUME NEW t \in Thread, ControlExit(t) PROVE ServiceInv'
  <2>1. control' \in [Thread -> {"none", "pause", "resume"}]
    BY <1>5 DEF ServiceInv, ControlExit
  <2>2. UNCHANGED <<periods, round, in_period>>
    BY <1>5 DEF ControlExit
  <2>3. CASE Controls /\ control[t] = "resume"
    <3>1. active' = active \cup {"client"} /\ wanted' = TRUE
      BY <1>4, <1>5, <2>3 DEF ControlExit, Resumed
    <3>2. config.benchmark # "disabled_contexts_overhead"
      BY <1>4, <2>3 DEF Heard
    <3> QED BY <1>1, <1>2, <2>1, <2>2, <3>1, <3>2 DEF ServiceInv
  <2>4. CASE ~(Controls /\ control[t] = "resume")
    <3>1. active' = active /\ wanted' = wanted
      BY <1>1, <1>4, <1>5, <2>4 DEF ControlExit, Resumed
    <3> QED BY <1>1, <1>3, <2>1, <2>2, <3>1 DEF ServiceInv
  <2> QED BY <2>3, <2>4
<1>6. ASSUME NEW t \in Thread, NEW op \in {"pause", "resume"}, ControlEnter(t, op)
      PROVE  ServiceInv'
  <2>1. control' \in [Thread -> {"none", "pause", "resume"}]
    BY <1>6 DEF ServiceInv, ControlEnter
  <2>2. UNCHANGED <<periods, round, in_period>>
    BY <1>6 DEF ControlEnter
  <2>3. CASE Controls /\ op = "pause"
    <3>1. active' = active \ {"client"} /\ wanted' = FALSE
      BY <1>4, <1>6, <2>3 DEF ControlEnter, Paused
    <3> QED BY <1>1, <1>2, <2>1, <2>2, <3>1 DEF ServiceInv
  <2>4. CASE ~(Controls /\ op = "pause")
    <3>1. active' = active /\ wanted' = wanted
      BY <1>1, <1>4, <1>6, <2>4 DEF ControlEnter, Paused
    <3> QED BY <1>1, <1>3, <2>1, <2>2, <3>1 DEF ServiceInv
  <2> QED BY <2>3, <2>4
<1>7. CASE StartPeriod
  <2>1. /\ active' = active \cup {"client"} /\ wanted' = TRUE /\ in_period' = TRUE
        /\ periods # <<>> /\ UNCHANGED <<control, periods, round>>
    BY <1>7 DEF StartPeriod
  <2>2. config.benchmark # "disabled_contexts_overhead"
    BY <2>1 DEF ServiceInv
  <2> QED BY <1>1, <1>2, <2>1, <2>2 DEF ServiceInv
<1>8. CASE StopPeriod
  <2>1. /\ active' = active \ {"client"} /\ wanted' = FALSE /\ in_period' = FALSE
        /\ UNCHANGED control
    BY <1>8 DEF StopPeriod
  <2>2. periods # <<>> /\ periods \in Seq(Nat) /\ Head(periods) \in Nat /\ round \in Nat
    <3>1. periods # <<>> /\ periods \in Seq(Nat) /\ round \in Nat
      BY <1>8 DEF ServiceInv, StopPeriod
    <3> QED BY <3>1
  <2>3. /\ periods' \in Seq(Nat) /\ round' \in Nat /\ (periods' = <<>> => round' = 0)
        /\ round' > 0 => round' < Head(periods')
        /\ periods = <<>> => periods' = <<>>
    <3>1. CASE LastRound
      <4>1. periods' = Tail(periods) /\ round' = 0
        BY <1>8, <3>1 DEF StopPeriod
      <4> QED BY <2>2, <4>1
    <3>2. CASE ~LastRound
      <4>1. periods' = periods /\ round' = round + 1
        BY <1>8, <3>2 DEF StopPeriod
      <4> QED BY <2>2, <3>2, <4>1 DEF LastRound
    <3> QED BY <3>1, <3>2
  <2> QED BY <1>1, <1>2, <2>1, <2>2, <2>3 DEF ServiceInv
<1> QED BY <1>5, <1>6, <1>7, <1>8

(* It is invariant. *)
LEMMA ServiceStep == ServiceInv /\ [Next]_vars => ServiceInv'
<1> SUFFICES ASSUME ServiceInv, [Next]_vars PROVE ServiceInv'
  OBVIOUS
<1>1. ASSUME UNCHANGED serviceInvVars PROVE ServiceInv'
  BY <1>1 DEF ServiceInv, ServicesTypeOK, serviceInvVars, serviceVars, controlVars
<1>2. ASSUME NEW t \in Thread, RangeExit(t) PROVE ServiceInv'
  <2>1. /\ tool = "ready" /\ tool' \in {"ready", "aborted"}
        /\ UNCHANGED <<config, services, active, controlVars, wanted>>
    BY <1>2 DEF RangeExit, Act
  <2> QED BY <2>1 DEF ServiceInv, ServicesTypeOK, controlVars
<1>3. ASSUME NEW t \in Thread, NEW named \in BOOLEAN, MarkA(t, named) \/ RangeEnter(t, named)
      PROVE  UNCHANGED serviceInvVars
  BY <1>3 DEF MarkA, RangeEnter, serviceInvVars
<1>4. ASSUME NEW t \in Thread, NEW s, NEW stack,
             StreamEnter(t, s) \/ StreamExit(t) \/ DestroyStack(t, stack)
      PROVE  UNCHANGED serviceInvVars
  BY <1>4 DEF StreamEnter, StreamExit, DestroyStack, serviceInvVars
<1>5. ASSUME NEW t \in Thread, NEW kind, NEW targeted, NEW sampled,
             Launch(t, kind, targeted, sampled)
      PROVE  UNCHANGED serviceInvVars
  BY <1>5 DEF Launch, serviceInvVars
<1>6. ASSUME NEW r, NEW valid, DeliverRecord(r) \/ DeliverSample(r, valid)
      PROVE  UNCHANGED serviceInvVars
  BY <1>6 DEF DeliverRecord, DeliverSample, serviceInvVars, historyVars
<1>7. CASE UNCHANGED vars
  BY <1>1, <1>7 DEF vars, serviceInvVars, historyVars
<1>8. CASE Next
  <2>1. CASE Load
    BY <2>1, ServiceLoad
  <2>2. CASE \E t \in Thread, named \in BOOLEAN : MarkA(t, named) \/ RangeEnter(t, named)
    BY <1>1, <1>3, <2>2
  <2>3. CASE \E t \in Thread : RangeExit(t) \/ StreamExit(t) \/ ControlExit(t)
    BY <1>1, <1>2, <1>4, <2>3, ServiceControl
  <2>4. CASE \E t \in Thread, s \in Stream : StreamEnter(t, s)
    BY <1>1, <1>4, <2>4
  <2>5. CASE \E t \in Thread, stack \in {"rename", "stream"} : DestroyStack(t, stack)
    BY <1>1, <1>4, <2>5
  <2>6. CASE \E t \in Thread, op \in {"pause", "resume"} : ControlEnter(t, op)
    BY <2>6, ServiceControl
  <2>7. CASE StartPeriod \/ StopPeriod
    BY <2>7, ServiceControl
  <2>8. CASE \E t \in Thread, kind \in LaunchKinds, targeted \in BOOLEAN, sampled \in BOOLEAN :
               Launch(t, kind, targeted, sampled)
    BY <1>1, <1>5, <2>8
  <2>9. CASE \E r \in pending : DeliverRecord(r) \/ \E valid \in BOOLEAN : DeliverSample(r, valid)
    BY <1>1, <1>6, <2>9
  <2> QED BY <1>8, <2>1, <2>2, <2>3, <2>4, <2>5, <2>6, <2>7, <2>8, <2>9 DEF Next
<1> QED BY <1>7, <1>8

-----------------------------------------------------------------------------
(* What a stack has to do with the events of its thread: all of it if the program is plain,
   its height if it names its ranges, and nothing if regions are not pushed. *)
StackOf(t, s, l, renames) ==
  /\ s \in Seq(Thread \X Nat) /\ l \in Events
  /\ \A k \in 1 .. Len(s) : s[k] \in {t} \X (1 .. MaxActions)
  /\ Open(l) \in Nat
  /\ renames /\ AllNamed(l) => Open(l) <= Len(s)
  /\ renames /\ Plain(l) => Stacked(t, s, l)

LEMMA StackEmpty ==
  ASSUME NEW t \in Thread, NEW renames \in BOOLEAN
  PROVE  StackOf(t, <<>>, <<>>, renames)
<1>1. <<>> \in Events /\ <<>> \in Seq(Thread \X Nat) /\ Len(<<>>) = 0
  BY DEF Events
<1>2. Open(<<>>) = 0
  BY <1>1, DepthNumber DEF Open
<1>3. Live(<<>>) = {}
  <2>1. Live(<<>>) \subseteq 1 .. Len(<<>>)
    BY <1>1, LiveRange
  <2> QED BY <1>1, <2>1
<1>4. \A k \in 1 .. Len(<<>>) : FALSE
  BY <1>1
<1>5. Stacked(t, <<>>, <<>>)
  BY <1>1, <1>2, <1>3, <1>4 DEF Stacked
<1> QED BY <1>1, <1>2, <1>4, <1>5 DEF StackOf

LEMMA StackOfPush ==
  ASSUME NEW t \in Thread, NEW s, NEW l, NEW renames \in BOOLEAN, StackOf(t, s, l, renames),
         Len(l) < MaxActions, NEW op \in {"mark", "push"}, NEW named \in BOOLEAN
  PROVE  LET m == Append(l, [op |-> op, named |-> named])
         IN  /\ renames /\ named => StackOf(t, Append(s, <<t, Len(l) + 1>>), m, renames)
             /\ ~(renames /\ named) => StackOf(t, s, m, renames)
<1> DEFINE m == Append(l, [op |-> op, named |-> named])
           u == Append(s, <<t, Len(l) + 1>>)
<1>0. op \in {"mark", "push", "pop"} /\ l \in Events /\ s \in Seq(Thread \X Nat)
  BY DEF StackOf
<1>1. /\ m \in Events
      /\ op = "mark" => Open(m) = Open(l)
      /\ op = "push" => Open(m) = Open(l) + 1
  BY <1>0, DepthStep
<1>2. /\ AllNamed(m) => AllNamed(l) /\ (op = "push" => named)
      /\ Plain(m) => AllNamed(m) /\ Plain(l) /\ (op = "mark" => Open(l) = 0)
  BY <1>0, PlainStep
<1>3. /\ Open(l) \in Nat
      /\ renames /\ AllNamed(l) => Open(l) <= Len(s)
      /\ renames /\ Plain(l) => Stacked(t, s, l)
      /\ \A k \in 1 .. Len(s) : s[k] \in {t} \X (1 .. MaxActions)
      /\ Len(s) \in Nat /\ Len(l) \in Nat /\ MaxActions \in Nat
  BY <1>0, RenameAssumption DEF StackOf, Events
<1>4. Open(m) \in Nat
  <2> HIDE DEF m
  <2> QED BY <1>1, <1>3
<1>5. ASSUME renames, named PROVE StackOf(t, u, m, renames)
  <2>1. u = Append(s, <<t, Len(l) + 1>>) /\ <<t, Len(l) + 1>> \in Thread \X Nat
    BY <1>3, <1>5
  <2>2. /\ u \in Seq(Thread \X Nat) /\ Len(u) = Len(s) + 1
        /\ u[Len(s) + 1] = <<t, Len(l) + 1>>
        /\ \A k \in 1 .. Len(s) : u[k] = s[k]
    <3> HIDE DEF u
    <3> QED BY <1>0, <2>1
  <2>3. \A k \in 1 .. Len(u) : u[k] \in {t} \X (1 .. MaxActions)
    <3>1. \A k \in 1 .. Len(u) : k \in 1 .. Len(s) \/ k = Len(s) + 1
      BY <1>3, <2>2
    <3>2. <<t, Len(l) + 1>> \in {t} \X (1 .. MaxActions)
      BY <1>3
    <3> HIDE DEF u
    <3> QED BY <1>3, <2>2, <3>1, <3>2
  <2>4. renames /\ AllNamed(m) => Open(m) <= Len(u)
    <3> HIDE DEF m, u
    <3> QED BY <1>1, <1>2, <1>3, <2>2
  <2>5. renames /\ Plain(m) => Stacked(t, u, m)
    <3>1. ASSUME Plain(m) PROVE Stacked(t, Append(s, <<t, Len(l) + 1>>), m)
      <4>1. Stacked(t, s, l) /\ named
        BY <1>2, <1>3, <1>5, <3>1
      <4> QED BY <1>0, <1>3, <3>1, <4>1, StackedPush
    <3> QED BY <2>1, <3>1
  <2> HIDE DEF m, u
  <2> QED BY <1>1, <1>4, <2>2, <2>3, <2>4, <2>5 DEF StackOf
<1>6. ASSUME ~(renames /\ named) PROVE StackOf(t, s, m, renames)
  <2>2. renames /\ AllNamed(m) => Open(m) <= Len(s)
    <3> HIDE DEF m, u
    <3> QED BY <1>1, <1>2, <1>3, <1>6
  <2>3. renames /\ Plain(m) => Stacked(t, s, m)
    <3>1. ASSUME renames, Plain(m) PROVE Stacked(t, s, m)
      <4>1. Stacked(t, s, l) /\ op = "mark" /\ named = FALSE
        BY <1>2, <1>3, <1>6, <3>1
      <4> QED BY <1>0, <1>3, <4>1, StackedMark
    <3> QED BY <3>1
  <2> HIDE DEF m, u
  <2> QED BY <1>0, <1>1, <1>3, <1>4, <2>2, <2>3 DEF StackOf
<1> QED BY <1>5, <1>6

LEMMA StackOfPop ==
  ASSUME NEW t \in Thread, NEW s, NEW l, NEW renames \in BOOLEAN, StackOf(t, s, l, renames),
         Open(l) > 0
  PROVE  StackOf(t, IF renames /\ s # <<>> THEN Front(s) ELSE s,
                 Append(l, [op |-> "pop", named |-> FALSE]), renames)
<1> DEFINE m == Append(l, [op |-> "pop", named |-> FALSE])
           u == IF renames /\ s # <<>> THEN Front(s) ELSE s
<1>0. l \in Events /\ s \in Seq(Thread \X Nat)
  BY DEF StackOf
<1>1. m \in Events /\ Open(m) = Open(l) - 1
  BY <1>0, DepthStep
<1>2. /\ AllNamed(m) => AllNamed(l)
      /\ Plain(m) => AllNamed(m) /\ Plain(l)
  BY <1>0, PlainStep
<1>3. /\ Open(l) \in Nat
      /\ renames /\ AllNamed(l) => Open(l) <= Len(s)
      /\ renames /\ Plain(l) => Stacked(t, s, l)
      /\ \A k \in 1 .. Len(s) : s[k] \in {t} \X (1 .. MaxActions)
      /\ Len(s) \in Nat /\ (s = <<>> <=> Len(s) = 0)
  BY <1>0 DEF StackOf
<1>4. Open(m) \in Nat
  <2> HIDE DEF m
  <2> QED BY <1>1, <1>3
<1>5. ASSUME renames, s # <<>> PROVE StackOf(t, u, m, renames)
  <2>1. /\ u = Front(s) /\ u \in Seq(Thread \X Nat) /\ Len(u) = Len(s) - 1
        /\ \A k \in 1 .. Len(s) - 1 : u[k] = s[k]
    BY <1>0, <1>5, FrontProperties
  <2>2. \A k \in 1 .. Len(u) : u[k] \in {t} \X (1 .. MaxActions)
    <3>1. \A k \in 1 .. Len(u) : k \in 1 .. Len(s) - 1 /\ k \in 1 .. Len(s)
      BY <1>3, <2>1
    <3> HIDE DEF u
    <3> QED BY <1>3, <2>1, <3>1
  <2>3. renames /\ AllNamed(m) => Open(m) <= Len(u)
    <3> HIDE DEF m, u
    <3> QED BY <1>1, <1>2, <1>3, <2>1
  <2>4. renames /\ Plain(m) => Stacked(t, u, m)
    <3>1. ASSUME Plain(m) PROVE Stacked(t, Front(s), m)
      <4>1. Stacked(t, s, l)
        BY <1>2, <1>3, <1>5, <3>1
      <4> QED BY <1>0, <1>3, <4>1, StackedPop
    <3> QED BY <2>1, <3>1
  <2> HIDE DEF m, u
  <2> QED BY <1>1, <1>4, <2>1, <2>2, <2>3, <2>4 DEF StackOf
<1>6. ASSUME ~(renames /\ s # <<>>) PROVE StackOf(t, u, m, renames)
  <2>1. u = s
    BY <1>6
  <2>2. ~(renames /\ AllNamed(m)) /\ ~(renames /\ Plain(m))
    <3> HIDE DEF m, u
    <3> QED BY <1>2, <1>3, <1>6
  <2> HIDE DEF m, u
  <2> QED BY <1>0, <1>1, <1>3, <1>4, <2>1, <2>2 DEF StackOf
<1> QED BY <1>5, <1>6 DEF u, m

(* The stacks of the threads, and what their threads did; the stack of streams holds the
   stream of the call a thread is in. *)
StackTypes ==
  /\ ranges \in [Thread -> Seq(Thread \X Nat)] /\ log \in [Thread -> Events]
  /\ streams \in [Thread -> Seq(Stream)] /\ on_stream \in [Thread -> Stream \cup {0}]
  /\ gone \in [Thread -> SUBSET {"rename", "stream"}] /\ actions \in 0 .. MaxActions

StreamsOf(t) ==
  TracksStreams(t) => streams[t] = IF on_stream[t] = 0 THEN <<>> ELSE <<on_stream[t]>>

ThreadInv(t) ==
  /\ StackOf(t, ranges[t], log[t], Renames(t)) /\ Len(log[t]) <= actions
  /\ StreamsOf(t)
  /\ tool = "loading" => log[t] = <<>> /\ ranges[t] = <<>> /\ streams[t] = <<>>
                         /\ on_stream[t] = 0

StackInv == StackTypes /\ \A t \in Thread : ThreadInv(t)

stackInvVars == <<stackVars, log, on_stream, actions>>

LEMMA StackStart == Init => StackInv
<1> SUFFICES ASSUME Init PROVE StackInv
  OBVIOUS
<1>1. ranges \in [Thread -> Seq(Thread \X Nat)] /\ streams \in [Thread -> Seq(Stream)]
  BY DEF Init
<1>2. log \in [Thread -> Events]
  BY DEF Init, Events
<1>3. /\ gone \in [Thread -> SUBSET {"rename", "stream"}]
      /\ on_stream \in [Thread -> Stream \cup {0}] /\ actions \in 0 .. MaxActions /\ actions = 0
  BY RenameAssumption DEF Init
<1>4. ASSUME NEW t \in Thread PROVE ThreadInv(t)
  <2>1. ranges[t] = <<>> /\ streams[t] = <<>> /\ log[t] = <<>> /\ on_stream[t] = 0
    BY DEF Init
  <2>2. Renames(t) \in BOOLEAN
    BY DEF Renames
  <2>3. StackOf(t, <<>>, <<>>, Renames(t))
    BY <2>2, StackEmpty
  <2>4. Len(<<>>) = 0
    OBVIOUS
  <2> QED BY <1>3, <2>1, <2>3, <2>4 DEF ThreadInv, StreamsOf
<1> QED BY <1>1, <1>2, <1>3, <1>4 DEF StackInv, StackTypes

(* A thread that has one more event, and a stack that goes with it. *)
LEMMA StackEvent ==
  ASSUME StackInv, NEW t \in Thread, NEW s, NEW m, StackOf(t, s, m, Renames(t)),
         Len(m) = Len(log[t]) + 1,
         ranges' = [ranges EXCEPT ![t] = s], log' = [log EXCEPT ![t] = m],
         actions < MaxActions, actions' = actions + 1, tool' # "loading",
         UNCHANGED <<config, active, streams, gone, on_stream>>
  PROVE  StackInv'
<1>1. StackTypes
  BY DEF StackInv
<1>2. /\ s \in Seq(Thread \X Nat) /\ m \in Events
      /\ actions \in Nat /\ MaxActions \in Nat
      /\ \A x \in Thread : Len(log[x]) \in Nat
  BY <1>1, RenameAssumption DEF StackOf, StackTypes, Events
<1>3. StackTypes'
  BY <1>1, <1>2 DEF StackTypes
<1>4. \A x \in Thread : /\ Renames(x)' = Renames(x) /\ TracksStreams(x)' = TracksStreams(x)
                        /\ streams'[x] = streams[x] /\ on_stream'[x] = on_stream[x]
                        /\ ranges'[x] = IF x = t THEN s ELSE ranges[x]
                        /\ log'[x] = IF x = t THEN m ELSE log[x]
  BY <1>1 DEF StackTypes, Renames, TracksStreams
<1>5. ASSUME NEW x \in Thread PROVE ThreadInv(x)'
  <2>1. StreamsOf(x)'
    BY <1>4 DEF StackInv, ThreadInv, StreamsOf
  <2>2. StackOf(x, ranges'[x], log'[x], Renames(x)')
    BY <1>4 DEF StackInv, ThreadInv
  <2>3. Len(log[x]) <= actions
    BY DEF StackInv, ThreadInv
  <2>4. Len(log'[x]) <= actions'
    BY <1>2, <1>4, <2>3
  <2> QED BY <2>1, <2>2, <2>4 DEF ThreadInv
<1> QED BY <1>3, <1>5 DEF StackInv

(* A mark, or the begin of a range. *)
LEMMA StackPushStep ==
  ASSUME StackInv, NEW t \in Thread, NEW named \in BOOLEAN,
         MarkA(t, named) \/ RangeEnter(t, named)
  PROVE  StackInv'
<1>1. PICK op \in {"mark", "push"} : Event(t, op, named)
  BY DEF MarkA, RangeEnter
<1>2. /\ tool = "ready" /\ actions < MaxActions /\ actions' = actions + 1
      /\ PushRegion(t, named) /\ UNCHANGED <<serviceVars, streams, gone, on_stream>>
  BY DEF MarkA, RangeEnter, Act
<1> DEFINE s == IF Renames(t) /\ named THEN Append(ranges[t], <<t, Len(log[t]) + 1>>)
                                       ELSE ranges[t]
           m == Append(log[t], [op |-> op, named |-> named])
<1>3. log' = [log EXCEPT ![t] = m]
  BY <1>1 DEF Event
<1>4. ranges' = [ranges EXCEPT ![t] = s]
  <2>1. CASE Renames(t) /\ named
    BY <1>2, <2>1 DEF PushRegion, Region
  <2>2. CASE ~(Renames(t) /\ named)
    <3>1. ranges' = ranges /\ s = ranges[t]
      BY <1>2, <2>2 DEF PushRegion
    <3> HIDE DEF s
    <3> QED BY <3>1 DEF StackInv, StackTypes
  <2> QED BY <2>1, <2>2
<1>5. /\ StackOf(t, ranges[t], log[t], Renames(t)) /\ Len(log[t]) <= actions
      /\ actions \in Nat /\ MaxActions \in Nat /\ log[t] \in Events /\ Len(log[t]) \in Nat
  BY RenameAssumption DEF StackInv, ThreadInv, StackTypes, Events
<1>6. Renames(t) \in BOOLEAN /\ Len(log[t]) < MaxActions
  BY <1>2, <1>5 DEF Renames
<1>7. StackOf(t, s, m, Renames(t))
  <2>1. /\ Renames(t) /\ named =>
             StackOf(t, Append(ranges[t], <<t, Len(log[t]) + 1>>), m, Renames(t))
        /\ ~(Renames(t) /\ named) => StackOf(t, ranges[t], m, Renames(t))
    BY <1>1, <1>5, <1>6, StackOfPush
  <2>2. CASE Renames(t) /\ named
    BY <2>1, <2>2
  <2>3. CASE ~(Renames(t) /\ named)
    BY <2>1, <2>3
  <2> QED BY <2>2, <2>3
<1>8. Len(m) = Len(log[t]) + 1 /\ tool' # "loading"
  BY <1>2, <1>5 DEF Events, serviceVars
<1> HIDE DEF s, m
<1> QED BY <1>2, <1>3, <1>4, <1>7, <1>8, StackEvent DEF serviceVars

(* The end of a range. *)
LEMMA StackPopStep ==
  ASSUME StackInv, NEW t \in Thread, RangeExit(t)
  PROVE  StackInv'
<1>1. /\ tool = "ready" /\ actions < MaxActions /\ actions' = actions + 1
      /\ UNCHANGED <<config, services, active, streams, gone, on_stream>>
      /\ Open(log[t]) > 0 /\ tool' # "loading"
  BY DEF RangeExit, Act, Open
<1> DEFINE s == IF Renames(t) /\ ranges[t] # <<>> THEN Front(ranges[t]) ELSE ranges[t]
           m == Append(log[t], [op |-> "pop", named |-> FALSE])
<1>2. log' = [log EXCEPT ![t] = m]
  BY DEF RangeExit, Event
<1>3. ranges' = [ranges EXCEPT ![t] = s]
  <2>1. CASE Renames(t) /\ ranges[t] # <<>>
    BY <2>1 DEF RangeExit, Popped
  <2>2. CASE ~(Renames(t) /\ ranges[t] # <<>>)
    <3>1. ranges' = ranges /\ s = ranges[t]
      BY <2>2 DEF RangeExit
    <3> HIDE DEF s
    <3> QED BY <3>1 DEF StackInv, StackTypes
  <2> QED BY <2>1, <2>2
<1>4. StackOf(t, ranges[t], log[t], Renames(t)) /\ log[t] \in Events
  BY DEF StackInv, ThreadInv, StackTypes
<1>5. Renames(t) \in BOOLEAN
  BY DEF Renames
<1>6. StackOf(t, s, m, Renames(t))
  BY <1>1, <1>4, <1>5, StackOfPop
<1>7. Len(m) = Len(log[t]) + 1
  BY <1>4 DEF Events
<1> HIDE DEF s, m
<1> QED BY <1>1, <1>2, <1>3, <1>6, <1>7, StackEvent

(* A HIP call on a stream begins or returns. *)
LEMMA StackStreamStep ==
  ASSUME StackInv, NEW t \in Thread,
         (\E s \in Stream : StreamEnter(t, s)) \/ StreamExit(t)
  PROVE  StackInv'
<1>1. /\ tool' # "loading" /\ actions' \in 0 .. MaxActions /\ actions <= actions'
      /\ UNCHANGED <<config, active, ranges, gone, log>>
  <2>1. actions \in Nat /\ MaxActions \in Nat /\ actions <= MaxActions
    BY RenameAssumption DEF StackInv, StackTypes
  <2>2. actions' = actions \/ (actions < MaxActions /\ actions' = actions + 1)
    BY DEF StreamEnter, StreamExit, Act
  <2>3. actions' \in 0 .. MaxActions /\ actions <= actions'
    BY <2>1, <2>2
  <2>4. tool' # "loading" /\ UNCHANGED <<config, active, ranges, gone, log>>
    BY DEF StreamEnter, StreamExit, Act, serviceVars
  <2> QED BY <2>3, <2>4
<1>2. StackTypes
  BY DEF StackInv
<1>3. StreamsOf(t) /\ streams[t] \in Seq(Stream) /\ TracksStreams(t) \in BOOLEAN
  BY DEF StackInv, ThreadInv, StackTypes, TracksStreams
<1>4. PICK q \in Seq(Stream), on \in Stream \cup {0} :
        /\ streams' = [streams EXCEPT ![t] = q] /\ on_stream' = [on_stream EXCEPT ![t] = on]
        /\ TracksStreams(t) => q = IF on = 0 THEN <<>> ELSE <<on>>
  <2>1. ASSUME NEW s \in Stream, StreamEnter(t, s)
        PROVE  \E q \in Seq(Stream), on \in Stream \cup {0} :
                 /\ streams' = [streams EXCEPT ![t] = q]
                 /\ on_stream' = [on_stream EXCEPT ![t] = on]
                 /\ TracksStreams(t) => q = IF on = 0 THEN <<>> ELSE <<on>>
    <3>1. on_stream[t] = 0 /\ on_stream' = [on_stream EXCEPT ![t] = s] /\ s # 0
      BY <2>1, RenameAssumption DEF StreamEnter
    <3>2. CASE TracksStreams(t)
      <4>1. streams' = [streams EXCEPT ![t] = Append(streams[t], s)] /\ streams[t] = <<>>
        BY <1>3, <2>1, <3>1, <3>2 DEF StreamEnter, StreamsOf
      <4>2. Append(streams[t], s) = <<s>> /\ <<s>> \in Seq(Stream)
        BY <4>1
      <4>3. <<s>> = IF s = 0 THEN <<>> ELSE <<s>>
        BY <3>1
      <4>4. streams' = [streams EXCEPT ![t] = <<s>>]
        BY <4>1, <4>2
      <4> QED BY <3>1, <4>2, <4>3, <4>4
    <3>3. CASE ~TracksStreams(t)
      <4>1. streams' = [streams EXCEPT ![t] = streams[t]]
        BY <1>2, <2>1, <3>3 DEF StreamEnter, StackTypes
      <4> QED BY <1>3, <3>1, <3>3, <4>1
    <3> QED BY <3>2, <3>3
  <2>2. ASSUME StreamExit(t)
        PROVE  \E q \in Seq(Stream), on \in Stream \cup {0} :
                 /\ streams' = [streams EXCEPT ![t] = q]
                 /\ on_stream' = [on_stream EXCEPT ![t] = on]
                 /\ TracksStreams(t) => q = IF on = 0 THEN <<>> ELSE <<on>>
    <3>1. on_stream[t] # 0 /\ on_stream' = [on_stream EXCEPT ![t] = 0]
      BY <2>2 DEF StreamExit
    <3>2. CASE TracksStreams(t)
      <4>1. /\ streams' = [streams EXCEPT ![t] = Front(streams[t])]
            /\ streams[t] = <<on_stream[t]>>
        BY <1>3, <2>2, <3>1, <3>2 DEF StreamExit, StreamsOf, Popped
      <4>2. Front(streams[t]) = <<>>
        <5>1. streams[t] # <<>> /\ Len(streams[t]) = 1
          BY <4>1
        <5>2. Len(Front(streams[t])) = 0 /\ Front(streams[t]) \in Seq(Stream)
          BY <1>3, <5>1, FrontProperties
        <5> HIDE DEF Front
        <5> QED BY <5>2
      <4>3. streams' = [streams EXCEPT ![t] = <<>>]
        BY <4>1, <4>2
      <4>4. <<>> = IF 0 = 0 THEN <<>> ELSE <<0>>
        OBVIOUS
      <4>5. <<>> \in Seq(Stream) /\ 0 \in Stream \cup {0}
        OBVIOUS
      <4> WITNESS <<>> \in Seq(Stream), 0 \in Stream \cup {0}
      <4> QED BY <3>1, <4>3, <4>4
    <3>3. CASE ~TracksStreams(t)
      <4>1. streams' = [streams EXCEPT ![t] = streams[t]]
        BY <1>2, <2>2, <3>3 DEF StreamExit, StackTypes
      <4> QED BY <1>3, <3>1, <3>3, <4>1
    <3> QED BY <3>2, <3>3
  <2> QED BY <2>1, <2>2
<1>5. StackTypes'
  BY <1>1, <1>2, <1>4 DEF StackTypes
<1>6. ASSUME NEW x \in Thread PROVE ThreadInv(x)'
  <2>1. Renames(x)' = Renames(x) /\ TracksStreams(x)' = TracksStreams(x)
    BY <1>1 DEF Renames, TracksStreams
  <2>2. /\ StackOf(x, ranges'[x], log'[x], Renames(x)') /\ Len(log'[x]) <= actions
        /\ Len(log'[x]) \in Nat
    BY <1>1, <1>2, <2>1 DEF StackInv, ThreadInv, StackTypes, Events
  <2>3. Len(log'[x]) <= actions'
    <3>1. actions \in Nat /\ actions' \in Nat
      BY <1>1, <1>2 DEF StackTypes
    <3> QED BY <1>1, <2>2, <3>1
  <2>4. StreamsOf(x)'
    <3>1. /\ streams'[x] = IF x = t THEN q ELSE streams[x]
          /\ on_stream'[x] = IF x = t THEN on ELSE on_stream[x]
      BY <1>2, <1>4 DEF StackTypes
    <3>2. StreamsOf(x)
      BY DEF StackInv, ThreadInv
    <3> QED BY <1>4, <2>1, <3>1, <3>2 DEF StreamsOf
  <2> QED BY <1>1, <2>2, <2>3, <2>4 DEF ThreadInv
<1> QED BY <1>5, <1>6 DEF StackInv

(* A thread loses a stack. *)
LEMMA StackDestroyStep ==
  ASSUME StackInv, NEW t \in Thread, NEW stack \in {"rename", "stream"}, DestroyStack(t, stack)
  PROVE  StackInv'
<1>1. /\ tool' # "loading" /\ on_stream[t] = 0 /\ actions < MaxActions /\ actions' = actions + 1
      /\ gone' = [gone EXCEPT ![t] = gone[t] \cup {stack}]
      /\ UNCHANGED <<config, active, log, on_stream>>
  BY DEF DestroyStack, Act, serviceVars
<1>2. StackTypes
  BY DEF StackInv
<1>3. /\ ranges' = [ranges EXCEPT ![t] = IF stack = "rename" THEN <<>> ELSE ranges[t]]
      /\ streams' = [streams EXCEPT ![t] = IF stack = "stream" THEN <<>> ELSE streams[t]]
  <2>1. CASE stack = "rename"
    BY <1>2, <2>1 DEF DestroyStack, StackTypes
  <2>2. CASE stack = "stream"
    BY <1>2, <2>2 DEF DestroyStack, StackTypes
  <2> QED BY <2>1, <2>2
<1>4. actions \in Nat /\ MaxActions \in Nat /\ \A x \in Thread : Len(log[x]) \in Nat
  BY <1>2, RenameAssumption DEF StackTypes, Events
<1>5. StackTypes'
  <2>1. (IF stack = "rename" THEN <<>> ELSE ranges[t]) \in Seq(Thread \X Nat)
    BY <1>2 DEF StackTypes
  <2>2. (IF stack = "stream" THEN <<>> ELSE streams[t]) \in Seq(Stream)
    BY <1>2 DEF StackTypes
  <2>3. actions' \in 0 .. MaxActions
    BY <1>1, <1>4
  <2> QED BY <1>1, <1>2, <1>3, <2>1, <2>2, <2>3 DEF StackTypes
<1>6. ASSUME NEW x \in Thread PROVE ThreadInv(x)'
  <2>1. /\ StackOf(x, ranges[x], log[x], Renames(x)) /\ Len(log[x]) <= actions /\ StreamsOf(x)
    BY DEF StackInv, ThreadInv
  <2>2. Len(log'[x]) <= actions'
    BY <1>1, <1>4, <2>1
  <2>3. CASE x # t \/ stack = "stream"
    <3>1. ranges'[x] = ranges[x] /\ log'[x] = log[x] /\ Renames(x)' = Renames(x)
      BY <1>1, <1>2, <1>3, <2>3 DEF StackTypes, Renames
    <3>2. CASE x # t
      <4>1. /\ streams'[x] = streams[x] /\ on_stream'[x] = on_stream[x]
            /\ TracksStreams(x)' = TracksStreams(x)
        BY <1>1, <1>2, <1>3, <3>2 DEF StackTypes, TracksStreams
      <4> QED BY <1>1, <2>1, <2>2, <3>1, <4>1 DEF ThreadInv, StreamsOf
    <3>3. CASE x = t
      <4>1. ~TracksStreams(x)'
        BY <1>1, <1>2, <2>3, <3>3 DEF StackTypes, TracksStreams
      <4> QED BY <1>1, <2>1, <2>2, <3>1, <4>1 DEF ThreadInv, StreamsOf
    <3> QED BY <3>2, <3>3
  <2>4. CASE x = t /\ stack = "rename"
    <3>1. /\ ranges'[x] = <<>> /\ log'[x] = log[x] /\ ~Renames(x)'
          /\ streams'[x] = streams[x] /\ on_stream'[x] = on_stream[x]
          /\ TracksStreams(x)' = TracksStreams(x)
      BY <1>1, <1>2, <1>3, <2>4 DEF StackTypes, Renames, TracksStreams
    <3>2. <<>> \in Seq(Thread \X Nat) /\ \A k \in 1 .. Len(<<>>) : FALSE
      OBVIOUS
    <3>3. StackOf(x, ranges'[x], log'[x], Renames(x)')
      BY <2>1, <3>1, <3>2 DEF StackOf
    <3> QED BY <1>1, <2>1, <2>2, <3>1, <3>3 DEF ThreadInv, StreamsOf
  <2> QED BY <2>3, <2>4
<1> QED BY <1>5, <1>6 DEF StackInv

(* The tool is loaded before there are stacks. *)
LEMMA StackLoad == StackInv /\ Load => StackInv'
<1> SUFFICES ASSUME StackInv, Load PROVE StackInv'
  OBVIOUS
<1>1. tool = "loading" /\ UNCHANGED <<stackVars, log, on_stream, actions>>
  BY DEF Load, tool_init
<1>2. StackTypes'
  BY <1>1 DEF StackInv, StackTypes, stackVars
<1>3. ASSUME NEW t \in Thread PROVE ThreadInv(t)'
  <2>1. /\ log'[t] = <<>> /\ ranges'[t] = <<>> /\ streams'[t] = <<>> /\ on_stream'[t] = 0
        /\ Len(log'[t]) <= actions'
    BY <1>1 DEF StackInv, ThreadInv, stackVars
  <2>2. Renames(t)' \in BOOLEAN
    BY DEF Renames
  <2>3. StackOf(t, <<>>, <<>>, Renames(t)')
    BY <2>2, StackEmpty
  <2> QED BY <2>1, <2>3 DEF ThreadInv, StreamsOf
<1> QED BY <1>2, <1>3 DEF StackInv

(* The steps that leave stacks alone may start and stop the client context. *)
LEMMA StackFrame ==
  ASSUME StackInv, UNCHANGED <<config, stackVars, log, on_stream>>,
         active' \ {"client"} = active \ {"client"},
         actions' = actions \/ (actions < MaxActions /\ actions' = actions + 1),
         tool' = tool
  PROVE  StackInv'
<1>1. actions \in Nat /\ MaxActions \in Nat /\ actions <= MaxActions
  BY RenameAssumption DEF StackInv, StackTypes
<1>2. actions' \in 0 .. MaxActions /\ actions <= actions'
  BY <1>1
<1>3. StackTypes'
  BY <1>2 DEF StackInv, StackTypes, stackVars
<1>4. ASSUME NEW t \in Thread PROVE ThreadInv(t)'
  <2>1. Renames(t)' = Renames(t) /\ TracksStreams(t)' = TracksStreams(t)
    <3>1. /\ "rename" \in active' <=> "rename" \in active
          /\ "hip_stream" \in active' <=> "hip_stream" \in active
      OBVIOUS
    <3> QED BY <3>1 DEF Renames, TracksStreams, stackVars
  <2>2. Len(log[t]) \in Nat /\ Len(log[t]) <= actions
    BY DEF StackInv, ThreadInv, StackTypes, Events
  <2>3. Len(log'[t]) <= actions'
    BY <1>1, <1>2, <2>2
  <2> QED BY <2>1, <2>3 DEF StackInv, ThreadInv, StreamsOf, stackVars
<1> QED BY <1>3, <1>4 DEF StackInv

(* It is invariant. *)
LEMMA StackStep == StackInv /\ [Next]_vars => StackInv'
<1> SUFFICES ASSUME StackInv, [Next]_vars PROVE StackInv'
  OBVIOUS
<1> DEFINE Frame == /\ UNCHANGED <<config, stackVars, log, on_stream>>
                    /\ active' \ {"client"} = active \ {"client"}
                    /\ actions' = actions \/ (actions < MaxActions /\ actions' = actions + 1)
                    /\ tool' = tool
<1>1. Frame => StackInv'
  BY StackFrame
<1>2. ASSUME NEW t \in Thread, NEW op, ControlEnter(t, op) \/ ControlExit(t)
      PROVE  Frame
  BY <1>2 DEF ControlEnter, ControlExit, Act, Paused, Resumed
<1>3. StartPeriod \/ StopPeriod => Frame
  BY DEF StartPeriod, StopPeriod
<1>4. ASSUME NEW t \in Thread, NEW kind, NEW targeted, NEW sampled,
             Launch(t, kind, targeted, sampled)
      PROVE  Frame
  BY <1>4 DEF Launch, Act, serviceVars
<1>5. ASSUME NEW r, NEW valid, DeliverRecord(r) \/ DeliverSample(r, valid)
      PROVE  Frame
  BY <1>5 DEF DeliverRecord, DeliverSample, serviceVars, historyVars
<1>6. UNCHANGED vars => Frame
  BY DEF vars, serviceVars, historyVars
<1> HIDE DEF Frame
<1>7. CASE Next
  <2>1. CASE Load
    BY <2>1, StackLoad
  <2>2. CASE \E t \in Thread, named \in BOOLEAN : MarkA(t, named) \/ RangeEnter(t, named)
    BY <2>2, StackPushStep
  <2>3. CASE \E t \in Thread : RangeExit(t) \/ StreamExit(t) \/ ControlExit(t)
    BY <1>1, <1>2, <2>3, StackPopStep, StackStreamStep
  <2>4. CASE \E t \in Thread, s \in Stream : StreamEnter(t, s)
    BY <2>4, StackStreamStep
  <2>5. CASE \E t \in Thread, stack \in {"rename", "stream"} : DestroyStack(t, stack)
    BY <2>5, StackDestroyStep
  <2>6. CASE \E t \in Thread, op \in {"pause", "resume"} : ControlEnter(t, op)
    BY <1>1, <1>2, <2>6
  <2>7. CASE StartPeriod \/ StopPeriod
    BY <1>1, <1>3, <2>7
  <2>8. CASE \E t \in Thread, kind \in LaunchKinds, targeted \in BOOLEAN, sampled \in BOOLEAN :
               Launch(t, kind, targeted, sampled)
    BY <1>1, <1>4, <2>8
  <2>9. CASE \E r \in pending : DeliverRecord(r) \/ \E valid \in BOOLEAN : DeliverSample(r, valid)
    BY <1>1, <1>5, <2>9
  <2> QED BY <1>7, <2>1, <2>2, <2>3, <2>4, <2>5, <2>6, <2>7, <2>8, <2>9 DEF Next
<1> QED BY <1>1, <1>6, <1>7

-----------------------------------------------------------------------------
(* The process is ended where a range without a message was begun, if it is not ended as the
   tool is loaded. *)
AbortInv ==
  tool = "aborted" /\ ~AttFatal(config) /\ ~PcUnsupported(config) =>
    \E t \in Thread : \E i \in DOMAIN log[t] : log[t][i].op = "push" /\ ~log[t][i].named

LEMMA AbortStep == StackInv /\ AbortInv /\ [Next]_vars => AbortInv'
<1> SUFFICES ASSUME StackInv, AbortInv, [Next]_vars PROVE AbortInv'
  OBVIOUS
<1>1. CASE Load
  BY <1>1 DEF Load, tool_init, AbortInv
<1>2. ASSUME NEW t \in Thread, RangeExit(t) PROVE AbortInv'
  <2>1. CASE Renames(t) /\ ranges[t] = <<>>
    <3>1. /\ StackOf(t, ranges[t], log[t], Renames(t)) /\ log[t] \in Events
          /\ log \in [Thread -> Events]
      BY DEF StackInv, ThreadInv, StackTypes
    <3>2. Open(log[t]) > 0 /\ Open(log[t]) \in Nat /\ Len(<<>>) = 0
      BY <1>2, <3>1 DEF RangeExit, StackOf, Open
    <3>3. ~AllNamed(log[t])
      BY <2>1, <3>1, <3>2 DEF StackOf
    <3>4. PICK i \in DOMAIN log[t] : log[t][i].op = "push" /\ ~log[t][i].named
      BY <3>3 DEF AllNamed
    <3>5. log'[t] = Append(log[t], [op |-> "pop", named |-> FALSE])
      BY <1>2, <3>1 DEF RangeExit, Event
    <3>6. i \in DOMAIN log'[t] /\ log'[t][i] = log[t][i]
      BY <3>1, <3>4, <3>5 DEF Events
    <3> QED BY <3>4, <3>6 DEF AbortInv
  <2>2. CASE ~(Renames(t) /\ ranges[t] = <<>>)
    BY <1>2, <2>2 DEF RangeExit, Act, AbortInv
  <2> QED BY <2>1, <2>2
<1>3. CASE UNCHANGED vars
  BY <1>3 DEF AbortInv, vars, serviceVars, historyVars
<1>4. ASSUME NEW t \in Thread, NEW named \in BOOLEAN, NEW s, NEW stack, NEW op,
             \/ MarkA(t, named) \/ RangeEnter(t, named)
             \/ StreamEnter(t, s) \/ StreamExit(t) \/ DestroyStack(t, stack)
             \/ ControlEnter(t, op) \/ ControlExit(t)
      PROVE  tool' = "ready"
  BY <1>4 DEF MarkA, RangeEnter, StreamEnter, StreamExit, DestroyStack, ControlEnter,
              ControlExit, Act, serviceVars
<1>5. ASSUME NEW t \in Thread, NEW kind, NEW targeted, NEW sampled,
             Launch(t, kind, targeted, sampled)
      PROVE  tool' = "ready"
  BY <1>5 DEF Launch, Act, serviceVars
<1>6. ASSUME NEW r, NEW valid, DeliverRecord(r) \/ DeliverSample(r, valid)
      PROVE  tool' = "ready"
  BY <1>6 DEF DeliverRecord, DeliverSample, serviceVars
<1>7. StartPeriod \/ StopPeriod => tool' = "ready"
  BY DEF StartPeriod, StopPeriod
<1>8. tool' = "ready" => AbortInv'
  BY DEF AbortInv
<1>9. CASE Next
  <2>1. CASE \E t \in Thread : RangeExit(t) \/ StreamExit(t) \/ ControlExit(t)
    BY <1>2, <1>4, <1>8, <2>1
  <2>2. CASE \E t \in Thread, named \in BOOLEAN : MarkA(t, named) \/ RangeEnter(t, named)
    BY <1>4, <1>8, <2>2
  <2>3. CASE \E t \in Thread, s \in Stream : StreamEnter(t, s)
    BY <1>4, <1>8, <2>3
  <2>4. CASE \E t \in Thread, stack \in {"rename", "stream"} : DestroyStack(t, stack)
    BY <1>4, <1>8, <2>4
  <2>5. CASE \E t \in Thread, op \in {"pause", "resume"} : ControlEnter(t, op)
    BY <1>4, <1>8, <2>5
  <2>6. CASE \E t \in Thread, kind \in LaunchKinds, targeted \in BOOLEAN, sampled \in BOOLEAN :
               Launch(t, kind, targeted, sampled)
    BY <1>5, <1>8, <2>6
  <2>7. CASE \E r \in pending : DeliverRecord(r) \/ \E valid \in BOOLEAN : DeliverSample(r, valid)
    BY <1>6, <1>8, <2>7
  <2> QED BY <1>1, <1>7, <1>8, <1>9, <2>1, <2>2, <2>3, <2>4, <2>5, <2>6, <2>7 DEF Next
<1> QED BY <1>3, <1>9

(* A range takes its own region off its thread's stack, in a program that names its ranges
   and does not mark inside of them, whatever its threads do. *)
THEOREM PopsTakeTheirOwn == Spec => []PopsMatchPushes
<1>1. Init => StackInv /\ AbortInv
  <2>1. Init => AbortInv
    BY DEF Init, ServicesInit, AbortInv
  <2> QED BY <2>1, StackStart
<1>2. StackInv /\ AbortInv /\ [Next]_vars => (StackInv /\ AbortInv)'
  BY StackStep, AbortStep
<1>3. StackInv /\ AbortInv => PopsMatchPushes
  <2> SUFFICES ASSUME StackInv, AbortInv PROVE PopsMatchPushes
    OBVIOUS
  <2>1. ASSUME NEW t \in Thread, Renames(t), Plain(log[t])
        PROVE  Len(ranges[t]) = Cardinality(Live(log[t]))
    <3>1. Stacked(t, ranges[t], log[t])
      BY <2>1 DEF StackInv, ThreadInv, StackOf
    <3>2. ranges[t] \in Seq(Thread \X Nat) /\ log[t] \in Events
      BY DEF StackInv, StackTypes
    <3> QED BY <3>1, <3>2, StackedHeight
  <2> QED BY <2>1 DEF AbortInv, PopsMatchPushes
<1> QED BY <1>1, <1>2, <1>3, PTL DEF Spec

-----------------------------------------------------------------------------
Regions == {NoRegion} \cup (Thread \X Nat)

Streams == Stream \cup {0}

(* What a record of a launch has to say. *)
Exact(l, region, stream) ==
  /\ stream = IF l.kind \in RequestKinds THEN l.stream ELSE 0
  /\ l.plain => region = IF l.kind = "kernel_dispatch" THEN l.region ELSE NoRegion

(* A bounded set of numbers has a greatest. *)
LEMMA GreatestNumber ==
  ASSUME NEW T, NEW n \in Nat, T \subseteq 1 .. n, T # {}
  PROVE  \E x \in T : \A y \in T : y <= x
<1> DEFINE Greater == {ss \in Nat \X Nat : ss[1] < ss[2]}
           B == {m \in Nat : \A y \in T : y <= m}
<1>1. IsWellFoundedOn(Greater, Nat)
  BY NatLessThanWellFounded DEF OpToRel
<1>2. \A x, y \in Nat : <<y, x>> \in Greater <=> y < x
  OBVIOUS
<1>3. n \in B /\ B \subseteq Nat
  OBVIOUS
<1> HIDE DEF Greater, B
<1>4. PICK m \in B : \A k \in B : ~(<<k, m>> \in Greater)
  BY <1>1, <1>3, WFMin
<1>5. m \in Nat /\ \A k \in B : ~(k < m)
  BY <1>2, <1>3, <1>4
<1>6. m \in T
  <2> SUFFICES ASSUME m \notin T PROVE FALSE
    OBVIOUS
  <2>1. \A y \in T : y \in Nat /\ y > 0 /\ y <= m
    BY <1>4 DEF B
  <2>2. \A y \in T : y <= m - 1
    <3>1. \A y \in T : y # m
      OBVIOUS
    <3> QED BY <1>5, <2>1, <3>1
  <2>3. m - 1 \in Nat
    <3>1. PICK y \in T : TRUE
      OBVIOUS
    <3> QED BY <1>5, <2>1, <3>1
  <2>4. m - 1 \in B
    BY <2>2, <2>3 DEF B
  <2> QED BY <1>5, <2>3, <2>4
<1> QED BY <1>4, <1>6 DEF B

(* What the stacks and the program say are regions and streams. *)
LEMMA InfoTypes ==
  ASSUME StackInv, NEW t \in Thread, NEW kind
  PROVE  Innermost(t) \in Regions /\ Info(t, kind) \in [region : Regions, stream : Streams]
<1>1. /\ log[t] \in Events /\ ranges[t] \in Seq(Thread \X Nat) /\ streams[t] \in Seq(Stream)
  BY DEF StackInv, StackTypes
<1>2. Innermost(t) \in Regions
  <2>1. CASE Live(log[t]) = {} \/ "rename" \in gone[t]
    BY <2>1 DEF Innermost, Regions
  <2>2. CASE ~(Live(log[t]) = {} \/ "rename" \in gone[t])
    <3> DEFINE top == CHOOSE i \in Live(log[t]) : \A j \in Live(log[t]) : j <= i
    <3>1. Live(log[t]) \subseteq 1 .. Len(log[t]) /\ Len(log[t]) \in Nat
      BY <1>1, LiveRange
    <3>2. \E i \in Live(log[t]) : \A j \in Live(log[t]) : j <= i
      BY <2>2, <3>1, GreatestNumber
    <3>3. top \in Live(log[t])
      BY <3>2
    <3>4. top \in Nat
      BY <3>1, <3>3
    <3>5. Innermost(t) = <<t, top>>
      BY <2>2 DEF Innermost
    <3> HIDE DEF top
    <3> QED BY <3>4, <3>5 DEF Regions
  <2> QED BY <2>1, <2>2
<1>3. CurrentStream(t) \in Streams
  <2>1. CASE streams[t] = <<>>
    BY <2>1 DEF CurrentStream, Streams
  <2>2. CASE streams[t] # <<>>
    <3>1. streams[t][Len(streams[t])] \in Stream
      BY <1>1, <2>2
    <3> QED BY <2>2, <3>1 DEF CurrentStream, Streams, Last
  <2> QED BY <2>1, <2>2
<1>4. RenameEnabled(t, kind) => Last(ranges[t]) \in Regions
  <2>1. ranges[t] # <<>> => ranges[t][Len(ranges[t])] \in Thread \X Nat
    BY <1>1
  <2> QED BY <2>1 DEF RenameEnabled, Last, Regions
<1>5. /\ (IF RenameEnabled(t, kind) THEN Last(ranges[t]) ELSE NoRegion) \in Regions
      /\ (IF StreamEnabled(t) THEN CurrentStream(t) ELSE 0) \in Streams
  BY <1>3, <1>4 DEF Regions, Streams
<1> QED BY <1>2, <1>5 DEF Info

(* What the struct of a launch says is right, and what is said without one. *)
LEMMA InfoExact ==
  ASSUME ServiceInv, StackInv, tool = "ready", ~DummyCallbacks(config),
         NEW t \in Thread, NEW kind \in LaunchKinds, NEW ctx \in active, Traces(ctx, kind),
         NEW l, l.kind = kind, l.region = Innermost(t), l.plain = Plain(log[t]),
         l.stream = IF StreamEnabled(t) THEN on_stream[t] ELSE 0
  PROVE  /\ Correlated(t, ctx, kind) => /\ kind \in RequestKinds
                                        /\ Exact(l, Info(t, kind).region, Info(t, kind).stream)
         /\ ~Correlated(t, ctx, kind) => Exact(l, NoRegion, 0)
<1>1. services = ServicesOf(config) /\ active \ {"client"} = start_context(config) \ {"client"}
  BY DEF ServiceInv
<1>2. kind \in Kinds
  BY RenameAssumption
<1>3. ctx \in {"client", "counters"}
  BY <1>1, <1>2, ServicesTell
<1>4. Service(ctx, "request", kind) \in services <=> kind \in RequestKinds
  <2>1. Service(ctx, "request", kind) \in services => kind \in RequestKinds
    BY <1>1, <1>2, ServicesTell
  <2>2. kind \in RequestKinds => Service(ctx, "request", kind) \in services
    BY <1>1, <1>2, ServicesTell
  <2> QED BY <2>1, <2>2
<1>5. config.benchmark # "disabled_contexts_overhead"
  <2>1. CASE ctx = "client"
    BY <2>1 DEF ServiceInv
  <2>2. CASE ctx = "counters"
    BY <1>1, <2>2 DEF start_context
  <2> QED BY <1>3, <2>1, <2>2
<1>6. "rename" \in active /\ "hip_stream" \in active
  BY <1>1, <1>5 DEF start_context, ToStart
<1>7. /\ Renames(t) <=> "rename" \notin gone[t]
      /\ TracksStreams(t) <=> StreamEnabled(t)
  BY <1>6 DEF Renames, TracksStreams, StreamEnabled
<1>8. StreamEnabled(t) => CurrentStream(t) = on_stream[t]
  <2>1. ASSUME StreamEnabled(t) PROVE CurrentStream(t) = on_stream[t]
    <3>1. streams[t] = IF on_stream[t] = 0 THEN <<>> ELSE <<on_stream[t]>>
      BY <1>7, <2>1 DEF StackInv, ThreadInv, StreamsOf
    <3>2. CASE on_stream[t] = 0
      BY <3>1, <3>2 DEF CurrentStream
    <3>3. CASE on_stream[t] # 0
      <4>1. streams[t] = <<on_stream[t]>>
        BY <3>1, <3>3
      <4>2. streams[t] # <<>> /\ Len(streams[t]) = 1 /\ streams[t][1] = on_stream[t]
        BY <4>1
      <4> QED BY <4>2 DEF CurrentStream, Last
    <3> QED BY <3>2, <3>3
  <2> QED BY <2>1
<1>9. ASSUME Plain(log[t]), "rename" \notin gone[t]
      PROVE  /\ ranges[t] = <<>> => Innermost(t) = NoRegion
             /\ ranges[t] # <<>> => Innermost(t) = Last(ranges[t])
  <2>1. /\ Stacked(t, ranges[t], log[t]) /\ ranges[t] \in Seq(Thread \X Nat)
        /\ log[t] \in Events
    BY <1>7, <1>9 DEF StackInv, ThreadInv, StackOf, StackTypes
  <2>2. /\ ranges[t] = <<>> <=> Live(log[t]) = {}
        /\ ranges[t] # <<>> =>
             ranges[t][Len(ranges[t])]
               = <<t, CHOOSE i \in Live(log[t]) : \A j \in Live(log[t]) : j <= i>>
    BY <2>1, StackedTop
  <2> QED BY <1>9, <2>2 DEF Innermost, Last
<1>10. "rename" \in gone[t] => Innermost(t) = NoRegion
  BY DEF Innermost
<1>11. Info(t, kind).region = IF RenameEnabled(t, kind) THEN Last(ranges[t]) ELSE NoRegion
  BY DEF Info
<1>12. Info(t, kind).stream = IF StreamEnabled(t) THEN CurrentStream(t) ELSE 0
  BY DEF Info
<1>13. ASSUME Plain(log[t]), kind = "kernel_dispatch"
       PROVE  /\ RenameEnabled(t, kind) => Innermost(t) = Last(ranges[t])
              /\ ~RenameEnabled(t, kind) => Innermost(t) = NoRegion
  BY <1>9, <1>10, <1>13 DEF RenameEnabled
<1>14. "kernel_dispatch" \in RequestKinds
  BY DEF RequestKinds
<1>15. kind # "kernel_dispatch" => ~RenameEnabled(t, kind)
  BY DEF RenameEnabled
<1>16. ASSUME Correlated(t, ctx, kind)
       PROVE  kind \in RequestKinds /\ Exact(l, Info(t, kind).region, Info(t, kind).stream)
  <2>1. kind \in RequestKinds
    BY <1>4, <1>16 DEF Correlated
  <2>2. Info(t, kind).stream = l.stream
    BY <1>8, <1>12
  <2>3. l.plain => Info(t, kind).region = IF kind = "kernel_dispatch" THEN l.region ELSE NoRegion
    BY <1>11, <1>13, <1>15
  <2> QED BY <2>1, <2>2, <2>3 DEF Exact
<1>17. ASSUME ~Correlated(t, ctx, kind) PROVE Exact(l, NoRegion, 0)
  <2>1. CASE kind \notin RequestKinds
    BY <1>14, <2>1 DEF Exact
  <2>2. CASE kind \in RequestKinds
    <3>1. ~RenameEnabled(t, kind) /\ ~StreamEnabled(t)
      BY <1>4, <1>17, <2>2 DEF Correlated
    <3> QED BY <1>13, <2>2, <3>1 DEF Exact
  <2> QED BY <2>1, <2>2
<1> QED BY <1>16, <1>17

-----------------------------------------------------------------------------
LaunchRecord ==
  [thread : Thread, kind : LaunchKinds, targeted : BOOLEAN, region : Regions,
   plain : BOOLEAN, stream : Streams, wanted : BOOLEAN]

RecordTypes ==
  /\ launched \in Seq(LaunchRecord)
  /\ heap \subseteq [launch : 1 .. Len(launched), context : {"client", "counters"},
                     info : [region : Regions, stream : Streams]]
  /\ pending \subseteq [launch : 1 .. Len(launched),
                        context : {"client", "counters", "samples"}, ptr : BOOLEAN]
  /\ \A r \in written : r.launch \in 0 .. Len(launched) /\ r.stream \in Streams
  /\ DummyCallbacks(config) => written = {}

(* A struct says what its launch was, it is the only one of its launch and context, and it
   is there for a record that is pending, if there is one to come. *)
StructInv(h) ==
  /\ launched[h.launch].kind \in RequestKinds
  /\ ~DummyCallbacks(config) => Exact(launched[h.launch], h.info.region, h.info.stream)
  /\ \A g \in heap : g.launch = h.launch /\ g.context = h.context => g = h
  /\ \/ Unrecorded(h)
     \/ [launch |-> h.launch, context |-> h.context, ptr |-> TRUE] \in pending

(* A record that is pending has its struct, or nothing is to be said of its launch. *)
PendingInv(r) ==
  /\ r.context = "counters" => "counters" \in active
  /\ r.context = "samples" => ~r.ptr
  /\ r.ptr => \E h \in heap : h.launch = r.launch /\ h.context = r.context
  /\ ~r.ptr /\ r.context # "samples" /\ ~DummyCallbacks(config) =>
       Exact(launched[r.launch], NoRegion, 0)

WrittenInv(r) ==
  r.launch # 0 /\ r.context # "samples" => Exact(launched[r.launch], r.region, r.stream)

(* What is recorded of a launch. *)
LaunchInv(n) ==
  IF DummyCallbacks(config) THEN ~launched[n].targeted
  ELSE /\ (\E r \in pending \cup written : r.launch = n /\ r.context = "client")
            <=> launched[n].wanted /\ launched[n].kind \in config.options
       /\ (\E r \in pending \cup written : r.launch = n /\ r.context = "samples") =>
            launched[n].wanted

RecordInv ==
  /\ RecordTypes
  /\ \A h \in heap : StructInv(h)
  /\ \A r \in pending : PendingInv(r)
  /\ \A r \in written : WrittenInv(r)
  /\ \A n \in 1 .. Len(launched) : LaunchInv(n)

LEMMA RecordStart == Init => RecordInv
<1> SUFFICES ASSUME Init PROVE RecordInv
  OBVIOUS
<1>1. heap = {} /\ pending = {} /\ written = {} /\ launched = <<>>
  BY DEF Init
<1>2. launched \in Seq(LaunchRecord) /\ Len(launched) = 0
  BY <1>1
<1>3. \A n \in 1 .. Len(launched) : FALSE
  BY <1>2
<1> QED BY <1>1, <1>2, <1>3 DEF RecordInv, RecordTypes

(* An operation is launched. *)
LEMMA RecordLaunch ==
  ASSUME ServiceInv, StackInv, RecordInv, NEW t \in Thread, NEW kind \in LaunchKinds,
         NEW targeted \in BOOLEAN, NEW sampled \in BOOLEAN, Launch(t, kind, targeted, sampled)
  PROVE  RecordInv'
<1> DEFINE n == Len(launched) + 1
           traced == {ctx \in active : Traces(ctx, kind)}
           correlated == {ctx \in traced : Correlated(t, ctx, kind)}
           recorded == {ctx \in traced : \/ Service(ctx, "buffer", kind) \in services
                                         \/ ctx = "counters" /\ targeted}
           l == [thread |-> t, kind |-> kind, targeted |-> targeted,
                 region |-> Innermost(t), plain |-> Plain(log[t]),
                 stream |-> IF StreamEnabled(t) THEN on_stream[t] ELSE 0,
                 wanted |-> wanted]
           info == Info(t, kind)
           H == {[launch |-> n, context |-> ctx, info |-> info] : ctx \in correlated}
           P == {[launch |-> n, context |-> ctx, ptr |-> ctx \in correlated] : ctx \in recorded}
           S == IF sampled THEN {Sample(n)} ELSE {}
<1>1. /\ tool = "ready" /\ UNCHANGED <<config, active, services, written>>
      /\ targeted => kind = "kernel_dispatch" /\ ~DummyCallbacks(config)
      /\ sampled => Sampling
      /\ heap' = heap \cup H /\ pending' = (pending \cup P) \cup S
      /\ launched' = Append(launched, l)
  BY DEF Launch, Act, serviceVars
<1>2. services = ServicesOf(config) /\ (wanted <=> "client" \in active) /\ wanted \in BOOLEAN
  BY <1>1 DEF ServiceInv
<1>3. kind \in Kinds
  BY RenameAssumption
<1>4. \A ctx : /\ Traces(ctx, kind) => ctx \in {"client", "counters"}
               /\ Service(ctx, "buffer", kind) \in services <=>
                    ctx = "client" /\ kind \in config.options
                    /\ config.benchmark # "sdk_callback_overhead"
               /\ Service(ctx, "buffer", kind) \in services => Traces(ctx, kind)
  BY <1>2, <1>3, ServicesTell
<1>5. Traces("client", kind) => \/ Service("client", "buffer", kind) \in services
                                \/ DummyCallbacks(config)
                                \/ /\ config.advanced_thread_trace
                                   /\ kind = "kernel_dispatch" /\ kind \notin config.options
  BY <1>2, <1>3, ServicesTell
<1>6. Innermost(t) \in Regions /\ info \in [region : Regions, stream : Streams]
  BY InfoTypes
<1>7. l \in LaunchRecord
  <2>1. on_stream[t] \in Streams /\ 0 \in Streams
    BY DEF StackInv, StackTypes, Streams
  <2>2. Plain(log[t]) \in BOOLEAN
    BY DEF Plain
  <2>3. (IF StreamEnabled(t) THEN on_stream[t] ELSE 0) \in Streams
    BY <2>1
  <2> QED BY <1>2, <1>6, <2>2, <2>3 DEF LaunchRecord
<1>8. /\ l.kind = kind /\ l.region = Innermost(t) /\ l.plain = Plain(log[t])
      /\ l.stream = IF StreamEnabled(t) THEN on_stream[t] ELSE 0
      /\ l.targeted = targeted /\ l.wanted = wanted
  OBVIOUS
<1> HIDE DEF l, info
<1>9. ASSUME ~DummyCallbacks(config), NEW ctx \in traced
      PROVE  /\ ctx \in correlated => kind \in RequestKinds /\ Exact(l, info.region, info.stream)
             /\ ctx \notin correlated => Exact(l, NoRegion, 0)
  <2>1. ctx \in active /\ Traces(ctx, kind)
    OBVIOUS
  <2>2. /\ Correlated(t, ctx, kind) =>
             kind \in RequestKinds /\ Exact(l, Info(t, kind).region, Info(t, kind).stream)
        /\ ~Correlated(t, ctx, kind) => Exact(l, NoRegion, 0)
    BY <1>1, <1>8, <1>9, <2>1, InfoExact
  <2> QED BY <2>2 DEF info
<1>10. \A ctx \in correlated : kind \in RequestKinds
  <2>1. \A ctx \in correlated : Service(ctx, "request", kind) \in services
    BY DEF Correlated
  <2> QED BY <1>2, <1>3, <2>1, ServicesTell
<1>11. /\ traced \subseteq active /\ traced \subseteq {"client", "counters"}
       /\ correlated \subseteq traced /\ recorded \subseteq traced
  BY <1>4
<1>12. /\ launched \in Seq(LaunchRecord) /\ Len(launched) \in Nat
       /\ launched' \in Seq(LaunchRecord) /\ Len(launched') = n /\ launched'[n] = l
       /\ \A i \in 1 .. Len(launched) : launched'[i] = launched[i] /\ i \in 1 .. n /\ i # n
       /\ n \in 1 .. n /\ n # 0 /\ 0 .. Len(launched) \subseteq 0 .. n
       /\ \A i \in 1 .. n : i = n \/ i \in 1 .. Len(launched)
  <2>1. launched \in Seq(LaunchRecord) /\ Len(launched) \in Nat
    BY DEF RecordInv, RecordTypes
  <2>2. launched' \in Seq(LaunchRecord) /\ Len(launched') = n
    BY <1>1, <1>7, <2>1
  <2>3. launched'[n] = l /\ \A i \in 1 .. Len(launched) : launched'[i] = launched[i]
    BY <1>1, <1>7, <2>1
  <2> QED BY <2>1, <2>2, <2>3
<1>13. "client" \in recorded <=> "client" \in active /\ kind \in config.options
                                 /\ config.benchmark # "sdk_callback_overhead"
  BY <1>4
<1>14. \A ctx \in correlated : ctx \in recorded \/ IF ctx = "counters" THEN ~targeted
         ELSE \/ DummyCallbacks(config)
              \/ /\ config.advanced_thread_trace
                 /\ kind = "kernel_dispatch" /\ kind \notin config.options
  BY <1>4, <1>5
<1>15. /\ \A h \in H : h.launch = n /\ h.context \in correlated /\ h.info = info
                       /\ h = [launch |-> n, context |-> h.context, info |-> info]
       /\ \A ctx \in recorded \cap correlated : [launch |-> n, context |-> ctx, ptr |-> TRUE] \in P
       /\ \A ctx \in correlated : \E h \in H : h.launch = n /\ h.context = ctx
       /\ \A ctx \in recorded : \E r \in P : r.launch = n /\ r.context = ctx
  <2>1. \A ctx \in recorded \cap correlated : [launch |-> n, context |-> ctx, ptr |-> TRUE] \in P
    <3>1. \A ctx \in recorded \cap correlated : (ctx \in correlated) = TRUE
      OBVIOUS
    <3> HIDE DEF correlated, recorded, n
    <3> QED BY <3>1
  <2> HIDE DEF correlated, recorded, n
  <2>2. \A h \in H : h.launch = n /\ h.context \in correlated /\ h.info = info
                    /\ h = [launch |-> n, context |-> h.context, info |-> info]
    OBVIOUS
  <2>3. \A ctx \in correlated : \E h \in H : h.launch = n /\ h.context = ctx
    <3>1. \A ctx \in correlated : [launch |-> n, context |-> ctx, info |-> info] \in H
      OBVIOUS
    <3> HIDE DEF H
    <3> QED BY <3>1
  <2>4. \A ctx \in recorded : \E r \in P : r.launch = n /\ r.context = ctx
    <3>1. \A ctx \in recorded : [launch |-> n, context |-> ctx, ptr |-> ctx \in correlated] \in P
      OBVIOUS
    <3> HIDE DEF P
    <3> QED BY <3>1
  <2> QED BY <2>1, <2>2, <2>3, <2>4
<1>16. /\ \A r \in P : r.launch = n /\ r.context \in recorded /\ r.ptr \in BOOLEAN
                       /\ (r.ptr <=> r.context \in correlated)
                       /\ r = [launch |-> n, context |-> r.context, ptr |-> r.ptr]
       /\ \A r \in S : sampled /\ r = Sample(n)
  <2> HIDE DEF correlated, recorded, n
  <2>1. ASSUME NEW r \in P
        PROVE  /\ r.launch = n /\ r.context \in recorded /\ r.ptr \in BOOLEAN
               /\ (r.ptr <=> r.context \in correlated)
               /\ r = [launch |-> n, context |-> r.context, ptr |-> r.ptr]
    <3>1. PICK ctx \in recorded :
                 r = [launch |-> n, context |-> ctx, ptr |-> ctx \in correlated]
      OBVIOUS
    <3>2. r.launch = n /\ r.context = ctx /\ r.ptr = (ctx \in correlated)
      BY <3>1
    <3>3. (ctx \in correlated) \in BOOLEAN
      OBVIOUS
    <3> QED BY <3>1, <3>2, <3>3
  <2>2. \A r \in S : sampled /\ r = Sample(n)
    OBVIOUS
  <2> QED BY <2>1, <2>2
<1>17. Sample(n) = [launch |-> n, context |-> "samples", ptr |-> FALSE]
  BY DEF Sample
<1> HIDE DEF n, traced, correlated, recorded, H, P, S
<1>18. \A h \in heap : h.launch \in 1 .. Len(launched) /\ h.context \in {"client", "counters"}
  BY DEF RecordInv, RecordTypes
<1>19. \A r \in pending : r.launch \in 1 .. Len(launched)
  BY DEF RecordInv, RecordTypes
<1>20. RecordTypes'
  <2>1. \A h \in H : h \in [launch : 1 .. n, context : {"client", "counters"},
                            info : [region : Regions, stream : Streams]]
    BY <1>6, <1>11, <1>12, <1>15
  <2>2. \A r \in P : r \in [launch : 1 .. n, context : {"client", "counters", "samples"},
                            ptr : BOOLEAN]
    BY <1>11, <1>12, <1>16
  <2>3. \A r \in S : r \in [launch : 1 .. n, context : {"client", "counters", "samples"},
                            ptr : BOOLEAN]
    <3>1. [launch |-> n, context |-> "samples", ptr |-> FALSE]
            \in [launch : 1 .. n, context : {"client", "counters", "samples"}, ptr : BOOLEAN]
      BY <1>12
    <3> QED BY <1>16, <1>17, <3>1
  <2>4. 1 .. Len(launched) \subseteq 1 .. n
    BY <1>12
  <2>5. \A h \in heap : h \in [launch : 1 .. n, context : {"client", "counters"},
                               info : [region : Regions, stream : Streams]]
    BY <2>4 DEF RecordInv, RecordTypes
  <2>6. \A r \in pending : r \in [launch : 1 .. n,
                                  context : {"client", "counters", "samples"}, ptr : BOOLEAN]
    BY <2>4 DEF RecordInv, RecordTypes
  <2>7. \A r \in written' : r.launch \in 0 .. n /\ r.stream \in Streams
    BY <1>1, <1>12 DEF RecordInv, RecordTypes
  <2>8. DummyCallbacks(config') => written' = {}
    BY <1>1 DEF RecordInv, RecordTypes
  <2> QED BY <1>1, <1>12, <2>1, <2>2, <2>3, <2>5, <2>6, <2>7, <2>8 DEF RecordTypes
<1>21. ASSUME NEW h \in heap PROVE StructInv(h)'
  <2>1. StructInv(h) /\ launched'[h.launch] = launched[h.launch] /\ h.launch # n
    BY <1>12, <1>18 DEF RecordInv
  <2>2. Unrecorded(h)' = Unrecorded(h)
    BY <1>1, <2>1 DEF Unrecorded
  <2>3. \A g \in heap' : g.launch = h.launch /\ g.context = h.context => g = h
    BY <1>1, <1>15, <2>1 DEF StructInv
  <2> QED BY <1>1, <2>1, <2>2, <2>3 DEF StructInv
<1>22. ASSUME NEW h \in H PROVE StructInv(h)'
  <2>1. /\ h.launch = n /\ h.context \in correlated /\ h.info = info /\ launched'[h.launch] = l
        /\ h.context \in traced
    BY <1>11, <1>12, <1>15
  <2>2. l.kind \in RequestKinds
    BY <1>8, <1>10, <2>1
  <2>3. ~DummyCallbacks(config) => Exact(l, h.info.region, h.info.stream)
    BY <1>9, <2>1
  <2>4. \A g \in heap' : g.launch = h.launch /\ g.context = h.context => g = h
    <3>1. \A g \in heap : g.launch # n
      BY <1>12, <1>18
    <3>2. \A g \in H : g.context = h.context => g = h
      BY <1>15
    <3> QED BY <1>1, <2>1, <3>1, <3>2
  <2>5. Unrecorded(h)' \/ [launch |-> h.launch, context |-> h.context, ptr |-> TRUE] \in pending'
    <3>1. CASE h.context \in recorded
      BY <1>1, <1>15, <2>1, <3>1
    <3>2. CASE h.context \notin recorded
      BY <1>1, <1>8, <1>14, <2>1, <3>2 DEF Unrecorded
    <3> QED BY <3>1, <3>2
  <2> QED BY <1>1, <2>1, <2>2, <2>3, <2>4, <2>5 DEF StructInv
<1>23. ASSUME NEW r \in pending PROVE PendingInv(r)'
  <2>1. PendingInv(r) /\ launched'[r.launch] = launched[r.launch]
    BY <1>12, <1>19 DEF RecordInv
  <2> QED BY <1>1, <2>1 DEF PendingInv
<1>24. ASSUME NEW r \in P PROVE PendingInv(r)'
  <2>1. /\ r.launch = n /\ r.context \in recorded /\ (r.ptr <=> r.context \in correlated)
        /\ r.context \in traced /\ launched'[r.launch] = l
    BY <1>11, <1>12, <1>16
  <2>2. r.context \in active' /\ r.context # "samples"
    BY <1>1, <1>11, <2>1
  <2>3. r.ptr => \E h \in heap' : h.launch = r.launch /\ h.context = r.context
    BY <1>1, <1>15, <2>1
  <2>4. ~r.ptr /\ ~DummyCallbacks(config) => Exact(l, NoRegion, 0)
    BY <1>9, <2>1
  <2> QED BY <1>1, <2>1, <2>2, <2>3, <2>4 DEF PendingInv
<1>25. ASSUME NEW r \in S PROVE PendingInv(r)'
  <2>1. r.context = "samples" /\ r.ptr = FALSE
    BY <1>16, <1>17
  <2> QED BY <2>1 DEF PendingInv
<1>26. ASSUME NEW r \in written' PROVE WrittenInv(r)'
  <2>1. r \in written /\ WrittenInv(r) /\ r.launch \in 0 .. Len(launched)
    BY <1>1 DEF RecordInv, RecordTypes
  <2>2. r.launch # 0 => launched'[r.launch] = launched[r.launch]
    BY <1>12, <2>1
  <2> QED BY <2>1, <2>2 DEF WrittenInv
<1>27. ASSUME NEW i \in 1 .. Len(launched) PROVE LaunchInv(i)'
  <2>1. LaunchInv(i) /\ launched'[i] = launched[i] /\ i # n
    BY <1>12 DEF RecordInv
  <2>2. \A r \in pending' \cup written' : r.launch = i => r \in pending \cup written
    BY <1>1, <1>16, <1>17, <2>1
  <2>3. pending \cup written \subseteq pending' \cup written'
    BY <1>1
  <2> QED BY <1>1, <2>1, <2>2, <2>3 DEF LaunchInv
<1>28. ASSUME NEW i, i = n PROVE LaunchInv(i)'
  <2>1. CASE DummyCallbacks(config)
    BY <1>1, <1>8, <1>12, <1>28, <2>1 DEF LaunchInv
  <2>2. CASE ~DummyCallbacks(config)
    <3>1. \A r \in pending' \cup written' : r.launch = n => r \in P \cup S
      <4>1. \A r \in pending : r.launch # n
        BY <1>12, <1>19
      <4>2. \A r \in written : r.launch # n
        <5>1. \A r \in written : r.launch \in 0 .. Len(launched)
          BY DEF RecordInv, RecordTypes
        <5>2. n \notin 0 .. Len(launched)
          BY <1>12 DEF n
        <5> QED BY <5>1, <5>2
      <4> QED BY <1>1, <4>1, <4>2
    <3>2. (\E r \in pending' \cup written' : r.launch = n /\ r.context = "client")
          <=> "client" \in recorded
      <4>1. ASSUME NEW r \in pending' \cup written', r.launch = n, r.context = "client"
            PROVE  "client" \in recorded
        <5>1. r \in P \cup S
          BY <3>1, <4>1
        <5>2. r \notin S
          BY <1>16, <1>17, <4>1
        <5> QED BY <1>16, <4>1, <5>1, <5>2
      <4>2. ASSUME "client" \in recorded
            PROVE  \E r \in pending' \cup written' : r.launch = n /\ r.context = "client"
        <5>1. PICK r \in P : r.launch = n /\ r.context = "client"
          BY <1>15, <4>2
        <5> QED BY <1>1, <5>1
      <4> QED BY <4>1, <4>2
    <3>3. "client" \in recorded <=> l.wanted /\ l.kind \in config.options
      BY <1>2, <1>8, <1>13, <2>2 DEF DummyCallbacks
    <3>4. ASSUME NEW r \in pending' \cup written', r.launch = n, r.context = "samples"
          PROVE  l.wanted
      <4>1. r \in S
        <5>1. r \notin P
          BY <1>11, <1>16, <3>4
        <5> QED BY <3>1, <3>4, <5>1
      <4>2. "client" \in active
        BY <1>1, <1>16, <4>1 DEF Sampling
      <4> QED BY <1>2, <1>8, <4>2
    <3> QED BY <1>1, <1>12, <1>28, <2>2, <3>2, <3>3, <3>4 DEF LaunchInv
  <2> QED BY <2>1, <2>2
<1>29. \A h \in heap' : StructInv(h)'
  BY <1>1, <1>21, <1>22
<1>30. \A r \in pending' : PendingInv(r)'
  BY <1>1, <1>23, <1>24, <1>25
<1>31. \A i \in 1 .. Len(launched)' : LaunchInv(i)'
  BY <1>12, <1>27, <1>28
<1> QED BY <1>20, <1>26, <1>29, <1>30, <1>31 DEF RecordInv

(* A record leaves the buffer; with it goes its struct, unless none needs to be there, and
   what is written instead says the same. *)
LEMMA RecordDelivered ==
  ASSUME RecordInv, NEW r \in pending, pending' = pending \ {r},
         UNCHANGED <<config, active, launched>>, heap' \subseteq heap,
         \A g \in heap \ heap' : r.ptr /\ g.launch = r.launch /\ g.context = r.context,
         \A g \in heap' : \/ Unrecorded(g)
                          \/ ~(r.ptr /\ g.launch = r.launch /\ g.context = r.context),
         written \subseteq written', DummyCallbacks(config) => written' = written,
         \A w \in written' \ written :
           /\ w.launch = r.launch /\ w.context = r.context
           /\ w.stream \in Streams /\ WrittenInv(w),
         ~DummyCallbacks(config) /\ r.context = "client" =>
           \E w \in written' : w.launch = r.launch /\ w.context = "client"
  PROVE  RecordInv'
<1>1. /\ r \in [launch : 1 .. Len(launched), context : {"client", "counters", "samples"},
                ptr : BOOLEAN]
      /\ pending \subseteq [launch : 1 .. Len(launched),
                            context : {"client", "counters", "samples"}, ptr : BOOLEAN]
      /\ launched \in Seq(LaunchRecord) /\ Len(launched) \in Nat
  BY DEF RecordInv, RecordTypes
<1>2. r.launch \in 1 .. Len(launched) /\ r.launch \in 0 .. Len(launched)
  BY <1>1
<1>3. RecordTypes'
  BY <1>2 DEF RecordInv, RecordTypes
<1>4. ASSUME NEW h \in heap' PROVE StructInv(h)'
  <2>1. StructInv(h) /\ Unrecorded(h)' = Unrecorded(h)
    BY DEF RecordInv, Unrecorded
  <2>2. ASSUME ~Unrecorded(h)
        PROVE  [launch |-> h.launch, context |-> h.context, ptr |-> TRUE] \in pending'
    <3>1. [launch |-> h.launch, context |-> h.context, ptr |-> TRUE] \in pending
      BY <2>1, <2>2 DEF StructInv
    <3>2. ~(r.ptr /\ h.launch = r.launch /\ h.context = r.context)
      BY <2>2
    <3> QED BY <3>1, <3>2
  <2> QED BY <2>1, <2>2 DEF StructInv
<1>5. ASSUME NEW q \in pending' PROVE PendingInv(q)'
  <2>1. q \in pending /\ q # r /\ PendingInv(q)
    BY DEF RecordInv
  <2>2. ASSUME q.ptr PROVE \E h \in heap' : h.launch = q.launch /\ h.context = q.context
    <3>1. PICK h \in heap : h.launch = q.launch /\ h.context = q.context
      BY <2>1, <2>2 DEF PendingInv
    <3>2. h \in heap'
      <4>1. SUFFICES ASSUME h \notin heap' PROVE FALSE
        OBVIOUS
      <4>2. r.ptr /\ h.launch = r.launch /\ h.context = r.context
        BY <4>1
      <4>3. /\ q.launch = r.launch /\ q.context = r.context /\ q.ptr = r.ptr
        <5>1. q.ptr = TRUE /\ r.ptr = TRUE
          BY <1>1, <2>1, <2>2, <4>2
        <5> QED BY <3>1, <4>2, <5>1
      <4> QED BY <1>1, <2>1, <4>3
    <3> QED BY <3>1, <3>2
  <2> QED BY <2>1, <2>2 DEF PendingInv
<1>6. ASSUME NEW w \in written' PROVE WrittenInv(w)'
  BY DEF RecordInv, WrittenInv
<1>7. ASSUME NEW n \in 1 .. Len(launched) PROVE LaunchInv(n)'
  <2>1. LaunchInv(n)
    BY DEF RecordInv
  <2>2. CASE DummyCallbacks(config)
    BY <2>1, <2>2 DEF LaunchInv
  <2>3. CASE ~DummyCallbacks(config)
    <3>1. ASSUME NEW q \in pending' \cup written'
          PROVE  \E p \in pending \cup written : p.launch = q.launch /\ p.context = q.context
      OBVIOUS
    <3>2. ASSUME NEW p \in pending \cup written, p.context = "client"
          PROVE  \E q \in pending' \cup written' : q.launch = p.launch /\ q.context = "client"
      BY <2>3, <3>2
    <3>3. (\E q \in pending' \cup written' : q.launch = n /\ q.context = "client")
          <=> \E p \in pending \cup written : p.launch = n /\ p.context = "client"
      BY <3>1, <3>2
    <3>4. (\E q \in pending' \cup written' : q.launch = n /\ q.context = "samples")
          => \E p \in pending \cup written : p.launch = n /\ p.context = "samples"
      BY <3>1
    <3> QED BY <2>1, <2>3, <3>3, <3>4 DEF LaunchInv
  <2> QED BY <2>2, <2>3
<1>8. \A n \in 1 .. Len(launched)' : LaunchInv(n)'
  BY <1>7
<1> QED BY <1>3, <1>4, <1>5, <1>6, <1>8 DEF RecordInv

(* A record of an operation is delivered. *)
LEMMA RecordDeliver ==
  ASSUME RecordInv, NEW r \in pending, DeliverRecord(r)
  PROVE  RecordInv'
<1>1. /\ r.context # "samples" /\ pending' = pending \ {r}
      /\ UNCHANGED <<config, active, launched>>
  BY DEF DeliverRecord, serviceVars, historyVars
<1>2. /\ r \in [launch : 1 .. Len(launched), context : {"client", "counters", "samples"},
                ptr : BOOLEAN]
      /\ PendingInv(r)
  BY DEF RecordInv, RecordTypes
<1>3. /\ \A h \in heap : StructInv(h) /\ h.info.stream \in Streams
      /\ 0 \in Streams /\ RequestKinds \subseteq StreamKinds
  BY DEF RecordInv, RecordTypes, Streams, RequestKinds, StreamKinds
<1>4. CASE DummyCallbacks(config)
  <2>1. heap' = heap /\ written' = written
    BY <1>4 DEF DeliverRecord
  <2>2. ASSUME NEW g \in heap, g.launch = r.launch PROVE Unrecorded(g)
    <3>1. LaunchInv(g.launch)
      BY <1>2, <2>2 DEF RecordInv
    <3>2. ~launched[g.launch].targeted
      BY <1>4, <3>1 DEF LaunchInv
    <3> QED BY <1>4, <3>2 DEF Unrecorded
  <2> QED BY <1>1, <1>4, <2>1, <2>2, RecordDelivered
<1>5. CASE ~DummyCallbacks(config) /\ r.ptr
  <2>1. PICK h \in heap : h.launch = r.launch /\ h.context = r.context
    BY <1>2, <1>5 DEF PendingInv
  <2>2. \A g \in heap : g.launch = r.launch /\ g.context = r.context => g = h
    BY <1>3, <2>1 DEF StructInv
  <2>3. InfoOf(r) = h
    BY <2>1, <2>2 DEF InfoOf
  <2>4. launched[r.launch].kind \in StreamKinds
    BY <1>3, <2>1 DEF StructInv
  <2> DEFINE w == [launch |-> r.launch, context |-> r.context, region |-> h.info.region,
                   stream |-> h.info.stream]
  <2>5. heap' = heap \ {h} /\ written' = written \cup {w}
    BY <1>5, <2>3, <2>4 DEF DeliverRecord, GetStreamId, Freed
  <2>6. WrittenInv(w) /\ w.stream \in Streams
    <3>1. Exact(launched[h.launch], h.info.region, h.info.stream)
      BY <1>3, <1>5, <2>1 DEF StructInv
    <3> QED BY <1>3, <2>1, <3>1 DEF WrittenInv
  <2>7. w \in written' /\ w.launch = r.launch /\ w.context = r.context
    BY <2>5
  <2> HIDE DEF w
  <2>8. \A g \in heap \ heap' : r.ptr /\ g.launch = r.launch /\ g.context = r.context
    BY <1>5, <2>1, <2>5
  <2>9. \A g \in heap' : ~(r.ptr /\ g.launch = r.launch /\ g.context = r.context)
    BY <2>2, <2>5
  <2>10. \A v \in written' \ written : v = w
    BY <2>5
  <2>11. \A v \in written' \ written :
           /\ v.launch = r.launch /\ v.context = r.context
           /\ v.stream \in Streams /\ WrittenInv(v)
    BY <2>6, <2>7, <2>10
  <2>12. heap' \subseteq heap /\ written \subseteq written'
    BY <2>5
  <2> QED BY <1>1, <1>5, <2>7, <2>8, <2>9, <2>11, <2>12, RecordDelivered
<1>6. CASE ~DummyCallbacks(config) /\ ~r.ptr
  <2> DEFINE w == [launch |-> r.launch, context |-> r.context, region |-> NoRegion,
                   stream |-> 0]
  <2>1. heap' = heap /\ written' = written \cup {w}
    BY <1>6 DEF DeliverRecord, GetStreamId
  <2>2. WrittenInv(w) /\ w.stream \in Streams
    <3>1. Exact(launched[r.launch], NoRegion, 0)
      BY <1>1, <1>2, <1>6 DEF PendingInv
    <3> QED BY <1>3, <3>1 DEF WrittenInv
  <2>3. w \in written' /\ w.launch = r.launch /\ w.context = r.context
    BY <2>1
  <2> HIDE DEF w
  <2>4. \A v \in written' \ written : v = w
    BY <2>1
  <2>5. \A v \in written' \ written :
          /\ v.launch = r.launch /\ v.context = r.context
          /\ v.stream \in Streams /\ WrittenInv(v)
    BY <2>2, <2>3, <2>4
  <2>6. heap' \subseteq heap /\ written \subseteq written'
    BY <2>1
  <2> QED BY <1>1, <1>6, <2>1, <2>3, <2>5, <2>6, RecordDelivered
<1> QED BY <1>4, <1>5, <1>6

(* A PC sample is delivered. *)
LEMMA RecordSample ==
  ASSUME RecordInv, NEW r \in pending, NEW valid \in BOOLEAN, DeliverSample(r, valid)
  PROVE  RecordInv'
<1>1. /\ r.context = "samples" /\ pending' = pending \ {r}
      /\ UNCHANGED <<config, active, launched, heap>>
  BY DEF DeliverSample, serviceVars, historyVars
<1>2. ~r.ptr
  BY <1>1 DEF RecordInv, PendingInv
<1> DEFINE w == [launch |-> r.launch, context |-> "samples", region |-> NoRegion, stream |-> 0]
<1>3. \/ written' = written
      \/ ~DummyCallbacks(config) /\ written' = written \cup {w}
  BY DEF DeliverSample
<1>4. /\ w.launch = r.launch /\ w.context = r.context /\ w.stream \in Streams /\ WrittenInv(w)
  BY <1>1 DEF Streams, WrittenInv
<1> HIDE DEF w
<1>5. \A v \in written' \ written :
        /\ v.launch = r.launch /\ v.context = r.context /\ v.stream \in Streams /\ WrittenInv(v)
  BY <1>3, <1>4
<1>6. written \subseteq written' /\ (DummyCallbacks(config) => written' = written)
  BY <1>3
<1>7. heap' \subseteq heap /\ heap \ heap' = {}
  BY <1>1
<1> QED BY <1>1, <1>2, <1>5, <1>6, <1>7, RecordDelivered

(* The steps that leave structs and the records of operations alone. *)
LEMMA RecordFrame ==
  ASSUME RecordInv, UNCHANGED <<config, heap, pending, launched>>,
         active \subseteq active' \cup {"client"}, written \subseteq written',
         DummyCallbacks(config) => written' = written,
         \A w \in written' \ written : w.launch = 0 /\ w.stream = 0
  PROVE  RecordInv'
<1>1. Len(launched) \in Nat /\ launched \in Seq(LaunchRecord)
  BY DEF RecordInv, RecordTypes
<1>2. RecordTypes'
  BY <1>1 DEF RecordInv, RecordTypes, Streams
<1>3. ASSUME NEW h \in heap' PROVE StructInv(h)'
  BY DEF RecordInv, StructInv, Unrecorded
<1>4. ASSUME NEW r \in pending' PROVE PendingInv(r)'
  BY DEF RecordInv, PendingInv
<1>5. ASSUME NEW w \in written' PROVE WrittenInv(w)'
  BY DEF RecordInv, WrittenInv
<1>6. ASSUME NEW n \in 1 .. Len(launched) PROVE LaunchInv(n)'
  <2>1. LaunchInv(n) /\ n # 0
    BY <1>1 DEF RecordInv
  <2>2. \A r \in pending' \cup written' : r.launch = n => r \in pending \cup written
    BY <2>1
  <2>3. pending \cup written \subseteq pending' \cup written'
    OBVIOUS
  <2> QED BY <2>1, <2>2, <2>3 DEF LaunchInv
<1>7. \A n \in 1 .. Len(launched)' : LaunchInv(n)'
  BY <1>6
<1> QED BY <1>2, <1>3, <1>4, <1>5, <1>7 DEF RecordInv

(* It is invariant. *)
LEMMA RecordStep == ServiceInv /\ StackInv /\ RecordInv /\ [Next]_vars => RecordInv'
<1> SUFFICES ASSUME ServiceInv, StackInv, RecordInv, [Next]_vars PROVE RecordInv'
  OBVIOUS
<1> DEFINE Frame == /\ UNCHANGED <<config, heap, pending, launched, written>>
                    /\ active \subseteq active' \cup {"client"}
<1>1. Frame => RecordInv'
  BY RecordFrame
<1>2. ASSUME NEW t \in Thread, NEW named \in BOOLEAN, NEW s, NEW stack, NEW op,
             \/ MarkA(t, named) \/ RangeEnter(t, named) \/ RangeExit(t)
             \/ StreamEnter(t, s) \/ StreamExit(t) \/ DestroyStack(t, stack)
             \/ ControlEnter(t, op)
      PROVE  Frame
  BY <1>2 DEF MarkA, RangeEnter, RangeExit, StreamEnter, StreamExit, DestroyStack, ControlEnter,
              Paused, serviceVars, recordVars
<1>3. StartPeriod \/ StopPeriod => Frame
  BY DEF StartPeriod, StopPeriod, recordVars
<1>4. Load => Frame
  BY DEF Load, tool_init, ServiceInv, recordVars
<1>5. UNCHANGED vars => Frame
  BY DEF vars, serviceVars, historyVars, recordVars
<1> HIDE DEF Frame
<1>6. ASSUME NEW t \in Thread, ControlExit(t) PROVE RecordInv'
  <2>1. /\ UNCHANGED <<config, heap, pending, launched>>
        /\ active \subseteq active' \cup {"client"}
        /\ \/ written' = written
           \/ Controls /\ written' = written \cup {[launch |-> 0, context |-> "pause_resume",
                                                    region |-> NoRegion, stream |-> 0]}
    BY <1>6 DEF ControlExit, Resumed
  <2>2. /\ written \subseteq written' /\ (DummyCallbacks(config) => written' = written)
        /\ \A w \in written' \ written : w.launch = 0 /\ w.stream = 0
    BY <2>1 DEF Controls
  <2> QED BY <2>1, <2>2, RecordFrame
<1>7. CASE Next
  <2>1. CASE \E t \in Thread : RangeExit(t) \/ StreamExit(t) \/ ControlExit(t)
    <3>1. ASSUME NEW t \in Thread, RangeExit(t) \/ StreamExit(t) PROVE Frame
      BY <1>2, <3>1
    <3> QED BY <1>1, <1>6, <2>1, <3>1
  <2>2. CASE \E t \in Thread, named \in BOOLEAN : MarkA(t, named) \/ RangeEnter(t, named)
    BY <1>1, <1>2, <2>2
  <2>3. CASE \E t \in Thread, s \in Stream : StreamEnter(t, s)
    BY <1>1, <1>2, <2>3
  <2>4. CASE \E t \in Thread, stack \in {"rename", "stream"} : DestroyStack(t, stack)
    BY <1>1, <1>2, <2>4
  <2>5. CASE \E t \in Thread, op \in {"pause", "resume"} : ControlEnter(t, op)
    BY <1>1, <1>2, <2>5
  <2>6. CASE \E t \in Thread, kind \in LaunchKinds, targeted \in BOOLEAN, sampled \in BOOLEAN :
               Launch(t, kind, targeted, sampled)
    BY <2>6, RecordLaunch
  <2>7. CASE \E r \in pending : DeliverRecord(r) \/ \E valid \in BOOLEAN : DeliverSample(r, valid)
    BY <2>7, RecordDeliver, RecordSample
  <2> QED BY <1>1, <1>3, <1>4, <1>7, <2>1, <2>2, <2>3, <2>4, <2>5, <2>6, <2>7 DEF Next
<1> QED BY <1>1, <1>5, <1>7

(* All of it is invariant. *)
LEMMA RenameInvariant == Spec => [](ServiceInv /\ StackInv /\ RecordInv)
<1>1. Init => ServiceInv /\ StackInv /\ RecordInv
  BY ServiceStart, StackStart, RecordStart
<1>2. ServiceInv /\ StackInv /\ RecordInv /\ [Next]_vars
        => (ServiceInv /\ StackInv /\ RecordInv)'
  BY ServiceStep, StackStep, RecordStep
<1> QED BY <1>1, <1>2, PTL DEF Spec

-----------------------------------------------------------------------------
(* The stacks, the structs, the records and the mode of recording stay of their types, the
   position among the rounds of a period included. *)
THEOREM TypeCorrect == Spec => []RenameTypeOK
<1>1. ServiceInv /\ StackInv /\ RecordInv => RenameTypeOK
  <2> SUFFICES ASSUME ServiceInv, StackInv, RecordInv PROVE RenameTypeOK
    OBVIOUS
  <2>1. launched \in Seq(LaunchRecord) /\ DOMAIN launched = 1 .. Len(launched)
    BY DEF RecordInv, RecordTypes
  <2>2. ASSUME NEW t \in Thread, NEW i \in DOMAIN ranges[t]
        PROVE  ranges[t][i] \in {t} \X (1 .. MaxActions)
    BY DEF StackInv, ThreadInv, StackOf
  <2>3. \A h \in heap : h.launch \in DOMAIN launched /\ h.info.stream \in Stream \cup {0}
    BY <2>1 DEF RecordInv, RecordTypes, Streams
  <2>4. pending \subseteq [launch : DOMAIN launched, context : active \cup {"client", "samples"},
                           ptr : BOOLEAN]
    <3>1. ASSUME NEW r \in pending
          PROVE  r \in [launch : DOMAIN launched, context : active \cup {"client", "samples"},
                        ptr : BOOLEAN]
      <4>1. /\ r \in [launch : 1 .. Len(launched),
                      context : {"client", "counters", "samples"}, ptr : BOOLEAN]
            /\ r.context = "counters" => "counters" \in active
        BY DEF RecordInv, RecordTypes, PendingInv
      <4>2. r.context \in active \cup {"client", "samples"}
        BY <4>1
      <4> QED BY <2>1, <4>1, <4>2
    <3> QED BY <3>1
  <2>5. \A r \in written : r.launch \in DOMAIN launched \cup {0} /\ r.stream \in Stream \cup {0}
    BY <2>1 DEF RecordInv, RecordTypes, Streams
  <2>6. /\ streams \in [Thread -> Seq(Stream)] /\ gone \in [Thread -> SUBSET {"rename", "stream"}]
        /\ on_stream \in [Thread -> Stream \cup {0}] /\ actions \in 0 .. MaxActions
    BY DEF StackInv, StackTypes
  <2>7. /\ ServicesTypeOK /\ control \in [Thread -> {"none", "pause", "resume"}]
        /\ periods \in Seq(Nat) /\ in_period \in BOOLEAN
        /\ round \in Nat /\ (periods = <<>> => round = 0 /\ ~in_period)
        /\ round > 0 => round < Head(periods)
        /\ wanted \in BOOLEAN
    BY DEF ServiceInv
  <2> QED BY <2>2, <2>3, <2>4, <2>5, <2>6, <2>7 DEF RenameTypeOK
<1> QED BY <1>1, RenameInvariant, PTL

(* get_stream_id: what is written with an operation is what held on its thread at the launch,
   whatever the threads did until the record was delivered. *)
THEOREM CorrelatedAtLaunch == Spec => []CorrelationExact
<1>1. RecordInv => CorrelationExact
  <2> SUFFICES ASSUME RecordInv, NEW r \in OperationRecords
               PROVE  LET l == launched[r.launch]
                          known == l.kind \in {"kernel_dispatch", "memory_copy",
                                               "memory_allocation", "hip_runtime_api"}
                      IN  /\ r.stream = IF known THEN l.stream ELSE 0
                          /\ l.plain => r.region = IF known /\ l.kind = "kernel_dispatch"
                                                     THEN l.region ELSE NoRegion
    BY DEF CorrelationExact
  <2>1. Exact(launched[r.launch], r.region, r.stream)
    BY DEF RecordInv, WrittenInv, OperationRecords
  <2> QED BY <2>1 DEF Exact, RequestKinds
<1> QED BY <1>1, RenameInvariant, PTL

(* set_kernel_rename_and_stream_correlation_id and get_stream_id: the struct of a record that
   is to come is there and the only one, and none is left behind but those of launches that
   have no record. *)
THEOREM StructsReturned == Spec => []InfosReturned
<1>1. RecordInv => InfosReturned
  <2> SUFFICES ASSUME RecordInv PROVE InfosReturned
    OBVIOUS
  <2>1. ASSUME NEW r \in pending, r.ptr
        PROVE  Cardinality({h \in heap : h.launch = r.launch /\ h.context = r.context}) = 1
    <3> DEFINE own == {h \in heap : h.launch = r.launch /\ h.context = r.context}
    <3>1. PICK h \in heap : h.launch = r.launch /\ h.context = r.context
      BY <2>1 DEF RecordInv, PendingInv
    <3>2. own = {h}
      BY <3>1 DEF RecordInv, StructInv
    <3> HIDE DEF own
    <3>3. Cardinality(own) = 1
      BY <3>2, FS_Singleton
    <3> QED BY <3>3 DEF own
  <2> QED BY <2>1 DEF RecordInv, StructInv, InfosReturned
<1> QED BY <1>1, RenameInvariant, PTL

(* The client context records what is launched while recording is asked for, and nothing
   else, however it was started and whoever pauses and resumes it. *)
THEOREM RecordsWhatIsWanted == Spec => []RegionsOnly
<1>1. RecordInv => RegionsOnly
  <2> SUFFICES ASSUME RecordInv, NEW n \in DOMAIN launched
               PROVE  LET dummies == config.benchmark \in {"sdk_buffered_overhead",
                                                           "sdk_callback_overhead",
                                                           "execution_profile"}
                          records == {r \in IF dummies THEN written ELSE pending \cup written :
                                        r.launch = n}
                      IN  /\ (\E r \in records : r.context = "client")
                               <=> launched[n].wanted /\ launched[n].kind \in config.options
                                   /\ ~dummies
                          /\ (\E r \in records : r.context = "samples") =>
                               launched[n].wanted /\ ~dummies
    BY DEF RegionsOnly
  <2>1. LaunchInv(n)
    BY DEF RecordInv, RecordTypes
  <2>2. CASE DummyCallbacks(config)
    <3>1. written = {}
      BY <2>2 DEF RecordInv, RecordTypes
    <3> QED BY <2>2, <3>1 DEF DummyCallbacks
  <2>3. CASE ~DummyCallbacks(config)
    BY <2>1, <2>3 DEF LaunchInv, DummyCallbacks
  <2> QED BY <2>2, <2>3
<1> QED BY <1>1, RenameInvariant, PTL
=============================================================================
