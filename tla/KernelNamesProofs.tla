------------------------- MODULE KernelNamesProofs -------------------------
(* A name in use is kept.  The argument: as long as the reference counts     *)
(* count the users, which they do for the names that no handler has lowered  *)
(* without a reference (RefsCountUsers), a loader that holds the lock and    *)
(* has seen the count at zero (CallsExclusive) deletes a name without users, *)
(* and nobody can become one, because taking a reference needs the lock.     *)
EXTENDS KernelNames, FiniteSetTheorems, TLAPS

(* The nodes that have been inserted are those of earlier announcements, and a call
   that is not over still has its own. *)
NodesFresh ==
  /\ \A a \in Addr : symbols[a] <= announced
  /\ \A n \in freed : n <= announced
  /\ \A l \in Loader :
       loader[l].at # "idle" =>
         /\ loader[l].node \in 1..announced
         /\ loader[l].node \notin freed
         /\ \A a \in Addr : symbols[a] # loader[l].node
  /\ \A l, m \in Loader :
       loader[l].at # "idle" /\ loader[m].at # "idle" /\ loader[l].node = loader[m].node => l = m

(* Different addresses have different nodes, and their names are not deleted. *)
NodesLive ==
  \A a \in Addr : symbols[a] # End =>
    /\ symbols[a] \notin freed
    /\ \A b \in Addr : symbols[a] = symbols[b] => a = b

(* Calls at work have addresses of their own, and what they found is still there; the
   one that is about to delete a name holds the lock, and the name has no users. *)
CallsExclusive ==
  /\ \A l \in Loader :
       /\ loader[l].at # "idle" => symbols[loader[l].addr] = loader[l].it
       /\ loader[l].at \in {"wait", "lock"} => loader[l].it # End
       /\ loader[l].at = "apply" /\ loader[l].it # End
            => owner = l /\ (untaken[loader[l].it] = 0 => refs[loader[l].it] = 0)
  /\ \A l, m \in Loader :
       loader[l].at # "idle" /\ loader[m].at # "idle" /\ loader[l].addr = loader[m].addr => l = m

(* An entry that took a reference has a node. *)
UsersHaveNodes == \A e \in taken : InUse(e) => it[e] \in Node

(* An abort stops the tool: until then the map is consistent. *)
NamesInv ==
  /\ TypeOK
  /\ NameKept
  /\ UsersHaveNodes
  /\ RefsCountUsers
  /\ ~aborted => NodesFresh /\ NodesLive /\ CallsExclusive

USE NamesAssumption

-----------------------------------------------------------------------------
LEMMA NamesInvInit == Init => NamesInv
<1> SUFFICES ASSUME Init PROVE NamesInv
  OBVIOUS
<1>1. TypeOK
  <2>1. loader \in [Loader -> [at : {"idle", "wait", "lock", "apply"}, addr : Addr,
                              free : BOOLEAN, it : Node \cup {End}, node : Node \cup {End}]]
    BY DEF Init, Call
  <2>2. announced \in 0..MaxAnnounced /\ dispatched \in 0..MaxDispatches
    BY DEF Init
  <2>3. /\ symbols \in [Addr -> Node \cup {End}]
        /\ refs \in [Node -> Int] /\ untaken \in [Node -> Nat] /\ taken \subseteq Entry
        /\ it \in [Entry -> Node \cup {End}]
    BY DEF Init
  <2>4. freed \subseteq Node /\ owner \in Loader \cup {None} /\ aborted \in BOOLEAN
    BY DEF Init
  <2>5. /\ pool \in [Entry -> {"free", "fetched", "coded", "running", "dumped"}]
        /\ kernel \in [Entry -> Addr]
    BY DEF Init
  <2> QED BY <2>1, <2>2, <2>3, <2>4, <2>5 DEF TypeOK
<1>2. NameKept
  BY DEF Init, NameKept, InUse
<1>3. RefsCountUsers
  <2> SUFFICES ASSUME NEW n \in Node PROVE refs[n] = Cardinality(Users(n)) - untaken[n]
    BY DEF RefsCountUsers
  <2>1. Users(n) = {}
    BY DEF Init, Users, InUse
  <2> QED BY <2>1, FS_EmptySet DEF Init
<1>4. NodesFresh /\ NodesLive /\ CallsExclusive
  BY DEF Init, NodesFresh, NodesLive, CallsExclusive, Call, End
<1>5. UsersHaveNodes
  BY DEF Init, UsersHaveNodes, InUse
<1> QED BY <1>1, <1>2, <1>3, <1>4, <1>5 DEF NamesInv

-----------------------------------------------------------------------------
LEMMA UsersFinite == TypeOK => \A n \in Node : IsFiniteSet(Users(n))
BY FS_Subset DEF Users, TypeOK

(* A node whose count is zero, and was only lowered for references, has no users. *)
LEMMA NoUsers ==
  ASSUME TypeOK, RefsCountUsers, NEW n \in Node, refs[n] = 0, untaken[n] = 0
  PROVE  \A e \in taken : InUse(e) => it[e] # n
<1>1. Users(n) = {}
  <2>1. IsFiniteSet(Users(n)) /\ Cardinality(Users(n)) \in Nat
    BY UsersFinite, FS_CardinalityType
  <2>2. Cardinality(Users(n)) = 0
    BY <2>1 DEF RefsCountUsers, TypeOK
  <2> QED BY <2>1, <2>2, FS_EmptySet
<1> QED BY <1>1 DEF Users

(* The runtime's calls touch neither the entries nor the counts, so the users of a
   name stay what they are; the names in use do if the map keeps them. *)
LEMMA UsersUntouched ==
  ASSUME RefsCountUsers, UNCHANGED <<refs, pool, it, taken, untaken>>
  PROVE  RefsCountUsers'
<1>1. ASSUME NEW n \in Node PROVE Users(n)' = Users(n)
  BY DEF Users, InUse
<1> QED BY <1>1 DEF RefsCountUsers

LEMMA FindPreserves ==
  ASSUME NamesInv, NEW l \in Loader, NEW a \in Addr, NEW free \in BOOLEAN,
         FindSymbol(l, a, free)
  PROVE  NamesInv'
<1> USE DEF FindSymbol, mapVars, poolVars
<1>1. TypeOK'
  <2>1. announced' \in 0..MaxAnnounced /\ announced + 1 \in Node
    BY DEF NamesInv, TypeOK, Node
  <2>2. loader' \in [Loader -> [at : {"idle", "wait", "lock", "apply"}, addr : Addr,
                               free : BOOLEAN, it : Node \cup {End}, node : Node \cup {End}]]
    BY <2>1 DEF NamesInv, TypeOK, Call
  <2> QED BY <2>1, <2>2 DEF NamesInv, TypeOK
<1>2. NameKept' /\ RefsCountUsers'
  BY UsersUntouched DEF NamesInv, NameKept, InUse
<1>3. NodesFresh'
  <2> USE DEF NamesInv, TypeOK, NodesFresh, Call
  <2>0. /\ announced \in Nat
        /\ \A b \in Addr : symbols[b] \in Nat /\ symbols[b] <= announced
        /\ \A n \in freed : n \in Nat /\ n <= announced
    BY DEF Node, End
  <2>1. (\A b \in Addr : symbols[b] <= announced') /\ (\A n \in freed : n <= announced')
    BY <2>0
  <2>2. ASSUME NEW m \in Loader, loader'[m].at # "idle"
        PROVE  /\ loader'[m].node \in 1..announced'
               /\ loader'[m].node \notin freed
               /\ \A b \in Addr : symbols[b] # loader'[m].node
    <3>1. CASE m = l
      BY <3>1 DEF Node, End
    <3>2. CASE m # l
      BY <2>2, <3>2
    <3> QED BY <3>1, <3>2
  <2>3. ASSUME NEW k \in Loader, NEW m \in Loader, loader'[k].at # "idle",
               loader'[m].at # "idle", loader'[k].node = loader'[m].node
        PROVE  k = m
    BY <2>3
  <2> QED BY <2>1, <2>2, <2>3
<1>4. NodesLive'
  BY DEF NamesInv, NodesLive
<1>5. CallsExclusive'
  BY DEF NamesInv, TypeOK, CallsExclusive, Call
<1>9. UsersHaveNodes'
  BY DEF NamesInv, UsersHaveNodes, InUse
<1> QED BY <1>9, <1>1, <1>2, <1>3, <1>4, <1>5 DEF NamesInv

LEMMA WaitPreserves ==
  ASSUME NamesInv, NEW l \in Loader, RefsDrained(l) \/ LockUnused(l)
  PROVE  NamesInv'
<1> USE DEF RefsDrained, LockUnused, StillUnused, mapVars, poolVars
<1>1. TypeOK'
  BY DEF NamesInv, TypeOK
<1>2. NameKept' /\ RefsCountUsers'
  BY UsersUntouched DEF NamesInv, NameKept, InUse
<1>3. NodesFresh'
  <2>1. UNCHANGED <<symbols, freed, announced>>
    OBVIOUS
  <2>2. \A m \in Loader :
          loader'[m].node = loader[m].node /\ (loader'[m].at # "idle" => loader[m].at # "idle")
    BY DEF NamesInv, TypeOK
  <2>3. NodesFresh
    BY DEF NamesInv, RefsDrained, LockUnused
  <2> HIDE DEF RefsDrained, LockUnused
  <2>4. ASSUME NEW m \in Loader, loader'[m].at # "idle"
        PROVE  /\ loader'[m].node \in 1..announced
               /\ loader'[m].node \notin freed
               /\ \A a \in Addr : symbols[a] # loader'[m].node
    <3>1. loader'[m].node = loader[m].node /\ loader[m].at # "idle"
      BY <2>2, <2>4
    <3>2. /\ loader[m].node \in 1..announced
          /\ loader[m].node \notin freed
          /\ \A a \in Addr : symbols[a] # loader[m].node
      BY <2>3, <3>1 DEF NodesFresh
    <3> QED BY <3>1, <3>2
  <2>5. ASSUME NEW k \in Loader, NEW m \in Loader, loader'[k].at # "idle",
               loader'[m].at # "idle", loader'[k].node = loader'[m].node
        PROVE  k = m
    <3>1. /\ loader[k].at # "idle" /\ loader[m].at # "idle"
          /\ loader[k].node = loader[m].node
      BY <2>2, <2>5
    <3> QED BY <2>3, <3>1 DEF NodesFresh
  <2>6. (\A a \in Addr : symbols[a] <= announced) /\ (\A n \in freed : n <= announced)
    BY <2>3 DEF NodesFresh
  <2> QED BY <2>1, <2>4, <2>5, <2>6 DEF NodesFresh
<1>4. NodesLive'
  BY DEF NamesInv, NodesLive
<1>5. CallsExclusive'
  BY DEF NamesInv, TypeOK, CallsExclusive
<1>9. UsersHaveNodes'
  BY DEF NamesInv, UsersHaveNodes, InUse
<1> QED BY <1>9, <1>1, <1>2, <1>3, <1>4, <1>5 DEF NamesInv

LEMMA InsertPreserves ==
  ASSUME NamesInv, NEW l \in Loader, InsertName(l)
  PROVE  NamesInv'
<1> USE DEF InsertName, Unlock, Leave, poolVars
<1>1. TypeOK'
  <2>1. symbols' \in [Addr -> Node \cup {End}]
    BY DEF NamesInv, TypeOK
  <2>2. loader' \in [Loader -> [at : {"idle", "wait", "lock", "apply"}, addr : Addr,
                               free : BOOLEAN, it : Node \cup {End}, node : Node \cup {End}]]
    BY DEF NamesInv, TypeOK, Call
  <2> QED BY <2>1, <2>2 DEF NamesInv, TypeOK
<1>2. NameKept'
  <2> SUFFICES ASSUME NEW e \in taken, InUse(e), untaken[it[e]] = 0
               PROVE  symbols'[kernel[e]] = it[e] /\ it[e] \notin freed
    BY DEF NameKept, InUse
  <2>1. symbols[kernel[e]] = it[e] /\ it[e] \notin freed /\ it[e] # End
    BY DEF NamesInv, NameKept, UsersHaveNodes, Node, End
  <2>2. symbols[loader[l].addr] = End
    BY DEF NamesInv, CallsExclusive
  <2> QED BY <2>1, <2>2 DEF NamesInv, TypeOK
<1>3. RefsCountUsers'
  BY UsersUntouched DEF NamesInv
<1>4. NodesFresh'
  BY DEF NamesInv, TypeOK, NodesFresh, Call, Node, End
<1>5. NodesLive'
  BY DEF NamesInv, TypeOK, NodesLive, NodesFresh
<1>6. CallsExclusive'
  BY DEF NamesInv, TypeOK, CallsExclusive, Call
<1>9. UsersHaveNodes'
  BY DEF NamesInv, UsersHaveNodes, InUse
<1> QED BY <1>9, <1>1, <1>2, <1>3, <1>4, <1>5, <1>6 DEF NamesInv

(* The name that a call is about to delete has no users. *)
LEMMA DeletedUnused ==
  ASSUME NamesInv, ~aborted, NEW l \in Loader, loader[l].at = "apply", loader[l].it # End
  PROVE  \A e \in taken : InUse(e) /\ untaken[it[e]] = 0 => it[e] # loader[l].it
<1> DEFINE n == loader[l].it
<1>1. n \in Node
  BY DEF NamesInv, TypeOK
<1>2. untaken[n] = 0 => refs[n] = 0
  BY DEF NamesInv, CallsExclusive
<1>3. CASE untaken[n] = 0
  <2>1. \A e \in taken : InUse(e) => it[e] # n
    BY <1>1, <1>2, <1>3, NoUsers DEF NamesInv
  <2> QED BY <2>1
<1>4. CASE untaken[n] # 0
  BY <1>4
<1> QED BY <1>3, <1>4

LEMMA ErasePreserves ==
  ASSUME NamesInv, NEW l \in Loader, EraseName(l)
  PROVE  NamesInv'
<1> USE DEF EraseName, Unlock, Leave, poolVars
<1>1. TypeOK'
  <2>1. symbols' \in [Addr -> Node \cup {End}] /\ freed' \subseteq Node
    BY DEF NamesInv, TypeOK
  <2>2. loader' \in [Loader -> [at : {"idle", "wait", "lock", "apply"}, addr : Addr,
                               free : BOOLEAN, it : Node \cup {End}, node : Node \cup {End}]]
    BY DEF NamesInv, TypeOK, Call
  <2> QED BY <2>1, <2>2 DEF NamesInv, TypeOK
<1>2. \A e \in taken : InUse(e) /\ untaken[it[e]] = 0 => it[e] # loader[l].it
  BY DeletedUnused DEF NamesInv
<1>3. NameKept'
  <2> SUFFICES ASSUME NEW e \in taken, InUse(e), untaken[it[e]] = 0
               PROVE  symbols'[kernel[e]] = it[e] /\ it[e] \notin freed'
    BY DEF NameKept, InUse
  <2>1. symbols[kernel[e]] = it[e] /\ it[e] \notin freed /\ it[e] # loader[l].it
    BY <1>2 DEF NamesInv, NameKept
  <2>2. symbols[loader[l].addr] = loader[l].it
    BY DEF NamesInv, CallsExclusive
  <2> QED BY <2>1, <2>2 DEF NamesInv, TypeOK
<1>4. RefsCountUsers'
  BY UsersUntouched DEF NamesInv
<1>5. NodesFresh'
  <2> USE DEF NamesInv, TypeOK, NodesFresh
  <2>1. symbols[loader[l].addr] = loader[l].it
    BY DEF CallsExclusive
  <2>2. (\A a \in Addr : symbols'[a] <= announced) /\ (\A n \in freed' : n <= announced)
    BY <2>1 DEF End
  <2>3. ASSUME NEW m \in Loader, loader'[m].at # "idle"
        PROVE  loader'[m] = loader[m] /\ loader[m].at # "idle"
    BY <2>3 DEF Call
  <2>4. ASSUME NEW m \in Loader, loader'[m].at # "idle"
        PROVE  /\ loader'[m].node \in 1..announced
               /\ loader'[m].node \notin freed'
               /\ \A a \in Addr : symbols'[a] # loader'[m].node
    <3>1. /\ loader[m].node \in 1..announced /\ loader[m].node \notin freed
          /\ \A a \in Addr : symbols[a] # loader[m].node
      BY <2>3, <2>4
    <3>2. loader[m].node # loader[l].it /\ loader[m].node # End
      BY <2>1, <3>1 DEF End
    <3>3. freed' = freed \cup {loader[l].it} /\ \A a \in Addr : symbols'[a] \in {symbols[a], End}
      OBVIOUS
    <3> QED BY <2>3, <2>4, <3>1, <3>2, <3>3
  <2>5. ASSUME NEW k \in Loader, NEW m \in Loader, loader'[k].at # "idle",
               loader'[m].at # "idle", loader'[k].node = loader'[m].node
        PROVE  k = m
    <3>1. /\ loader[k].at # "idle" /\ loader[m].at # "idle"
          /\ loader[k].node = loader[m].node
      BY <2>3, <2>5
    <3> QED BY <3>1
  <2>6. announced' = announced
    OBVIOUS
  <2> HIDE DEF NamesInv, TypeOK, EraseName
  <2> QED BY <2>2, <2>4, <2>5, <2>6
<1>6. NodesLive'
  BY DEF NamesInv, TypeOK, NodesLive, CallsExclusive
<1>7. CallsExclusive'
  BY DEF NamesInv, TypeOK, CallsExclusive, NodesLive, Call
<1>9. UsersHaveNodes'
  BY DEF NamesInv, UsersHaveNodes, InUse
<1> QED BY <1>9, <1>1, <1>3, <1>4, <1>5, <1>6, <1>7 DEF NamesInv

(* An abort leaves the map as it is; the name it deletes had no users. *)
LEMMA AbortPreserves ==
  ASSUME NamesInv, NEW l \in Loader, SetConflict(l) \/ FreeNotFound(l)
  PROVE  NamesInv'
<1> USE DEF SetConflict, FreeNotFound, mapVars, poolVars
<1>1. TypeOK'
  BY DEF NamesInv, TypeOK, Node, End
<1>2. NameKept'
  <2>1. CASE SetConflict(l)
    <3>1. \A e \in taken : InUse(e) /\ untaken[it[e]] = 0 => it[e] # loader[l].it
      BY <2>1, DeletedUnused
    <3> QED BY <2>1, <3>1 DEF NamesInv, NameKept, InUse
  <2>2. CASE FreeNotFound(l)
    BY <2>2 DEF NamesInv, NameKept, InUse
  <2> QED BY <2>1, <2>2
<1>3. RefsCountUsers'
  BY UsersUntouched DEF NamesInv
<1>9. UsersHaveNodes'
  BY DEF NamesInv, UsersHaveNodes, InUse
<1> QED BY <1>9, <1>1, <1>2, <1>3 DEF NamesInv

-----------------------------------------------------------------------------
(* Steps of a dispatch that neither take nor give back a reference. *)
LEMMA EntryStepPreserves ==
  ASSUME NamesInv, NEW e \in Entry,
         \/ \E a \in Addr, at \in {"fetched", "coded"} : FetchEntry(e, a, at)
         \/ AcquireNotFound(e) \/ DumpEntry(e) \/ CrashDangling(e)
  PROVE  NamesInv'
<1> USE DEF FetchEntry, AcquireNotFound, DumpEntry, CrashDangling, mapVars, poolVars
<1>1. TypeOK'
  <2>1. /\ pool' \in [Entry -> {"free", "fetched", "coded", "running", "dumped"}]
        /\ kernel' \in [Entry -> Addr]
    BY DEF NamesInv, TypeOK
  <2>2. aborted' \in BOOLEAN
    BY DEF NamesInv, TypeOK
  <2>4. dispatched \in 0..MaxDispatches
    BY DEF NamesInv, TypeOK
  <2>5. dispatched' = dispatched \/ (dispatched < MaxDispatches /\ dispatched' = dispatched + 1)
    OBVIOUS
  <2>6. dispatched' \in 0..MaxDispatches
    BY <2>4, <2>5
  <2>3. UNCHANGED <<symbols, refs, freed, owner, loader, announced, it, taken, untaken>>
    OBVIOUS
  <2> QED BY <2>1, <2>2, <2>3, <2>6 DEF NamesInv, TypeOK
<1>2. \A f \in Entry : /\ InUse(f)' <=> InUse(f)
                       /\ it'[f] = it[f] /\ taken' = taken /\ untaken' = untaken
                       /\ InUse(f) => kernel'[f] = kernel[f]
  BY DEF NamesInv, TypeOK, InUse
<1>3. NameKept'
  BY <1>2 DEF NamesInv, TypeOK, NameKept
<1>4. RefsCountUsers'
  <2>1. ASSUME NEW n \in Node PROVE Users(n)' = Users(n)
    BY <1>2 DEF NamesInv, TypeOK, Users
  <2> QED BY <1>2, <2>1 DEF NamesInv, RefsCountUsers
<1>5. ~aborted' => NodesFresh' /\ NodesLive' /\ CallsExclusive'
  BY DEF NamesInv, NodesFresh, NodesLive, CallsExclusive
<1>9. UsersHaveNodes'
  BY <1>2 DEF NamesInv, TypeOK, UsersHaveNodes
<1> QED BY <1>9, <1>1, <1>3, <1>4, <1>5 DEF NamesInv

(* A dispatch that comes with its kernel's code: nobody's reference changes. *)
LEMMA KeepPreserves ==
  ASSUME NamesInv, NEW e \in Entry, KeepKernelNameRef(e)
  PROVE  NamesInv'
<1> USE DEF KeepKernelNameRef, mapVars
<1>1. TypeOK'
  <2>1. pool' \in [Entry -> {"free", "fetched", "coded", "running", "dumped"}]
    BY DEF NamesInv, TypeOK
  <2>2. taken' \subseteq Entry
    BY DEF NamesInv, TypeOK
  <2> QED BY <2>1, <2>2 DEF NamesInv, TypeOK
<1>2. \A f \in taken' : f \in taken /\ f # e /\ (InUse(f)' <=> InUse(f))
  BY DEF NamesInv, TypeOK, InUse
<1>3. NameKept' /\ UsersHaveNodes'
  BY <1>2 DEF NamesInv, NameKept, UsersHaveNodes
<1>4. RefsCountUsers'
  <2>1. ~InUse(e)
    BY DEF InUse
  <2>2. ASSUME NEW n \in Node PROVE Users(n)' = Users(n)
    BY <1>2, <2>1 DEF Users
  <2> QED BY <2>2 DEF NamesInv, RefsCountUsers
<1>5. ~aborted' => NodesFresh' /\ NodesLive' /\ CallsExclusive'
  BY DEF NamesInv, NodesFresh, NodesLive, CallsExclusive
<1> QED BY <1>1, <1>3, <1>4, <1>5 DEF NamesInv

LEMMA AcquirePreserves ==
  ASSUME NamesInv, NEW e \in Entry, AcquireKernelNameRef(e)
  PROVE  NamesInv'
<1> USE DEF AcquireKernelNameRef, Referenced
<1> DEFINE node == symbols[kernel[e]]
<1>1. node \in Node /\ node \notin freed /\ ~InUse(e)
  BY DEF NamesInv, TypeOK, NodesLive, InUse, Node, End
<1>2. TypeOK'
  <2>1. refs' \in [Node -> Int]
    BY DEF NamesInv, TypeOK
  <2>2. it' \in [Entry -> Node \cup {End}] /\ taken' \subseteq Entry
    BY DEF NamesInv, TypeOK
  <2>3. pool' \in [Entry -> {"free", "fetched", "coded", "running", "dumped"}]
    BY DEF NamesInv, TypeOK
  <2>4. UNCHANGED <<symbols, freed, owner, loader, announced, kernel, untaken, dispatched, aborted>>
    OBVIOUS
  <2> QED BY <2>1, <2>2, <2>3, <2>4 DEF NamesInv, TypeOK
<1>3. NameKept'
  BY <1>1 DEF NamesInv, TypeOK, NameKept, InUse
<1>4. RefsCountUsers'
  <2> SUFFICES ASSUME NEW n \in Node
               PROVE  refs'[n] = Cardinality(Users(n)') - untaken'[n]
    BY DEF RefsCountUsers
  <2>0. /\ refs[n] = Cardinality(Users(n)) - untaken[n] /\ refs[n] \in Int /\ untaken[n] \in Nat
        /\ IsFiniteSet(Users(n)) /\ Cardinality(Users(n)) \in Nat
    BY UsersFinite, FS_CardinalityType DEF NamesInv, RefsCountUsers, TypeOK
  <2>1. CASE n = node
    <3>1. Users(n)' = Users(n) \cup {e} /\ e \notin Users(n)
      BY <1>1, <2>1 DEF NamesInv, TypeOK, Users, InUse
    <3>2. Cardinality(Users(n) \cup {e}) = Cardinality(Users(n)) + 1
      BY <2>0, <3>1, FS_AddElement
    <3>3. refs'[n] = refs[n] + 1 /\ untaken'[n] = untaken[n]
      BY <2>1 DEF NamesInv, TypeOK
    <3> QED BY <2>0, <3>1, <3>2, <3>3
  <2>2. CASE n # node
    <3>1. Users(n)' = Users(n)
      BY <1>1, <2>2 DEF NamesInv, TypeOK, Users, InUse
    <3> QED BY <3>1, <2>2 DEF NamesInv, TypeOK, RefsCountUsers
  <2> QED BY <2>1, <2>2
<1>5. NodesFresh' /\ NodesLive'
  BY DEF NamesInv, NodesFresh, NodesLive
<1>6. CallsExclusive'
  BY DEF NamesInv, TypeOK, CallsExclusive
<1>9. UsersHaveNodes'
  BY <1>1 DEF NamesInv, TypeOK, UsersHaveNodes, InUse
<1> QED BY <1>9, <1>2, <1>3, <1>4, <1>5, <1>6 DEF NamesInv

(* The release of one hit lowers the counts of its nodes; it is recorded as untaken but
   where the entry gives back its own reference. *)
LEMMA ReleasePreserves ==
  ASSUME NamesInv, NEW e \in Entry, ReleaseKernelNameRef(e)
  PROVE  NamesInv'
<1>1. PICK hit \in Hits(e) :
         /\ refs' = Dereferenced(hit)
         /\ untaken' = [n \in Node |->
              IF n \in hit /\ ~(e \in taken /\ n = it[e]) THEN untaken[n] + 1 ELSE untaken[n]]
  BY DEF ReleaseKernelNameRef
<1>2. /\ it[e] \in Node => it[e] \in hit
      /\ pool[e] = "dumped" /\ pool' = [pool EXCEPT ![e] = "free"]
      /\ UNCHANGED <<symbols, freed, owner, loader, announced, kernel, it, taken, dispatched, aborted>>
      /\ ~aborted
  BY <1>1 DEF Hits, ReleaseKernelNameRef
<1>3. e \in taken => it[e] \in Node
  BY <1>2 DEF NamesInv, UsersHaveNodes, InUse
<1>4. ASSUME NEW n \in Node
      PROVE  /\ refs'[n] = IF n \in hit THEN refs[n] - 1 ELSE refs[n]
             /\ untaken'[n] = IF n \in hit /\ ~(e \in taken /\ n = it[e])
                               THEN untaken[n] + 1 ELSE untaken[n]
  BY <1>1 DEF Dereferenced
<1>5. TypeOK'
  <2>1. refs' \in [Node -> Int]
    BY <1>1 DEF NamesInv, TypeOK, Dereferenced
  <2>2. untaken' \in [Node -> Nat]
    BY <1>1 DEF NamesInv, TypeOK
  <2>3. pool' \in [Entry -> {"free", "fetched", "coded", "running", "dumped"}]
    BY <1>2 DEF NamesInv, TypeOK
  <2> QED BY <1>2, <2>1, <2>2, <2>3 DEF NamesInv, TypeOK
<1>6. \A n \in Node : untaken'[n] = 0 => untaken[n] = 0
  BY <1>4 DEF NamesInv, TypeOK
<1>7. \A f \in taken : InUse(f)' => InUse(f) /\ f # e
  BY <1>2 DEF NamesInv, TypeOK, InUse
<1>8. NameKept' /\ UsersHaveNodes'
  BY <1>2, <1>6, <1>7 DEF NamesInv, NameKept, UsersHaveNodes
<1>9. RefsCountUsers'
  <2> SUFFICES ASSUME NEW n \in Node
               PROVE  refs'[n] = Cardinality(Users(n)') - untaken'[n]
    BY DEF RefsCountUsers
  <2>0. /\ refs[n] = Cardinality(Users(n)) - untaken[n] /\ refs[n] \in Int /\ untaken[n] \in Nat
        /\ IsFiniteSet(Users(n)) /\ Cardinality(Users(n)) \in Nat
    BY UsersFinite, FS_CardinalityType DEF NamesInv, RefsCountUsers, TypeOK
  <2>1. CASE e \in taken /\ n = it[e]
    <3>1. Users(n)' = Users(n) \ {e} /\ e \in Users(n)
      BY <1>2, <2>1 DEF NamesInv, TypeOK, Users, InUse
    <3>2. Cardinality(Users(n) \ {e}) = Cardinality(Users(n)) - 1
      BY <2>0, <3>1, FS_RemoveElement
    <3>3. refs'[n] = refs[n] - 1 /\ untaken'[n] = untaken[n]
      BY <1>2, <1>4, <2>1
    <3> QED BY <2>0, <3>1, <3>2, <3>3
  <2>2. CASE ~(e \in taken /\ n = it[e])
    <3>1. Users(n)' = Users(n)
      BY <1>2, <2>2 DEF NamesInv, TypeOK, Users, InUse
    <3>2. CASE n \in hit
      BY <1>4, <2>0, <2>2, <3>1, <3>2
    <3>3. CASE n \notin hit
      BY <1>4, <2>0, <2>2, <3>1, <3>3
    <3> QED BY <3>2, <3>3
  <2> QED BY <2>1, <2>2
<1>10. NodesFresh' /\ NodesLive'
  BY <1>2 DEF NamesInv, NodesFresh, NodesLive
<1>11. CallsExclusive'
  <2>1. ASSUME NEW l \in Loader, loader[l].at = "apply", loader[l].it # End,
               untaken'[loader[l].it] = 0
        PROVE  refs'[loader[l].it] = 0
    <3> DEFINE n == loader[l].it
    <3>1. n \in Node /\ untaken[n] = 0 /\ refs[n] = 0
      BY <1>2, <1>6, <2>1 DEF NamesInv, TypeOK, CallsExclusive
    <3>2. ~(e \in taken /\ n = it[e])
      BY <1>2, <3>1, NoUsers DEF NamesInv, InUse
    <3>3. n \notin hit
      BY <1>4, <2>1, <3>1, <3>2
    <3> QED BY <1>4, <3>1, <3>3
  <2> QED BY <1>2, <2>1 DEF NamesInv, CallsExclusive
<1> QED BY <1>2, <1>5, <1>8, <1>9, <1>10, <1>11 DEF NamesInv

-----------------------------------------------------------------------------
LEMMA NamesInvStep == NamesInv /\ [Next]_vars => NamesInv'
<1> SUFFICES ASSUME NamesInv, [Next]_vars PROVE NamesInv'
  OBVIOUS
<1>1. ASSUME NEW l \in Loader, NEW a \in Addr, NEW free \in BOOLEAN, FindSymbol(l, a, free)
      PROVE  NamesInv'
  BY <1>1, FindPreserves
<1>2. ASSUME NEW l \in Loader, SetKernelNameRef(l) PROVE NamesInv'
  BY <1>2, WaitPreserves, InsertPreserves, ErasePreserves, AbortPreserves DEF SetKernelNameRef
<1>3. ASSUME NEW e \in Entry, NEW a \in Addr, NEW at \in {"fetched", "coded"},
             FetchEntry(e, a, at)
      PROVE  NamesInv'
  BY <1>3, EntryStepPreserves
<1>4. ASSUME NEW e \in Entry,
             AcquireKernelNameRef(e) \/ AcquireNotFound(e) \/ KeepKernelNameRef(e)
      PROVE  NamesInv'
  BY <1>4, AcquirePreserves, KeepPreserves, EntryStepPreserves
<1>5. ASSUME NEW e \in Entry, context_pool_handler(e) PROVE NamesInv'
  BY <1>5, ReleasePreserves, EntryStepPreserves DEF context_pool_handler
<1>6. CASE UNCHANGED vars
  <2> USE <1>6 DEF vars, mapVars, poolVars
  <2>1. TypeOK' /\ NameKept' /\ UsersHaveNodes'
    BY DEF NamesInv, TypeOK, NameKept, UsersHaveNodes, InUse
  <2>2. RefsCountUsers'
    BY UsersUntouched DEF NamesInv
  <2>3. ~aborted' => NodesFresh' /\ NodesLive' /\ CallsExclusive'
    BY DEF NamesInv, NodesFresh, NodesLive, CallsExclusive
  <2> QED BY <2>1, <2>2, <2>3 DEF NamesInv
<1> QED BY <1>1, <1>2, <1>3, <1>4, <1>5, <1>6 DEF Next, Rest

THEOREM NamesInvariant == Spec => []NamesInv
BY NamesInvInit, NamesInvStep, PTL DEF Spec

(***************************************************************************)
(* For any number of kernels, runtime threads and pool entries, the name   *)
(* of a kernel in flight whose dispatch took a reference is neither        *)
(* deleted nor replaced, although SetKernelNameRef reads the count without *)
(* the lock and unlocks a mutex it may not hold; a name whose count was    *)
(* lowered by the handler of a dispatch without a reference is excepted.   *)
(***************************************************************************)
THEOREM NamesAreKept == Spec => []NameKept
BY NamesInvariant, PTL DEF NamesInv

(***************************************************************************)
(* The reference count of every name is the number of its dispatches in    *)
(* flight less the releases without a reference that hit it, which is all  *)
(* that the branch of set_kernel_properties without AcquireKernelNameRef   *)
(* does to the counts; and the variables keep their types.                 *)
(***************************************************************************)
THEOREM NamesCounted == Spec => []RefsExact
BY NamesInvariant, PTL DEF NamesInv, RefsExact
=============================================================================
