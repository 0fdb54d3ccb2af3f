---------------------------- MODULE KernelNames ----------------------------
(***************************************************************************)
(* The kernel names of version1's pool mode.  The runtime announces the    *)
(* loading and unloading of kernels (hsa_ksymbol_cb), which inserts in and *)
(* erases from symbols_map_; dispatch_callback_opt takes an entry of the   *)
(* profiling pool and a reference to the kernel's name, and                *)
(* context_pool_handler gives both back when the kernel has run.  When the *)
(* profiler passes the kernel's code, no reference is taken: the handler   *)
(* then gives back one that the entry's earlier dispatch had, once more.   *)
(*                                                                         *)
(* A node of the map, and the name it owns, is identified by the number of *)
(* the announcement that inserts it: addresses are used again.  The pool   *)
(* and the runtime are not part of this repository.                        *)
(***************************************************************************)
EXTENDS FiniteSets, Integers

CONSTANTS
  Addr,          \* addresses of kernel objects
  Loader,        \* threads of the runtime that call hsa_ksymbol_cb
  Entry,         \* entries of the pool
  None,          \* no thread
  MaxAnnounced,  \* bound on the announcements
  MaxDispatches  \* bound on the dispatches

ASSUME NamesAssumption ==
  /\ None \notin Loader /\ IsFiniteSet(Entry)
  /\ MaxAnnounced \in Nat /\ MaxDispatches \in Nat

Node == 1..MaxAnnounced
End == 0                    \* symbols_map_->end()

VARIABLES
  symbols,    \* symbols_map_: the node of an address
  refs,       \* refs_count of a node, -k for the 64-bit number 2^64 - k
  freed,      \* history: the nodes whose name was deleted
  owner,      \* of mutex_
  loader,     \* a call of SetKernelNameRef: its progress, address, "free" and "it", and
              \* the node it would insert
  announced,  \* number of calls of hsa_ksymbol_cb
  pool,       \* progress of a pool entry
  kernel,     \* kernel_object of the dispatch that has the entry
  it,         \* kernel_name_it in the entry's payload, stale once it is released
  taken,      \* history: the entries whose last dispatch took a reference
  untaken,    \* history: how often a node's count was lowered by a handler whose
              \* dispatch had taken no reference to it
  dispatched, \* number of dispatches
  aborted     \* the tool has called abort

vars == <<symbols, refs, freed, owner, loader, announced, pool, kernel, it, taken,
          untaken, dispatched, aborted>>
mapVars == <<symbols, refs, freed, owner>>
poolVars == <<pool, kernel, it, taken, untaken, dispatched>>

Call(at, addr, free, found, node) ==
  [at |-> at, addr |-> addr, free |-> free, it |-> found, node |-> node]

(* OnLoadToolProp has opened the pool and set the callbacks. *)
Init ==
  /\ symbols = [a \in Addr |-> End]
  /\ refs = [n \in Node |-> 0]
  /\ freed = {}
  /\ owner = None
  /\ \E a \in Addr :
       /\ loader = [l \in Loader |-> Call("idle", a, FALSE, End, End)]
       /\ kernel = [e \in Entry |-> a]
  /\ announced = 0
  /\ pool = [e \in Entry |-> "free"]
  /\ it = [e \in Entry |-> End]
  /\ taken = {}
  /\ untaken = [n \in Node |-> 0]
  /\ dispatched = 0
  /\ aborted = FALSE

-----------------------------------------------------------------------------
(* hsa_ksymbol_cb up to the find, which does not hold the lock.  The runtime
   announces one thing at a time for one address. *)
FindSymbol(l, a, free) ==
  /\ ~aborted
  /\ loader[l].at = "idle"
  /\ announced < MaxAnnounced
  /\ \A m \in Loader : loader[m].at = "idle" \/ loader[m].addr # a
  /\ announced' = announced + 1
  /\ loader' = [loader EXCEPT ![l] =
       Call(IF symbols[a] = End THEN "apply" ELSE "wait", a, free, symbols[a], announced + 1)]
  /\ UNCHANGED <<mapVars, poolVars, aborted>>

(* while (refs_count != 0) sched_yield() *)
RefsDrained(l) ==
  /\ ~aborted
  /\ loader[l].at = "wait"
  /\ refs[loader[l].it] = 0
  /\ loader' = [loader EXCEPT ![l].at = "lock"]
  /\ UNCHANGED <<mapVars, announced, poolVars, aborted>>

(* Mutant of StillUnused: the count is not looked at again under the lock. *)
StillUnusedUnchecked(l) == TRUE

StillUnused(l) == refs[loader[l].it] = 0

(* mutex_.lock(), and back to waiting when a reference was taken meanwhile. *)
LockUnused(l) ==
  /\ ~aborted
  /\ loader[l].at = "lock"
  /\ owner = None
  /\ IF StillUnused(l)
     THEN owner' = l /\ loader' = [loader EXCEPT ![l].at = "apply"]
     ELSE owner' = owner /\ loader' = [loader EXCEPT ![l].at = "wait"]
  /\ UNCHANGED <<symbols, refs, freed, announced, poolVars, aborted>>

(* Mutant of Unlock: a mutex that can be unlocked by any thread. *)
UnlockOthers(l) == owner' = None

(* The trailing mutex_.unlock(), also when lock() was not called: unlocking a mutex
   of another thread, or of nobody, fails with EPERM, which is ignored. *)
Unlock(l) == owner' = IF owner = l THEN None ELSE owner

Leave(l) == loader' = [loader EXCEPT ![l] = Call("idle", @.addr, FALSE, End, End)]

(* A new name for an address that has none. *)
InsertName(l) ==
  /\ ~aborted
  /\ loader[l].at = "apply" /\ loader[l].it = End /\ ~loader[l].free
  /\ symbols' = [symbols EXCEPT ![loader[l].addr] = loader[l].node]
  /\ Unlock(l)
  /\ Leave(l)
  /\ UNCHANGED <<refs, freed, announced, poolVars, aborted>>

EraseName(l) ==
  /\ ~aborted
  /\ loader[l].at = "apply" /\ loader[l].it # End /\ loader[l].free
  /\ freed' = freed \cup {loader[l].it}
  /\ symbols' = [symbols EXCEPT ![loader[l].addr] = End]
  /\ Unlock(l)
  /\ Leave(l)
  /\ UNCHANGED <<refs, announced, poolVars, aborted>>

(* "to set kernel addr conflict", after the old name is deleted. *)
SetConflict(l) ==
  /\ ~aborted
  /\ loader[l].at = "apply" /\ loader[l].it # End /\ ~loader[l].free
  /\ freed' = freed \cup {loader[l].it}
  /\ aborted' = TRUE
  /\ UNCHANGED <<symbols, refs, owner, loader, announced, poolVars>>

(* "to free kernel addr not found" *)
FreeNotFound(l) ==
  /\ ~aborted
  /\ loader[l].at = "apply" /\ loader[l].it = End /\ loader[l].free
  /\ aborted' = TRUE
  /\ UNCHANGED <<mapVars, loader, announced, poolVars>>

SetKernelNameRef(l) ==
  \/ RefsDrained(l) \/ LockUnused(l)
  \/ InsertName(l) \/ EraseName(l) \/ SetConflict(l) \/ FreeNotFound(l)

-----------------------------------------------------------------------------
(* rocprofiler_pool_fetch, for a dispatch that comes with its kernel's code or not. *)
FetchEntry(e, a, at) ==
  /\ ~aborted
  /\ pool[e] = "free"
  /\ dispatched < MaxDispatches
  /\ dispatched' = dispatched + 1
  /\ pool' = [pool EXCEPT ![e] = at]
  /\ kernel' = [kernel EXCEPT ![e] = a]
  /\ UNCHANGED <<mapVars, loader, announced, it, taken, untaken, aborted>>

(* Mutant of Referenced: the name is used without a reference. *)
ReferencedNot(n) == refs

Referenced(n) == [refs EXCEPT ![n] = @ + 1]

(* set_kernel_properties without kernel_code: AcquireKernelNameRef, all of it under the
   lock, and the rest of dispatch_callback_opt, which makes the entry valid. *)
AcquireKernelNameRef(e) ==
  /\ ~aborted
  /\ pool[e] = "fetched"
  /\ owner = None
  /\ symbols[kernel[e]] # End
  /\ refs' = Referenced(symbols[kernel[e]])
  /\ it' = [it EXCEPT ![e] = symbols[kernel[e]]]
  /\ taken' = taken \cup {e}
  /\ pool' = [pool EXCEPT ![e] = "running"]
  /\ UNCHANGED <<symbols, freed, owner, loader, announced, kernel, untaken, dispatched, aborted>>

(* set_kernel_properties with kernel_code: the name is copied, and kernel_name_it stays
   what it was. *)
KeepKernelNameRef(e) ==
  /\ ~aborted
  /\ pool[e] = "coded"
  /\ taken' = taken \ {e}
  /\ pool' = [pool EXCEPT ![e] = "running"]
  /\ UNCHANGED <<mapVars, loader, announced, kernel, it, untaken, dispatched, aborted>>

(* "kernel addr is not found" *)
AcquireNotFound(e) ==
  /\ ~aborted
  /\ pool[e] = "fetched"
  /\ owner = None
  /\ symbols[kernel[e]] = End
  /\ aborted' = TRUE
  /\ UNCHANGED <<mapVars, loader, announced, poolVars>>

(* kernel_name_it does not point into the map: it was never set, or its node is erased. *)
Dangling(e) == \A a \in Addr : symbols[a] # it[e]

(* The kernel completes, and the pool calls context_pool_handler, which reads the name
   and dumps the entry under version1's own mutex. *)
DumpEntry(e) ==
  /\ ~aborted
  /\ pool[e] = "running"
  /\ pool' = [pool EXCEPT ![e] = "dumped"]
  /\ UNCHANGED <<mapVars, loader, announced, kernel, it, taken, untaken, dispatched, aborted>>

(* Using a dangling iterator, to read the name or to give the reference back, may end
   the program. *)
CrashDangling(e) ==
  /\ ~aborted
  /\ pool[e] \in {"running", "dumped"}
  /\ Dangling(e)
  /\ aborted' = TRUE
  /\ UNCHANGED <<mapVars, loader, announced, poolVars>>

(* The nodes whose counts a release lowers: its own, which counts for nothing when it
   is erased; one that was given the memory of an erased node is hit as well. *)
Hits(e) ==
  {{it[e]} \cap Node} \cup
    {({it[e]} \cap Node) \cup {symbols[a]} : a \in {b \in Addr : Dangling(e) /\ symbols[b] # End}}

(* Mutant of Dereferenced: the handler keeps the reference. *)
DereferencedNot(hit) == refs

Dereferenced(hit) == [n \in Node |-> IF n \in hit THEN refs[n] - 1 ELSE refs[n]]

(* The handler returns, and the pool has its entry back. *)
ReleaseKernelNameRef(e) ==
  /\ ~aborted
  /\ pool[e] = "dumped"
  /\ \E hit \in Hits(e) :
       /\ refs' = Dereferenced(hit)
       /\ untaken' = [n \in Node |->
            IF n \in hit /\ ~(e \in taken /\ n = it[e]) THEN untaken[n] + 1 ELSE untaken[n]]
  /\ pool' = [pool EXCEPT ![e] = "free"]
  /\ UNCHANGED <<symbols, freed, owner, loader, announced, kernel, it, taken, dispatched, aborted>>

context_pool_handler(e) ==
  DumpEntry(e) \/ ReleaseKernelNameRef(e) \/ CrashDangling(e)

-----------------------------------------------------------------------------
(* The application has ended, or the tool has stopped it; a loader may be left spinning
   (whether it should be is what AnnouncementReturns says). *)
Rest ==
  /\ \/ aborted
     \/ /\ announced = MaxAnnounced
        /\ \A l \in Loader :
             loader[l].at = "idle" \/ (loader[l].at = "wait" /\ refs[loader[l].it] # 0)
        /\ dispatched = MaxDispatches /\ \A e \in Entry : pool[e] = "free"
  /\ UNCHANGED vars

Next ==
  \/ \E l \in Loader :
       \/ \E a \in Addr, free \in BOOLEAN : FindSymbol(l, a, free)
       \/ SetKernelNameRef(l)
  \/ \E e \in Entry :
       \/ \E a \in Addr, at \in {"fetched", "coded"} : FetchEntry(e, a, at)
       \/ AcquireKernelNameRef(e) \/ AcquireNotFound(e) \/ KeepKernelNameRef(e)
       \/ context_pool_handler(e)
  \/ Rest

Spec == Init /\ [][Next]_vars

(* Threads inside the tool go on, and a kernel that was dispatched completes; nothing
   makes the runtime announce, or the application dispatch. *)
Fairness ==
  /\ \A l \in Loader : WF_vars(SetKernelNameRef(l))
  /\ \A e \in Entry :
       WF_vars(AcquireKernelNameRef(e) \/ AcquireNotFound(e) \/ KeepKernelNameRef(e)
                 \/ context_pool_handler(e))

FairSpec == Spec /\ Fairness

-----------------------------------------------------------------------------
InUse(e) == pool[e] \in {"running", "dumped"}

(* The dispatches in flight that have a reference to a name. *)
Users(n) == {e \in taken : InUse(e) /\ it[e] = n}

(* Types of the variables. *)
TypeOK ==
  /\ symbols \in [Addr -> Node \cup {End}]
  /\ refs \in [Node -> Int]
  /\ freed \subseteq Node
  /\ owner \in Loader \cup {None}
  /\ loader \in [Loader -> [at : {"idle", "wait", "lock", "apply"}, addr : Addr,
                            free : BOOLEAN, it : Node \cup {End}, node : Node \cup {End}]]
  /\ announced \in 0..MaxAnnounced
  /\ pool \in [Entry -> {"free", "fetched", "coded", "running", "dumped"}]
  /\ kernel \in [Entry -> Addr]
  /\ it \in [Entry -> Node \cup {End}]
  /\ taken \subseteq Entry
  /\ untaken \in [Node -> Nat]
  /\ dispatched \in 0..MaxDispatches
  /\ aborted \in BOOLEAN

(***************************************************************************)
(* A profiled dispatch that took a reference has, until its handler has    *)
(* released it, the name under which its kernel was loaded when it was     *)
(* dispatched, and nobody deletes it or has a new node at that address:    *)
(* what the handler reads (version1/tool.cpp:514) is not stale, although   *)
(* the kernel may be unloaded, and its address used again, at any time.    *)
(* This is so for every name but those whose count was lowered by the      *)
(* handler of a dispatch that had taken no reference to it                 *)
(* (version1/tool.cpp:586, :529).                                          *)
(***************************************************************************)
NameKept ==
  \A e \in taken :
    InUse(e) /\ untaken[it[e]] = 0 => symbols[kernel[e]] = it[e] /\ it[e] \notin freed

(***************************************************************************)
(* The reference count of a name is the number of dispatches in flight     *)
(* that took a reference to it, less the times that it was lowered for a   *)
(* dispatch that had taken none: below zero, that is wrapped, when these   *)
(* are more.                                                               *)
(***************************************************************************)
RefsCountUsers == \A n \in Node : refs[n] = Cardinality(Users(n)) - untaken[n]

(***************************************************************************)
(* The count of a name is off by the references that were given back       *)
(* without having been taken, and by nothing else.                         *)
(***************************************************************************)
RefsExact == TypeOK /\ RefsCountUsers

(***************************************************************************)
(* The runtime gets its thread back from every announcement, even from the *)
(* unloading of a kernel in flight, unless the tool aborts or the count of *)
(* the name that is waited for was lowered for a dispatch that had taken   *)
(* no reference to it: that count need not come to zero again.  (The bound *)
(* on the dispatches matters: an application that keeps dispatching a      *)
(* kernel it is unloading could keep the count above zero.)                *)
(***************************************************************************)
AnnouncementReturns ==
  \A l \in Loader :
    loader[l].at # "idle" ~>
      \/ loader[l].at = "idle" \/ aborted
      \/ loader[l].at \in {"wait", "lock"} /\ untaken[loader[l].it] > 0
=============================================================================
