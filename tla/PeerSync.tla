------------------------------ MODULE PeerSync ------------------------------
(***************************************************************************)
(* wait_peer_finished of version3: profiled processes with the same parent *)
(* wait for each other in their signal handlers.  Each reads the parent's  *)
(* children once, opens or creates the semaphore named after the parent,   *)
(* posts it, and polls it until its value reaches the number of children   *)
(* it has read.                                                            *)
(*                                                                         *)
(* The parent forks and reaps as it likes.  SemaphoreGuard is not part of  *)
(* this repository; whether its destructor removes the semaphore's name is *)
(* left open.  A semaphore is identified by the process that created it.   *)
(***************************************************************************)
EXTENDS FiniteSets, Naturals

CONSTANTS
  Proc,   \* the parent's children
  None    \* no semaphore

ASSUME ProcAssumption == IsFiniteSet(Proc) /\ None \notin Proc

VARIABLES
  state,    \* of a child, from "unborn" to "reaped"
  peers,    \* _peers_pid
  current,  \* the semaphore the name stands for
  handle,   \* guard.sem
  value,    \* of a semaphore
  posted,   \* history: the processes that posted
  waited,   \* history: the processes that left because the value sufficed
  unlinks   \* the guard's destructor removes the name

peerVars == <<state, peers, current, handle, value, posted, waited, unlinks>>

-----------------------------------------------------------------------------
PeerInit ==
  /\ state = [p \in Proc |-> "unborn"]
  /\ peers = [p \in Proc |-> {}]
  /\ current = None
  /\ handle = [p \in Proc |-> None]
  /\ value = [p \in Proc |-> 0]
  /\ posted = {} /\ waited = {}
  /\ unlinks \in BOOLEAN

Become(p, s) == state' = [state EXCEPT ![p] = s]

(* The parent, and children that end without wait_peer_finished. *)
Fork(p) ==
  /\ state[p] = "unborn"
  /\ Become(p, "running")
  /\ UNCHANGED <<peers, current, handle, value, posted, waited, unlinks>>

End(p) ==
  /\ state[p] \in {"running", "left"}
  /\ Become(p, "zombie")
  /\ UNCHANGED <<peers, current, handle, value, posted, waited, unlinks>>

Reap(p) ==
  /\ state[p] = "zombie"
  /\ Become(p, "reaped")
  /\ UNCHANGED <<peers, current, handle, value, posted, waited, unlinks>>

-----------------------------------------------------------------------------
(* /proc/<ppid>/task/<ppid>/children lists zombies, too. *)
Children == {p \in Proc : state[p] \notin {"unborn", "reaped"}}

(* get_peer_pid; a process without peers does not wait. *)
ReadPeers(p) ==
  /\ state[p] = "running"
  /\ peers' = [peers EXCEPT ![p] = Children]
  /\ Become(p, IF Cardinality(Children) <= 1 THEN "left" ELSE "open")
  /\ UNCHANGED <<current, handle, value, posted, waited, unlinks>>

(* guard.open_or_create *)
OpenOrCreate(p) ==
  /\ state[p] = "open"
  /\ LET sem == IF current = None THEN p ELSE current
     IN  current' = sem /\ handle' = [handle EXCEPT ![p] = sem]
  /\ Become(p, "post")
  /\ UNCHANGED <<peers, value, posted, waited, unlinks>>

OpenFails(p) ==
  /\ state[p] = "open"
  /\ Become(p, "left")
  /\ UNCHANGED <<peers, current, handle, value, posted, waited, unlinks>>

(* The destructor of guard. *)
CloseGuard == current' = IF unlinks THEN None ELSE current

(* Mutant of PostedValue: the semaphore is set instead of posted. *)
PostedValueSet(p) == [value EXCEPT ![handle[p]] = 1]

PostedValue(p) == [value EXCEPT ![handle[p]] = @ + 1]

(* sem_post: "Signal completion" *)
Post(p) ==
  /\ state[p] = "post"
  /\ value' = PostedValue(p)
  /\ posted' = posted \cup {p}
  /\ Become(p, "wait")
  /\ UNCHANGED <<peers, current, handle, waited, unlinks>>

PostFails(p) ==
  /\ state[p] = "post"
  /\ CloseGuard
  /\ Become(p, "left")
  /\ UNCHANGED <<peers, handle, value, posted, waited, unlinks>>

(* Mutants of Enough: one process is not waited for; more than all of them are. *)
EnoughButOne(p) == value[handle[p]] + 1 >= Cardinality(peers[p])
EnoughAndMore(p) == value[handle[p]] > Cardinality(peers[p])

(* The loop ends when the value has reached the number of peers. *)
Enough(p) == value[handle[p]] >= Cardinality(peers[p])

Leave(p) ==
  /\ state[p] = "wait"
  /\ Enough(p)
  /\ CloseGuard
  /\ waited' = waited \cup {p}
  /\ Become(p, "left")
  /\ UNCHANGED <<peers, handle, value, posted, unlinks>>

wait_peer_finished(p) ==
  ReadPeers(p) \/ OpenOrCreate(p) \/ OpenFails(p) \/ Post(p) \/ PostFails(p) \/ Leave(p)

PeerNext == \E p \in Proc : Fork(p) \/ End(p) \/ Reap(p) \/ wait_peer_finished(p)

PeerSpec == PeerInit /\ [][PeerNext]_peerVars

(* A process that is past reading its peers is scheduled and polls again and again;
   nothing makes a signal arrive, or a process end. *)
PeerFairness == \A p \in Proc : WF_peerVars(OpenOrCreate(p) \/ Post(p) \/ Leave(p))

PeerFairSpec == PeerSpec /\ PeerFairness

-----------------------------------------------------------------------------
(* Types of the variables; a value counts the posts through its semaphore. *)
PeerTypeOK ==
  /\ state \in [Proc -> {"unborn", "running", "open", "post", "wait", "left", "zombie", "reaped"}]
  /\ peers \in [Proc -> SUBSET Proc]
  /\ current \in Proc \cup {None}
  /\ handle \in [Proc -> Proc \cup {None}]
  /\ value \in [Proc -> Nat]
  /\ posted \subseteq Proc /\ waited \subseteq posted
  /\ unlinks \in BOOLEAN
  /\ \A s \in Proc : value[s] = Cardinality({p \in posted : handle[p] = s})

(* Everybody who posted p's semaphore has read the same peers. *)
SamePeers(p) == \A q \in posted : handle[q] = handle[p] => peers[q] = peers[p]

(***************************************************************************)
(* "Wait for all peers to signal completion" (version3/tool.cpp:1703): if  *)
(* the processes that post a semaphore have all read the same list, a      *)
(* process leaves only when each of its peers has posted, no matter who is *)
(* reaped and whether the name is removed in between.  (With different     *)
(* lists the posts of one group are taken for those of another.)           *)
(***************************************************************************)
PeersHavePosted == \A p \in waited : SamePeers(p) => peers[p] \subseteq posted

(***************************************************************************)
(* The semaphores count their posts, and nobody leaves before the posts of *)
(* its peers are among them.                                               *)
(***************************************************************************)
PeersCounted == PeerTypeOK /\ PeersHavePosted

(***************************************************************************)
(* A process that waits for ever has a peer that never posts, or one that  *)
(* posted another semaphore or had read other peers: the processes do not  *)
(* keep each other waiting.                                                *)
(***************************************************************************)
NoMutualWait ==
  \A p \in Proc :
    <>[](state[p] = "wait")
      => <>[](\E q \in peers[p] :
               q \notin posted \/ handle[q] # handle[p] \/ peers[q] # peers[p])
=============================================================================
