-------------------------- MODULE ProcessEndProofs --------------------------
(***************************************************************************)
(* The end of a process in version3: its signal handlers, and the          *)
(* synchronisation with its peers that the handler calls.  The two share   *)
(* no state; each has its theorems here, for every number of threads,      *)
(* signals and calls, and for every number of processes.                   *)
(***************************************************************************)
EXTENDS SignalHandling, PeerSync, FiniteSetTheorems, TLAPS

-----------------------------------------------------------------------------
(* Peer synchronisation. *)

Posters(s) == {q \in posted : handle[q] = s}

(* A process posts the semaphore it opened, once, after it has read its peers, and it is
   one of them. *)
PosterInv ==
  \A p \in Proc :
    /\ state[p] \in {"unborn", "running", "open", "post"} => p \notin posted
    /\ state[p] \in {"post", "wait"} => handle[p] \in Proc
    /\ state[p] \in {"open", "post", "wait"} => p \in peers[p]
    /\ state[p] = "wait" => p \in posted
    /\ p \in posted => p \in peers[p] /\ handle[p] \in Proc

(* A value is never taken back, so that who left would still be let go. *)
WaitedInv == \A p \in waited : Enough(p)

PeerInv == PeerTypeOK /\ PosterInv /\ WaitedInv

LEMMA PostersFinite ==
  ASSUME PeerTypeOK, NEW s
  PROVE  IsFiniteSet(Posters(s)) /\ Cardinality(Posters(s)) \in Nat
  BY FS_Subset, FS_CardinalityType, ProcAssumption DEF Posters, PeerTypeOK

(* A step that posts nothing, and opens and reads for nobody who has posted. *)
LEMMA PeerFrame ==
  ASSUME PeerInv,
         NEW p \in Proc, NEW s \in {"running", "open", "post", "left", "zombie", "reaped"},
         state' = [state EXCEPT ![p] = s],
         s \in {"running", "open", "post"} => p \notin posted,
         current' \in Proc \cup {None},
         NEW h \in Proc \cup {None}, handle' = [handle EXCEPT ![p] = h],
         NEW P \in SUBSET Proc, peers' = [peers EXCEPT ![p] = P],
         s = "post" => h \in Proc,
         s \in {"open", "post"} => p \in P,
         p \in posted => h = handle[p] /\ P = peers[p],
         waited' \subseteq posted,
         \A q \in waited' : q \in posted /\ Enough(q),
         UNCHANGED <<value, posted, unlinks>>
  PROVE  PeerInv'
<1> USE DEF PeerInv, PeerTypeOK
<1>1. \A t \in Proc : {q \in posted' : handle'[q] = t} = {q \in posted : handle[q] = t}
  OBVIOUS
<1>2. PeerTypeOK'
  <2>1. state' \in [Proc -> {"unborn", "running", "open", "post", "wait", "left", "zombie",
                            "reaped"}]
    OBVIOUS
  <2>2. handle' \in [Proc -> Proc \cup {None}] /\ peers' \in [Proc -> SUBSET Proc]
    OBVIOUS
  <2>3. \A t \in Proc : value'[t] = Cardinality({q \in posted' : handle'[q] = t})
    BY <1>1
  <2> QED
    BY <2>1, <2>2, <2>3
<1>3. PosterInv'
  BY DEF PosterInv
<1>4. \A q \in posted : handle'[q] = handle[q] /\ peers'[q] = peers[q]
  OBVIOUS
<1>5. WaitedInv'
  BY <1>4 DEF WaitedInv, Enough
<1> QED
  BY <1>2, <1>3, <1>5

LEMMA PeerStep == PeerInv /\ [PeerNext]_peerVars => PeerInv'
<1> SUFFICES ASSUME PeerInv, [PeerNext]_peerVars
             PROVE  PeerInv'
  OBVIOUS
<1>0. PeerTypeOK /\ PosterInv /\ WaitedInv
  BY DEF PeerInv
<1> USE DEF Become
<1>1. ASSUME NEW p \in Proc, Fork(p) \/ End(p) \/ Reap(p) \/ OpenFails(p)
      PROVE  PeerInv'
  <2>1. PICK s \in {"running", "left", "zombie", "reaped"} :
          state' = [state EXCEPT ![p] = s] /\ (s = "running" => state[p] = "unborn")
    BY <1>1 DEF Fork, End, Reap, OpenFails
  <2>2. UNCHANGED <<peers, current, handle, value, posted, waited, unlinks>>
    BY <1>1 DEF Fork, End, Reap, OpenFails
  <2>3. handle' = [handle EXCEPT ![p] = handle[p]] /\ handle[p] \in Proc \cup {None}
    BY <1>0, <2>2 DEF PeerTypeOK
  <2>4. peers' = [peers EXCEPT ![p] = peers[p]] /\ peers[p] \in SUBSET Proc
    BY <1>0, <2>2 DEF PeerTypeOK
  <2> QED
    BY <1>0, <2>1, <2>2, <2>3, <2>4, PeerFrame DEF PosterInv, WaitedInv, PeerTypeOK
<1>2. ASSUME NEW p \in Proc, ReadPeers(p)
      PROVE  PeerInv'
  <2>1. p \notin posted /\ p \in Children /\ Children \in SUBSET Proc
    BY <1>0, <1>2 DEF ReadPeers, Children, PosterInv
  <2>2. PICK s \in {"left", "open"} : state' = [state EXCEPT ![p] = s]
    BY <1>2 DEF ReadPeers
  <2>3. handle' = [handle EXCEPT ![p] = handle[p]] /\ handle[p] \in Proc \cup {None}
    BY <1>0, <1>2 DEF PeerTypeOK, ReadPeers
  <2> QED
    BY <1>0, <1>2, <2>1, <2>2, <2>3, PeerFrame DEF ReadPeers, WaitedInv, PeerTypeOK
<1>3. ASSUME NEW p \in Proc, OpenOrCreate(p)
      PROVE  PeerInv'
  <2> DEFINE sem == IF current = None THEN p ELSE current
  <2>1. sem \in Proc /\ p \notin posted /\ p \in peers[p]
    BY <1>0, <1>3 DEF OpenOrCreate, PosterInv, PeerTypeOK
  <2>2. current' = sem /\ handle' = [handle EXCEPT ![p] = sem]
    BY <1>3 DEF OpenOrCreate
  <2>3. peers' = [peers EXCEPT ![p] = peers[p]] /\ peers[p] \in SUBSET Proc
    BY <1>0, <1>3 DEF PeerTypeOK, OpenOrCreate
  <2>4. waited' \subseteq posted /\ \A q \in waited' : q \in posted /\ Enough(q)
    BY <1>0, <1>3 DEF OpenOrCreate, WaitedInv, PeerTypeOK
  <2>5. state' = [state EXCEPT ![p] = "post"] /\ UNCHANGED <<value, posted, unlinks>>
    BY <1>3 DEF OpenOrCreate
  <2> HIDE DEF sem
  <2> QED
    BY <2>1, <2>2, <2>3, <2>4, <2>5, PeerFrame
<1>4. ASSUME NEW p \in Proc, PostFails(p) \/ Leave(p)
      PROVE  PeerInv'
  <2>1. state' = [state EXCEPT ![p] = "left"] /\ UNCHANGED <<peers, handle, value, posted, unlinks>>
    BY <1>4 DEF PostFails, Leave
  <2>2. current' \in Proc \cup {None}
    BY <1>0, <1>4 DEF PostFails, Leave, CloseGuard, PeerTypeOK
  <2>3. waited' \subseteq posted /\ \A q \in waited' : Enough(q)
    BY <1>0, <1>4 DEF PostFails, Leave, PosterInv, WaitedInv, PeerTypeOK
  <2>4. handle' = [handle EXCEPT ![p] = handle[p]] /\ handle[p] \in Proc \cup {None}
    BY <1>0, <2>1 DEF PeerTypeOK
  <2>5. peers' = [peers EXCEPT ![p] = peers[p]] /\ peers[p] \in SUBSET Proc
    BY <1>0, <2>1 DEF PeerTypeOK
  <2> QED
    BY <1>0, <2>1, <2>2, <2>3, <2>4, <2>5, PeerFrame
<1>5. ASSUME NEW p \in Proc, Post(p)
      PROVE  PeerInv'
  <2>1. p \notin posted /\ handle[p] \in Proc /\ p \in peers[p]
    BY <1>0, <1>5 DEF Post, PosterInv
  <2>2. posted' = posted \cup {p} /\ UNCHANGED <<peers, current, handle, waited, unlinks>>
          /\ state' = [state EXCEPT ![p] = "wait"]
    BY <1>5 DEF Post
  <2>3. value' = [value EXCEPT ![handle[p]] = value[handle[p]] + 1]
    BY <1>5 DEF Post, PostedValue
  <2>4. \A s \in Proc : {q \in posted' : handle'[q] = s}
                          = IF s = handle[p] THEN Posters(s) \cup {p} ELSE Posters(s)
    BY <2>2 DEF Posters
  <2>5. \A s \in Proc : value'[s] = Cardinality({q \in posted' : handle'[q] = s})
    <3> SUFFICES ASSUME NEW s \in Proc
                 PROVE  value'[s] = Cardinality({q \in posted' : handle'[q] = s})
      OBVIOUS
    <3>1. value[s] = Cardinality(Posters(s)) /\ value \in [Proc -> Nat]
      BY <1>0 DEF PeerTypeOK, Posters
    <3>2. CASE s = handle[p]
      <4>0. IsFiniteSet(Posters(s)) /\ p \notin Posters(s)
        BY <1>0, <2>1, PostersFinite DEF Posters
      <4>1. Cardinality(Posters(s) \cup {p}) = Cardinality(Posters(s)) + 1
        BY <4>0, FS_AddElement
      <4> QED
        BY <2>3, <2>4, <3>1, <3>2, <4>1
    <3>3. CASE s # handle[p]
      BY <2>3, <2>4, <3>1, <3>3
    <3> QED
      BY <3>2, <3>3
  <2>6. PeerTypeOK'
    <3>1. state' \in [Proc -> {"unborn", "running", "open", "post", "wait", "left", "zombie",
                              "reaped"}]
      BY <1>0, <2>2 DEF PeerTypeOK
    <3>2. value' \in [Proc -> Nat]
      BY <1>0, <2>1, <2>3 DEF PeerTypeOK
    <3>3. UNCHANGED <<peers, current, handle, waited, unlinks>> /\ posted' \subseteq Proc
            /\ waited' \subseteq posted'
      BY <1>0, <2>2 DEF PeerTypeOK
    <3> QED
      BY <1>0, <2>5, <3>1, <3>2, <3>3 DEF PeerTypeOK
  <2>7. PosterInv'
    BY <1>0, <2>1, <2>2 DEF PosterInv, PeerTypeOK
  <2>8. \A s \in Proc : value'[s] \in Nat /\ value[s] \in Nat /\ value'[s] >= value[s]
    BY <1>0, <2>1, <2>3 DEF PeerTypeOK
  <2>9. \A q \in waited : handle[q] \in Proc /\ Cardinality(peers[q]) \in Nat
    BY <1>0, FS_Subset, FS_CardinalityType, ProcAssumption DEF PeerTypeOK, PosterInv
  <2>10. WaitedInv'
    BY <1>0, <2>2, <2>8, <2>9 DEF WaitedInv, Enough
  <2> QED
    BY <2>6, <2>7, <2>10 DEF PeerInv
<1>6. CASE UNCHANGED peerVars
  BY <1>0, <1>6 DEF peerVars, PeerInv, PeerTypeOK, PosterInv, WaitedInv, Enough
<1> QED
  BY <1>1, <1>2, <1>3, <1>4, <1>5, <1>6 DEF PeerNext, wait_peer_finished

(* Of processes that have read the same peers, as many as there are peers have posted the
   semaphore: they are the peers. *)
LEMMA EnoughArePeers ==
  ASSUME PeerInv, NEW p \in waited, SamePeers(p)
  PROVE  peers[p] \subseteq posted
<1>1. Posters(handle[p]) \subseteq peers[p]
  BY DEF PeerInv, PeerTypeOK, PosterInv, SamePeers, Posters
<1>2. IsFiniteSet(peers[p]) /\ handle[p] \in Proc
  BY FS_Subset, ProcAssumption DEF PeerInv, PeerTypeOK, PosterInv
<1>3. Cardinality(Posters(handle[p])) >= Cardinality(peers[p])
  BY <1>2 DEF PeerInv, PeerTypeOK, WaitedInv, Enough, Posters
<1>4. Posters(handle[p]) = peers[p]
  BY <1>1, <1>2, <1>3, FS_Subset, FS_CardinalityType
<1> QED
  BY <1>4 DEF Posters

(* The semaphores count their posts, and a process that waited with others that had read
   the same peers leaves only after every one of them has posted, for any number of
   processes, whoever is reaped and whether or not the name is removed in between. *)
THEOREM PeersWaitForPosts == PeerSpec => []PeersCounted
<1>1. PeerInit => PeerInv
  <2> SUFFICES ASSUME PeerInit
               PROVE  PeerInv
    OBVIOUS
  <2>1. \A s \in Proc : {q \in posted : handle[q] = s} = {}
    BY DEF PeerInit
  <2>2. PeerTypeOK
    BY <2>1, FS_EmptySet DEF PeerInit, PeerTypeOK
  <2>3. PosterInv /\ WaitedInv
    BY DEF PeerInit, PosterInv, WaitedInv
  <2> QED
    BY <2>2, <2>3 DEF PeerInv
<1>2. PeerInv => PeersCounted
  BY EnoughArePeers DEF PeerInv, PeersCounted, PeersHavePosted
<1> QED
  BY <1>1, <1>2, PeerStep, PTL DEF PeerSpec

-----------------------------------------------------------------------------
(* Signal handling. *)

Frame == [sig : Signal, pos : Positions]

(* tool_fini is over, or a handler found it under way and went on. *)
Finalized == fini = "done" \/ overtook

(* How far a handler can be. *)
FrameOK(x) ==
  /\ x.pos \in {"chain", "raise"} => Finalized
  /\ x.pos = "finish" => ~client

FramesInv == \A t \in Thread : \A i \in 1 .. Len(frames[t]) : FrameOK(frames[t][i])

(* Nobody gets past the finalization, or out of call_once, before it. *)
FinalizedInv ==
  /\ main = "finalizing" => ~client
  /\ once = "done" => Finalized
  /\ \A t \in Thread : pending[t] # {} => Finalized
  /\ process = "killed" => Finalized

(* The steps inside call_once. *)
Inside == {"finalize", "finish", "chain"}

(* One handler of one thread is inside call_once, and the flag knows which thread. *)
InsideInv ==
  \A t \in Thread : \A i \in 1 .. Len(frames[t]) :
    frames[t][i].pos \in Inside =>
      /\ once = t
      /\ \A j \in 1 .. Len(frames[t]) : frames[t][j].pos \in Inside => j = i

(* Nobody is inside after the application's handler has been called. *)
RanInv ==
  /\ ran <= 1
  /\ ran # 0 => Finalized /\ (once = "done" \/ process = "exited")

HandlerInv == TypeOK /\ FramesInv /\ FinalizedInv

-----------------------------------------------------------------------------
(* The handlers of a thread, the last of which makes the steps. *)

LEMMA FrontLast ==
  ASSUME NEW S, NEW f \in Seq(S), f # <<>>
  PROVE  /\ Front(f) \in Seq(S) /\ Len(Front(f)) = Len(f) - 1 /\ Len(f) \in Nat \ {0}
         /\ \A i \in 1 .. Len(f) - 1 : Front(f)[i] = f[i]
         /\ Last(f) \in S /\ Last(f) = f[Len(f)]
  BY DEF Front, Last

(* A handler that moves leaves those under it alone. *)
LEMMA MoveFrames ==
  ASSUME TypeOK, NEW t \in Thread, NEW p \in Positions, frames[t] # <<>>, Move(t, p)
  PROVE  /\ frames' \in [Thread -> Seq(Frame)]
         /\ \A u \in Thread \ {t} : frames'[u] = frames[u]
         /\ \A i \in 1 .. Len(frames'[t]) :
              \/ frames'[t][i].pos = p
              \/ i \in 1 .. Len(frames[t]) /\ frames'[t][i] = frames[t][i]
         /\ Len(frames'[t]) = Len(frames[t]) /\ frames'[t][Len(frames[t])].pos = p
         /\ \A i \in 1 .. Len(frames[t]) - 1 : frames'[t][i] = frames[t][i]
<1> DEFINE f == frames[t]
           x == [sig |-> Last(f).sig, pos |-> p]
<1>1. f \in Seq(Frame) /\ f # <<>>
  BY DEF TypeOK, Frame
<1>2. /\ Front(f) \in Seq(Frame) /\ Len(Front(f)) = Len(f) - 1 /\ Len(f) \in Nat \ {0}
      /\ \A i \in 1 .. Len(f) - 1 : Front(f)[i] = f[i]
      /\ Last(f) \in Frame
  BY <1>1, FrontLast
<1>3. x \in Frame /\ x.pos = p
  BY <1>2 DEF Frame
<1>4. frames' = [frames EXCEPT ![t] = Append(Front(f), x)]
  BY DEF Move
<1> HIDE DEF x
<1>5. frames'[t] = Append(Front(f), x) /\ \A u \in Thread \ {t} : frames'[u] = frames[u]
  BY <1>4 DEF TypeOK
<1>6. Append(Front(f), x) \in Seq(Frame)
  BY <1>2, <1>3
<1>7. frames' \in [Thread -> Seq(Frame)]
  BY <1>4, <1>6 DEF TypeOK, Frame
<1>8. ASSUME NEW i \in 1 .. Len(frames'[t])
      PROVE  frames'[t][i].pos = p \/ (i \in 1 .. Len(f) /\ frames'[t][i] = f[i])
  <2> HIDE DEF f
  <2>1. i \in 1 .. Len(f) /\ Len(frames'[t]) = Len(f)
    BY <1>2, <1>5, <1>8
  <2>2. CASE i = Len(f)
    <3>1. i = Len(Front(f)) + 1
      BY <1>2, <2>2
    <3>2. Append(Front(f), x)[Len(Front(f)) + 1] = x
      BY <1>2, <1>3
    <3> QED
      BY <1>3, <1>5, <3>1, <3>2
  <2>3. CASE i # Len(f)
    BY <1>2, <1>5, <2>1, <2>3
  <2> QED
    BY <2>2, <2>3
<1>9. Len(frames'[t]) = Len(f) /\ frames'[t][Len(f)].pos = p
        /\ \A i \in 1 .. Len(f) - 1 : frames'[t][i] = f[i]
  <2> HIDE DEF f
  <2>1. Len(Append(Front(f), x)) = Len(f) /\ Append(Front(f), x)[Len(f)] = x
          /\ \A i \in 1 .. Len(f) - 1 : Append(Front(f), x)[i] = f[i]
    BY <1>2, <1>3
  <2> QED
    BY <1>3, <1>5, <2>1
<1> QED
  BY <1>5, <1>7, <1>8, <1>9

(* A signal that is accepted puts a handler on top. *)
LEMMA AcceptFrames ==
  ASSUME TypeOK, NEW t \in Thread, NEW s \in Signal, Accept(t, s)
  PROVE  /\ frames' \in [Thread -> Seq(Frame)]
         /\ disposition' \in [Signal -> {"default", "tool_reset", "tool_keep"}]
         /\ \A u \in Thread \ {t} : frames'[u] = frames[u]
         /\ \A i \in 1 .. Len(frames'[t]) :
              \/ frames'[t][i].pos = "enter"
              \/ i \in 1 .. Len(frames[t]) /\ frames'[t][i] = frames[t][i]
<1> DEFINE f == frames[t]
           x == [sig |-> s, pos |-> "enter"]
<1>1. f \in Seq(Frame) /\ x \in Frame /\ x.pos = "enter"
  BY DEF TypeOK, Frame, Positions
<1>2. frames' = [frames EXCEPT ![t] = Append(f, x)]
  BY DEF Accept
<1> HIDE DEF x
<1>3. frames'[t] = Append(f, x) /\ \A u \in Thread \ {t} : frames'[u] = frames[u]
  BY <1>2 DEF TypeOK
<1> HIDE DEF f
<1>4. Append(f, x) \in Seq(Frame) /\ Len(Append(f, x)) = Len(f) + 1 /\ Len(f) \in Nat
        /\ Append(f, x)[Len(f) + 1] = x /\ \A i \in 1 .. Len(f) : Append(f, x)[i] = f[i]
  BY <1>1
<1>5. \A i \in 1 .. Len(frames'[t]) :
        frames'[t][i].pos = "enter" \/ (i \in 1 .. Len(f) /\ frames'[t][i] = f[i])
  BY <1>1, <1>3, <1>4
<1>7. frames' \in [Thread -> Seq(Frame)]
  BY <1>2, <1>4 DEF TypeOK, Frame
<1>6. disposition' \in [Signal -> {"default", "tool_reset", "tool_keep"}]
  BY DEF Accept, TypeOK
<1> QED
  BY <1>3, <1>5, <1>6, <1>7 DEF f

LEMMA TopFrame ==
  ASSUME TypeOK, NEW t \in Thread, NEW p \in Positions, AtPos(t, p)
  PROVE  /\ frames[t] # <<>> /\ TopSignal(t) \in Signal
         /\ Len(frames[t]) \in 1 .. Len(frames[t]) /\ frames[t][Len(frames[t])].pos = p
<1>1. frames[t] \in Seq(Frame) /\ frames[t] # <<>> /\ Last(frames[t]).pos = p
  BY DEF AtPos, TypeOK, Frame
<1>2. Last(frames[t]) \in Frame /\ Len(frames[t]) \in Nat \ {0}
        /\ Last(frames[t]) = frames[t][Len(frames[t])]
  BY <1>1, FrontLast
<1> QED
  BY <1>1, <1>2 DEF TopSignal, Frame

(* A step that puts a handler where it may be, and takes nothing back, keeps them all. *)
LEMMA FramesStay ==
  ASSUME FramesInv, NEW t \in Thread, NEW p,
         \A u \in Thread \ {t} : frames'[u] = frames[u],
         \A i \in 1 .. Len(frames'[t]) :
           \/ frames'[t][i].pos = p
           \/ i \in 1 .. Len(frames[t]) /\ frames'[t][i] = frames[t][i],
         p \in {"chain", "raise"} => Finalized',
         p = "finish" => ~client',
         Finalized => Finalized', client' => client
  PROVE  FramesInv'
  BY DEF FramesInv, FrameOK

LEMMA FramesUntouched ==
  ASSUME FramesInv, UNCHANGED frames, Finalized => Finalized', client' => client
  PROVE  FramesInv'
  BY DEF FramesInv, FrameOK

(* A step of a handler that does not reach beyond the tool: with what Move and the
   positions give, its three invariants are kept. *)
LEMMA HandlerMoves ==
  ASSUME HandlerInv, NEW t \in Thread, NEW p \in Positions, frames[t] # <<>>, Move(t, p),
         UNCHANGED <<osVars, appVars, main, chained>>,
         once' \in {"no", "done"} \cup Thread, ran' \in Nat,
         client' \in BOOLEAN, overtook' \in BOOLEAN, fini' \in {"no", "running", "done"},
         client' <=> fini' = "no",
         p \in {"chain", "raise"} => Finalized', p = "finish" => ~client',
         Finalized => Finalized', client' => client,
         once' = "done" => Finalized'
  PROVE  HandlerInv'
<1> USE DEF osVars, appVars
<1>0. TypeOK /\ FramesInv /\ FinalizedInv
  BY DEF HandlerInv
<1>1. /\ frames' \in [Thread -> Seq(Frame)]
      /\ \A u \in Thread \ {t} : frames'[u] = frames[u]
      /\ \A i \in 1 .. Len(frames'[t]) :
           \/ frames'[t][i].pos = p
           \/ i \in 1 .. Len(frames[t]) /\ frames'[t][i] = frames[t][i]
  BY <1>0, MoveFrames
<1>2. FramesInv'
  BY <1>0, <1>1, FramesStay
<1>3. TypeOK'
  BY <1>0, <1>1 DEF TypeOK, Frame
<1>4. FinalizedInv'
  BY <1>0 DEF FinalizedInv
<1> QED
  BY <1>2, <1>3, <1>4 DEF HandlerInv

(* ... and a step that touches no handler. *)
LEMMA HandlersRest ==
  ASSUME HandlerInv, UNCHANGED <<frames, once, pending>>, TypeOK',
         Finalized => Finalized', client' => client,
         process' = "killed" => process = "killed",
         main' = "finalizing" => ~client'
  PROVE  HandlerInv'
<1>1. FramesInv'
  BY FramesUntouched DEF HandlerInv
<1>2. FinalizedInv'
  BY DEF FinalizedInv, HandlerInv
<1> QED
  BY <1>1, <1>2 DEF HandlerInv

LEMMA HandlerStep ==
  ASSUME HandlerInv, NEW t \in Thread, rocprofv3_error_signal_handler(t)
  PROVE  HandlerInv'
<1> USE DEF osVars, appVars, toolVars
<1>0. TypeOK /\ FramesInv /\ FinalizedInv
  BY DEF HandlerInv
<1>a. \A q \in Positions : AtPos(t, q) =>
        /\ frames[t] # <<>> /\ TopSignal(t) \in Signal
        /\ q \in {"chain", "raise"} => Finalized
        /\ q = "finish" => ~client
  BY <1>0, TopFrame DEF FramesInv, FrameOK
<1>b. {"enter", "finalize", "finish", "chain", "raise"} = Positions
  BY DEF Positions
<1>1. CASE EnterOnce(t)
  <2>1. once' = t /\ t # "done"
    BY <1>1, ThreadAssumption DEF EnterOnce
  <2>2. UNCHANGED <<fini, overtook, client, ran>> /\ Finalized' = Finalized
    BY <1>1 DEF EnterOnce, Finalized
  <2> QED
    BY <1>0, <1>1, <1>a, <1>b, <2>1, <2>2, HandlerMoves DEF EnterOnce, TypeOK
<1>2. CASE SkipOnce(t)
  <2>1. Finalized /\ Finalized' /\ UNCHANGED <<fini, overtook, client, ran, once>>
    BY <1>0, <1>2 DEF SkipOnce, OncePassed, FinalizedInv, Finalized
  <2> QED
    BY <1>0, <1>2, <1>a, <1>b, <2>1, HandlerMoves DEF SkipOnce, TypeOK
<1>3. CASE HandlerFinalize(t)
  <2>1. client /\ client' = FALSE /\ fini' = "running" /\ UNCHANGED <<overtook, once, ran>>
    BY <1>3 DEF HandlerFinalize, BeginFinalize
  <2>2. Finalized => Finalized'
    BY <1>0, <2>1 DEF Finalized, TypeOK
  <2> QED
    BY <1>0, <1>3, <1>a, <1>b, <2>1, <2>2, HandlerMoves DEF HandlerFinalize, TypeOK, FinalizedInv
<1>4. CASE HandlerIgnore(t)
  <2>1. fini \in {"running", "done"} /\ UNCHANGED <<fini, client, once, ran>>
    BY <1>0, <1>4 DEF HandlerIgnore, TypeOK
  <2>2. overtook' \in BOOLEAN /\ Finalized'
    BY <1>0, <1>4, <2>1 DEF HandlerIgnore, TypeOK, Finalized
  <2> QED
    BY <1>0, <1>4, <1>a, <1>b, <2>1, <2>2, HandlerMoves DEF HandlerIgnore, TypeOK
<1>5. CASE HandlerFinish(t)
  <2>1. ~client /\ UNCHANGED <<client, once, ran, overtook>> /\ fini' = "done"
    BY <1>5, <1>a, <1>b DEF HandlerFinish
  <2>2. Finalized'
    BY <2>1 DEF Finalized
  <2> QED
    BY <1>0, <1>5, <1>a, <1>b, <2>1, <2>2, HandlerMoves DEF HandlerFinish, TypeOK
<1>6. CASE ChainNothing(t) \/ ChainReturns(t)
  <2>1. AtPos(t, "chain") /\ once' = "done" /\ Move(t, "raise") /\ ran' \in Nat
          /\ UNCHANGED <<osVars, appVars, client, fini, main, chained, overtook>>
    BY <1>0, <1>6 DEF ChainNothing, ChainReturns, CallsApplication, TypeOK
  <2>2. Finalized /\ Finalized'
    BY <1>a, <1>b, <2>1 DEF Finalized
  <2> QED
    BY <1>0, <1>a, <1>b, <2>1, <2>2, HandlerMoves DEF TypeOK
<1>7. CASE ChainExits(t)
  <2>1. TypeOK'
    <3>1. ran' \in Nat /\ process' = "exited"
      BY <1>0, <1>7 DEF ChainExits, CallsApplication, TypeOK
    <3>2. UNCHANGED <<disposition, sent, pending, appVars, toolVars, chained, frames, overtook>>
      BY <1>7 DEF ChainExits
    <3> QED
      BY <1>0, <3>1, <3>2 DEF TypeOK
  <2> QED
    BY <1>0, <1>7, <2>1, HandlersRest DEF ChainExits, FinalizedInv, Finalized
<1>8. CASE ChainSelf(t)
  <2>1. AtPos(t, "chain") /\ Move(t, "enter")
          /\ UNCHANGED <<osVars, appVars, toolVars, chained, ran, overtook>>
    BY <1>8 DEF ChainSelf
  <2>2. Finalized' = Finalized
    BY <2>1 DEF Finalized
  <2> QED
    BY <1>0, <1>a, <1>b, <2>1, <2>2, HandlerMoves DEF TypeOK, FinalizedInv
<1>9. CASE Reraise(t)
  <2>1. AtPos(t, "raise") /\ frames' = [frames EXCEPT ![t] = Front(frames[t])]
          /\ pending' = [pending EXCEPT ![t] = @ \cup {TopSignal(t)}]
          /\ UNCHANGED <<process, disposition, sent, appVars, toolVars, chained, ran,
                         overtook>>
    BY <1>9 DEF Reraise
  <2>2. frames[t] # <<>> /\ TopSignal(t) \in Signal /\ Finalized /\ Finalized'
    BY <1>a, <1>b, <2>1 DEF Finalized
  <2>3. frames[t] \in Seq(Frame)
    BY <1>0 DEF TypeOK, Frame
  <2>4. /\ Front(frames[t]) \in Seq(Frame) /\ Len(Front(frames[t])) = Len(frames[t]) - 1
        /\ Len(frames[t]) \in Nat \ {0}
        /\ \A i \in 1 .. Len(frames[t]) - 1 : Front(frames[t])[i] = frames[t][i]
    BY <2>2, <2>3, FrontLast
  <2>5. frames'[t] = Front(frames[t]) /\ \A u \in Thread \ {t} : frames'[u] = frames[u]
    BY <1>0, <2>1 DEF TypeOK
  <2>6. FramesInv'
    <3>1. \A i \in 1 .. Len(frames'[t]) : i \in 1 .. Len(frames[t]) /\ frames'[t][i] = frames[t][i]
      BY <2>4, <2>5
    <3>2. \A u \in Thread : \A i \in 1 .. Len(frames'[u]) : FrameOK(frames'[u][i])
      BY <1>0, <2>5, <3>1 DEF FramesInv
    <3>3. client' = client /\ (Finalized => Finalized')
      BY <2>1, <2>2
    <3> QED
      BY <2>2, <3>2, <3>3 DEF FramesInv, FrameOK
  <2>7. TypeOK'
    <3>1. frames' \in [Thread -> Seq(Frame)]
      BY <1>0, <2>1, <2>4 DEF TypeOK, Frame
    <3>2. pending' \in [Thread -> SUBSET Signal]
      BY <1>0, <2>1, <2>2 DEF TypeOK
    <3> QED
      BY <1>0, <2>1, <3>1, <3>2 DEF TypeOK, Frame
  <2>8. FinalizedInv'
    BY <1>0, <2>1, <2>2 DEF FinalizedInv
  <2> QED
    BY <2>6, <2>7, <2>8 DEF HandlerInv
<1> QED
  BY <1>1, <1>2, <1>3, <1>4, <1>5, <1>6, <1>7, <1>8, <1>9 DEF rocprofv3_error_signal_handler

LEMMA SignalStep == HandlerInv /\ [Next]_vars => HandlerInv'
<1> SUFFICES ASSUME HandlerInv, [Next]_vars
             PROVE  HandlerInv'
  OBVIOUS
<1> USE DEF osVars, appVars, toolVars
<1>0. TypeOK /\ FramesInv /\ FinalizedInv
  BY DEF HandlerInv
<1>1. CASE StartMain
  <2>1. TypeOK'
    BY <1>0, <1>1 DEF StartMain, SigactionMode, TypeOK
  <2> QED
    BY <1>0, <1>1, <2>1, HandlersRest DEF StartMain, FinalizedInv, Finalized
<1>2. ASSUME NEW s \in Signal, WrappedSigaction(s) \/ WrappedSignal(s)
      PROVE  HandlerInv'
  <2>1. UNCHANGED <<process, sent, pending, toolVars, frames, ran, overtook>>
    BY <1>2 DEF WrappedSigaction, WrappedSignal
  <2>2. chained' \in [Signal -> {"none", "siginfo", "tool", "handler", "self"}]
    <3>1. ASSUME WrappedSigaction(s)
          PROVE  \E v \in {"none", "siginfo", "tool", "handler", "self"} :
                   chained' = [chained EXCEPT ![s] = v]
      <4>1. PICK h : chained' = [chained EXCEPT ![s] = IF Chainable(h) THEN h ELSE @]
        BY <3>1 DEF WrappedSigaction
      <4>2. (IF Chainable(h) THEN h ELSE chained[s])
              \in {"none", "siginfo", "tool", "handler", "self"}
        BY <1>0 DEF Chainable, TypeOK
      <4> QED
        BY <4>1, <4>2
    <3>2. ASSUME WrappedSignal(s)
          PROVE  \E v \in {"none", "siginfo", "tool", "handler", "self"} :
                   chained' = [chained EXCEPT ![s] = v]
      BY <3>2 DEF WrappedSignal
    <3> QED
      BY <1>0, <1>2, <3>1, <3>2 DEF TypeOK
  <2>3. disposition' \in [Signal -> {"default", "tool_reset", "tool_keep"}]
    BY <1>0, <1>2 DEF WrappedSigaction, WrappedSignal, SigactionMode, TypeOK
  <2>4. calls' \in 0 .. MaxCalls /\ signalled' \subseteq Signal
    BY <1>0, <1>2, BoundAssumption DEF WrappedSigaction, WrappedSignal, TypeOK
  <2>5. TypeOK'
    BY <1>0, <2>1, <2>2, <2>3, <2>4 DEF TypeOK
  <2> QED
    BY <1>0, <2>1, <2>5, HandlersRest DEF FinalizedInv, Finalized
<1>3. ASSUME NEW t \in Thread, NEW s \in Signal, Accept(t, s),
             pending' \in [Thread -> SUBSET Signal], \A u \in Thread : pending'[u] \subseteq pending[u],
             sent' \subseteq Signal, process' = process,
             UNCHANGED <<appVars, toolVars, chained, ran, overtook>>
      PROVE  HandlerInv'
  <2>1. /\ frames' \in [Thread -> Seq(Frame)]
        /\ disposition' \in [Signal -> {"default", "tool_reset", "tool_keep"}]
        /\ \A u \in Thread \ {t} : frames'[u] = frames[u]
        /\ \A i \in 1 .. Len(frames'[t]) :
             \/ frames'[t][i].pos = "enter"
             \/ i \in 1 .. Len(frames[t]) /\ frames'[t][i] = frames[t][i]
    BY <1>0, <1>3, AcceptFrames
  <2>2. Finalized' = Finalized
    BY <1>3 DEF Finalized
  <2>3. FramesInv'
    BY <1>0, <1>3, <2>1, <2>2, FramesStay
  <2>4. TypeOK'
    BY <1>0, <1>3, <2>1 DEF TypeOK, Frame
  <2>5. FinalizedInv'
    BY <1>0, <1>3, <2>2 DEF FinalizedInv, TypeOK
  <2> QED
    BY <2>3, <2>4, <2>5 DEF HandlerInv
<1>4. ASSUME NEW t \in Thread, NEW s \in Signal, SendSignal(t, s)
      PROVE  HandlerInv'
  BY <1>0, <1>3, <1>4 DEF SendSignal, Accept, TypeOK
<1>5. ASSUME NEW t \in Thread, NEW s \in Signal, TakeRaised(t, s)
      PROVE  HandlerInv'
  <2>1. /\ pending' \in [Thread -> SUBSET Signal]
        /\ \A u \in Thread : pending'[u] \subseteq pending[u]
        /\ UNCHANGED <<sent, appVars, toolVars, chained, ran, overtook>>
    BY <1>0, <1>5 DEF TakeRaised, TypeOK
  <2>2. CASE disposition[s] # "default"
    BY <1>0, <1>3, <1>5, <2>1, <2>2 DEF TakeRaised, Accept, TypeOK
  <2>3. CASE disposition[s] = "default"
    <3>1. process' = "killed" /\ UNCHANGED <<frames, disposition>>
      BY <1>5, <2>3 DEF TakeRaised
    <3>2. Finalized /\ Finalized'
      BY <1>0, <1>5, <2>1 DEF TakeRaised, FinalizedInv, Finalized
    <3>3. TypeOK'
      BY <1>0, <2>1, <3>1 DEF TypeOK
    <3>4. FramesInv' /\ FinalizedInv'
      BY <1>0, <2>1, <3>1, <3>2, FramesUntouched DEF FinalizedInv
    <3> QED
      BY <3>3, <3>4 DEF HandlerInv
  <2> QED
    BY <2>2, <2>3
<1>6. ASSUME NEW t \in Thread, rocprofv3_error_signal_handler(t)
      PROVE  HandlerInv'
  BY <1>6, HandlerStep
<1>7. CASE MainFinalize
  <2>1. client /\ client' = FALSE /\ fini' = "running" /\ main' = "finalizing"
          /\ UNCHANGED <<osVars, appVars, once, chained, frames, ran, overtook>>
    BY <1>7 DEF MainFinalize, BeginFinalize
  <2>2. TypeOK'
    BY <1>0, <2>1 DEF TypeOK
  <2>3. Finalized => Finalized'
    BY <1>0, <2>1 DEF Finalized, TypeOK
  <2> QED
    BY <2>1, <2>2, <2>3, HandlersRest
<1>8. CASE MainIgnore \/ ExitProcess
  <2>1. UNCHANGED <<disposition, sent, pending, appVars, once, client, fini, chained, frames,
                    ran, overtook>>
    BY <1>8 DEF MainIgnore, ExitProcess
  <2>2. process' \in {process, "exited"} /\ main' \in {main, "returned"}
    BY <1>8 DEF MainIgnore, ExitProcess
  <2>3. TypeOK'
    BY <1>0, <2>1, <2>2 DEF TypeOK
  <2> QED
    BY <1>0, <2>1, <2>2, <2>3, HandlersRest DEF FinalizedInv, Finalized
<1>9. CASE MainFinish
  <2>1. main = "finalizing" /\ fini' = "done" /\ main' = "returned"
          /\ UNCHANGED <<osVars, appVars, once, client, chained, frames, ran, overtook>>
    BY <1>9 DEF MainFinish
  <2>2. TypeOK'
    BY <1>0, <2>1 DEF TypeOK, FinalizedInv
  <2> QED
    BY <2>1, <2>2, HandlersRest DEF Finalized
<1>10. CASE UNCHANGED vars
  BY <1>0, <1>10
  DEF vars, HandlerInv, TypeOK, FramesInv, FrameOK, FinalizedInv, Finalized
<1> QED
  BY <1>1, <1>2, <1>4, <1>5, <1>6, <1>7, <1>8, <1>9, <1>10 DEF Next, rocprofv3_main

(* The handlers and what they finalize, in every reachable state. *)
LEMMA HandlerInductive == Spec => []HandlerInv
<1>1. Init => HandlerInv
  <2> SUFFICES ASSUME Init
               PROVE  HandlerInv
    OBVIOUS
  <2>1. frames \in [Thread -> Seq([sig : Signal, pos : Positions])]
    BY DEF Init
  <2>2. TypeOK
    <3>1. /\ disposition \in [Signal -> {"default", "tool_reset", "tool_keep"}]
          /\ chained \in [Signal -> {"none", "siginfo", "tool", "handler", "self"}]
          /\ pending \in [Thread -> SUBSET Signal]
      BY DEF Init
    <3>2. calls \in 0 .. MaxCalls
      BY BoundAssumption DEF Init
    <3>3. (client <=> fini = "no") /\ client \in BOOLEAN /\ overtook \in BOOLEAN
      BY DEF Init
    <3>4. process = "start" /\ once = "no" /\ fini = "no" /\ main = "main"
          /\ signalled = {} /\ sent = {} /\ ran = 0
      BY DEF Init
    <3> QED
      BY <2>1, <3>1, <3>2, <3>3, <3>4 DEF TypeOK
  <2>3. FramesInv /\ FinalizedInv
    BY DEF Init, FramesInv, FinalizedInv
  <2> QED
    BY <2>2, <2>3 DEF HandlerInv
<1> QED
  BY <1>1, SignalStep, PTL DEF Spec

(* The pointers of the client are cleared exactly when tool_fini starts, and no signal
   kills the process before tool_fini has ended, unless a handler found it under way in
   the end of main: for every number of threads, signals and wrapped calls, however the
   handlers nest. *)
THEOREM NotKilledUnfinalized == Spec => []FinalizedAlive
<1>1. HandlerInv => FinalizedAlive
  BY DEF HandlerInv, FinalizedInv, FinalizedAlive, OutputBeforeDeath, Finalized
<1> QED
  BY <1>1, HandlerInductive, PTL

-----------------------------------------------------------------------------
(* What call_once is for. *)

(* A handler that moves keeps InsideInv, if it gets inside only with the flag, and the
   flag changes hands only when nobody is inside any more. *)
LEMMA InsideMoves ==
  ASSUME TypeOK, InsideInv, NEW t \in Thread, NEW q \in Positions, NEW p \in Positions,
         AtPos(t, q), Move(t, p),
         p \in Inside => once' = t /\ (q \in Inside \/ once = "no"),
         once' = once \/ once = "no" \/ (q \in Inside /\ p \notin Inside)
  PROVE  InsideInv'
<1>1. /\ frames[t] # <<>> /\ frames[t] \in Seq(Frame) /\ Len(frames[t]) \in 1 .. Len(frames[t])
      /\ frames[t][Len(frames[t])].pos = q
  BY TopFrame DEF TypeOK, Frame
<1>2. /\ \A u \in Thread \ {t} : frames'[u] = frames[u]
      /\ Len(frames'[t]) = Len(frames[t]) /\ frames'[t][Len(frames[t])].pos = p
      /\ \A i \in 1 .. Len(frames[t]) - 1 : frames'[t][i] = frames[t][i]
  BY <1>1, MoveFrames
<1>3. "no" \notin Thread /\ Len(frames[t]) \in Nat \ {0}
  BY <1>1, ThreadAssumption
<1>4. ASSUME NEW u \in Thread \ {t}, NEW i \in 1 .. Len(frames'[u]),
             frames'[u][i].pos \in Inside
      PROVE  /\ once' = u
             /\ \A j \in 1 .. Len(frames'[u]) : frames'[u][j].pos \in Inside => j = i
  <2>1. frames'[u] = frames[u] /\ once = u
    BY <1>2, <1>4 DEF InsideInv
  <2>2. q \notin Inside /\ once # "no"
    BY <1>1, <1>3, <1>4, <2>1 DEF InsideInv
  <2> QED
    BY <1>4, <2>1, <2>2 DEF InsideInv
<1>5. ASSUME NEW i \in 1 .. Len(frames'[t]), frames'[t][i].pos \in Inside
      PROVE  /\ once' = t
             /\ \A j \in 1 .. Len(frames'[t]) : frames'[t][j].pos \in Inside => j = i
  <2>1. ASSUME NEW k \in 1 .. Len(frames[t]) - 1, frames'[t][k].pos \in Inside
        PROVE  once = t /\ once # "no" /\ q \notin Inside
    <3>1. frames[t][k].pos \in Inside /\ k \in 1 .. Len(frames[t]) /\ k # Len(frames[t])
      BY <1>2, <1>3, <2>1
    <3>2. once = t
      BY <3>1 DEF InsideInv
    <3>3. q \notin Inside
      BY <1>1, <3>1 DEF InsideInv
    <3> QED
      BY <1>3, <3>2, <3>3
  <2>2. CASE i = Len(frames[t])
    <3>1. \A k \in 1 .. Len(frames[t]) - 1 : frames'[t][k].pos \notin Inside
      BY <1>2, <1>5, <2>1, <2>2
    <3> QED
      BY <1>2, <1>3, <1>5, <2>2, <3>1
  <2>3. CASE i # Len(frames[t])
    <3>1. i \in 1 .. Len(frames[t]) - 1 /\ i \in 1 .. Len(frames[t])
            /\ frames[t][i].pos \in Inside
      BY <1>2, <1>3, <1>5, <2>3
    <3>2. once' = t /\ p \notin Inside
      BY <1>5, <2>1, <3>1
    <3>3. \A j \in 1 .. Len(frames[t]) : frames'[t][j].pos \in Inside =>
            j \in 1 .. Len(frames[t]) - 1 /\ frames[t][j].pos \in Inside
      BY <1>2, <1>3, <3>2
    <3> QED
      BY <1>2, <3>1, <3>2, <3>3 DEF InsideInv
  <2> QED
    BY <2>2, <2>3
<1> QED
  BY <1>4, <1>5 DEF InsideInv

(* Handlers that come and go outside of call_once do not disturb who is inside. *)
LEMMA InsideStays ==
  ASSUME InsideInv, NEW t \in Thread, UNCHANGED once,
         \A u \in Thread \ {t} : frames'[u] = frames[u],
         \A i \in 1 .. Len(frames'[t]) :
           \/ frames'[t][i].pos \notin Inside
           \/ i \in 1 .. Len(frames[t]) /\ frames'[t][i] = frames[t][i]
  PROVE  InsideInv'
  BY DEF InsideInv

LEMMA OnceStep ==
  ASSUME HandlerInv, InsideInv, RanInv, NEW t \in Thread, rocprofv3_error_signal_handler(t)
  PROVE  InsideInv' /\ RanInv'
<1> USE DEF osVars, appVars, toolVars
<1>0. TypeOK /\ FramesInv /\ FinalizedInv /\ ran \in Nat
  BY DEF HandlerInv, TypeOK
<1>b. {"enter", "finalize", "finish", "chain", "raise"} = Positions
        /\ {"finalize", "finish", "chain"} = Inside
  BY DEF Positions, Inside
<1>c. \A q \in Inside : AtPos(t, q) => once = t /\ process = "running" /\ ran = 0
  <2> SUFFICES ASSUME NEW q \in Inside, AtPos(t, q)
               PROVE  once = t /\ process = "running" /\ ran = 0
    OBVIOUS
  <2>1. once = t
    BY <1>0, <1>b, TopFrame DEF InsideInv
  <2> QED
    BY <1>0, <2>1, ThreadAssumption DEF AtPos, RanInv
<1>1. CASE EnterOnce(t)
  <2>1. once = "no" /\ once' = t /\ AtPos(t, "enter") /\ Move(t, "finalize")
          /\ UNCHANGED <<process, ran, fini, overtook>>
    BY <1>1 DEF EnterOnce, OnceFree
  <2>2. InsideInv'
    BY <1>0, <1>b, <2>1, InsideMoves
  <2>3. RanInv'
    BY <2>1 DEF RanInv, Finalized
  <2> QED
    BY <2>2, <2>3
<1>2. CASE SkipOnce(t)
  <2>1. AtPos(t, "enter") /\ Move(t, "raise")
          /\ UNCHANGED <<once, process, ran, fini, overtook>>
    BY <1>2 DEF SkipOnce
  <2>2. InsideInv'
    BY <1>0, <1>b, <2>1, InsideMoves DEF Inside
  <2> QED
    BY <2>1, <2>2 DEF RanInv, Finalized
<1>3. CASE HandlerFinalize(t) \/ HandlerIgnore(t) \/ HandlerFinish(t)
  <2>1. PICK q \in {"finalize", "finish"}, p \in {"finish", "chain"} :
          AtPos(t, q) /\ Move(t, p)
    BY <1>3 DEF HandlerFinalize, HandlerIgnore, HandlerFinish
  <2>2. UNCHANGED <<once, process, ran>>
    BY <1>3 DEF HandlerFinalize, HandlerIgnore, HandlerFinish
  <2>3. InsideInv'
    BY <1>0, <1>b, <1>c, <2>1, <2>2, InsideMoves
  <2>4. ran = 0
    BY <1>b, <1>c, <2>1
  <2> QED
    BY <2>2, <2>3, <2>4 DEF RanInv
<1>4. CASE ChainNothing(t) \/ ChainReturns(t)
  <2>1. AtPos(t, "chain") /\ Move(t, "raise") /\ once' = "done"
          /\ ran' \in {ran, ran + 1} /\ UNCHANGED <<fini, overtook>>
    BY <1>4 DEF ChainNothing, ChainReturns, CallsApplication
  <2>2. InsideInv'
    BY <1>0, <1>b, <2>1, InsideMoves DEF Inside
  <2>3. ran = 0 /\ Finalized
    BY <1>0, <1>b, <1>c, <2>1, TopFrame DEF FramesInv, FrameOK
  <2> QED
    BY <2>1, <2>2, <2>3 DEF RanInv, Finalized
<1>5. CASE ChainExits(t)
  <2>1. AtPos(t, "chain") /\ process' = "exited" /\ ran' = ran + 1
          /\ UNCHANGED <<frames, once, fini, overtook>>
    BY <1>5 DEF ChainExits, CallsApplication
  <2>2. ran = 0 /\ Finalized
    BY <1>0, <1>b, <1>c, <2>1, TopFrame DEF FramesInv, FrameOK
  <2> QED
    BY <2>1, <2>2 DEF InsideInv, RanInv, Finalized
<1>6. CASE ChainSelf(t)
  <2>1. AtPos(t, "chain") /\ Move(t, "enter")
          /\ UNCHANGED <<once, process, ran, fini, overtook>>
    BY <1>6 DEF ChainSelf
  <2>2. InsideInv'
    BY <1>0, <1>b, <2>1, InsideMoves DEF Inside
  <2> QED
    BY <2>1, <2>2 DEF RanInv, Finalized
<1>7. CASE Reraise(t)
  <2>1. AtPos(t, "raise") /\ frames' = [frames EXCEPT ![t] = Front(frames[t])]
          /\ UNCHANGED <<once, process, ran, fini, overtook>>
    BY <1>7 DEF Reraise
  <2>2. frames[t] \in Seq(Frame) /\ frames[t] # <<>>
    BY <1>0, <1>b, <2>1, TopFrame DEF TypeOK, Frame
  <2>3. \A i \in 1 .. Len(frames'[t]) : i \in 1 .. Len(frames[t]) /\ frames'[t][i] = frames[t][i]
    <3>1. frames'[t] = Front(frames[t])
      BY <1>0, <2>1 DEF TypeOK
    <3> QED
      BY <2>2, <3>1, FrontLast
  <2>4. \A u \in Thread \ {t} : frames'[u] = frames[u]
    BY <1>0, <2>1 DEF TypeOK
  <2>5. InsideInv'
    BY <2>1, <2>3, <2>4, InsideStays
  <2> QED
    BY <2>1, <2>5 DEF RanInv, Finalized
<1> QED
  BY <1>1, <1>2, <1>3, <1>4, <1>5, <1>6, <1>7 DEF rocprofv3_error_signal_handler

LEMMA OnceSteps == HandlerInv /\ InsideInv /\ RanInv /\ [Next]_vars => InsideInv' /\ RanInv'
<1> SUFFICES ASSUME HandlerInv, InsideInv, RanInv, [Next]_vars
             PROVE  InsideInv' /\ RanInv'
  OBVIOUS
<1> USE DEF osVars, appVars, toolVars
<1>0. TypeOK
  BY DEF HandlerInv
<1>1. ASSUME UNCHANGED <<frames, once, ran>>, Finalized => Finalized',
             process = "exited" => process' = "exited"
      PROVE  InsideInv' /\ RanInv'
  BY <1>1 DEF InsideInv, RanInv
<1>2. CASE StartMain
  BY <1>1, <1>2 DEF StartMain, Finalized
<1>3. ASSUME NEW s \in Signal, WrappedSigaction(s) \/ WrappedSignal(s)
      PROVE  InsideInv' /\ RanInv'
  BY <1>1, <1>3 DEF WrappedSigaction, WrappedSignal, Finalized
<1>4. ASSUME NEW t \in Thread, NEW s \in Signal, SendSignal(t, s) \/ TakeRaised(t, s)
      PROVE  InsideInv' /\ RanInv'
  <2>1. UNCHANGED <<once, ran, fini, overtook>> /\ process = "running"
    BY <1>4 DEF SendSignal, TakeRaised
  <2>2. CASE Accept(t, s)
    <3>1. InsideInv'
      BY <1>0, <2>1, <2>2, AcceptFrames, InsideStays DEF Inside
    <3> QED
      BY <2>1, <3>1 DEF RanInv, Finalized
  <2>3. CASE ~Accept(t, s)
    BY <1>1, <1>4, <2>1, <2>3 DEF SendSignal, TakeRaised, Finalized
  <2> QED
    BY <2>2, <2>3
<1>5. ASSUME NEW t \in Thread, rocprofv3_error_signal_handler(t)
      PROVE  InsideInv' /\ RanInv'
  BY <1>5, OnceStep
<1>6. CASE rocprofv3_main
  <2>1. UNCHANGED <<frames, once, ran, overtook>> /\ process = "running"
    BY <1>6 DEF rocprofv3_main, MainFinalize, MainIgnore, MainFinish, ExitProcess, OnMain
  <2>2. Finalized => Finalized'
    BY <1>0, <1>6
    DEF rocprofv3_main, MainFinalize, MainIgnore, MainFinish, ExitProcess, BeginFinalize,
        Finalized, TypeOK
  <2> QED
    BY <1>1, <2>1, <2>2
<1>7. CASE UNCHANGED vars
  BY <1>1, <1>7 DEF vars, Finalized
<1> QED
  BY <1>2, <1>3, <1>4, <1>5, <1>6, <1>7 DEF Next

(* At most one handler of the application is called, once, and not before tool_fini is
   over or found under way: for every number of threads, signals and wrapped calls,
   however the handlers nest. *)
THEOREM HandlerCalledOnce == Spec => []ChainedOnce
<1>1. Init => InsideInv /\ RanInv
  BY DEF Init, InsideInv, RanInv
<1>2. HandlerInv /\ RanInv => ChainedOnce
  BY DEF RanInv, Finalized, ChainedOnce
<1> QED
  BY <1>1, <1>2, HandlerInductive, OnceSteps, PTL DEF Spec
=============================================================================
