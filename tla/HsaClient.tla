------------------------------ MODULE HsaClient ------------------------------
(***************************************************************************)
(* The users of HsaRsrcFactory: a thread gets the factory, and with it     *)
(* submits commands to a queue that Submit shares with the other threads   *)
(* (AqlSubmit).  The factory is given back when no command is under way.   *)
(***************************************************************************)
EXTENDS AqlSubmit, HsaFactory

ASSUME ClientAssumption == User = Thread

clientVars == <<vars, factoryVars>>

ClientInit == Init /\ FactoryInit

(* A step of a thread that has the factory, or of the processor. *)
QueueStep ==
  /\ ~aborted
  /\ Processor \/ \E t \in Thread : call[t] = "have" /\ ThreadStep(t)
  /\ UNCHANGED factoryVars

GetFactory == (\E t \in Thread : FactoryStep(t)) /\ UNCHANGED vars

(* A thread is done with the factory. *)
Leave(t) ==
  /\ ~aborted
  /\ call[t] = "have" /\ pc[t] = "idle"
  /\ call' = [call EXCEPT ![t] = "out"]
  /\ obj' = [obj EXCEPT ![t] = 0]
  /\ UNCHANGED <<vars, platform, mutex, instance, api, built, alive, object, timeout_ns, reset,
                 destroys, aborted, failed>>

ClientNext == QueueStep \/ GetFactory \/ \E t \in Thread : Leave(t)

(* Threads in a call are scheduled; nobody is made to begin one. *)
ClientFairness ==
  /\ \A t \in Thread :
       WF_clientVars(/\ ~aborted /\ call[t] = "have"
                     /\ SubmitPacket(t) \/ SignalWait(t) \/ SignalRestore(t)
                     /\ UNCHANGED factoryVars)
  /\ WF_clientVars(~aborted /\ Processor /\ UNCHANGED factoryVars)

ClientSpec == ClientInit /\ [][ClientNext]_clientVars /\ ClientFairness

(***************************************************************************)
(* The queue and the factory are well-formed while threads get and leave   *)
(* the factory in any order, and no two threads ever build one each        *)
(* (hsa_rsrc_factory.h:297-305).                                           *)
(***************************************************************************)
ClientInv == AqlTypeOK /\ FactoryTypeOK /\ OneInstance

(***************************************************************************)
(* No doorbell is lost and no thread spins for ever: a command that was    *)
(* begun is submitted, taken up and waited for in the end, given that      *)
(* threads are scheduled and kernels end, and that the process is not      *)
(* aborted meanwhile, because another thread builds the factory again      *)
(* after a Destroy and the runtime fails it.                               *)
(***************************************************************************)
CommandsComplete == \A t \in Thread : pc[t] = "claim" ~> (pc[t] = "idle" \/ aborted)
=============================================================================
