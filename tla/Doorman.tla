------------------------------ MODULE Doorman ------------------------------
(***************************************************************************)
(* The engine whole: the requests of module Admission and the worker of    *)
(* module Dispatch, running in one process over one store.  A step of the  *)
(* one leaves the memory of the other alone; a crash takes both.           *)
(***************************************************************************)
EXTENDS Store

CONSTANTS
  MaxAttempts, ClaimBatch, Disabled, None, MaxFaults,
  Request, Ops, Scored, OnDetect, OnError, DetectorFails, Reroutes, MaxAborts

VARIABLES
  pc, snap, justFailed, recovering, sends, acked, buried, counted, faults,
  routes, stored, flagged, op, target, rpc, todo, resumed, verdict, answer,
  released, replayed, unrouted, wavered, aborts

W == INSTANCE Dispatch
R == INSTANCE Admission

ASSUME DoormanAssumption == W!DispatchAssumption /\ R!AdmissionAssumption

workerVars == <<pc, snap, justFailed, recovering, sends, acked, buried, counted, faults>>
requestVars ==
  <<routes, stored, flagged, op, target, rpc, todo, resumed, verdict, answer, released, replayed,
    unrouted, wavered, aborts>>
vars == <<storeVars, processVars, workerVars, requestVars>>

Init == StoreInit /\ W!WorkerInit /\ R!AdmissionInit

Worker == W!Worker /\ UNCHANGED requestVars

Requests == R!Requests /\ UNCHANGED workerVars

(* Engine.stop, or the death of the process. *)
Crash == W!Crash /\ R!RequestsDie

(* Engine.start. *)
Start == W!Start /\ R!LoadRoutes

Next == Worker \/ Requests \/ Crash \/ Start

Spec == Init /\ [][Next]_vars

(* A request under way goes on, and a producer sends again what failed; no  *)
(* request has to come in the first place.                                 *)
Fairness ==
  /\ WF_vars(\E B \in SUBSET Delivery : W!Claim(B) /\ UNCHANGED requestVars)
  /\ \A d \in Delivery : WF_vars(W!Deliver(d) /\ UNCHANGED requestVars)
  /\ \A r \in Request :
       /\ WF_vars(rpc[r] # "free" /\ R!Handle(r) /\ UNCHANGED workerVars)
       /\ WF_vars(R!Redeliver(r) /\ UNCHANGED workerVars)
  /\ WF_vars(Start)

FairSpec == Spec /\ Fairness

-----------------------------------------------------------------------------
(* Properties. *)

(* The requests do nothing to the store that Dispatch does not expect of   *)
(* its environment, and the worker is untouched by them: what is shown of  *)
(* Dispatch, whose handlers write whatever they may at any time, holds of  *)
(* the engine whole.                                                       *)
DispatchSpec == W!Spec

(* No sink is ever called for an event its source's filters refused: not    *)
(* by a redelivery, an operator's release or replay, or a restart.          *)
RefusedNeverSent ==
  [][\A d \in Delivery :
       sends'[d] # sends[d] => evStatus[eventOf[d]] # "filtered"]_vars

(* A replay of the event has failed, possibly between two of its inserts.  *)
Halved(e) ==
  /\ e \in replayed
  /\ \E r \in Request : target[r] = e /\ op[r] = "replay" /\ answer[r] = "error"

(* End to end: an event stored with somewhere to go ends with a settled    *)
(* delivery for every one of its sinks, or withheld, or swept with nothing *)
(* left to send, through any crash of the process and any request that     *)
(* failed, as long as its producer redelivers what was not answered.  Two  *)
(* failures are left to the operator who was told of them: a release that  *)
(* took the event out of quarantine and queued nothing, and a replay, which*)
(* may have queued some of the sinks and keeps a redelivery from queuing   *)
(* the others; what was queued settles even so.                            *)
EventSettles ==
  \A e \in Event :
    evStatus[e] = "received" /\ stored[e] # {}
      ~> \/ evStatus[e] \in R!Withheld
         \/ ~Stored(e)
         \/ /\ e \in released
            /\ \E r \in Request :
                 target[r] = e /\ op[r] = "release" /\ answer[r] \in {"error", "no_sinks"}
         \/ /\ HasDeliveries(e) /\ Unsettled(e) = {}
            /\ {sinkOf[d] : d \in RowsOf(e)} = stored[e] \/ Halved(e)
=============================================================================
