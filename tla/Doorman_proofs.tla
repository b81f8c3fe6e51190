--------------------------- MODULE Doorman_proofs ---------------------------
(* Theorems about Doorman: the requests and the worker in one process.  It *)
(* implements Dispatch, so that what is proved of the worker, against      *)
(* requests that write whatever they may, holds of the engine; and it      *)
(* keeps the invariant of Admission, so that what is proved of the         *)
(* requests, against a worker of one step, holds of the engine too.        *)
EXTENDS Doorman, TLAPS

WP == INSTANCE Dispatch_proofs
RP == INSTANCE Admission_proofs

(* What the modules assume of their constants is what Doorman assumes.     *)
LEMMA Assumptions ==
  /\ WP!StoreAssumption /\ WP!DispatchAssumption
  /\ RP!StoreAssumption /\ RP!AdmissionAssumption
BY StoreAssumption, DoormanAssumption
   DEF WP!StoreAssumption, WP!DispatchAssumption, RP!StoreAssumption, RP!AdmissionAssumption,
       W!DispatchAssumption, R!AdmissionAssumption, RP!Withheld, R!Withheld

(* The theorems about the worker come with the instance WP and those about *)
(* the requests with RP; Doorman is written with the instances W and R of  *)
(* the modules themselves.  The lemmas Same... say that these are the same *)
(* definitions, action by action.                                          *)
LEMMA SameDeliver == \A d \in Delivery : W!Deliver(d) <=> WP!Deliver(d)
BY DEF W!Load, WP!Load, W!SinkAccepts, WP!SinkAccepts, W!SinkRefuses, WP!SinkRefuses, W!SinkFails,
       WP!SinkFails, W!MarkDelivered, WP!MarkDelivered, W!MarkRetry, WP!MarkRetry, W!MarkExhausted,
       WP!MarkExhausted, W!Bury, WP!Bury, W!BuryRefused, WP!BuryRefused, W!SettleCount,
       WP!SettleCount, W!SettleTally, WP!SettleTally, W!SettleWrite, WP!SettleWrite, W!Recover,
       WP!Recover, W!Release, WP!Release, W!Deliver, WP!Deliver, W!Goto, WP!Goto, W!Finish,
       WP!Finish, W!Raise, WP!Raise, W!AttemptsMade, WP!AttemptsMade, W!Count, WP!Count, W!Settle,
       WP!Settle, W!FinishAttempt, WP!FinishAttempt, W!InsertDlq, WP!InsertDlq, W!SettleEvent,
       WP!SettleEvent, W!SetEventStatus, WP!SetEventStatus, W!ReleaseClaim, WP!ReleaseClaim,
       W!Stored, WP!Stored, W!RowExists, WP!RowExists, W!RowsOf, WP!RowsOf, W!Unsettled,
       WP!Unsettled, W!ExhaustedOf, WP!ExhaustedOf, W!EventStatus, WP!EventStatus, W!DeliveryStatus,
       WP!DeliveryStatus, W!storeVars, WP!storeVars, W!processVars, WP!processVars, W!histVars,
       WP!histVars

(* ... a failing statement, *)
LEMMA SameFault == \A d \in Delivery : W!Fault(d) <=> WP!Fault(d)
BY DEF W!Fault, WP!Fault, W!Raise, WP!Raise, W!Goto, WP!Goto, W!Finish, WP!Finish, W!StatementPc,
       WP!StatementPc, W!storeVars, WP!storeVars, W!processVars, WP!processVars

(* ... the claim of a batch, *)
LEMMA SameClaim == \A B \in SUBSET Delivery : W!Claim(B) <=> WP!Claim(B)
BY DEF W!Cardinality, WP!Cardinality, W!Claim, WP!Claim, W!ClaimRows, WP!ClaimRows, W!processVars,
       WP!processVars, W!histVars, WP!histVars

(* ... the sweep, *)
LEMMA SameSweep == W!Sweep <=> WP!Sweep
BY DEF W!Sweep, WP!Sweep, W!SweepDlq, WP!SweepDlq, W!SweepEvents, WP!SweepEvents, W!Stored,
       WP!Stored, W!RowExists, WP!RowExists, W!RowsOf, WP!RowsOf, W!Unsettled, WP!Unsettled,
       W!EventStatus, WP!EventStatus, W!DeliveryStatus, WP!DeliveryStatus, W!storeVars,
       WP!storeVars, W!processVars, WP!processVars, W!workerVars, WP!workerVars, W!taskVars,
       WP!taskVars, W!histVars, WP!histVars

(* ... what the requests may write, *)
LEMMA SameHandlers == W!Handlers <=> WP!Handlers
BY DEF W!Handlers, WP!Handlers, W!Receive, WP!Receive, W!Withhold, WP!Withhold, W!Unhold, WP!Unhold,
       W!QueueFirst, WP!QueueFirst, W!Replay, WP!Replay, W!RecordEvent, WP!RecordEvent,
       W!SetEventStatus, WP!SetEventStatus, W!EnqueueFirst, WP!EnqueueFirst, W!EnqueueOne,
       WP!EnqueueOne, W!FreshRows, WP!FreshRows, W!InsertRows, WP!InsertRows, W!HasDeliveries,
       WP!HasDeliveries, W!Stored, WP!Stored, W!RowExists, WP!RowExists, W!RowsOf, WP!RowsOf,
       W!EventStatus, WP!EventStatus, W!DeliveryStatus, WP!DeliveryStatus, W!storeVars,
       WP!storeVars, W!processVars, WP!processVars, W!workerVars, WP!workerVars, W!taskVars,
       WP!taskVars, W!histVars, WP!histVars

(* ... crash and start, *)
LEMMA SameLife == (W!Crash <=> WP!Crash) /\ (W!Start <=> WP!Start)
BY DEF W!Crash, WP!Crash, W!ProcessDies, WP!ProcessDies, W!Start, WP!Start, W!ProcessStarts,
       WP!ProcessStarts, W!RequeueIncomplete, WP!RequeueIncomplete, W!storeVars, WP!storeVars,
       W!processVars, WP!processVars, W!workerVars, WP!workerVars, W!taskVars, WP!taskVars,
       W!histVars, WP!histVars

(* ... the first state and a stuttering step, *)
LEMMA SameInit == (W!Init <=> WP!Init) /\ ((UNCHANGED W!vars) <=> UNCHANGED WP!vars)
BY DEF W!Init, WP!Init, W!StoreInit, WP!StoreInit, W!WorkerInit, WP!WorkerInit, W!vars, WP!vars,
       W!storeVars, WP!storeVars, W!processVars, WP!processVars, W!workerVars, WP!workerVars,
       W!taskVars, WP!taskVars, W!histVars, WP!histVars

(* ... hence every step *)
LEMMA SameNext == W!Next <=> WP!Next
BY SameDeliver, SameFault, SameClaim, SameSweep, SameHandlers, SameLife
   DEF W!Next, WP!Next, W!Worker, WP!Worker

(* ... and every behaviour of the worker. *)
LEMMA SameSpec == W!Spec <=> WP!Spec
BY SameNext, SameInit, PTL DEF W!Spec, WP!Spec

(* ... the steps of a coroutine, *)
LEMMA SameHandle ==
  \A r \in Request : /\ R!Handle(r) <=> RP!Handle(r)
                     /\ R!Redeliver(r) <=> RP!Redeliver(r)
                     /\ R!Abort(r) <=> RP!Abort(r)
BY DEF R!Handle, RP!Handle, R!Arrive, RP!Arrive, R!RecordNew, RP!RecordNew, R!RecordDuplicate,
       RP!RecordDuplicate, R!ResumeStored, RP!ResumeStored, R!ResumeRows, RP!ResumeRows, R!ResumeTo,
       RP!ResumeTo, R!Score, RP!Score, R!RecordDetection, RP!RecordDetection, R!Enqueue, RP!Enqueue,
       R!ReleaseRead, RP!ReleaseRead, R!ReleaseEvent, RP!ReleaseEvent, R!ReplayRead, RP!ReplayRead,
       R!ReplayInsert, RP!ReplayInsert, R!ReplayRefused, RP!ReplayRefused, R!Redeliver,
       RP!Redeliver, R!Abort, RP!Abort, R!Goto, RP!Goto, R!Proceed, RP!Proceed, R!Answer, RP!Answer,
       R!ReadOnly, RP!ReadOnly, R!WriteOnly, RP!WriteOnly, R!AfterAdmission, RP!AfterAdmission,
       R!Judgement, RP!Judgement, R!Verdicts, RP!Verdicts, R!NotReplayable, RP!NotReplayable,
       R!RecordEvent, RP!RecordEvent, R!SetEventStatus, RP!SetEventStatus, R!EnqueueFirst,
       RP!EnqueueFirst, R!EnqueueOne, RP!EnqueueOne, R!FreshRows, RP!FreshRows, R!InsertRows,
       RP!InsertRows, R!HasDeliveries, RP!HasDeliveries, R!Stored, RP!Stored, R!RowExists,
       RP!RowExists, R!RowsOf, RP!RowsOf, R!EventStatus, RP!EventStatus, R!DeliveryStatus,
       RP!DeliveryStatus, R!storeVars, RP!storeVars, R!processVars, RP!processVars, R!historyVars,
       RP!historyVars

(* ... and what a crash and a start do to the requests. *)
LEMMA SameProcess == (R!RequestsDie <=> RP!RequestsDie) /\ (R!LoadRoutes <=> RP!LoadRoutes)
BY DEF R!RequestsDie, RP!RequestsDie, R!LoadRoutes, RP!LoadRoutes, R!historyVars, RP!historyVars,
       R!requestVars, RP!requestVars


-----------------------------------------------------------------------------
(* The refinement: every step of the engine is a step of Dispatch.         *)

(* What a request does to the tables is one of the things Dispatch expects *)
(* of its handlers, and only while the process runs; the rest of a request *)
(* is invisible to the worker.                                             *)
LEMMA RequestsImplement ==
  ASSUME RP!AInv, Requests
  PROVE  WP!Handlers \/ UNCHANGED WP!vars
<1> USE Assumptions DEF RP!StoreAssumption, RP!AdmissionAssumption
<1>1. UNCHANGED WP!workerVars
  BY DEF Requests, workerVars, WP!workerVars, WP!taskVars, WP!histVars
<1>2. PICK r \in Request : RP!Handle(r) \/ RP!Redeliver(r) \/ RP!Abort(r)
  BY SameHandle DEF Requests, R!Requests
<1> DEFINE e == target[r]
<1>3. e \in Event /\ todo[r] \in SUBSET Sink /\ rpc[r] \in RP!Rpc
  BY DEF RP!AInv, RP!TypeOK
<1>4. up \/ rpc[r] \in {"free", "done"}
  BY DEF RP!AInv, RP!Down
<1> HIDE DEF e
<1>5. ASSUME UNCHANGED <<RP!storeVars, RP!processVars>> PROVE UNCHANGED WP!vars
  BY <1>1, <1>5 DEF RP!storeVars, RP!processVars, WP!vars, WP!storeVars, WP!processVars
<1>6. ASSUME up, UNCHANGED RP!processVars,
             WP!Receive(e) \/ WP!Withhold(e) \/ WP!Unhold(e) \/ WP!QueueFirst(e) \/ WP!Replay(e)
      PROVE  WP!Handlers
  BY <1>1, <1>3, <1>6 DEF WP!Handlers, WP!processVars, RP!processVars
<1>7. CASE RP!RecordNew(r)
  <2>1. WP!Receive(e) /\ up /\ UNCHANGED RP!processVars
    BY <1>4, <1>7
       DEF RP!RecordNew, RP!RecordEvent, RP!SetEventStatus, WP!Receive, WP!RecordEvent,
           WP!SetEventStatus, e, RP!processVars
  <2> QED
    BY <2>1, <1>6
<1>8. CASE RP!RecordDetection(r)
  <2>1. up /\ UNCHANGED RP!processVars
    BY <1>4, <1>8 DEF RP!RecordDetection, RP!WriteOnly
  <2>2. CASE evStatus[e] = "received" /\ verdict[r] # "received"
    <3>1. WP!Withhold(e)
      BY <1>8, <2>2
         DEF RP!RecordDetection, RP!SetEventStatus, WP!Withhold, WP!SetEventStatus, RP!AInv,
             RP!TypeOK, RP!Withheld, e
    <3> QED
      BY <2>1, <3>1, <1>6
  <2>3. CASE ~(evStatus[e] = "received" /\ verdict[r] # "received")
    <3>1. UNCHANGED RP!storeVars
      BY <1>8, <2>3
         DEF RP!RecordDetection, RP!SetEventStatus, RP!AInv, RP!TypeOK, RP!StoreTypeOK,
             RP!storeVars, e
    <3> QED
      BY <2>1, <3>1, <1>5
  <2> QED
    BY <2>2, <2>3
<1>9. CASE RP!Enqueue(r)
  <2>1. up /\ UNCHANGED RP!processVars
    BY <1>4, <1>9 DEF RP!Enqueue, RP!WriteOnly
  <2>2. WP!EnqueueFirst(e, todo[r])
    BY <1>9
       DEF RP!Enqueue, RP!EnqueueFirst, WP!EnqueueFirst, RP!InsertRows, WP!InsertRows, RP!FreshRows,
           WP!FreshRows, RP!HasDeliveries, WP!HasDeliveries, RP!RowsOf, WP!RowsOf, RP!RowExists,
           WP!RowExists, RP!DeliveryStatus, WP!DeliveryStatus, RP!storeVars, WP!storeVars, e
  <2> QED
    BY <1>3, <1>6, <2>1, <2>2 DEF WP!QueueFirst
<1>10. CASE RP!ReleaseEvent(r)
  <2>1. up /\ UNCHANGED RP!processVars
    BY <1>4, <1>10 DEF RP!ReleaseEvent
  <2>2. WP!Unhold(e) \/ UNCHANGED RP!storeVars
    BY <1>10 DEF RP!ReleaseEvent, RP!SetEventStatus, WP!Unhold, WP!SetEventStatus, e
  <2> QED
    BY <1>5, <1>6, <2>1, <2>2
<1>11. CASE RP!ReplayInsert(r)
  <2>1. up /\ UNCHANGED RP!processVars
    BY <1>4, <1>11 DEF RP!ReplayInsert
  <2>2. PICK sink \in todo[r] : RP!EnqueueOne(e, sink)
    BY <1>11 DEF RP!ReplayInsert, e
  <2>3. WP!EnqueueOne(e, sink)
    BY <2>2
       DEF RP!EnqueueOne, WP!EnqueueOne, RP!InsertRows, WP!InsertRows, RP!FreshRows, WP!FreshRows,
           RP!Stored, WP!Stored, RP!EventStatus, WP!EventStatus
  <2> QED
    BY <1>3, <1>6, <2>1, <2>3 DEF WP!Replay
<1>12. CASE UNCHANGED <<RP!storeVars, RP!processVars>>
  BY <1>5, <1>12
<1> QED
  BY <1>2, <1>7, <1>8, <1>9, <1>10, <1>11, <1>12
     DEF RP!Handle, RP!Arrive, RP!RecordDuplicate, RP!ResumeStored, RP!ResumeRows, RP!ResumeTo,
         RP!Score, RP!ReleaseRead, RP!ReplayRead, RP!ReplayRefused, RP!Redeliver, RP!Abort,
         RP!ReadOnly

(* Every step of the engine is one of Dispatch, or changes nothing there.  *)
LEMMA StepsImplement ==
  ASSUME RP!AInv, Next
  PROVE  WP!Next \/ UNCHANGED WP!vars
<1>1. CASE Requests
  BY <1>1, RequestsImplement DEF WP!Next
<1>2. CASE Worker
  BY <1>2, SameDeliver, SameFault, SameClaim, SameSweep DEF Worker, W!Worker, WP!Worker, WP!Next
<1>3. CASE Crash \/ Start
  BY <1>3, SameLife DEF Crash, Start, WP!Next
<1> QED
  BY <1>1, <1>2, <1>3 DEF Next

-----------------------------------------------------------------------------
(* The invariant of the requests survives the worker of Dispatch, which is *)
(* much more than the one step Admission has for it.                       *)

(* What the tasks and the sweep do to events and rows is Settling: they    *)
(* finish rows that exist, settle events that are stored, and remove an    *)
(* event with its rows.                                                    *)
LEMMA WorkerSettles ==
  ASSUME RP!AInv, WP!TypeOK, Worker
  PROVE  RP!Settling /\ RP!TypeOK'
<1> USE Assumptions DEF WP!StoreAssumption
<1>1. WP!Worker /\ UNCHANGED RP!admissionVars
  BY SameDeliver, SameFault, SameClaim, SameSweep DEF Worker, W!Worker, WP!Worker, requestVars,
     RP!admissionVars, RP!requestVars, RP!historyVars
<1>2. WP!TypeOK'
  BY <1>1, WP!TypeStep DEF WP!Next
<1>3. RP!TypeOK'
  BY <1>1, <1>2
     DEF RP!AInv, RP!TypeOK, RP!StoreTypeOK, WP!TypeOK, WP!StoreTypeOK, RP!EventStatus,
         WP!EventStatus, RP!DeliveryStatus, WP!DeliveryStatus, RP!admissionVars, RP!requestVars,
         RP!historyVars
<1>4. UNCHANGED RP!processVars
  BY <1>1
     DEF WP!Worker, WP!Claim, WP!Fault, WP!Sweep, WP!Deliver, WP!Load, WP!SinkAccepts,
         WP!SinkRefuses, WP!SinkFails, WP!MarkDelivered, WP!MarkRetry, WP!MarkExhausted, WP!Bury,
         WP!BuryRefused, WP!SettleCount, WP!SettleTally, WP!SettleWrite, WP!Settle, WP!Recover,
         WP!Release, WP!processVars, RP!processVars
<1>5. \A f \in Event : evStatus[f] = "deleted" => RP!RowsOf(f) = {}
  BY DEF RP!AInv, RP!EventInv, RP!Queued, RP!HasDeliveries, RP!Stored, RP!EventStatus
<1> DEFINE Still == evStatus' = evStatus /\ \A f \in Event : RP!RowsOf(f)' = RP!RowsOf(f)
<1>6. ASSUME Still PROVE RP!Settling
  BY <1>1, <1>4, <1>5, <1>6 DEF RP!Settling
<1>7. ASSUME NEW d \in Delivery, WP!Deliver(d) PROVE RP!Settling
  <2> USE DEF RP!RowsOf, RP!RowExists, RP!DeliveryStatus, WP!TypeOK, WP!StoreTypeOK,
          WP!RowExists, WP!DeliveryStatus
  <2>1. CASE UNCHANGED WP!storeVars
    BY <1>6, <2>1 DEF WP!storeVars
  <2>2. CASE WP!MarkDelivered(d)
    BY <1>6, <2>2 DEF WP!MarkDelivered, WP!FinishAttempt, WP!storeVars
  <2>3. CASE WP!MarkRetry(d)
    BY <1>6, <2>3 DEF WP!MarkRetry, WP!FinishAttempt, WP!storeVars
  <2>4. CASE WP!MarkExhausted(d)
    BY <1>6, <2>4 DEF WP!MarkExhausted, WP!FinishAttempt, WP!storeVars
  <2>5. CASE WP!Bury(d)
    BY <1>6, <2>5 DEF WP!Bury, WP!InsertDlq
  <2>6. CASE WP!SettleWrite(d)
    <3>1. eventOf[d] \in Event
      OBVIOUS
    <3>2. \A f \in Event : RP!RowsOf(f)' = RP!RowsOf(f)
      BY <2>6 DEF WP!SettleWrite, WP!SettleEvent, WP!SetEventStatus, WP!storeVars
    <3>3. \A f \in Event : \/ evStatus'[f] = evStatus[f]
                           \/ RP!Stored(f) /\ evStatus'[f] \in {"dispatched", "failed"}
      BY <2>6, <3>1
         DEF WP!SettleWrite, WP!SettleEvent, WP!SetEventStatus, WP!storeVars, RP!Stored, WP!Stored,
             RP!EventStatus, WP!EventStatus
    <3> QED
      BY <1>1, <1>4, <1>5, <3>2, <3>3 DEF RP!Settling
  <2>7. CASE WP!Release(d)
    BY <1>6, <2>7 DEF WP!Release, WP!ReleaseClaim, WP!FinishAttempt, WP!storeVars
  <2> QED
    BY <1>7, <2>1, <2>2, <2>3, <2>4, <2>5, <2>6, <2>7
       DEF WP!Deliver, WP!Load, WP!SinkAccepts, WP!SinkRefuses, WP!SinkFails, WP!BuryRefused,
           WP!SettleCount, WP!SettleTally, WP!Recover
<1>8. ASSUME NEW d \in Delivery, WP!Fault(d) PROVE RP!Settling
  BY <1>6, <1>8 DEF WP!Fault, WP!storeVars, RP!RowsOf, RP!RowExists
<1>9. ASSUME NEW B \in SUBSET Delivery, WP!Claim(B) PROVE RP!Settling
  BY <1>6, <1>9
     DEF WP!Claim, WP!ClaimRows, RP!RowsOf, RP!RowExists, RP!DeliveryStatus, WP!TypeOK,
         WP!StoreTypeOK
<1>10. ASSUME NEW S \in SUBSET Delivery, WP!SweepDlq(S) PROVE RP!Settling
  BY <1>6, <1>10 DEF WP!SweepDlq, RP!RowsOf, RP!RowExists
<1>11. ASSUME NEW S \in SUBSET Event, WP!SweepEvents(S) PROVE RP!Settling
  <2>1. \A f \in Event : \/ f \in S /\ RP!Stored(f) /\ evStatus'[f] = "deleted"
                         \/ f \notin S /\ evStatus'[f] = evStatus[f]
    BY <1>11
       DEF WP!SweepEvents, WP!TypeOK, WP!StoreTypeOK, RP!Stored, WP!Stored, RP!EventStatus,
           WP!EventStatus
  <2>2. \A f \in Event : f \notin S => RP!RowsOf(f)' = RP!RowsOf(f)
    BY <1>11 DEF WP!SweepEvents, RP!RowsOf, RP!RowExists, RP!DeliveryStatus
  <2>3. \A f \in Event : f \in S => RP!RowsOf(f)' = {}
    BY <1>11
       DEF WP!SweepEvents, RP!RowsOf, RP!RowExists, RP!DeliveryStatus, WP!RowExists,
           WP!DeliveryStatus
  <2> QED
    BY <1>1, <1>4, <1>5, <2>1, <2>2, <2>3 DEF RP!Settling
<1> QED
  BY <1>1, <1>3, <1>7, <1>8, <1>9, <1>10, <1>11 DEF WP!Worker, WP!Sweep

(* Every step of the engine keeps the invariant of the requests.           *)
LEMMA EngineStep ==
  ASSUME RP!AInv, WP!TypeOK, Next
  PROVE  RP!AInv'
<1> USE Assumptions
<1>1. CASE Requests
  <2>1. PICK r \in Request : RP!Handle(r) \/ RP!Redeliver(r) \/ RP!Abort(r)
    BY <1>1, SameHandle DEF Requests, R!Requests
  <2> QED
    BY <2>1, RP!HandleStep
<1>2. CASE Worker
  BY <1>2, WorkerSettles, RP!SettlingStep
<1>3. CASE Crash
  <2>1. /\ RP!RequestsDie /\ UNCHANGED RP!storeVars /\ up' = FALSE
        /\ crashes < MaxCrashes /\ crashes' = crashes + 1
    BY <1>3, SameProcess DEF Crash, W!Crash, W!ProcessDies, W!storeVars, RP!storeVars
  <2>2. crashes' \in 0..MaxCrashes
    BY <2>1 DEF RP!AInv, RP!TypeOK, RP!StoreTypeOK, RP!StoreAssumption
  <2> QED
    BY <2>1, <2>2, RP!DieStep
<1>4. CASE Start
  <2>1. RP!LoadRoutes /\ WP!Start /\ ~up /\ evStatus' = evStatus
    BY <1>4, SameLife, SameProcess DEF Start, WP!Start, WP!ProcessStarts, WP!RequeueIncomplete
  <2>2. WP!TypeOK'
    BY <2>1, WP!TypeStep DEF WP!Next
  <2>3. routes' \in [Event -> SUBSET Sink]
    BY <2>1 DEF RP!LoadRoutes, RP!AInv, RP!TypeOK
  <2>4. RP!TypeOK'
    BY <2>1, <2>2, <2>3
       DEF RP!LoadRoutes, RP!AInv, RP!TypeOK, RP!StoreTypeOK, WP!TypeOK, WP!StoreTypeOK,
           RP!EventStatus, WP!EventStatus, RP!DeliveryStatus, WP!DeliveryStatus, RP!requestVars,
           RP!historyVars
  <2>5. \A f \in Event : RP!RowsOf(f)' = RP!RowsOf(f)
    BY <2>1
       DEF WP!Start, WP!ProcessStarts, WP!RequeueIncomplete, RP!RowsOf, RP!RowExists,
           RP!DeliveryStatus
  <2> QED
    BY <2>1, <2>4, <2>5, RP!StartStep
<1> QED
  BY <1>1, <1>2, <1>3, <1>4 DEF Next

(* The first state.                                                        *)
LEMMA EngineStarts == Init => RP!AInv /\ WP!Init
<1> SUFFICES ASSUME Init PROVE RP!AInv /\ WP!Init
  OBVIOUS
<1>1. WP!Init
  BY DEF Init, StoreInit, W!WorkerInit, WP!Init, WP!StoreInit, WP!WorkerInit
<1>2. RP!Init
  BY DEF Init, StoreInit, R!AdmissionInit, RP!Init, RP!StoreInit, RP!AdmissionInit
<1> QED
  BY <1>1, <1>2, RP!AdmissionStarts, Assumptions

(* The engine whole keeps the invariant of its requests: worker, sweep,    *)
(* crash and restart included.                                             *)
THEOREM EngineInvariance == Spec => [](RP!AInv /\ WP!TypeOK)
<1>1. WP!Init => WP!TypeOK
  BY Assumptions
     DEF WP!StoreAssumption, WP!DispatchAssumption, WP!Init, WP!StoreInit, WP!WorkerInit, WP!TypeOK,
         WP!StoreTypeOK, WP!Pc, WP!StatementPc, WP!EventStatus, WP!DeliveryStatus
<1>2. RP!AInv /\ WP!TypeOK /\ [Next]_vars => RP!AInv' /\ WP!TypeOK'
  <2> USE Assumptions
  <2> SUFFICES ASSUME RP!AInv, WP!TypeOK, [Next]_vars PROVE RP!AInv' /\ WP!TypeOK'
    OBVIOUS
  <2>1. CASE Next
    BY <2>1, EngineStep, StepsImplement, WP!TypeStep
  <2>2. CASE UNCHANGED vars
    <3>1. UNCHANGED WP!vars
      BY <2>2
         DEF vars, workerVars, storeVars, processVars, WP!vars, WP!storeVars, WP!processVars,
             WP!workerVars, WP!taskVars, WP!histVars
    <3>2. RP!TypeOK'
      BY <2>2 DEF vars, storeVars, processVars, requestVars, RP!AInv, RP!TypeOK, RP!StoreTypeOK
    <3>3. RP!Settling
      BY <2>2
         DEF vars, storeVars, processVars, requestVars, RP!Settling, RP!RowsOf, RP!RowExists,
             RP!AInv, RP!EventInv, RP!Queued, RP!HasDeliveries, RP!Stored, RP!EventStatus,
             RP!processVars, RP!admissionVars, RP!requestVars, RP!historyVars
    <3> QED
      BY <3>1, <3>2, <3>3, RP!SettlingStep, WP!TypeStep
  <2> QED
    BY <2>1, <2>2
<1> QED
  BY <1>1, <1>2, EngineStarts, PTL DEF Spec

-----------------------------------------------------------------------------
(* The theorems. *)

(* The requests do to the tables only what Dispatch lets its environment   *)
(* do, so that every behaviour of the engine is one of Dispatch            *)
(* (Engine.ingest, release and replay beside run_once and _sweep_loop).    *)
THEOREM Composition == Spec => DispatchSpec
<1>1. RP!AInv /\ [Next]_vars => [WP!Next]_WP!vars
  <2>1. UNCHANGED vars => UNCHANGED WP!vars
    BY DEF vars, workerVars, storeVars, processVars, WP!vars, WP!storeVars, WP!processVars,
           WP!workerVars, WP!taskVars, WP!histVars
  <2> QED
    BY <2>1, StepsImplement
<1>2. Spec => WP!Spec
  BY <1>1, EngineStarts, EngineInvariance, PTL DEF Spec, WP!Spec
<1> QED
  BY <1>2, SameSpec DEF DispatchSpec

(* No sink is called for an event the filters of its source refused: such  *)
(* an event never gets a row (Engine.ingest, replay), and a sink is called *)
(* only for a row that is claimed.                                         *)
THEOREM Refused == Spec => RefusedNeverSent
<1>1. RP!AInv /\ [\A d \in Delivery : sends'[d] # sends[d] => dlStatus[d] = "in_flight"]_WP!vars
        => [\A d \in Delivery : sends'[d] # sends[d] => evStatus[eventOf[d]] # "filtered"]_vars
  <2> SUFFICES ASSUME RP!AInv, NEW d \in Delivery, dlStatus[d] = "in_flight"
               PROVE  evStatus[eventOf[d]] # "filtered"
    BY DEF vars, WP!vars, WP!workerVars, WP!histVars
  <2>1. d \in RP!RowsOf(eventOf[d]) /\ eventOf[d] \in Event
    BY StoreAssumption DEF RP!RowsOf, RP!RowExists, RP!DeliveryStatus
  <2> QED
    BY <2>1 DEF RP!AInv, RP!EventInv, RP!Queued, RP!HasDeliveries
<1>2. Spec => WP!CalledOnlyWhileClaimed
  BY Composition, SameSpec, WP!Claimed, Assumptions DEF DispatchSpec
<1> QED
  BY <1>1, <1>2, EngineInvariance, PTL DEF WP!CalledOnlyWhileClaimed, RefusedNeverSent

(* With the requests as they are, and not as Dispatch imagines them, the   *)
(* worker keeps its promises: attempts are bounded, a delivered row was    *)
(* accepted, payloads are kept, a single fault strands nothing, and events *)
(* and dead letters are as they should be.                                 *)
THEOREM EngineWorker ==
  Spec => [](/\ W!AttemptBudget /\ W!DeliveredWasAccepted /\ W!PayloadKept
             /\ W!StrandedAfterTwoFaults /\ W!RolledUp /\ W!DeadLetteredUndisturbed
             /\ W!OutcomesCounted)
<1>1. Spec => WP!Spec
  BY Composition, SameSpec DEF DispatchSpec
<1>2. Spec => /\ []WP!AttemptBudget /\ []WP!DeliveredWasAccepted /\ []WP!PayloadKept
              /\ []WP!StrandedAfterTwoFaults /\ []WP!RolledUp /\ []WP!DeadLetteredUndisturbed
              /\ []WP!OutcomesCounted
  BY <1>1, Assumptions, WP!Budget, WP!Accepted, WP!PayloadSafe, WP!Repaired, WP!Rolled, WP!Buried,
     WP!Counted
<1>3. /\ WP!AttemptBudget => W!AttemptBudget
      /\ WP!DeliveredWasAccepted => W!DeliveredWasAccepted
      /\ WP!PayloadKept => W!PayloadKept
      /\ WP!StrandedAfterTwoFaults => W!StrandedAfterTwoFaults
      /\ WP!RolledUp => W!RolledUp
      /\ WP!DeadLetteredUndisturbed => W!DeadLetteredUndisturbed
      /\ WP!OutcomesCounted => W!OutcomesCounted
  BY DEF W!AttemptBudget, WP!AttemptBudget, W!DeliveredWasAccepted, WP!DeliveredWasAccepted,
         W!PayloadKept, WP!PayloadKept, W!StrandedAfterTwoFaults, WP!StrandedAfterTwoFaults,
         W!RolledUp, WP!RolledUp, W!DeadLetteredUndisturbed, WP!DeadLetteredUndisturbed,
         W!DeadLettered, WP!DeadLettered, W!OutcomesCounted, WP!OutcomesCounted, W!Undisturbed,
         WP!Undisturbed, W!AtRest, WP!AtRest, W!HasDeliveries, WP!HasDeliveries, W!Unsettled,
         WP!Unsettled, W!ExhaustedOf, WP!ExhaustedOf, W!RowsOf, WP!RowsOf, W!RowExists,
         WP!RowExists, W!DeliveryStatus, WP!DeliveryStatus, W!Stored, WP!Stored, W!EventStatus,
         WP!EventStatus
<1> QED
  BY <1>2, <1>3, PTL

(* With the worker as it is, and not as Admission imagines it, the         *)
(* requests keep theirs: one row per sink, for the sinks decided on, none  *)
(* for what was withheld, and no event lost in silence.                    *)
THEOREM EngineRequests ==
  Spec => [](R!AtMostOncePerSink /\ R!StoredDecision /\ R!WithheldNeverQueued /\ R!NoSilentLoss)
<1>1. RP!AInv => RP!AtMostOncePerSink /\ RP!StoredDecision /\ RP!WithheldNeverQueued /\ RP!NoSilentLoss
  <2>1. RP!AInv => RP!AtMostOncePerSink /\ RP!StoredDecision /\ RP!WithheldNeverQueued
    BY DEF RP!AInv, RP!EventInv, RP!Queued, RP!AtMostOncePerSink, RP!StoredDecision,
           RP!WithheldNeverQueued
  <2> QED
    BY <2>1, RP!NotLostInState, Assumptions
<1>2. /\ RP!AtMostOncePerSink => R!AtMostOncePerSink
      /\ RP!StoredDecision => R!StoredDecision
      /\ RP!WithheldNeverQueued => R!WithheldNeverQueued
      /\ RP!NoSilentLoss => R!NoSilentLoss
  BY DEF R!AtMostOncePerSink, RP!AtMostOncePerSink, R!StoredDecision, RP!StoredDecision,
         R!WithheldNeverQueued, RP!WithheldNeverQueued, R!NoSilentLoss, RP!NoSilentLoss, R!AtWork,
         RP!AtWork, R!Withheld, RP!Withheld, R!HasDeliveries, RP!HasDeliveries, R!RowsOf, RP!RowsOf,
         R!RowExists, RP!RowExists, R!DeliveryStatus, RP!DeliveryStatus
<1> QED
  BY <1>1, <1>2, EngineInvariance, PTL

(* A step of the engine, as the lemmas about requests see it.              *)
LEMMA EngineSteps ==
  ASSUME RP!AInv, WP!TypeOK, Next
  PROVE  \/ \E r \in Request : RP!Handle(r) \/ RP!Redeliver(r) \/ RP!Abort(r)
         \/ RP!Settling
         \/ evStatus' = evStatus /\ \A f \in Event : RP!RowsOf(f)' \subseteq RP!RowsOf(f)
<1>1. CASE Requests
  BY <1>1, SameHandle DEF Requests, R!Requests
<1>2. CASE Worker
  BY <1>2, WorkerSettles
<1>3. CASE Crash \/ Start
  BY <1>3
     DEF Crash, Start, W!Crash, W!ProcessDies, W!Start, W!ProcessStarts, W!RequeueIncomplete,
         W!storeVars, RP!RowsOf, RP!RowExists, RP!DeliveryStatus
<1> QED
  BY <1>1, <1>2, <1>3 DEF Next

(* A verdict that withholds is not undone by anything the engine does,     *)
(* but by release_event.                                                   *)
THEOREM EngineFinal == Spec => R!VerdictStands
<1>1. RP!AInv /\ WP!TypeOK /\ [Next]_vars =>
        [\A e \in Event :
           evStatus[e] \in R!Withheld /\ evStatus'[e] # evStatus[e]
                                  /\ evStatus'[e] \in {"received"} \cup R!Withheld
             => /\ evStatus[e] = "quarantined"
                /\ \E r \in Request : target[r] = e /\ rpc[r] = "unhold" /\ rpc'[r] # "unhold"]_R!vars
  <2> SUFFICES ASSUME RP!AInv, WP!TypeOK, Next, NEW e \in Event,
                      evStatus[e] \in RP!Withheld, evStatus'[e] # evStatus[e],
                      evStatus'[e] \in {"received"} \cup RP!Withheld
               PROVE  /\ evStatus[e] = "quarantined"
                      /\ \E r \in Request : target[r] = e /\ rpc[r] = "unhold" /\ rpc'[r] # "unhold"
    BY DEF vars, storeVars, processVars, requestVars, R!vars, R!storeVars, R!processVars,
           R!admissionVars, R!requestVars, R!historyVars, R!Withheld, RP!Withheld
  <2> QED
    BY EngineSteps, RP!VerdictKept, Assumptions
<1> QED
  BY <1>1, EngineInvariance, PTL DEF Spec, R!VerdictStands

(* A row appears only for a sink of the current configuration, whatever    *)
(* the engine does.                                                        *)
THEOREM EngineRouted == Spec => R!CurrentRoutes
<1>1. RP!AInv /\ WP!TypeOK /\ [Next]_vars =>
        [\A d \in Delivery :
           dlStatus[d] = "unused" /\ dlStatus'[d] = "pending" => sinkOf[d] \in routes[eventOf[d]]]_R!vars
  <2> SUFFICES ASSUME RP!AInv, WP!TypeOK, Next, NEW d \in Delivery,
                      dlStatus[d] = "unused", dlStatus'[d] = "pending"
               PROVE  sinkOf[d] \in routes[eventOf[d]]
    BY DEF vars, storeVars, processVars, requestVars, R!vars, R!storeVars, R!processVars,
           R!admissionVars, R!requestVars, R!historyVars
  <2>1. \/ \E r \in Request : RP!Handle(r) \/ RP!Redeliver(r) \/ RP!Abort(r)
        \/ \A f \in Event : RP!RowsOf(f)' \subseteq RP!RowsOf(f)
    BY EngineSteps, RP!SettlingQueuesNothing, Assumptions
  <2> QED
    BY <2>1, RP!RowRouted, Assumptions
<1> QED
  BY <1>1, EngineInvariance, PTL DEF Spec, R!CurrentRoutes

(* The engine does to events and deliveries only what Outbox allows, which *)
(* is what GET /admin/events and GET /admin/dlq show of it.                *)
THEOREM EngineOutbox == Spec => W!OutboxSpec
<1>1. Spec => WP!Spec
  BY Composition, SameSpec DEF DispatchSpec
<1>2. Spec => WP!OutboxSpec
  BY <1>1, WP!Implements, Assumptions
<1>3. /\ WP!O!Init <=> W!O!Init
      /\ WP!O!Next <=> W!O!Next
      /\ (UNCHANGED WP!O!outbox) <=> UNCHANGED W!O!outbox
  BY DEF WP!Ticket, W!Ticket, W!O!Init, WP!O!Init, W!O!Next, WP!O!Next, W!O!Decide, WP!O!Decide,
         W!O!Conclude, WP!O!Conclude, W!O!Take, WP!O!Take, W!O!Done, WP!O!Done, W!O!GiveUp,
         WP!O!GiveUp, W!O!Bury, WP!O!Bury, W!O!Queue, WP!O!Queue, W!O!Shred, WP!O!Shred, W!O!Forget,
         WP!O!Forget, W!O!Trouble, WP!O!Trouble, W!O!Open, WP!O!Open, W!O!Concluded, WP!O!Concluded,
         W!O!Kept, WP!O!Kept, W!O!Of, WP!O!Of, W!O!outbox, WP!O!outbox
<1>4. WP!OutboxSpec <=> W!OutboxSpec
  BY <1>3, PTL DEF WP!OutboxSpec, W!OutboxSpec, WP!O!Spec, W!O!Spec
<1> QED
  BY <1>2, <1>4, PTL
=============================================================================
