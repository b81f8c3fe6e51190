--------------------------- MODULE Dispatch_proofs ---------------------------
(* Theorems about Dispatch, for every set of events, sinks and deliveries, *)
(* every number of attempts, crashes and failing statements.               *)
EXTENDS Dispatch, TLAPS

(* What a task that ends, or raises, does to its own state keeps its type. *)
LEMMA TaskEnds ==
  ASSUME TypeOK, NEW d \in Delivery, Finish(d) \/ Raise(d)
  PROVE  /\ pc' \in [Delivery -> Pc]
         /\ snap' \in [Delivery -> Nat]
         /\ justFailed' \in [Delivery -> BOOLEAN]
         /\ recovering' \in Delivery \cup {None}
<1> USE DEF TypeOK, Pc, StatementPc
<1>1. CASE Finish(d)
  BY <1>1 DEF Finish
<1>2. CASE Goto(d, "raised")
  BY <1>2 DEF Goto
<1> QED
  BY <1>1, <1>2 DEF Raise

(* Every step of Dispatch keeps the types of its variables. *)
LEMMA TypeStep == TypeOK /\ [Next]_vars => TypeOK'
<1> USE StoreAssumption, DispatchAssumption
<1> SUFFICES ASSUME TypeOK, [Next]_vars PROVE TypeOK'
  OBVIOUS
<1> USE DEF TypeOK, StoreTypeOK, storeVars, processVars, workerVars, taskVars, histVars
<1>1. ASSUME NEW B \in SUBSET Delivery, Claim(B) PROVE TypeOK'
  BY <1>1 DEF Claim, ClaimRows, Pc, StatementPc, EventStatus, DeliveryStatus
<1>2. ASSUME NEW d \in Delivery, Deliver(d) PROVE TypeOK'
  <2> USE DEF Pc, StatementPc
  <2>1. CASE Load(d)
    BY <2>1 DEF Load, Goto
  <2>2. CASE SinkAccepts(d)
    BY <2>2 DEF SinkAccepts, Goto
  <2>3. CASE SinkRefuses(d)
    BY <2>3 DEF SinkRefuses, Goto, Count
  <2>4. CASE SinkFails(d)
    BY <2>4 DEF SinkFails, Goto, Count
  <2>5. CASE MarkDelivered(d)
    BY <2>5 DEF MarkDelivered, FinishAttempt, Goto, DeliveryStatus
  <2>6. CASE MarkRetry(d)
    BY <2>6 DEF MarkRetry, FinishAttempt, Finish, DeliveryStatus
  <2>7. CASE MarkExhausted(d)
    BY <2>7 DEF MarkExhausted, FinishAttempt, Goto, DeliveryStatus
  <2>8. CASE Bury(d)
    BY <2>8 DEF Bury, InsertDlq
  <2>9. CASE BuryRefused(d)
    BY <2>9, TaskEnds DEF BuryRefused
  <2>10. CASE SettleCount(d)
    BY <2>10, TaskEnds DEF SettleCount, Goto, Settle, Count
  <2>11. CASE SettleTally(d)
    BY <2>11 DEF SettleTally, Goto
  <2>12. CASE SettleWrite(d)
    BY <2>12 DEF SettleWrite, SettleEvent, SetEventStatus, Settle, Count, Finish, EventStatus
  <2>13. CASE Recover(d)
    BY <2>13 DEF Recover, Count
  <2>14. CASE Release(d)
    BY <2>14 DEF Release, ReleaseClaim, FinishAttempt, Finish, DeliveryStatus
  <2> QED
    BY <1>2, <2>1, <2>2, <2>3, <2>4, <2>5, <2>6, <2>7, <2>8, <2>9, <2>10, <2>11,
       <2>12, <2>13, <2>14
    DEF Deliver
<1>3. ASSUME NEW d \in Delivery, Fault(d) PROVE TypeOK'
  BY <1>3, TaskEnds DEF Fault
<1>4. CASE Sweep
  BY <1>4 DEF Sweep, SweepDlq, SweepEvents
<1>5. CASE Handlers
  BY <1>5 DEF Handlers, Receive, Withhold, Unhold, QueueFirst, Replay, RecordEvent,
              SetEventStatus, EnqueueFirst, EnqueueOne, InsertRows, EventStatus, DeliveryStatus
<1>6. CASE Crash
  <2>1. StoreTypeOK'
    <3>1. crashes' \in 0..MaxCrashes
      BY <1>6 DEF Crash, ProcessDies
    <3>2. up' \in BOOLEAN
      BY <1>6, Zenon DEF Crash, ProcessDies
    <3> QED
      BY <1>6, <3>1, <3>2 DEF Crash, ProcessDies
  <2>2. /\ pc' \in [Delivery -> Pc]
        /\ snap' \in [Delivery -> Nat]
        /\ justFailed' \in [Delivery -> BOOLEAN]
        /\ recovering' \in Delivery \cup {None}
    BY <1>6 DEF Crash, Pc, StatementPc
  <2> QED
    BY <1>6, <2>1, <2>2 DEF Crash
<1>7. CASE Start
  BY <1>7 DEF Start, ProcessStarts, RequeueIncomplete, DeliveryStatus
<1>8. CASE UNCHANGED vars
  BY <1>8 DEF vars
<1> QED
  BY <1>1, <1>2, <1>3, <1>4, <1>5, <1>6, <1>7, <1>8 DEF Next, Worker

(* The variables of Dispatch keep their types: in particular every task is *)
(* at a point of the code, whatever the interleaving.                      *)
THEOREM TypeCorrect == Spec => []TypeOK
<1>1. Init => TypeOK
  BY StoreAssumption, DispatchAssumption
     DEF Init, StoreInit, WorkerInit, TypeOK, StoreTypeOK, Pc, StatementPc,
         EventStatus, DeliveryStatus
<1> QED
  BY <1>1, TypeStep, PTL DEF Spec

-----------------------------------------------------------------------------
(* The inductive invariant.  AttemptBudget alone is not inductive: a step   *)
(* sends on the strength of the row's counter, so the counter must be tied  *)
(* to the calls made in every state a row can be in.                        *)

(* Only a running process has tasks. *)
Down == ~up => \A d \in Delivery : pc[d] = "idle"

(* A row that does not exist yet has no task and was never sent. *)
Fresh(d) == dlStatus[d] = "unused" => pc[d] = "idle" /\ attempt[d] = 0 /\ sends[d] = 0

(* A row that waits has attempts left, and every call of its sink is        *)
(* counted in the row or was interrupted by a crash.                        *)
Waiting(d) ==
  dlStatus[d] = "pending" =>
    /\ pc[d] = "idle"
    /\ attempt[d] < MaxAttempts
    /\ sends[d] <= attempt[d] + crashes

(* A claimed row may have one more call, the one under way or the one a     *)
(* double failure left uncounted.                                           *)
InHand(d) ==
  dlStatus[d] = "in_flight" =>
    /\ attempt[d] < MaxAttempts
    /\ sends[d] <= attempt[d] + crashes + 1
    /\ ~up \/ pc[d] = "load" => sends[d] <= attempt[d] + crashes
    /\ pc[d] # "idle" => snap[d] = attempt[d]
    /\ pc[d] = "raised" \/ recovering = d => faults >= 1
    /\ up /\ pc[d] = "idle" => faults >= 2

Settled(d) ==
  dlStatus[d] \in {"delivered", "exhausted", "deleted"} => sends[d] <= MaxAttempts + crashes

(* What a task may rely on where it is. *)
Task(d) ==
  /\ pc[d] \in {"load", "send", "delivered", "retry"} => dlStatus[d] = "in_flight"
  /\ pc[d] \in {"dlq", "settle", "tally", "dispatch", "fail"} =>
       dlStatus[d] \in {"delivered", "exhausted", "deleted"}
  /\ pc[d] \in {"retry", "release"} => snap[d] + 1 < MaxAttempts
  /\ pc[d] = "delivered" \/ dlStatus[d] = "delivered" => d \in acked
  /\ recovering = d => pc[d] # "idle"

(* The foreign key. *)
Payload(d) == RowExists(d) => Stored(eventOf[d])

DeliveryInv(d) == Fresh(d) /\ Waiting(d) /\ InHand(d) /\ Settled(d) /\ Task(d) /\ Payload(d)

IInv == TypeOK /\ Down /\ \A d \in Delivery : DeliveryInv(d)

(* The steps of a task keep the inductive invariant. *)
LEMMA DeliverStep ==
  ASSUME IInv, TypeOK', NEW d \in Delivery, Deliver(d)
  PROVE  IInv'
<1> USE StoreAssumption, DispatchAssumption
<1> SUFFICES Down' /\ \A c \in Delivery : DeliveryInv(c)'
  BY DEF IInv
<1>1. Down'
  BY DEF IInv, Down, Deliver, Load, SinkAccepts, SinkRefuses, SinkFails, MarkDelivered, MarkRetry,
     MarkExhausted, Bury, BuryRefused, SettleCount, SettleTally, SettleWrite, Settle, Recover, Release,
     processVars
<1>2. ASSUME NEW c \in Delivery PROVE DeliveryInv(c)'
  <2> USE <1>2 DEF IInv, TypeOK, StoreTypeOK, DeliveryInv, Fresh, Waiting, InHand, Settled, Task,
          Payload, RowExists, Stored, DeliveryStatus, storeVars, processVars, histVars, Down
  <2>1. CASE Load(d)
    BY <2>1 DEF Load, Goto
  <2>2. CASE SinkAccepts(d)
    BY <2>2 DEF SinkAccepts, Goto
  <2>3. CASE SinkRefuses(d)
    BY <2>3 DEF SinkRefuses, Goto, Count
  <2>4. CASE SinkFails(d)
    BY <2>4 DEF SinkFails, Goto, AttemptsMade, Count
  <2>5. CASE MarkDelivered(d)
    BY <2>5 DEF MarkDelivered, FinishAttempt, Goto
  <2>6. CASE MarkRetry(d)
    BY <2>6 DEF MarkRetry, FinishAttempt, Finish
  <2>7. CASE MarkExhausted(d)
    BY <2>7 DEF MarkExhausted, FinishAttempt, Goto
  <2>8. CASE Bury(d)
    BY <2>8 DEF Bury, InsertDlq
  <2>9. CASE BuryRefused(d)
    BY <2>9 DEF BuryRefused, Raise, Goto, Finish
  <2>10. CASE SettleCount(d)
    BY <2>10 DEF SettleCount, Goto, Settle, Finish
  <2>11. CASE SettleTally(d)
    BY <2>11 DEF SettleTally, Goto
  <2>12. CASE SettleWrite(d)
    BY <2>12 DEF SettleWrite, SettleEvent, SetEventStatus, Settle, Count, Finish, EventStatus
  <2>13. CASE Recover(d)
    BY <2>13 DEF Recover, AttemptsMade
  <2>14. CASE Release(d)
    BY <2>14 DEF Release, ReleaseClaim, FinishAttempt, Finish
  <2> QED
    BY <2>1, <2>2, <2>3, <2>4, <2>5, <2>6, <2>7, <2>8, <2>9, <2>10, <2>11,
       <2>12, <2>13, <2>14
    DEF Deliver
<1> QED
  BY <1>1, <1>2

(* A failing statement keeps it: this is where the faults are counted. *)
LEMMA FaultStep ==
  ASSUME IInv, TypeOK', NEW d \in Delivery, Fault(d)
  PROVE  IInv'
<1> USE StoreAssumption, DispatchAssumption
<1> USE DEF IInv, TypeOK, StoreTypeOK, Fault, Raise, Goto, Finish, Down, storeVars, processVars
<1>1. Down'
  BY DEF StatementPc
<1>2. ASSUME NEW c \in Delivery PROVE DeliveryInv(c)'
  BY <1>2 DEF DeliveryInv, Fresh, Waiting, InHand, Settled, Task, Payload,
              RowExists, Stored, DeliveryStatus, StatementPc
<1> QED
  BY <1>1, <1>2

(* The steps that are not those of a task keep it. *)
LEMMA OtherStep ==
  ASSUME IInv, TypeOK',
         \/ \E B \in SUBSET Delivery : Claim(B)
         \/ Sweep \/ Handlers \/ Crash \/ Start \/ UNCHANGED vars
  PROVE  IInv'
<1> USE StoreAssumption, DispatchAssumption
<1> SUFFICES Down' /\ \A c \in Delivery : DeliveryInv(c)'
  BY DEF IInv
<1>1. Down'
  BY DEF IInv, Down, Claim, Sweep, Handlers, Crash, ProcessDies, Start, ProcessStarts,
         vars, processVars, workerVars, taskVars
<1>2. ASSUME NEW c \in Delivery PROVE DeliveryInv(c)'
  <2> USE <1>2 DEF IInv, TypeOK, StoreTypeOK, DeliveryInv, Fresh, Waiting, InHand, Settled, Task,
          Payload, RowExists, Stored, DeliveryStatus, storeVars, processVars, workerVars,
          taskVars, histVars, Down
  <2>1. ASSUME NEW B \in SUBSET Delivery, Claim(B) PROVE DeliveryInv(c)'
    BY <2>1 DEF Claim, ClaimRows
  <2>2. CASE Sweep
    BY <2>2 DEF Sweep, SweepDlq, SweepEvents, Unsettled, RowsOf, EventStatus
  <2>3. CASE Handlers
    <3> PICK e \in Event :
          Receive(e) \/ Withhold(e) \/ Unhold(e) \/ QueueFirst(e) \/ Replay(e)
      BY <2>3 DEF Handlers
    <3>1. CASE Receive(e) \/ Withhold(e) \/ Unhold(e)
      BY <2>3, <3>1 DEF Handlers, Receive, Withhold, Unhold, RecordEvent, SetEventStatus, EventStatus
    <3>2. CASE QueueFirst(e)
      BY <2>3, <3>2 DEF Handlers, QueueFirst, EnqueueFirst, InsertRows, FreshRows, EventStatus
    <3>3. CASE Replay(e)
      BY <2>3, <3>3 DEF Handlers, Replay, EnqueueOne, InsertRows, FreshRows, EventStatus
    <3> QED
      BY <3>1, <3>2, <3>3
  <2>4. CASE Crash
    BY <2>4 DEF Crash, ProcessDies
  <2>5. CASE Start
    BY <2>5 DEF Start, ProcessStarts, RequeueIncomplete
  <2>6. CASE UNCHANGED vars
    BY <2>6 DEF vars
  <2> QED
    BY <2>1, <2>2, <2>3, <2>4, <2>5, <2>6
<1> QED
  BY <1>1, <1>2

(* IInv is an invariant. *)
THEOREM Invariance == Spec => []IInv
<1>1. Init => IInv
  <2> SUFFICES ASSUME Init PROVE IInv
    OBVIOUS
  <2>1. TypeOK
    BY StoreAssumption, DispatchAssumption
       DEF Init, StoreInit, WorkerInit, TypeOK, StoreTypeOK, Pc, StatementPc,
           EventStatus, DeliveryStatus
  <2>2. ASSUME NEW d \in Delivery PROVE DeliveryInv(d)
    BY <2>1, <2>2, DispatchAssumption
       DEF Init, StoreInit, WorkerInit, DeliveryInv, Fresh, Waiting, InHand, Settled, Task,
           Payload, RowExists, DeliveryStatus
  <2> QED
    BY <2>1, <2>2 DEF IInv, Down, Init, StoreInit
<1>2. IInv /\ [Next]_vars => IInv'
  <2> SUFFICES ASSUME IInv, [Next]_vars PROVE IInv'
    OBVIOUS
  <2>1. TypeOK'
    BY TypeStep DEF IInv
  <2> QED
    BY <2>1, DeliverStep, FaultStep, OtherStep DEF Next, Worker
<1> QED
  BY <1>1, <1>2, PTL DEF Spec

-----------------------------------------------------------------------------
(* The properties. *)

(* No sink is called more than max_attempts times for one delivery, and     *)
(* once more for each crash of the process (_schedule_retry, _recover,      *)
(* requeue_incomplete).                                                     *)
THEOREM Budget == Spec => []AttemptBudget
<1>1. IInv => AttemptBudget
  BY StoreAssumption, DispatchAssumption
     DEF IInv, TypeOK, StoreTypeOK, DeliveryInv, Fresh, Waiting, InHand, Settled,
         AttemptBudget, DeliveryStatus
<1> QED
  BY <1>1, Invariance, PTL

(* A row of deliveries says delivered only if its sink accepted it          *)
(* (mark_delivered is reached from an accepted call only).                  *)
THEOREM Accepted == Spec => []DeliveredWasAccepted
<1>1. IInv => DeliveredWasAccepted
  BY DEF IInv, DeliveryInv, Task, DeliveredWasAccepted
<1> QED
  BY <1>1, Invariance, PTL

(* The sweep never takes the event of a delivery a task is about to send,   *)
(* is sending or will retry (sweep, _deliver_once).                         *)
THEOREM PayloadSafe == Spec => []PayloadKept
<1>1. IInv => PayloadKept
  BY DEF IInv, DeliveryInv, Task, Payload, PayloadKept, RowExists, DeliveryStatus
<1> QED
  BY <1>1, Invariance, PTL

(* One failing statement never strands a delivery in a running process: it  *)
(* takes a second one, in _recover.                                         *)
THEOREM Repaired == Spec => []StrandedAfterTwoFaults
<1>1. IInv => StrandedAfterTwoFaults
  BY DEF IInv, DeliveryInv, InHand, StrandedAfterTwoFaults
<1> QED
  BY <1>1, Invariance, PTL

(* A sink is called only for a row that is claimed at that moment           *)
(* (run_once, _deliver_once).                                               *)
THEOREM Claimed == Spec => CalledOnlyWhileClaimed
<1>1. IInv /\ [Next]_vars =>
        [\A d \in Delivery : sends'[d] # sends[d] => dlStatus[d] = "in_flight"]_vars
  <2> SUFFICES ASSUME IInv, Next, NEW d \in Delivery, sends'[d] # sends[d]
               PROVE  dlStatus[d] = "in_flight"
    BY DEF vars
  <2>1. PICK c \in Delivery : Load(c)
    BY DEF Next, Worker, Claim, Deliver, SinkAccepts, SinkRefuses, SinkFails, MarkDelivered,
           MarkRetry, MarkExhausted, Bury, BuryRefused, SettleCount, SettleTally, SettleWrite, Settle,
           Recover, Release, Fault, Sweep, Handlers, Crash, Start, workerVars, histVars
  <2>2. c = d
    BY <2>1 DEF Load, IInv, TypeOK
  <2> QED
    BY <2>1, <2>2 DEF Load, IInv, DeliveryInv, Task
<1> QED
  BY <1>1, Invariance, PTL DEF Spec, CalledOnlyWhileClaimed

-----------------------------------------------------------------------------
(* Dispatch implements Outbox, for every value of the constants. *)

(* Tasks that have written the outcome of their delivery. *)
Rolling == {"settle", "tally", "dispatch", "fail"}

(* A task that only has the roll-up left knows how its delivery ended. *)
Outcome(d) ==
  /\ pc[d] \notin Rolling \cup {"raised"} => ~justFailed[d]
  /\ pc[d] \in {"settle", "tally"} /\ ~justFailed[d] => d \in acked
  /\ pc[d] \in {"settle", "tally"} /\ justFailed[d] => dlStatus[d] \in {"exhausted", "deleted"}
  /\ pc[d] = "dlq" => dlStatus[d] \in {"exhausted", "deleted"}
  /\ pc[d] = "dispatch" => d \in acked

(* The verdict of a roll-up is still true when it is written. *)
Verdict(d) == pc[d] = "fail" => ~Stored(eventOf[d]) \/ ExhaustedOf(eventOf[d]) # {}

(* Rows go with their event. *)
Swept(d) == dlStatus[d] = "deleted" => evStatus[eventOf[d]] = "deleted"

(* Only a failed statement brings a delivered row back into the hands of    *)
(* _recover, or a buried one.                                               *)
Troubled(d) ==
  /\ pc[d] \in {"raised", "exhaust", "release"} /\ dlStatus[d] = "delivered" => faults >= 1
  /\ dlq[d] > 0 /\ faults = 0 => dlStatus[d] = "exhausted" /\ pc[d] \in Rolling \cup {"idle"}

RInv == \A d \in Delivery : Outcome(d) /\ Verdict(d) /\ Swept(d) /\ Troubled(d)

(* The steps of a task (_deliver_once, mark_*, _recover) keep RInv. *)
LEMMA RDeliverStep ==
  ASSUME IInv, TypeOK', RInv, NEW d \in Delivery, Deliver(d)
  PROVE  RInv'
<1> USE StoreAssumption, DispatchAssumption
<1> SUFFICES ASSUME NEW c \in Delivery
             PROVE  (Outcome(c) /\ Verdict(c) /\ Swept(c) /\ Troubled(c))'
  BY DEF RInv
<1> USE DEF IInv, TypeOK, StoreTypeOK, DeliveryInv, Fresh, Waiting, Task, RInv, Outcome, Verdict,
        Swept, Troubled, Rolling, RowExists, Stored, ExhaustedOf, RowsOf, DeliveryStatus,
        storeVars, histVars
<1>1. CASE Load(d)
  BY <1>1 DEF Load, Goto
<1>2. CASE SinkAccepts(d)
  BY <1>2 DEF SinkAccepts, Goto
<1>3. CASE SinkRefuses(d)
  BY <1>3 DEF SinkRefuses, Goto
<1>4. CASE SinkFails(d)
  BY <1>4 DEF SinkFails, Goto
<1>5. CASE MarkDelivered(d)
  BY <1>5 DEF MarkDelivered, FinishAttempt, Goto
<1>6. CASE MarkRetry(d)
  BY <1>6 DEF MarkRetry, FinishAttempt, Finish
<1>7. CASE MarkExhausted(d)
  BY <1>7 DEF MarkExhausted, FinishAttempt, Goto
<1>8. CASE Bury(d)
  BY <1>8 DEF Bury, InsertDlq
<1>9. CASE BuryRefused(d)
  BY <1>9 DEF BuryRefused, Raise, Goto, Finish
<1>10. CASE SettleCount(d)
  BY <1>10 DEF SettleCount, Goto, Settle, Finish
<1>11. CASE SettleTally(d)
  <2>1. justFailed[d] /\ Stored(eventOf[d]) => d \in ExhaustedOf(eventOf[d])
    BY <1>11 DEF SettleTally, EventStatus
  <2>2. c = d => Verdict(c)'
    BY <1>11, <2>1 DEF SettleTally, Goto
  <2>3. Outcome(c)' /\ Swept(c)' /\ Troubled(c)'
    BY <1>11 DEF SettleTally, Goto
  <2>4. c # d => Verdict(c)'
    BY <1>11 DEF SettleTally, Goto
  <2> QED
    BY <2>2, <2>3, <2>4
<1>12. CASE SettleWrite(d)
  BY <1>12 DEF SettleWrite, SettleEvent, SetEventStatus, Settle, Finish, EventStatus
<1>13. CASE Recover(d)
  BY <1>13 DEF Recover
<1>14. CASE Release(d)
  BY <1>14 DEF Release, ReleaseClaim, FinishAttempt, Finish
<1> QED
  BY <1>1, <1>2, <1>3, <1>4, <1>5, <1>6, <1>7, <1>8, <1>9, <1>10, <1>11, <1>12, <1>13, <1>14
     DEF Deliver

(* A failing statement keeps it. *)
LEMMA RFaultStep ==
  ASSUME IInv, TypeOK', RInv, NEW d \in Delivery, Fault(d)
  PROVE  RInv'
<1> SUFFICES ASSUME NEW c \in Delivery
             PROVE  (Outcome(c) /\ Verdict(c) /\ Swept(c) /\ Troubled(c))'
  BY DEF RInv
<1> QED
  BY StoreAssumption, DispatchAssumption
     DEF IInv, TypeOK, StoreTypeOK, RInv, Outcome, Verdict, Swept, Troubled, Rolling, RowExists,
         Stored, ExhaustedOf, RowsOf, DeliveryStatus, storeVars, Fault, Raise, Goto, Finish,
         StatementPc

(* The claim, the sweep, the request handlers, crash and start keep it. *)
LEMMA ROtherStep ==
  ASSUME IInv, TypeOK', RInv,
         \/ \E B \in SUBSET Delivery : Claim(B)
         \/ Sweep \/ Handlers \/ Crash \/ Start \/ UNCHANGED vars
  PROVE  RInv'
<1> USE StoreAssumption, DispatchAssumption
<1> SUFFICES ASSUME NEW c \in Delivery
             PROVE  (Outcome(c) /\ Verdict(c) /\ Swept(c) /\ Troubled(c))'
  BY DEF RInv
<1> USE DEF IInv, TypeOK, StoreTypeOK, DeliveryInv, Fresh, Waiting, Task, RInv, Outcome, Verdict,
        Swept, Troubled, Rolling, RowExists, Stored, ExhaustedOf, RowsOf, EventStatus,
        DeliveryStatus, storeVars, processVars, workerVars, taskVars, histVars
<1>1. ASSUME NEW B \in SUBSET Delivery, Claim(B)
      PROVE  (Outcome(c) /\ Verdict(c) /\ Swept(c) /\ Troubled(c))'
  BY <1>1 DEF Claim, ClaimRows
<1>2. CASE Sweep
  BY <1>2 DEF Sweep, SweepDlq, SweepEvents, Unsettled
<1>3. CASE Handlers
  <2> PICK e \in Event :
        Receive(e) \/ Withhold(e) \/ Unhold(e) \/ QueueFirst(e) \/ Replay(e)
    BY <1>3 DEF Handlers
  <2>1. CASE Receive(e) \/ Withhold(e) \/ Unhold(e)
    <3>1. /\ UNCHANGED <<dlStatus, attempt, dlq, workerVars>>
          /\ evStatus[e] \in {"absent", "received", "quarantined"}
          /\ \A f \in Event \ {e} : evStatus'[f] = evStatus[f]
      BY <1>3, <2>1 DEF Handlers, Receive, Withhold, Unhold, RecordEvent, SetEventStatus
    <3>2. dlStatus[c] # "deleted" \/ eventOf[c] # e
      BY <3>1
    <3>3. Outcome(c)' /\ Swept(c)' /\ Troubled(c)'
      BY <3>1, <3>2
    <3>4. ASSUME pc[c] = "fail", Stored(eventOf[c])'
          PROVE  ExhaustedOf(eventOf[c])' # {}
      <4>1. dlStatus[c] \in DeliveryStatus \cup {"deleted"}
        BY <3>4
      <4>2. Stored(eventOf[c])
        BY <3>1, <3>2, <3>4, <4>1 DEF Payload
      <4> QED
        BY <3>1, <3>4, <4>2
    <3> QED
      BY <3>1, <3>3, <3>4
  <2>2. CASE QueueFirst(e)
    BY <1>3, <2>2 DEF Handlers, QueueFirst, EnqueueFirst, InsertRows, FreshRows
  <2>3. CASE Replay(e)
    BY <1>3, <2>3 DEF Handlers, Replay, EnqueueOne, InsertRows, FreshRows
  <2> QED
    BY <2>1, <2>2, <2>3
<1>4. CASE Crash
  BY <1>4 DEF Crash, ProcessDies
<1>5. CASE Start
  <2>1. /\ UNCHANGED <<evStatus, dlq, faults, acked, pc, justFailed>>
        /\ \A d \in Delivery : \A s \in {"delivered", "exhausted", "deleted"} :
             dlStatus'[d] = s <=> dlStatus[d] = s
        /\ \A d \in Delivery : RowExists(d)' <=> RowExists(d)
    BY <1>5 DEF Start, ProcessStarts, RequeueIncomplete
  <2>2. ExhaustedOf(eventOf[c])' = ExhaustedOf(eventOf[c])
    BY <2>1
  <2>3. Verdict(c)'
    <3> HIDE DEF ExhaustedOf, RowsOf, RowExists
    <3> QED
      BY <2>1, <2>2
  <2>4. Outcome(c)'
    BY <2>1
  <2>5. Swept(c)' /\ Troubled(c)'
    BY <2>1
  <2> QED
    BY <2>3, <2>4, <2>5
<1>6. CASE UNCHANGED vars
  BY <1>6 DEF vars
<1> QED
  BY <1>1, <1>2, <1>3, <1>4, <1>5, <1>6

(* RInv is an invariant. *)
THEOREM Refinable == Spec => [](IInv /\ RInv)
<1>1. Init => RInv
  BY StoreAssumption, DispatchAssumption
     DEF Init, StoreInit, WorkerInit, RInv, Outcome, Verdict, Swept, Troubled, Rolling
<1>2. IInv /\ IInv' /\ RInv /\ [Next]_vars => RInv'
  BY RDeliverStep, RFaultStep, ROtherStep DEF Next, Worker, IInv
<1> QED
  BY <1>1, <1>2, Invariance, PTL DEF Spec

-----------------------------------------------------------------------------
(* What a roll-up may rely on between its statements. *)

(* A task that found all siblings settled: none can be claimed under it,    *)
(* since the next batch waits for it, so what it read is still so when it   *)
(* writes.                                                                  *)
Barrier(d) ==
  /\ pc[d] \in {"tally", "dispatch", "fail"} =>
       \A c \in Delivery : eventOf[c] = eventOf[d] => dlStatus[c] # "in_flight"
  /\ pc[d] = "dispatch" => ExhaustedOf(eventOf[d]) = {}

(* The only row that is exhausted without being claimed is one _recover     *)
(* works on,                                                                *)
Working(d) == pc[d] = "exhaust" /\ recovering # d => dlStatus[d] = "in_flight"

(* and _recover works while no task runs.                                   *)
Alone(d) == recovering # None /\ recovering # d => pc[d] \in {"idle", "raised"}

BInv == \A d \in Delivery : Barrier(d) /\ Working(d) /\ Alone(d)

(* The steps of a task keep BInv: no sibling is exhausted under a roll-up.  *)
LEMMA BDeliverStep ==
  ASSUME IInv, TypeOK', RInv, BInv, NEW d \in Delivery, Deliver(d)
  PROVE  BInv'
<1> USE StoreAssumption, DispatchAssumption
<1> SUFFICES ASSUME NEW c \in Delivery PROVE Barrier(c)' /\ Working(c)' /\ Alone(c)'
  BY DEF BInv
<1> USE DEF IInv, TypeOK, StoreTypeOK, DeliveryInv, Fresh, Waiting, Task, RInv, Outcome,
        Rolling, RowExists, DeliveryStatus, storeVars, histVars, BInv, Barrier, Working, Alone,
        ExhaustedOf, RowsOf
<1>1. CASE Load(d)
  BY <1>1 DEF Load, Goto
<1>2. CASE SinkAccepts(d)
  BY <1>2 DEF SinkAccepts, Goto
<1>3. CASE SinkRefuses(d)
  BY <1>3 DEF SinkRefuses, Goto
<1>4. CASE SinkFails(d)
  BY <1>4 DEF SinkFails, Goto
<1>5. CASE MarkDelivered(d)
  BY <1>5 DEF MarkDelivered, FinishAttempt, Goto
<1>6. CASE MarkRetry(d)
  BY <1>6 DEF MarkRetry, FinishAttempt, Finish
<1>7. CASE MarkExhausted(d)
  <2>1. Alone(c)' /\ Working(c)'
    BY <1>7 DEF MarkExhausted, FinishAttempt, Goto
  <2>2. CASE c = d \/ eventOf[c] # eventOf[d]
    BY <1>7, <2>1, <2>2 DEF MarkExhausted, FinishAttempt, Goto
  <2>3. CASE c # d /\ eventOf[c] = eventOf[d] /\ recovering = d
    BY <1>7, <2>1, <2>3 DEF MarkExhausted, FinishAttempt, Goto
  <2>4. CASE c # d /\ eventOf[c] = eventOf[d] /\ recovering # d
    BY <1>7, <2>1, <2>4 DEF MarkExhausted, FinishAttempt, Goto
  <2> QED
    BY <2>2, <2>3, <2>4
<1>8. CASE Bury(d)
  BY <1>8 DEF Bury, InsertDlq
<1>9. CASE BuryRefused(d)
  BY <1>9 DEF BuryRefused, Raise, Goto, Finish
<1>10. CASE SettleCount(d)
  BY <1>10 DEF SettleCount, Goto, Settle, Finish, Unsettled
<1>11. CASE SettleTally(d)
  BY <1>11 DEF SettleTally, Goto
<1>12. CASE SettleWrite(d)
  BY <1>12 DEF SettleWrite, SettleEvent, SetEventStatus, Settle, Finish, EventStatus
<1>13. CASE Recover(d)
  BY <1>13 DEF Recover
<1>14. CASE Release(d)
  BY <1>14 DEF Release, ReleaseClaim, FinishAttempt, Finish
<1> QED
  BY <1>1, <1>2, <1>3, <1>4, <1>5, <1>6, <1>7, <1>8, <1>9, <1>10, <1>11, <1>12, <1>13, <1>14
     DEF Deliver

(* A failing statement keeps it: it ends the task, or hands it to _recover. *)
LEMMA BFaultStep ==
  ASSUME IInv, TypeOK', BInv, NEW d \in Delivery, Fault(d)
  PROVE  BInv'
<1> SUFFICES ASSUME NEW c \in Delivery PROVE Barrier(c)' /\ Working(c)' /\ Alone(c)'
  BY DEF BInv
<1> QED
  BY StoreAssumption, DispatchAssumption
     DEF IInv, TypeOK, StoreTypeOK, BInv, Barrier, Working, Alone, ExhaustedOf, RowsOf, RowExists,
         storeVars, Fault, Raise, Goto, Finish, StatementPc

(* The claim, the sweep, the request handlers, crash and start keep it. *)
LEMMA BOtherStep ==
  ASSUME IInv, TypeOK', BInv,
         \/ \E B \in SUBSET Delivery : Claim(B)
         \/ Sweep \/ Handlers \/ Crash \/ Start \/ UNCHANGED vars
  PROVE  BInv'
<1> USE StoreAssumption, DispatchAssumption
<1> SUFFICES ASSUME NEW c \in Delivery PROVE Barrier(c)' /\ Working(c)' /\ Alone(c)'
  BY DEF BInv
<1> USE DEF IInv, TypeOK, StoreTypeOK, DeliveryInv, Fresh, Waiting, Task, RowExists,
        DeliveryStatus, storeVars, processVars, workerVars, taskVars, histVars, BInv, Barrier,
        Working, Alone, ExhaustedOf, RowsOf, Down
<1>1. ASSUME NEW B \in SUBSET Delivery, Claim(B)
      PROVE  Barrier(c)' /\ Working(c)' /\ Alone(c)'
  BY <1>1 DEF Claim, ClaimRows
<1>2. CASE Sweep
  BY <1>2 DEF Sweep, SweepDlq, SweepEvents, Unsettled
<1>3. CASE Handlers
  <2>1. /\ UNCHANGED workerVars
        /\ \A d \in Delivery :
             dlStatus'[d] = dlStatus[d] \/ (dlStatus[d] = "unused" /\ dlStatus'[d] = "pending")
    BY <1>3 DEF Handlers, Receive, Withhold, Unhold, QueueFirst, Replay, RecordEvent,
       SetEventStatus, EnqueueFirst, EnqueueOne, InsertRows, FreshRows
  <2> QED
    BY <2>1
<1>4. CASE Crash
  BY <1>4 DEF Crash, ProcessDies
<1>5. CASE Start
  BY <1>5 DEF Start, ProcessStarts, RequeueIncomplete
<1>6. CASE UNCHANGED vars
  BY <1>6 DEF vars
<1> QED
  BY <1>1, <1>2, <1>3, <1>4, <1>5, <1>6

(* BInv is an invariant. *)
THEOREM Barred == Spec => [](IInv /\ RInv /\ BInv)
<1>1. Init => BInv
  BY DEF Init, StoreInit, WorkerInit, BInv, Barrier, Working, Alone
<1>2. IInv /\ IInv' /\ RInv /\ BInv /\ [Next]_vars => BInv'
  BY BDeliverStep, BFaultStep, BOtherStep DEF Next, Worker, IInv
<1> QED
  BY <1>1, <1>2, Refinable, PTL DEF Spec

-----------------------------------------------------------------------------
(* The steps of Dispatch, as an operator sees them. *)

(* Nothing is seen of a step that leaves these alone. *)
Unseen == UNCHANGED <<evStatus, acked, dlq, faults>> /\ \A d \in Delivery : Ticket(d)' = Ticket(d)

(* A step of which Outbox sees nothing stutters there. *)
LEMMA Stutter == Unseen => UNCHANGED O!outbox
BY DEF Unseen, O!outbox

(* A task of the worker: what it does to its own delivery and event. *)
LEMMA DeliverImplements ==
  ASSUME IInv, RInv, BInv, NEW d \in Delivery, Deliver(d)
  PROVE  [O!Next]_(O!outbox)
<1> USE StoreAssumption, DispatchAssumption
<1> USE DEF IInv, TypeOK, StoreTypeOK, DeliveryInv, Fresh, Waiting, Task, RInv, Outcome, Verdict,
        Swept, Troubled, Rolling, RowExists, Stored, DeliveryStatus, storeVars, histVars, Ticket
<1>1. CASE Load(d) \/ SinkRefuses(d) \/ SinkFails(d)
  BY <1>1, Stutter DEF Load, SinkRefuses, SinkFails, Unseen
<1>2. CASE SinkAccepts(d)
  <2>1. O!Take(d)
    BY <1>2 DEF SinkAccepts, O!Take
  <2> QED
    BY <2>1 DEF O!Next
<1>3. CASE MarkDelivered(d)
  <2>1. O!Done(d)
    BY <1>3 DEF MarkDelivered, FinishAttempt, O!Done
  <2> QED
    BY <2>1 DEF O!Next
<1>4. CASE MarkRetry(d)
  BY <1>4, Stutter DEF MarkRetry, FinishAttempt, Unseen
<1>5. CASE MarkExhausted(d)
  <2>1. CASE dlStatus[d] = "in_flight" \/ dlStatus[d] = "delivered"
    <3>1. /\ dlStatus' = [dlStatus EXCEPT ![d] = "exhausted"]
          /\ UNCHANGED <<evStatus, dlq, acked, faults>>
      BY <1>5, <2>1 DEF MarkExhausted, FinishAttempt
    <3>2. Ticket(d) = "owed" \/ (Ticket(d) = "delivered" /\ faults > 0)
      BY <1>5, <2>1 DEF MarkExhausted
    <3>3. [c \in Delivery |-> Ticket(c)]' = [[c \in Delivery |-> Ticket(c)] EXCEPT ![d] = "exhausted"]
      BY <3>1
    <3>4. O!GiveUp(d)
      BY <3>1, <3>2, <3>3 DEF O!GiveUp
    <3> QED
      BY <3>4 DEF O!Next
  <2>2. CASE dlStatus[d] = "exhausted" \/ dlStatus[d] = "deleted"
    BY <1>5, <2>2, Stutter DEF MarkExhausted, FinishAttempt, Unseen
  <2>3. dlStatus[d] # "unused" /\ dlStatus[d] # "pending"
    BY <1>5 DEF MarkExhausted
  <2> QED
    BY <2>1, <2>2, <2>3
<1>6. CASE Bury(d)
  <2>1. O!Bury(d)
    BY <1>6 DEF Bury, InsertDlq, O!Bury
  <2> QED
    BY <2>1 DEF O!Next
<1>7. CASE BuryRefused(d) \/ SettleCount(d) \/ SettleTally(d) \/ Recover(d)
  BY <1>7, Stutter DEF BuryRefused, SettleCount, Settle, SettleTally, Recover, Unseen
<1>8. CASE SettleWrite(d)
  <2>1. CASE Stored(eventOf[d]) /\ pc[d] = "dispatch"
    <3>1. \A c \in Delivery : eventOf[c] = eventOf[d] => Ticket(c) # "exhausted"
      BY <2>1 DEF BInv, Barrier, ExhaustedOf, RowsOf
    <3> QED
      BY <1>8, <2>1, <3>1 DEF SettleWrite, SettleEvent, SetEventStatus, Settle, EventStatus,
         O!Next, O!Conclude, O!Kept, O!Open, O!Concluded, O!Of
  <2>2. CASE Stored(eventOf[d]) /\ pc[d] = "fail"
    BY <1>8, <2>2 DEF SettleWrite, SettleEvent, SetEventStatus, Settle, EventStatus, ExhaustedOf,
       RowsOf, O!Next, O!Conclude, O!Kept, O!Open, O!Concluded, O!Of
  <2>3. CASE ~Stored(eventOf[d])
    BY <1>8, <2>3, Stutter DEF SettleWrite, SettleEvent, Settle, Unseen
  <2> QED
    BY <1>8, <2>1, <2>2, <2>3 DEF SettleWrite
<1>9. CASE Release(d)
  BY <1>9, Stutter DEF Release, ReleaseClaim, FinishAttempt, Unseen
<1> QED
  BY <1>1, <1>2, <1>3, <1>4, <1>5, <1>6, <1>7, <1>8, <1>9 DEF Deliver

(* The rest of the engine: the claim, failing statements, the sweep, the   *)
(* request handlers, crashes and restarts.                                 *)
LEMMA OtherImplements ==
  ASSUME IInv, RInv, TypeOK',
         \/ \E B \in SUBSET Delivery : Claim(B)
         \/ \E d \in Delivery : Fault(d)
         \/ Sweep \/ Handlers \/ Crash \/ Start \/ UNCHANGED vars
  PROVE  [O!Next]_(O!outbox)
<1> USE StoreAssumption, DispatchAssumption
<1> USE DEF IInv, TypeOK, StoreTypeOK, DeliveryInv, Payload, RowExists, Stored, DeliveryStatus,
        storeVars, processVars, workerVars, taskVars, histVars, Ticket
<1>1. ASSUME NEW B \in SUBSET Delivery, Claim(B) PROVE [O!Next]_(O!outbox)
  BY <1>1, Stutter DEF Claim, ClaimRows, Unseen
<1>2. ASSUME NEW d \in Delivery, Fault(d) PROVE [O!Next]_(O!outbox)
  <2>1. O!Trouble
    BY <1>2 DEF Fault, O!Trouble
  <2> QED
    BY <2>1 DEF O!Next
<1>3. CASE Sweep
  <2>1. ASSUME NEW S \in SUBSET Delivery, SweepDlq(S), UNCHANGED <<acked, faults>>
        PROVE  O!Shred(S)
    BY <2>1 DEF SweepDlq, O!Shred
  <2>2. ASSUME NEW S \in SUBSET Event, SweepEvents(S), UNCHANGED <<acked, faults>>
        PROVE  O!Forget(S)
    <3>1. \A e \in S : O!Kept(e) /\ \A d \in O!Of(e) : Ticket(d) # "owed"
      BY <2>2 DEF SweepEvents, Unsettled, RowsOf, O!Kept, O!Open, O!Concluded, O!Of, EventStatus
    <3> QED
      BY <2>2, <3>1 DEF SweepEvents, O!Forget, O!Of
  <2> QED
    BY <1>3, <2>1, <2>2 DEF Sweep, O!Next
<1>4. CASE Handlers
  <2> PICK e \in Event :
        Receive(e) \/ Withhold(e) \/ Unhold(e) \/ QueueFirst(e) \/ Replay(e)
    BY <1>4 DEF Handlers
  <2>1. CASE Receive(e) \/ Withhold(e) \/ Unhold(e)
    <3>1. O!Decide(e)
      BY <1>4, <2>1 DEF Handlers, Receive, Withhold, Unhold, RecordEvent, SetEventStatus, O!Decide
    <3> QED
      BY <3>1 DEF O!Next
  <2>2. ASSUME NEW D \in SUBSET Delivery, InsertRows(D), Stored(e),
               \A d \in D : eventOf[d] = e /\ dlStatus[d] = "unused"
        PROVE  O!Queue(D)
    BY <1>4, <2>2 DEF Handlers, InsertRows, O!Queue, O!Kept, O!Open, O!Concluded, EventStatus
  <2>3. CASE QueueFirst(e)
    <3>1. PICK sinks \in SUBSET Sink : EnqueueFirst(e, sinks)
      BY <2>3 DEF QueueFirst
    <3>2. CASE UNCHANGED storeVars
      BY <1>4, <3>2, Stutter DEF Handlers, Unseen
    <3>3. CASE evStatus[e] = "received" /\ \E D \in FreshRows(e, sinks) : InsertRows(D)
      BY <2>2, <3>3 DEF FreshRows, EventStatus, O!Next
    <3> QED
      BY <3>1, <3>2, <3>3 DEF EnqueueFirst
  <2>4. CASE Replay(e)
    BY <2>2, <2>4 DEF Replay, EnqueueOne, FreshRows, O!Next
  <2> QED
    BY <2>1, <2>3, <2>4
<1>5. CASE Crash
  BY <1>5, Stutter DEF Crash, ProcessDies, Unseen
<1>6. CASE Start
  BY <1>6, Stutter DEF Start, ProcessStarts, RequeueIncomplete, Unseen
<1>7. CASE UNCHANGED vars
  BY <1>7, Stutter DEF vars, Unseen
<1> QED
  BY <1>1, <1>2, <1>3, <1>4, <1>5, <1>6, <1>7

(* The engine, with its tasks, statements, failures and restarts, keeps the *)
(* promises of Outbox, whatever the numbers of events, sinks, deliveries,   *)
(* attempts, crashes and failing statements.                                *)
THEOREM Implements == Spec => OutboxSpec
<1>1. Init => O!Init
  BY StoreAssumption, DispatchAssumption
     DEF Init, StoreInit, WorkerInit, O!Init, Ticket
<1>2. IInv /\ IInv' /\ RInv /\ BInv /\ [Next]_vars => [O!Next]_(O!outbox)
  BY DeliverImplements, OtherImplements DEF Next, Worker, IInv
<1> QED
  BY <1>1, <1>2, Barred, PTL DEF Spec, OutboxSpec, O!Spec

-----------------------------------------------------------------------------
(* What mark_delivered and mark_exhausted leave behind when nothing        *)
(* interrupts them, and what the counters say, for every value of the      *)
(* constants of Dispatch.                                                  *)

(* An exhausted row has its dead letter, or its task is about to insert it. *)
Burying(d) == dlStatus[d] = "exhausted" => d \in buried \/ pc[d] = "dlq"

Right(e) == evStatus[e] = IF ExhaustedOf(e) # {} THEN "failed" ELSE "dispatched"

Ending == {"dlq", "settle", "tally", "dispatch", "fail"}

(* An event whose deliveries have settled has its status, or a task at work *)
(* on it.                                                                   *)
Owing(e) ==
  RowsOf(e) # {} /\ Unsettled(e) = {} => Right(e) \/ \E d \in RowsOf(e) : pc[d] \in Ending

UInv ==
  Undisturbed => /\ \A d \in Delivery : Burying(d)
                 /\ \A e \in Event : Owing(e)

(* The steps of a task keep UInv: mark_* and _settle_event_for beside those *)
(* of the siblings.                                                        *)
LEMMA UDeliverStep ==
  ASSUME IInv, TypeOK', RInv, BInv, UInv, NEW d \in Delivery, Deliver(d)
  PROVE  UInv'
<1> USE StoreAssumption, DispatchAssumption
<1>0. Undisturbed' <=> Undisturbed
  BY DEF Undisturbed, Deliver, Load, SinkAccepts, SinkRefuses, SinkFails, MarkDelivered, MarkRetry,
     MarkExhausted, Bury, BuryRefused, SettleCount, SettleTally, SettleWrite, Settle, Recover,
     Release, processVars, histVars
<1> SUFFICES ASSUME Undisturbed
             PROVE  /\ \A c \in Delivery : Burying(c)'
                    /\ \A e \in Event : Owing(e)'
  BY <1>0 DEF UInv
<1> USE DEF IInv, TypeOK, StoreTypeOK, DeliveryInv, Fresh, Waiting, Task, RInv, Outcome, Verdict,
        Swept, Troubled, Rolling, RowExists, Stored, DeliveryStatus, storeVars, histVars,
        BInv, Barrier, UInv, Burying
<1>1. ASSUME NEW c \in Delivery PROVE Burying(c)'
  <2> USE <1>1 DEF ExhaustedOf, RowsOf
  <2>1. CASE Load(d)
    BY <2>1 DEF Load, Goto
  <2>2. CASE SinkAccepts(d)
    BY <2>2 DEF SinkAccepts, Goto
  <2>3. CASE SinkRefuses(d)
    BY <2>3 DEF SinkRefuses, Goto
  <2>4. CASE SinkFails(d)
    BY <2>4 DEF SinkFails, Goto
  <2>5. CASE MarkDelivered(d)
    BY <2>5 DEF MarkDelivered, FinishAttempt, Goto
  <2>6. CASE MarkRetry(d)
    BY <2>6 DEF MarkRetry, FinishAttempt, Finish
  <2>7. CASE MarkExhausted(d)
    BY <2>7 DEF MarkExhausted, FinishAttempt, Goto
  <2>8. CASE Bury(d)
    BY <2>8 DEF Bury, InsertDlq
  <2>9. CASE BuryRefused(d)
    BY <2>9 DEF BuryRefused, Raise, Goto, Finish
  <2>10. CASE SettleCount(d)
    BY <2>10 DEF SettleCount, Goto, Settle, Finish, Unsettled
  <2>11. CASE SettleTally(d)
    BY <2>11 DEF SettleTally, Goto
  <2>12. CASE SettleWrite(d)
    BY <2>12 DEF SettleWrite, SettleEvent, SetEventStatus, Settle, Finish, EventStatus
  <2>13. CASE Recover(d)
    BY <2>13 DEF Recover
  <2>14. CASE Release(d)
    BY <2>14 DEF Release, ReleaseClaim, FinishAttempt, Finish
  <2> QED
    BY <2>1, <2>2, <2>3, <2>4, <2>5, <2>6, <2>7, <2>8, <2>9, <2>10, <2>11, <2>12, <2>13, <2>14
    DEF Deliver
<1>2. ASSUME NEW e \in Event PROVE Owing(e)'
  <2> USE <1>2 DEF Owing, Right, Ending, ExhaustedOf, RowsOf, Unsettled
  <2>1. CASE Load(d)
    BY <2>1 DEF Load, Goto
  <2>2. CASE SinkAccepts(d)
    BY <2>2 DEF SinkAccepts, Goto
  <2>3. CASE SinkRefuses(d)
    BY <2>3 DEF SinkRefuses, Goto
  <2>4. CASE SinkFails(d)
    BY <2>4 DEF SinkFails, Goto
  <2>5. CASE MarkDelivered(d)
    BY <2>5 DEF MarkDelivered, FinishAttempt, Goto
  <2>6. CASE MarkRetry(d)
    BY <2>6 DEF MarkRetry, FinishAttempt, Finish
  <2>7. CASE MarkExhausted(d)
    BY <2>7 DEF MarkExhausted, FinishAttempt, Goto
  <2>8. CASE Bury(d)
    BY <2>8 DEF Bury, InsertDlq
  <2>9. CASE BuryRefused(d)
    BY <2>9 DEF BuryRefused, Raise, Goto, Finish
  <2>10. CASE SettleCount(d)
    BY <2>10 DEF SettleCount, Goto, Settle, Finish
  <2>11. CASE SettleTally(d)
    BY <2>11 DEF SettleTally, Goto
  <2>12. CASE SettleWrite(d)
    <3>1. /\ UNCHANGED <<dlStatus, attempt, dlq>>
          /\ ExhaustedOf(e)' = ExhaustedOf(e)
          /\ \A c \in Delivery \ {d} : pc'[c] = pc[c]
          /\ e # eventOf[d] => evStatus'[e] = evStatus[e]
      BY <2>12 DEF SettleWrite, SettleEvent, SetEventStatus, Settle, Finish
    <3>2. CASE e # eventOf[d]
      BY <3>1, <3>2
    <3>3. CASE e = eventOf[d] /\ ~Stored(e)
      <4>1. RowsOf(e) = {}
        BY <3>3 DEF Payload, EventStatus
      <4> QED
        BY <3>1, <4>1
    <3>4. CASE e = eventOf[d] /\ Stored(e)
      <4>1. ExhaustedOf(e) # {} <=> pc[d] = "fail"
        BY <2>12, <3>4 DEF SettleWrite
      <4>2. evStatus'[e] = IF pc[d] = "fail" THEN "failed" ELSE "dispatched"
        BY <2>12, <3>4 DEF SettleWrite, SettleEvent, SetEventStatus
      <4>3. Right(e)'
        BY <3>1, <4>1, <4>2
      <4> QED
        BY <4>3
    <3> QED
      BY <3>2, <3>3, <3>4
  <2>13. CASE Recover(d)
    <3>1. UNCHANGED storeVars /\ \A c \in Delivery : pc[c] \in Ending => pc'[c] = pc[c]
      BY <2>13 DEF Recover
    <3> QED
      BY <3>1
  <2>14. CASE Release(d)
    BY <2>14 DEF Release, ReleaseClaim, FinishAttempt, Finish
  <2> QED
    BY <2>1, <2>2, <2>3, <2>4, <2>5, <2>6, <2>7, <2>8, <2>9, <2>10, <2>11, <2>12, <2>13, <2>14
    DEF Deliver
<1> QED
  BY <1>1, <1>2

(* A step that leaves the deliveries of an event as settled as they were.  *)
LEMMA OwingKept ==
  ASSUME NEW e \in Event, Owing(e), evStatus' = evStatus,
         RowsOf(e)' = RowsOf(e), Unsettled(e)' = Unsettled(e), ExhaustedOf(e)' = ExhaustedOf(e),
         \A d \in Delivery : pc[d] \in Ending => pc'[d] \in Ending
  PROVE  Owing(e)'
<1>1. RowsOf(e) \subseteq Delivery
  BY DEF RowsOf
<1> QED
  BY <1>1 DEF Owing, Right

(* The steps that are not those of a task keep it. *)
LEMMA UOtherStep ==
  ASSUME IInv, TypeOK', RInv, BInv, UInv,
         \/ \E B \in SUBSET Delivery : Claim(B)
         \/ \E d \in Delivery : Fault(d)
         \/ Sweep \/ Handlers \/ Crash \/ Start \/ UNCHANGED vars
  PROVE  UInv'
<1> USE StoreAssumption, DispatchAssumption
<1> SUFFICES ASSUME Undisturbed'
             PROVE  /\ \A c \in Delivery : Burying(c)'
                    /\ \A e \in Event : Owing(e)'
  BY DEF UInv
<1> USE DEF IInv, TypeOK, StoreTypeOK, DeliveryInv, Fresh, Waiting, Task, RInv, Outcome, Verdict,
        Swept, RowExists, Stored, EventStatus, DeliveryStatus, storeVars, processVars,
        workerVars, taskVars, histVars, UInv, Burying, Owing, Right, Ending,
        ExhaustedOf, RowsOf, Unsettled
<1>1. ASSUME NEW B \in SUBSET Delivery, Claim(B)
      PROVE  /\ \A c \in Delivery : Burying(c)'
             /\ \A e \in Event : Owing(e)'
  <2>1. Undisturbed
    BY <1>1 DEF Claim, Undisturbed
  <2>2. ASSUME NEW c \in Delivery PROVE Burying(c)'
    BY <1>1, <2>1, <2>2 DEF Claim, ClaimRows
  <2>3. ASSUME NEW e \in Event PROVE Owing(e)'
    <3>1. /\ RowsOf(e)' = RowsOf(e)
          /\ Unsettled(e)' = Unsettled(e)
          /\ ExhaustedOf(e)' = ExhaustedOf(e)
          /\ evStatus' = evStatus
          /\ \A d \in Delivery : pc[d] = "idle"
      BY <1>1 DEF Claim, ClaimRows
    <3> HIDE DEF Owing
    <3>2. Owing(e)
      BY <2>1, <2>3
    <3> QED
      BY <3>1, <3>2, OwingKept
  <2> QED
    BY <2>2, <2>3
<1>2. ASSUME NEW d \in Delivery, Fault(d) PROVE FALSE
  BY <1>2 DEF Fault, Undisturbed
<1>3. CASE Sweep
  <2>1. Undisturbed
    BY <1>3 DEF Sweep, Undisturbed
  <2>2. ASSUME NEW c \in Delivery PROVE Burying(c)'
    BY <1>3, <2>1, <2>2 DEF Sweep, SweepDlq, SweepEvents
  <2>3. ASSUME NEW e \in Event PROVE Owing(e)'
    BY <1>3, <2>1, <2>3 DEF Sweep, SweepDlq, SweepEvents
  <2> QED
    BY <2>2, <2>3
<1>4. CASE Handlers
  <2>1. Undisturbed
    BY <1>4 DEF Handlers, Undisturbed
  <2> PICK f \in Event :
        Receive(f) \/ Withhold(f) \/ Unhold(f) \/ QueueFirst(f) \/ Replay(f)
    BY <1>4 DEF Handlers
  <2>2. CASE Receive(f) \/ Withhold(f) \/ Unhold(f)
    <3>1. /\ UNCHANGED <<dlStatus, attempt, dlq, workerVars>>
          /\ evStatus[f] \in {"absent", "received", "quarantined"}
          /\ \A e \in Event \ {f} : evStatus'[e] = evStatus[e]
      BY <1>4, <2>2 DEF Handlers, Receive, Withhold, Unhold, RecordEvent, SetEventStatus
    <3>2. ASSUME NEW c \in Delivery PROVE Burying(c)'
      BY <2>1, <3>1, <3>2
    <3>3. ASSUME NEW e \in Event PROVE Owing(e)'
      BY <2>1, <3>1, <3>3
    <3> QED
      BY <3>2, <3>3
  <2>3. ASSUME NEW D \in SUBSET Delivery, InsertRows(D), \A d \in D : dlStatus[d] = "unused"
        PROVE  /\ \A c \in Delivery : Burying(c)'
               /\ \A e \in Event : Owing(e)'
    <3>1. ASSUME NEW c \in Delivery PROVE Burying(c)'
      BY <1>4, <2>1, <2>3, <3>1 DEF Handlers, InsertRows
    <3>2. ASSUME NEW e \in Event PROVE Owing(e)'
      <4>1. CASE \E d \in D : eventOf[d] = e
        <5>1. Unsettled(e)' # {}
          BY <2>3, <4>1 DEF InsertRows
        <5> QED
          BY <5>1
      <4>2. CASE \A d \in D : eventOf[d] # e
        <5>1. /\ RowsOf(e)' = RowsOf(e)
              /\ Unsettled(e)' = Unsettled(e)
              /\ ExhaustedOf(e)' = ExhaustedOf(e)
              /\ UNCHANGED <<evStatus, pc>>
          BY <1>4, <2>3, <4>2 DEF Handlers, InsertRows
        <5> HIDE DEF Owing
        <5>2. Owing(e)
          BY <2>1, <3>2
        <5> QED
          BY <5>1, <5>2, OwingKept
      <4> QED
        BY <4>1, <4>2
    <3> QED
      BY <3>1, <3>2
  <2>4. CASE QueueFirst(f)
    <3>1. CASE UNCHANGED storeVars
      BY <1>4, <2>1, <3>1 DEF Handlers
    <3>2. PICK sinks \in SUBSET Sink : EnqueueFirst(f, sinks)
      BY <2>4 DEF QueueFirst
    <3>3. CASE \E D \in FreshRows(f, sinks) : InsertRows(D)
      <4>1. PICK D \in FreshRows(f, sinks) : InsertRows(D)
        BY <3>3
      <4>2. D \in SUBSET Delivery /\ \A d \in D : dlStatus[d] = "unused"
        BY <4>1 DEF FreshRows
      <4> HIDE DEF Burying, Owing
      <4> QED
        BY <2>3, <4>1, <4>2
    <3> QED
      BY <3>1, <3>2, <3>3 DEF EnqueueFirst
  <2>5. CASE Replay(f)
    BY <2>3, <2>5 DEF Replay, EnqueueOne, FreshRows
  <2> QED
    BY <2>2, <2>4, <2>5
<1>5. CASE Crash
  BY <1>5 DEF Crash, ProcessDies, Undisturbed
<1>6. CASE Start
  <2>1. Undisturbed
    BY <1>6 DEF Start, ProcessStarts, Undisturbed
  <2>2. ASSUME NEW c \in Delivery PROVE Burying(c)'
    BY <1>6, <2>1, <2>2 DEF Start, ProcessStarts, RequeueIncomplete
  <2>3. ASSUME NEW e \in Event PROVE Owing(e)'
    <3>1. /\ RowsOf(e)' = RowsOf(e)
          /\ Unsettled(e)' = Unsettled(e)
          /\ ExhaustedOf(e)' = ExhaustedOf(e)
          /\ UNCHANGED <<evStatus, pc>>
      BY <1>6 DEF Start, ProcessStarts, RequeueIncomplete
    <3> HIDE DEF Owing
    <3>2. Owing(e)
      BY <2>1, <2>3
    <3> QED
      BY <3>1, <3>2, OwingKept
  <2> QED
    BY <2>2, <2>3
<1>7. CASE UNCHANGED vars
  BY <1>7 DEF vars, Undisturbed
<1> QED
  BY <1>1, <1>2, <1>3, <1>4, <1>5, <1>6, <1>7

(* UInv is an invariant. *)
THEOREM Uninterrupted == Spec => [](IInv /\ RInv /\ BInv /\ UInv)
<1>1. Init => UInv
  BY DEF Init, StoreInit, WorkerInit, UInv, Burying, Owing, RowsOf, RowExists,
     DeliveryStatus
<1>2. IInv /\ IInv' /\ RInv /\ BInv /\ UInv /\ [Next]_vars => UInv'
  BY UDeliverStep, UOtherStep DEF Next, Worker, IInv
<1> QED
  BY <1>1, <1>2, Barred, PTL DEF Spec

(* No roll-up is lost or wrong: when no task works on an event and none of  *)
(* its deliveries is owed, the status of the event is the one its           *)
(* deliveries call for (_settle_event_for), unless a crash or a failing     *)
(* statement came in between.                                               *)
THEOREM Rolled == Spec => []RolledUp
<1>1. IInv /\ UInv => RolledUp
  BY DEF IInv, UInv, Owing, Right, Ending, RolledUp, AtRest, HasDeliveries, RowsOf
<1> QED
  BY <1>1, Uninterrupted, PTL

(* mark_exhausted leaves no exhausted row without its dead letter, unless   *)
(* a crash or a failing statement cut it in two.                            *)
THEOREM Buried == Spec => []DeadLetteredUndisturbed
<1>1. UInv => DeadLetteredUndisturbed
  BY DEF UInv, Burying, DeadLetteredUndisturbed, DeadLettered
<1> QED
  BY <1>1, Uninterrupted, PTL

-----------------------------------------------------------------------------
(* The counters. *)

(* The call of the sink is not counted yet. *)
Uncounted(d) ==
  pc[d] \in {"send", "delivered", "raised"} \/ (pc[d] \in Rolling /\ ~justFailed[d])

(* _recover has counted its delivery before anything else. *)
Repairing(d) ==
  recovering = d =>
    pc[d] \in {"exhaust", "dlq", "release"} \/ (pc[d] \in Rolling /\ justFailed[d])

Ledger(d) ==
  /\ sends[d] <= counted[d] + IF Uncounted(d) THEN 1 ELSE 0
  /\ dlStatus[d] # "deleted" =>
       counted[d] + (IF Uncounted(d) THEN 1 ELSE 0) <= sends[d] + faults

CInv == \A d \in Delivery : Repairing(d) /\ (crashes = 0 => Ledger(d))

(* The steps of a task keep CInv: each way an attempt ends is counted once. *)
LEMMA CDeliverStep ==
  ASSUME IInv, TypeOK', RInv, CInv, NEW d \in Delivery, Deliver(d)
  PROVE  CInv'
<1> USE StoreAssumption, DispatchAssumption
<1> SUFFICES ASSUME NEW c \in Delivery PROVE Repairing(c)' /\ (crashes' = 0 => Ledger(c)')
  BY DEF CInv
<1> USE DEF IInv, TypeOK, StoreTypeOK, DeliveryInv, Task, RInv, Outcome, Rolling, RowExists,
        DeliveryStatus, storeVars, processVars, histVars, CInv, Uncounted, Repairing, Ledger,
        Count
<1>1. CASE Load(d)
  BY <1>1 DEF Load, Goto
<1>2. CASE SinkAccepts(d)
  BY <1>2 DEF SinkAccepts, Goto
<1>3. CASE SinkRefuses(d)
  BY <1>3 DEF SinkRefuses, Goto
<1>4. CASE SinkFails(d)
  BY <1>4 DEF SinkFails, Goto
<1>5. CASE MarkDelivered(d)
  BY <1>5 DEF MarkDelivered, FinishAttempt, Goto
<1>6. CASE MarkRetry(d)
  BY <1>6 DEF MarkRetry, FinishAttempt, Finish
<1>7. CASE MarkExhausted(d)
  BY <1>7 DEF MarkExhausted, FinishAttempt, Goto
<1>8. CASE Bury(d)
  BY <1>8 DEF Bury, InsertDlq
<1>9. CASE BuryRefused(d)
  BY <1>9 DEF BuryRefused, Raise, Goto, Finish
<1>10. CASE SettleCount(d)
  BY <1>10 DEF SettleCount, Goto, Settle, Finish
<1>11. CASE SettleTally(d)
  BY <1>11 DEF SettleTally, Goto
<1>12. CASE SettleWrite(d)
  BY <1>12 DEF SettleWrite, SettleEvent, SetEventStatus, Settle, Finish
<1>13. CASE Recover(d)
  BY <1>13 DEF Recover
<1>14. CASE Release(d)
  BY <1>14 DEF Release, ReleaseClaim, FinishAttempt, Finish
<1> QED
  BY <1>1, <1>2, <1>3, <1>4, <1>5, <1>6, <1>7, <1>8, <1>9, <1>10, <1>11, <1>12, <1>13, <1>14 DEF Deliver

(* A failing statement makes room for the attempt that _recover counts. *)
LEMMA CFaultStep ==
  ASSUME IInv, TypeOK', RInv, CInv, NEW d \in Delivery, Fault(d)
  PROVE  CInv'
<1> SUFFICES ASSUME NEW c \in Delivery PROVE Repairing(c)' /\ (crashes' = 0 => Ledger(c)')
  BY DEF CInv
<1> QED
  BY StoreAssumption, DispatchAssumption
     DEF IInv, TypeOK, StoreTypeOK, DeliveryInv, Task, RInv, Outcome, Rolling, storeVars,
         processVars, CInv, Uncounted, Repairing, Ledger, Fault, Raise, Goto, Finish, StatementPc

(* The steps that are not those of a task count nothing. *)
LEMMA COtherStep ==
  ASSUME IInv, TypeOK', RInv, CInv,
         \/ \E B \in SUBSET Delivery : Claim(B)
         \/ Sweep \/ Handlers \/ Crash \/ Start \/ UNCHANGED vars
  PROVE  CInv'
<1> USE StoreAssumption, DispatchAssumption
<1> SUFFICES ASSUME NEW c \in Delivery PROVE Repairing(c)' /\ (crashes' = 0 => Ledger(c)')
  BY DEF CInv
<1> USE DEF IInv, TypeOK, StoreTypeOK, DeliveryInv, Task, RInv, Outcome, Rolling, RowExists,
        DeliveryStatus, storeVars, processVars, workerVars, taskVars, histVars, CInv, Uncounted,
        Repairing, Ledger
<1>1. ASSUME NEW B \in SUBSET Delivery, Claim(B)
      PROVE  Repairing(c)' /\ (crashes' = 0 => Ledger(c)')
  BY <1>1 DEF Claim, ClaimRows
<1>2. CASE Sweep
  BY <1>2 DEF Sweep, SweepDlq, SweepEvents
<1>3. CASE Handlers
  <2>1. UNCHANGED <<processVars, workerVars>> /\ (dlStatus'[c] = "deleted" <=> dlStatus[c] = "deleted")
    BY <1>3 DEF Handlers, Receive, Withhold, Unhold, QueueFirst, Replay, RecordEvent,
       SetEventStatus, EnqueueFirst, EnqueueOne, InsertRows, FreshRows
  <2> QED
    BY <2>1
<1>4. CASE Crash
  BY <1>4 DEF Crash, ProcessDies
<1>5. CASE Start
  BY <1>5 DEF Start, ProcessStarts, RequeueIncomplete
<1>6. CASE UNCHANGED vars
  BY <1>6 DEF vars
<1> QED
  BY <1>1, <1>2, <1>3, <1>4, <1>5, <1>6

(* In one life of the process every call of a sink is counted once, on      *)
(* every path of _deliver_once, _schedule_retry and _recover; only a        *)
(* statement that failed, or a sweep, makes it twice.                       *)
THEOREM Counted == Spec => []OutcomesCounted
<1>1. Init => CInv
  BY StoreAssumption, DispatchAssumption
     DEF Init, StoreInit, WorkerInit, CInv, Uncounted, Repairing, Ledger, Rolling
<1>2. IInv /\ IInv' /\ RInv /\ CInv /\ [Next]_vars => CInv'
  BY CDeliverStep, CFaultStep, COtherStep DEF Next, Worker, IInv
<1>3. IInv /\ CInv => OutcomesCounted
  BY DEF IInv, TypeOK, StoreTypeOK, CInv, Ledger, Uncounted, Rolling, OutcomesCounted
<1> QED
  BY <1>1, <1>2, <1>3, Refinable, PTL DEF Spec
=============================================================================
