------------------------------ MODULE Dispatch ------------------------------
(***************************************************************************)
(* The delivery side of the engine (engine.py): the one background worker  *)
(* that claims a batch of due deliveries, runs one task per delivery       *)
(* (asyncio.gather), and repairs the tasks that raised once all of them    *)
(* have ended.  The tasks of a batch interleave at every await, that is    *)
(* before every statement of the store and around the call to the sink.    *)
(*                                                                         *)
(* Modelled failures: a store statement that raises without effect         *)
(* (Fault), a process killed or stopped at any point (Crash) and started   *)
(* again (Start), a sink that fails for now (SinkFails) or for good        *)
(* (SinkRefuses).                                                          *)
(*                                                                         *)
(* The statements that come from the request handlers (an event stored,    *)
(* screened, queued, released or replayed) are the environment             *)
(* here: anything the handlers may write, at any time.  Module Admission   *)
(* has them in full, and Doorman shows that they do no more than this.     *)
(***************************************************************************)
EXTENDS Store

CONSTANTS
  MaxAttempts,   \* delivery.max_attempts
  ClaimBatch,    \* CLAIM_BATCH
  Disabled,      \* sinks the configuration names and the engine did not build
  None,          \* no delivery
  MaxFaults      \* bound of the model: failing statements in a behaviour

ASSUME DispatchAssumption ==
  /\ MaxAttempts \in Nat \ {0}
  /\ ClaimBatch \in Nat \ {0}
  /\ Disabled \subseteq Sink
  /\ None \notin Delivery
  /\ MaxFaults \in Nat

VARIABLES
  pc,           \* where the task of the delivery is
  snap,         \* Delivery.attempt as the claim returned it
  justFailed,   \* parameter of _settle_event_for: this delivery is the one that failed
  recovering,   \* the delivery _recover works on, or None
  sends,        \* history: calls of the sink for the delivery
  acked,        \* history: deliveries some call of which the sink accepted
  buried,       \* history: deliveries that were given a row of dlq
  counted,      \* history: outcomes delivery_attempts_total was given for the delivery
  faults        \* history: statements that raised so far

taskVars == <<pc, snap, justFailed, recovering>>
histVars == <<sends, acked, buried, counted, faults>>
workerVars == <<taskVars, histVars>>
vars == <<storeVars, processVars, workerVars>>

(* Points of a task at which its next step is a statement of the store. *)
StatementPc ==
  {"load", "delivered", "retry", "exhaust", "dlq", "settle", "tally", "dispatch", "fail",
   "release"}

Pc == StatementPc \cup {"idle", "send", "raised"}

TypeOK ==
  /\ StoreTypeOK
  /\ pc \in [Delivery -> Pc]
  /\ snap \in [Delivery -> Nat]
  /\ justFailed \in [Delivery -> BOOLEAN]
  /\ recovering \in Delivery \cup {None}
  /\ sends \in [Delivery -> Nat]
  /\ acked \subseteq Delivery
  /\ buried \subseteq Delivery
  /\ counted \in [Delivery -> Nat]
  /\ faults \in 0..MaxFaults

WorkerInit ==
  /\ pc = [d \in Delivery |-> "idle"]
  /\ snap = [d \in Delivery |-> 0]
  /\ justFailed = [d \in Delivery |-> FALSE]
  /\ recovering = None
  /\ sends = [d \in Delivery |-> 0]
  /\ acked = {}
  /\ buried = {}
  /\ counted = [d \in Delivery |-> 0]
  /\ faults = 0

Init == StoreInit /\ WorkerInit

-----------------------------------------------------------------------------
(* Control of a task. *)

Goto(d, l) ==
  /\ pc' = [pc EXCEPT ![d] = l]
  /\ UNCHANGED <<snap, justFailed, recovering>>

(* The task, or the call of _recover, returns. *)
Finish(d) ==
  /\ pc' = [pc EXCEPT ![d] = "idle"]
  /\ snap' = [snap EXCEPT ![d] = 0]
  /\ justFailed' = [justFailed EXCEPT ![d] = FALSE]
  /\ recovering' = IF recovering = d THEN None ELSE recovering

(* Mutant: the exception discarded with the result of the task. *)
RaiseAndForget(d) == Finish(d)

(* An exception leaves the task for run_once, which keeps it until the    *)
(* whole batch has ended; _recover logs its own and swallows it.          *)
Raise(d) == IF recovering = d THEN Finish(d) ELSE Goto(d, "raised")

AttemptsMade(d) == snap[d] + 1

(* METRICS.increment of delivery_attempts_total, whatever the outcome. *)
Count(d) == counted' = [counted EXCEPT ![d] = @ + 1]

-----------------------------------------------------------------------------
(* run_once claims only when the previous batch and its repairs are done. *)
Claim(B) ==
  /\ up
  /\ \A d \in Delivery : pc[d] = "idle"
  /\ B # {} /\ Cardinality(B) <= ClaimBatch
  /\ ClaimRows(B)
  /\ pc' = [d \in Delivery |-> IF d \in B THEN "load" ELSE pc[d]]
  /\ snap' = [d \in Delivery |-> IF d \in B THEN attempt[d] ELSE snap[d]]
  /\ UNCHANGED <<processVars, justFailed, recovering, histVars>>

(* _deliver_once, up to the call of the sink. *)
Load(d) ==
  /\ pc[d] = "load"
  /\ IF Stored(eventOf[d]) /\ sinkOf[d] \notin Disabled
       THEN Goto(d, "send") /\ sends' = [sends EXCEPT ![d] = @ + 1]
       ELSE Goto(d, "exhaust") /\ UNCHANGED sends
  /\ UNCHANGED <<storeVars, processVars, acked, buried, counted, faults>>

SinkAccepts(d) ==
  /\ pc[d] = "send"
  /\ Goto(d, "delivered")
  /\ acked' = acked \cup {d}
  /\ UNCHANGED <<storeVars, processVars, sends, buried, counted, faults>>

SinkRefuses(d) ==
  /\ pc[d] = "send"
  /\ Goto(d, "exhaust")
  /\ Count(d)
  /\ UNCHANGED <<storeVars, processVars, sends, acked, buried, faults>>

(* _schedule_retry: another attempt, or the dead-letter queue. *)
SinkFails(d) ==
  /\ pc[d] = "send"
  /\ Goto(d, IF AttemptsMade(d) >= MaxAttempts THEN "exhaust" ELSE "retry")
  /\ Count(d)
  /\ UNCHANGED <<storeVars, processVars, sends, acked, buried, faults>>

MarkDelivered(d) ==
  /\ pc[d] = "delivered"
  /\ FinishAttempt(d, "delivered")
  /\ Goto(d, "settle")
  /\ UNCHANGED <<processVars, histVars>>

MarkRetry(d) ==
  /\ pc[d] = "retry"
  /\ FinishAttempt(d, "pending")
  /\ Finish(d)
  /\ UNCHANGED <<processVars, histVars>>

(* Mutant: the row exhausted without its dead letter. *)
ExhaustUnburied(d) ==
  /\ pc[d] = "exhaust"
  /\ FinishAttempt(d, "exhausted")
  /\ Goto(d, "settle")
  /\ UNCHANGED <<processVars, histVars>>

(* mark_exhausted is three statements and more: the row, the dead letter, *)
(* and the roll-up.                                                       *)
MarkExhausted(d) ==
  /\ pc[d] = "exhaust"
  /\ FinishAttempt(d, "exhausted")
  /\ Goto(d, "dlq")
  /\ UNCHANGED <<processVars, histVars>>

Bury(d) ==
  /\ pc[d] = "dlq"
  /\ InsertDlq(d)
  /\ pc' = [pc EXCEPT ![d] = "settle"]
  /\ justFailed' = [justFailed EXCEPT ![d] = TRUE]
  /\ buried' = buried \cup {d}
  /\ UNCHANGED <<processVars, snap, recovering, sends, acked, counted, faults>>

(* The foreign key refuses the dead letter of a row the sweep took. *)
BuryRefused(d) ==
  /\ pc[d] = "dlq"
  /\ ~RowExists(d)
  /\ Raise(d)
  /\ UNCHANGED <<storeVars, processVars, histVars>>

(* mark_delivered, or mark_exhausted, returns, and the task ends with it.  *)
(* A delivered attempt is counted here, a failed one before its statements.*)
Settle(d) ==
  /\ Finish(d)
  /\ IF justFailed[d] THEN UNCHANGED counted ELSE Count(d)
  /\ UNCHANGED <<processVars, sends, acked, buried, faults>>

(* _settle_event_for.  Its first two reads are one step: the event of a   *)
(* row never changes, and a row deleted between them leaves nothing to    *)
(* settle either way.                                                     *)
SettleCount(d) ==
  /\ pc[d] = "settle"
  /\ IF RowExists(d) /\ Unsettled(eventOf[d]) = {}
       THEN Goto(d, "tally") /\ UNCHANGED <<processVars, histVars>>
       ELSE Settle(d)
  /\ UNCHANGED storeVars

(* Mutant: the outcome of this delivery only. *)
SettleOwn(d) ==
  /\ pc[d] = "tally"
  /\ Goto(d, IF justFailed[d] THEN "fail" ELSE "dispatch")
  /\ UNCHANGED <<storeVars, processVars, histVars>>

(* any_failed: this delivery, or one that is exhausted already. *)
SettleTally(d) ==
  /\ pc[d] = "tally"
  /\ Goto(d, IF justFailed[d] \/ ExhaustedOf(eventOf[d]) # {} THEN "fail" ELSE "dispatch")
  /\ UNCHANGED <<storeVars, processVars, histVars>>

SettleWrite(d) ==
  /\ pc[d] \in {"dispatch", "fail"}
  /\ SettleEvent(eventOf[d], pc[d] = "fail")
  /\ Settle(d)

(* Mutant: counted as an error and, at the last attempt, as exhausted too. *)
RecoverCountedTwice(d) ==
  /\ pc[d] = "raised"
  /\ recovering = None
  /\ \A c \in Delivery : pc[c] \in {"idle", "raised"}
  /\ pc' = [pc EXCEPT ![d] = IF AttemptsMade(d) >= MaxAttempts THEN "exhaust" ELSE "release"]
  /\ justFailed' = [justFailed EXCEPT ![d] = FALSE]
  /\ recovering' = d
  /\ counted' = [counted EXCEPT ![d] = @ + IF AttemptsMade(d) >= MaxAttempts THEN 2 ELSE 1]
  /\ UNCHANGED <<storeVars, processVars, snap, sends, acked, buried, faults>>

(* _recover, for one delivery at a time, once no task of the batch runs. *)
Recover(d) ==
  /\ pc[d] = "raised"
  /\ recovering = None
  /\ \A c \in Delivery : pc[c] \in {"idle", "raised"}
  /\ pc' = [pc EXCEPT ![d] = IF AttemptsMade(d) >= MaxAttempts THEN "exhaust" ELSE "release"]
  /\ justFailed' = [justFailed EXCEPT ![d] = FALSE]
  /\ recovering' = d
  /\ Count(d)
  /\ UNCHANGED <<storeVars, processVars, snap, sends, acked, buried, faults>>

Release(d) ==
  /\ pc[d] = "release"
  /\ ReleaseClaim(d)
  /\ Finish(d)
  /\ UNCHANGED <<processVars, histVars>>

(* A statement raises and has no effect: a full disk, an I/O error. *)
Fault(d) ==
  /\ pc[d] \in StatementPc
  /\ faults < MaxFaults
  /\ faults' = faults + 1
  /\ Raise(d)
  /\ UNCHANGED <<storeVars, processVars, sends, acked, buried, counted>>

-----------------------------------------------------------------------------
(* Lifecycle. *)
Crash ==
  /\ ProcessDies
  /\ pc' = [d \in Delivery |-> "idle"]
  /\ snap' = [d \in Delivery |-> 0]
  /\ justFailed' = [d \in Delivery |-> FALSE]
  /\ recovering' = None
  /\ UNCHANGED histVars

Start == ProcessStarts /\ UNCHANGED workerVars

(* _sweep_loop.  Its two statements need no order between them here: each  *)
(* may find nothing to delete, so either may run alone.                    *)
Sweep ==
  /\ up
  /\ \/ \E S \in SUBSET Delivery \ {{}} : SweepDlq(S)
     \/ \E S \in SUBSET Event \ {{}} : SweepEvents(S)
  /\ UNCHANGED <<processVars, workerVars>>

Deliver(d) ==
  \/ Load(d) \/ SinkAccepts(d) \/ SinkRefuses(d) \/ SinkFails(d)
  \/ MarkDelivered(d) \/ MarkRetry(d) \/ MarkExhausted(d) \/ Bury(d) \/ BuryRefused(d)
  \/ SettleCount(d) \/ SettleTally(d) \/ SettleWrite(d)
  \/ Recover(d) \/ Release(d)

Worker ==
  \/ \E B \in SUBSET Delivery : Claim(B)
  \/ \E d \in Delivery : Deliver(d) \/ Fault(d)
  \/ Sweep

-----------------------------------------------------------------------------
(* The request handlers, seen from the tables. *)

Receive(e) == \E s \in {"received", "filtered"} : RecordEvent(e, s)

(* The verdict of a screening, and its release. *)
Withhold(e) ==
  /\ evStatus[e] = "received"
  /\ \E s \in {"quarantined", "dropped"} : SetEventStatus(e, s)

Unhold(e) == evStatus[e] = "quarantined" /\ SetEventStatus(e, "received")

QueueFirst(e) == \E sinks \in SUBSET Sink : EnqueueFirst(e, sinks)

Replay(e) == \E sink \in Sink : EnqueueOne(e, sink)

Handlers ==
  /\ up
  /\ \E e \in Event :
       Receive(e) \/ Withhold(e) \/ Unhold(e) \/ QueueFirst(e) \/ Replay(e)
  /\ UNCHANGED <<processVars, workerVars>>

Next ==
  \/ Worker \/ Handlers
  \/ Crash \/ Start

Spec == Init /\ [][Next]_vars

(* The worker loop runs while the process does, a sink call ends (it has a *)
(* timeout), and a process that died is started again.  No retention sweep,*)
(* request or failure is ever certain to happen.                           *)
Fairness ==
  /\ WF_vars(\E B \in SUBSET Delivery : Claim(B))
  /\ \A d \in Delivery : WF_vars(Deliver(d))
  /\ WF_vars(Start)

FairSpec == Spec /\ Fairness
-----------------------------------------------------------------------------
(* Properties. *)

(* delivery.max_attempts bounds the calls of the sink for one delivery,    *)
(* and each crash may cost one more: the attempt it interrupted is not     *)
(* counted, since requeue_incomplete leaves the counter alone.  Failing    *)
(* statements cost none: _recover counts the attempt, and where it fails   *)
(* too the row waits for a restart.                                        *)
AttemptBudget == \A d \in Delivery : sends[d] <= MaxAttempts + crashes

(* A row says delivered only if a sink accepted that delivery: no repair,  *)
(* restart or settling of a sibling marks a delivery the sink never took.  *)
DeliveredWasAccepted == \A d \in Delivery : dlStatus[d] = "delivered" => d \in acked

(* From the claim to the UPDATE that ends the attempt, the event of the    *)
(* delivery is there to be read: the retention sweep never takes a payload *)
(* that is about to be sent, and _deliver_once never finds it swept.       *)
PayloadKept ==
  \A d \in Delivery :
    pc[d] \in {"load", "send", "delivered", "retry"} => Stored(eventOf[d])

(* In a running engine a delivery stays in_flight with nothing working on  *)
(* it only after two statements in a row failed, the one of the attempt    *)
(* and the one of _recover: a single failure is always repaired.           *)
StrandedAfterTwoFaults ==
  \A d \in Delivery :
    up /\ dlStatus[d] = "in_flight" /\ pc[d] = "idle" => faults >= 2

(* A sink is called only for a row that is claimed at that moment: never   *)
(* again once the row says delivered or exhausted, whatever failed between *)
(* the answer and the bookkeeping.                                         *)
CalledOnlyWhileClaimed ==
  [][\A d \in Delivery : sends'[d] # sends[d] => dlStatus[d] = "in_flight"]_vars

(* No crash and no failing statement so far. *)
Undisturbed == crashes = 0 /\ faults = 0

AtRest(e) == up /\ \A d \in Delivery : eventOf[d] = e => pc[d] = "idle"

(* Once every delivery of an event has settled and no task is at work on   *)
(* them, the event says so: failed if some delivery is exhausted and       *)
(* dispatched otherwise, however the tasks of the siblings and a replay    *)
(* interleaved their reads and writes in _settle_event_for.  A crash or a   *)
(* failing statement between the UPDATE and the roll-up breaks it.         *)
RolledUp ==
  Undisturbed => \A e \in Event :
    AtRest(e) /\ HasDeliveries(e) /\ Unsettled(e) = {}
      => evStatus[e] = IF ExhaustedOf(e) # {} THEN "failed" ELSE "dispatched"

(* A delivery that gave up is in the dead-letter queue (until the sweep    *)
(* removes the entry): no exhausted row is invisible to GET /admin/dlq.    *)
DeadLettered ==
  \A d \in Delivery :
    up /\ dlStatus[d] = "exhausted" /\ pc[d] = "idle" => d \in buried

(* The same for as long as nothing interrupts mark_exhausted.              *)
DeadLetteredUndisturbed == Undisturbed => DeadLettered

(* "The outcomes of delivery_attempts_total sum to the number of attempts"  *)
(* (engine.py:561), where an attempt is a call of the sink: none goes       *)
(* uncounted, on whichever path it ends, and one is counted twice only if   *)
(* a statement failed or the sweep took its row under it.  (The counters    *)
(* are in memory and start again with the process.)                         *)
OutcomesCounted ==
  crashes = 0 => \A d \in Delivery :
    pc[d] = "idle" =>
      /\ counted[d] >= sends[d]
      /\ dlStatus[d] # "deleted" => counted[d] <= sends[d] + faults

(* What an operator sees of events and deliveries. *)
Ticket(d) == IF dlStatus[d] \in {"pending", "in_flight"} THEN "owed" ELSE dlStatus[d]

O == INSTANCE Outbox WITH
       fate     <- evStatus,
       ticket   <- [d \in Delivery |-> Ticket(d)],
       accepted <- acked,
       letters  <- dlq,
       trouble  <- faults > 0

(* The worker does to events and deliveries only what Outbox allows, with   *)
(* its interleavings, retries, repairs and restarts: nothing is sent that   *)
(* is not owed, a delivery that its sink took stays delivered and has no    *)
(* dead letter unless a statement failed, and no event is said to be        *)
(* dispatched without a delivery that was taken, also when a crash or a     *)
(* failing statement came between the delivery and the roll-up.             *)
OutboxSpec == O!Spec

Stranded(d) == up /\ dlStatus[d] = "in_flight" /\ pc[d] = "idle" /\ faults >= 2

(* Every queued delivery is delivered, dead-lettered or left for the next  *)
(* start after a double failure: it is never retried for ever and the      *)
(* batch barrier of run_once never blocks it for good.                     *)
EverySettles ==
  \A d \in Delivery :
    dlStatus[d] = "pending"
      ~> (dlStatus[d] \in {"delivered", "exhausted", "deleted"} \/ Stranded(d))
=============================================================================
