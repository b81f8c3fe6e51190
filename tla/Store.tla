------------------------------- MODULE Store -------------------------------
(***************************************************************************)
(* The SQLite store of webhook-doorman (store/sqlite.py): the tables       *)
(* events, deliveries and dlq, and one operator per SQL statement.         *)
(*                                                                         *)
(* The connection runs in autocommit (isolation_level=None), so a          *)
(* statement is atomic and a store method of several statements is not:    *)
(* its caller may be suspended, fail or be killed between two of them.     *)
(* The modules that use this one take the statements of a method as        *)
(* separate steps for that reason.                                         *)
(*                                                                         *)
(* A row of deliveries is a member of Delivery.  Rows are never inserted   *)
(* twice under one id (AUTOINCREMENT), and the event and the sink of a row *)
(* never change, so both are constant functions of the id: Delivery is the *)
(* pool of ids the table may hand out, and its size bounds the model.      *)
(***************************************************************************)
EXTENDS Naturals, FiniteSets

CONSTANTS
  Event,      \* ids of events: one per (source, delivery_id) a producer uses
  Sink,       \* names of sinks
  Delivery,   \* ids of delivery rows
  eventOf,    \* column deliveries.event_id
  sinkOf,     \* column deliveries.sink
  MaxCrashes  \* bound of the model: crashes in a behaviour

ASSUME StoreAssumption ==
  /\ eventOf \in [Delivery -> Event]
  /\ sinkOf \in [Delivery -> Sink]
  /\ MaxCrashes \in Nat

VARIABLES
  evStatus,   \* column events.status, "absent" before the insert, "deleted" after the sweep
  dlStatus,   \* column deliveries.status, "unused" before the insert, "deleted" after the cascade
  attempt,    \* column deliveries.attempt
  dlq,        \* number of rows of dlq for the delivery
  up,         \* the process runs, with the store connected
  crashes     \* history: crashes so far

storeVars == <<evStatus, dlStatus, attempt, dlq>>
processVars == <<up, crashes>>

EventStatus ==
  {"received", "dispatched", "failed", "filtered", "quarantined", "dropped"}

(* The column may also hold failed, which no statement writes. *)
DeliveryStatus == {"pending", "in_flight", "delivered", "exhausted"}

StoreTypeOK ==
  /\ evStatus \in [Event -> EventStatus \cup {"absent", "deleted"}]
  /\ dlStatus \in [Delivery -> DeliveryStatus \cup {"unused", "deleted"}]
  /\ attempt \in [Delivery -> Nat]
  /\ dlq \in [Delivery -> Nat]
  /\ up \in BOOLEAN
  /\ crashes \in 0..MaxCrashes

StoreInit ==
  /\ evStatus = [e \in Event |-> "absent"]
  /\ dlStatus = [d \in Delivery |-> "unused"]
  /\ attempt = [d \in Delivery |-> 0]
  /\ dlq = [d \in Delivery |-> 0]
  /\ up = TRUE
  /\ crashes = 0

-----------------------------------------------------------------------------
(* Reads. *)

Stored(e) == evStatus[e] \in EventStatus

RowExists(d) == dlStatus[d] \in DeliveryStatus

RowsOf(e) == {d \in Delivery : eventOf[d] = e /\ RowExists(d)}

HasDeliveries(e) == RowsOf(e) # {}

Unsettled(e) == {d \in RowsOf(e) : dlStatus[d] \in {"pending", "in_flight"}}

ExhaustedOf(e) == {d \in RowsOf(e) : dlStatus[d] = "exhausted"}

(* Sets of fresh ids, one for each of the given sinks. *)
FreshRows(e, sinks) ==
  {D \in SUBSET {d \in Delivery : eventOf[d] = e /\ dlStatus[d] = "unused"} :
     /\ {sinkOf[d] : d \in D} = sinks
     /\ \A c, d \in D : sinkOf[c] = sinkOf[d] => c = d}

-----------------------------------------------------------------------------
(* Writes. *)

SetEventStatus(e, s) ==
  /\ evStatus' = [evStatus EXCEPT ![e] = s]
  /\ UNCHANGED <<dlStatus, attempt, dlq>>

(* INSERT OR IGNORE INTO events: a duplicate key leaves the row as it is. *)
RecordEvent(e, s) ==
  /\ evStatus[e] = "absent"
  /\ SetEventStatus(e, s)

InsertRows(D) ==
  /\ dlStatus' = [d \in Delivery |-> IF d \in D THEN "pending" ELSE dlStatus[d]]
  /\ UNCHANGED <<evStatus, attempt, dlq>>

(* Mutant: the insert without its NOT EXISTS. *)
EnqueueAgain(e, sinks) ==
  IF sinks # {} /\ evStatus[e] = "received"
    THEN \E D \in FreshRows(e, sinks) : InsertRows(D)
    ELSE UNCHANGED storeVars

(* Mutant: an insert for each sink, of which only the first finds no row. *)
EnqueueFirstPerSink(e, sinks) ==
  IF sinks # {} /\ ~HasDeliveries(e) /\ evStatus[e] = "received"
    THEN \E sink \in sinks : EnqueueAgain(e, {sink})
    ELSE UNCHANGED storeVars

(* The at-most-once insert: its two conditions are in the statement. *)
EnqueueFirst(e, sinks) ==
  IF sinks # {} /\ ~HasDeliveries(e) /\ evStatus[e] = "received"
    THEN \E D \in FreshRows(e, sinks) : InsertRows(D)
    ELSE UNCHANGED storeVars

(* One pass of the loop of enqueue_deliveries: an unconditional insert that *)
(* only the foreign key on events restrains.                                *)
EnqueueOne(e, sink) ==
  /\ Stored(e)
  /\ \E D \in FreshRows(e, {sink}) : InsertRows(D)

(* Mutant: a claim that reads the due rows and does not mark them. *)
ClaimUnmarked(B) ==
  /\ \A d \in B : dlStatus[d] = "pending"
  /\ UNCHANGED storeVars

(* claim_due_deliveries: which pending rows are due is a matter of the     *)
(* clock, which is not modelled, so any of them may be.                    *)
ClaimRows(B) ==
  /\ \A d \in B : dlStatus[d] = "pending"
  /\ dlStatus' = [d \in Delivery |-> IF d \in B THEN "in_flight" ELSE dlStatus[d]]
  /\ UNCHANGED <<evStatus, attempt, dlq>>

(* Mutant: an UPDATE keyed on the event, not on the delivery. *)
FinishAttemptsOfEvent(d, s) ==
  LET D == RowsOf(eventOf[d]) IN
  IF RowExists(d)
    THEN /\ dlStatus' = [c \in Delivery |-> IF c \in D THEN s ELSE dlStatus[c]]
         /\ attempt' = [c \in Delivery |-> IF c \in D THEN attempt[c] + 1 ELSE attempt[c]]
         /\ UNCHANGED <<evStatus, dlq>>
    ELSE UNCHANGED storeVars

(* The UPDATE of mark_delivered, mark_retry and mark_exhausted: by id,     *)
(* whatever the status of the row, and of no effect on a row that is gone. *)
FinishAttempt(d, s) ==
  IF RowExists(d)
    THEN /\ dlStatus' = [dlStatus EXCEPT ![d] = s]
         /\ attempt' = [attempt EXCEPT ![d] = @ + 1]
         /\ UNCHANGED <<evStatus, dlq>>
    ELSE UNCHANGED storeVars

(* Mutant: the claim handed back without counting the attempt. *)
ReleaseUncounted(d) ==
  IF dlStatus[d] = "in_flight"
    THEN dlStatus' = [dlStatus EXCEPT ![d] = "pending"] /\ UNCHANGED <<evStatus, attempt, dlq>>
    ELSE UNCHANGED storeVars

(* The same UPDATE in release_claim, conditional on the claim. *)
ReleaseClaim(d) ==
  IF dlStatus[d] = "in_flight" THEN FinishAttempt(d, "pending") ELSE UNCHANGED storeVars

InsertDlq(d) ==
  /\ RowExists(d)
  /\ dlq' = [dlq EXCEPT ![d] = @ + 1]
  /\ UNCHANGED <<evStatus, dlStatus, attempt>>

(* Mutant: a requeue of the pending rows only. *)
RequeuePending ==
  /\ dlStatus' = dlStatus
  /\ UNCHANGED <<evStatus, attempt, dlq>>

RequeueIncomplete ==
  /\ dlStatus' = [d \in Delivery |->
                    IF dlStatus[d] \in {"pending", "in_flight"} THEN "pending" ELSE dlStatus[d]]
  /\ UNCHANGED <<evStatus, attempt, dlq>>

(* The last statement of _settle_event_for: unconditional on the status. *)
SettleEvent(e, anyFailed) ==
  IF Stored(e)
    THEN SetEventStatus(e, IF anyFailed THEN "failed" ELSE "dispatched")
    ELSE UNCHANGED storeVars

(* The two statements of sweep.  S is what has passed its retention. *)
SweepDlq(S) ==
  /\ \A d \in S : dlq[d] > 0
  /\ dlq' = [d \in Delivery |-> IF d \in S THEN dlq[d] - 1 ELSE dlq[d]]
  /\ UNCHANGED <<evStatus, dlStatus, attempt>>

(* Mutant: a sweep that takes the event of a delivery under way. *)
SweepClaimed(S) ==
  /\ \A e \in S : Stored(e) /\ \A d \in RowsOf(e) : dlStatus[d] # "pending"
  /\ evStatus' = [e \in Event |-> IF e \in S THEN "deleted" ELSE evStatus[e]]
  /\ dlStatus' = [d \in Delivery |->
                    IF eventOf[d] \in S /\ RowExists(d) THEN "deleted" ELSE dlStatus[d]]
  /\ dlq' = [d \in Delivery |-> IF eventOf[d] \in S THEN 0 ELSE dlq[d]]
  /\ UNCHANGED attempt

SweepEvents(S) ==
  /\ \A e \in S : Stored(e) /\ Unsettled(e) = {}
  /\ evStatus' = [e \in Event |-> IF e \in S THEN "deleted" ELSE evStatus[e]]
  /\ dlStatus' = [d \in Delivery |->
                    IF eventOf[d] \in S /\ RowExists(d) THEN "deleted" ELSE dlStatus[d]]
  /\ dlq' = [d \in Delivery |-> IF eventOf[d] \in S THEN 0 ELSE dlq[d]]
  /\ UNCHANGED attempt

-----------------------------------------------------------------------------
(* The process.  A crash loses what is in memory and keeps what the        *)
(* statements committed.  stop() cancels the tasks wherever they wait, so  *)
(* it leaves the tables as a crash does.                                   *)
ProcessDies ==
  /\ up
  /\ crashes < MaxCrashes
  /\ up' = FALSE
  /\ crashes' = crashes + 1
  /\ UNCHANGED storeVars

(* start(): connect, then requeue_incomplete before any loop runs. *)
ProcessStarts ==
  /\ ~up
  /\ up' = TRUE
  /\ RequeueIncomplete
  /\ UNCHANGED crashes
=============================================================================
