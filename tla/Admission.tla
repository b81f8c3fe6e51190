----------------------------- MODULE Admission -----------------------------
(***************************************************************************)
(* The request side of the engine (engine.py): Engine.ingest with its      *)
(* resume of interrupted dispatches and its screening, Engine.release and  *)
(* Engine.replay.  Each request is a coroutine of its own; requests        *)
(* interleave at every await, that is before every statement of the store  *)
(* and around the detector.                                                *)
(*                                                                         *)
(* The worker that delivers what is queued here is module Dispatch; this   *)
(* module sees it as one step that settles an event whole (Dispatched).    *)
(***************************************************************************)
EXTENDS Store

CONSTANTS
  Request,        \* request slots
  Ops,            \* the operations requests may ask for
  Scored,         \* events with text for a configured detector to score
  OnDetect,       \* status detector.on_detect stands for
  OnError,        \* status detector.on_error stands for
  DetectorFails,  \* whether the detector may raise
  Reroutes,       \* whether a restart may bring a configuration with other routes
  MaxAborts       \* bound of the model: requests a failing statement ends

Withheld == {"quarantined", "dropped"}

ASSUME AdmissionAssumption ==
  /\ Ops \subseteq {"ingest", "release", "replay"}
  /\ Scored \subseteq Event
  /\ OnDetect \in {"received"} \cup Withheld
  /\ OnError \in {"received", "quarantined"}
  /\ DetectorFails \in BOOLEAN /\ Reroutes \in BOOLEAN
  /\ MaxAborts \in Nat

VARIABLES
  routes,    \* sinks the current configuration routes the event to (_sinks_for)
  stored,    \* column events.sinks_json: where the event was meant to go
  flagged,   \* events whose text reaches detector.threshold
  op,        \* the operation of the request
  target,    \* the event it is about
  rpc,       \* where its coroutine is
  todo,      \* sinks it is going to queue
  resumed,   \* it is a redelivery that took over a dispatch (_resume)
  verdict,   \* status the screening decided on
  answer,    \* what the client was told
  released,  \* history: events release_event took out of quarantine
  replayed,  \* history: events a replay inserted a row for
  unrouted,  \* history: events a redelivery found no sink for any more
  wavered,   \* history: events a failing detector got a verdict for that is not theirs
  aborts     \* history: requests a failing statement ended

requestVars == <<op, target, rpc, todo, resumed, verdict, answer>>
historyVars == <<released, replayed, unrouted, wavered, aborts>>
admissionVars == <<routes, stored, flagged, requestVars, historyVars>>
vars == <<storeVars, processVars, admissionVars>>

Rpc == {"free", "record", "stored", "rows", "score", "verdict", "enqueue",
        "held", "unhold", "fetch", "insert", "done"}

Answers == {"none", "accepted", "deduplicated", "filtered", "ignored", "quarantined",
            "dropped", "released", "replayed", "not_found", "not_quarantined",
            "not_replayable", "no_sinks", "error"}

TypeOK ==
  /\ StoreTypeOK
  /\ routes \in [Event -> SUBSET Sink]
  /\ stored \in [Event -> SUBSET Sink]
  /\ flagged \subseteq Scored
  /\ op \in [Request -> Ops]
  /\ target \in [Request -> Event]
  /\ rpc \in [Request -> Rpc]
  /\ todo \in [Request -> SUBSET Sink]
  /\ resumed \in [Request -> BOOLEAN]
  /\ verdict \in [Request -> {"received"} \cup Withheld]
  /\ answer \in [Request -> Answers]
  /\ released \subseteq Event
  /\ replayed \subseteq Event
  /\ unrouted \subseteq Event
  /\ wavered \subseteq Event
  /\ aborts \in 0..MaxAborts

(* Which requests come, for which events and with what text, is fixed at   *)
(* the start; when they come is not.                                       *)
AdmissionInit ==
  /\ routes \in IF Reroutes THEN [Event -> SUBSET Sink] ELSE {[e \in Event |-> Sink]}
  /\ stored = [e \in Event |-> {}]
  /\ flagged \in SUBSET Scored
  /\ op \in [Request -> Ops]
  /\ target \in [Request -> Event]
  /\ rpc = [r \in Request |-> "free"]
  /\ todo = [r \in Request |-> {}]
  /\ resumed = [r \in Request |-> FALSE]
  /\ verdict = [r \in Request |-> "received"]
  /\ answer = [r \in Request |-> "none"]
  /\ released = {}
  /\ replayed = {}
  /\ unrouted = {}
  /\ wavered = {}
  /\ aborts = 0

Init == StoreInit /\ AdmissionInit

-----------------------------------------------------------------------------
(* Control of a request. *)

(* The request goes on at l, to queue the sinks of the set todo. *)
Proceed(r, l, sinks) ==
  /\ rpc' = [rpc EXCEPT ![r] = l]
  /\ todo' = [todo EXCEPT ![r] = sinks]
  /\ UNCHANGED <<op, target, resumed, verdict, answer>>

Goto(r, l) == Proceed(r, l, todo[r])

Answer(r, a) ==
  /\ rpc' = [rpc EXCEPT ![r] = "done"]
  /\ answer' = [answer EXCEPT ![r] = a]
  /\ todo' = [todo EXCEPT ![r] = {}]
  /\ resumed' = [resumed EXCEPT ![r] = FALSE]
  /\ verdict' = [verdict EXCEPT ![r] = "received"]
  /\ UNCHANGED <<op, target>>

(* A step that only reads the store. *)
ReadOnly == UNCHANGED <<storeVars, processVars, routes, stored, flagged, historyVars>>

(* A step that writes it and leaves the rest of the state alone. *)
WriteOnly == UNCHANGED <<processVars, routes, stored, flagged, historyVars>>

Arrive(r) ==
  /\ up /\ rpc[r] = "free"
  /\ Goto(r, CASE op[r] = "ingest"  -> "record"
               [] op[r] = "release" -> "held"
               [] op[r] = "replay"  -> "fetch")
  /\ ReadOnly

(* The producer sends again what was answered 5xx or not at all. *)
Redeliver(r) ==
  /\ up /\ rpc[r] = "done" /\ op[r] = "ingest" /\ answer[r] = "error"
  /\ rpc' = [rpc EXCEPT ![r] = "record"]
  /\ answer' = [answer EXCEPT ![r] = "none"]
  /\ UNCHANGED <<op, target, todo, resumed, verdict>>
  /\ ReadOnly

(* _screen scores an event only when there is a detector and a text. *)
AfterAdmission(e) == IF e \in Scored THEN "score" ELSE "enqueue"

-----------------------------------------------------------------------------
(* Engine.ingest. *)

(* record_event on a new key.  The request handler has decided what the    *)
(* event is: refused by a filter, without anything to do, or to be sent.   *)
RecordNew(r) ==
  LET e == target[r] IN
  /\ rpc[r] = "record"
  /\ \/ RecordEvent(e, "filtered") /\ Answer(r, "filtered") /\ UNCHANGED stored
     \/ RecordEvent(e, "received") /\ Answer(r, "ignored") /\ UNCHANGED stored
     \/ /\ routes[e] # {}
        /\ RecordEvent(e, "received")
        /\ stored' = [stored EXCEPT ![e] = routes[e]]
        /\ Proceed(r, AfterAdmission(e), routes[e])
  /\ UNCHANGED <<processVars, routes, flagged, historyVars>>

(* INSERT OR IGNORE left the row of this key alone.  (The key of an event   *)
(* the sweep took is new to the store: its next delivery is another member *)
(* of Event.)                                                              *)
RecordDuplicate(r) ==
  /\ rpc[r] = "record" /\ Stored(target[r])
  /\ Goto(r, "stored")
  /\ ReadOnly

(* Mutant: a redelivery is a duplicate, always. *)
NeverResume(r) ==
  /\ rpc[r] = "stored"
  /\ Answer(r, "deduplicated")
  /\ ReadOnly

(* _resume: only an event still received, and meant to go somewhere. *)
ResumeStored(r) ==
  LET e == target[r] IN
  /\ rpc[r] = "stored"
  /\ IF evStatus[e] = "received" /\ stored[e] # {}
       THEN Goto(r, "rows") ELSE Answer(r, "deduplicated")
  /\ ReadOnly

(* The rest of _resume, for the sinks it found, its screening at l. *)
ResumeTo(r, sinks, l) ==
  /\ rpc[r] = "rows"
  /\ IF HasDeliveries(target[r]) \/ sinks = {}
       THEN Answer(r, "deduplicated")
       ELSE /\ rpc' = [rpc EXCEPT ![r] = l]
            /\ todo' = [todo EXCEPT ![r] = sinks]
            /\ resumed' = [resumed EXCEPT ![r] = TRUE]
            /\ UNCHANGED <<op, target, verdict, answer>>
  /\ unrouted' = IF ~HasDeliveries(target[r]) /\ sinks = {}
                   THEN unrouted \cup {target[r]} ELSE unrouted
  /\ UNCHANGED <<storeVars, processVars, routes, stored, flagged, released, replayed, wavered, aborts>>

(* Mutants: the sinks of the configuration, those stored with the event,    *)
(* and a resumed dispatch that is not screened.                             *)
ResumeToCurrent(r) == ResumeTo(r, routes[target[r]], AfterAdmission(target[r]))

ResumeToStored(r) == ResumeTo(r, stored[target[r]], AfterAdmission(target[r]))

ResumeUnscreened(r) == ResumeTo(r, stored[target[r]] \cap routes[target[r]], "enqueue")

(* _resume: only one with no deliveries, and with a route it still has. *)
ResumeRows(r) ==
  LET e == target[r] IN ResumeTo(r, stored[e] \cap routes[e], AfterAdmission(e))

(* The action configured for what the detector finds. *)
Judgement(e) == IF e \in flagged THEN OnDetect ELSE "received"

(* That, or the action configured for its failure. *)
Verdicts(e) == {Judgement(e)} \cup (IF DetectorFails THEN {OnError} ELSE {})

Score(r) ==
  /\ rpc[r] = "score"
  /\ \E v \in Verdicts(target[r]) :
       /\ verdict' = [verdict EXCEPT ![r] = v]
       /\ wavered' = IF v = Judgement(target[r]) THEN wavered ELSE wavered \cup {target[r]}
  /\ rpc' = [rpc EXCEPT ![r] = "verdict"]
  /\ UNCHANGED <<op, target, todo, resumed, answer, storeVars, processVars, routes, stored, flagged>>
  /\ UNCHANGED <<released, replayed, unrouted, aborts>>

(* Mutant: the verdict written whatever the event has become. *)
RecordVerdictAnyway(r) ==
  LET e == target[r] IN
  /\ rpc[r] = "verdict"
  /\ IF Stored(e) THEN SetEventStatus(e, verdict[r]) ELSE UNCHANGED storeVars
  /\ IF verdict[r] = "received" THEN Goto(r, "enqueue") ELSE Answer(r, verdict[r])
  /\ WriteOnly

(* record_detection: the write is conditional on received, and _screen     *)
(* acts on its own verdict whether or not the write took.                  *)
RecordDetection(r) ==
  LET e == target[r] IN
  /\ rpc[r] = "verdict"
  /\ IF evStatus[e] = "received"
       THEN SetEventStatus(e, verdict[r]) ELSE UNCHANGED storeVars
  /\ IF verdict[r] = "received" THEN Goto(r, "enqueue") ELSE Answer(r, verdict[r])
  /\ WriteOnly

(* enqueue_first_deliveries.  Only a resumed dispatch looks at what it did. *)
Enqueue(r) ==
  LET e == target[r] IN
  /\ rpc[r] = "enqueue"
  /\ EnqueueFirst(e, todo[r])
  /\ Answer(r, IF op[r] = "release" THEN "released"
               ELSE IF resumed[r] /\ dlStatus' = dlStatus THEN "deduplicated"
               ELSE "accepted")
  /\ WriteOnly

-----------------------------------------------------------------------------
(* Engine.release. *)

ReleaseRead(r) ==
  LET e == target[r] IN
  /\ rpc[r] = "held"
  /\ CASE ~Stored(e) -> Answer(r, "not_found")
       [] Stored(e) /\ evStatus[e] # "quarantined" -> Answer(r, "not_quarantined")
       [] OTHER -> Goto(r, "unhold")
  /\ ReadOnly

(* release_event, and the sinks of the current configuration. *)
ReleaseEvent(r) ==
  LET e == target[r] IN
  /\ rpc[r] = "unhold"
  /\ IF evStatus[e] = "quarantined"
       THEN /\ SetEventStatus(e, "received")
            /\ released' = released \cup {e}
            /\ IF routes[e] = {} THEN Answer(r, "no_sinks") ELSE Proceed(r, "enqueue", routes[e])
       ELSE UNCHANGED <<storeVars, released>> /\ Answer(r, "not_quarantined")
  /\ UNCHANGED <<processVars, routes, stored, flagged, replayed, unrouted, wavered, aborts>>

-----------------------------------------------------------------------------
(* Engine.replay. *)

NotReplayable == {"dropped", "quarantined", "filtered"}

(* Mutant: a replay that looks at no status. *)
ReplayAnything(r) ==
  LET e == target[r] IN
  /\ rpc[r] = "fetch"
  /\ IF ~Stored(e) THEN Answer(r, "not_found")
     ELSE IF routes[e] = {} THEN Answer(r, "no_sinks") ELSE Proceed(r, "insert", routes[e])
  /\ ReadOnly

ReplayRead(r) ==
  LET e == target[r] IN
  /\ rpc[r] = "fetch"
  /\ CASE ~Stored(e) -> Answer(r, "not_found")
       [] evStatus[e] \in NotReplayable -> Answer(r, "not_replayable")
       [] Stored(e) /\ evStatus[e] \notin NotReplayable /\ routes[e] = {} -> Answer(r, "no_sinks")
       [] OTHER -> Proceed(r, "insert", routes[e])
  /\ ReadOnly

(* One insert of enqueue_deliveries. *)
ReplayInsert(r) ==
  LET e == target[r] IN
  /\ rpc[r] = "insert"
  /\ \E sink \in todo[r] :
       /\ EnqueueOne(e, sink)
       /\ IF todo[r] = {sink} THEN Answer(r, "replayed")
                              ELSE Proceed(r, "insert", todo[r] \ {sink})
  /\ replayed' = replayed \cup {e}
  /\ UNCHANGED <<processVars, routes, stored, flagged, released, unrouted, wavered, aborts>>

(* The event was swept since it was read: the foreign key refuses the row. *)
ReplayRefused(r) ==
  /\ rpc[r] = "insert" /\ ~Stored(target[r])
  /\ Answer(r, "error")
  /\ ReadOnly

-----------------------------------------------------------------------------
(* Failures. *)

(* A statement raises: the handler answers 500. *)
Abort(r) ==
  /\ rpc[r] \notin {"free", "done", "score"}
  /\ aborts < MaxAborts
  /\ aborts' = aborts + 1
  /\ Answer(r, "error")
  /\ UNCHANGED <<storeVars, processVars, routes, stored, flagged, released, replayed, unrouted,
                 wavered>>

(* Requests under way end unanswered with the process. *)
RequestsDie ==
  /\ rpc' = [r \in Request |-> IF rpc[r] = "free" THEN "free" ELSE "done"]
  /\ answer' = [r \in Request |-> IF rpc[r] \in {"free", "done"} THEN answer[r] ELSE "error"]
  /\ todo' = [r \in Request |-> {}]
  /\ resumed' = [r \in Request |-> FALSE]
  /\ verdict' = [r \in Request |-> "received"]
  /\ UNCHANGED <<op, target, routes, stored, flagged, historyVars>>

(* The configuration is read once, at the start of the process. *)
LoadRoutes ==
  /\ IF Reroutes THEN routes' \in [Event -> SUBSET Sink] ELSE UNCHANGED routes
  /\ UNCHANGED <<stored, flagged, requestVars, historyVars>>

Crash == ProcessDies /\ RequestsDie

Start == ProcessStarts /\ LoadRoutes

-----------------------------------------------------------------------------
Handle(r) ==
  \/ Arrive(r)
  \/ RecordNew(r) \/ RecordDuplicate(r) \/ ResumeStored(r) \/ ResumeRows(r)
  \/ Score(r) \/ RecordDetection(r) \/ Enqueue(r)
  \/ ReleaseRead(r) \/ ReleaseEvent(r)
  \/ ReplayRead(r) \/ ReplayInsert(r) \/ ReplayRefused(r)

Requests == \E r \in Request : Handle(r) \/ Redeliver(r) \/ Abort(r)

(* The worker and the sweep, seen from the requests. *)
Dispatched(e) ==
  /\ up /\ Unsettled(e) # {}
  /\ dlStatus' = [d \in Delivery |-> IF d \in Unsettled(e) THEN "delivered" ELSE dlStatus[d]]
  /\ evStatus' = [evStatus EXCEPT ![e] = "dispatched"]
  /\ UNCHANGED <<attempt, dlq, processVars, admissionVars>>

Sweep ==
  /\ up
  /\ \E S \in SUBSET Event \ {{}} : SweepEvents(S)
  /\ UNCHANGED <<processVars, admissionVars>>

Next ==
  \/ Requests
  \/ Crash \/ Start \/ Sweep
  \/ \E e \in Event : Dispatched(e)

Spec == Init /\ [][Next]_vars

-----------------------------------------------------------------------------
(* Properties. *)

AtWork(e) == \E r \in Request : target[r] = e /\ rpc[r] \notin {"free", "done"}

(* The first dispatch of an event happens at most once: however an ingest, *)
(* its redeliveries and releases interleave, no sink gets a second row     *)
(* unless a replay asked for it.                                           *)
AtMostOncePerSink ==
  \A e \in Event \ replayed :
    \A c, d \in RowsOf(e) : sinkOf[c] = sinkOf[d] => c = d

(* An event that was meant to go somewhere and is queued to nothing is     *)
(* still in someone's hands: a request is at work on it, every producer    *)
(* that sent it was answered with an error and knows to send it again, or  *)
(* the operator whose release took it out of quarantine was answered with  *)
(* an error.  The one exception is an event whose sinks a new              *)
(* configuration routes nowhere: its redelivery is told it is a duplicate. *)
NoSilentLoss ==
  \A e \in Event \ unrouted :
    evStatus[e] = "received" /\ stored[e] # {} /\ ~HasDeliveries(e) /\ ~AtWork(e)
      => \/ \A r \in Request :
              target[r] = e /\ op[r] = "ingest" /\ rpc[r] = "done" => answer[r] = "error"
         \/ \E r \in Request :
              target[r] = e /\ op[r] = "release" /\ answer[r] \in {"error", "no_sinks"}

(* What the detector withheld is queued to nothing, as long as no operator *)
(* released or replays it: no interleaving of redeliveries screens an      *)
(* event both ways, unless the detector failed on one of two screenings.   *)
WithheldNeverQueued ==
  \A e \in Event \ (released \cup replayed \cup wavered) :
    evStatus[e] \in Withheld => ~HasDeliveries(e)

(* What engine.py:491 says of every event: "`dropped` promises the content   *)
(* never reaches a sink".  A replay under way when the verdict falls breaks *)
(* it.                                                                     *)
DroppedNeverQueued == \A e \in Event : evStatus[e] = "dropped" => ~HasDeliveries(e)

(* A verdict that withholds an event is not undone by a later screening of *)
(* the same event: only release_event returns it to received, and only     *)
(* from quarantine.                                                        *)
VerdictStands ==
  [][\A e \in Event :
       evStatus[e] \in Withheld /\ evStatus'[e] # evStatus[e]
                              /\ evStatus'[e] \in {"received"} \cup Withheld
         => /\ evStatus[e] = "quarantined"
            /\ \E r \in Request : target[r] = e /\ rpc[r] = "unhold" /\ rpc'[r] # "unhold"]_vars

(* Without an operator's release or replay an event goes only where it was *)
(* decided to go when it was stored, and an event without anything to do   *)
(* never goes anywhere, even when later redeliveries meet other routes.    *)
StoredDecision ==
  \A e \in Event \ (released \cup replayed) :
    \A d \in RowsOf(e) : sinkOf[d] \in stored[e]

(* A row is only ever queued for a sink the current configuration routes   *)
(* the event to, also when the decision stored with it is older.           *)
CurrentRoutes ==
  [][\A d \in Delivery :
       dlStatus[d] = "unused" /\ dlStatus'[d] = "pending"
         => sinkOf[d] \in routes[eventOf[d]]]_vars

(* An operator who is told an event was released finds its deliveries      *)
(* queued.                                                                 *)
ReleasedMeansQueued ==
  \A r \in Request :
    answer[r] = "released" => HasDeliveries(target[r]) \/ ~Stored(target[r])
=============================================================================
