-------------------------- MODULE Admission_proofs --------------------------
(* Theorems about Admission, for every set of events, sinks, rows and      *)
(* requests, any configuration of the detector, with or without a change   *)
(* of routes, and every number of crashes and failing statements.          *)
EXTENDS Admission, TLAPS

-----------------------------------------------------------------------------
(* The inductive invariant: what a request may rely on where it is, and    *)
(* what its events look like to everyone else.                             *)

(* Only a running process has requests under way. *)
Down == ~up => \A r \in Request : rpc[r] \in {"free", "done"}

(* Points at which a request has decided on sinks and not queued them. *)
Holding == {"score", "verdict", "enqueue", "insert"}

(* A request is where its operation can be, and past the points at which   *)
(* it found its event, and found it not refused.                           *)
Place(r) ==
  /\ rpc[r] \in {"record", "stored", "rows", "score", "verdict"} => op[r] = "ingest"
  /\ rpc[r] \in {"held", "unhold"} => op[r] = "release"
  /\ rpc[r] \in {"fetch", "insert"} => op[r] = "replay"
  /\ rpc[r] = "enqueue" => op[r] \in {"ingest", "release"}
  /\ rpc[r] \notin {"free", "record", "held", "fetch", "done"} => evStatus[target[r]] # "absent"
  /\ rpc[r] \in {"rows", "unhold"} \cup Holding => evStatus[target[r]] # "filtered"

(* The sinks it is about to queue. *)
Sinks(r) ==
  /\ rpc[r] \in Holding <=> todo[r] # {}
  /\ todo[r] \subseteq routes[target[r]]
  /\ rpc[r] \in Holding /\ op[r] = "ingest" => todo[r] \subseteq stored[target[r]]
  /\ rpc[r] = "enqueue" /\ op[r] = "release" => target[r] \in released

(* Events the detector, when it works, lets through. *)
Clean(e) == e \notin Scored \/ Judgement(e) = "received"

(* What it knows of the screening. *)
Screened(r) ==
  /\ rpc[r] \in {"score", "verdict"} => target[r] \in Scored
  /\ rpc[r] = "verdict" /\ target[r] \notin wavered => verdict[r] = Judgement(target[r])
  /\ rpc[r] = "enqueue" /\ op[r] = "ingest" /\ target[r] \notin wavered => Clean(target[r])

(* The rows of an event. *)
Queued(e) ==
  /\ HasDeliveries(e) => Stored(e) /\ evStatus[e] # "filtered"
  /\ e \notin replayed => \A c, d \in RowsOf(e) : sinkOf[c] = sinkOf[d] => c = d
  /\ e \notin released \cup replayed => \A d \in RowsOf(e) : sinkOf[d] \in stored[e]
  /\ HasDeliveries(e) /\ e \notin released \cup replayed \cup wavered => Clean(e)
  /\ evStatus[e] \in Withheld /\ e \notin released \cup wavered => ~Clean(e)

(* No producer of the event was told that it need not send it again. *)
Unanswered(e) ==
  \A r \in Request :
    target[r] = e /\ op[r] = "ingest" /\ rpc[r] = "done" => answer[r] = "error"

(* A release took it out of quarantine and will queue it, or has told its  *)
(* operator that it did not.                                               *)
InRelease(e) ==
  \E r \in Request :
    /\ target[r] = e /\ op[r] = "release"
    /\ rpc[r] = "enqueue" \/ (rpc[r] = "done" /\ answer[r] \in {"error", "no_sinks"})

(* An event that was meant to go somewhere and is queued to nothing. *)
Pending(e) ==
  e \notin unrouted /\ evStatus[e] = "received" /\ stored[e] # {} /\ ~HasDeliveries(e)

Kept(e) ==
  /\ evStatus[e] = "absent" => stored[e] = {} /\ Unanswered(e)
  /\ Pending(e) => Unanswered(e) \/ InRelease(e)

RequestInv(r) == Place(r) /\ Sinks(r) /\ Screened(r)

EventInv(e) == Queued(e) /\ Kept(e)

AInv ==
  /\ TypeOK
  /\ Down
  /\ \A r \in Request : RequestInv(r)
  /\ \A e \in Event : EventInv(e)

-----------------------------------------------------------------------------
(* The control of a request keeps its types: where it goes on, and what it *)
(* is answered.                                                            *)
RequestTypes ==
  /\ op \in [Request -> Ops]
  /\ target \in [Request -> Event]
  /\ rpc \in [Request -> Rpc]
  /\ todo \in [Request -> SUBSET Sink]
  /\ resumed \in [Request -> BOOLEAN]
  /\ verdict \in [Request -> {"received"} \cup Withheld]
  /\ answer \in [Request -> Answers]

(* Going on to another point of the code keeps the types of the memory. *)
LEMMA ProceedType ==
  ASSUME TypeOK, NEW r \in Request, NEW l \in Rpc, NEW sinks \in SUBSET Sink, Proceed(r, l, sinks)
  PROVE  RequestTypes'
BY DEF TypeOK, RequestTypes, Proceed

(* So does ending with an answer. *)
LEMMA AnswerType ==
  ASSUME TypeOK, NEW r \in Request, NEW a \in Answers, Answer(r, a)
  PROVE  RequestTypes'
BY DEF TypeOK, RequestTypes, Answer, Withheld, Rpc

(* Every step of a request keeps the types of the variables. *)
LEMMA HandleType ==
  ASSUME TypeOK, NEW r \in Request, Handle(r) \/ Redeliver(r) \/ Abort(r)
  PROVE  TypeOK'
<1> USE StoreAssumption, AdmissionAssumption
<1> DEFINE e == target[r]
<1>a. e \in Event /\ routes[e] \in SUBSET Sink /\ todo[r] \in SUBSET Sink /\ stored[e] \in SUBSET Sink
  BY DEF TypeOK
<1>b. ASSUME RequestTypes', UNCHANGED <<processVars, routes, stored, flagged>>, StoreTypeOK',
             (released \subseteq Event /\ replayed \subseteq Event)',
             (unrouted \subseteq Event /\ wavered \subseteq Event)', (aborts \in 0..MaxAborts)'
      PROVE  TypeOK'
  BY <1>b DEF TypeOK, RequestTypes
<1>c. StoreTypeOK /\ UNCHANGED <<storeVars, processVars>> => StoreTypeOK'
  BY DEF StoreTypeOK, storeVars, processVars
<1> HIDE DEF e
<1> USE DEF Rpc, Answers
<1>1. CASE Arrive(r)
  <2>1. \E l \in Rpc : Goto(r, l)
    BY <1>1 DEF Arrive, TypeOK
  <2>2. RequestTypes'
    BY <2>1, <1>a, ProceedType DEF Goto
  <2> QED
    BY <1>1, <1>b, <1>c, <2>2 DEF Arrive, ReadOnly, historyVars, TypeOK
<1>2. CASE RecordNew(r)
  <2>1. \/ \E a \in Answers : Answer(r, a) /\ UNCHANGED stored
        \/ /\ Proceed(r, AfterAdmission(e), routes[e])
           /\ stored' = [stored EXCEPT ![e] = routes[e]]
    BY <1>2 DEF RecordNew, e
  <2>2. RequestTypes'
    BY <2>1, <1>a, ProceedType, AnswerType DEF AfterAdmission
  <2>3. StoreTypeOK' /\ stored' \in [Event -> SUBSET Sink]
    BY <1>2, <2>1, <1>a
       DEF RecordNew, RecordEvent, SetEventStatus, EventStatus, TypeOK, StoreTypeOK, processVars
  <2> QED
    BY <1>2, <2>2, <2>3 DEF RecordNew, historyVars, TypeOK, RequestTypes
<1>3. CASE RecordDuplicate(r)
  BY <1>3, <1>a, <1>b, <1>c, ProceedType DEF RecordDuplicate, Goto, ReadOnly, historyVars, TypeOK
<1>4. CASE ResumeStored(r)
  BY <1>4, <1>a, <1>b, <1>c, ProceedType, AnswerType
     DEF ResumeStored, Goto, ReadOnly, historyVars, TypeOK
<1>5. CASE ResumeRows(r)
  <2> DEFINE sinks == stored[e] \cap routes[e]
  <2>1. ResumeTo(r, sinks, AfterAdmission(e))
    BY <1>5 DEF ResumeRows, e
  <2>2. RequestTypes'
    <3>1. CASE Answer(r, "deduplicated")
      BY <3>1, AnswerType
    <3>2. CASE /\ rpc' = [rpc EXCEPT ![r] = AfterAdmission(e)]
               /\ todo' = [todo EXCEPT ![r] = sinks]
               /\ resumed' = [resumed EXCEPT ![r] = TRUE]
               /\ UNCHANGED <<op, target, verdict, answer>>
      BY <3>2, <1>a DEF AfterAdmission, TypeOK, RequestTypes
    <3> QED
      BY <2>1, <3>1, <3>2 DEF ResumeTo
  <2>3. unrouted' \subseteq Event
    BY <2>1, <1>a DEF ResumeTo, TypeOK, e
  <2> QED
    BY <2>1, <2>2, <2>3, <1>b, <1>c DEF ResumeTo, TypeOK, storeVars, processVars
<1>6. CASE Score(r)
  BY <1>6 DEF Score, Verdicts, Judgement, TypeOK, StoreTypeOK,
    storeVars, processVars, historyVars, Withheld
<1>7. CASE RecordDetection(r)
  <2>1. RequestTypes'
    <3>1. verdict[r] \in Answers \/ verdict[r] = "received"
      BY DEF TypeOK, Withheld
    <3> QED
      BY <1>7, ProceedType, AnswerType, <1>a, <3>1 DEF RecordDetection, Goto
  <2>2. StoreTypeOK'
    BY <1>7 DEF RecordDetection, SetEventStatus, EventStatus, TypeOK, StoreTypeOK, WriteOnly,
       Withheld, storeVars, processVars
  <2> QED
    BY <1>7, <1>b, <2>1, <2>2 DEF RecordDetection, WriteOnly, historyVars, TypeOK
<1>8. CASE Enqueue(r)
  <2>1. RequestTypes'
    BY <1>8, AnswerType DEF Enqueue
  <2>2. StoreTypeOK'
    BY <1>8 DEF Enqueue, EnqueueFirst, InsertRows, DeliveryStatus, TypeOK, StoreTypeOK, WriteOnly,
       storeVars, processVars
  <2> QED
    BY <1>8, <1>b, <2>1, <2>2 DEF Enqueue, WriteOnly, historyVars, TypeOK
<1>9. CASE ReleaseRead(r)
  <2>1. (\E a \in Answers : Answer(r, a)) \/ Goto(r, "unhold")
    BY <1>9 DEF ReleaseRead
  <2>2. RequestTypes'
    BY <2>1, <1>a, ProceedType, AnswerType DEF Goto
  <2> QED
    BY <1>9, <1>b, <1>c, <2>2 DEF ReleaseRead, ReadOnly, historyVars, TypeOK
<1>10. CASE ReleaseEvent(r)
  <2>1. (\E a \in Answers : Answer(r, a)) \/ Proceed(r, "enqueue", routes[e])
    BY <1>10 DEF ReleaseEvent, e
  <2>2. RequestTypes'
    BY <2>1, <1>a, ProceedType, AnswerType
  <2>3. StoreTypeOK' /\ released' \subseteq Event
    BY <1>10
       DEF ReleaseEvent, SetEventStatus, EventStatus, TypeOK, StoreTypeOK, storeVars, processVars
  <2> QED
    BY <1>10, <1>b, <2>2, <2>3 DEF ReleaseEvent, TypeOK
<1>11. CASE ReplayRead(r)
  <2>1. (\E a \in Answers : Answer(r, a)) \/ Proceed(r, "insert", routes[e])
    BY <1>11 DEF ReplayRead, e
  <2>2. RequestTypes'
    BY <2>1, <1>a, ProceedType, AnswerType
  <2> QED
    BY <1>11, <1>b, <1>c, <2>2 DEF ReplayRead, ReadOnly, historyVars, TypeOK
<1>12. CASE ReplayInsert(r)
  <2>1. PICK sink \in todo[r] :
          /\ EnqueueOne(e, sink)
          /\ IF todo[r] = {sink} THEN Answer(r, "replayed")
                                 ELSE Proceed(r, "insert", todo[r] \ {sink})
    BY <1>12 DEF ReplayInsert, e
  <2>2. RequestTypes'
    <3>1. todo[r] \ {sink} \in SUBSET Sink
      BY <1>a
    <3> QED
      BY <2>1, <3>1, ProceedType, AnswerType
  <2>3. StoreTypeOK'
    BY <1>12, <2>1
       DEF ReplayInsert, EnqueueOne, InsertRows, DeliveryStatus, TypeOK, StoreTypeOK, processVars
  <2> QED
    BY <1>12, <1>a, <1>b, <2>2, <2>3 DEF ReplayInsert, TypeOK, e
<1>13. CASE ReplayRefused(r)
  BY <1>13, <1>b, <1>c, AnswerType DEF ReplayRefused, ReadOnly, historyVars, TypeOK
<1>14. CASE Redeliver(r)
  BY <1>14
     DEF Redeliver, TypeOK, StoreTypeOK, ReadOnly, storeVars, processVars, historyVars, Withheld
<1>15. CASE Abort(r)
  BY <1>15, <1>b, <1>c, AnswerType DEF Abort, TypeOK, storeVars, processVars
<1> QED
  BY <1>1, <1>2, <1>3, <1>4, <1>5, <1>6, <1>7, <1>8, <1>9, <1>10, <1>11, <1>12, <1>13, <1>14,
     <1>15 DEF Handle

(* What a step about an event may not do to what requests rely on: a known *)
(* event stays known, is not refused any more and keeps its decision, the  *)
(* histories grow, routes and texts stay.                                  *)
Steady ==
  /\ \A e \in Event : evStatus[e] # "absent" =>
       /\ evStatus'[e] # "absent" /\ stored'[e] = stored[e]
       /\ evStatus'[e] = "filtered" => evStatus[e] = "filtered"
  /\ released \subseteq released' /\ wavered \subseteq wavered'
  /\ UNCHANGED <<routes, flagged, op, target>>

Untouched(q) ==
  rpc'[q] = rpc[q] /\ todo'[q] = todo[q] /\ verdict'[q] = verdict[q] /\ answer'[q] = answer[q]

(* Every step of a request is steady and touches no other request. *)
LEMMA HandleFrame ==
  ASSUME TypeOK, NEW r \in Request, Handle(r) \/ Redeliver(r) \/ Abort(r)
  PROVE  Steady /\ \A q \in Request \ {r} : Untouched(q)
<1> USE StoreAssumption, AdmissionAssumption
<1> USE DEF TypeOK, StoreTypeOK, Steady, Untouched, Withheld, storeVars, processVars, historyVars,
        ReadOnly, WriteOnly, Answer, Goto, Proceed
<1>1. CASE Arrive(r)
  BY <1>1 DEF Arrive
<1>2. CASE RecordNew(r)
  BY <1>2 DEF RecordNew, RecordEvent, SetEventStatus
<1>3. CASE RecordDuplicate(r)
  BY <1>3 DEF RecordDuplicate
<1>4. CASE ResumeStored(r)
  BY <1>4 DEF ResumeStored
<1>5. CASE ResumeRows(r)
  BY <1>5 DEF ResumeRows, ResumeTo
<1>6. CASE Score(r)
  BY <1>6 DEF Score
<1>7. CASE RecordDetection(r)
  BY <1>7 DEF RecordDetection, SetEventStatus
<1>8. CASE Enqueue(r)
  BY <1>8 DEF Enqueue, EnqueueFirst, InsertRows
<1>9. CASE ReleaseRead(r)
  BY <1>9 DEF ReleaseRead
<1>10. CASE ReleaseEvent(r)
  BY <1>10 DEF ReleaseEvent, SetEventStatus
<1>11. CASE ReplayRead(r)
  BY <1>11 DEF ReplayRead
<1>12. CASE ReplayInsert(r)
  BY <1>12 DEF ReplayInsert, EnqueueOne, InsertRows
<1>13. CASE ReplayRefused(r)
  BY <1>13 DEF ReplayRefused
<1>14. CASE Redeliver(r)
  BY <1>14 DEF Redeliver
<1>15. CASE Abort(r)
  BY <1>15 DEF Abort
<1> QED
  BY <1>1, <1>2, <1>3, <1>4, <1>5, <1>6, <1>7, <1>8, <1>9, <1>10, <1>11, <1>12, <1>13, <1>14, <1>15
     DEF Handle

(* A steady step keeps what an untouched request relies on. *)
LEMMA UntouchedKept ==
  ASSUME AInv, TypeOK', Steady, NEW q \in Request, Untouched(q)
  PROVE  RequestInv(q)'
<1>1. target[q] \in Event /\ op' = op /\ target' = target /\ routes' = routes /\ flagged' = flagged
  BY DEF AInv, TypeOK, Steady
<1>2. Place(q)'
  BY <1>1 DEF AInv, RequestInv, Place, Holding, Steady, Untouched
<1>3. Sinks(q)'
  BY <1>1 DEF AInv, RequestInv, Place, Sinks, Steady, Untouched, Holding
<1>4. Screened(q)'
  BY <1>1 DEF AInv, RequestInv, Screened, Steady, Untouched, Clean, Judgement
<1> QED
  BY <1>2, <1>3, <1>4 DEF RequestInv

(* A step of a request keeps what all of them rely on. *)
LEMMA HandleRequests ==
  ASSUME AInv, TypeOK', NEW r \in Request, Handle(r) \/ Redeliver(r) \/ Abort(r)
  PROVE  \A q \in Request : RequestInv(q)'
<1> USE StoreAssumption, AdmissionAssumption
<1> DEFINE e == target[r]
<1>a. e \in Event /\ target'[r] = e /\ op'[r] = op[r] /\ routes' = routes /\ flagged' = flagged
  BY HandleFrame DEF AInv, TypeOK, Steady
<1>b. Steady /\ \A q \in Request \ {r} : RequestInv(q)'
  BY HandleFrame, UntouchedKept DEF AInv
<1>c. ASSUME NEW a, Answer(r, a) PROVE RequestInv(r)'
  BY <1>c, <1>a DEF AInv, TypeOK, RequestInv, Place, Sinks, Screened, Holding, Answer
<1>d. RequestInv(r) /\ rpc[r] \in Rpc /\ op[r] \in {"ingest", "release", "replay"}
  BY DEF AInv, TypeOK
<1> HIDE DEF e
<1> SUFFICES RequestInv(r)'
  BY <1>b
<1> USE <1>a, <1>d DEF AInv, TypeOK, RequestInv, Place, Sinks, Screened, Clean, Judgement, Holding
<1>1. CASE Arrive(r)
  BY <1>1 DEF Arrive, Goto, Proceed
<1>2. CASE RecordNew(r)
  <2>1. CASE \E a \in Answers : Answer(r, a)
    BY <1>c, <2>1
  <2>2. CASE /\ routes[e] # {}
             /\ RecordEvent(e, "received")
             /\ stored' = [stored EXCEPT ![e] = routes[e]]
             /\ Proceed(r, AfterAdmission(e), routes[e])
    <3>1. /\ rpc'[r] \in {"score", "enqueue"} /\ (rpc'[r] = "score" <=> e \in Scored)
          /\ todo'[r] = routes[e] /\ stored'[e] = routes[e] /\ evStatus'[e] = "received"
      <4>1. rpc'[r] = AfterAdmission(e) /\ todo'[r] = routes[e]
        BY <2>2 DEF Proceed
      <4>2. stored'[e] = routes[e] /\ evStatus'[e] = "received"
        BY <2>2 DEF RecordEvent, SetEventStatus, StoreTypeOK
      <4> QED
        BY <4>1, <4>2 DEF AfterAdmission
    <3>2. rpc[r] = "record" /\ wavered' = wavered
      BY <1>2 DEF RecordNew, historyVars
    <3> QED
      BY <2>2, <3>1, <3>2
  <2> QED
    BY <1>2, <2>1, <2>2 DEF RecordNew, Answers, e
<1>3. CASE RecordDuplicate(r)
  BY <1>3 DEF RecordDuplicate, Goto, Proceed, Stored, EventStatus, ReadOnly, storeVars, e
<1>4. CASE ResumeStored(r)
  BY <1>c, <1>4 DEF ResumeStored, Goto, Proceed, ReadOnly, storeVars, e
<1>5. CASE ResumeRows(r)
  BY <1>c, <1>5 DEF ResumeRows, ResumeTo, AfterAdmission, storeVars, e
<1>6. CASE Score(r)
  BY <1>6 DEF Score, storeVars, e
<1>7. CASE RecordDetection(r)
  <2>1. CASE \E a : Answer(r, a)
    BY <1>c, <2>1
  <2>2. CASE Goto(r, "enqueue") /\ verdict[r] = "received"
    BY <1>b, <2>2, <1>7 DEF RecordDetection, Goto, Proceed, Steady, WriteOnly, historyVars, e
  <2> QED
    BY <1>7, <2>1, <2>2 DEF RecordDetection
<1>8. CASE Enqueue(r)
  BY <1>c, <1>8 DEF Enqueue
<1>9. CASE ReleaseRead(r)
  <2>1. CASE \E a : Answer(r, a)
    BY <1>c, <2>1
  <2>2. CASE Goto(r, "unhold") /\ evStatus[e] = "quarantined"
    BY <2>2, <1>9 DEF ReleaseRead, Goto, Proceed, ReadOnly, storeVars
  <2> QED
    BY <1>9, <2>1, <2>2 DEF ReleaseRead, e
<1>10. CASE ReleaseEvent(r)
  <2>1. CASE \E a : Answer(r, a)
    BY <1>c, <2>1
  <2>2. CASE /\ routes[e] # {} /\ Proceed(r, "enqueue", routes[e])
             /\ evStatus' = [evStatus EXCEPT ![e] = "received"]
             /\ released' = released \cup {e}
    BY <2>2, <1>10 DEF ReleaseEvent, Proceed
  <2> QED
    BY <1>10, <2>1, <2>2 DEF ReleaseEvent, SetEventStatus, e
<1>11. CASE ReplayRead(r)
  <2>1. CASE \E a : Answer(r, a)
    BY <1>c, <2>1
  <2>2. CASE /\ Stored(e) /\ evStatus[e] \notin NotReplayable
             /\ routes[e] # {} /\ Proceed(r, "insert", routes[e])
    BY <2>2, <1>11 DEF ReplayRead, NotReplayable, Proceed, Stored, EventStatus, ReadOnly, storeVars
  <2> QED
    BY <1>11, <2>1, <2>2 DEF ReplayRead, e
<1>12. CASE ReplayInsert(r)
  <2>1. CASE \E a : Answer(r, a)
    BY <1>c, <2>1
  <2>2. CASE \E sink \in todo[r] : todo[r] # {sink} /\ Proceed(r, "insert", todo[r] \ {sink})
    BY <1>b, <2>2, <1>12 DEF ReplayInsert, Proceed, Steady
  <2> QED
    BY <1>12, <2>1, <2>2 DEF ReplayInsert
<1>13. CASE ReplayRefused(r)
  BY <1>c, <1>13 DEF ReplayRefused
<1>14. CASE Redeliver(r)
  BY <1>14 DEF Redeliver
<1>15. CASE Abort(r)
  BY <1>c, <1>15 DEF Abort
<1> QED
  BY <1>1, <1>2, <1>3, <1>4, <1>5, <1>6, <1>7, <1>8, <1>9, <1>10, <1>11, <1>12, <1>13, <1>14, <1>15
     DEF Handle

-----------------------------------------------------------------------------
(* Nothing changes about an event. *)
Unaffected(f) ==
  /\ evStatus'[f] = evStatus[f] /\ stored'[f] = stored[f] /\ RowsOf(f)' = RowsOf(f)
  /\ f \in released' <=> f \in released
  /\ f \in replayed' <=> f \in replayed
  /\ f \in wavered' <=> f \in wavered
  /\ f \in unrouted' <=> f \in unrouted

(* A step of a request affects no event but its own. *)
LEMMA HandleLocal ==
  ASSUME TypeOK, NEW r \in Request, Handle(r) \/ Redeliver(r) \/ Abort(r),
         NEW f \in Event \ {target[r]}
  PROVE  Unaffected(f)
<1> USE StoreAssumption, AdmissionAssumption
<1> USE DEF TypeOK, StoreTypeOK, Unaffected, RowsOf, RowExists, storeVars, processVars, historyVars,
        ReadOnly, WriteOnly, Answer, Goto, Proceed
<1>1. CASE Arrive(r)
  BY <1>1 DEF Arrive
<1>2. CASE RecordNew(r)
  BY <1>2 DEF RecordNew, RecordEvent, SetEventStatus
<1>3. CASE RecordDuplicate(r)
  BY <1>3 DEF RecordDuplicate
<1>4. CASE ResumeStored(r)
  BY <1>4 DEF ResumeStored
<1>5. CASE ResumeRows(r)
  BY <1>5 DEF ResumeRows, ResumeTo
<1>6. CASE Score(r)
  BY <1>6 DEF Score
<1>7. CASE RecordDetection(r)
  BY <1>7 DEF RecordDetection, SetEventStatus
<1>8. CASE Enqueue(r)
  BY <1>8 DEF Enqueue, EnqueueFirst, InsertRows, FreshRows
<1>9. CASE ReleaseRead(r)
  BY <1>9 DEF ReleaseRead
<1>10. CASE ReleaseEvent(r)
  BY <1>10 DEF ReleaseEvent, SetEventStatus
<1>11. CASE ReplayRead(r)
  BY <1>11 DEF ReplayRead
<1>12. CASE ReplayInsert(r)
  BY <1>12 DEF ReplayInsert, EnqueueOne, InsertRows, FreshRows
<1>13. CASE ReplayRefused(r)
  BY <1>13 DEF ReplayRefused
<1>14. CASE Redeliver(r)
  BY <1>14 DEF Redeliver
<1>15. CASE Abort(r)
  BY <1>15 DEF Abort
<1> QED
  BY <1>1, <1>2, <1>3, <1>4, <1>5, <1>6, <1>7, <1>8, <1>9, <1>10, <1>11, <1>12, <1>13, <1>14, <1>15
     DEF Handle

(* An unaffected event whose requests are untouched is as it was. *)
LEMMA UnaffectedKept ==
  ASSUME AInv, Steady, NEW f \in Event, Unaffected(f),
         \A q \in Request : target[q] = f => Untouched(q)
  PROVE  EventInv(f)'
<1>1. /\ flagged' = flagged /\ op' = op /\ target' = target
      /\ HasDeliveries(f)' <=> HasDeliveries(f)
      /\ Stored(f)' <=> Stored(f)
  BY DEF Steady, Unaffected, HasDeliveries, Stored
<1>2. Queued(f)'
  BY <1>1 DEF AInv, EventInv, Queued, Unaffected, Clean, Judgement
<1>3. Kept(f)'
  BY <1>1 DEF AInv, EventInv, Kept, Unaffected, Untouched, Pending, Unanswered, InRelease
<1> QED
  BY <1>2, <1>3 DEF EventInv

(* What the rows and the status of the event tell of each other stays true *)
(* when one of its requests takes a step.                                  *)
LEMMA HandleQueued ==
  ASSUME AInv, TypeOK', NEW r \in Request, Handle(r) \/ Redeliver(r) \/ Abort(r)
  PROVE  Queued(target[r])'
<1> USE StoreAssumption, AdmissionAssumption
<1> PICK e \in Event : e = target[r]
  BY DEF AInv, TypeOK
<1>a. target' = target /\ flagged' = flagged /\ (Clean(e)' <=> Clean(e))
  BY HandleFrame DEF AInv, TypeOK, Steady, Clean, Judgement
<1>b. Queued(e) /\ RequestInv(r) /\ op[r] \in {"ingest", "release", "replay"}
  BY <1>a DEF AInv, TypeOK, EventInv
<1>c. HasDeliveries(e)' <=> RowsOf(e)' # {}
  BY DEF HasDeliveries
<1> SUFFICES Queued(e)'
  BY <1>a
(* The tables are as they were and the exceptions no fewer. *)
<1>d. ASSUME UNCHANGED <<dlStatus, evStatus, stored>>, released \subseteq released',
             replayed \subseteq replayed', wavered \subseteq wavered'
      PROVE  Queued(e)'
  BY <1>a, <1>b, <1>d DEF Queued, RowsOf, RowExists, HasDeliveries, Stored
<1> USE <1>a, <1>b
<1>1. CASE Arrive(r)
  BY <1>1, <1>d DEF Arrive, ReadOnly, storeVars, historyVars
<1>2. CASE RecordNew(r)
  <2>1. evStatus[e] = "absent" /\ evStatus'[e] \in {"filtered", "received"} /\ UNCHANGED dlStatus
    BY <1>2 DEF RecordNew, RecordEvent, SetEventStatus, AInv, TypeOK, StoreTypeOK
  <2>2. RowsOf(e)' = {}
    BY <2>1 DEF Queued, HasDeliveries, RowsOf, RowExists, Stored, EventStatus
  <2> QED
    BY <2>1, <2>2 DEF Queued, HasDeliveries, Withheld
<1>3. CASE RecordDuplicate(r)
  BY <1>3, <1>d DEF RecordDuplicate, ReadOnly, storeVars, historyVars
<1>4. CASE ResumeStored(r)
  BY <1>4, <1>d DEF ResumeStored, ReadOnly, storeVars, historyVars
<1>5. CASE ResumeRows(r)
  BY <1>5, <1>d DEF ResumeRows, ReadOnly, storeVars, historyVars, ResumeTo
<1>6. CASE Score(r)
  BY <1>6, <1>d DEF Score, ReadOnly, storeVars, historyVars
<1>7. CASE RecordDetection(r)
  <2>1. CASE evStatus[e] # "received"
    BY <1>7, <1>d, <2>1 DEF RecordDetection, WriteOnly, historyVars, storeVars
  <2>2. CASE evStatus[e] = "received"
    <3>1. /\ evStatus'[e] = verdict[r] /\ rpc[r] = "verdict"
          /\ verdict[r] \in EventStatus \ {"filtered"}
          /\ UNCHANGED <<dlStatus, stored, released, replayed, wavered>>
      BY <1>7, <2>2
         DEF RecordDetection, SetEventStatus, WriteOnly, historyVars, AInv, TypeOK, StoreTypeOK,
             EventStatus, Withheld
    <3>2. e \notin wavered => e \in Scored /\ verdict[r] = Judgement(e)
      BY <3>1 DEF RequestInv, Screened
    <3>3. RowsOf(e)' = RowsOf(e)
      BY <3>1 DEF RowsOf, RowExists
    <3> QED
      BY <3>1, <3>2, <3>3 DEF Queued, HasDeliveries, Stored, Withheld, Clean
  <2> QED
    BY <2>1, <2>2
<1>8. CASE Enqueue(r)
  <2>1. CASE UNCHANGED storeVars
    BY <1>8, <1>d, <2>1 DEF Enqueue, WriteOnly, historyVars, storeVars
  <2>2. CASE todo[r] # {} /\ ~HasDeliveries(e) /\ evStatus[e] = "received"
    <3>1. PICK D \in FreshRows(e, todo[r]) : InsertRows(D)
      BY <1>8, <2>2 DEF Enqueue, EnqueueFirst
    <3>2. RowsOf(e)' = D
      BY <2>2, <3>1
         DEF FreshRows, InsertRows, RowsOf, RowExists, HasDeliveries, DeliveryStatus, AInv, TypeOK,
             StoreTypeOK
    <3>3. /\ evStatus' = evStatus /\ UNCHANGED <<stored, released, replayed, wavered>>
          /\ rpc[r] = "enqueue"
      BY <1>8, <3>1 DEF Enqueue, WriteOnly, historyVars, InsertRows
    <3>4. e \notin released => todo[r] \subseteq stored[e] /\ (e \notin wavered => Clean(e))
      BY <3>3 DEF RequestInv, Place, Sinks, Screened, Holding
    <3>5. /\ \A c, d \in D : sinkOf[c] = sinkOf[d] => c = d
          /\ \A d \in D : sinkOf[d] \in todo[r]
      BY DEF FreshRows
    <3> QED
      BY <2>2, <3>2, <3>3, <3>4, <3>5 DEF Queued, Withheld, Stored, EventStatus, HasDeliveries
  <2> QED
    BY <1>8, <2>1, <2>2 DEF Enqueue, EnqueueFirst
<1>9. CASE ReleaseRead(r)
  BY <1>9, <1>d DEF ReleaseRead, ReadOnly, storeVars, historyVars
<1>10. CASE ReleaseEvent(r)
  <2>1. CASE evStatus[e] # "quarantined"
    BY <1>10, <1>d, <2>1 DEF ReleaseEvent, storeVars
  <2>2. CASE evStatus[e] = "quarantined"
    <3>1. evStatus'[e] = "received" /\ e \in released' /\ UNCHANGED <<dlStatus, stored, replayed>>
      BY <1>10, <2>2 DEF ReleaseEvent, SetEventStatus, AInv, TypeOK, StoreTypeOK
    <3>2. RowsOf(e)' = RowsOf(e)
      BY <3>1 DEF RowsOf, RowExists
    <3> QED
      BY <2>2, <3>1, <3>2 DEF Queued, Stored, EventStatus, Withheld, HasDeliveries
  <2> QED
    BY <2>1, <2>2
<1>11. CASE ReplayRead(r)
  BY <1>11, <1>d DEF ReplayRead, ReadOnly, storeVars, historyVars
<1>12. CASE ReplayInsert(r)
  <2>1. PICK sink \in todo[r] : EnqueueOne(e, sink)
    BY <1>12 DEF ReplayInsert
  <2>2. evStatus' = evStatus /\ Stored(e) /\ e \in replayed' /\ UNCHANGED <<stored, released, wavered>>
    BY <1>12, <2>1 DEF ReplayInsert, EnqueueOne, InsertRows
  <2>3. evStatus[e] # "filtered"
    BY <1>12 DEF ReplayInsert, RequestInv, Place, Holding
  <2> QED
    BY <2>2, <2>3 DEF Queued, Stored
<1>13. CASE ReplayRefused(r)
  BY <1>13, <1>d DEF ReplayRefused, ReadOnly, storeVars, historyVars
<1>14. CASE Redeliver(r)
  BY <1>14, <1>d DEF Redeliver, ReadOnly, storeVars, historyVars
<1>15. CASE Abort(r)
  BY <1>15, <1>d DEF Abort, ReadOnly, storeVars, historyVars
<1> QED
  BY <1>1, <1>2, <1>3, <1>4, <1>5, <1>6, <1>7, <1>8, <1>9, <1>10, <1>11, <1>12, <1>13, <1>14, <1>15
     DEF Handle

(* No request drops its event: a step that tells a producer anything but   *)
(* an error leaves an event that needs no more from it.                    *)
LEMMA HandleKept ==
  ASSUME AInv, TypeOK', NEW r \in Request, Handle(r) \/ Redeliver(r) \/ Abort(r)
  PROVE  Kept(target[r])'
<1> USE StoreAssumption, AdmissionAssumption
<1> PICK e \in Event : e = target[r]
  BY DEF AInv, TypeOK
<1>a. /\ target' = target /\ op' = op
      /\ evStatus[e] # "absent" => evStatus'[e] # "absent" /\ stored'[e] = stored[e]
      /\ \A q \in Request \ {r} : rpc'[q] = rpc[q] /\ answer'[q] = answer[q]
  BY HandleFrame DEF AInv, TypeOK, Steady, Untouched
<1>b. Kept(e) /\ Queued(e) /\ Place(r) /\ Sinks(r) /\ op[r] \in {"ingest", "release", "replay"}
  BY DEF AInv, TypeOK, EventInv, RequestInv
<1>c. rpc[r] \in Rpc /\ rpc \in [Request -> Rpc] /\ answer \in [Request -> Answers]
  BY DEF AInv, TypeOK
<1> SUFFICES Kept(e)'
  BY <1>a
<1> DEFINE Ends(a) == rpc'[r] = "done" /\ answer'[r] = a
(* The argument for a step that makes nothing pending. *)
<1>d. ASSUME Pending(e)' => Pending(e), evStatus'[e] = "absent" => stored'[e] = {},
             Pending(e)' /\ op[r] = "ingest" /\ rpc'[r] = "done" => answer'[r] = "error",
             evStatus'[e] = "absent" /\ op[r] = "ingest" /\ rpc'[r] = "done" => answer'[r] = "error",
             Pending(e)' /\ op[r] = "release" /\ rpc[r] = "enqueue" => Ends("error"),
             op[r] = "release" => rpc[r] # "done"
      PROVE  Kept(e)'
  <2>1. Unanswered(e) /\ (Pending(e)' \/ evStatus'[e] = "absent") => Unanswered(e)'
    BY <1>a, <1>d DEF Unanswered
  <2>2. InRelease(e) /\ Pending(e)' => InRelease(e)'
    BY <1>a, <1>d DEF InRelease
  <2> QED
    BY <1>a, <1>b, <1>d, <2>1, <2>2 DEF Kept
<1>e. ASSUME UNCHANGED <<dlStatus, evStatus, stored>>, unrouted \subseteq unrouted'
      PROVE  (Pending(e)' => Pending(e)) /\ (evStatus'[e] = "absent" => stored'[e] = {})
  BY <1>b, <1>e DEF Pending, Kept, HasDeliveries, RowsOf, RowExists
<1>f. \A a : Answer(r, a) => Ends(a)
  BY <1>c DEF Answer
<1>g. \A l, sinks : Proceed(r, l, sinks) => rpc'[r] = l
  BY <1>c DEF Proceed
<1> HIDE DEF Ends
<1> USE <1>b DEF Place
<1>1. CASE Arrive(r)
  BY <1>1, <1>d, <1>e, <1>g DEF Arrive, Goto, ReadOnly, storeVars, historyVars
<1>2. CASE RecordNew(r)
  <2>1. evStatus[e] = "absent" /\ evStatus'[e] \in {"filtered", "received"}
    BY <1>2 DEF RecordNew, RecordEvent, SetEventStatus, AInv, TypeOK, StoreTypeOK
  <2>2. CASE UNCHANGED stored \/ evStatus'[e] = "filtered"
    BY <2>1, <2>2 DEF Kept, Pending
  <2>3. CASE rpc'[r] # "done"
    BY <1>a, <2>1, <2>3 DEF Kept, Unanswered
  <2> QED
    BY <1>2, <1>g, <2>2, <2>3 DEF RecordNew, AfterAdmission
<1>3. CASE RecordDuplicate(r)
  BY <1>3, <1>d, <1>e, <1>g DEF RecordDuplicate, Goto, ReadOnly, storeVars, historyVars
<1>4. CASE ResumeStored(r)
  <2>1. Ends("deduplicated") => ~Pending(e)
    BY <1>4, <1>g DEF ResumeStored, Goto, Pending, Ends
  <2> QED
    BY <1>4, <1>d, <1>e, <1>f, <1>g, <2>1
       DEF ResumeStored, Goto, ReadOnly, storeVars, historyVars, Ends
<1>5. CASE ResumeRows(r)
  <2>1. CASE HasDeliveries(e) \/ stored[e] \cap routes[e] = {}
    BY <2>1, <1>5, <1>d, <1>e DEF ResumeRows, ResumeTo, storeVars, Pending
  <2>2. CASE rpc'[r] # "done"
    BY <2>2, <1>5, <1>d, <1>e DEF ResumeRows, ResumeTo, storeVars
  <2> QED
    BY <1>5, <1>c, <2>1, <2>2 DEF ResumeRows, ResumeTo, AfterAdmission
<1>6. CASE Score(r)
  BY <1>6, <1>c, <1>d, <1>e DEF Score, storeVars
<1>7. CASE RecordDetection(r)
  <2>1. Pending(e)' => Pending(e)
    BY <1>7, <1>e DEF RecordDetection, SetEventStatus, WriteOnly, historyVars, storeVars, Pending,
       HasDeliveries, RowsOf, RowExists
  <2>2. rpc'[r] = "done" => ~Pending(e)'
    BY <1>7, <1>g
       DEF RecordDetection, SetEventStatus, WriteOnly, Goto, Pending, AInv, TypeOK, StoreTypeOK,
           storeVars
  <2>3. evStatus[e] # "absent" /\ rpc[r] = "verdict"
    BY <1>7 DEF RecordDetection
  <2> QED
    BY <1>a, <1>d, <2>1, <2>2, <2>3
<1>8. CASE Enqueue(r)
  <2>1. ~Pending(e)'
    <3>1. CASE todo[r] # {} /\ ~HasDeliveries(e) /\ evStatus[e] = "received"
      <4>1. PICK D \in FreshRows(e, todo[r]) : InsertRows(D)
        BY <1>8, <3>1 DEF Enqueue, EnqueueFirst
      <4>2. D # {} /\ D \subseteq RowsOf(e)'
        BY <3>1, <4>1
           DEF FreshRows, InsertRows, RowsOf, RowExists, DeliveryStatus, AInv, TypeOK, StoreTypeOK
      <4> QED
        BY <4>2 DEF Pending, HasDeliveries
    <3>2. CASE HasDeliveries(e) \/ evStatus[e] # "received"
      BY <1>8, <3>2 DEF Enqueue, EnqueueFirst, storeVars, Pending, HasDeliveries, RowsOf, RowExists
    <3>3. todo[r] # {}
      BY <1>8 DEF Enqueue, Sinks, Holding
    <3> QED
      BY <3>1, <3>2, <3>3
  <2>2. evStatus[e] # "absent" /\ rpc[r] = "enqueue"
    BY <1>8 DEF Enqueue
  <2> QED
    BY <1>a, <1>d, <2>1, <2>2
<1>9. CASE ReleaseRead(r)
  BY <1>9, <1>d, <1>e DEF ReleaseRead, ReadOnly, storeVars, historyVars
<1>10. CASE ReleaseEvent(r)
  <2>1. CASE evStatus[e] # "quarantined"
    BY <1>10, <1>d, <1>e, <2>1 DEF ReleaseEvent, storeVars
  <2>2. CASE evStatus[e] = "quarantined"
    <3>1. evStatus'[e] = "received"
      BY <1>10, <2>2 DEF ReleaseEvent, SetEventStatus, AInv, TypeOK, StoreTypeOK
    <3>2. rpc'[r] = "enqueue" \/ Ends("no_sinks")
      BY <1>10, <1>f, <1>g, <2>2 DEF ReleaseEvent
    <3>3. InRelease(e)'
      BY <1>a, <1>10, <3>2 DEF InRelease, ReleaseEvent, Ends
    <3> QED
      BY <3>1, <3>3 DEF Kept
  <2> QED
    BY <2>1, <2>2
<1>11. CASE ReplayRead(r)
  BY <1>11, <1>d, <1>e DEF ReplayRead, ReadOnly, storeVars, historyVars
<1>12. CASE ReplayInsert(r)
  <2>1. PICK sink \in todo[r] : EnqueueOne(e, sink)
    BY <1>12 DEF ReplayInsert
  <2>2. evStatus' = evStatus /\ evStatus[e] # "absent" /\ stored' = stored /\ unrouted' = unrouted
    BY <1>12, <2>1 DEF ReplayInsert, EnqueueOne, InsertRows
  <2>3. RowsOf(e) \subseteq RowsOf(e)'
    BY <2>1 DEF EnqueueOne, InsertRows, RowsOf, RowExists, DeliveryStatus, AInv, TypeOK, StoreTypeOK
  <2> QED
    BY <1>12, <1>d, <2>2, <2>3 DEF ReplayInsert, Pending, HasDeliveries
<1>13. CASE ReplayRefused(r)
  BY <1>13, <1>d, <1>e DEF ReplayRefused, ReadOnly, storeVars, historyVars
<1>14. CASE Redeliver(r)
  BY <1>14, <1>c, <1>d, <1>e DEF Redeliver, ReadOnly, storeVars, historyVars
<1>15. CASE Abort(r)
  BY <1>15, <1>d, <1>e, <1>f DEF Abort, storeVars, Ends
<1> QED
  BY <1>1, <1>2, <1>3, <1>4, <1>5, <1>6, <1>7, <1>8, <1>9, <1>10, <1>11, <1>12, <1>13, <1>14, <1>15
     DEF Handle

(* A step of a request keeps the invariant. *)
LEMMA HandleStep ==
  ASSUME AInv, NEW r \in Request, Handle(r) \/ Redeliver(r) \/ Abort(r)
  PROVE  AInv'
<1>1. TypeOK'
  BY HandleType DEF AInv
<1>2. Down'
  BY DEF AInv, TypeOK, Down, Handle, Arrive, RecordNew, RecordDuplicate, ResumeStored, ResumeRows,
         ResumeTo, Score, RecordDetection, Enqueue, ReleaseRead, ReleaseEvent, ReplayRead,
         ReplayInsert, ReplayRefused, Redeliver, Abort, ReadOnly, WriteOnly, processVars, Goto,
         Proceed, Answer
<1>3. \A f \in Event : EventInv(f)'
  <2> SUFFICES ASSUME NEW f \in Event PROVE EventInv(f)'
    OBVIOUS
  <2>1. CASE f = target[r]
    <3>1. target'[r] = target[r]
      BY HandleFrame DEF AInv, Steady
    <3> QED
      BY <1>1, <2>1, <3>1, HandleQueued, HandleKept DEF EventInv
  <2>2. CASE f # target[r]
    <3>1. Unaffected(f)
      BY <2>2, HandleLocal DEF AInv
    <3>2. Steady /\ \A q \in Request : target[q] = f => Untouched(q)
      BY <2>2, HandleFrame DEF AInv
    <3> QED
      BY <3>1, <3>2, UnaffectedKept
  <2> QED
    BY <2>1, <2>2
<1> QED
  BY <1>1, <1>2, <1>3, HandleRequests DEF AInv

-----------------------------------------------------------------------------
(* The steps of everyone else. *)

(* What the worker and the sweep may do to events and rows: an event whose *)
(* deliveries settle gets a final status, rows go with their event, and no *)
(* row appears.                                                            *)
Settling ==
  /\ \A f \in Event :
       \/ evStatus'[f] = evStatus[f]
       \/ Stored(f) /\ evStatus'[f] \in {"dispatched", "failed", "deleted"}
  /\ \A f \in Event : evStatus'[f] = "deleted" \/ RowsOf(f)' = RowsOf(f)
  /\ \A f \in Event : evStatus'[f] = "deleted" => RowsOf(f)' = {}
  /\ UNCHANGED <<processVars, admissionVars>>

(* The worker and the sweep keep the invariant. *)
LEMMA SettlingStep ==
  ASSUME AInv, TypeOK', Settling
  PROVE  AInv'
<1> USE StoreAssumption, AdmissionAssumption
<1>1. Steady /\ \A q \in Request : Untouched(q)
  BY DEF Settling, Steady, Untouched, Stored, EventStatus, admissionVars, requestVars, historyVars
<1>2. Down'
  BY DEF AInv, Down, Settling, processVars, admissionVars, requestVars
<1>3. ASSUME NEW f \in Event PROVE EventInv(f)'
  <2>1. UNCHANGED admissionVars /\ (Clean(f)' <=> Clean(f)) /\ EventInv(f)
    BY DEF AInv, Settling, Clean, Judgement, admissionVars
  <2>2. /\ \/ evStatus'[f] = evStatus[f]
           \/ Stored(f) /\ evStatus'[f] \in {"dispatched", "failed", "deleted"}
        /\ evStatus'[f] = "deleted" \/ RowsOf(f)' = RowsOf(f)
        /\ evStatus'[f] = "deleted" => RowsOf(f)' = {}
    BY DEF Settling
  <2>3. Queued(f)'
    BY <2>1, <2>2
       DEF EventInv, Queued, HasDeliveries, Stored, EventStatus, Withheld, admissionVars,
           historyVars
  <2>4. Kept(f)'
    BY <2>1, <2>2
       DEF EventInv, Kept, Pending, HasDeliveries, Stored, EventStatus, Unanswered, InRelease,
           admissionVars, requestVars, historyVars
  <2> QED
    BY <2>3, <2>4 DEF EventInv
<1> QED
  BY <1>1, <1>2, <1>3, UntouchedKept DEF AInv

(* Dispatched and Sweep are such steps. *)
LEMMA EnvironmentSettles ==
  ASSUME AInv, Sweep \/ \E e \in Event : Dispatched(e)
  PROVE  Settling /\ TypeOK'
<1> USE StoreAssumption, AdmissionAssumption
<1>1. ASSUME NEW e \in Event, Dispatched(e) PROVE Settling /\ TypeOK'
  <2>1. Stored(e)
    BY <1>1 DEF Dispatched, AInv, EventInv, Queued, HasDeliveries, Unsettled
  <2>2. StoreTypeOK'
    BY <1>1 DEF Dispatched, AInv, TypeOK, StoreTypeOK, EventStatus, DeliveryStatus, processVars
  <2>3. UNCHANGED <<processVars, admissionVars>>
    BY <1>1 DEF Dispatched
  <2>4. TypeOK'
    BY <2>2, <2>3 DEF AInv, TypeOK, admissionVars, requestVars, historyVars
  <2>5. \A f \in Event : evStatus'[f] = evStatus[f] \/ (f = e /\ evStatus'[f] = "dispatched")
    BY <1>1 DEF Dispatched, AInv, TypeOK, StoreTypeOK
  <2>6. \A f \in Event : RowsOf(f)' = RowsOf(f)
    BY <1>1 DEF Dispatched, RowsOf, RowExists, Unsettled, DeliveryStatus
  <2>7. \A f \in Event : evStatus[f] = "deleted" => RowsOf(f) = {}
    BY DEF AInv, EventInv, Queued, HasDeliveries, Stored, EventStatus
  <2> QED
    BY <2>1, <2>3, <2>4, <2>5, <2>6, <2>7 DEF Settling
<1>2. CASE Sweep
  <2> PICK S \in SUBSET Event \ {{}} : SweepEvents(S)
    BY <1>2 DEF Sweep
  <2>1. UNCHANGED <<processVars, admissionVars>>
    BY <1>2 DEF Sweep
  <2>2. StoreTypeOK'
    BY <2>1 DEF SweepEvents, AInv, TypeOK, StoreTypeOK, EventStatus, DeliveryStatus, processVars
  <2>3. TypeOK'
    BY <2>1, <2>2 DEF AInv, TypeOK, admissionVars, requestVars, historyVars
  <2>4. \A f \in Event : \/ f \in S /\ Stored(f) /\ evStatus'[f] = "deleted"
                         \/ f \notin S /\ evStatus'[f] = evStatus[f]
    BY DEF SweepEvents, AInv, TypeOK, StoreTypeOK
  <2>5. \A f \in Event : f \notin S => RowsOf(f)' = RowsOf(f)
    BY DEF SweepEvents, RowsOf, RowExists, DeliveryStatus
  <2>6. \A f \in Event : f \in S => RowsOf(f)' = {}
    BY DEF SweepEvents, RowsOf, RowExists, DeliveryStatus
  <2>7. \A f \in Event : evStatus[f] = "deleted" => RowsOf(f) = {}
    BY DEF AInv, EventInv, Queued, HasDeliveries, Stored, EventStatus
  <2> QED
    BY <2>1, <2>3, <2>4, <2>5, <2>6, <2>7 DEF Settling
<1> QED
  BY <1>1, <1>2

(* A crash ends every request under way with an error. *)
LEMMA DieStep ==
  ASSUME AInv, RequestsDie, UNCHANGED storeVars, up' = FALSE, crashes' \in 0..MaxCrashes
  PROVE  AInv'
<1> USE StoreAssumption, AdmissionAssumption
<1>1. TypeOK'
  BY DEF AInv, TypeOK, StoreTypeOK, RequestsDie, storeVars, historyVars, Rpc, Answers, Withheld
<1>2. Down' /\ \A q \in Request : RequestInv(q)'
  BY DEF AInv, TypeOK, Down, RequestInv, Place, Sinks, Screened, Holding, RequestsDie
<1>3. ASSUME NEW f \in Event PROVE EventInv(f)'
  <2>1. /\ UNCHANGED <<op, target, stored, flagged, historyVars>> /\ EventInv(f)
        /\ Clean(f)' <=> Clean(f)
        /\ evStatus' = evStatus /\ RowsOf(f)' = RowsOf(f)
    BY DEF AInv, RequestsDie, storeVars, RowsOf, RowExists, Clean, Judgement
  <2>2. Queued(f)'
    BY <2>1 DEF EventInv, Queued, HasDeliveries, Stored, historyVars
  <2>3. Unanswered(f) => Unanswered(f)'
    BY DEF Unanswered, RequestsDie
  <2>4. InRelease(f) => InRelease(f)'
    <3> SUFFICES ASSUME NEW r \in Request, target[r] = f, op[r] = "release",
                        rpc[r] = "enqueue" \/ (rpc[r] = "done" /\ answer[r] \in {"error", "no_sinks"})
                 PROVE  InRelease(f)'
      BY DEF InRelease
    <3> QED
      BY DEF InRelease, RequestsDie
  <2>5. Kept(f)'
    BY <2>1, <2>3, <2>4 DEF EventInv, Kept, Pending, HasDeliveries, historyVars
  <2> QED
    BY <2>2, <2>5 DEF EventInv
<1> QED
  BY <1>1, <1>2, <1>3 DEF AInv

(* A start changes routes when no request is under way, and no event or row *)
(* comes or goes.                                                          *)
LEMMA StartStep ==
  ASSUME AInv, ~up, TypeOK', LoadRoutes, evStatus' = evStatus,
         \A f \in Event : RowsOf(f)' = RowsOf(f)
  PROVE  AInv'
<1> USE StoreAssumption, AdmissionAssumption
<1>1. UNCHANGED <<stored, flagged, requestVars, historyVars>>
  BY DEF LoadRoutes
<1>2. \A q \in Request : rpc[q] \in {"free", "done"} /\ RequestInv(q)
  BY DEF AInv, Down
<1>3. Down' /\ \A q \in Request : RequestInv(q)'
  BY <1>1, <1>2 DEF RequestInv, Place, Sinks, Screened, Holding, Down, requestVars
<1>4. ASSUME NEW f \in Event PROVE EventInv(f)'
  <2>1. EventInv(f) /\ RowsOf(f)' = RowsOf(f) /\ (Clean(f)' <=> Clean(f))
    BY <1>1 DEF AInv, Clean, Judgement
  <2>2. Queued(f)'
    BY <1>1, <2>1 DEF EventInv, Queued, HasDeliveries, Stored, historyVars
  <2>3. Kept(f)'
    BY <1>1, <2>1
       DEF EventInv, Kept, Pending, HasDeliveries, Unanswered, InRelease, historyVars, requestVars
  <2> QED
    BY <2>2, <2>3 DEF EventInv
<1> QED
  BY <1>3, <1>4 DEF AInv

(* The first state satisfies it. *)
LEMMA AdmissionStarts == Init => AInv
<1> SUFFICES ASSUME Init PROVE AInv
  OBVIOUS
<1> USE StoreAssumption, AdmissionAssumption
<1> USE DEF Init, StoreInit, AdmissionInit
<1>1. StoreTypeOK
  BY DEF StoreTypeOK, EventStatus, DeliveryStatus
<1>2. routes \in [Event -> SUBSET Sink]
  BY DEF AdmissionInit
<1>3. TypeOK
  BY <1>1, <1>2 DEF TypeOK, Rpc, Answers, Withheld
<1>4. Down /\ \A r \in Request : RequestInv(r)
  BY <1>3 DEF TypeOK, Down, RequestInv, Place, Sinks, Screened, Holding
<1>5. ASSUME NEW f \in Event PROVE EventInv(f)
  BY DEF EventInv, Queued, Kept, HasDeliveries, RowsOf, RowExists, DeliveryStatus, Withheld,
         Unanswered, Pending
<1> QED
  BY <1>3, <1>4, <1>5 DEF AInv

(* AInv is an invariant: every interleaving of ingests, redeliveries,      *)
(* releases, replays, crashes and failures keeps it.                       *)
THEOREM AdmissionInvariance == Spec => []AInv
<1>1. AInv /\ [Next]_vars => AInv'
  <2> USE StoreAssumption, AdmissionAssumption
  <2> SUFFICES ASSUME AInv, [Next]_vars PROVE AInv'
    OBVIOUS
  <2>1. CASE Requests
    BY <2>1, HandleStep DEF Requests
  <2>2. CASE Crash
    <3>1. crashes \in 0..MaxCrashes /\ crashes < MaxCrashes /\ crashes' = crashes + 1
      BY <2>2 DEF Crash, ProcessDies, AInv, TypeOK, StoreTypeOK
    <3>2. crashes' \in 0..MaxCrashes
      BY <3>1
    <3> QED
      BY <2>2, <3>2, DieStep DEF Crash, ProcessDies
  <2>3. CASE Start
    <3>1. StoreTypeOK'
      BY <2>3 DEF Start, ProcessStarts, RequeueIncomplete, AInv, TypeOK, StoreTypeOK, DeliveryStatus
    <3>2. routes' \in [Event -> SUBSET Sink]
      BY <2>3 DEF Start, LoadRoutes, AInv, TypeOK
    <3>3. TypeOK'
      BY <2>3, <3>1, <3>2 DEF Start, LoadRoutes, AInv, TypeOK, requestVars, historyVars
    <3>4. \A f \in Event : RowsOf(f)' = RowsOf(f)
      BY <2>3 DEF Start, ProcessStarts, RequeueIncomplete, RowsOf, RowExists, DeliveryStatus
    <3> QED
      BY <2>3, <3>3, <3>4, StartStep DEF Start, ProcessStarts, RequeueIncomplete
  <2>4. CASE Sweep \/ \E e \in Event : Dispatched(e)
    BY <2>4, EnvironmentSettles, SettlingStep
  <2>5. CASE UNCHANGED vars
    <3>1. TypeOK'
      BY <2>5
         DEF vars, storeVars, processVars, admissionVars, requestVars, historyVars, AInv, TypeOK,
             StoreTypeOK
    <3>2. Settling
      BY <2>5
         DEF vars, storeVars, Settling, RowsOf, RowExists, AInv, EventInv, Queued, HasDeliveries,
             Stored, EventStatus
    <3> QED
      BY <3>1, <3>2, SettlingStep
  <2> QED
    BY <2>1, <2>2, <2>3, <2>4, <2>5 DEF Next
<1> QED
  BY <1>1, AdmissionStarts, PTL DEF Spec

-----------------------------------------------------------------------------
(* The properties. *)

(* The variables of Admission keep their types, and every request is at a  *)
(* point of the code.                                                      *)
THEOREM AdmissionTypes == Spec => []TypeOK
BY AdmissionInvariance, PTL DEF AInv

(* However ingests, redeliveries and releases interleave, no sink gets a   *)
(* second row of an event that was not replayed (enqueue_first_deliveries).*)
THEOREM OncePerSink == Spec => []AtMostOncePerSink
<1>1. AInv => AtMostOncePerSink
  BY DEF AInv, EventInv, Queued, AtMostOncePerSink
<1> QED
  BY <1>1, AdmissionInvariance, PTL

(* Without a release or a replay, rows are only queued for the sinks that  *)
(* were decided on when the event was stored (ingest, _resume).            *)
THEOREM Decided == Spec => []StoredDecision
<1>1. AInv => StoredDecision
  BY DEF AInv, EventInv, Queued, StoredDecision
<1> QED
  BY <1>1, AdmissionInvariance, PTL

(* What a detector that worked withheld is queued to nothing, until an     *)
(* operator releases or replays it (_screen, record_detection).            *)
THEOREM Withholding == Spec => []WithheldNeverQueued
<1>1. AInv => WithheldNeverQueued
  BY DEF AInv, EventInv, Queued, WithheldNeverQueued
<1> QED
  BY <1>1, AdmissionInvariance, PTL

(* The part of AInv that says who still has an event in hand. *)
LEMMA NotLostInState == AInv => NoSilentLoss
<1> SUFFICES ASSUME AInv, NEW e \in Event, Pending(e), ~AtWork(e)
             PROVE  \/ Unanswered(e)
                    \/ \E r \in Request :
                         target[r] = e /\ op[r] = "release" /\ answer[r] \in {"error", "no_sinks"}
  BY DEF NoSilentLoss, Pending, Unanswered
<1> QED
  BY DEF AInv, EventInv, Kept, InRelease, AtWork

(* No event that was to go somewhere is left without rows, unless whoever  *)
(* can send it again, or release it, was told so (ingest, _resume,         *)
(* release).                                                               *)
THEOREM NotLost == Spec => []NoSilentLoss
BY NotLostInState, AdmissionInvariance, PTL

(* The step of a request, of the worker or of the process under which an   *)
(* event loses a withholding verdict is release_event, from quarantine.    *)
LEMMA VerdictKept ==
  ASSUME AInv,
         \/ \E r \in Request : Handle(r) \/ Redeliver(r) \/ Abort(r)
         \/ Settling \/ UNCHANGED evStatus,
         NEW e \in Event,
         evStatus[e] \in Withheld, evStatus'[e] # evStatus[e],
         evStatus'[e] \in {"received"} \cup Withheld
  PROVE  /\ evStatus[e] = "quarantined"
         /\ \E r \in Request : target[r] = e /\ rpc[r] = "unhold" /\ rpc'[r] # "unhold"
<1>1. ~Settling
  BY DEF Settling, Withheld
<1>2. PICK r \in Request : Handle(r)
  BY <1>1 DEF Redeliver, Abort, ReadOnly, storeVars
<1>3. CASE RecordNew(r)
  BY <1>3 DEF RecordNew, RecordEvent, SetEventStatus, AInv, TypeOK, StoreTypeOK, Withheld
<1>4. CASE RecordDetection(r)
  BY <1>4 DEF RecordDetection, SetEventStatus, AInv, TypeOK, StoreTypeOK, Withheld, storeVars
<1>5. CASE ReleaseEvent(r)
  BY <1>5
     DEF ReleaseEvent, SetEventStatus, AInv, TypeOK, StoreTypeOK, Withheld, storeVars, Answer,
         Proceed
<1>6. CASE UNCHANGED evStatus
  BY <1>6
<1> QED
  BY <1>2, <1>3, <1>4, <1>5, <1>6
     DEF Handle, Arrive, RecordDuplicate, ResumeStored, ResumeRows, ResumeTo, Score, Enqueue,
         EnqueueFirst, InsertRows, ReleaseRead, ReplayRead, ReplayInsert, EnqueueOne, ReplayRefused,
         ReadOnly, storeVars

(* A verdict that withholds is final, and only release_event undoes it,    *)
(* from quarantine.                                                        *)
THEOREM Final == Spec => VerdictStands
<1>1. AInv /\ [Next]_vars =>
        [\A e \in Event :
           evStatus[e] \in Withheld /\ evStatus'[e] # evStatus[e]
                                  /\ evStatus'[e] \in {"received"} \cup Withheld
             => /\ evStatus[e] = "quarantined"
                /\ \E r \in Request : target[r] = e /\ rpc[r] = "unhold" /\ rpc'[r] # "unhold"]_vars
  <2> SUFFICES ASSUME AInv, Next
               PROVE  \/ \E r \in Request : Handle(r) \/ Redeliver(r) \/ Abort(r)
                      \/ Settling \/ UNCHANGED evStatus
    BY VerdictKept DEF vars
  <2> QED
    BY EnvironmentSettles
       DEF Next, Requests, Crash, ProcessDies, Start, ProcessStarts, RequeueIncomplete, storeVars
<1> QED
  BY <1>1, AdmissionInvariance, PTL DEF Spec, VerdictStands

(* A row that appears is one a request queued, for a sink of the current   *)
(* routes.                                                                 *)
LEMMA RowRouted ==
  ASSUME AInv,
         \/ \E r \in Request : Handle(r) \/ Redeliver(r) \/ Abort(r)
         \/ \A f \in Event : RowsOf(f)' \subseteq RowsOf(f),
         NEW d \in Delivery, dlStatus[d] = "unused", dlStatus'[d] = "pending"
  PROVE  sinkOf[d] \in routes[eventOf[d]]
<1> USE StoreAssumption
<1>1. ~ \A f \in Event : RowsOf(f)' \subseteq RowsOf(f)
  BY DEF RowsOf, RowExists, DeliveryStatus
<1>2. PICK r \in Request : Enqueue(r) \/ ReplayInsert(r)
  BY <1>1
     DEF Handle, Redeliver, Abort, ReadOnly, storeVars, Arrive, RecordNew, RecordEvent,
         RecordDuplicate, ResumeStored, ResumeRows, ResumeTo, Score, RecordDetection,
         SetEventStatus, ReleaseRead, ReleaseEvent, ReplayRead, ReplayRefused
<1>3. todo[r] \subseteq routes[target[r]]
  BY DEF AInv, RequestInv, Sinks
<1>4. eventOf[d] = target[r] /\ sinkOf[d] \in todo[r]
  <2>1. CASE Enqueue(r)
    <3>1. PICK D \in FreshRows(target[r], todo[r]) : InsertRows(D)
      BY <2>1 DEF Enqueue, EnqueueFirst, storeVars
    <3> QED
      BY <3>1 DEF InsertRows, FreshRows
  <2>2. CASE ReplayInsert(r)
    <3>1. PICK sink \in todo[r] : EnqueueOne(target[r], sink)
      BY <2>2 DEF ReplayInsert
    <3>2. PICK D \in FreshRows(target[r], {sink}) : InsertRows(D)
      BY <3>1 DEF EnqueueOne
    <3> QED
      BY <3>2 DEF InsertRows, FreshRows
  <2> QED
    BY <1>2, <2>1, <2>2
<1> QED
  BY <1>3, <1>4

(* No row appears by the worker, the sweep or the process. *)
LEMMA SettlingQueuesNothing ==
  ASSUME AInv, Settling
  PROVE  \A f \in Event : RowsOf(f)' \subseteq RowsOf(f)
BY DEF Settling

(* A row is only queued for a sink the current configuration routes the    *)
(* event to (ingest, _resume, release, replay).                            *)
THEOREM Routed == Spec => CurrentRoutes
<1>1. AInv /\ [Next]_vars =>
        [\A d \in Delivery :
           dlStatus[d] = "unused" /\ dlStatus'[d] = "pending" => sinkOf[d] \in routes[eventOf[d]]]_vars
  <2> SUFFICES ASSUME AInv, Next
               PROVE  \/ \E r \in Request : Handle(r) \/ Redeliver(r) \/ Abort(r)
                      \/ \A f \in Event : RowsOf(f)' \subseteq RowsOf(f)
    BY RowRouted DEF vars
  <2>1. CASE Crash \/ Start
    BY <2>1
       DEF Crash, ProcessDies, Start, ProcessStarts, RequeueIncomplete, storeVars, RowsOf,
           RowExists, DeliveryStatus
  <2> QED
    BY <2>1, EnvironmentSettles, SettlingQueuesNothing DEF Next, Requests
<1> QED
  BY <1>1, AdmissionInvariance, PTL DEF Spec, CurrentRoutes
=============================================================================
