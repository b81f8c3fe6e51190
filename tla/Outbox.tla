------------------------------- MODULE Outbox -------------------------------
(***************************************************************************)
(* What the engine promises an operator about what it stores and sends,    *)
(* without its tasks, statements and restarts: every event has a fate and  *)
(* every delivery a ticket, and each change of either is one step.         *)
(*                                                                         *)
(* Dispatch implements this module.  A crash of the process, the claim of  *)
(* a delivery and all the bookkeeping in between are steps that change     *)
(* nothing here.                                                           *)
(***************************************************************************)
EXTENDS Naturals

CONSTANTS Event, Delivery, eventOf

VARIABLES
  fate,      \* what the store says of the event
  ticket,    \* what it says of the delivery
  accepted,  \* deliveries a sink answered with success
  letters,   \* entries of the delivery in the dead-letter list
  trouble    \* some statement of the store has failed

outbox == <<fate, ticket, accepted, letters, trouble>>

Open == {"received", "filtered", "quarantined", "dropped"}

Concluded == {"dispatched", "failed"}

Kept(e) == fate[e] \in Open \cup Concluded

Of(e) == {d \in Delivery : eventOf[d] = e}

Init ==
  /\ fate = [e \in Event |-> "absent"]
  /\ ticket = [d \in Delivery |-> "unused"]
  /\ accepted = {}
  /\ letters = [d \in Delivery |-> 0]
  /\ trouble = FALSE

(* A new event, or a verdict about one that is not concluded. *)
Decide(e) ==
  /\ \/ fate[e] = "absent" /\ fate' \in {[fate EXCEPT ![e] = s] : s \in {"received", "filtered"}}
     \/ /\ fate[e] = "received"
        /\ fate' \in {[fate EXCEPT ![e] = s] : s \in {"quarantined", "dropped"}}
     \/ fate[e] = "quarantined" /\ fate' = [fate EXCEPT ![e] = "received"]
  /\ UNCHANGED <<ticket, accepted, letters, trouble>>

(* Deliveries become owed, and only for an event that is kept. *)
Queue(D) ==
  /\ \A d \in D : ticket[d] = "unused" /\ Kept(eventOf[d])
  /\ ticket' = [d \in Delivery |-> IF d \in D THEN "owed" ELSE ticket[d]]
  /\ UNCHANGED <<fate, accepted, letters, trouble>>

(* A sink takes what is owed. *)
Take(d) ==
  /\ ticket[d] = "owed"
  /\ accepted' = accepted \cup {d}
  /\ UNCHANGED <<fate, ticket, letters, trouble>>

Done(d) ==
  /\ ticket[d] = "owed" /\ d \in accepted
  /\ ticket' = [ticket EXCEPT ![d] = "delivered"]
  /\ UNCHANGED <<fate, accepted, letters, trouble>>

(* Given up.  What was delivered is given up only after a failed statement.*)
GiveUp(d) ==
  /\ ticket[d] = "owed" \/ (ticket[d] = "delivered" /\ trouble)
  /\ ticket' = [ticket EXCEPT ![d] = "exhausted"]
  /\ UNCHANGED <<fate, accepted, letters, trouble>>

(* Shown to the operator: once, and again only after a failed statement. *)
Bury(d) ==
  /\ ticket[d] = "exhausted"
  /\ letters[d] = 0 \/ trouble
  /\ letters' = [letters EXCEPT ![d] = @ + 1]
  /\ UNCHANGED <<fate, ticket, accepted, trouble>>

(* The status of an event is never better than its deliveries: dispatched   *)
(* needs one that a sink took and none that was given up, failed one that   *)
(* was.                                                                     *)
Conclude(e) ==
  /\ Kept(e)
  /\ \/ /\ \E d \in Of(e) : d \in accepted
        /\ \A d \in Of(e) : ticket[d] # "exhausted"
        /\ fate' = [fate EXCEPT ![e] = "dispatched"]
     \/ /\ \E d \in Of(e) : ticket[d] = "exhausted"
        /\ fate' = [fate EXCEPT ![e] = "failed"]
  /\ UNCHANGED <<ticket, accepted, letters, trouble>>

(* Retention: events with nothing owed, and entries of the dead letters. *)
Forget(S) ==
  /\ \A e \in S : Kept(e) /\ \A d \in Of(e) : ticket[d] # "owed"
  /\ fate' = [e \in Event |-> IF e \in S THEN "deleted" ELSE fate[e]]
  /\ ticket' = [d \in Delivery |-> IF eventOf[d] \in S /\ ticket[d] # "unused"
                                     THEN "deleted" ELSE ticket[d]]
  /\ letters' = [d \in Delivery |-> IF eventOf[d] \in S THEN 0 ELSE letters[d]]
  /\ UNCHANGED <<accepted, trouble>>

Shred(D) ==
  /\ \A d \in D : letters[d] > 0
  /\ letters' = [d \in Delivery |-> IF d \in D THEN letters[d] - 1 ELSE letters[d]]
  /\ UNCHANGED <<fate, ticket, accepted, trouble>>

Trouble == trouble' = TRUE /\ UNCHANGED <<fate, ticket, accepted, letters>>

Next ==
  \/ \E e \in Event : Decide(e) \/ Conclude(e)
  \/ \E d \in Delivery : Take(d) \/ Done(d) \/ GiveUp(d) \/ Bury(d)
  \/ \E D \in SUBSET Delivery : Queue(D) \/ Shred(D)
  \/ \E S \in SUBSET Event : Forget(S)
  \/ Trouble

Spec == Init /\ [][Next]_outbox
=============================================================================
