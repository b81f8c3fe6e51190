----------------------------- MODULE MCDoorman -----------------------------
(* A small instance of Doorman: two requests about one event for two       *)
(* sinks, each of which gets its row from a first dispatch or a replay.    *)
EXTENDS Doorman

CONSTANTS r1, r2

MCEvent == {"e1"}
MCSink == {"s1", "s2"}
MCRows == {<<"e1", "s1", 1>>, <<"e1", "s2", 1>>}
MCEventOf == [d \in Delivery |-> d[1]]
MCSinkOf == [d \in Delivery |-> d[2]]
MCNoSink == {}
MCAllOps == {"ingest", "release", "replay"}

(* Without an ingest no event is ever stored, and requests are alike: let  *)
(* the first be one.                                                       *)
MCIngestFirst == Init /\ op[r1] = "ingest"
MCIngestSpec == MCIngestFirst /\ [][Next]_vars /\ Fairness
=============================================================================
