----------------------------- MODULE MCDispatch -----------------------------
(* Small instances of Dispatch: two deliveries of one event, which a first *)
(* dispatch queues together or a replay queues one after the other.        *)
EXTENDS Dispatch

MCEvent == {"e1"}
MCSink == {"s1", "s2"}
MCFirstRows == {<<"e1", "s1", 1>>, <<"e1", "s2", 1>>}
MCEventOf == [d \in Delivery |-> d[1]]
MCSinkOf == [d \in Delivery |-> d[2]]

MCNoSink == {}
MCSecondSink == {"s2"}
=============================================================================
