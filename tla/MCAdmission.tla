---------------------------- MODULE MCAdmission ----------------------------
(* Small instances of Admission: one event, two sinks, up to three         *)
(* requests about it at a time.  Requests are model values and symmetric   *)
(* where only safety is checked.                                           *)
EXTENDS Admission, TLC

CONSTANTS r1, r2, r3

MCEvent == {"e1"}
MCSink == {"s1", "s2"}
MCFirstRows == {<<"e1", "s1", 1>>, <<"e1", "s2", 1>>}
MCRows == MCFirstRows \cup {<<"e1", "s1", 2>>, <<"e1", "s2", 2>>}
MCEventOf == [d \in Delivery |-> d[1]]
MCSinkOf == [d \in Delivery |-> d[2]]

MCAllOps == {"ingest", "release", "replay"}
MCIngestRelease == {"ingest", "release"}
MCIngestReplay == {"ingest", "replay"}

Symmetry == Permutations(Request)
=============================================================================
