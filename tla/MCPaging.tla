------------------------------ MODULE MCPaging ------------------------------
(* Small instances of Paging: limits a caller may send, in range and not. *)
EXTENDS Paging

MCLimits == {-1, 0, 1, 2, 5}
=============================================================================
