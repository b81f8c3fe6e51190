------------------------------ MODULE MCSchema ------------------------------
(* A small instance of Schema: two ids to draw from. *)
EXTENDS Schema

MCInstallId == {"id1", "id2"}
=============================================================================
