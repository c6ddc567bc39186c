----------------------------- MODULE MCHandoff ------------------------------
(* A small instance of Handoff: two conversations of plain records. *)
EXTENDS Handoff

Spoken == {[id |-> None, role |-> "user", text |-> 1]}
=============================================================================
