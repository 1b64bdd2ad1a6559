---------------------------- MODULE MCFederation ----------------------------
(* The run of Federation: one message id, which clients may use again. *)
EXTENDS Federation

CONSTANT m1
=============================================================================
