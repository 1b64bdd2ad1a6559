---------------------------- MODULE MCAuthority ----------------------------
(* Constants of the Authority run. *)
EXTENDS Authority

CONSTANTS g1, m1, x1
MCRoute1 == [i \in {m1, x1} |-> g1]
=============================================================================
