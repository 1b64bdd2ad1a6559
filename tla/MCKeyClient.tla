---------------------------- MODULE MCKeyClient ----------------------------
(* Small instance of KeyClient for TLC. *)
EXTENDS KeyClient
=============================================================================
