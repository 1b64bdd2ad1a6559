----------------------------- MODULE MCMailbox -----------------------------
EXTENDS Mailbox, TLC

CONSTANTS Ann, Bob, k1, k2, k3

(* Ann may rotate between two keys; Bob keeps the one he has.              *)
Rotating == (Ann :> {k1, k2}) @@ (Bob :> {k3})
Enrolled == (Ann :> k1) @@ (Bob :> k3)

OneDay == {1}
=============================================================================
