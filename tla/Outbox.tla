------------------------------- MODULE Outbox -------------------------------
(***************************************************************************)
(* What cross-home forwarding promises about one message id, whatever the  *)
(* network, the clocks and the crashes of two relays do: it is delivered   *)
(* only if the destination has stored it, a refusal and a delivery are     *)
(* final, and an id is forgotten only after it came to an end.             *)
(***************************************************************************)
CONSTANT Msgs

VARIABLES
    phase,      \* "none", "pending", "delivered", "refused", "expired"
    lodged      \* ids the destination has stored at some time

outboxVars == <<phase, lodged>>

OutboxInit == phase = [m \in Msgs |-> "none"] /\ lodged = {}

Moves(m, from, to) ==
    /\ phase[m] \in from
    /\ phase' = [phase EXCEPT ![m] = to]
    /\ UNCHANGED lodged

Accept(m) == Moves(m, {"none"}, "pending")
Deliver(m) == m \in lodged /\ Moves(m, {"pending", "expired"}, "delivered")
Refuse(m) == Moves(m, {"pending", "expired"}, "refused")
\* An attempt that outlived the expiry puts the message back for another look.
Requeue(m) == Moves(m, {"expired"}, "pending")

Lodge(m) ==
    /\ lodged' = lodged \cup {m}
    /\ UNCHANGED phase

\* Hygiene ends and forgets any number of messages at once.
Expire ==
    /\ phase' \in [Msgs -> {"none", "pending", "delivered", "refused", "expired"}]
    /\ \A m \in Msgs : phase'[m] # phase[m] =>
           \/ phase[m] = "pending" /\ phase'[m] \in {"expired", "none"}
           \/ phase[m] \in {"delivered", "refused", "expired"} /\ phase'[m] = "none"
    /\ UNCHANGED lodged

OutboxNext ==
    \/ \E m \in Msgs : Accept(m) \/ Deliver(m) \/ Refuse(m) \/ Requeue(m) \/ Lodge(m)
    \/ Expire

OutboxSpec == OutboxInit /\ [][OutboxNext]_outboxVars

-----------------------------------------------------------------------------
\* A receipt that says delivered is true of the other home.
DeliveredWasLodged == \A m \in Msgs : phase[m] = "delivered" => m \in lodged

\* What a receipt said last, delivered or refused, it never takes back: the id keeps
\* that end until it is forgotten.
EndsAreFinal ==
    [][\A m \in Msgs :
         phase[m] \in {"delivered", "refused"} => phase'[m] \in {phase[m], "none"}]_outboxVars

=============================================================================
