----------------------------- MODULE MCOnboard -----------------------------
(* Small instance of Onboard for TLC: the commands an operator may run.    *)
EXTENDS Onboard

CONSTANT Ann
Command(kind, want, full) == [kind |-> kind, want |-> want, full |-> full]
Plain == Command("enroll", None, None)
Mixed == {Plain, Command("enroll", Ann, None), Command("redeem", None, None),
          Command("handshake", Ann, None), Command("private", Ann, None)}
OnlyPlain == {Plain}
FullPin == {Command("redeem", None, 1)}   \* an invitation that carries the full key of the relay
=============================================================================
