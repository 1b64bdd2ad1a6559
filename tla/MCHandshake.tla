---------------------------- MODULE MCHandshake ----------------------------
EXTENDS Handshake, TLC

(* Identities are ordered, so they are numbers; invitation ids are not.    *)
Links == Permutations(Link)

TwoDays == {2}

(* Two instances in one run.  In a duel two identities mint an invitation  *)
(* of one use each and go through two ceremonies; in a race the other two  *)
(* compete for the one invitation of the first: for its last use, or its   *)
(* claim.                                                                  *)
Minted == {l \in Link : invites[l].kind # "unminted"}
Duel ==
  /\ \A l \in Minted :
       /\ invites[l].maxUses = 1
       /\ {invites[l].inviter, invites[l].target, invites[l].claimed} \subseteq {1, 2, NoIdent}
  /\ \A q \in redeems : q.by \in {1, 2}
  /\ \A m \in msgs : m.op = "accept" /\ m.enc = NoEnc
  /\ \A p \in Pair \ {<<1, 2>>} : round[p] = 0
Race == Cardinality(Minted) <= 1 /\ \A l \in Minted : invites[l].inviter = 1
DuelOrRace == Duel' \/ Race'
=============================================================================
