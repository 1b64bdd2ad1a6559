---------------------------- MODULE MCEnrollment ----------------------------
(* Two requests at a time, two keys and one inviter; bob is reserved for k1, and may be configured and dropped. *)
EXTENDS Enrollment, TLC
CONSTANTS k1, k2, host, bob, bob1, guest
MCFallback == [n \in Wanted |-> {bob1}]
MCReserved == [n \in {bob} |-> k1]
Line(n, k) == [name |-> n, key |-> k]
Dropped == {<<>>, <<Line(bob, None)>>}

\* Two bounds.  The invite is minted at the start of the clock, so that it can lapse;
\* and a handshake link and a challenge of the open gate, which no handshake redeem
\* takes where invites are a gate, are not in one behaviour.
MintedEarly == \A i \in Invites : invites[i] = None /\ invites'[i] # None => now = 0
LinksApart ==
    \/ \A i \in Invites : invites'[i] # None => ~invites'[i].gh
    \/ \A c \in Nonces : challenges'[c] # None => challenges'[c].kind # "open"
Bounded == MintedEarly /\ LinksApart

Alike == Permutations(Threads) \cup Permutations(Nonces) \cup Permutations(Invites)
=============================================================================
