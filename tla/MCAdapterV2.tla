---------------------------- MODULE MCAdapterV2 ----------------------------
(* Snapshots of the Cns and AdapterV2 runs: two agents and the changes the *)
(* contract speaks of: rotation, rewrite, rollback, new owner, omission, a *)
(* forged one and one that went stale.                                     *)
EXTENDS AdapterV2, TLC

CONSTANTS alice, bob, op, thief, home, moved, m1, x1

R(i, p, o, g, b) == [identity |-> i, peer |-> p, owner |-> o, gen |-> g, binding |-> b]
A1 == R(alice, 1, op, 1, home)
A2 == R(alice, 1, op, 2, moved)
B1 == R(bob, 2, op, 1, home)
B2 == R(bob, 2, op, 2, moved)
S(n, routes) ==
    [issuer |-> op, seq |-> n, issued |-> 0, expires |-> 2, routes |-> routes]

Good == {S(1, {A1, B1}), S(1, {A1}), S(2, {A1, B2}), S(3, {A2, B2})}
Bad ==
    {S(2, {A1, R(bob, 2, op, 1, moved)}), S(3, {A2, B1}), S(3, {A1, R(bob, 2, thief, 2, home)}),
     [S(3, {A1}) EXCEPT !.issuer = thief], [S(3, {B2}) EXCEPT !.expires = 1]}
MCSnapshots == Good \cup Bad
Alike == Permutations(Loaders)

MCCtx == [m \in {m1, x1} |->
    IF m = m1 THEN [from |-> A1, to |-> B2] ELSE [from |-> B1, to |-> A1]]
=============================================================================
