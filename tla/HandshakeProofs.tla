-------------------------- MODULE HandshakeProofs --------------------------
(***************************************************************************)
(* Handshake for every set of identities and invitations: types, consent   *)
(* and the refinement of Consent, invitations, encryption slots; and, in   *)
(* ClientMail, what the clients of a pair make of its slots.               *)
(***************************************************************************)
EXTENDS Handshake, TLAPS, FiniteSetTheorems, SequenceTheorems

-----------------------------------------------------------------------------
(* The pair of two different identities, in whatever order they are named. *)
LEMMA PairOfParties ==
  ASSUME NEW x \in Ident, NEW y \in Ident, x # y
  PROVE  PairOf(x, y) \in Pair /\ x \in Parties(PairOf(x, y))
           /\ Other(PairOf(x, y), x) = y /\ Other(PairOf(x, y), y) = x
BY HandshakeAssumption DEF PairOf, Pair, Parties, Other

(* Capability is the conjunction of two flags.                             *)
LEMMA BothFlags == \A m, r \in Enc : m * r \in Enc
<1> SUFFICES ASSUME NEW m \in Enc, NEW r \in Enc PROVE m * r \in Enc
  OBVIOUS
<1> CASE m = 0
  BY DEF Enc
<1> CASE m = 1
  BY DEF Enc
<1> QED BY DEF Enc

-----------------------------------------------------------------------------
(* The inductive invariant.  An invitation in use has an inviter, and that *)
(* inviter is not the identity redeeming it.                               *)
Minted(l) == invites[l].kind # "unminted"

InvitersKnown ==
  /\ \A l \in Link : Minted(l) => invites[l].inviter \in Ident
  /\ \A q \in redeems : Minted(q.link) /\ invites[q.link].inviter # q.by

LEMMA RedeemPairTyped ==
  ASSUME TypeOK, InvitersKnown, NEW q \in redeems
  PROVE  RedeemPair(q) \in Pair /\ q.link \in Link /\ q.by \in Ident
           /\ invites[q.link].inviter \in Parties(RedeemPair(q))
           /\ Other(RedeemPair(q), invites[q.link].inviter) = q.by
BY PairOfParties DEF TypeOK, InvitersKnown, RedeemPair, RedeemReq

(* Consuming or claiming an invitation keeps its kind and its inviter.     *)
LEMMA ClaimTyped ==
  ASSUME NEW i \in InviteRow, NEW x \in Ident
  PROVE  /\ Consumed(i) \in InviteRow /\ Claimed(i, x) \in InviteRow
         /\ Consumed(i).kind = i.kind /\ Consumed(i).inviter = i.inviter
         /\ Claimed(i, x).kind = i.kind /\ Claimed(i, x).inviter = i.inviter
<1>1. Consumed(i) \in InviteRow /\ Consumed(i).kind = i.kind /\ Consumed(i).inviter = i.inviter
  BY DEF Consumed, InviteRow
<1> DEFINE c == Consumed(i)
<1> HIDE DEF c
<1>2. [c EXCEPT !.claimed = x, !.target = x] \in InviteRow
        /\ [c EXCEPT !.claimed = x, !.target = x].kind = c.kind
        /\ [c EXCEPT !.claimed = x, !.target = x].inviter = c.inviter
  BY <1>1 DEF InviteRow, c
<1> QED BY <1>1, <1>2 DEF Claimed, c

(* Advertising a flag keeps a row's type.                                  *)
LEMMA WithAdTyped ==
  ASSUME TypeOK, NEW p \in Pair, NEW x \in Ident, NEW e \in Enc
  PROVE  WithAd(p, x, e) \in HsRow
<1> DEFINE m == IF Slot(p, x) = "minter" THEN e ELSE hs[p].minterEnc
           r == IF Slot(p, x) = "redeemer" THEN e ELSE hs[p].redeemerEnc
<1>1. hs[p] \in HsRow /\ m \in Enc /\ r \in Enc
  BY DEF TypeOK, HsRow
<1>2. m * r \in Enc
  BY <1>1, BothFlags
<1> HIDE DEF m, r
<1>3. [hs[p] EXCEPT !.minterEnc = m, !.redeemerEnc = r, !.capable = m * r] \in HsRow
  BY <1>1, <1>2 DEF HsRow
<1> QED BY <1>3 DEF WithAd, m, r

LEMMA TypeStep ==
  TypeOK /\ InvitersKnown /\ [Next]_vars => TypeOK' /\ InvitersKnown'
<1> SUFFICES ASSUME TypeOK, InvitersKnown, [Next]_vars
             PROVE  TypeOK' /\ InvitersKnown'
  OBVIOUS
<1> USE HandshakeAssumption DEF rowVars, history
<1>1. CASE Tick
  BY <1>1 DEF Tick, TypeOK, InvitersKnown, Minted
<1>2. ASSUME NEW x \in Ident, NEW l \in Link, NEW kind \in Offers, NEW life \in Lives,
             NEW uses \in 1..MaxUses, NEW enc \in EncVs, NEW target \in Ident \union {NoIdent},
             Mint(x, l, kind, life, uses, enc, target)
      PROVE  TypeOK' /\ InvitersKnown'
  <2> DEFINE row == [kind |-> kind, inviter |-> x, exp |-> now + life, uses |-> 0,
                     maxUses |-> uses, revoked |-> FALSE, enc |-> enc,
                     target |-> target, claimed |-> NoIdent]
  <2>1. row \in InviteRow
    BY <1>2 DEF TypeOK, InviteRow, Kinds, Enc
  <2>2. invites[l].kind = "unminted" /\ invites' = [invites EXCEPT ![l] = row]
    BY <1>2 DEF Mint
  <2>3. TypeOK'
    BY <1>2, <2>1, <2>2 DEF Mint, TypeOK
  <2>4. row.inviter = x /\ row.kind # "unminted"
    BY DEF Kinds
  <2>5. InvitersKnown'
    BY <1>2, <2>2, <2>4 DEF Mint, TypeOK, InvitersKnown, Minted, RedeemReq
  <2> QED BY <2>3, <2>5
<1>3. ASSUME NEW l \in Link, RevokeInvite(l) PROVE TypeOK' /\ InvitersKnown'
  <2> DEFINE row == [invites[l] EXCEPT !.revoked = TRUE]
  <2>1. row \in InviteRow /\ row.kind = invites[l].kind /\ row.inviter = invites[l].inviter
    <3>1. invites[l] \in InviteRow
      BY DEF TypeOK
    <3> QED BY <3>1 DEF InviteRow
  <2>2. invites' = [invites EXCEPT ![l] = row]
    BY <1>3 DEF RevokeInvite
  <2> HIDE DEF row
  <2>3. TypeOK'
    BY <1>3, <2>1, <2>2 DEF RevokeInvite, TypeOK
  <2>4. InvitersKnown'
    BY <1>3, <2>1, <2>2 DEF RevokeInvite, TypeOK, InvitersKnown, Minted, RedeemReq
  <2> QED BY <2>3, <2>4
<1>4. ASSUME NEW x \in Ident, NEW l \in Link, RedeemCheck(x, l)
      PROVE  TypeOK' /\ InvitersKnown'
  BY <1>4 DEF RedeemCheck, TypeOK, InvitersKnown, Minted, RedeemReq
<1>5. ASSUME NEW q \in redeems, RedeemRepeat(q) PROVE TypeOK' /\ InvitersKnown'
  <2>1. AfterClaim(q) \in InviteRow /\ AfterClaim(q).kind = invites[q.link].kind
          /\ AfterClaim(q).inviter = invites[q.link].inviter
    <3>1. invites[q.link] \in InviteRow /\ q.by \in Ident
      BY RedeemPairTyped DEF TypeOK
    <3> QED BY <3>1, ClaimTyped DEF AfterClaim
  <2>2. invites' \in [Link -> InviteRow] /\ InvitersKnown'
    BY <1>5, <2>1, RedeemPairTyped
    DEF RedeemRepeat, TypeOK, InvitersKnown, Minted, RedeemReq
  <2>3. hs' \in [Pair -> HsRow] /\ ad' \in [Pair -> [Ident -> Enc]]
    <3>1. invites[q.link].inviter \in Ident
      BY RedeemPairTyped DEF InvitersKnown
    <3>2. WithAd(RedeemPair(q), invites[q.link].inviter, 1) \in HsRow
      BY <3>1, RedeemPairTyped, WithAdTyped DEF Enc
    <3> DEFINE p == RedeemPair(q)
               x == invites[q.link].inviter
    <3>3. p \in Pair /\ 1 \in Enc
      BY RedeemPairTyped DEF Enc
    <3>4. CASE Upgrades(q)
      <4>1. hs' = [hs EXCEPT ![p] = WithAd(p, x, 1)] /\ ad' = [ad EXCEPT ![p][x] = 1]
        BY <1>5, <3>4 DEF RedeemRepeat
      <4> HIDE DEF p, x
      <4> QED BY <3>1, <3>2, <3>3, <4>1 DEF TypeOK, p, x
    <3>5. CASE ~Upgrades(q)
      BY <1>5, <3>5 DEF RedeemRepeat, TypeOK
    <3> QED BY <3>4, <3>5
  <2> QED BY <1>5, <2>2, <2>3 DEF RedeemRepeat, TypeOK
<1>6. ASSUME NEW q \in redeems, RedeemOpen(q) PROVE TypeOK' /\ InvitersKnown'
  <2> DEFINE p == RedeemPair(q)
             i == invites[q.link]
             opened == [status |-> "pending", redeemer |-> q.by, via |-> q.link,
                        gen |-> NextGen(q),
                        pendingExp |-> IF i.kind = "legacy" THEN now + PendingWindow
                                       ELSE Least(i.exp, now + PendingWindow),
                        exp |-> IF HsExpiry > 0 THEN now + HsExpiry ELSE 0,
                        minterEnc |-> i.enc, redeemerEnc |-> 0, capable |-> 0,
                        prov |-> "ceremony"]
             row == IF i.kind = "short" THEN AfterClaim(q) ELSE Consumed(i)
  <2>1. p \in Pair /\ q.link \in Link /\ q.by \in Ident /\ i \in InviteRow /\ hs[p] \in HsRow
    BY RedeemPairTyped DEF TypeOK
  <2>2. row \in InviteRow /\ row.kind = i.kind /\ row.inviter = i.inviter
    BY <2>1, ClaimTyped DEF AfterClaim
  <2>3. opened \in HsRow
    <3>1. NextGen(q) \in Nat
      BY <2>1 DEF NextGen, HsRow
    <3>2. Least(i.exp, now + PendingWindow) \in Nat /\ now + PendingWindow \in Nat
            /\ now + HsExpiry \in Nat
      BY <2>1 DEF Least, InviteRow, TypeOK
    <3>3. i.enc \in Enc
      BY <2>1 DEF InviteRow
    <3> QED BY <2>1, <3>1, <3>2, <3>3 DEF HsRow, Enc
  <2>4. invites' = [invites EXCEPT ![q.link] = row] /\ hs' = [hs EXCEPT ![p] = opened]
    BY <1>6 DEF RedeemOpen
  <2>5. invites' \in [Link -> InviteRow] /\ InvitersKnown'
    BY <1>6, <2>1, <2>2, <2>4 DEF RedeemOpen, TypeOK, InvitersKnown, Minted, RedeemReq
  <2>6. hs' \in [Pair -> HsRow]
    BY <2>1, <2>3, <2>4 DEF TypeOK
  <2>7. ad' \in [Pair -> [Ident -> Enc]]
    <3>1. [x \in Ident |-> IF x = i.inviter THEN i.enc ELSE 0] \in [Ident -> Enc]
      BY <2>1 DEF InviteRow, Enc
    <3> QED BY <1>6, <2>1, <3>1 DEF RedeemOpen, TypeOK
  <2>8. round[p] \in Nat
    BY <2>1 DEF TypeOK
  <2>9. ended' \subseteq (Pair \X Nat) /\ round' \in [Pair -> Nat]
    BY <1>6, <2>1, <2>8 DEF RedeemOpen, TypeOK
  <2> QED BY <1>6, <2>5, <2>6, <2>7, <2>9 DEF RedeemOpen, TypeOK
<1>7. ASSUME NEW q \in redeems, RedeemRefuse(q) PROVE TypeOK' /\ InvitersKnown'
  BY <1>7 DEF RedeemRefuse, TypeOK, InvitersKnown, Minted
<1>8. ASSUME NEW op \in {"accept", "advertise"}, NEW x \in Ident, NEW p \in Pair,
             NEW e \in EncVs \union {NoEnc}, Request(op, x, p, e)
      PROVE  TypeOK' /\ InvitersKnown'
  <2>1. hs[p].gen \in Nat /\ ShownRound(p) \in Nat
    BY DEF TypeOK, HsRow, ShownRound
  <2>2. [op |-> op, by |-> x, pair |-> p, gen |-> hs[p].gen, enc |-> e,
         round |-> ShownRound(p)] \in Msg
    BY <2>1 DEF Msg, Enc
  <2> QED BY <1>8, <2>2 DEF Request, TypeOK, InvitersKnown, Minted
<1>9. ASSUME NEW m \in msgs, Accept(m) PROVE TypeOK' /\ InvitersKnown'
  <2> DEFINE p == m.pair
             e == IF m.enc = NoEnc THEN 0 ELSE m.enc
  <2>1. p \in Pair /\ m.by \in Ident /\ e \in Enc /\ m.round \in Nat /\ hs[p] \in HsRow
    BY DEF TypeOK, Msg, Enc
  <2>2. hs[p].minterEnc * e \in Enc
    BY <2>1, BothFlags DEF HsRow
  <2> HIDE DEF e
  <2>3. [hs[p] EXCEPT !.status = "active", !.pendingExp = 0, !.redeemer = NoIdent,
                      !.redeemerEnc = e, !.capable = hs[p].minterEnc * e] \in HsRow
    BY <2>1, <2>2 DEF HsRow
  <2>4. hs' \in [Pair -> HsRow]
    BY <1>9, <2>1, <2>3 DEF Accept, TypeOK, e
  <2>5. consent' \in [Pair -> [by: Ident \union {NoIdent}, round: Nat]]
          /\ ad' \in [Pair -> [Ident -> Enc]]
    BY <1>9, <2>1 DEF Accept, TypeOK, e
  <2> QED BY <1>9, <2>4, <2>5 DEF Accept, TypeOK, InvitersKnown, Minted
<1>10. ASSUME NEW m \in msgs, Reaccept(m) PROVE TypeOK' /\ InvitersKnown'
  <2>1. m.pair \in Pair /\ m.by \in Ident /\ m.enc \in Enc
    BY <1>10 DEF TypeOK, Msg, Reaccept
  <2>2. WithAd(m.pair, m.by, m.enc) \in HsRow
    BY <2>1, WithAdTyped
  <2> QED BY <1>10, <2>1, <2>2 DEF Reaccept, TypeOK, InvitersKnown, Minted
<1>11. ASSUME NEW m \in msgs, Advertise(m) PROVE TypeOK' /\ InvitersKnown'
  <2> DEFINE p == m.pair
             minter == IF AdvertiseSlot(p, m.by) = "minter" THEN m.enc ELSE hs[p].minterEnc
             redeemer == IF AdvertiseSlot(p, m.by) = "redeemer" THEN m.enc
                         ELSE hs[p].redeemerEnc
  <2>1. p \in Pair /\ m.by \in Ident /\ m.enc \in Enc /\ hs[p] \in HsRow
    BY <1>11 DEF TypeOK, Msg, Advertise
  <2>2. minter \in Enc /\ redeemer \in Enc
    BY <2>1 DEF HsRow
  <2>3. minter * redeemer \in Enc
    BY <2>2, BothFlags
  <2>4. hs' = [hs EXCEPT ![p].minterEnc = minter, ![p].redeemerEnc = redeemer,
                         ![p].capable = minter * redeemer]
    BY <1>11 DEF Advertise
  <2> HIDE DEF minter, redeemer
  <2>5. [hs[p] EXCEPT !.minterEnc = minter, !.redeemerEnc = redeemer,
                      !.capable = minter * redeemer] \in HsRow
    BY <2>1, <2>2, <2>3 DEF HsRow
  <2>6. hs' \in [Pair -> HsRow]
    BY <2>1, <2>4, <2>5 DEF TypeOK
  <2> QED BY <1>11, <2>1, <2>6 DEF Advertise, TypeOK, InvitersKnown, Minted
<1>12. ASSUME NEW m \in msgs, Drop(m) PROVE TypeOK' /\ InvitersKnown'
  BY <1>12 DEF Drop, TypeOK, InvitersKnown, Minted
<1>13. ASSUME NEW p \in Pair, Revoke(p) PROVE TypeOK' /\ InvitersKnown'
  <2>1. hs[p] \in HsRow /\ round[p] \in Nat
    BY DEF TypeOK
  <2> DEFINE next == hs[p].gen + 1
             row == [hs[p] EXCEPT !.status = "revoked", !.pendingExp = 0,
                                  !.redeemer = NoIdent, !.gen = next]
  <2>2. row \in HsRow
    <3>1. next \in Nat
      BY <2>1 DEF HsRow
    <3> HIDE DEF next
    <3> QED BY <2>1, <3>1 DEF HsRow
  <2>3. hs' \in [Pair -> HsRow]
    <3>1. hs' = [hs EXCEPT ![p] = row]
      BY <1>13 DEF Revoke, TypeOK
    <3> HIDE DEF row
    <3> QED BY <2>2, <3>1 DEF TypeOK
  <2>4. barred' \subseteq (Link \X Pair) /\ ended' \subseteq (Pair \X Nat)
    BY <1>13, <2>1 DEF Revoke, TypeOK, HsRow
  <2> QED BY <1>13, <2>3, <2>4 DEF Revoke, TypeOK, InvitersKnown, Minted
<1>14. CASE Sweep
  <2>1. ASSUME NEW p \in Pair
        PROVE  [hs[p] EXCEPT !.status = "revoked", !.pendingExp = 0,
                             !.redeemer = NoIdent] \in HsRow
    <3>1. hs[p] \in HsRow
      BY DEF TypeOK
    <3> QED BY <3>1 DEF HsRow
  <2>2. hs' \in [Pair -> HsRow]
    BY <1>14, <2>1 DEF Sweep, TypeOK
  <2> QED BY <1>14, <2>2 DEF Sweep, TypeOK, InvitersKnown, Minted
<1>15. CASE UNCHANGED vars
  BY <1>15 DEF vars, TypeOK, InvitersKnown, Minted
<1> QED
  BY <1>1, <1>2, <1>3, <1>4, <1>5, <1>6, <1>7, <1>8, <1>9, <1>10, <1>11, <1>12, <1>13,
     <1>14, <1>15
  DEF Next

LEMMA TypeInit == Init => TypeOK /\ InvitersKnown
<1> SUFFICES ASSUME Init PROVE TypeOK /\ InvitersKnown
  OBVIOUS
<1>1. Unminted \in InviteRow
  BY DEF Unminted, InviteRow, Enc
<1>2. ASSUME NEW p \in Pair PROVE FirstRow(p) \in HsRow
  BY DEF FirstRow, HsRow, Enc
<1>3. InvitersKnown
  BY DEF Init, InvitersKnown, Minted, Unminted
<1>4. hs \in [Pair -> HsRow] /\ invites \in [Link -> InviteRow]
  BY <1>1, <1>2 DEF Init
<1> QED BY <1>3, <1>4 DEF Init, TypeOK, Enc

(* Every reachable state is well typed.                                    *)
THEOREM Typed == Spec => [](TypeOK /\ InvitersKnown)
BY TypeInit, TypeStep, PTL DEF Spec

-----------------------------------------------------------------------------
(* What a step does to the ceremonies.  Only four actions open, activate   *)
(* or end one; the others leave these columns of every row alone, and none *)
(* gives an invitation another inviter.                                    *)
SameCeremony ==
  /\ \A p \in Pair : /\ hs'[p].status = hs[p].status /\ hs'[p].gen = hs[p].gen
                     /\ hs'[p].via = hs[p].via /\ hs'[p].prov = hs[p].prov
                     /\ hs'[p].redeemer = hs[p].redeemer
  /\ UNCHANGED <<barred, round, ended, consent>>

InvitersFixed ==
  \A l \in Link : Minted(l) => Minted(l)' /\ invites'[l].inviter = invites[l].inviter

LEMMA WithAdKeeps ==
  ASSUME TypeOK, NEW p \in Pair, NEW x, NEW e
  PROVE  LET r == WithAd(p, x, e) IN
         /\ r.status = hs[p].status /\ r.gen = hs[p].gen /\ r.via = hs[p].via
         /\ r.prov = hs[p].prov /\ r.redeemer = hs[p].redeemer
BY DEF WithAd, TypeOK, HsRow

LEMMA RepeatKeeps ==
  ASSUME TypeOK, InvitersKnown, NEW q \in redeems, RedeemRepeat(q)
  PROVE  SameCeremony /\ InvitersFixed
<1> DEFINE p == RedeemPair(q)
           x == invites[q.link].inviter
<1>1. p \in Pair /\ q.link \in Link /\ q.by \in Ident /\ invites[q.link] \in InviteRow
  BY RedeemPairTyped DEF TypeOK
<1>2. AfterClaim(q).kind = invites[q.link].kind
        /\ AfterClaim(q).inviter = invites[q.link].inviter
  BY <1>1, ClaimTyped DEF AfterClaim
<1>3. InvitersFixed
  BY <1>1, <1>2 DEF RedeemRepeat, TypeOK, InvitersFixed, Minted
<1>4. SameCeremony
  <2>1. CASE Upgrades(q)
    <3>1. hs' = [hs EXCEPT ![p] = WithAd(p, x, 1)]
      BY <2>1 DEF RedeemRepeat
    <3> HIDE DEF p, x
    <3> QED BY <1>1, <3>1, WithAdKeeps DEF RedeemRepeat, TypeOK, SameCeremony
  <2>2. CASE ~Upgrades(q)
    BY <2>2 DEF RedeemRepeat, SameCeremony
  <2> QED BY <2>1, <2>2
<1> QED BY <1>3, <1>4

LEMMA AdvertiseKeeps ==
  ASSUME TypeOK, NEW m \in msgs, Reaccept(m) \/ Advertise(m)
  PROVE  SameCeremony
<1>1. m.pair \in Pair
  BY DEF TypeOK, Msg
<1>2. CASE Reaccept(m)
  <2>1. hs' = [hs EXCEPT ![m.pair] = WithAd(m.pair, m.by, m.enc)]
    BY <1>2 DEF Reaccept
  <2> QED BY <1>1, <1>2, <2>1, WithAdKeeps DEF Reaccept, TypeOK, SameCeremony
<1>3. CASE Advertise(m)
  BY <1>1, <1>3 DEF Advertise, TypeOK, HsRow, SameCeremony
<1> QED BY <1>2, <1>3

Opening == \E q \in redeems : RedeemOpen(q)
Accepting == \E m \in msgs : Accept(m)
Ending == \E p \in Pair : Revoke(p)

LEMMA CeremonySteps ==
  ASSUME TypeOK, InvitersKnown, [Next]_vars
  PROVE  /\ InvitersFixed
         /\ SameCeremony \/ Opening \/ Accepting \/ Ending \/ Sweep
<1> USE DEF rowVars, history
<1>1. CASE Tick
  BY <1>1 DEF Tick, SameCeremony, InvitersFixed, Minted
<1>2. ASSUME NEW x \in Ident, NEW l \in Link, NEW kind \in Offers, NEW life \in Lives,
             NEW uses \in 1..MaxUses, NEW enc \in EncVs, NEW target \in Ident \union {NoIdent},
             Mint(x, l, kind, life, uses, enc, target)
      PROVE  InvitersFixed /\ SameCeremony
  <2>1. \A k \in Link : Minted(k) => invites'[k] = invites[k]
    BY <1>2 DEF Mint, TypeOK, Minted
  <2> QED BY <1>2, <2>1 DEF Mint, SameCeremony, InvitersFixed, Minted
<1>3. ASSUME NEW l \in Link, RevokeInvite(l) PROVE InvitersFixed /\ SameCeremony
  BY <1>3 DEF RevokeInvite, TypeOK, InviteRow, SameCeremony, InvitersFixed, Minted
<1>4. ASSUME NEW x \in Ident, NEW l \in Link, RedeemCheck(x, l)
      PROVE  InvitersFixed /\ SameCeremony
  BY <1>4 DEF RedeemCheck, SameCeremony, InvitersFixed, Minted
<1>5. ASSUME NEW q \in redeems, RedeemRepeat(q) PROVE InvitersFixed /\ SameCeremony
  BY <1>5, RepeatKeeps
<1>6. ASSUME NEW q \in redeems, RedeemOpen(q) PROVE InvitersFixed
  <2> DEFINE row == IF invites[q.link].kind = "short" THEN AfterClaim(q)
                    ELSE Consumed(invites[q.link])
  <2>1. q.link \in Link /\ q.by \in Ident /\ invites[q.link] \in InviteRow
    BY RedeemPairTyped DEF TypeOK
  <2>2. row.kind = invites[q.link].kind /\ row.inviter = invites[q.link].inviter
    BY <2>1, ClaimTyped DEF AfterClaim
  <2>3. invites' = [invites EXCEPT ![q.link] = row]
    BY <1>6 DEF RedeemOpen
  <2> HIDE DEF row
  <2> QED BY <2>1, <2>2, <2>3 DEF TypeOK, InvitersFixed, Minted
<1>7. ASSUME NEW q \in redeems, RedeemRefuse(q) PROVE InvitersFixed /\ SameCeremony
  BY <1>7 DEF RedeemRefuse, SameCeremony, InvitersFixed, Minted
<1>8. ASSUME NEW op \in {"accept", "advertise"}, NEW x \in Ident, NEW p \in Pair,
             NEW e \in EncVs \union {NoEnc}, Request(op, x, p, e)
      PROVE  InvitersFixed /\ SameCeremony
  BY <1>8 DEF Request, SameCeremony, InvitersFixed, Minted
<1>9. ASSUME NEW m \in msgs, Accept(m) \/ Reaccept(m) \/ Advertise(m) PROVE InvitersFixed
  BY <1>9 DEF Accept, Reaccept, Advertise, InvitersFixed, Minted
<1>10. ASSUME NEW m \in msgs, Drop(m) PROVE InvitersFixed /\ SameCeremony
  BY <1>10 DEF Drop, SameCeremony, InvitersFixed, Minted
<1>11. ASSUME NEW p \in Pair, Revoke(p) PROVE InvitersFixed
  BY <1>11 DEF Revoke, InvitersFixed, Minted
<1>12. CASE Sweep
  BY <1>12 DEF Sweep, InvitersFixed, Minted
<1>13. CASE UNCHANGED vars
  BY <1>13 DEF vars, SameCeremony, InvitersFixed, Minted
<1> QED
  BY <1>1, <1>2, <1>3, <1>4, <1>5, <1>6, <1>7, <1>8, <1>9, <1>10, <1>11, <1>12, <1>13,
     AdvertiseKeeps
  DEF Next, Opening, Accepting, Ending

(* What the four do to the columns a ceremony is made of.                  *)
LEMMA OpenEffect ==
  ASSUME TypeOK, InvitersKnown, NEW q \in redeems, RedeemOpen(q)
  PROVE  LET p == RedeemPair(q) IN
         /\ hs'[p].status = "pending" /\ hs'[p].redeemer = q.by /\ hs'[p].via = q.link
         /\ hs'[p].prov = "ceremony" /\ hs'[p].gen = NextGen(q)
         /\ round'[p] = round[p] + 1
         /\ \A r \in Pair \ {p} : hs'[r] = hs[r] /\ round'[r] = round[r]
BY RedeemPairTyped DEF RedeemOpen, TypeOK

LEMMA AcceptEffect ==
  ASSUME TypeOK, NEW m \in msgs, Accept(m)
  PROVE  LET p == m.pair IN
         /\ p \in Pair /\ hs[p].status = "pending" /\ hs[p].redeemer = m.by
         /\ hs[p].gen = m.gen
         /\ hs'[p].status = "active" /\ hs'[p].gen = hs[p].gen /\ hs'[p].via = hs[p].via
         /\ hs'[p].prov = hs[p].prov
         /\ consent'[p] = [by |-> m.by, round |-> m.round]
         /\ \A r \in Pair \ {p} : hs'[r] = hs[r] /\ consent'[r] = consent[r]
<1>1. m.pair \in Pair /\ hs[m.pair] \in HsRow
  BY DEF TypeOK, Msg
<1> QED BY <1>1 DEF Accept, Acceptable, TypeOK, HsRow

LEMMA RevokeEffect ==
  ASSUME TypeOK, NEW p \in Pair, Revoke(p)
  PROVE  /\ hs[p].status \in {"pending", "active"} /\ hs'[p].status = "revoked"
         /\ hs'[p].gen = hs[p].gen + 1 /\ hs'[p].via = hs[p].via
         /\ hs'[p].prov = hs[p].prov
         /\ \A r \in Pair \ {p} : hs'[r] = hs[r]
<1>1. hs[p] \in HsRow
  BY DEF TypeOK
<1> QED BY <1>1 DEF Revoke, TypeOK, HsRow

LEMMA SweepEffect ==
  ASSUME TypeOK, Sweep
  PROVE  \A p \in Pair :
           \/ hs'[p] = hs[p] /\ ~Lapsed(p)
           \/ /\ Lapsed(p) /\ hs[p].status \in {"pending", "active"}
              /\ hs'[p].status = "revoked" /\ hs'[p].gen = hs[p].gen
              /\ hs'[p].via = hs[p].via /\ hs'[p].prov = hs[p].prov
<1> SUFFICES ASSUME NEW p \in Pair
    PROVE  \/ hs'[p] = hs[p] /\ ~Lapsed(p)
           \/ /\ Lapsed(p) /\ hs[p].status \in {"pending", "active"}
              /\ hs'[p].status = "revoked" /\ hs'[p].gen = hs[p].gen
              /\ hs'[p].via = hs[p].via /\ hs'[p].prov = hs[p].prov
  OBVIOUS
<1>1. hs[p] \in HsRow
  BY DEF TypeOK
<1>2. CASE Lapsed(p)
  <2>1. hs[p].status \in {"pending", "active"}
    BY <1>2 DEF Lapsed
  <2> QED BY <1>1, <1>2, <2>1 DEF Sweep, HsRow
<1>3. CASE ~Lapsed(p)
  BY <1>3 DEF Sweep
<1> QED BY <1>2, <1>3

-----------------------------------------------------------------------------
(* The detailed protocol implements the consent it promises: redeeming is  *)
(* a Propose, accepting an Activate, revoking an End, a sweep one Lapse,   *)
(* and every other step leaves consent alone.                              *)
THEOREM Refinement == Spec => ImplementsConsent
<1> DEFINE st == [p \in Pair |-> hs[p].status]
           ge == [p \in Pair |-> hs[p].gen]
           vi == [p \in Pair |-> hs[p].via]
<1>1. Init => C!ConsentInit
  BY DEF Init, FirstRow, C!ConsentInit
<1>2. TypeOK /\ InvitersKnown /\ [Next]_vars => [C!ConsentNext]_(C!consentVars)
  <2> SUFFICES ASSUME TypeOK, InvitersKnown, [Next]_vars
               PROVE  C!ConsentNext \/ UNCHANGED C!consentVars
    OBVIOUS
  <2>1. CASE SameCeremony
    <3>1. st' = st /\ ge' = ge /\ vi' = vi /\ barred' = barred
      BY <2>1 DEF SameCeremony
    <3> QED BY <3>1 DEF C!consentVars
  <2>2. ASSUME NEW q \in redeems, RedeemOpen(q) PROVE C!ConsentNext
    <3> DEFINE p == RedeemPair(q)
    <3>1. p \in Pair /\ q.link \in Link /\ hs[p] \in HsRow
      BY RedeemPairTyped DEF TypeOK
    <3>2. <<q.link, p>> \notin barred /\ hs[p].status # "active"
      BY <2>2, <3>1 DEF RedeemOpen, StillOffered, Opens, Replaces
    <3>3. \/ hs'[p].gen = hs[p].gen
          \/ hs[p].status = "pending" /\ hs'[p].gen = hs[p].gen + 1
      <4>1. hs'[p].gen = NextGen(q)
        BY <2>2, OpenEffect
      <4> QED BY <3>1, <4>1 DEF NextGen, Replaces, HsRow
    <3>4. hs'[p].status = "pending" /\ hs'[p].via = q.link
            /\ \A r \in Pair \ {p} : hs'[r] = hs[r]
      BY <2>2, OpenEffect
    <3>5. barred' = barred
      BY <2>2 DEF RedeemOpen
    <3> HIDE DEF p
    <3>6. st' = [st EXCEPT ![p] = "pending"] /\ vi' = [vi EXCEPT ![p] = q.link]
      BY <3>1, <3>4
    <3>7. ge' = ge \/ (st[p] = "pending" /\ ge' = [ge EXCEPT ![p] = ge[p] + 1])
      BY <3>1, <3>3, <3>4
    <3>8. st[p] # "active"
      BY <3>1, <3>2
    <3>9. C!Propose(p, q.link)
      BY <3>2, <3>5, <3>6, <3>7, <3>8 DEF C!Propose
    <3> QED BY <3>1, <3>9 DEF C!ConsentNext
  <2>3. ASSUME NEW m \in msgs, Accept(m) PROVE C!ConsentNext
    <3> DEFINE p == m.pair
    <3>1. p \in Pair /\ hs[p].status = "pending" /\ hs'[p].status = "active"
            /\ hs'[p].gen = hs[p].gen /\ hs'[p].via = hs[p].via
            /\ \A r \in Pair \ {p} : hs'[r] = hs[r]
      BY <2>3, AcceptEffect
    <3>2. barred' = barred
      BY <2>3 DEF Accept
    <3> HIDE DEF p
    <3>3. st[p] = "pending" /\ st' = [st EXCEPT ![p] = "active"] /\ ge' = ge /\ vi' = vi
      BY <3>1
    <3>4. C!Activate(p)
      BY <3>2, <3>3 DEF C!Activate
    <3> QED BY <3>1, <3>4 DEF C!ConsentNext
  <2>4. ASSUME NEW p \in Pair, Revoke(p) PROVE C!ConsentNext
    <3>1. /\ hs[p].status \in {"pending", "active"} /\ hs'[p].status = "revoked"
          /\ hs'[p].gen = hs[p].gen + 1 /\ hs'[p].via = hs[p].via
          /\ \A r \in Pair \ {p} : hs'[r] = hs[r]
      BY <2>4, RevokeEffect
    <3>2. barred' = barred \union {<<l, p>> : l \in {vi[p]} \ {NoLink}}
      BY <2>4 DEF Revoke
    <3>3. st[p] \in C!Current /\ st' = [st EXCEPT ![p] = "revoked"]
            /\ ge' = [ge EXCEPT ![p] = ge[p] + 1] /\ vi' = vi
      BY <3>1 DEF C!Current
    <3>4. C!End(p)
      BY <3>2, <3>3 DEF C!End
    <3> QED BY <3>4 DEF C!ConsentNext
  <2>5. CASE Sweep
    <3>1. PICK S \in SUBSET Pair : S = {p \in Pair : Lapsed(p)}
      OBVIOUS
    <3>2. S # {} /\ barred' = barred
      BY <2>5, <3>1 DEF Sweep, rowVars
    <3>3. \A p \in S : st[p] \in C!Current
      BY <2>5, <3>1, SweepEffect DEF C!Current
    <3>4. st' = [p \in Pair |-> IF p \in S THEN "revoked" ELSE st[p]]
            /\ ge' = ge /\ vi' = vi
      BY <2>5, <3>1, SweepEffect
    <3>5. C!Lapse(S)
      BY <3>2, <3>3, <3>4 DEF C!Lapse
    <3> QED BY <3>5 DEF C!ConsentNext
  <2> QED BY <2>1, <2>2, <2>3, <2>4, <2>5, CeremonySteps DEF Opening, Accepting, Ending
<1> QED BY <1>1, <1>2, Typed, PTL DEF Spec, ImplementsConsent, C!ConsentSpec

(* With handshake_expiry_days at its default an active pair ends by the    *)
(* word of one of the two and in no other way: the sweep takes ceremonies  *)
(* that nobody answered.  This is the handshakes' part in the mailbox's    *)
(* ConsentAmongHandshakes.                                                 *)
THEOREM ActiveEndsByRevoke == ASSUME HsExpiry = 0 PROVE Spec => C!EndsOnlyByRevoke
<1> DEFINE st == [p \in Pair |-> hs[p].status]
           ge == [p \in Pair |-> hs[p].gen]
           vi == [p \in Pair |-> hs[p].via]
           Ends == \A p \in Pair : st[p] = "active" /\ st'[p] # "active" => C!End(p)
<1>1. TypeOK /\ InvitersKnown /\ [Next]_vars => [Ends]_(C!consentVars)
  <2> SUFFICES ASSUME TypeOK, InvitersKnown, [Next]_vars, NEW p \in Pair,
                      hs[p].status = "active", hs'[p].status # "active"
               PROVE  C!End(p)
    OBVIOUS
  <2>1. ~SameCeremony
    <3> SUFFICES ASSUME st' = st PROVE FALSE
      BY DEF SameCeremony
    <3>1. st'[p] = st[p]
      OBVIOUS
    <3> QED BY <3>1
  <2>2. ASSUME NEW q \in redeems, RedeemOpen(q) PROVE FALSE
    <3>1. RedeemPair(q) # p
      BY <2>2 DEF RedeemOpen, StillOffered, Opens, Replaces
    <3> QED BY <2>2, <3>1, OpenEffect
  <2>3. ASSUME NEW m \in msgs, Accept(m) PROVE FALSE
    BY <2>3, AcceptEffect
  <2>4. ASSUME NEW r \in Pair, Revoke(r) PROVE C!End(p)
    <3>1. r = p
      BY <2>4, RevokeEffect
    <3>2. /\ hs[p].status \in {"pending", "active"} /\ hs'[p].status = "revoked"
          /\ hs'[p].gen = hs[p].gen + 1 /\ hs'[p].via = hs[p].via
          /\ \A s \in Pair \ {p} : hs'[s] = hs[s]
      BY <2>4, <3>1, RevokeEffect
    <3>3. barred' = barred \union {<<l, p>> : l \in {vi[p]} \ {NoLink}}
      BY <2>4, <3>1 DEF Revoke
    <3>4. st[p] \in C!Current /\ st' = [st EXCEPT ![p] = "revoked"]
            /\ ge' = [ge EXCEPT ![p] = ge[p] + 1] /\ vi' = vi
      BY <3>2 DEF C!Current
    <3> QED BY <3>3, <3>4 DEF C!End
  <2>5. CASE Sweep
    <3>1. Lapsed(p)
      BY <2>5, SweepEffect
    <3> QED BY <3>1 DEF Lapsed
  <2> QED BY <2>1, <2>2, <2>3, <2>4, <2>5, CeremonySteps DEF Opening, Accepting, Ending
<1> QED BY <1>1, Typed, PTL DEF Spec, C!EndsOnlyByRevoke

-----------------------------------------------------------------------------
(* A row made by ceremony keeps the invitation it was made over, and while *)
(* it is pending waits for the party that did not mint it.                 *)
RowsHaveInvitation ==
  \A p \in Pair :
    /\ hs[p].prov = "ceremony" =>
         /\ hs[p].via \in Link /\ Minted(hs[p].via)
         /\ invites[hs[p].via].inviter \in Parties(p)
    /\ hs[p].status = "pending" =>
         /\ hs[p].prov = "ceremony"
         /\ hs[p].redeemer = Other(p, invites[hs[p].via].inviter)

(* The ceremony under way was never ended, and none ended that was never   *)
(* opened.                                                                 *)
RoundsAhead ==
  \A p \in Pair :
    /\ \A k \in Nat : <<p, k>> \in ended => k <= round[p]
    /\ hs[p].status \in {"pending", "active"} => <<p, round[p]>> \notin ended

(* A request that still carries the generation of the row was made while   *)
(* looking at a ceremony that has not been ended.                          *)
MsgsKnowTheirCeremony ==
  \A m \in msgs :
    /\ m.gen <= hs[m.pair].gen
    /\ m.gen = hs[m.pair].gen => <<m.pair, m.round>> \notin ended

Typing == TypeOK /\ InvitersKnown

(* Each pair's row either kept its ceremony or was written by one of the   *)
(* four actions; these are the facts the invariants below need of a step.  *)
LEMMA RowsStep ==
  ASSUME Typing, RowsHaveInvitation, [Next]_vars
  PROVE  RowsHaveInvitation'
<1> USE DEF Typing
<1>1. InvitersFixed
  BY CeremonySteps
<1> SUFFICES ASSUME NEW p \in Pair
             PROVE  /\ hs'[p].prov = "ceremony" =>
                         /\ hs'[p].via \in Link /\ Minted(hs[p].via)'
                         /\ invites'[hs'[p].via].inviter \in Parties(p)
                    /\ hs'[p].status = "pending" =>
                         /\ hs'[p].prov = "ceremony"
                         /\ hs'[p].redeemer = Other(p, invites'[hs'[p].via].inviter)
  BY DEF RowsHaveInvitation
<1>2. ASSUME hs'[p].via = hs[p].via, hs'[p].prov = hs[p].prov,
             hs'[p].status = "pending" => hs[p].status = "pending"
                                            /\ hs'[p].redeemer = hs[p].redeemer
      PROVE  /\ hs'[p].prov = "ceremony" =>
                  /\ hs'[p].via \in Link /\ Minted(hs[p].via)'
                  /\ invites'[hs'[p].via].inviter \in Parties(p)
             /\ hs'[p].status = "pending" =>
                  /\ hs'[p].prov = "ceremony"
                  /\ hs'[p].redeemer = Other(p, invites'[hs'[p].via].inviter)
  BY <1>1, <1>2 DEF RowsHaveInvitation, InvitersFixed, Minted
<1>3. CASE SameCeremony
  BY <1>2, <1>3 DEF SameCeremony
<1>4. ASSUME NEW q \in redeems, RedeemOpen(q), p = RedeemPair(q)
      PROVE  /\ hs'[p].via \in Link /\ Minted(hs[p].via)'
             /\ invites'[hs'[p].via].inviter \in Parties(p)
             /\ hs'[p].prov = "ceremony"
             /\ hs'[p].redeemer = Other(p, invites'[hs'[p].via].inviter)
  BY <1>1, <1>4, OpenEffect, RedeemPairTyped DEF InvitersFixed, InvitersKnown
<1>5. ASSUME NEW q \in redeems, RedeemOpen(q), p # RedeemPair(q) PROVE hs'[p] = hs[p]
  BY <1>5, OpenEffect
<1>6. CASE Accepting
  BY <1>2, <1>6, AcceptEffect DEF Accepting
<1>7. CASE Ending
  BY <1>2, <1>7, RevokeEffect DEF Ending
<1>8. CASE Sweep
  BY <1>2, <1>8, SweepEffect
<1> QED BY <1>2, <1>3, <1>4, <1>5, <1>6, <1>7, <1>8, CeremonySteps DEF Opening

(* Only a ceremony that opens or is revoked adds to the ended ones.        *)
LEMMA RoundsStep ==
  ASSUME Typing, RoundsAhead, [Next]_vars
  PROVE  RoundsAhead'
<1> USE DEF Typing
<1> SUFFICES ASSUME NEW p \in Pair
             PROVE  /\ \A k \in Nat : <<p, k>> \in ended' => k <= round'[p]
                    /\ hs'[p].status \in {"pending", "active"} => <<p, round'[p]>> \notin ended'
  BY DEF RoundsAhead
<1>1. round[p] \in Nat
  BY DEF TypeOK
<1>2. CASE SameCeremony
  BY <1>2 DEF SameCeremony, RoundsAhead
<1>3. ASSUME NEW q \in redeems, RedeemOpen(q)
      PROVE  /\ \A k \in Nat : <<p, k>> \in ended' => k <= round'[p]
             /\ hs'[p].status \in {"pending", "active"} => <<p, round'[p]>> \notin ended'
  <2>1. ended' \subseteq ended \union {<<RedeemPair(q), round[RedeemPair(q)]>>}
    BY <1>3 DEF RedeemOpen
  <2>2. CASE p = RedeemPair(q)
    <3>1. round'[p] = round[p] + 1
      BY <1>3, <2>2, OpenEffect
    <3>2. ASSUME NEW k \in Nat, <<p, k>> \in ended' PROVE k <= round[p]
      <4>1. <<p, k>> \in ended \/ k = round[p]
        BY <2>1, <2>2, <3>2
      <4>2. <<p, k>> \in ended => k <= round[p]
        BY DEF RoundsAhead
      <4>3. k = round[p] => k <= round[p]
        BY <1>1
      <4> QED BY <4>1, <4>2, <4>3
    <3>3. <<p, round'[p]>> \notin ended'
      <4> SUFFICES ASSUME <<p, round'[p]>> \in ended' PROVE FALSE
        OBVIOUS
      <4>1. round'[p] \in Nat
        BY <1>1, <3>1
      <4>2. round'[p] <= round[p]
        BY <3>2, <4>1
      <4> QED BY <1>1, <3>1, <4>2
    <3>4. ASSUME NEW k \in Nat, <<p, k>> \in ended' PROVE k <= round'[p]
      BY <1>1, <3>1, <3>2, <3>4
    <3> QED BY <3>3, <3>4
  <2>3. CASE p # RedeemPair(q)
    BY <1>3, <2>1, <2>3, OpenEffect DEF RoundsAhead
  <2> QED BY <2>2, <2>3
<1>4. ASSUME NEW m \in msgs, Accept(m)
      PROVE  /\ \A k \in Nat : <<p, k>> \in ended' => k <= round'[p]
             /\ hs'[p].status \in {"pending", "active"} => <<p, round'[p]>> \notin ended'
  <2>1. ended' = ended /\ round' = round
    BY <1>4 DEF Accept
  <2>2. hs'[p].status \in {"pending", "active"} => hs[p].status \in {"pending", "active"}
    BY <1>4, AcceptEffect
  <2> QED BY <2>1, <2>2 DEF RoundsAhead
<1>5. ASSUME NEW r \in Pair, Revoke(r)
      PROVE  /\ \A k \in Nat : <<p, k>> \in ended' => k <= round'[p]
             /\ hs'[p].status \in {"pending", "active"} => <<p, round'[p]>> \notin ended'
  <2>1. ended' = ended \union {<<r, round[r]>>} /\ round' = round
    BY <1>5 DEF Revoke
  <2>2. p = r => hs'[p].status = "revoked"
    BY <1>5, RevokeEffect
  <2>3. p # r => hs'[p] = hs[p]
    BY <1>5, RevokeEffect
  <2> QED BY <1>1, <2>1, <2>2, <2>3 DEF RoundsAhead
<1>6. CASE Sweep
  <2>1. ended' = ended /\ round' = round
    BY <1>6 DEF Sweep, history
  <2>2. hs'[p].status \in {"pending", "active"} => hs[p].status \in {"pending", "active"}
    BY <1>6, SweepEffect
  <2> QED BY <2>1, <2>2 DEF RoundsAhead
<1> QED BY <1>2, <1>3, <1>4, <1>5, <1>6, CeremonySteps DEF Opening, Accepting, Ending

(* What a row shows, a revoked one included, is a ceremony nobody ended.   *)
LEMMA ShownIsOpen ==
  ASSUME NEW p \in Pair, round[p] \in Nat,
         \A k \in Nat : <<p, k>> \in ended => k <= round[p],
         hs[p].status # "revoked" => <<p, round[p]>> \notin ended
  PROVE  <<p, ShownRound(p)>> \notin ended
<1>1. CASE hs[p].status = "revoked" /\ <<p, round[p]>> \in ended
  <2>1. ShownRound(p) = round[p] + 1
    BY <1>1 DEF ShownRound
  <2> QED BY <2>1
<1>2. CASE ~(hs[p].status = "revoked" /\ <<p, round[p]>> \in ended)
  <2>1. ShownRound(p) = round[p]
    BY <1>2 DEF ShownRound
  <2> QED BY <1>2, <2>1
<1> QED BY <1>1, <1>2

(* A request is made of what the row shows, and nothing else makes one.    *)
LEMMA MsgsFrom ==
  ASSUME [Next]_vars, NEW m \in msgs'
  PROVE  \/ m \in msgs
         \/ /\ SameCeremony
            /\ m.pair \in Pair /\ hs[m.pair].status # "none"
            /\ m.gen = hs[m.pair].gen /\ m.round = ShownRound(m.pair)
<1> USE DEF rowVars, history
<1>1. ASSUME NEW op \in {"accept", "advertise"}, NEW x \in Ident, NEW p \in Pair,
             NEW e \in EncVs \union {NoEnc}, Request(op, x, p, e), m \notin msgs
      PROVE  /\ SameCeremony
             /\ m.pair \in Pair /\ hs[m.pair].status # "none"
             /\ m.gen = hs[m.pair].gen /\ m.round = ShownRound(m.pair)
  BY <1>1 DEF Request, SameCeremony
<1>2. CASE \E q \in redeems : RedeemRepeat(q) \/ RedeemOpen(q) \/ RedeemRefuse(q)
  BY <1>2 DEF RedeemRepeat, RedeemOpen, RedeemRefuse
<1>3. CASE \E r \in msgs : Accept(r) \/ Reaccept(r) \/ Advertise(r) \/ Drop(r)
  BY <1>3 DEF Accept, Reaccept, Advertise, Drop
<1>4. CASE (\E p \in Pair : Revoke(p)) \/ Sweep \/ Tick \/ UNCHANGED vars
  BY <1>4 DEF Revoke, Sweep, Tick, vars
<1>5. CASE \E x \in Ident, l \in Link, kind \in Offers, life \in Lives, uses \in 1..MaxUses,
              enc \in EncVs, target \in Ident \union {NoIdent} :
             Mint(x, l, kind, life, uses, enc, target)
  BY <1>5 DEF Mint
<1>6. CASE (\E l \in Link : RevokeInvite(l)) \/ (\E x \in Ident, l \in Link : RedeemCheck(x, l))
  BY <1>6 DEF RevokeInvite, RedeemCheck
<1> QED BY <1>1, <1>2, <1>3, <1>4, <1>5, <1>6 DEF Next

(* Whatever ends a ceremony advances the generation past every request     *)
(* made while looking at it.                                               *)
LEMMA MsgsStep ==
  ASSUME Typing, RoundsAhead, MsgsKnowTheirCeremony, [Next]_vars
  PROVE  MsgsKnowTheirCeremony'
<1> USE DEF Typing
<1> SUFFICES ASSUME NEW m \in msgs'
             PROVE  /\ m.gen <= hs'[m.pair].gen
                    /\ m.gen = hs'[m.pair].gen => <<m.pair, m.round>> \notin ended'
  BY DEF MsgsKnowTheirCeremony
<1>1. CASE m \notin msgs
  <2> DEFINE p == m.pair
  <2>1. /\ SameCeremony
        /\ p \in Pair /\ hs[p].status # "none"
        /\ m.gen = hs[p].gen /\ m.round = ShownRound(p)
    BY <1>1, MsgsFrom
  <2>2. /\ round[p] \in Nat /\ hs[p].gen \in Nat
        /\ hs[p].status \in {"pending", "active", "revoked"}
    BY <2>1 DEF TypeOK, HsRow
  <2>3. /\ \A k \in Nat : <<p, k>> \in ended => k <= round[p]
        /\ hs[p].status # "revoked" => <<p, round[p]>> \notin ended
    BY <2>1, <2>2 DEF RoundsAhead
  <2>4. <<p, ShownRound(p)>> \notin ended
    BY <2>1, <2>2, <2>3, ShownIsOpen
  <2> QED BY <2>1, <2>2, <2>4 DEF SameCeremony
<1>2. CASE m \in msgs
  <2> DEFINE p == m.pair
  <2>1. p \in Pair /\ m.gen \in Nat /\ hs[p].gen \in Nat
    BY <1>2 DEF TypeOK, Msg, HsRow
  <2>2. m.gen <= hs[p].gen /\ (m.gen = hs[p].gen => <<p, m.round>> \notin ended)
    BY <1>2 DEF MsgsKnowTheirCeremony
  <2>3. \/ hs'[p].gen = hs[p].gen /\ (\A k : <<p, k>> \in ended' => <<p, k>> \in ended)
        \/ hs'[p].gen = hs[p].gen + 1
    <3>1. CASE SameCeremony
      BY <2>1, <3>1 DEF SameCeremony
    <3>2. ASSUME NEW q \in redeems, RedeemOpen(q)
          PROVE  \/ hs'[p].gen = hs[p].gen /\ (\A k : <<p, k>> \in ended' => <<p, k>> \in ended)
                 \/ hs'[p].gen = hs[p].gen + 1
      <4>1. ended' = ended \union (IF Replaces(q) THEN {<<RedeemPair(q), round[RedeemPair(q)]>>}
                                   ELSE {})
        BY <3>2 DEF RedeemOpen
      <4>2. CASE p = RedeemPair(q)
        BY <2>1, <3>2, <4>1, <4>2, OpenEffect DEF NextGen
      <4>3. CASE p # RedeemPair(q)
        BY <2>1, <3>2, <4>1, <4>3, OpenEffect
      <4> QED BY <4>2, <4>3
    <3>3. ASSUME NEW r \in msgs, Accept(r) PROVE hs'[p].gen = hs[p].gen /\ ended' = ended
      <4>1. ended' = ended
        BY <3>3 DEF Accept
      <4> QED BY <2>1, <3>3, <4>1, AcceptEffect
    <3>4. ASSUME NEW r \in Pair, Revoke(r)
          PROVE  \/ hs'[p].gen = hs[p].gen /\ (\A k : <<p, k>> \in ended' => <<p, k>> \in ended)
                 \/ hs'[p].gen = hs[p].gen + 1
      <4>1. ended' = ended \union {<<r, round[r]>>}
        BY <3>4 DEF Revoke
      <4> QED BY <2>1, <3>4, <4>1, RevokeEffect
    <3>5. CASE Sweep
      <4>1. ended' = ended
        BY <3>5 DEF Sweep, history
      <4> QED BY <2>1, <3>5, <4>1, SweepEffect
    <3> QED BY <3>1, <3>2, <3>3, <3>4, <3>5, CeremonySteps DEF Opening, Accepting, Ending
  <2> QED BY <2>1, <2>2, <2>3
<1> QED BY <1>1, <1>2

(* An activation is the accept of the party that was asked, of a ceremony  *)
(* that still stands; and ending a ceremony leaves "active" behind.        *)
LEMMA ConsentStep ==
  ASSUME Typing, RowsHaveInvitation, MsgsKnowTheirCeremony, ConsentIsCurrent, [Next]_vars
  PROVE  ConsentIsCurrent'
<1> USE DEF Typing
<1> SUFFICES ASSUME NEW p \in Pair, hs'[p].status = "active", hs'[p].prov = "ceremony"
             PROVE  /\ consent'[p].by = Other(p, invites'[hs'[p].via].inviter)
                    /\ <<p, consent'[p].round>> \notin ended'
  BY DEF ConsentIsCurrent
<1>1. InvitersFixed
  BY CeremonySteps
<1>2. ASSUME hs[p].status = "active", hs'[p].via = hs[p].via, hs'[p].prov = hs[p].prov,
             consent'[p] = consent[p],
             \A k : <<p, k>> \in ended' => <<p, k>> \in ended
      PROVE  /\ consent'[p].by = Other(p, invites'[hs'[p].via].inviter)
             /\ <<p, consent'[p].round>> \notin ended'
  BY <1>1, <1>2 DEF ConsentIsCurrent, RowsHaveInvitation, InvitersFixed
<1>3. CASE SameCeremony
  BY <1>2, <1>3 DEF SameCeremony
<1>4. ASSUME NEW q \in redeems, RedeemOpen(q)
      PROVE  /\ consent'[p].by = Other(p, invites'[hs'[p].via].inviter)
             /\ <<p, consent'[p].round>> \notin ended'
  <2>1. p # RedeemPair(q)
    BY <1>4, OpenEffect
  <2>2. hs'[p] = hs[p]
    BY <1>4, <2>1, OpenEffect
  <2>3. consent' = consent
          /\ ended' \subseteq ended \union {<<RedeemPair(q), round[RedeemPair(q)]>>}
    BY <1>4 DEF RedeemOpen
  <2> QED BY <1>2, <2>1, <2>2, <2>3
<1>5. ASSUME NEW m \in msgs, Accept(m)
      PROVE  /\ consent'[p].by = Other(p, invites'[hs'[p].via].inviter)
             /\ <<p, consent'[p].round>> \notin ended'
  <2>1. ended' = ended
    BY <1>5 DEF Accept
  <2>2. CASE p = m.pair
    <3>1. hs[p].status = "pending" /\ hs[p].redeemer = m.by /\ hs[p].gen = m.gen
            /\ hs'[p].via = hs[p].via /\ hs[p].prov = "ceremony"
            /\ consent'[p] = [by |-> m.by, round |-> m.round]
      BY <1>5, <2>2, AcceptEffect
    <3>2. m.by = Other(p, invites[hs[p].via].inviter)
            /\ invites'[hs[p].via].inviter = invites[hs[p].via].inviter
      BY <1>1, <3>1 DEF RowsHaveInvitation, InvitersFixed
    <3>3. <<p, m.round>> \notin ended
      BY <2>2, <3>1 DEF MsgsKnowTheirCeremony
    <3> QED BY <2>1, <3>1, <3>2, <3>3
  <2>3. CASE p # m.pair
    BY <1>2, <1>5, <2>1, <2>3, AcceptEffect
  <2> QED BY <2>2, <2>3
<1>6. ASSUME NEW r \in Pair, Revoke(r)
      PROVE  /\ consent'[p].by = Other(p, invites'[hs'[p].via].inviter)
             /\ <<p, consent'[p].round>> \notin ended'
  <2>1. consent' = consent /\ ended' = ended \union {<<r, round[r]>>}
    BY <1>6 DEF Revoke
  <2>2. p # r /\ hs'[p] = hs[p]
    BY <1>6, RevokeEffect
  <2> QED BY <1>2, <2>1, <2>2
<1>7. CASE Sweep
  <2>1. consent' = consent /\ ended' = ended
    BY <1>7 DEF Sweep, history
  <2>2. hs'[p] = hs[p]
    BY <1>7, SweepEffect
  <2> QED BY <1>2, <2>1, <2>2
<1> QED BY <1>3, <1>4, <1>5, <1>6, <1>7, CeremonySteps DEF Opening, Accepting, Ending

LEMMA InitStrong ==
  Init => RowsHaveInvitation /\ RoundsAhead /\ MsgsKnowTheirCeremony /\ ConsentIsCurrent
<1> SUFFICES ASSUME Init
             PROVE  RowsHaveInvitation /\ RoundsAhead /\ MsgsKnowTheirCeremony /\ ConsentIsCurrent
  OBVIOUS
<1>1. \A p \in Pair : hs[p].prov # "ceremony" /\ hs[p].status # "pending"
  BY DEF Init, FirstRow
<1> QED BY <1>1 DEF Init, RowsHaveInvitation, RoundsAhead, MsgsKnowTheirCeremony, ConsentIsCurrent

(* A pair made by ceremony is active only by the accept of the party that  *)
(* was asked, given to a ceremony nobody has ended since.                  *)
THEOREM CurrentConsent == Spec => []ConsentIsCurrent
<1> DEFINE IInv == /\ Typing /\ RowsHaveInvitation /\ RoundsAhead
                   /\ MsgsKnowTheirCeremony /\ ConsentIsCurrent
<1>1. Init => IInv
  BY TypeInit, InitStrong DEF Typing
<1>2. IInv /\ [Next]_vars => IInv'
  BY TypeStep, RowsStep, RoundsStep, MsgsStep, ConsentStep DEF Typing
<1> QED BY <1>1, <1>2, PTL DEF Spec

-----------------------------------------------------------------------------
(* While a ceremony is live and keeps its generation, its row is frozen:   *)
(* no step but one that ends, activates or replaces it writes it at all.   *)
THEOREM LiveCeremonyFrozen == Spec => LiveCeremonyUntouched
<1> DEFINE Step ==
      \A p \in Pair :
        /\ hs[p].status = "pending" /\ hs[p].pendingExp > now
        /\ hs'[p].status = "pending" /\ hs'[p].gen = hs[p].gen
        => hs'[p] = hs[p]
<1>1. Typing /\ [Next]_vars => [Step]_vars
  <2> SUFFICES ASSUME Typing, Next, NEW p \in Pair,
                      hs[p].status = "pending", hs[p].pendingExp > now,
                      hs'[p].status = "pending", hs'[p].gen = hs[p].gen
               PROVE  hs'[p] = hs[p]
    OBVIOUS
  <2> USE DEF Typing, rowVars
  <2>1. hs[p].gen \in Nat /\ hs[p].pendingExp \in Nat /\ now \in Nat
    BY DEF TypeOK, HsRow
  <2>2. ASSUME NEW q \in redeems, RedeemOpen(q) PROVE hs'[p] = hs[p]
    <3>1. CASE p = RedeemPair(q)
      <4>1. Replaces(q)
        BY <2>1, <2>2, <3>1 DEF RedeemOpen, Opens
      <4>2. hs'[p].gen = hs[p].gen + 1
        BY <2>2, <3>1, <4>1, OpenEffect DEF NextGen
      <4> QED BY <2>1, <4>2
    <3>2. CASE p # RedeemPair(q)
      BY <2>2, <3>2, OpenEffect
    <3> QED BY <3>1, <3>2
  <2>3. ASSUME NEW q \in redeems, RedeemRepeat(q) PROVE hs'[p] = hs[p]
    BY <2>3, RedeemPairTyped DEF RedeemRepeat, Upgrades, TypeOK
  <2>4. ASSUME NEW m \in msgs, Accept(m) PROVE hs'[p] = hs[p]
    BY <2>4, AcceptEffect
  <2>5. ASSUME NEW m \in msgs, Reaccept(m) \/ Advertise(m) PROVE hs'[p] = hs[p]
    BY <2>5 DEF Reaccept, Advertise, TypeOK
  <2>6. ASSUME NEW r \in Pair, Revoke(r) PROVE hs'[p] = hs[p]
    BY <2>6, RevokeEffect
  <2>7. CASE Sweep
    BY <2>7, SweepEffect
  <2>8. CASE Tick
    BY <2>8 DEF Tick
  <2>9. ASSUME NEW x \in Ident, NEW l \in Link, NEW kind \in Offers, NEW life \in Lives,
               NEW uses \in 1..MaxUses, NEW enc \in EncVs,
               NEW target \in Ident \union {NoIdent},
               Mint(x, l, kind, life, uses, enc, target)
        PROVE  hs'[p] = hs[p]
    BY <2>9 DEF Mint
  <2>10. ASSUME NEW l \in Link, RevokeInvite(l) PROVE hs'[p] = hs[p]
    BY <2>10 DEF RevokeInvite
  <2>11. ASSUME NEW x \in Ident, NEW l \in Link, RedeemCheck(x, l) PROVE hs'[p] = hs[p]
    BY <2>11 DEF RedeemCheck
  <2>12. ASSUME NEW q \in redeems, RedeemRefuse(q) PROVE hs'[p] = hs[p]
    BY <2>12 DEF RedeemRefuse
  <2>13. ASSUME NEW op \in {"accept", "advertise"}, NEW x \in Ident, NEW r \in Pair,
                NEW e \in EncVs \union {NoEnc}, Request(op, x, r, e)
         PROVE  hs'[p] = hs[p]
    BY <2>13 DEF Request
  <2>14. ASSUME NEW m \in msgs, Drop(m) PROVE hs'[p] = hs[p]
    BY <2>14 DEF Drop
  <2> QED
    BY <2>2, <2>3, <2>4, <2>5, <2>6, <2>7, <2>8, <2>9, <2>10, <2>11, <2>12, <2>13, <2>14
    DEF Next
<1> QED BY <1>1, Typed, PTL DEF Spec, LiveCeremonyUntouched, Typing

-----------------------------------------------------------------------------
(* What the steps of Consent mean for the rows, pair by pair.              *)
LEMMA ProposeAt ==
  ASSUME NEW p \in Pair, NEW l \in Link, C!Propose(p, l), NEW q \in Pair
  PROVE  /\ hs'[q].status = IF q = p THEN "pending" ELSE hs[q].status
         /\ hs'[q].via = IF q = p THEN l ELSE hs[q].via
         /\ \/ hs'[q].gen = hs[q].gen
            \/ q = p /\ hs[q].status = "pending" /\ hs'[q].gen = hs[q].gen + 1
<1> DEFINE old == [x \in Pair |-> hs[x].status]
           new == [x \in Pair |-> hs'[x].status]
           oldGen == [x \in Pair |-> hs[x].gen]
           newGen == [x \in Pair |-> hs'[x].gen]
           oldVia == [x \in Pair |-> hs[x].via]
           newVia == [x \in Pair |-> hs'[x].via]
<1>1. /\ new = [old EXCEPT ![p] = "pending"] /\ newVia = [oldVia EXCEPT ![p] = l]
      /\ newGen = oldGen \/ (old[p] = "pending" /\ newGen = [oldGen EXCEPT ![p] = oldGen[p] + 1])
  BY DEF C!Propose
<1>2. /\ new[q] = hs'[q].status /\ newVia[q] = hs'[q].via /\ newGen[q] = hs'[q].gen
      /\ old[q] = hs[q].status /\ oldVia[q] = hs[q].via /\ oldGen[q] = hs[q].gen
      /\ q \in DOMAIN old /\ q \in DOMAIN oldVia /\ q \in DOMAIN oldGen
  OBVIOUS
<1> HIDE DEF old, new, oldGen, newGen, oldVia, newVia
<1> QED BY <1>1, <1>2

LEMMA EndAt ==
  ASSUME NEW p \in Pair, C!End(p), NEW q \in Pair
  PROVE  /\ hs'[q].status = IF q = p THEN "revoked" ELSE hs[q].status
         /\ hs'[q].gen = IF q = p THEN hs[q].gen + 1 ELSE hs[q].gen
         /\ hs'[q].via = hs[q].via
<1> DEFINE old == [x \in Pair |-> hs[x].status]
           new == [x \in Pair |-> hs'[x].status]
           oldGen == [x \in Pair |-> hs[x].gen]
           newGen == [x \in Pair |-> hs'[x].gen]
           oldVia == [x \in Pair |-> hs[x].via]
           newVia == [x \in Pair |-> hs'[x].via]
<1>1. /\ new = [old EXCEPT ![p] = "revoked"] /\ newGen = [oldGen EXCEPT ![p] = oldGen[p] + 1]
      /\ newVia = oldVia
  BY DEF C!End
<1>2. /\ new[q] = hs'[q].status /\ newVia[q] = hs'[q].via /\ newGen[q] = hs'[q].gen
      /\ old[q] = hs[q].status /\ oldVia[q] = hs[q].via /\ oldGen[q] = hs[q].gen
      /\ q \in DOMAIN old /\ q \in DOMAIN oldGen
  OBVIOUS
<1> HIDE DEF old, new, oldGen, newGen, oldVia, newVia
<1> QED BY <1>1, <1>2

(* Every reachable consent state is well typed.                            *)
THEOREM ConsentTyped == C!ConsentSpec => []C!ConsentTypeOK
<1>1. C!ConsentInit => C!ConsentTypeOK
  BY DEF C!ConsentInit, C!ConsentTypeOK, C!Status
<1>2. C!ConsentTypeOK /\ [C!ConsentNext]_(C!consentVars) => C!ConsentTypeOK'
  <2> SUFFICES ASSUME C!ConsentTypeOK, [C!ConsentNext]_(C!consentVars) PROVE C!ConsentTypeOK'
    OBVIOUS
  <2> USE DEF C!ConsentTypeOK, C!Status, C!Current
  <2>0. \A q \in Pair : hs[q].status \in C!Status /\ hs[q].gen \in Nat /\ hs[q].gen + 1 \in Nat
                         /\ hs[q].via \in Link \union {NoLink}
    OBVIOUS
  <2>1. ASSUME NEW p \in Pair, NEW l \in Link, C!Propose(p, l) PROVE C!ConsentTypeOK'
    <3>1. \A q \in Pair : hs'[q].status \in C!Status /\ hs'[q].gen \in Nat
                           /\ hs'[q].via \in Link \union {NoLink}
      BY <2>0, <2>1, ProposeAt
    <3>2. barred' = barred
      BY <2>1 DEF C!Propose
    <3> QED BY <3>1, <3>2
  <2>2. ASSUME NEW p \in Pair, C!Activate(p) PROVE C!ConsentTypeOK'
    BY <2>2 DEF C!Activate
  <2>3. ASSUME NEW p \in Pair, C!End(p) PROVE C!ConsentTypeOK'
    <3>1. \A q \in Pair : hs'[q].status \in C!Status /\ hs'[q].gen \in Nat
                           /\ hs'[q].via \in Link \union {NoLink}
      BY <2>0, <2>3, EndAt
    <3>2. barred' \subseteq Link \X Pair
      BY <2>0, <2>3 DEF C!End
    <3> QED BY <3>1, <3>2
  <2>4. ASSUME NEW S \in SUBSET Pair, C!Lapse(S) PROVE C!ConsentTypeOK'
    BY <2>4 DEF C!Lapse
  <2>5. CASE UNCHANGED C!consentVars
    BY <2>5 DEF C!consentVars
  <2> QED BY <2>1, <2>2, <2>3, <2>4, <2>5 DEF C!ConsentNext
<1> QED BY <1>1, <1>2, PTL DEF C!ConsentSpec

(* An explicit revocation bars the invitation that made the pair: no later *)
(* redemption, by either party and after any number of other ceremonies,   *)
(* brings the pair back over it.                                           *)
THEOREM NoResurrection == C!ConsentSpec => []C!BarredLinkNeverCurrent
<1> USE DEF C!BarredLinkNeverCurrent
<1>1. C!ConsentInit => C!BarredLinkNeverCurrent
  BY DEF C!ConsentInit
<1>2. C!ConsentTypeOK /\ C!BarredLinkNeverCurrent /\ [C!ConsentNext]_(C!consentVars)
        => C!BarredLinkNeverCurrent'
  <2> SUFFICES ASSUME C!ConsentTypeOK, C!BarredLinkNeverCurrent, [C!ConsentNext]_(C!consentVars)
               PROVE  C!BarredLinkNeverCurrent'
    OBVIOUS
  <2> USE DEF C!ConsentTypeOK, C!Current
  <2>1. ASSUME NEW p \in Pair, NEW l \in Link, C!Propose(p, l)
        PROVE  C!BarredLinkNeverCurrent'
    BY <2>1 DEF C!Propose
  <2>2. ASSUME NEW p \in Pair, C!Activate(p) PROVE C!BarredLinkNeverCurrent'
    BY <2>2 DEF C!Activate
  <2>3. ASSUME NEW p \in Pair, C!End(p) PROVE C!BarredLinkNeverCurrent'
    <3>1. hs'[p].status = "revoked" /\ \A q \in Pair : hs'[q].via = hs[q].via
      BY <2>3 DEF C!End
    <3>2. ASSUME NEW q \in Pair \ {p}
          PROVE  hs'[q].status = hs[q].status
                   /\ (<<hs[q].via, q>> \in barred' => <<hs[q].via, q>> \in barred)
      BY <2>3, <3>2 DEF C!End
    <3> QED BY <3>1, <3>2
  <2>4. ASSUME NEW S \in SUBSET Pair, C!Lapse(S) PROVE C!BarredLinkNeverCurrent'
    BY <2>4 DEF C!Lapse
  <2>5. CASE UNCHANGED C!consentVars
    BY <2>5 DEF C!consentVars
  <2> QED BY <2>1, <2>2, <2>3, <2>4, <2>5 DEF C!ConsentNext
<1> QED BY <1>1, <1>2, ConsentTyped, PTL DEF C!ConsentSpec

(* An invitation whose pair was revoked never stands behind that pair      *)
(* again: the promise of Consent, through the refinement.                  *)
THEOREM RevokedLinkStaysOut == Spec => []C!BarredLinkNeverCurrent
BY NoResurrection, Refinement, PTL DEF ImplementsConsent

-----------------------------------------------------------------------------
(* The invitation behind a pair.  A row that names an invitation names one *)
(* that was minted by one of the pair's parties and, unless it is a legacy *)
(* link, is for the other party; a short one is claimed.  Without the last *)
(* the target is not inductive: a repeated redeem by another identity      *)
(* could still bind it.                                                    *)
Backs(l) == {p \in Pair : hs[p].via = l}

ViaKnown ==
  \A p \in Pair : hs[p].via # NoLink =>
    LET i == invites[hs[p].via] IN
    /\ hs[p].via \in Link /\ Minted(hs[p].via) /\ i.inviter \in Parties(p)
    /\ i.kind # "legacy" => i.target = Other(p, i.inviter)
    /\ i.kind = "short" => i.claimed # NoIdent

UsesCover ==
  \A l \in Link :
    /\ IsFiniteSet(Backs(l)) /\ Cardinality(Backs(l)) <= invites[l].uses
    /\ invites[l].uses <= invites[l].maxUses

(* Opening a ceremony takes one use that was left, and for a short         *)
(* invitation binds it; a public one is redeemed by its target.            *)
LEMMA OpenInvites ==
  ASSUME Typing, NEW q \in redeems, RedeemOpen(q)
  PROVE  /\ q.link \in Link /\ invites[q.link] \in InviteRow
         /\ \A l \in Link \ {q.link} : invites'[l] = invites[l]
         /\ invites'[q.link].kind = invites[q.link].kind
         /\ invites'[q.link].inviter = invites[q.link].inviter
         /\ invites'[q.link].maxUses = invites[q.link].maxUses
         /\ invites'[q.link].uses = invites[q.link].uses + 1
         /\ invites[q.link].uses < invites[q.link].maxUses
         /\ invites[q.link].kind # "legacy" => invites'[q.link].target = q.by
         /\ invites[q.link].kind = "short" => invites'[q.link].claimed = q.by
<1> DEFINE i == invites[q.link]
           row == IF i.kind = "short" THEN AfterClaim(q) ELSE Consumed(i)
<1>1. q.link \in Link /\ q.by \in Ident /\ i \in InviteRow
  BY RedeemPairTyped DEF Typing, TypeOK
<1>2. invites' = [invites EXCEPT ![q.link] = row] /\ StillOffered(q) /\ UseLeft(q)
  BY DEF RedeemOpen
<1>3. i.kind \in {"legacy", "public", "short"}
  BY <1>1, RedeemPairTyped DEF Typing, InvitersKnown, Minted, InviteRow, Kinds
<1>4. /\ Consumed(i) \in InviteRow /\ Consumed(i).kind = i.kind /\ Consumed(i).inviter = i.inviter
      /\ Consumed(i).maxUses = i.maxUses /\ Consumed(i).uses = i.uses + 1
      /\ Consumed(i).target = i.target
  BY <1>1 DEF Consumed, InviteRow
<1>5. i.kind = "short" =>
        /\ i.claimed = NoIdent /\ i.uses < i.maxUses /\ row = [Consumed(i) EXCEPT !.claimed = q.by, !.target = q.by]
  BY <1>1, <1>2, HandshakeAssumption DEF StillOffered, UseLeft, AfterClaim, Claimed
<1>6. i.kind # "short" => row = Consumed(i) /\ i.uses < i.maxUses
  BY <1>2 DEF UseLeft, Usable
<1>7. i.kind = "public" => i.target = q.by
  BY <1>2 DEF StillOffered
<1>8. /\ row.kind = i.kind /\ row.inviter = i.inviter /\ row.maxUses = i.maxUses
      /\ row.uses = i.uses + 1 /\ i.uses < i.maxUses
      /\ i.kind # "legacy" => row.target = q.by
      /\ i.kind = "short" => row.claimed = q.by
  <2>1. CASE i.kind = "short"
    <3> DEFINE c == Consumed(i)
    <3> HIDE DEF c
    <3>1. LET s == [c EXCEPT !.claimed = q.by, !.target = q.by] IN
          /\ s.kind = c.kind /\ s.inviter = c.inviter /\ s.maxUses = c.maxUses
          /\ s.uses = c.uses /\ s.target = q.by /\ s.claimed = q.by
      BY <1>1, <1>4 DEF InviteRow, c
    <3> HIDE DEF row, i
    <3> QED BY <2>1, <1>4, <1>5, <3>1 DEF c
  <2>2. CASE i.kind # "short"
    <3> HIDE DEF row, i
    <3> QED BY <2>2, <1>3, <1>4, <1>6, <1>7
  <2> QED BY <2>1, <2>2
<1> HIDE DEF row
<1>9. invites'[q.link] = row /\ \A l \in Link \ {q.link} : invites'[l] = invites[l]
  BY <1>1, <1>2 DEF Typing, TypeOK
<1> QED BY <1>1, <1>8, <1>9

Minting ==
  \E x \in Ident, k \in Link, kind \in Offers, life \in Lives, uses \in 1..MaxUses,
    enc \in EncVs, target \in Ident \union {NoIdent} : Mint(x, k, kind, life, uses, enc, target)
Withdrawing == \E k \in Link : RevokeInvite(k)
Repeating == \E q \in redeems : RedeemRepeat(q)

(* What any other step does to an invitation that was minted: nothing, a   *)
(* revocation, or the binding of a short one nobody had claimed.           *)
LEMMA OtherInvites ==
  ASSUME Typing, [Next]_vars, ~Opening, NEW l \in Link
  PROVE  \/ invites'[l] = invites[l]
         \/ ~Minted(l) /\ invites'[l].uses = 0 /\ invites'[l].maxUses \in Nat
         \/ /\ Minted(l) /\ Minted(l)' /\ invites'[l].kind = invites[l].kind
            /\ invites'[l].inviter = invites[l].inviter
            /\ invites'[l].maxUses = invites[l].maxUses
            /\ \/ /\ invites'[l].uses = invites[l].uses
                  /\ invites'[l].target = invites[l].target
                  /\ invites'[l].claimed = invites[l].claimed
               \/ /\ invites[l].kind = "short" /\ invites[l].claimed = NoIdent
                  /\ invites'[l].uses = invites[l].uses + 1
                  /\ invites[l].uses < invites[l].maxUses
<1> DEFINE Goal ==
         \/ invites'[l] = invites[l]
         \/ ~Minted(l) /\ invites'[l].uses = 0 /\ invites'[l].maxUses \in Nat
         \/ /\ Minted(l) /\ Minted(l)' /\ invites'[l].kind = invites[l].kind
            /\ invites'[l].inviter = invites[l].inviter
            /\ invites'[l].maxUses = invites[l].maxUses
            /\ \/ /\ invites'[l].uses = invites[l].uses
                  /\ invites'[l].target = invites[l].target
                  /\ invites'[l].claimed = invites[l].claimed
               \/ /\ invites[l].kind = "short" /\ invites[l].claimed = NoIdent
                  /\ invites'[l].uses = invites[l].uses + 1
                  /\ invites[l].uses < invites[l].maxUses
<1> USE DEF Typing, rowVars, history
<1>1. ASSUME NEW x \in Ident, NEW k \in Link, NEW kind \in Offers, NEW life \in Lives,
             NEW uses \in 1..MaxUses, NEW enc \in EncVs, NEW target \in Ident \union {NoIdent},
             Mint(x, k, kind, life, uses, enc, target)
      PROVE  Goal
  <2>1. CASE k = l
    <3>1. ~Minted(l) /\ invites'[l].uses = 0 /\ invites'[l].maxUses = uses
      BY <1>1, <2>1 DEF Mint, TypeOK, Minted
    <3> QED BY <3>1, HandshakeAssumption
  <2>2. CASE k # l
    BY <1>1, <2>2 DEF Mint, TypeOK
  <2> QED BY <2>1, <2>2
<1>2. ASSUME NEW k \in Link, RevokeInvite(k) PROVE Goal
  <2>1. CASE k = l
    <3>1. /\ invites[l] \in InviteRow /\ Minted(l)
          /\ invites'[l] = [invites[l] EXCEPT !.revoked = TRUE]
      BY <1>2, <2>1 DEF RevokeInvite, TypeOK, Minted
    <3> QED BY <3>1 DEF InviteRow, Minted
  <2>2. CASE k # l
    BY <1>2, <2>2 DEF RevokeInvite, TypeOK
  <2> QED BY <2>1, <2>2
<1>3. ASSUME NEW q \in redeems, RedeemRepeat(q) PROVE Goal
  <2>1. q.link \in Link /\ q.by \in Ident /\ invites[q.link] \in InviteRow
    BY RedeemPairTyped DEF TypeOK
  <2>2. StillOffered(q) /\ invites' = [invites EXCEPT ![q.link] = AfterClaim(q)]
    BY <1>3 DEF RedeemRepeat
  <2>3. CASE q.link = l /\ invites[l].kind = "short" /\ invites[l].claimed = NoIdent
    <3> DEFINE i == invites[l]
    <3>1. invites'[l] = Claimed(i, q.by) /\ Minted(l)
      BY <2>1, <2>2, <2>3 DEF AfterClaim, TypeOK, Minted
    <3>2. i.uses < i.maxUses
      BY <2>1, <2>2, <2>3, HandshakeAssumption DEF StillOffered
    <3>3. Claimed(i, q.by).kind = i.kind /\ Claimed(i, q.by).inviter = i.inviter
      BY <2>1, <2>3, ClaimTyped
    <3>4. Claimed(i, q.by).uses = i.uses + 1 /\ Claimed(i, q.by).maxUses = i.maxUses
      <4>1. Consumed(i).uses = i.uses + 1 /\ Consumed(i).maxUses = i.maxUses /\ Consumed(i) \in InviteRow
        BY <2>1, <2>3 DEF Consumed, InviteRow
      <4> DEFINE c == Consumed(i)
      <4> HIDE DEF c
      <4>2. LET s == [c EXCEPT !.claimed = q.by, !.target = q.by] IN
            s.uses = c.uses /\ s.maxUses = c.maxUses
        BY <4>1 DEF InviteRow, c
      <4> QED BY <4>1, <4>2 DEF Claimed, c
    <3> HIDE DEF i
    <3> QED BY <2>3, <3>1, <3>2, <3>3, <3>4 DEF i, Minted
  <2>4. CASE ~(q.link = l /\ invites[l].kind = "short" /\ invites[l].claimed = NoIdent)
    BY <2>1, <2>2, <2>4 DEF AfterClaim, TypeOK
  <2> QED BY <2>3, <2>4
<1>4. \/ UNCHANGED invites
      \/ Minting \/ Withdrawing \/ Repeating
  <2>1. ASSUME NEW q \in redeems, RedeemRefuse(q) PROVE UNCHANGED invites
    BY <2>1 DEF RedeemRefuse
  <2>2. ASSUME NEW m \in msgs, Accept(m) \/ Reaccept(m) \/ Advertise(m) \/ Drop(m)
        PROVE  UNCHANGED invites
    BY <2>2 DEF Accept, Reaccept, Advertise, Drop
  <2>3. ASSUME Tick \/ Sweep \/ UNCHANGED vars \/ (\E p \in Pair : Revoke(p)) PROVE UNCHANGED invites
    BY <2>3 DEF Tick, Sweep, Revoke, vars
  <2>4. ASSUME NEW x \in Ident, NEW k \in Link, RedeemCheck(x, k) PROVE UNCHANGED invites
    BY <2>4 DEF RedeemCheck
  <2>5. ASSUME NEW op \in {"accept", "advertise"}, NEW x \in Ident, NEW p \in Pair,
               NEW e \in EncVs \union {NoEnc}, Request(op, x, p, e)
        PROVE  UNCHANGED invites
    BY <2>5 DEF Request
  <2> QED BY <2>1, <2>2, <2>3, <2>4, <2>5 DEF Next, Opening, Minting, Withdrawing, Repeating
<1> HIDE DEF Goal
<1>5. Goal
  <2>1. CASE Minting
    BY <1>1, <2>1 DEF Minting
  <2>2. CASE Withdrawing
    BY <1>2, <2>2 DEF Withdrawing
  <2>3. CASE Repeating
    BY <1>3, <2>3 DEF Repeating
  <2>4. CASE UNCHANGED invites
    BY <2>4 DEF Goal
  <2> QED BY <1>4, <2>1, <2>2, <2>3, <2>4
<1> QED BY <1>5 DEF Goal

(* Only an opening names another invitation in a row.                      *)
LEMMA ViaMoves ==
  ASSUME Typing, [Next]_vars, ~Opening
  PROVE  \A p \in Pair : hs'[p].via = hs[p].via
<1> USE DEF Typing
<1>1. CASE SameCeremony
  BY <1>1 DEF SameCeremony
<1>2. CASE Accepting
  BY <1>2, AcceptEffect DEF Accepting
<1>3. CASE Ending
  BY <1>3, RevokeEffect DEF Ending
<1>4. CASE Sweep
  BY <1>4, SweepEffect
<1> QED BY <1>1, <1>2, <1>3, <1>4, CeremonySteps

LEMMA ViaKnownStep ==
  ASSUME Typing, ViaKnown, [Next]_vars
  PROVE  ViaKnown'
<1> SUFFICES ASSUME NEW p \in Pair, hs'[p].via # NoLink
             PROVE  LET i == invites'[hs'[p].via] IN
                    /\ hs'[p].via \in Link /\ i.kind # "unminted" /\ i.inviter \in Parties(p)
                    /\ i.kind # "legacy" => i.target = Other(p, i.inviter)
                    /\ i.kind = "short" => i.claimed # NoIdent
  BY DEF ViaKnown, Minted
<1>1. CASE hs'[p].via = hs[p].via
  <2> DEFINE l == hs[p].via
             i == invites[l]
             j == invites'[l]
  <2>1. /\ l \in Link /\ Minted(l) /\ i.inviter \in Parties(p)
        /\ i.kind # "legacy" => i.target = Other(p, i.inviter)
        /\ i.kind = "short" => i.claimed # NoIdent
    BY <1>1 DEF ViaKnown
  <2>2. ASSUME NEW q \in redeems, RedeemOpen(q), q.link # l
        PROVE  j = i
    BY <2>1, <2>2, OpenInvites
  \* A short invitation that is behind a pair is claimed: no redeem opens over it.
  <2>3. ASSUME NEW q \in redeems, RedeemOpen(q), q.link = l
        PROVE  /\ j.kind = i.kind /\ j.inviter = i.inviter
               /\ i.kind # "legacy" => j.target = i.target
               /\ i.kind # "short"
    <3>1. UseLeft(q) /\ StillOffered(q)
      BY <2>3 DEF RedeemOpen
    <3>2. i.kind # "short"
      BY <2>1, <2>3, <3>1 DEF UseLeft
    <3>3. i.kind # "legacy" => i.target = q.by
      <4>1. i.kind \in {"legacy", "public", "short"}
        BY <2>1 DEF Typing, TypeOK, InviteRow, Kinds, Minted
      <4> QED BY <2>3, <3>1, <3>2, <4>1 DEF StillOffered
    <3> QED BY <2>3, <3>2, <3>3, OpenInvites
  <2>4. CASE ~Opening
    <3>1. \/ j = i
          \/ /\ j.kind = i.kind /\ j.inviter = i.inviter
             /\ j.target = i.target /\ j.claimed = i.claimed
      BY <2>1, <2>4, OtherInvites DEF Minted
    <3> HIDE DEF i, j
    <3> QED BY <1>1, <2>1, <3>1 DEF i, j, Minted
  <2>5. j.kind # "unminted" /\ j.inviter \in Parties(p)
        /\ (j.kind # "legacy" => j.target = Other(p, j.inviter))
        /\ (j.kind = "short" => j.claimed # NoIdent)
    <3>1. CASE Opening
      BY <2>1, <2>2, <2>3, <3>1 DEF Opening, Minted
    <3>2. CASE ~Opening
      BY <1>1, <2>4, <3>2
    <3> QED BY <3>1, <3>2
  <2> QED BY <1>1, <2>1, <2>5
<1>2. CASE hs'[p].via # hs[p].via
  <2>1. PICK q \in redeems : RedeemOpen(q)
    BY <1>2, ViaMoves DEF Opening
  <2>2. p = RedeemPair(q) /\ hs'[p].via = q.link
    BY <1>2, <2>1, OpenEffect DEF Typing
  <2>3. /\ q.link \in Link /\ q.by \in Ident
        /\ invites[q.link].inviter \in Parties(p) /\ Other(p, invites[q.link].inviter) = q.by
        /\ invites[q.link].kind # "unminted"
    BY <2>2, RedeemPairTyped DEF Typing, InvitersKnown, Minted
  <2> QED BY <2>1, <2>2, <2>3, OpenInvites, HandshakeAssumption
<1> QED BY <1>1, <1>2

(* An opening gives its invitation one pair more and one use less to give; *)
(* every other row's invitation has at most the pairs it had.              *)
LEMMA UsesCoverStep ==
  ASSUME Typing, ViaKnown, UsesCover, [Next]_vars
  PROVE  UsesCover'
<1> SUFFICES ASSUME NEW l \in Link
             PROVE  /\ IsFiniteSet(Backs(l)') /\ Cardinality(Backs(l)') <= invites'[l].uses
                    /\ invites'[l].uses <= invites'[l].maxUses
  BY DEF UsesCover, Backs
<1>1. /\ IsFiniteSet(Backs(l)) /\ Cardinality(Backs(l)) <= invites[l].uses
      /\ invites[l].uses <= invites[l].maxUses /\ Cardinality(Backs(l)) \in Nat
      /\ invites[l].uses \in Nat /\ invites[l].maxUses \in Nat
  <2>1. invites[l] \in InviteRow /\ IsFiniteSet(Backs(l))
    BY DEF Typing, TypeOK, UsesCover
  <2>2. Cardinality(Backs(l)) \in Nat
    BY <2>1, FS_CardinalityType
  <2> QED BY <2>1, <2>2 DEF UsesCover, InviteRow
<1>2. ASSUME Backs(l)' \subseteq Backs(l)
      PROVE  IsFiniteSet(Backs(l)') /\ Cardinality(Backs(l)') \in Nat
               /\ Cardinality(Backs(l)') <= Cardinality(Backs(l))
  <2>1. IsFiniteSet(Backs(l)') /\ Cardinality(Backs(l)') <= Cardinality(Backs(l))
    BY <1>1, <1>2, FS_Subset
  <2> QED BY <2>1, FS_CardinalityType
<1>3. ASSUME NEW q \in redeems, RedeemOpen(q)
      PROVE  /\ IsFiniteSet(Backs(l)') /\ Cardinality(Backs(l)') <= invites'[l].uses
             /\ invites'[l].uses <= invites'[l].maxUses
  <2> DEFINE p == RedeemPair(q)
  <2>1. p \in Pair /\ hs'[p].via = q.link /\ \A r \in Pair \ {p} : hs'[r].via = hs[r].via
    BY <1>3, OpenEffect, RedeemPairTyped DEF Typing
  <2> HIDE DEF p
  <2>2. CASE l # q.link
    <3>1. Backs(l)' \subseteq Backs(l) /\ invites'[l] = invites[l]
      BY <1>3, <2>1, <2>2, OpenInvites DEF Backs
    <3> QED BY <1>1, <1>2, <3>1
  <2>3. CASE l = q.link
    <3>1. /\ invites'[l].uses = invites[l].uses + 1 /\ invites[l].uses < invites[l].maxUses
          /\ invites'[l].maxUses = invites[l].maxUses
      BY <1>3, <2>3, OpenInvites
    <3>2. Backs(l)' \subseteq Backs(l) \union {p}
      BY <2>1, <2>3 DEF Backs
    <3>3. /\ IsFiniteSet(Backs(l) \union {p}) /\ Cardinality(Backs(l) \union {p}) \in Nat
          /\ Cardinality(Backs(l) \union {p}) <= Cardinality(Backs(l)) + 1
      <4>1. /\ IsFiniteSet(Backs(l) \union {p})
            /\ Cardinality(Backs(l) \union {p}) = IF p \in Backs(l) THEN Cardinality(Backs(l))
                                                  ELSE Cardinality(Backs(l)) + 1
        BY <1>1, FS_AddElement
      <4> QED BY <1>1, <4>1
    <3>4. IsFiniteSet(Backs(l)') /\ Cardinality(Backs(l)') <= Cardinality(Backs(l) \union {p})
      BY <3>2, <3>3, FS_Subset
    <3>5. Cardinality(Backs(l)') \in Nat
      BY <3>4, FS_CardinalityType
    <3> QED BY <1>1, <3>1, <3>3, <3>4, <3>5
  <2> QED BY <2>2, <2>3
<1>4. CASE ~Opening
  <2>1. Backs(l)' = Backs(l)
    BY <1>4, ViaMoves DEF Backs
  <2>2. ~Minted(l) => Backs(l) = {}
    BY HandshakeAssumption DEF ViaKnown, Backs
  <2>3. CASE invites'[l] = invites[l]
    BY <1>1, <2>1, <2>3
  <2>4. CASE ~Minted(l) /\ invites'[l].uses = 0 /\ invites'[l].maxUses \in Nat
    <3>1. Backs(l)' = {} /\ Cardinality({}) = 0 /\ IsFiniteSet({})
      BY <2>1, <2>2, <2>4, FS_EmptySet
    <3> QED BY <2>4, <3>1
  <2>5. CASE invites'[l].maxUses = invites[l].maxUses /\
             \/ invites'[l].uses = invites[l].uses
             \/ invites'[l].uses = invites[l].uses + 1 /\ invites[l].uses < invites[l].maxUses
    <3>1. invites'[l].uses \in Nat /\ invites'[l].uses >= invites[l].uses
            /\ invites'[l].uses <= invites'[l].maxUses
      BY <1>1, <2>5
    <3> QED BY <1>1, <2>1, <3>1
  <2> QED BY <1>4, <2>3, <2>4, <2>5, OtherInvites
<1> QED BY <1>3, <1>4 DEF Opening

(* No row of a relay that was never used names an invitation.              *)
LEMMA InvitationsInit == Init => ViaKnown /\ UsesCover
<1> SUFFICES ASSUME Init PROVE ViaKnown /\ UsesCover
  OBVIOUS
<1>1. \A p \in Pair : hs[p].via = NoLink
  BY DEF Init, FirstRow
<1>2. \A l \in Link : Backs(l) = {} /\ invites[l] = Unminted
  BY <1>1, HandshakeAssumption DEF Backs, Init
<1>3. IsFiniteSet({}) /\ Cardinality({}) = 0
  BY FS_EmptySet
<1> QED BY <1>1, <1>2, <1>3 DEF ViaKnown, UsesCover, Unminted

LEMMA InvitationsHold == Spec => [](Typing /\ ViaKnown /\ UsesCover)
<1>1. Init => Typing /\ ViaKnown /\ UsesCover
  BY TypeInit, InvitationsInit DEF Typing
<1>2. (Typing /\ ViaKnown /\ UsesCover) /\ [Next]_vars => (Typing /\ ViaKnown /\ UsesCover)'
  BY TypeStep, ViaKnownStep, UsesCoverStep DEF Typing
<1> QED BY <1>1, <1>2, PTL DEF Spec

(* However redeems, repeats and revocations interleave, a pair stands on   *)
(* an invitation of one of its parties, and on a public or short one only  *)
(* with the identity it was meant for or that claimed it first.            *)
THEOREM TargetKept == Spec => []InvitationKeepsItsTarget
<1>1. Typing /\ ViaKnown /\ UsesCover => InvitationKeepsItsTarget
  BY DEF ViaKnown, InvitationKeepsItsTarget
<1> QED BY <1>1, InvitationsHold, PTL

(* An invitation never stands behind more pairs than the uses counted on   *)
(* it, and never counts more than it was minted for.                       *)
THEOREM UsesCounted == Spec => []UsesCoverPairs
<1>1. Typing /\ ViaKnown /\ UsesCover => UsesCoverPairs
  BY DEF UsesCover, UsesCoverPairs, Backs
<1> QED BY <1>1, InvitationsHold, PTL

-----------------------------------------------------------------------------
(* Encryption slots.  A row knows how it came about: a ceremony names its  *)
(* invitation, an operator's attestation names none; and only a party of a *)
(* pair is shown the handshake id that an accept or advertisement carries. *)
Provenance ==
  \A p \in Pair :
    hs[p].status # "none" =>
      \/ hs[p].prov = "ceremony" /\ hs[p].via \in Link
      \/ hs[p].prov = "operator-attested" /\ hs[p].via = NoLink

MsgsByParties == \A m \in msgs : m.by \in Parties(m.pair)

Live(p) == hs[p].status \in {"pending", "active"}

(* One pair of SlotsFollowActors, its two parties told by name.            *)
SlotsHold(p) ==
  Live(p) =>
    /\ hs[p].minterEnc = ad[p][FirstParty(p)]
    /\ hs[p].redeemerEnc = ad[p][Other(p, FirstParty(p))]
    /\ hs[p].capable = hs[p].minterEnc * hs[p].redeemerEnc

SlotsInv == Provenance /\ MsgsByParties /\ \A p \in Pair : SlotsHold(p)

LEMMA TwoParties ==
  ASSUME NEW p \in Pair, NEW x \in Parties(p)
  PROVE  /\ x \in Ident /\ Other(p, x) \in Parties(p) /\ Other(p, x) # x
         /\ \A y \in Parties(p) : y = x \/ y = Other(p, x)
         /\ Parties(p) \subseteq Ident /\ p[1] \in Parties(p)
BY HandshakeAssumption DEF Pair, Parties, Other

(* The first party of a row, whichever way it came about, is one of the    *)
(* pair, and a step that keeps the row's invitation keeps it.              *)
LEMMA FirstIsParty ==
  ASSUME Typing, RowsHaveInvitation, Provenance, NEW p \in Pair, hs[p].status # "none"
  PROVE  FirstParty(p) \in Parties(p)
BY TwoParties, HandshakeAssumption
DEF RowsHaveInvitation, Provenance, FirstParty, Parties

LEMMA FirstStays ==
  ASSUME Typing, RowsHaveInvitation, Provenance, NEW p \in Pair, hs[p].status # "none",
         InvitersFixed, hs'[p].via = hs[p].via
  PROVE  FirstParty(p)' = FirstParty(p)
BY HandshakeAssumption DEF RowsHaveInvitation, Provenance, FirstParty, InvitersFixed

(* The two other ways of telling a party's slot agree with the first.      *)
LEMMA SlotIsFirst ==
  ASSUME Typing, RowsHaveInvitation, Provenance, NEW p \in Pair, hs[p].status # "none",
         NEW x \in Parties(p)
  PROVE  /\ Slot(p, x) = IF x = FirstParty(p) THEN "minter" ELSE "redeemer"
         /\ AdvertiseSlot(p, x) = IF x = FirstParty(p) THEN "minter" ELSE "redeemer"
<1>1. CASE hs[p].prov = "ceremony" /\ hs[p].via \in Link
  BY <1>1, HandshakeAssumption DEF Slot, AdvertiseSlot, FirstParty
<1>2. CASE hs[p].prov = "operator-attested" /\ hs[p].via = NoLink
  BY <1>2 DEF Slot, AdvertiseSlot, FirstParty
<1> QED BY <1>1, <1>2 DEF Provenance

(* A party's advertisement that lands in the slot of that party, and is    *)
(* its latest, keeps the slots and their actors together.                  *)
LEMMA AdLands ==
  ASSUME Typing, NEW p \in Pair, SlotsHold(p), Live(p), FirstParty(p) \in Parties(p),
         FirstParty(p)' = FirstParty(p), NEW x \in Parties(p), NEW e \in Enc,
         hs'[p].minterEnc = IF x = FirstParty(p) THEN e ELSE hs[p].minterEnc,
         hs'[p].redeemerEnc = IF x = FirstParty(p) THEN hs[p].redeemerEnc ELSE e,
         hs'[p].capable = hs'[p].minterEnc * hs'[p].redeemerEnc,
         ad' = [ad EXCEPT ![p][x] = e]
  PROVE  SlotsHold(p)'
<1> DEFINE f == FirstParty(p)
           o == Other(p, f)
<1>1. f \in Ident /\ o \in Ident /\ f # o /\ (x = f \/ x = o)
  BY TwoParties
<1>2. ad'[p][f] = (IF x = f THEN e ELSE ad[p][f]) /\ ad'[p][o] = (IF x = o THEN e ELSE ad[p][o])
  BY <1>1 DEF Typing, TypeOK
<1>3. hs[p].minterEnc = ad[p][f] /\ hs[p].redeemerEnc = ad[p][o]
  BY DEF SlotsHold
<1>4. hs'[p].minterEnc = ad'[p][f] /\ hs'[p].redeemerEnc = ad'[p][o]
  BY <1>1, <1>2, <1>3
<1> QED BY <1>4 DEF SlotsHold, Other

(* A step that leaves a row's slots, its invitation and the pair's         *)
(* advertisements alone, and brings no row to life.                        *)
LEMMA SlotsUntouched ==
  ASSUME Typing, RowsHaveInvitation, Provenance, NEW p \in Pair, SlotsHold(p), InvitersFixed,
         Live(p)' => Live(p), hs'[p].via = hs[p].via, ad'[p] = ad[p],
         hs'[p].minterEnc = hs[p].minterEnc, hs'[p].redeemerEnc = hs[p].redeemerEnc,
         hs'[p].capable = hs[p].capable
  PROVE  SlotsHold(p)'
<1> SUFFICES ASSUME Live(p)' PROVE SlotsHold(p)'
  BY DEF SlotsHold
<1>1. FirstParty(p)' = FirstParty(p)
  BY FirstStays DEF Live
<1> QED BY <1>1 DEF SlotsHold, Other

LEMMA ProvenanceStep ==
  ASSUME Typing, Provenance, [Next]_vars
  PROVE  Provenance'
<1> SUFFICES ASSUME NEW p \in Pair, hs'[p].status # "none"
             PROVE  \/ hs'[p].prov = "ceremony" /\ hs'[p].via \in Link
                    \/ hs'[p].prov = "operator-attested" /\ hs'[p].via = NoLink
  BY DEF Provenance
<1>1. ASSUME hs[p].status # "none", hs'[p].prov = hs[p].prov, hs'[p].via = hs[p].via
      PROVE  \/ hs'[p].prov = "ceremony" /\ hs'[p].via \in Link
             \/ hs'[p].prov = "operator-attested" /\ hs'[p].via = NoLink
  BY <1>1 DEF Provenance
<1>2. CASE SameCeremony
  BY <1>1, <1>2 DEF SameCeremony
<1>3. CASE Opening
  BY <1>1, <1>3, OpenEffect, RedeemPairTyped DEF Opening, Typing
<1>4. CASE Accepting
  BY <1>1, <1>4, AcceptEffect DEF Accepting, Typing
<1>5. CASE Ending
  BY <1>1, <1>5, RevokeEffect DEF Ending, Typing
<1>6. CASE Sweep
  BY <1>1, <1>6, SweepEffect DEF Typing
<1> QED BY <1>2, <1>3, <1>4, <1>5, <1>6, CeremonySteps DEF Typing

LEMMA MsgsByPartiesStep ==
  ASSUME MsgsByParties, [Next]_vars
  PROVE  MsgsByParties'
<1> USE DEF rowVars, history
<1> SUFFICES ASSUME NEW m \in msgs', m \notin msgs PROVE m.by \in Parties(m.pair)
  BY DEF MsgsByParties
<1>1. ASSUME NEW op \in {"accept", "advertise"}, NEW x \in Ident, NEW p \in Pair,
             NEW e \in EncVs \union {NoEnc}, Request(op, x, p, e)
      PROVE  m.by \in Parties(m.pair)
  BY <1>1 DEF Request
<1>2. CASE \E q \in redeems : RedeemRepeat(q) \/ RedeemOpen(q) \/ RedeemRefuse(q)
  BY <1>2 DEF RedeemRepeat, RedeemOpen, RedeemRefuse
<1>3. CASE \E r \in msgs : Accept(r) \/ Reaccept(r) \/ Advertise(r) \/ Drop(r)
  BY <1>3 DEF Accept, Reaccept, Advertise, Drop
<1>4. CASE (\E p \in Pair : Revoke(p)) \/ Sweep \/ Tick \/ UNCHANGED vars
  BY <1>4 DEF Revoke, Sweep, Tick, vars
<1>5. CASE \E x \in Ident, l \in Link, kind \in Offers, life \in Lives, uses \in 1..MaxUses,
              enc \in EncVs, target \in Ident \union {NoIdent} :
             Mint(x, l, kind, life, uses, enc, target)
  BY <1>5 DEF Mint
<1>6. CASE (\E l \in Link : RevokeInvite(l)) \/ (\E x \in Ident, l \in Link : RedeemCheck(x, l))
  BY <1>6 DEF RevokeInvite, RedeemCheck
<1> QED BY <1>1, <1>2, <1>3, <1>4, <1>5, <1>6 DEF Next

(* WithAd writes the slot that Slot names and takes the conjunction.       *)
LEMMA WithAdSlots ==
  ASSUME TypeOK, NEW p \in Pair, NEW x, NEW e
  PROVE  LET r == WithAd(p, x, e) IN
         /\ r.minterEnc = IF Slot(p, x) = "minter" THEN e ELSE hs[p].minterEnc
         /\ r.redeemerEnc = IF Slot(p, x) = "redeemer" THEN e ELSE hs[p].redeemerEnc
         /\ r.capable = r.minterEnc * r.redeemerEnc
<1> DEFINE m == IF Slot(p, x) = "minter" THEN e ELSE hs[p].minterEnc
           s == IF Slot(p, x) = "redeemer" THEN e ELSE hs[p].redeemerEnc
           c == m * s
<1>1. hs[p] \in HsRow
  BY DEF TypeOK
<1>2. WithAd(p, x, e) = [hs[p] EXCEPT !.minterEnc = m, !.redeemerEnc = s, !.capable = c]
  BY DEF WithAd
<1> HIDE DEF m, s, c
<1>3. WithAd(p, x, e).minterEnc = m /\ WithAd(p, x, e).redeemerEnc = s
        /\ WithAd(p, x, e).capable = c
  BY <1>1, <1>2 DEF HsRow
<1>4. c = m * s
  BY DEF c
<1> QED BY <1>3, <1>4 DEF m, s

LEMMA RepeatSlots ==
  ASSUME Typing, RowsHaveInvitation, SlotsInv, NEW q \in redeems, RedeemRepeat(q), NEW p \in Pair
  PROVE  SlotsHold(p)'
<1> USE DEF Typing
<1> DEFINE k == RedeemPair(q)
           x == invites[q.link].inviter
<1>1. k \in Pair /\ x \in Parties(k) /\ SameCeremony /\ InvitersFixed
  BY RedeemPairTyped, RepeatKeeps
<1>2. SlotsHold(p) /\ (Live(p)' => Live(p)) /\ hs'[p].via = hs[p].via
  BY <1>1 DEF SlotsInv, SameCeremony, Live
<1>3. CASE Upgrades(q) /\ p = k
  <2>1. hs[p].status = "active" /\ hs' = [hs EXCEPT ![p] = WithAd(p, x, 1)]
          /\ ad' = [ad EXCEPT ![p][x] = 1]
    BY <1>3 DEF RedeemRepeat, Upgrades
  <2>2. /\ Slot(p, x) = IF x = FirstParty(p) THEN "minter" ELSE "redeemer"
        /\ FirstParty(p) \in Parties(p) /\ FirstParty(p)' = FirstParty(p)
    BY <1>1, <1>2, <1>3, <2>1, SlotIsFirst, FirstIsParty, FirstStays DEF SlotsInv
  <2> HIDE DEF k, x
  <2>3. hs'[p] = WithAd(p, x, 1)
    BY <2>1 DEF TypeOK
  <2>4. /\ hs'[p].minterEnc = IF x = FirstParty(p) THEN 1 ELSE hs[p].minterEnc
        /\ hs'[p].redeemerEnc = IF x = FirstParty(p) THEN hs[p].redeemerEnc ELSE 1
        /\ hs'[p].capable = hs'[p].minterEnc * hs'[p].redeemerEnc
    BY <2>2, <2>3, WithAdSlots
  <2>5. Live(p) /\ 1 \in Enc /\ x \in Parties(p)
    BY <1>1, <1>3, <2>1 DEF Live, Enc
  <2> QED BY <1>2, <2>1, <2>2, <2>4, <2>5, AdLands
<1>4. CASE ~(Upgrades(q) /\ p = k)
  <2>1. hs'[p] = hs[p] /\ ad'[p] = ad[p]
    <3>1. CASE Upgrades(q)
      <4>1. hs' = [hs EXCEPT ![k] = WithAd(k, x, 1)] /\ ad' = [ad EXCEPT ![k][x] = 1]
        BY <3>1 DEF RedeemRepeat
      <4> HIDE DEF k, x
      <4> QED BY <1>4, <3>1, <4>1 DEF TypeOK
    <3>2. CASE ~Upgrades(q)
      BY <3>2 DEF RedeemRepeat
    <3> QED BY <3>1, <3>2
  <2> QED BY <1>1, <1>2, <2>1, SlotsUntouched DEF SlotsInv
<1> QED BY <1>3, <1>4

LEMMA OpenSlots ==
  ASSUME Typing, RowsHaveInvitation, SlotsInv, InvitersFixed, NEW q \in redeems, RedeemOpen(q),
         NEW p \in Pair
  PROVE  SlotsHold(p)'
<1> USE DEF Typing
<1> DEFINE k == RedeemPair(q)
           i == invites[q.link]
<1>1. /\ k \in Pair /\ q.link \in Link /\ i.inviter \in Parties(k) /\ i \in InviteRow
      /\ Minted(q.link)
  BY RedeemPairTyped DEF TypeOK, InvitersKnown
<1>2. CASE p = k
  <2>1. /\ hs'[p].via = q.link /\ hs'[p].minterEnc = i.enc /\ hs'[p].redeemerEnc = 0
        /\ hs'[p].capable = 0
        /\ ad'[p] = [x \in Ident |-> IF x = i.inviter THEN i.enc ELSE 0]
    BY <1>1, <1>2 DEF RedeemOpen, TypeOK
  <2>2. FirstParty(p)' = i.inviter
    BY <1>1, <2>1, HandshakeAssumption DEF FirstParty, InvitersFixed
  <2> HIDE DEF i, k
  <2>3. /\ i.inviter \in Ident /\ Other(p, i.inviter) \in Ident
        /\ Other(p, i.inviter) # i.inviter
    BY <1>1, <1>2, TwoParties
  <2>4. i.enc * 0 = 0
    <3>1. i.enc \in Int
      BY <1>1 DEF InviteRow, Enc
    <3> QED BY <3>1
  <2> QED BY <2>1, <2>2, <2>3, <2>4 DEF SlotsHold, Other
<1>3. CASE p # k
  <2>1. hs'[p] = hs[p] /\ ad'[p] = ad[p]
    BY <1>1, <1>3 DEF RedeemOpen, TypeOK
  <2> QED BY <2>1, SlotsUntouched DEF SlotsInv, Live
<1> QED BY <1>2, <1>3

LEMMA AcceptSlots ==
  ASSUME Typing, RowsHaveInvitation, SlotsInv, InvitersFixed, NEW m \in msgs, Accept(m),
         NEW p \in Pair
  PROVE  SlotsHold(p)'
<1> USE DEF Typing
<1> DEFINE e == IF m.enc = NoEnc THEN 0 ELSE m.enc
<1>1. m.pair \in Pair /\ m.by \in Parties(m.pair) /\ e \in Enc
  BY DEF TypeOK, Msg, Enc, SlotsInv, MsgsByParties
<1>2. CASE p = m.pair
  <2>1. /\ hs[p].status = "pending" /\ hs[p].redeemer = m.by /\ hs'[p].via = hs[p].via
        /\ hs[p] \in HsRow
    BY <1>2, AcceptEffect DEF TypeOK
  <2>2. FirstParty(p) \in Parties(p) /\ FirstParty(p)' = FirstParty(p)
    BY <2>1, FirstIsParty, FirstStays DEF SlotsInv
  <2>3. m.by = Other(p, FirstParty(p)) /\ m.by # FirstParty(p)
    <3>1. hs[p].via \in Link /\ m.by = Other(p, invites[hs[p].via].inviter)
      BY <2>1 DEF RowsHaveInvitation
    <3> QED BY <2>2, <3>1, TwoParties, HandshakeAssumption DEF FirstParty
  <2>4. /\ hs'[p].minterEnc = hs[p].minterEnc /\ hs'[p].redeemerEnc = e
        /\ hs'[p].capable = hs[p].minterEnc * e /\ ad' = [ad EXCEPT ![p][m.by] = e]
    <3> DEFINE c == hs[p].minterEnc * e
    <3>1. /\ hs' = [hs EXCEPT ![p].status = "active", ![p].pendingExp = 0,
                              ![p].redeemer = NoIdent, ![p].redeemerEnc = e, ![p].capable = c]
          /\ ad' = [ad EXCEPT ![p][m.by] = e]
      BY <1>2 DEF Accept
    <3> HIDE DEF e, c
    <3>2. hs'[p].minterEnc = hs[p].minterEnc /\ hs'[p].redeemerEnc = e /\ hs'[p].capable = c
      BY <2>1, <3>1 DEF TypeOK, HsRow
    <3> QED BY <3>1, <3>2 DEF c
  <2>5. SlotsHold(p) /\ Live(p) /\ m.by \in Parties(p)
    BY <1>1, <1>2, <2>1 DEF SlotsInv, Live
  <2> HIDE DEF e
  <2> QED BY <1>1, <2>2, <2>3, <2>4, <2>5, AdLands
<1>3. CASE p # m.pair
  <2>1. hs'[p] = hs[p] /\ ad'[p] = ad[p]
    BY <1>1, <1>3 DEF Accept, TypeOK
  <2> QED BY <2>1, SlotsUntouched DEF SlotsInv, Live
<1> QED BY <1>2, <1>3

LEMMA AdvertiseSlots ==
  ASSUME Typing, RowsHaveInvitation, SlotsInv, InvitersFixed, NEW m \in msgs,
         Reaccept(m) \/ Advertise(m), NEW p \in Pair
  PROVE  SlotsHold(p)'
<1> USE DEF Typing
<1>1. m.pair \in Pair /\ m.by \in Parties(m.pair) /\ m.enc \in Enc
  BY DEF TypeOK, Msg, SlotsInv, MsgsByParties, Reaccept, Advertise
<1>2. CASE p = m.pair
  <2>1. /\ hs[p].status = "active" /\ hs[p] \in HsRow /\ hs'[p].via = hs[p].via
        /\ ad' = [ad EXCEPT ![p][m.by] = m.enc]
    BY <1>2, AdvertiseKeeps DEF Reaccept, Advertise, TypeOK, SameCeremony
  <2>2. /\ Slot(p, m.by) = IF m.by = FirstParty(p) THEN "minter" ELSE "redeemer"
        /\ AdvertiseSlot(p, m.by) = IF m.by = FirstParty(p) THEN "minter" ELSE "redeemer"
        /\ FirstParty(p) \in Parties(p) /\ FirstParty(p)' = FirstParty(p)
    BY <1>1, <1>2, <2>1, SlotIsFirst, FirstIsParty, FirstStays DEF SlotsInv
  <2>3. /\ hs'[p].minterEnc = IF m.by = FirstParty(p) THEN m.enc ELSE hs[p].minterEnc
        /\ hs'[p].redeemerEnc = IF m.by = FirstParty(p) THEN hs[p].redeemerEnc ELSE m.enc
        /\ hs'[p].capable = hs'[p].minterEnc * hs'[p].redeemerEnc
    <3>1. CASE Reaccept(m)
      <4>1. hs'[p] = WithAd(p, m.by, m.enc)
        BY <1>1, <1>2, <3>1 DEF Reaccept, TypeOK
      <4> QED BY <2>2, <4>1, WithAdSlots
    <3>2. CASE Advertise(m)
      <4> DEFINE a == IF AdvertiseSlot(p, m.by) = "minter" THEN m.enc ELSE hs[p].minterEnc
                 b == IF AdvertiseSlot(p, m.by) = "redeemer" THEN m.enc
                      ELSE hs[p].redeemerEnc
                 c == a * b
      <4>1. hs' = [hs EXCEPT ![p].minterEnc = a, ![p].redeemerEnc = b, ![p].capable = c]
        BY <1>2, <3>2 DEF Advertise
      <4> HIDE DEF a, b, c
      <4>2. hs'[p].minterEnc = a /\ hs'[p].redeemerEnc = b /\ hs'[p].capable = c
        BY <2>1, <4>1 DEF TypeOK, HsRow
      <4>3. c = a * b
        BY DEF c
      <4> QED BY <2>2, <4>2, <4>3 DEF a, b
    <3> QED BY <3>1, <3>2
  <2>4. SlotsHold(p) /\ Live(p)
    BY <2>1 DEF SlotsInv, Live
  <2> QED BY <1>1, <1>2, <2>1, <2>2, <2>3, <2>4, AdLands
<1>3. CASE p # m.pair
  <2>1. hs'[p] = hs[p] /\ ad'[p] = ad[p]
    <3>1. CASE Reaccept(m)
      BY <1>1, <1>3, <3>1 DEF Reaccept, TypeOK
    <3>2. CASE Advertise(m)
      BY <1>1, <1>3, <3>2 DEF Advertise, TypeOK
    <3> QED BY <3>1, <3>2
  <2> QED BY <2>1, SlotsUntouched DEF SlotsInv, Live
<1> QED BY <1>2, <1>3

LEMMA SlotsStep ==
  ASSUME Typing, RowsHaveInvitation, SlotsInv, [Next]_vars
  PROVE  SlotsInv'
<1> USE DEF rowVars, history
<1>1. InvitersFixed
  BY CeremonySteps DEF Typing
<1> SUFFICES ASSUME NEW p \in Pair PROVE SlotsHold(p)'
  BY ProvenanceStep, MsgsByPartiesStep DEF SlotsInv
<1>2. ASSUME ad'[p] = ad[p], hs'[p] = hs[p] PROVE SlotsHold(p)'
  BY <1>1, <1>2, SlotsUntouched DEF SlotsInv, Live
<1>3. CASE Tick \/ UNCHANGED vars
  BY <1>2, <1>3 DEF Tick, vars
<1>4. CASE \E x \in Ident, l \in Link, kind \in Offers, life \in Lives, uses \in 1..MaxUses,
              enc \in EncVs, target \in Ident \union {NoIdent} :
             Mint(x, l, kind, life, uses, enc, target)
  BY <1>2, <1>4 DEF Mint
<1>5. CASE (\E l \in Link : RevokeInvite(l)) \/ (\E x \in Ident, l \in Link : RedeemCheck(x, l))
  BY <1>2, <1>5 DEF RevokeInvite, RedeemCheck
<1>6. ASSUME NEW q \in redeems, RedeemRepeat(q) \/ RedeemOpen(q) \/ RedeemRefuse(q)
      PROVE  SlotsHold(p)'
  BY <1>1, <1>2, <1>6, RepeatSlots, OpenSlots DEF RedeemRefuse
<1>7. CASE \E op \in {"accept", "advertise"}, x \in Ident, r \in Pair,
              e \in EncVs \union {NoEnc} : Request(op, x, r, e)
  BY <1>2, <1>7 DEF Request
<1>8. ASSUME NEW m \in msgs, Accept(m) \/ Reaccept(m) \/ Advertise(m) \/ Drop(m)
      PROVE  SlotsHold(p)'
  BY <1>1, <1>2, <1>8, AcceptSlots, AdvertiseSlots DEF Drop
<1>9. ASSUME NEW r \in Pair, Revoke(r) PROVE SlotsHold(p)'
  <2>1. p = r => ~Live(p)'
    BY <1>9, RevokeEffect DEF Typing, Live
  <2>2. p # r => hs'[p] = hs[p] /\ ad'[p] = ad[p]
    BY <1>9 DEF Revoke, Typing, TypeOK
  <2> QED BY <1>2, <2>1, <2>2 DEF SlotsHold
<1>10. CASE Sweep
  <2>1. ad' = ad /\ (hs'[p] = hs[p] \/ ~Live(p)')
    BY <1>10, SweepEffect DEF Sweep, Typing, Live
  <2> QED BY <1>2, <2>1 DEF SlotsHold
<1> QED BY <1>3, <1>4, <1>5, <1>6, <1>7, <1>8, <1>9, <1>10 DEF Next

LEMMA SlotsInit == Init => RowsHaveInvitation /\ SlotsInv
<1> SUFFICES ASSUME Init PROVE RowsHaveInvitation /\ SlotsInv
  OBVIOUS
<1>1. RowsHaveInvitation
  BY InitStrong
<1>2. Provenance /\ MsgsByParties
  BY DEF Init, FirstRow, Provenance, MsgsByParties
<1>3. ASSUME NEW p \in Pair PROVE SlotsHold(p)
  <2>1. hs[p].via = NoLink /\ hs[p].minterEnc = 0 /\ hs[p].redeemerEnc = 0 /\ hs[p].capable = 0
          /\ ad[p] = [x \in Ident |-> 0]
    BY DEF Init, FirstRow
  <2>2. FirstParty(p) \in Ident /\ Other(p, FirstParty(p)) \in Ident
    BY <2>1, TwoParties DEF FirstParty, Parties
  <2> QED BY <2>1, <2>2 DEF SlotsHold
<1> QED BY <1>1, <1>2, <1>3 DEF SlotsInv

(* In every live row each encryption slot holds what its own party last    *)
(* advertised, whichever of the mint, the accept, the repeated accept, the *)
(* advertisement and the upgrading redeem wrote it and whether the slot    *)
(* was told by invitation, by provenance or by order; and a pair is        *)
(* capable exactly when both parties said so.                              *)
THEOREM SlotsAreTheActors == Spec => []SlotsFollowActors
<1>1. Typing /\ SlotsInv => SlotsFollowActors
  <2> SUFFICES ASSUME Typing, SlotsInv, NEW p \in Pair, Live(p)
               PROVE  /\ hs[p].minterEnc = ad[p][FirstParty(p)]
                      /\ hs[p].redeemerEnc = ad[p][Other(p, FirstParty(p))]
                      /\ hs[p].capable = 1 <=> ad[p][FirstParty(p)] = 1
                                              /\ ad[p][Other(p, FirstParty(p))] = 1
    BY DEF SlotsFollowActors, Live
  <2>1. hs[p].minterEnc \in {0, 1} /\ hs[p].redeemerEnc \in {0, 1}
    BY DEF Typing, TypeOK, HsRow, Enc
  <2>2. \A m, r \in {0, 1} : m * r = 1 <=> m = 1 /\ r = 1
    OBVIOUS
  <2> QED BY <2>1, <2>2 DEF SlotsInv, SlotsHold
<1>2. Init => Typing /\ RowsHaveInvitation /\ SlotsInv
  BY TypeInit, SlotsInit DEF Typing
<1>3. (Typing /\ RowsHaveInvitation /\ SlotsInv) /\ [Next]_vars
        => (Typing /\ RowsHaveInvitation /\ SlotsInv)'
  BY TypeStep, RowsStep, SlotsStep DEF Typing
<1> QED BY <1>1, <1>2, <1>3, PTL DEF Spec

-----------------------------------------------------------------------------
(* The clients of a pair: what they make of its encryption capability when *)
(* they send and poll.  ClientMail on variables of its own.                *)
CONSTANTS Senders, Receiver, Commands, Configs, RequireEncrypted, MaxKeys, MaxChanges
VARIABLES config, pair, key, sends, mail, poll, epoch, saw
Mail == INSTANCE ClientMail

(* What a choice of the client is worth as long as the pair and the key    *)
(* stay as they were when it was made.                                     *)
Chosen(c, r) ==
  /\ r.at <= epoch[c.from]
  /\ ~c.forced /\ config[c.from] = "identity" =>
       /\ r.form = "plain" =>
            /\ "incapable" \in saw.send[c]
            /\ epoch[c.from] = r.at => Mail!Shown(pair[c.from]) = "incapable"
       /\ r.form = "enc" /\ epoch[c.from] = r.at => r.key = key

(* A command under way has seen the state its pair is in; what it chose,   *)
(* and what is in the queue, was chosen so; a command sends once.          *)
SendInv ==
  /\ \A c \in Commands :
       /\ sends[c].pc = "looking" => Mail!Shown(pair[c.from]) \in saw.send[c]
       /\ sends[c].pc = "ready" => Chosen(c, sends[c])
  /\ \A i \in DOMAIN mail :
       sends[mail[i].cmd].pc = "sent" /\ Chosen(mail[i].cmd, mail[i])

(* What a poll remembers of a pair it has seen, and what it fetched it     *)
(* judges as the sender did, unless something changed.                     *)
PollInv ==
  /\ poll.pc = "busy" => \A s \in Senders : Mail!Shown(pair[s]) \in saw.poll[s]
  /\ \A s \in Senders : poll.cache[s] \in {"none", "unknown"} \union saw.poll[s]
  /\ \A i \in poll.todo :
       Mail!Agreed(mail[i]) /\ epoch[Mail!Sender(i)] = mail[i].at =>
         IF mail[i].form = "plain" THEN poll.cache[Mail!Sender(i)] # "capable"
                                   ELSE mail[i].key = poll.key

ClientInv ==
  /\ Mail!TypeOK /\ SendInv /\ PollInv
  /\ Mail!ClearByAgreement /\ Mail!RefusalHasACause

LEMMA MailTypes ==
  ASSUME Mail!ClientMailAssumption, Mail!TypeOK
  PROVE  /\ \A i \in DOMAIN mail : mail[i] \in Mail!Rows /\ Mail!Sender(i) \in Senders
         /\ \A c \in Commands : c.from \in Senders
         /\ DOMAIN mail = 1..Len(mail) /\ Len(mail) \in Nat
         /\ \A s \in Senders : Mail!Shown(pair[s]) \in Mail!States
<1>1. \A i \in DOMAIN mail : mail[i] \in Mail!Rows
  BY DEF Mail!TypeOK
<1>2. \A i \in DOMAIN mail : Mail!Sender(i) \in Senders
  BY <1>1 DEF Mail!Sender, Mail!Rows, Mail!ClientMailAssumption
<1>3. \A s \in Senders : Mail!Shown(pair[s]) \in Mail!States
  BY DEF Mail!Shown, Mail!States
<1> QED BY <1>1, <1>2, <1>3 DEF Mail!ClientMailAssumption, Mail!TypeOK

LEMMA ClientInit == ASSUME Mail!ClientMailAssumption, Mail!Init PROVE ClientInv
<1>1. DOMAIN mail = {} /\ mail \in Seq(Mail!Rows)
  BY DEF Mail!Init
<1>2. Mail!TypeOK
  BY <1>1 DEF Mail!Init, Mail!TypeOK, Mail!ClientMailAssumption, Mail!NoPair, Mail!Pairs, Mail!Idle,
     Mail!Choices, Mail!SendStates, Mail!Forms, Mail!None, Mail!States
<1> QED
  BY <1>1, <1>2 DEF Mail!Init, ClientInv, SendInv, PollInv, Mail!ClearByAgreement,
     Mail!RefusalHasACause, Mail!Idle, Mail!None

-----------------------------------------------------------------------------
(* The choice itself.                                                      *)
LEMMA PrepareStep ==
  ASSUME Mail!ClientMailAssumption, ClientInv, NEW c \in Commands, Mail!Prepares(c)
  PROVE  ClientInv'
<1> USE DEF ClientInv
<1>1. c.from \in Senders /\ Mail!Shown(pair[c.from]) \in Mail!States
        /\ sends[c].pc = "idle" /\ sends[c] \in Mail!Choices /\ Mail!Refused \in Mail!Choices
  BY MailTypes DEF Mail!Prepares, Mail!TypeOK, Mail!Refused, Mail!Choices, Mail!SendStates
<1>2. /\ UNCHANGED <<config, pair, key, mail, poll, epoch>>
      /\ \A d \in Commands \ {c} : sends'[d] = sends[d] /\ saw'.send[d] = saw.send[d]
      /\ saw'.poll = saw.poll
      /\ sends'[c].pc \in {"looking", "refused"}
      /\ sends'[c].pc = "looking" => saw'.send[c] = {Mail!Shown(pair[c.from])}
      /\ sends' \in [Commands -> Mail!Choices]
      /\ saw' \in [send : [Commands -> SUBSET Mail!States], poll : [Senders -> SUBSET Mail!States]]
  <2>1. CASE config[c.from] = "broken"
    <3>1. sends' = [sends EXCEPT ![c] = Mail!Refused] /\ saw' = saw
      BY <2>1 DEF Mail!Prepares
    <3>2. Mail!Refused.pc = "refused"
      BY DEF Mail!Refused
    <3> QED BY <1>1, <3>1, <3>2 DEF Mail!Prepares, Mail!TypeOK
  <2>2. CASE config[c.from] # "broken"
    <3> DEFINE row == [sends[c] EXCEPT !.pc = "looking"]
    <3>1. /\ sends' = [sends EXCEPT ![c] = row]
          /\ saw' = [saw EXCEPT !.send[c] = {Mail!Shown(pair[c.from])}]
      BY <2>2 DEF Mail!Prepares, Mail!TypeOK
    <3>2. row \in Mail!Choices /\ row.pc = "looking"
      BY <1>1 DEF Mail!Choices, Mail!SendStates
    <3> HIDE DEF row
    <3> QED BY <1>1, <3>1, <3>2 DEF Mail!Prepares, Mail!TypeOK
  <2> QED BY <2>1, <2>2
<1>3. Mail!TypeOK'
  BY <1>2 DEF Mail!TypeOK, Mail!None
<1>4. \A d \in Commands \ {c} : Chosen(d, sends[d])' = Chosen(d, sends[d])
  BY <1>2 DEF Chosen
<1>5. \A i \in DOMAIN mail : mail[i].cmd # c /\ mail[i].cmd \in Commands
  BY <1>1, MailTypes DEF SendInv, Mail!Rows
<1>6. SendInv'
  BY <1>2, <1>5 DEF SendInv, Chosen
<1>7. PollInv' /\ Mail!ClearByAgreement' /\ Mail!RefusalHasACause'
  BY <1>2, <1>5 DEF PollInv, Mail!ClearByAgreement, Mail!RefusalHasACause, Mail!Agreed, Mail!Sender, Mail!TypeOK
<1> QED BY <1>3, <1>6, <1>7

(* The choice, at a moment of the lookup.                                  *)
LEMMA EncryptStep ==
  ASSUME Mail!ClientMailAssumption, ClientInv, NEW c \in Commands, Mail!Encrypts(c)
  PROVE  ClientInv'
<1> USE DEF ClientInv
<1>1. c.from \in Senders /\ Mail!Shown(pair[c.from]) \in Mail!States /\ key \in Nat
        /\ epoch[c.from] \in Nat /\ sends[c].pc = "looking"
  BY MailTypes DEF Mail!Encrypts, Mail!TypeOK
<1>2. PICK r \in IF c.forced \/ config[c.from] = "legacy" THEN {Mail!Plain}
                 ELSE {Mail!Chooses(st) : st \in Mail!Lookups(c.from)} :
        sends' = [sends EXCEPT ![c] = [r EXCEPT !.at = epoch[c.from]]]
  BY DEF Mail!Encrypts
<1> DEFINE row == [r EXCEPT !.at = epoch[c.from]]
<1>3. /\ r \in {Mail!Plain, Mail!Encrypted, Mail!Refused}
      /\ ~c.forced /\ config[c.from] = "identity" =>
           (r = Mail!Plain => "incapable" = Mail!Shown(pair[c.from]))
  <2>1. CASE c.forced \/ config[c.from] = "legacy"
    BY <1>2, <2>1
  <2>2. CASE ~(c.forced \/ config[c.from] = "legacy")
    <3>1. PICK st \in Mail!Lookups(c.from) : r = Mail!Chooses(st)
      BY <1>2, <2>2
    <3>2. st \in {"capable", "incapable", "unknown"}
      BY <1>1, <3>1 DEF Mail!Lookups, Mail!States
    <3>3. st # "incapable" => Mail!Chooses(st) \in {Mail!Encrypted, Mail!Refused}
      BY <3>2 DEF Mail!Chooses
    <3>4. Mail!Plain \notin {Mail!Encrypted, Mail!Refused}
      BY DEF Mail!Plain, Mail!Encrypted, Mail!Refused
    <3>5. st = "incapable" => st = Mail!Shown(pair[c.from])
      BY <3>1 DEF Mail!Lookups
    <3>6. Mail!Chooses(st) \in {Mail!Plain, Mail!Encrypted, Mail!Refused}
      BY <3>2 DEF Mail!Chooses
    <3> QED BY <3>1, <3>3, <3>4, <3>5, <3>6
  <2> QED BY <2>1, <2>2
<1>4. /\ row \in Mail!Choices /\ row.pc \in {"ready", "refused"} /\ row.at = epoch[c.from]
      /\ row.pc = "ready" => row.form \in {"plain", "enc"}
      /\ row.pc = "ready" /\ row.form = "plain" => r = Mail!Plain
      /\ row.pc = "ready" /\ row.form = "enc" => row.key = key
  BY <1>1, <1>3 DEF Mail!Plain, Mail!Encrypted, Mail!Refused, Mail!Choices, Mail!SendStates, Mail!Forms,
     Mail!None
<1> HIDE DEF row
<1>5. /\ UNCHANGED <<config, pair, key, mail, poll, epoch, saw>>
      /\ sends' = [sends EXCEPT ![c] = row]
      /\ sends' \in [Commands -> Mail!Choices]
      /\ sends'[c] = row /\ \A d \in Commands \ {c} : sends'[d] = sends[d]
  <2>1. sends' = [sends EXCEPT ![c] = row]
    BY <1>2 DEF row
  <2> QED BY <1>4, <2>1 DEF Mail!Encrypts, Mail!TypeOK
<1>6. Mail!TypeOK'
  BY <1>4, <1>5 DEF Mail!TypeOK, Mail!Forms
<1>7. row.pc = "ready" => Chosen(c, row)
  <2>1. epoch[c.from] <= epoch[c.from]
    BY <1>1
  <2> QED BY <1>1, <1>3, <1>4, <2>1 DEF SendInv, Chosen
<1>8. \A i \in DOMAIN mail : mail[i].cmd # c /\ mail[i].cmd \in Commands
  BY <1>1, MailTypes DEF SendInv, Mail!Rows
<1>9. SendInv'
  BY <1>4, <1>5, <1>7, <1>8 DEF SendInv, Chosen
<1>10. PollInv' /\ Mail!ClearByAgreement' /\ Mail!RefusalHasACause'
  BY <1>5 DEF PollInv, Mail!ClearByAgreement, Mail!RefusalHasACause, Mail!Agreed, Mail!Sender
<1> QED BY <1>6, <1>9, <1>10

(* What is sent is what was chosen.                                        *)
LEMMA PostStep ==
  ASSUME Mail!ClientMailAssumption, ClientInv, NEW c \in Commands, Mail!Posts(c)
  PROVE  ClientInv'
<1> USE DEF ClientInv
<1> DEFINE m == Mail!Message(c, sends[c])
           pc == IF Mail!Accepted(c, sends[c]) THEN "sent" ELSE "refused"
           row == [sends[c] EXCEPT !.pc = pc]
<1>1. sends[c] \in Mail!Choices /\ sends[c].pc = "ready" /\ sends[c].form \in Mail!Forms
        /\ mail \in Seq(Mail!Rows)
  BY DEF Mail!Posts, Mail!TypeOK
<1>2. m \in Mail!Rows /\ m.cmd = c /\ m.form = sends[c].form /\ m.key = sends[c].key
        /\ m.at = sends[c].at
  BY <1>1 DEF Mail!Message, Mail!Rows, Mail!Choices
<1>3. row \in Mail!Choices /\ row.pc = pc
  BY <1>1 DEF Mail!Choices, Mail!SendStates
<1>4. /\ UNCHANGED <<config, pair, key, poll, epoch, saw>>
      /\ sends' = [sends EXCEPT ![c] = row]
      /\ mail' = mail \/ (mail' = Append(mail, m) /\ pc = "sent")
  <2>1. CASE Mail!Accepted(c, sends[c])
    BY <2>1 DEF Mail!Posts
  <2>2. CASE ~Mail!Accepted(c, sends[c])
    BY <2>2 DEF Mail!Posts
  <2> QED BY <2>1, <2>2
<1> HIDE DEF m, row, pc
<1>5. sends' \in [Commands -> Mail!Choices] /\ sends'[c] = row
        /\ \A d \in Commands \ {c} : sends'[d] = sends[d]
  BY <1>3, <1>4 DEF Mail!TypeOK
<1>6. /\ mail' \in Seq(Mail!Rows) /\ DOMAIN mail \subseteq DOMAIN mail'
      /\ \A i \in DOMAIN mail : mail'[i] = mail[i]
      /\ \A i \in DOMAIN mail' \ DOMAIN mail : mail'[i] = m /\ pc = "sent"
  BY <1>1, <1>2, <1>4
<1>7. pc \in {"sent", "refused"}
  BY DEF pc
<1>8. Mail!TypeOK'
  <2>1. poll' \in [pc : {"idle", "busy"}, todo : SUBSET DOMAIN mail', key : Nat,
                   cache : [Senders -> Mail!States \union {"none"}],
                   kept : SUBSET DOMAIN mail', rejected : SUBSET DOMAIN mail']
    BY <1>4, <1>6 DEF Mail!TypeOK, Mail!None
  <2> QED BY <1>3, <1>4, <1>5, <1>6, <1>7, <2>1 DEF Mail!TypeOK, Mail!None
<1>9. SendInv'
  <2>2. Chosen(c, sends[c]) => Chosen(c, m)
    BY <1>2 DEF Chosen
  <2>3. ASSUME NEW i \in DOMAIN mail'
        PROVE  sends'[mail'[i].cmd].pc = "sent" /\ Chosen(mail[i].cmd, mail[i])'
    <3>1. CASE i \in DOMAIN mail
      <4>1. mail[i].cmd \in Commands /\ mail[i].cmd # c
        BY <1>1, <3>1, MailTypes DEF SendInv, Mail!Rows
      <4> QED BY <1>4, <1>5, <1>6, <3>1, <4>1 DEF SendInv, Chosen
    <3>2. CASE i \notin DOMAIN mail
      <4>1. mail'[i] = m /\ sends'[c].pc = "sent" /\ Chosen(c, m)
        BY <1>1, <1>3, <1>5, <1>6, <2>2, <3>2 DEF SendInv
      <4> QED BY <1>2, <1>4, <4>1 DEF Chosen
    <3> QED BY <3>1, <3>2
  <2>4. ASSUME NEW d \in Commands
        PROVE  /\ sends'[d].pc = "looking" => Mail!Shown(pair'[d.from]) \in saw'.send[d]
               /\ sends'[d].pc = "ready" => Chosen(d, sends[d])'
    BY <1>3, <1>4, <1>5, <1>7 DEF SendInv, Chosen
  <2> QED BY <2>3, <2>4 DEF SendInv
<1>10. poll.kept \subseteq DOMAIN mail /\ poll.rejected \subseteq DOMAIN mail
         /\ poll.todo \subseteq DOMAIN mail
  BY DEF Mail!TypeOK
<1>11. PollInv' /\ Mail!ClearByAgreement' /\ Mail!RefusalHasACause'
  BY <1>4, <1>6, <1>10 DEF PollInv, Mail!ClearByAgreement, Mail!RefusalHasACause, Mail!Agreed, Mail!Sender
<1> QED BY <1>8, <1>9, <1>11

-----------------------------------------------------------------------------
(* The poll.  Its steps move the fetched rows to one side or the other and *)
(* write down what a lookup answered.                                      *)
LEMMA PollFrame ==
  ASSUME ClientInv, UNCHANGED <<config, pair, key, sends, mail, epoch>>, saw'.send = saw.send
  PROVE  SendInv'
BY DEF ClientInv, SendInv, Chosen

LEMMA FetchStep ==
  ASSUME Mail!ClientMailAssumption, ClientInv, Mail!Fetches
  PROVE  ClientInv'
<1> USE DEF ClientInv
<1> DEFINE seen == [s \in Senders |-> {Mail!Shown(pair[s])}]
<1>1. /\ UNCHANGED <<config, pair, key, sends, mail, epoch>>
      /\ saw'.send = saw.send /\ saw'.poll = seen
      /\ saw' \in [send : [Commands -> SUBSET Mail!States], poll : [Senders -> SUBSET Mail!States]]
  <2>1. seen \in [Senders -> SUBSET Mail!States]
    BY MailTypes
  <2>2. saw' = [saw EXCEPT !.poll = seen]
    BY DEF Mail!Fetches
  <2> HIDE DEF seen
  <2> QED BY <2>1, <2>2 DEF Mail!Fetches, Mail!TypeOK
<1>2. /\ poll' = [pc |-> "busy", todo |-> Mail!Queued, key |-> key, cache |-> Mail!NewCache,
                  kept |-> {}, rejected |-> {}]
      /\ Mail!NewCache = [s \in Senders |-> "none"] /\ Mail!Queued \subseteq DOMAIN mail
      /\ key \in Nat
  BY DEF Mail!Fetches, Mail!NewCache, Mail!None, Mail!Queued, Mail!TypeOK
<1>3. Mail!TypeOK'
  BY <1>1, <1>2 DEF Mail!TypeOK, Mail!None
<1>4. PollInv'
  <2>1. ASSUME NEW i \in DOMAIN mail, Mail!Agreed(mail[i]), epoch[Mail!Sender(i)] = mail[i].at,
               mail[i].form # "plain"
        PROVE  mail[i].key = key
    BY <2>1, MailTypes DEF SendInv, Chosen, Mail!Agreed, Mail!Sender, Mail!Rows, Mail!Forms
  <2>2. \A s \in Senders : poll'.cache[s] = "none" /\ saw'.poll[s] = {Mail!Shown(pair[s])}
    BY <1>1, <1>2
  <2>3. \A i \in DOMAIN mail : Mail!Sender(i) \in Senders
    BY MailTypes
  <2> QED
    BY <1>1, <1>2, <2>1, <2>2, <2>3 DEF PollInv, Mail!Agreed, Mail!Sender
<1>5. SendInv'
  BY <1>1, PollFrame
<1>6. Mail!ClearByAgreement' /\ Mail!RefusalHasACause'
  BY <1>2 DEF Mail!ClearByAgreement, Mail!RefusalHasACause
<1> QED BY <1>3, <1>4, <1>5, <1>6

(* Asking for a pair: what comes back is what it shows, or nothing.        *)
LEMMA AskStep ==
  ASSUME Mail!ClientMailAssumption, ClientInv, NEW i \in poll.todo, Mail!Asks(i)
  PROVE  ClientInv'
<1> USE DEF ClientInv
<1> DEFINE s == Mail!Sender(i)
<1>1. UNCHANGED <<config, pair, key, sends, mail, epoch, saw>> /\ poll.pc = "busy"
  BY DEF Mail!Asks, Mail!Untouched, Mail!Checking, Mail!Turn
<1>2. i \in DOMAIN mail /\ s \in Senders /\ Mail!Shown(pair[s]) \in Mail!States
  <2>1. i \in DOMAIN mail
    BY DEF Mail!TypeOK
  <2> QED BY <2>1, MailTypes
<1>3. PICK st \in {Mail!Shown(pair[s]), "unknown"} :
        poll.cache[s] = "none" /\ poll' = [poll EXCEPT !.cache[s] = st]
  BY DEF Mail!Asks, Mail!Lookups, Mail!LooksUp, Mail!None
<1> HIDE DEF s
<1>4. /\ poll'.cache[s] = st /\ \A r \in Senders \ {s} : poll'.cache[r] = poll.cache[r]
      /\ poll'.pc = poll.pc /\ poll'.todo = poll.todo /\ poll'.key = poll.key
      /\ poll'.kept = poll.kept /\ poll'.rejected = poll.rejected
      /\ poll' \in [pc : {"idle", "busy"}, todo : SUBSET DOMAIN mail, key : Nat,
                    cache : [Senders -> Mail!States \union {"none"}],
                    kept : SUBSET DOMAIN mail, rejected : SUBSET DOMAIN mail]
  BY <1>2, <1>3 DEF Mail!TypeOK, Mail!None, Mail!States
<1>5. Mail!TypeOK'
  BY <1>1, <1>4 DEF Mail!TypeOK, Mail!None
<1>6. PollInv'
  <2>1. st \in {"none", "unknown"} \union saw.poll[s]
    BY <1>1, <1>2, <1>3 DEF PollInv
  <2>2. ASSUME NEW j \in poll.todo, Mail!Sender(j) = s, Mail!Agreed(mail[j]), epoch[s] = mail[j].at,
               mail[j].form = "plain"
        PROVE  st # "capable"
    <3>1. j \in DOMAIN mail
      BY DEF Mail!TypeOK
    <3>2. Mail!Shown(pair[s]) = "incapable"
      BY <2>2, <3>1 DEF SendInv, Chosen, Mail!Agreed, Mail!Sender
    <3> QED BY <1>3, <3>2
  <2>3. \A j \in poll.todo : Mail!Sender(j) \in Senders
    BY MailTypes DEF Mail!TypeOK
  <2> QED BY <1>1, <1>2, <1>4, <2>1, <2>2, <2>3 DEF PollInv, Mail!Agreed, Mail!Sender
<1>7. SendInv'
  BY <1>1, PollFrame
<1>8. Mail!ClearByAgreement' /\ Mail!RefusalHasACause'
  <2>1. \A j \in poll.rejected : Mail!Sender(j) \in Senders
    BY MailTypes DEF Mail!TypeOK
  <2>2. \A r \in Senders : poll.cache[r] = "unknown" => poll'.cache[r] = "unknown"
    BY <1>3, <1>4
  <2> QED
    BY <1>1, <1>4, <2>1, <2>2 DEF Mail!ClearByAgreement, Mail!RefusalHasACause, Mail!Agreed, Mail!Sender
<1> QED BY <1>5, <1>6, <1>7, <1>8

(* A row is judged: kept or rejected, and for a reason.                    *)
LEMMA JudgeStep ==
  ASSUME Mail!ClientMailAssumption, ClientInv, NEW i \in poll.todo,
         Mail!TakesAll(i) \/ Mail!AdmitsPlain(i) \/ Mail!Decrypts(i)
  PROVE  ClientInv'
<1> USE DEF ClientInv
<1>1. UNCHANGED <<config, pair, key, sends, mail, epoch, saw>>
  BY DEF Mail!TakesAll, Mail!AdmitsPlain, Mail!Decrypts, Mail!Untouched
<1>2. i \in DOMAIN mail /\ Mail!Sender(i) \in Senders /\ mail[i] \in Mail!Rows
  <2>1. i \in DOMAIN mail
    BY DEF Mail!TypeOK
  <2> QED BY <2>1, MailTypes
<1>3. Mail!Keeps(i) \/ Mail!Rejects(i)
  BY DEF Mail!TakesAll, Mail!AdmitsPlain, Mail!Decrypts
<1>4. /\ poll'.pc = poll.pc /\ poll'.todo = poll.todo \ {i} /\ poll'.key = poll.key
      /\ poll'.cache = poll.cache
      /\ poll'.kept \subseteq poll.kept \union {i} /\ poll'.rejected \subseteq poll.rejected \union {i}
      /\ Mail!Keeps(i) => poll'.rejected = poll.rejected
      /\ Mail!Rejects(i) => poll'.kept = poll.kept
  BY <1>3 DEF Mail!Keeps, Mail!Rejects, Mail!TypeOK
<1>5. Mail!TypeOK'
  <2>1. poll' \in [pc : {"idle", "busy"}, todo : SUBSET DOMAIN mail, key : Nat,
                   cache : [Senders -> Mail!States \union {"none"}],
                   kept : SUBSET DOMAIN mail, rejected : SUBSET DOMAIN mail]
    <3>1. CASE Mail!Keeps(i)
      BY <1>2, <3>1 DEF Mail!Keeps, Mail!TypeOK, Mail!None
    <3>2. CASE Mail!Rejects(i)
      BY <1>2, <3>2 DEF Mail!Rejects, Mail!TypeOK, Mail!None
    <3> QED BY <1>3, <3>1, <3>2
  <2> QED BY <1>1, <2>1 DEF Mail!TypeOK, Mail!None
<1>6. PollInv'
  BY <1>1, <1>4 DEF PollInv, Mail!Agreed, Mail!Sender
<1>7. SendInv'
  BY <1>1, PollFrame
<1>8. ASSUME config[Receiver] = "identity", i \in poll'.kept, i \notin poll.kept,
             mail[i].form = "plain"
      PROVE  /\ "incapable" \in saw.poll[Mail!Sender(i)]
             /\ Mail!Agreed(mail[i]) => "incapable" \in saw.send[mail[i].cmd]
  <2>1. Mail!AdmitsPlain(i) /\ Mail!Keeps(i)
    BY <1>4, <1>3, <1>8 DEF Mail!TakesAll, Mail!Decrypts, Mail!Checking
  <2>2. poll.cache[Mail!Sender(i)] = "incapable"
    <3>1. ~Mail!LetsIn(poll.cache[Mail!Sender(i)]) => Mail!Rejects(i)
      BY <2>1 DEF Mail!AdmitsPlain
    <3>2. ~Mail!Rejects(i)
      BY <1>4, <1>8
    <3> QED BY <3>1, <3>2 DEF Mail!LetsIn
  <2>3. Mail!Agreed(mail[i]) => "incapable" \in saw.send[mail[i].cmd]
    BY <1>2, <1>8 DEF SendInv, Chosen, Mail!Agreed
  <2> QED BY <1>2, <2>2, <2>3 DEF PollInv
<1>9. ASSUME config[Receiver] = "identity", i \in poll'.rejected, i \notin poll.rejected
      PROVE  \/ ~Mail!Agreed(mail[i]) \/ epoch[Mail!Sender(i)] > mail[i].at
             \/ mail[i].form = "plain" /\ poll.cache[Mail!Sender(i)] = "unknown"
  <2> SUFFICES ASSUME Mail!Agreed(mail[i]), ~(epoch[Mail!Sender(i)] > mail[i].at)
               PROVE  mail[i].form = "plain" /\ poll.cache[Mail!Sender(i)] = "unknown"
    OBVIOUS
  <2>1. epoch[Mail!Sender(i)] = mail[i].at
    <3>1. epoch[Mail!Sender(i)] \in Nat /\ mail[i].at \in Nat /\ mail[i].at <= epoch[Mail!Sender(i)]
      BY <1>2 DEF SendInv, Chosen, Mail!TypeOK, Mail!Rows, Mail!Sender
    <3> QED BY <3>1
  <2>2. ~Mail!Keeps(i)
    BY <1>4, <1>9
  <2>3. CASE Mail!AdmitsPlain(i)
    <3>1. /\ mail[i].form = "plain" /\ poll.cache[Mail!Sender(i)] # "none"
          /\ ~Mail!LetsIn(poll.cache[Mail!Sender(i)])
      BY <2>2, <2>3 DEF Mail!AdmitsPlain, Mail!Checking, Mail!None
    <3>2. poll.cache[Mail!Sender(i)] \in {"capable", "incapable", "unknown", "none"}
      BY <1>2 DEF Mail!TypeOK, Mail!States, Mail!None
    <3>3. poll.cache[Mail!Sender(i)] # "capable"
      BY <2>1, <3>1 DEF PollInv
    <3> QED BY <3>1, <3>2, <3>3 DEF Mail!LetsIn
  <2>4. CASE Mail!Decrypts(i)
    <3>1. mail[i].form = "enc" /\ mail[i].key # poll.key
      BY <2>2, <2>4 DEF Mail!Decrypts, Mail!Checking, Mail!Opens
    <3> QED BY <2>1, <3>1 DEF PollInv
  <2> QED BY <1>9, <2>3, <2>4 DEF Mail!TakesAll
<1>10. Mail!ClearByAgreement'
  BY <1>1, <1>4, <1>8 DEF Mail!ClearByAgreement, Mail!Agreed, Mail!Sender
<1>11. Mail!RefusalHasACause'
  BY <1>1, <1>4, <1>9 DEF Mail!RefusalHasACause, Mail!Agreed, Mail!Sender
<1> QED BY <1>5, <1>6, <1>7, <1>10, <1>11

LEMMA PrintStep ==
  ASSUME ClientInv, Mail!Prints
  PROVE  ClientInv'
<1> USE DEF ClientInv
<1>1. UNCHANGED <<config, pair, key, sends, mail, epoch, saw>> /\ poll' = [poll EXCEPT !.pc = "idle"]
  BY DEF Mail!Prints, Mail!Untouched
<1>2. /\ poll'.todo = poll.todo /\ poll'.key = poll.key /\ poll'.cache = poll.cache
      /\ poll'.kept = poll.kept /\ poll'.rejected = poll.rejected /\ poll'.pc = "idle"
  BY <1>1 DEF Mail!TypeOK
<1>3. Mail!TypeOK'
  BY <1>1 DEF Mail!TypeOK
<1>4. SendInv'
  BY <1>1, PollFrame
<1> QED
  BY <1>1, <1>2, <1>3, <1>4 DEF PollInv, Mail!ClearByAgreement, Mail!RefusalHasACause, Mail!Agreed,
     Mail!Sender

-----------------------------------------------------------------------------
(* Rows leave the queue, pairs and keys change.                            *)
LEMMA LeaveKeeps ==
  ASSUME mail \in Seq(Mail!Rows), NEW out, Mail!Leave(out)
  PROVE  /\ mail' \in Seq(Mail!Rows) /\ DOMAIN mail' = DOMAIN mail
         /\ \A i \in DOMAIN mail : /\ mail'[i].cmd = mail[i].cmd /\ mail'[i].form = mail[i].form
                                   /\ mail'[i].key = mail[i].key /\ mail'[i].at = mail[i].at
<1>1. mail \in [1..Len(mail) -> Mail!Rows] /\ DOMAIN mail = 1..Len(mail) /\ Len(mail) \in Nat
  OBVIOUS
<1>2. ASSUME NEW i \in DOMAIN mail
      PROVE  LET r == [mail[i] EXCEPT !.queued = @ /\ i \notin out] IN
             /\ r \in Mail!Rows /\ r.cmd = mail[i].cmd /\ r.form = mail[i].form
             /\ r.key = mail[i].key /\ r.at = mail[i].at
  <2> DEFINE b == mail[i].queued /\ i \notin out
  <2>1. mail[i] \in Mail!Rows /\ b \in BOOLEAN
    BY <1>1
  <2> HIDE DEF b
  <2>2. LET r == [mail[i] EXCEPT !.queued = b] IN
             /\ r \in Mail!Rows /\ r.cmd = mail[i].cmd /\ r.form = mail[i].form
             /\ r.key = mail[i].key /\ r.at = mail[i].at
    BY <2>1 DEF Mail!Rows
  <2> QED BY <2>2 DEF b
<1>3. mail' \in [1..Len(mail) -> Mail!Rows]
  BY <1>1, <1>2 DEF Mail!Leave
<1>4. mail' \in Seq(Mail!Rows)
  BY <1>1, <1>3, SeqDef
<1> QED BY <1>1, <1>2, <1>3, <1>4 DEF Mail!Leave

SameRows ==
  /\ mail' \in Seq(Mail!Rows) /\ DOMAIN mail' = DOMAIN mail
  /\ \A i \in DOMAIN mail : /\ mail'[i].cmd = mail[i].cmd /\ mail'[i].form = mail[i].form
                            /\ mail'[i].key = mail[i].key /\ mail'[i].at = mail[i].at

LEMMA AckStep ==
  ASSUME Mail!ClientMailAssumption, ClientInv, SameRows,
         UNCHANGED <<config, pair, key, sends, poll, epoch, saw>>
  PROVE  ClientInv'
<1> USE DEF ClientInv, SameRows
<1>1. Mail!TypeOK'
  BY DEF Mail!TypeOK
<1>2. SendInv'
  BY DEF SendInv, Chosen
<1>3. poll.kept \subseteq DOMAIN mail /\ poll.rejected \subseteq DOMAIN mail
        /\ poll.todo \subseteq DOMAIN mail
  BY DEF Mail!TypeOK
<1> QED
  BY <1>1, <1>2, <1>3 DEF PollInv, Mail!ClearByAgreement, Mail!RefusalHasACause, Mail!Agreed,
     Mail!Sender

(* Of the senders S the pair, or the key behind it, changes: what was      *)
(* chosen before is no promise any more.                                   *)
LEMMA ChangeStep ==
  ASSUME Mail!ClientMailAssumption, ClientInv, SameRows, UNCHANGED <<config, sends, poll>>,
         NEW S \in SUBSET Senders, NEW st \in Mail!States, Mail!Sees(S, st),
         pair' \in [Senders -> Mail!Pairs], epoch' \in [Senders -> Nat], key' \in Nat,
         \A s \in S : Mail!Shown(pair'[s]) = st /\ epoch'[s] = epoch[s] + 1,
         \A s \in Senders \ S : pair'[s] = pair[s] /\ epoch'[s] = epoch[s] /\ key' = key
  PROVE  ClientInv'
<1> USE DEF ClientInv
<1>1. /\ saw' \in [send : [Commands -> SUBSET Mail!States], poll : [Senders -> SUBSET Mail!States]]
      /\ \A c \in Commands : /\ saw.send[c] \subseteq saw'.send[c]
                             /\ c.from \in S /\ sends[c].pc = "looking" => st \in saw'.send[c]
      /\ \A s \in Senders : /\ saw.poll[s] \subseteq saw'.poll[s]
                            /\ s \in S /\ poll.pc = "busy" => st \in saw'.poll[s]
  <2> DEFINE send == [c \in Commands |-> IF c.from \in S /\ sends[c].pc = "looking"
                                         THEN saw.send[c] \union {st} ELSE saw.send[c]]
             look == [s \in Senders |-> IF s \in S /\ poll.pc = "busy"
                                        THEN saw.poll[s] \union {st} ELSE saw.poll[s]]
  <2>1. send \in [Commands -> SUBSET Mail!States] /\ look \in [Senders -> SUBSET Mail!States]
    BY DEF Mail!TypeOK
  <2>2. /\ \A c \in Commands : /\ saw.send[c] \subseteq send[c]
                               /\ c.from \in S /\ sends[c].pc = "looking" => st \in send[c]
        /\ \A s \in Senders : /\ saw.poll[s] \subseteq look[s]
                              /\ s \in S /\ poll.pc = "busy" => st \in look[s]
    OBVIOUS
  <2>3. saw' = [send |-> send, poll |-> look]
    BY DEF Mail!Sees
  <2> HIDE DEF send, look
  <2> QED BY <2>1, <2>2, <2>3
<1>2. Mail!TypeOK'
  BY <1>1 DEF Mail!TypeOK, SameRows, Mail!None
<1>3. \A c \in Commands : c.from \in Senders /\ epoch[c.from] \in Nat
  BY MailTypes DEF Mail!TypeOK
<1>4. ASSUME NEW c \in Commands, NEW r, r.at \in Nat, Chosen(c, r)
      PROVE  /\ r.at <= epoch'[c.from]
             /\ ~c.forced /\ config'[c.from] = "identity" =>
                  /\ r.form = "plain" =>
                       /\ "incapable" \in saw'.send[c]
                       /\ epoch'[c.from] = r.at => Mail!Shown(pair'[c.from]) = "incapable"
                  /\ r.form = "enc" /\ epoch'[c.from] = r.at => r.key = key'
  <2>1. CASE c.from \in S
    <3>1. epoch'[c.from] = epoch[c.from] + 1 /\ r.at <= epoch[c.from]
      BY <1>4, <2>1 DEF Chosen
    <3>2. r.at <= epoch'[c.from] /\ epoch'[c.from] # r.at
      BY <1>3, <1>4, <3>1
    <3> QED BY <1>1, <1>4, <3>2 DEF Chosen
  <2>2. CASE c.from \notin S
    BY <1>1, <1>3, <1>4, <2>2 DEF Chosen
  <2> QED BY <2>1, <2>2
<1>5. SendInv'
  <2>1. ASSUME NEW c \in Commands
        PROVE  /\ sends'[c].pc = "looking" => Mail!Shown(pair'[c.from]) \in saw'.send[c]
               /\ sends'[c].pc = "ready" => Chosen(c, sends[c])'
    <3>1. sends[c].at \in Nat
      BY DEF Mail!TypeOK, Mail!Choices
    <3>2. sends[c].pc = "ready" => Chosen(c, sends[c])'
      BY <1>4, <3>1 DEF SendInv, Chosen
    <3> QED BY <1>1, <1>3, <3>2 DEF SendInv
  <2>2. ASSUME NEW i \in DOMAIN mail
        PROVE  sends'[mail'[i].cmd].pc = "sent" /\ Chosen(mail[i].cmd, mail[i])'
    <3>1. mail[i].at \in Nat /\ mail[i].cmd \in Commands
      BY <2>2, MailTypes DEF Mail!Rows
    <3>2. Chosen(mail[i].cmd, mail[i])'
      BY <1>4, <2>2, <3>1 DEF SendInv, Chosen, SameRows
    <3> QED BY <2>2, <3>2 DEF SendInv, SameRows
  <2> QED BY <2>1, <2>2 DEF SendInv, SameRows
<1>6. /\ poll.kept \subseteq DOMAIN mail /\ poll.rejected \subseteq DOMAIN mail
      /\ poll.todo \subseteq DOMAIN mail
      /\ \A i \in DOMAIN mail : /\ Mail!Sender(i) \in Senders /\ mail[i].cmd \in Commands
                                /\ mail[i].at \in Nat /\ mail[i].at <= epoch[Mail!Sender(i)]
                                /\ epoch[Mail!Sender(i)] \in Nat
  BY MailTypes DEF Mail!TypeOK, Mail!Rows, SendInv, Chosen, Mail!Sender
<1>7. \A i \in DOMAIN mail :
        /\ epoch'[Mail!Sender(i)] = mail[i].at => Mail!Sender(i) \notin S
        /\ epoch[Mail!Sender(i)] > mail[i].at => epoch'[Mail!Sender(i)] > mail[i].at
  BY <1>6
<1>8. \A i \in DOMAIN mail : Mail!Sender(i)' = Mail!Sender(i) /\ Mail!Agreed(mail[i])' = Mail!Agreed(mail[i])
  BY DEF Mail!Sender, Mail!Agreed, SameRows
<1>9. PollInv'
  <2>1. poll.pc = "busy" => \A s \in Senders : Mail!Shown(pair'[s]) \in saw'.poll[s]
    BY <1>1 DEF PollInv
  <2>2. \A s \in Senders : poll.cache[s] \in {"none", "unknown"} \union saw'.poll[s]
    BY <1>1 DEF PollInv
  <2>3. ASSUME NEW i \in poll.todo, Mail!Agreed(mail[i]), epoch'[Mail!Sender(i)] = mail[i].at
        PROVE  IF mail[i].form = "plain" THEN poll.cache[Mail!Sender(i)] # "capable"
                                         ELSE mail[i].key = poll.key
    <3>1. epoch[Mail!Sender(i)] = mail[i].at
      BY <1>6, <1>7, <2>3
    <3> QED BY <2>3, <3>1 DEF PollInv
  <2>4. ASSUME NEW i \in poll.todo, Mail!Agreed(mail[i])', epoch'[Mail!Sender(i)'] = mail'[i].at
        PROVE  IF mail'[i].form = "plain" THEN poll.cache[Mail!Sender(i)'] # "capable"
                                          ELSE mail'[i].key = poll.key
    BY <1>6, <1>8, <2>3, <2>4 DEF SameRows
  <2> QED BY <2>1, <2>2, <2>4 DEF PollInv
<1>10. Mail!ClearByAgreement'
  <2>1. ASSUME config[Receiver] = "identity", NEW i \in poll.kept, mail[i].form = "plain"
        PROVE  /\ "incapable" \in saw'.poll[Mail!Sender(i)]
               /\ Mail!Agreed(mail[i]) => "incapable" \in saw'.send[mail[i].cmd]
    <3>1. i \in DOMAIN mail /\ Mail!Sender(i) \in Senders /\ mail[i].cmd \in Commands
      BY <1>6
    <3> QED BY <1>1, <2>1, <3>1 DEF Mail!ClearByAgreement
  <2> QED BY <1>6, <1>8, <2>1 DEF Mail!ClearByAgreement, SameRows
<1>11. Mail!RefusalHasACause'
  BY <1>6, <1>7, <1>8 DEF Mail!RefusalHasACause, SameRows
<1> QED BY <1>2, <1>5, <1>9, <1>10, <1>11

LEMMA PairStep ==
  ASSUME Mail!ClientMailAssumption, ClientInv, SameRows, NEW s \in Senders, NEW p \in Mail!Pairs,
         Mail!Becomes(s, p)
  PROVE  ClientInv'
<1>1. Mail!TypeOK /\ epoch[s] \in Nat /\ epoch[s] + 1 \in Nat
  BY DEF ClientInv, Mail!TypeOK
<1>2. /\ pair' \in [Senders -> Mail!Pairs] /\ epoch' \in [Senders -> Nat] /\ key' \in Nat
      /\ pair'[s] = p /\ epoch'[s] = epoch[s] + 1
      /\ \A r \in Senders \ {s} : pair'[r] = pair[r] /\ epoch'[r] = epoch[r] /\ key' = key
      /\ UNCHANGED <<config, sends, poll>> /\ Mail!Sees({s}, Mail!Shown(p))
  BY <1>1 DEF Mail!Becomes, Mail!TypeOK
<1>3. Mail!Shown(p) \in Mail!States /\ {s} \subseteq Senders
  BY DEF Mail!Shown, Mail!States
<1> HIDE DEF ClientInv, SameRows
<1> QED BY <1>2, <1>3, ChangeStep

LEMMA RotateStep ==
  ASSUME Mail!ClientMailAssumption, ClientInv, Mail!Rotates
  PROVE  ClientInv'
<1>1. Mail!TypeOK /\ SameRows
  BY DEF ClientInv, Mail!Rotates, Mail!TypeOK, SameRows
<1>2. /\ pair' \in [Senders -> Mail!Pairs] /\ epoch' \in [Senders -> Nat] /\ key' \in Nat
      /\ \A s \in Senders : Mail!Shown(pair'[s]) = "unknown" /\ epoch'[s] = epoch[s] + 1
      /\ UNCHANGED <<config, sends, poll>> /\ Mail!Sees(Senders, "unknown")
  BY <1>1 DEF Mail!Rotates, Mail!TypeOK, Mail!NoPair, Mail!Pairs, Mail!Shown, Mail!None
<1>3. "unknown" \in Mail!States
  BY DEF Mail!States
<1> QED BY <1>1, <1>2, <1>3, ChangeStep

LEMMA ClientStep ==
  ASSUME Mail!ClientMailAssumption, ClientInv, [Mail!Next]_Mail!vars
  PROVE  ClientInv'
<1>1. Mail!TypeOK
  BY DEF ClientInv
<1>2. ASSUME mail' = mail PROVE SameRows
  BY <1>1, <1>2 DEF Mail!TypeOK, SameRows
<1>3. ASSUME NEW out, Mail!Leave(out) PROVE SameRows
  BY <1>1, <1>3, LeaveKeeps DEF Mail!TypeOK, SameRows
<1>4. ASSUME NEW s \in Senders, Mail!Connects(s) PROVE ClientInv'
  BY <1>2, <1>4, PairStep DEF Mail!Connects, Mail!Pairs
<1>5. ASSUME NEW s \in Senders, Mail!AcceptsPair(s) PROVE ClientInv'
  BY <1>2, <1>5, PairStep DEF Mail!AcceptsPair, Mail!Pairs
<1>6. ASSUME NEW s \in Senders, Mail!Advertises(s) PROVE ClientInv'
  <2> DEFINE p == [pair[s] EXCEPT !.capable = ~@]
  <2>1. p \in Mail!Pairs /\ Mail!Becomes(s, p) /\ mail' = mail
    BY <1>1, <1>6 DEF Mail!Advertises, Mail!TypeOK, Mail!Pairs
  <2> HIDE DEF p
  <2> QED BY <1>2, <2>1, PairStep
<1>7. ASSUME NEW s \in Senders, Mail!Revokes(s) PROVE ClientInv'
  BY <1>3, <1>7, PairStep DEF Mail!Revokes, Mail!Pairs
<1>8. ASSUME Mail!Acks PROVE ClientInv'
  BY <1>3, <1>8, AckStep DEF Mail!Acks
<1>9. ASSUME UNCHANGED Mail!vars PROVE ClientInv'
  BY <1>2, <1>9, AckStep DEF Mail!vars
<1>10. ASSUME NEW i \in poll.todo,
              Mail!TakesAll(i) \/ Mail!Asks(i) \/ Mail!AdmitsPlain(i) \/ Mail!Decrypts(i)
       PROVE  ClientInv'
  BY <1>10, JudgeStep, AskStep
<1> QED
  BY <1>4, <1>5, <1>6, <1>7, <1>8, <1>9, <1>10, PrepareStep, EncryptStep, PostStep, FetchStep,
     PrintStep, RotateStep
  DEF Mail!Next, Mail!Checks

(* What a caller is handed in the clear was in the clear by agreement, for *)
(* any senders, commands and configs, whatever the pairs and the key do    *)
(* between the lookup, the send and the poll.                              *)
THEOREM ClearIsAgreed ==
  ASSUME Mail!ClientMailAssumption
  PROVE  Mail!Spec => []Mail!ClearByAgreement
<1>1. ClientInv => Mail!ClearByAgreement
  BY DEF ClientInv
<1> QED BY <1>1, ClientInit, ClientStep, PTL DEF Mail!Spec

(* What send let out by its own choice is refused by poll only after a     *)
(* change of the pair or the key, or when the lookup failed.               *)
THEOREM RefusalExplained ==
  ASSUME Mail!ClientMailAssumption
  PROVE  Mail!Spec => []Mail!RefusalHasACause
<1>1. ClientInv => Mail!RefusalHasACause
  BY DEF ClientInv
<1> QED BY <1>1, ClientInit, ClientStep, PTL DEF Mail!Spec
=============================================================================
