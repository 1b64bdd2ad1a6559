----------------------------- MODULE Handshake -----------------------------
(***************************************************************************)
(* The relay's mutual-consent handshakes (relay.py: mint-link, redeem,     *)
(* accept, advertise, revoke and the sweep's handshake rules).  Every      *)
(* handler's final transaction is one action.  A redeem reads the          *)
(* invitation in an earlier lock section, so it is two actions, and an     *)
(* accept or an advertisement names a handshake id that the client learnt  *)
(* earlier, so it is a message that may be late, repeated or lost.         *)
(***************************************************************************)
EXTENDS Integers, FiniteSets

CONSTANTS Ident,          \* identity keys, ordered as the strings are
          Link,           \* invitation ids
          NoLink, NoIdent,
          Attested,       \* pairs an operator attested before the run
          Lives,          \* invitation lifetimes a mint may ask for
          MaxUses,        \* largest max_uses a mint may ask for
          Offers,         \* the kinds of invitation minted in this instance
          EncVs,          \* the enc_v values clients send
          Quota,          \* INVITE_QUOTA_PER_IDENTITY
          PendingWindow,  \* HANDSHAKE_PENDING_WINDOW
          HsExpiry,       \* handshake_expiry_days, 0 = never
          MaxTime, MaxGen, MaxRound, MaxMsgs   \* bounds of a finite instance

Pair == {p \in Ident \X Ident : p[1] < p[2]}
PairOf(x, y) == IF x < y THEN <<x, y>> ELSE <<y, x>>
Parties(p) == {p[1], p[2]}
Other(p, x) == IF x = p[1] THEN p[2] ELSE p[1]

ASSUME HandshakeAssumption ==
  /\ Ident \subseteq Nat
  /\ NoLink \notin Link /\ NoIdent \notin Ident
  /\ Attested \subseteq Pair
  /\ Lives \subseteq Nat \ {0}
  /\ Offers \subseteq {"legacy", "public", "short"} /\ EncVs \subseteq {0, 1}
  /\ MaxUses \in Nat \ {0} /\ Quota \in Nat \ {0} /\ PendingWindow \in Nat \ {0}
  /\ HsExpiry \in Nat
  /\ MaxTime \in Nat /\ MaxGen \in Nat /\ MaxRound \in Nat /\ MaxMsgs \in Nat

VARIABLES now,        \* the relay's clock
          invites,    \* Link -> invites row
          hs,         \* Pair -> handshakes row
          barred,     \* link_revocations
          redeems,    \* redeems past their fast-path check: [by, link]
          msgs,       \* accepts and advertisements under way
          (* history, read by no guard of the code *)
          round,      \* Pair -> number of ceremonies opened
          ended,      \* <<pair, round>> explicitly revoked or replaced
          consent,    \* Pair -> who accepted, and the ceremony they had seen
          ad          \* Pair -> party -> that party's latest advertisement

rowVars == <<hs, barred>>
history == <<round, ended, consent, ad>>
vars == <<now, invites, hs, barred, redeems, msgs, round, ended, consent, ad>>

Enc == {0, 1}
NoEnc == -1            \* the request carries no enc_v
Kinds == {"legacy", "public", "short"}

InviteRow == [kind: Kinds \union {"unminted"}, inviter: Ident \union {NoIdent},
              exp: Nat, uses: Nat, maxUses: Nat, revoked: BOOLEAN, enc: Enc,
              target: Ident \union {NoIdent}, claimed: Ident \union {NoIdent}]
HsRow == [status: {"none", "pending", "active", "revoked"}, gen: Nat,
          redeemer: Ident \union {NoIdent}, pendingExp: Nat, exp: Nat,
          via: Link \union {NoLink}, minterEnc: Enc, redeemerEnc: Enc,
          capable: Enc, prov: {"none", "ceremony", "operator-attested"}]
RedeemReq == [by: Ident, link: Link]
Msg == [op: {"accept", "advertise"}, by: Ident, pair: Pair, gen: Nat,
        enc: Enc \union {NoEnc}, round: Nat]

TypeOK ==
  /\ now \in Nat
  /\ invites \in [Link -> InviteRow]
  /\ hs \in [Pair -> HsRow]
  /\ barred \subseteq (Link \X Pair)
  /\ redeems \subseteq RedeemReq
  /\ msgs \subseteq Msg
  /\ round \in [Pair -> Nat]
  /\ ended \subseteq (Pair \X Nat)
  /\ consent \in [Pair -> [by: Ident \union {NoIdent}, round: Nat]]
  /\ ad \in [Pair -> [Ident -> Enc]]

-----------------------------------------------------------------------------
Unminted == [kind |-> "unminted", inviter |-> NoIdent, exp |-> 0, uses |-> 0,
             maxUses |-> 0, revoked |-> FALSE, enc |-> 0,
             target |-> NoIdent, claimed |-> NoIdent]

(* No row, or a row an operator attested: active, no invitation behind it. *)
FirstRow(p) ==
  [status |-> IF p \in Attested THEN "active" ELSE "none", gen |-> 0,
   redeemer |-> NoIdent, pendingExp |-> 0, exp |-> 0, via |-> NoLink,
   minterEnc |-> 0, redeemerEnc |-> 0, capable |-> 0,
   prov |-> IF p \in Attested THEN "operator-attested" ELSE "none"]

Init ==
  /\ now = 0
  /\ invites = [l \in Link |-> Unminted]
  /\ hs = [p \in Pair |-> FirstRow(p)]
  /\ barred = {} /\ redeems = {} /\ msgs = {}
  /\ round = [p \in Pair |-> 0]
  /\ ended = {}
  /\ consent = [p \in Pair |-> [by |-> NoIdent, round |-> 0]]
  /\ ad = [p \in Pair |-> [x \in Ident |-> 0]]

Tick ==
  /\ now < MaxTime
  /\ now' = now + 1
  /\ UNCHANGED <<invites, rowVars, redeems, msgs, history>>

-----------------------------------------------------------------------------
(* Invitations. *)

Usable(i) == ~i.revoked /\ i.exp > now /\ i.uses < i.maxUses

(* The quota check and the insert are one transaction.                     *)
Mint(x, l, kind, life, uses, enc, target) ==
  /\ invites[l].kind = "unminted"
  /\ kind # "legacy" => uses = 1
  /\ IF kind = "public" THEN target \in Ident \ {x} ELSE target = NoIdent
  /\ Cardinality({k \in Link : invites[k].inviter = x /\ Usable(invites[k])}) < Quota
  /\ invites' = [invites EXCEPT ![l] =
       [kind |-> kind, inviter |-> x, exp |-> now + life, uses |-> 0,
        maxUses |-> uses, revoked |-> FALSE, enc |-> enc,
        target |-> target, claimed |-> NoIdent]]
  /\ UNCHANGED <<now, rowVars, redeems, msgs, history>>

(* Idempotent; the inviter (or an operator) withdraws the invitation.      *)
RevokeInvite(l) ==
  /\ invites[l].kind # "unminted" /\ ~invites[l].revoked
  /\ invites' = [invites EXCEPT ![l].revoked = TRUE]
  /\ UNCHANGED <<now, rowVars, redeems, msgs, history>>

-----------------------------------------------------------------------------
(* Redeem. *)

(* The fast path: read and check the invitation outside the transaction.   *)
RedeemCheck(x, l) ==
  LET i == invites[l] IN
  /\ i.kind # "unminted" /\ i.inviter # x
  /\ ~i.revoked /\ i.exp > now
  /\ i.kind = "public" => i.target = x
  /\ redeems' = redeems \union {[by |-> x, link |-> l]}
  /\ UNCHANGED <<now, invites, rowVars, msgs, history>>

RedeemPair(q) == PairOf(invites[q.link].inviter, q.by)

(* A legacy link is not looked at again before its use is consumed.        *)
OfferedWithoutMemory(q) ==
  LET i == invites[q.link] IN
  /\ i.kind # "legacy" => ~i.revoked /\ i.exp > now
  /\ i.kind = "public" => i.target = q.by
  /\ i.kind = "short" => \/ i.claimed = q.by
                         \/ i.claimed = NoIdent /\ i.uses < i.maxUses
StillOffered(q) ==
  LET i == invites[q.link] IN
  /\ i.kind # "legacy" => ~i.revoked /\ i.exp > now
  /\ i.kind = "public" => i.target = q.by
  /\ i.kind = "short" => \/ i.claimed = q.by
                         \/ i.claimed = NoIdent /\ i.uses < i.maxUses
  /\ <<q.link, RedeemPair(q)>> \notin barred

(* The active pair, or this redeemer's own live ceremony: a no-op.         *)
Repeats(q) ==
  LET r == hs[RedeemPair(q)] IN
  \/ r.status = "active"
  \/ /\ r.status = "pending" /\ r.redeemer = q.by /\ r.pendingExp > now
     /\ invites[q.link].kind = "legacy" \/ r.via = q.link

(* A distinct public or short request supersedes any pending ceremony.     *)
Replaces(q) ==
  LET r == hs[RedeemPair(q)] IN
  /\ invites[q.link].kind # "legacy"
  /\ r.status = "pending" /\ r.via # q.link

Opens(q) ==
  LET r == hs[RedeemPair(q)] IN
  \/ r.status \in {"none", "revoked"}
  \/ r.status = "pending" /\ (r.pendingExp <= now \/ Replaces(q))

(* A use is left to consume, or a short claim has just been bound.         *)
UseUncounted(q) ==
  LET i == invites[q.link] IN
  IF i.kind = "short" THEN i.claimed = NoIdent ELSE ~i.revoked /\ i.exp > now
UseLeft(q) ==
  LET i == invites[q.link] IN
  IF i.kind = "short" THEN i.claimed = NoIdent ELSE Usable(i)

Consumed(i) == [i EXCEPT !.uses = @ + 1]
ClaimedUnbound(i, x) == [Consumed(i) EXCEPT !.claimed = x]
Claimed(i, x) == [Consumed(i) EXCEPT !.claimed = x, !.target = x]

(* The first proved identity to present a short claim binds it, even when  *)
(* the pair turns out to need nothing.                                     *)
AfterClaim(q) ==
  LET i == invites[q.link] IN
  IF i.kind = "short" /\ i.claimed = NoIdent THEN Claimed(i, q.by) ELSE i

(* The slot a party's encryption advertisement belongs to, from the row's  *)
(* own provenance; contradictory evidence gives no slot at all.            *)
Slot(p, x) ==
  CASE hs[p].prov = "ceremony" /\ hs[p].via # NoLink ->
         IF invites[hs[p].via].inviter = x THEN "minter" ELSE "redeemer"
    [] hs[p].prov = "operator-attested" /\ hs[p].via = NoLink ->
         IF p[1] = x THEN "minter" ELSE "redeemer"
    [] OTHER -> "unknown"

(* A party's advertisement lands in its own slot; capable is the AND.      *)
WithAd(p, x, e) ==
  LET m == IF Slot(p, x) = "minter" THEN e ELSE hs[p].minterEnc
      r == IF Slot(p, x) = "redeemer" THEN e ELSE hs[p].redeemerEnc
  IN  [hs[p] EXCEPT !.minterEnc = m, !.redeemerEnc = r, !.capable = m * r]

(* A new link whose issuer supports encryption upgrades an active pair.    *)
Upgrades(q) ==
  LET p == RedeemPair(q) IN
  /\ hs[p].status = "active" /\ hs[p].capable = 0
  /\ invites[q.link].enc = 1
  /\ Slot(p, invites[q.link].inviter) # "unknown"

RedeemRepeat(q) ==
  LET p == RedeemPair(q)
      x == invites[q.link].inviter
  IN
  /\ StillOffered(q) /\ Repeats(q)
  /\ invites' = [invites EXCEPT ![q.link] = AfterClaim(q)]
  /\ redeems' = redeems \ {q}
  /\ IF Upgrades(q)
     THEN /\ hs' = [hs EXCEPT ![p] = WithAd(p, x, 1)]
          /\ ad' = [ad EXCEPT ![p][x] = 1]
     ELSE UNCHANGED <<hs, ad>>
  /\ UNCHANGED <<now, barred, msgs, round, ended, consent>>

GenKept(q) == hs[RedeemPair(q)].gen
NextGen(q) == hs[RedeemPair(q)].gen + (IF Replaces(q) THEN 1 ELSE 0)
Least(s, t) == IF s <= t THEN s ELSE t

RedeemOpen(q) ==
  LET p == RedeemPair(q)
      i == invites[q.link]
  IN
  /\ StillOffered(q) /\ ~Repeats(q) /\ Opens(q) /\ UseLeft(q)
  /\ Replaces(q) => hs[p].gen < MaxGen      \* generation_exhausted
  /\ round[p] < MaxRound
  /\ invites' = [invites EXCEPT ![q.link] =
                   IF i.kind = "short" THEN AfterClaim(q) ELSE Consumed(i)]
  /\ hs' = [hs EXCEPT ![p] =
       [status |-> "pending", redeemer |-> q.by, via |-> q.link,
        gen |-> NextGen(q),
        pendingExp |-> IF i.kind = "legacy" THEN now + PendingWindow
                       ELSE Least(i.exp, now + PendingWindow),
        exp |-> IF HsExpiry > 0 THEN now + HsExpiry ELSE 0,
        minterEnc |-> i.enc, redeemerEnc |-> 0, capable |-> 0,
        prov |-> "ceremony"]]
  /\ redeems' = redeems \ {q}
  /\ round' = [round EXCEPT ![p] = @ + 1]
  /\ ended' = ended \union (IF Replaces(q) THEN {<<p, round[p]>>} ELSE {})
  /\ ad' = [ad EXCEPT ![p] = [x \in Ident |-> IF x = i.inviter THEN i.enc ELSE 0]]
  /\ UNCHANGED <<now, barred, msgs, consent>>

(* Every other outcome is link_fail and a rollback.                        *)
RedeemRefuse(q) ==
  /\ \/ ~StillOffered(q)
     \/ ~Repeats(q) /\ ~(Opens(q) /\ UseLeft(q))
  /\ redeems' = redeems \ {q}
  /\ UNCHANGED <<now, invites, rowVars, msgs, history>>

-----------------------------------------------------------------------------
(* Accept and advertise: requests that name a handshake id, i.e. the pair  *)
(* and the generation of the row the client was shown.  A revoked row is   *)
(* shown too, with the generation the next ceremony will have, so that its *)
(* id answers a ceremony still to come.                                    *)
ShownRound(p) ==
  round[p] + IF hs[p].status = "revoked" /\ <<p, round[p]>> \in ended THEN 1 ELSE 0

Request(op, x, p, e) ==
  /\ x \in Parties(p) /\ hs[p].status # "none"
  /\ op = "advertise" => e # NoEnc
  /\ Cardinality(msgs) < MaxMsgs
  /\ msgs' = msgs \union {[op |-> op, by |-> x, pair |-> p, gen |-> hs[p].gen,
                           enc |-> e, round |-> ShownRound(p)]}
  /\ UNCHANGED <<now, invites, rowVars, redeems, history>>

Drop(m) ==
  /\ msgs' = msgs \ {m}
  /\ UNCHANGED <<now, invites, rowVars, redeems, history>>

(* A public or short invitation must still stand when the accept lands.    *)
BackedStill(p, x) ==
  LET i == invites[hs[p].via] IN
  hs[p].via # NoLink /\ i.kind # "legacy" =>
    /\ ~i.revoked /\ i.exp > now
    /\ i.target \in {NoIdent, x}
    /\ i.kind = "short" => i.claimed = x

AcceptableAnyGen(m) ==
  LET r == hs[m.pair] IN
  /\ r.status = "pending" /\ r.redeemer = m.by /\ r.pendingExp > now
  /\ BackedStill(m.pair, m.by)
Acceptable(m) ==
  LET r == hs[m.pair] IN
  /\ r.status = "pending" /\ r.redeemer = m.by
  /\ r.pendingExp > now /\ r.gen = m.gen
  /\ BackedStill(m.pair, m.by)

Accept(m) ==
  LET p == m.pair
      e == IF m.enc = NoEnc THEN 0 ELSE m.enc
  IN
  /\ m.op = "accept" /\ Acceptable(m)
  /\ hs' = [hs EXCEPT ![p].status = "active", ![p].pendingExp = 0,
                      ![p].redeemer = NoIdent, ![p].redeemerEnc = e,
                      ![p].capable = hs[p].minterEnc * e]
  /\ consent' = [consent EXCEPT ![p] = [by |-> m.by, round |-> m.round]]
  /\ ad' = [ad EXCEPT ![p][m.by] = e]
  /\ UNCHANGED <<now, invites, barred, redeems, msgs, round, ended>>

(* Accepting again re-advertises, for the established redeemer only; every *)
(* other accept that misses is answered with its reason and changes nothing. *)
Reaccept(m) ==
  LET p == m.pair IN
  /\ m.op = "accept" /\ m.enc # NoEnc
  /\ hs[p].status = "active" /\ hs[p].gen = m.gen
  /\ Slot(p, m.by) = "redeemer"
  /\ hs' = [hs EXCEPT ![p] = WithAd(p, m.by, m.enc)]
  /\ ad' = [ad EXCEPT ![p][m.by] = m.enc]
  /\ UNCHANGED <<now, invites, barred, redeems, msgs, round, ended, consent>>

(* Advertise maps the caller to a slot by the invitation, else by order.   *)
AdvertiseSlot(p, x) ==
  LET first == IF hs[p].via = NoLink THEN p[1] ELSE invites[hs[p].via].inviter
  IN  IF x = first THEN "minter" ELSE "redeemer"

Advertise(m) ==
  LET p == m.pair
      minter == IF AdvertiseSlot(p, m.by) = "minter" THEN m.enc ELSE hs[p].minterEnc
      redeemer == IF AdvertiseSlot(p, m.by) = "redeemer" THEN m.enc ELSE hs[p].redeemerEnc
  IN
  /\ m.op = "advertise" /\ m.enc # NoEnc
  /\ hs[p].status = "active" /\ hs[p].gen = m.gen
  /\ hs' = [hs EXCEPT ![p].minterEnc = minter, ![p].redeemerEnc = redeemer,
                      ![p].capable = minter * redeemer]
  /\ ad' = [ad EXCEPT ![p][m.by] = m.enc]
  /\ UNCHANGED <<now, invites, barred, redeems, msgs, round, ended, consent>>

-----------------------------------------------------------------------------
(* Ending a pair. *)

(* Either party; a row that is already revoked answers 200 and is left     *)
(* as it is.  The mail of the pair dies in the same transaction: Mailbox.  *)
Revoke(p) ==
  /\ hs[p].status \in {"pending", "active"}
  /\ hs[p].gen < MaxGen
  /\ hs' = [hs EXCEPT ![p].status = "revoked", ![p].pendingExp = 0,
                      ![p].redeemer = NoIdent, ![p].gen = @ + 1]
  /\ barred' = barred \union {<<l, p>> : l \in {hs[p].via} \ {NoLink}}
  /\ ended' = ended \union {<<p, round[p]>>}
  /\ UNCHANGED <<now, invites, redeems, msgs, round, consent, ad>>

Lapsed(p) ==
  \/ hs[p].status = "pending" /\ hs[p].pendingExp <= now
  \/ /\ HsExpiry > 0 /\ hs[p].status \in {"pending", "active"}
     /\ hs[p].exp # 0 /\ hs[p].exp <= now

(* Quota hygiene: no generation bump and no link_revocations entry.        *)
Sweep ==
  /\ \E p \in Pair : Lapsed(p)
  /\ hs' = [p \in Pair |->
              IF Lapsed(p) THEN [hs[p] EXCEPT !.status = "revoked", !.pendingExp = 0,
                                              !.redeemer = NoIdent]
              ELSE hs[p]]
  /\ UNCHANGED <<now, invites, barred, redeems, msgs, history>>

-----------------------------------------------------------------------------
Next ==
  \/ Tick
  \/ \E x \in Ident, l \in Link, kind \in Offers, life \in Lives, uses \in 1..MaxUses,
        enc \in EncVs, target \in Ident \union {NoIdent} :
       Mint(x, l, kind, life, uses, enc, target)
  \/ \E l \in Link : RevokeInvite(l)
  \/ \E x \in Ident, l \in Link : RedeemCheck(x, l)
  \/ \E q \in redeems : RedeemRepeat(q) \/ RedeemOpen(q) \/ RedeemRefuse(q)
  \/ \E op \in {"accept", "advertise"}, x \in Ident, p \in Pair,
        e \in EncVs \union {NoEnc} : Request(op, x, p, e)
  \/ \E m \in msgs : Accept(m) \/ Reaccept(m) \/ Advertise(m) \/ Drop(m)
  \/ \E p \in Pair : Revoke(p)
  \/ Sweep

Spec == Init /\ [][Next]_vars

(* The sweep thread runs every minute and the clock does not stop.         *)
FairSpec == Spec /\ WF_vars(Tick) /\ WF_vars(Sweep)
-----------------------------------------------------------------------------
(* Safety. *)

(* A pair made by ceremony is active only because the party that did not   *)
(* mint the invitation accepted it, and what that party had been shown was *)
(* not a ceremony that was since revoked or replaced: late and repeated    *)
(* accepts die on the generation in their handshake id.                    *)
ConsentIsCurrent ==
  \A p \in Pair :
    hs[p].status = "active" /\ hs[p].prov = "ceremony" =>
      /\ consent[p].by = Other(p, invites[hs[p].via].inviter)
      /\ <<p, consent[p].round>> \notin ended

(* Each encryption slot of a live row holds what its own party last        *)
(* advertised, through whichever of the four writers, and the pair is      *)
(* capable exactly when both said so: a link issued in the other direction *)
(* must not fill the wrong slot.                                           *)
FirstParty(p) == IF hs[p].via = NoLink THEN p[1] ELSE invites[hs[p].via].inviter

SlotsFollowActors ==
  \A p \in Pair :
    hs[p].status \in {"pending", "active"} =>
      LET x == FirstParty(p)
          y == Other(p, x)
      IN  /\ hs[p].minterEnc = ad[p][x]
          /\ hs[p].redeemerEnc = ad[p][y]
          /\ hs[p].capable = 1 <=> ad[p][x] = 1 /\ ad[p][y] = 1

(* An invitation stands behind at most as many pairs as uses it has given  *)
(* out, and gives out at most max_uses, however its redeems interleave.    *)
UsesCoverPairs ==
  \A l \in Link :
    /\ Cardinality({p \in Pair : hs[p].via = l}) <= invites[l].uses
    /\ invites[l].uses <= invites[l].maxUses

(* A pair made by a public request joins its inviter to the named target,  *)
(* one made by a short invitation to the identity that claimed it first.   *)
InvitationKeepsItsTarget ==
  \A p \in Pair :
    hs[p].status \in {"pending", "active"} /\ hs[p].via # NoLink =>
      LET i == invites[hs[p].via] IN
        /\ i.inviter \in Parties(p)
        /\ i.kind # "legacy" => i.target = Other(p, i.inviter)

(* While a ceremony is live and keeps its generation, no retried or        *)
(* competing redeem touches its row: the deadline is never extended, the   *)
(* direction and the link never change under the redeemer's accept.        *)
LiveCeremonyUntouched ==
  [][\A p \in Pair :
       /\ hs[p].status = "pending" /\ hs[p].pendingExp > now
       /\ hs'[p].status = "pending" /\ hs'[p].gen = hs[p].gen
       => hs'[p] = hs[p]
    ]_vars

(* Handshake implements Consent.                                           *)
C == INSTANCE Consent WITH
       status <- [p \in Pair |-> hs[p].status],
       gen <- [p \in Pair |-> hs[p].gen],
       via <- [p \in Pair |-> hs[p].via]

ImplementsConsent == C!ConsentSpec

(* Nothing stays pending past its deadline: accepted, renewed or swept.    *)
PendingEnds ==
  \A p \in Pair, t \in 1..MaxTime :
    (hs[p].status = "pending" /\ hs[p].pendingExp = t)
      ~> ~(hs[p].status = "pending" /\ hs[p].pendingExp = t)
=============================================================================
