------------------------------ MODULE Consent ------------------------------
(***************************************************************************)
(* What the relay promises about consent between two identities, without   *)
(* clocks, claims, use counts or encryption flags: a pair is proposed over *)
(* an invitation, activated, and ended.  An explicit revocation advances   *)
(* the pair's generation and bars the invitation that made the pair from   *)
(* ever making it again; a lapse does neither.  Handshake implements this  *)
(* module and Mailbox is built on it.                                      *)
(***************************************************************************)
EXTENDS Naturals

CONSTANTS Pair,       \* order-independent pairs of identities
          Link,       \* invitation ids
          NoLink      \* via_link_id is NULL

VARIABLES status,     \* Pair -> the handshakes.status column, or "none"
          gen,        \* Pair -> handshakes.generation
          via,        \* Pair -> handshakes.via_link_id
          barred      \* link_revocations: <<link, pair>> never to be reused

consentVars == <<status, gen, via, barred>>

Status == {"none", "pending", "active", "revoked"}
Current == {"pending", "active"}

ConsentTypeOK ==
  /\ status \in [Pair -> Status]
  /\ gen \in [Pair -> Nat]
  /\ via \in [Pair -> Link \union {NoLink}]
  /\ barred \subseteq (Link \X Pair)

-----------------------------------------------------------------------------
(* A pair may start active only by operator attestation: no invitation.    *)
ConsentInit ==
  /\ status \in [Pair -> {"none", "active"}]
  /\ gen = [p \in Pair |-> 0]
  /\ via = [p \in Pair |-> NoLink]
  /\ barred = {}

(* A redemption opens a ceremony.  A pending one that a different request  *)
(* replaces takes a new generation; nothing else about redeeming does.     *)
Propose(p, l) ==
  /\ <<l, p>> \notin barred
  /\ status[p] # "active"
  /\ status' = [status EXCEPT ![p] = "pending"]
  /\ via' = [via EXCEPT ![p] = l]
  /\ \/ gen' = gen
     \/ status[p] = "pending" /\ gen' = [gen EXCEPT ![p] = @ + 1]
  /\ UNCHANGED barred

Activate(p) ==
  /\ status[p] = "pending"
  /\ status' = [status EXCEPT ![p] = "active"]
  /\ UNCHANGED <<gen, via, barred>>

(* Either party ends the pair.                                             *)
End(p) ==
  /\ status[p] \in Current
  /\ status' = [status EXCEPT ![p] = "revoked"]
  /\ gen' = [gen EXCEPT ![p] = @ + 1]
  /\ barred' = barred \union {<<l, p>> : l \in {via[p]} \ {NoLink}}
  /\ UNCHANGED via

(* Quota hygiene: deadlines passed, nobody revoked anything.               *)
Lapse(S) ==
  /\ S # {}
  /\ \A p \in S : status[p] \in Current
  /\ status' = [p \in Pair |-> IF p \in S THEN "revoked" ELSE status[p]]
  /\ UNCHANGED <<gen, via, barred>>

ConsentNext ==
  \/ \E p \in Pair, l \in Link : Propose(p, l)
  \/ \E p \in Pair : Activate(p) \/ End(p)
  \/ \E S \in SUBSET Pair : Lapse(S)

ConsentSpec == ConsentInit /\ [][ConsentNext]_consentVars

-----------------------------------------------------------------------------
(* An invitation whose pair was explicitly revoked never carries that pair *)
(* again: link_revocations, checked at redeem, against the row's           *)
(* via_link_id, written at revoke.                                         *)
BarredLinkNeverCurrent ==
  \A p \in Pair : status[p] \in Current => <<via[p], p>> \notin barred

(* An active pair ends by the word of one of the two and never by a        *)
(* deadline: what the mailbox, which buries mail at a revocation only,     *)
(* relies on (handshake_expiry_days is 0 unless the operator sets it).     *)
EndsOnlyByRevoke ==
  [][\A p \in Pair : status[p] = "active" /\ status'[p] # "active" => End(p)]_consentVars
=============================================================================
