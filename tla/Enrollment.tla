----------------------------- MODULE Enrollment -----------------------------
(***************************************************************************)
(* How an identity key becomes a peer of a relay (relay.py): minting,      *)
(* revoking and redeeming invites, POST /v1/enroll behind its three gates, *)
(* the enrollment inside POST /v1/handshakes/redeem, and the rebuild of    *)
(* the peers table from the config file at a start (init_db).              *)
(*                                                                         *)
(* A request takes four steps, each under its own hold of db_lock: it      *)
(* reads the invite (a fast path), spends its challenge in a commit of its *)
(* own, runs the transaction that counts the use and writes the peer row,  *)
(* and adds the name to the set peer_names, which /v1/send reads, once the *)
(* locks are free.  Other requests, the sweep and a crash come in between. *)
(* A request carries the time it began at; only the transaction looks at   *)
(* the clock again.  Secrets and signatures are right: a request that      *)
(* lacks one ends (GiveUp) where the code refuses it.                      *)
(***************************************************************************)
EXTENDS Naturals, FiniteSets, Sequences

CONSTANTS
    Threads,    \* requests being served
    Keys,       \* Ed25519 identity keys
    Inviters,   \* identities that mint
    Invites, Nonces,
    Wanted,     \* names a client may ask for
    Fallback,   \* for each of them, its random suffixed forms
    Guests,     \* guest-xxxxxxxx names
    Reserved,   \* reserved_names: a name and the key it is pinned to
    Files,      \* config files: sequences of [name, key] rows, the key may be None,
                \* a name in one row at most (_init_peer_hashes)
    Gates,      \* enrollment gates of the config: invite, pow, open
    Mailed,     \* names mail is sent to
    Quota, MaxUses, Life, ChallengeTtl,
    None,
    MaxTime, MaxSerial  \* bounds: the clock, rows and tokens handed out

ConfigNames == UNION {{f[i].name : i \in DOMAIN f} : f \in Files}
Suffixed == UNION {Fallback[n] : n \in Wanted}
Names == Wanted \cup Suffixed \cup Guests \cup ConfigNames

\* Rows of the tables (a Ticket is a challenge of either table), and a request under way.
Peer == [key : Keys \cup {None}, token : Nat, gate : Gates \cup {"config"}, born : Nat]
\* gh: a handshake link; short: one that a key claims on its first use.
Invitation == [by : Inviters, exp : Nat, max : Nat, uses : Nat, revoked : BOOLEAN, gh : BOOLEAN,
               short : BOOLEAN, claim : Keys \cup {None}]
Ticket == [kind : {"legacy", "invite", "pow", "open", None}, ref : Invites \cup {None},
           exp : Nat, used : BOOLEAN]
Request == [route : {"redeem", "enroll", "handshake"}, gate : Gates, invite : Invites \cup {None},
            key : Keys, want : Wanted \cup {None}, nonce : Nonces, at : Nat,
            stage : {"read", "spent", "written"}, name : Names \cup {None}]

ASSUME EnrollmentAssumption ==
    /\ Gates \subseteq {"invite", "pow", "open"} /\ Gates # {}
    /\ DOMAIN Fallback = Wanted /\ DOMAIN Reserved \subseteq Wanted
    /\ IsFiniteSet(Invites)
    /\ Quota \in Nat \ {0} /\ MaxUses \in Nat \ {0} /\ Life \in Nat \ {0} /\ ChallengeTtl \in Nat \ {0}
    /\ \A f \in Files : /\ f \in Seq([name : ConfigNames, key : Keys \cup {None}])
                       /\ \A i, j \in DOMAIN f : f[i].name = f[j].name => i = j
    /\ None \notin Keys \cup Names \cup Invites \cup Nonces \cup Gates
    /\ None \notin Peer /\ None \notin Invitation /\ None \notin Ticket /\ None \notin Request

VARIABLES
    up, file,    \* the process runs; the config file on disk
    peers,       \* peers table: [key, token, gate, born] by name
    retired,     \* retired_names
    cached,      \* peer_names
    invites,     \* [by, exp, max, uses, revoked, gh, short, claim]
    challenges,  \* challenges and enroll_challenges: [kind, ref, exp, used]
    requests,    \* a request under way in a thread
    paired,      \* <<inviter, key>> pairs with an active or live pending handshake
    mail,        \* by name, the rows (born) its queued mail was sent to
    now, serial,
    won, entered \* history: enrollments by challenge, and by invite

vars == <<up, file, peers, retired, cached, invites, challenges, requests, paired,
          mail, now, serial, won, entered>>
stored == <<peers, retired, mail>>
history == <<serial, won, entered>>

Taken == {n \in Names : peers[n] # None}
Configured == {n \in Taken : peers[n].gate = "config"}
RowsOf(k) == {n \in Taken : peers[n].key = k}

Init ==
    /\ up = FALSE /\ file \in Files
    /\ peers = [n \in Names |-> None] /\ retired = {} /\ cached = {}
    /\ invites = [i \in Invites |-> None] /\ challenges = [c \in Nonces |-> None]
    /\ requests = [t \in Threads |-> None] /\ paired = {}
    /\ mail = [n \in Names |-> {}]
    /\ now = 0 /\ serial = 0
    /\ won = [c \in Nonces |-> 0] /\ entered = [i \in Invites |-> 0]

-----------------------------------------------------------------------------
(* init_db: the rows of the config file are rebuilt, in the file's order.  *)

Incoming == {file[j].name : j \in DOMAIN file}
Removed == Configured \ Incoming

\* What is left of the table when the removed peers are out.
Kept == [n \in Names |-> IF n \in Removed THEN None ELSE peers[n]]

Rewritten(j) ==
    [key |-> file[j].key, token |-> 0, gate |-> "config",
     born |-> IF file[j].name \in Configured THEN peers[file[j].name].born ELSE serial + j]

\* The table as row j of the file finds it: the rows before it are written.
Row(n) == CHOOSE i \in DOMAIN file : file[i].name = n
TableBefore(j) ==
    [n \in Names |-> IF n \in Incoming /\ Row(n) < j THEN Rewritten(Row(n)) ELSE Kept[n]]

Clashes(j) ==
    LET table == TableBefore(j)
        name == file[j].name
    IN \/ table[name] # None /\ name \notin Configured
       \/ file[j].key # None
          /\ \E n \in Names \ {name} : table[n] # None /\ table[n].key = file[j].key

Refused == \E j \in DOMAIN file : Clashes(j)
Rebuilt == TableBefore(Len(file) + 1)

\* mutant: the mail of a removed peer stays queued
Start_KeepsMail ==
    /\ ~up /\ serial + Len(file) <= MaxSerial /\ ~Refused
    /\ up' = TRUE /\ peers' = Rebuilt /\ serial' = serial + Len(file)
    /\ retired' = (retired \cup Removed) \ Incoming
    /\ cached' = {n \in Names : Rebuilt[n] # None}
    /\ UNCHANGED <<file, mail, invites, challenges, requests, paired, now, won, entered>>

\* A refused row ends the process and rolls everything back.
Start ==
    /\ ~up /\ serial + Len(file) <= MaxSerial /\ ~Refused
    /\ up' = TRUE
    /\ peers' = Rebuilt
    /\ serial' = serial + Len(file)
    /\ retired' = (retired \cup Removed) \ Incoming
    /\ mail' = [n \in Names |-> IF n \in Removed THEN {} ELSE mail[n]]
    /\ cached' = {n \in Names : Rebuilt[n] # None}
    /\ UNCHANGED <<file, invites, challenges, requests, paired, now, won, entered>>

Stop ==
    /\ up /\ up' = FALSE
    /\ cached' = {} /\ requests' = [t \in Threads |-> None]
    /\ UNCHANGED <<file, stored, invites, challenges, paired, now, history>>

EditFile ==
    /\ ~up /\ \E f \in Files \ {file} : file' = f
    /\ UNCHANGED <<up, stored, cached, invites, challenges, requests, paired, now, history>>

-----------------------------------------------------------------------------
(* Invites and challenges.                                                 *)

Live(i) ==
    /\ invites[i] # None /\ ~invites[i].revoked /\ invites[i].exp > now
    /\ invites[i].uses < invites[i].max

\* /v1/invites/mint and /v1/handshakes/mint share the quota; count and insert
\* are one transaction.
Mint(i, x) ==
    /\ up /\ invites[i] = None
    /\ Cardinality({j \in Invites : Live(j) /\ invites[j].by = x}) < Quota
    /\ \E max \in 1..MaxUses, gh, short \in BOOLEAN :
         /\ short => gh /\ max = 1
         /\ invites' = [invites EXCEPT ![i] =
              [by |-> x, exp |-> now + Life, max |-> max, uses |-> 0, revoked |-> FALSE,
               gh |-> gh, short |-> short, claim |-> None]]
    /\ UNCHANGED <<up, file, stored, cached, challenges, requests, paired, now, history>>

\* /v1/invites/revoke, by the inviter or an operator.
Revoke(i) ==
    /\ up /\ invites[i] # None /\ ~invites[i].revoked
    /\ invites' = [invites EXCEPT ![i].revoked = TRUE]
    /\ UNCHANGED <<up, file, stored, cached, challenges, requests, paired, now, history>>

\* The gate of a challenge asked for without an invite.
OpenKind == IF "pow" \in Gates THEN "pow" ELSE IF "open" \in Gates THEN "open" ELSE None

\* A short link that its claimant may come back with, its use gone.
Recovered(i) ==
    /\ invites[i] # None /\ ~invites[i].revoked /\ invites[i].exp > now
    /\ invites[i].claim # None

\* /v1/invites/challenge refuses the handshake links /v1/enroll/challenge takes.
Asked(kind, i) ==
    \/ kind = "legacy" /\ "invite" \in Gates /\ i # None /\ Live(i) /\ ~invites[i].gh
    \/ kind = "invite" /\ "invite" \in Gates /\ i # None /\ (Live(i) \/ Recovered(i))
    \/ kind = OpenKind /\ kind # None /\ i = None

Challenge(c, kind, i) ==
    /\ up /\ challenges[c] = None /\ Asked(kind, i)
    /\ challenges' = [challenges EXCEPT ![c] =
          [kind |-> kind, ref |-> i, exp |-> now + ChallengeTtl, used |-> FALSE]]
    /\ UNCHANGED <<up, file, stored, cached, invites, requests, paired, now, history>>

\* The sweep's share: it drops expired challenges.  A nonce is random: one that is
\* gone is not drawn again.
Gone == [kind |-> None, ref |-> None, exp |-> 0, used |-> TRUE]
Expired == {c \in Nonces : challenges[c] \notin {None, Gone} /\ challenges[c].exp <= now}

Reap ==
    /\ up /\ Expired # {}
    /\ challenges' = [c \in Nonces |-> IF c \in Expired THEN Gone ELSE challenges[c]]
    /\ UNCHANGED <<up, file, stored, cached, invites, requests, paired, now, history>>

-----------------------------------------------------------------------------
(* A request.                                                              *)

\* The gate /v1/handshakes/redeem picks when its caller has no token.
HandshakeGate == IF "invite" \in Gates THEN "invite" ELSE OpenKind

RedeemBegins(gate, i, want) ==
    /\ gate = "invite" /\ gate \in Gates /\ want = None
    /\ i # None /\ Live(i) /\ ~invites[i].gh

EnrollBegins(gate, i) ==
    /\ gate \in Gates
    /\ IF gate = "invite" THEN i # None /\ Live(i) /\ ~invites[i].gh ELSE i = None

\* An exhausted link may pass: a repeated redeem is answered again.
HandshakeBegins(gate, i, k) ==
    /\ gate = HandshakeGate
    /\ i # None /\ invites[i] # None /\ invites[i].gh
    /\ ~invites[i].revoked /\ invites[i].exp > now /\ invites[i].by # k

Begun(route, gate, i, k, want) ==
    \/ route = "redeem" /\ RedeemBegins(gate, i, want)
    \/ route = "enroll" /\ EnrollBegins(gate, i)
    \/ route = "handshake" /\ HandshakeBegins(gate, i, k)

Begin(t, route, gate, i, k, want, c) ==
    /\ up /\ requests[t] = None /\ challenges[c] # None
    /\ Begun(route, gate, i, k, want)
    /\ requests' = [requests EXCEPT ![t] =
          [route |-> route, gate |-> gate, invite |-> i, key |-> k, want |-> want,
           nonce |-> c, at |-> now, stage |-> "read", name |-> None]]
    /\ UNCHANGED <<up, file, stored, cached, invites, challenges, paired, now, history>>

Kind(q) == IF q.route = "redeem" THEN "legacy" ELSE q.gate

\* mutant: the used flag is not looked at
Spendable_Reused(q) ==
    /\ challenges[q.nonce].exp > q.at /\ challenges[q.nonce].kind = Kind(q)
    /\ q.gate = "invite" => challenges[q.nonce].ref = q.invite

Spendable(q) ==
    /\ ~challenges[q.nonce].used
    /\ challenges[q.nonce].exp > q.at
    /\ challenges[q.nonce].kind = Kind(q)
    /\ q.gate = "invite" => challenges[q.nonce].ref = q.invite

Spend(t) ==
    /\ requests[t] # None /\ requests[t].stage = "read" /\ Spendable(requests[t])
    /\ challenges' = [challenges EXCEPT ![requests[t].nonce].used = TRUE]
    /\ requests' = [requests EXCEPT ![t].stage = "spent"]
    /\ UNCHANGED <<up, file, stored, cached, invites, paired, now, history>>

\* A refusal before the transaction, or an exception in it: nothing is left behind.
GiveUp(t) ==
    /\ requests[t] # None /\ requests[t].stage # "written"
    /\ requests' = [requests EXCEPT ![t] = None]
    /\ UNCHANGED <<up, file, stored, cached, invites, challenges, paired, now, history>>

\* _enroll_identity_locked: the names it may return, none if it refuses.
FreeGuests == Guests \ (Taken \cup retired)
Drawn(want) ==
    (Fallback[want] \ Taken) \cup (IF Fallback[want] \cap Taken # {} THEN FreeGuests ELSE {})
Pinned(want, k) == want \in DOMAIN Reserved => Reserved[want] = k
\* mutant: the lookup by key is skipped
Assignable_Blind(want, k) ==
    IF want = None THEN FreeGuests
    ELSE IF ~Pinned(want, k) THEN {}
    ELSE IF want \notin Taken \cup retired THEN {want}
    ELSE Drawn(want)
\* mutant: retired names are not looked at
Assignable_Revives(want, k) ==
    IF RowsOf(k) # {} THEN RowsOf(k)
    ELSE IF want = None THEN FreeGuests
    ELSE IF ~Pinned(want, k) THEN {}
    ELSE IF want \notin Taken THEN {want}
    ELSE Drawn(want)
Assignable(want, k) ==
    IF RowsOf(k) # {} THEN RowsOf(k)
    ELSE IF want = None THEN FreeGuests
    ELSE IF ~Pinned(want, k) THEN {}
    ELSE IF want \notin Taken \cup retired THEN {want}
    ELSE Drawn(want)

EnrollAs(n, q) ==
    IF n \in RowsOf(q.key)
    THEN [peers EXCEPT ![n].token = serial + 1]
    ELSE [peers EXCEPT ![n] = [key |-> q.key, token |-> serial + 1, gate |-> q.gate, born |-> serial + 1]]

\* The first redeem of a short link claims it for its key and takes its use, even if
\* the pair is live.  Any other redeem of a live pair repeats itself: it counts none.
Pair(q) == <<invites[q.invite].by, q.key>>
Claims(q) == q.route = "handshake" /\ invites[q.invite].short /\ invites[q.invite].claim = None
Repeats(q) == q.route = "handshake" /\ Pair(q) \in paired /\ ~Claims(q)
CountsUse(q) == (q.gate = "invite" \/ q.route = "handshake") /\ ~Repeats(q)
CountedUse(q) == [invites[q.invite] EXCEPT !.uses = @ + 1, !.claim = IF Claims(q) THEN q.key ELSE @]

\* A short link is claimed under the name asked for or not at all, and afterwards
\* gives its claimant the live pair again, never a new one.
ClaimHolds(q) ==
    q.route = "handshake" /\ invites[q.invite].short =>
        \/ Claims(q) /\ q.want \notin retired /\ (q.want \in Taken => peers[q.want].key = q.key)
        \/ Recovered(q.invite) /\ invites[q.invite].claim = q.key /\ Repeats(q)

\* mutant: only the fast path looks at the invite
Open_FastPath(q) == TRUE
Open(q) == CountsUse(q) => Live(q.invite)

Enroll(t, n) ==
    /\ requests[t] # None /\ requests[t].stage = "spent" /\ serial < MaxSerial
    /\ LET q == requests[t] IN
         /\ Open(q) /\ ClaimHolds(q) /\ n \in Assignable(q.want, q.key)
         /\ peers' = EnrollAs(n, q)
         /\ invites' = IF CountsUse(q) THEN [invites EXCEPT ![q.invite] = CountedUse(q)] ELSE invites
         /\ paired' = IF q.route = "handshake" THEN paired \cup {Pair(q)} ELSE paired
         /\ won' = [won EXCEPT ![q.nonce] = @ + 1]
         /\ entered' = IF CountsUse(q) THEN [entered EXCEPT ![q.invite] = @ + 1] ELSE entered
         /\ requests' = [requests EXCEPT ![t].stage = "written", ![t].name = n]
    /\ serial' = serial + 1
    /\ UNCHANGED <<up, file, retired, cached, challenges, mail, now>>

\* mutant: the name asked for is cached, not the one assigned
Publish_Wanted(t) ==
    /\ requests[t] # None /\ requests[t].stage = "written"
    /\ cached' = cached \cup ({requests[t].want} \ {None})
    /\ requests' = [requests EXCEPT ![t] = None]
    /\ UNCHANGED <<up, file, stored, invites, challenges, paired, now, history>>

Publish(t) ==
    /\ requests[t] # None /\ requests[t].stage = "written"
    /\ cached' = cached \cup {requests[t].name}
    /\ requests' = [requests EXCEPT ![t] = None]
    /\ UNCHANGED <<up, file, stored, invites, challenges, paired, now, history>>

-----------------------------------------------------------------------------
(* Around it.                                                              *)

\* A handshake revoked or lapsed (Handshake.tla).
Part(p) ==
    /\ up /\ p \in paired /\ paired' = paired \ {p}
    /\ UNCHANGED <<up, file, stored, cached, invites, challenges, requests, now, history>>

\* /v1/send takes the recipient from peer_names.
Send(n) ==
    /\ up /\ n \in cached /\ peers[n] # None
    /\ mail' = [mail EXCEPT ![n] = @ \cup {peers[n].born}]
    /\ UNCHANGED <<up, file, peers, retired, cached, invites, challenges, requests, paired, now, history>>

Tick ==
    /\ now < MaxTime /\ now' = now + 1
    /\ UNCHANGED <<up, file, stored, cached, invites, challenges, requests, paired, history>>

Serves(t) ==
    \/ \E route \in {"redeem", "enroll", "handshake"}, gate \in Gates, i \in Invites \cup {None},
          k \in Keys, want \in Wanted \cup {None}, c \in Nonces : Begin(t, route, gate, i, k, want, c)
    \/ Spend(t)
    \/ GiveUp(t)
    \/ \E n \in Names : Enroll(t, n)
    \/ Publish(t)

Next ==
    \/ Start \/ Stop \/ EditFile \/ Reap \/ Tick
    \/ \E i \in Invites, x \in Inviters : Mint(i, x)
    \/ \E i \in Invites : Revoke(i)
    \/ \E c \in Nonces, kind \in {"legacy", "invite", "pow", "open"}, i \in Invites \cup {None} :
         Challenge(c, kind, i)
    \/ \E t \in Threads : Serves(t)
    \/ \E p \in paired : Part(p)
    \/ \E n \in Mailed : Send(n)

Spec == Init /\ [][Next]_vars

-----------------------------------------------------------------------------
(* Properties.                                                             *)

\* Every variable keeps the shape its table or object has in relay.py.
TypeOK ==
    /\ up \in BOOLEAN /\ file \in Files /\ retired \subseteq Names /\ cached \subseteq Names
    /\ \A n \in Taken : peers[n].key \in Keys \cup {None} /\ peers[n].gate \in Gates \cup {"config"}
    /\ \A i \in Invites : invites[i] # None => invites[i].uses \in Nat /\ invites[i].by \in Inviters
    /\ \A c \in Nonces : challenges[c] # None => challenges[c].ref \in Invites \cup {None}
    /\ \A t \in Threads : requests[t] # None => requests[t].stage \in {"read", "spent", "written"}
    /\ paired \subseteq Inviters \X Keys
    /\ now \in 0..MaxTime /\ serial \in 0..MaxSerial

\* The uses an invite has lost are the enrollments it let in, neither more than it
\* allows, nor one spent on a request that was refused: whatever two requests that
\* both read it with one use left do next, and whenever it is revoked.
UsesMatchEnrollments ==
    \A i \in Invites : invites[i] # None =>
        invites[i].uses = entered[i] /\ invites[i].uses <= invites[i].max

\* A challenge lets in one enrollment, on whichever route and however many requests
\* present it: it is spent before the signature is looked at.
ChallengeWinsOnce == \A c \in Nonces : won[c] <= 1

\* An identity is one peer: two enrollments of a key that run side by side, with or
\* without a wanted name, end in one row.
OneNameAKey ==
    \A m, n \in Taken : peers[m].key # None /\ peers[m].key = peers[n].key => m = n

\* A peer that enrolled itself keeps its name and key for good: no other key, start
\* or edit of the config takes the row from it.
EnrolledForGood ==
    [][\A n \in Taken \ Configured :
          peers'[n] # None /\ peers'[n].key = peers[n].key /\ peers'[n].gate = peers[n].gate]_vars

\* A reserved name is enrolled by the key it is pinned to alone.
ReservedHeld ==
    \A n \in DOMAIN Reserved : n \in Taken \ Configured => peers[n].key = Reserved[n]

\* "a retired name (revoked config peer) is never handed out again" (_enroll_identity_locked),
\* except where it has the form of a suffixed name: a draw is looked up among the peers only.
DeadNamesStayDead == retired \cap Taken \subseteq Suffixed

\* Mail queued for a peer is not there for whoever holds its name later: a config
\* peer dropped and put back is a new row.
MailStaysWithItsOwner ==
    up => \A n \in Names : mail[n] # {} => n \in Taken /\ mail[n] = {peers[n].born}

\* /v1/send and /v1/peers answer from a set kept beside the table: it never names a
\* peer that is not there, and misses one only while its enrollment is not answered.
CachedNamesAreRows ==
    up => /\ cached \subseteq Taken
          /\ \A n \in Taken \ cached :
               \E t \in Threads : requests[t] # None /\ requests[t].stage = "written" /\ requests[t].name = n

\* An identity has at most Quota usable invites out, both kinds counted.
InvitesWithinQuota ==
    \A x \in Inviters : Cardinality({i \in Invites : Live(i) /\ invites[i].by = x}) <= Quota
=============================================================================
