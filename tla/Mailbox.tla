------------------------------ MODULE Mailbox ------------------------------
(***************************************************************************)
(* The relay's mailbox (relay.py: send, poll, ack, fetch, revoke and the   *)
(* sweep's message rules) over the consent of Consent.tla.  Mail is        *)
(* addressed to names, consent binds identity keys, and register-key may   *)
(* give a name another key: send and revoke read the identities one after  *)
(* the other, each in a lock section of its own, and act on them in a      *)
(* third.  A poll fetches, then marks, then answers, and the answer may be *)
(* lost.                                                                   *)
(***************************************************************************)
EXTENDS Naturals, FiniteSets

CONSTANTS Name,        \* enrolled peer names
          Ident,       \* identity keys
          KeysOf,      \* Name -> the keys whose private half it holds
          FirstKey,    \* Name -> the key it enrolled with
          Link, NoLink,
          Msg,         \* message ids
          Ttls,        \* ttl_secs values senders ask for
          Retention,   \* RETENTION
          PendingCap,  \* PENDING_CAP
          DeadCap,     \* dead letters kept: the newest 2000
          MaxTime, MaxGen, MaxRequests    \* bounds of a finite instance

(* Pairs of keys of different peers. *)
Pair == {s \in SUBSET Ident : \E n, r \in Name : n # r /\
           \E x \in KeysOf[n], y \in KeysOf[r] : s = {x, y}}

ASSUME MailboxAssumption ==
  /\ KeysOf \in [Name -> SUBSET Ident]
  /\ \A n, r \in Name : n # r => KeysOf[n] \intersect KeysOf[r] = {}
  /\ FirstKey \in [Name -> Ident]
  /\ \A n \in Name : FirstKey[n] \in KeysOf[n]
  /\ NoLink \notin Link
  /\ Ttls \subseteq Nat \ {0}
  /\ Retention \in Nat /\ PendingCap \in Nat /\ DeadCap \in Nat
  /\ MaxTime \in Nat /\ MaxGen \in Nat /\ MaxRequests \in Nat

VARIABLES now,
          status, gen, via, barred,   \* Consent
          key,      \* Name -> current identity key
          held,     \* identity keys in use now or earlier
          rows,     \* Msg -> its messages row; what it last held once deleted
          sends,    \* sends past an identity read: [from, to, id, ttl, pair]
          revokes,  \* revokes past an identity read: [by, peer, pair]
          polls,    \* polls past their fetch: [to, ids, marked]
          seen      \* Name -> ids some poll answer brought to its client

vars == <<now, status, gen, via, barred, key, held, rows, sends, revokes, polls, seen>>

C == INSTANCE Consent

Row == [stored: BOOLEAN, from: Name, to: Name, pair: Pair, sent: Nat, expires: Nat,
        acked: BOOLEAN, ackedAt: Nat, collected: BOOLEAN, dead: BOOLEAN]
NoRow == [stored |-> FALSE]     \* never accepted
Half == {{k} : k \in Ident}    \* one of the two identities has been read
Send == [from: Name, to: Name, id: Msg, ttl: Nat, pair: Pair \union Half]
RevokeReq == [by: Name, peer: Name, pair: Pair \union Half]
Poll == [to: Name, ids: SUBSET Msg, marked: BOOLEAN]

TypeOK ==
  /\ now \in Nat
  /\ C!ConsentTypeOK
  /\ key \in [Name -> Ident]
  /\ held \subseteq Ident
  /\ rows \in [Msg -> Row \union {NoRow}]
  /\ sends \subseteq Send /\ revokes \subseteq RevokeReq /\ polls \subseteq Poll
  /\ seen \in [Name -> SUBSET Msg]

Init ==
  /\ now = 0
  /\ C!ConsentInit
  /\ key = FirstKey
  /\ held = {FirstKey[n] : n \in Name}
  /\ \A p \in Pair : status[p] = "active" => p \subseteq held
  /\ rows = [m \in Msg |-> NoRow]
  /\ sends = {} /\ revokes = {} /\ polls = {}
  /\ seen = [n \in Name |-> {}]

consent == <<status, gen, via, barred>>
keys == <<key, held>>
requests == <<sends, revokes, polls>>

-----------------------------------------------------------------------------
Accepted(m) == rows[m] # NoRow
Stored(m) == rows[m].stored
Unacked(m) == Stored(m) /\ ~rows[m].acked

(* What fetch_pending returns: unacked and unexpired.  A dead letter is    *)
(* expired by the revoke that killed it.                                   *)
Live(m) == Unacked(m) /\ rows[m].expires > now
LiveFor(n) == {m \in Msg : Live(m) /\ rows[m].to = n}

Busy == Cardinality(sends) + Cardinality(revokes) + Cardinality(polls) >= MaxRequests

-----------------------------------------------------------------------------
(* Consent and keys move under the mailbox; only revoke is its own.  The   *)
(* redeemer speaks with its current key, the inviter's is the key it had   *)
(* when it minted.                                                         *)
ConsentStep ==
  /\ \E p \in Pair :
       \/ /\ p \subseteq held /\ \E n \in Name : key[n] \in p
          /\ gen[p] < MaxGen /\ gen' = gen
          /\ \E l \in Link : C!Propose(p, l)
       \/ (\E n \in Name : key[n] \in p) /\ C!Activate(p)
       \/ status[p] = "pending" /\ C!Lapse({p})
  /\ UNCHANGED <<now, keys, rows, requests, seen>>

(* register-key: another of the peer's own keys, in use by nobody.         *)
RotateKey(n, k) ==
  /\ k \in KeysOf[n] \ {key[n]}
  /\ key' = [key EXCEPT ![n] = k]
  /\ held' = held \union {k}
  /\ UNCHANGED <<now, consent, rows, requests, seen>>

Tick ==
  /\ now < MaxTime
  /\ now' = now + 1
  /\ UNCHANGED <<consent, keys, rows, requests, seen>>

-----------------------------------------------------------------------------
(* Send.  The sender's identity is read, then the recipient's, then comes  *)
(* the write transaction.                                                  *)
SendRead(n, r, m, ttl) ==
  /\ n # r /\ ~Busy
  /\ sends' = sends \union {[from |-> n, to |-> r, id |-> m, ttl |-> ttl,
                             pair |-> {key[n]}]}
  /\ UNCHANGED <<now, consent, keys, rows, revokes, polls, seen>>

SendReadTo(q) ==
  /\ q.pair \in Half
  /\ sends' = (sends \ {q}) \union {[q EXCEPT !.pair = @ \union {key[q.to]}]}
  /\ UNCHANGED <<now, consent, keys, rows, revokes, polls, seen>>

HasRoom(r) == Cardinality(LiveFor(r)) < PendingCap

(* The write transaction: dedup on the id first, then the gate, then the   *)
(* cap, then the insert.                                                   *)
SendAccept(q) ==
  /\ q.pair \in Pair
  /\ ~Stored(q.id)
  /\ status[q.pair] = "active"
  /\ HasRoom(q.to)
  /\ rows' = [rows EXCEPT ![q.id] =
       [stored |-> TRUE, from |-> q.from, to |-> q.to, pair |-> q.pair, sent |-> now,
        expires |-> now + q.ttl, acked |-> FALSE, ackedAt |-> 0,
        collected |-> FALSE, dead |-> FALSE]]
  /\ sends' = sends \ {q}
  /\ UNCHANGED <<now, consent, keys, revokes, polls, seen>>

(* duplicate, id_collision, handshake_required, handshake_revoked or       *)
(* queue_full: nothing is written.                                         *)
SendRefuse(q) ==
  /\ q.pair \in Pair
  /\ Stored(q.id) \/ status[q.pair] # "active" \/ ~HasRoom(q.to)
  /\ sends' = sends \ {q}
  /\ UNCHANGED <<now, consent, keys, rows, revokes, polls, seen>>

-----------------------------------------------------------------------------
(* Poll: fetch, mark what is still alive, answer. *)
PollFetch(n) ==
  /\ LiveFor(n) # {} /\ ~Busy
  /\ polls' = polls \union {[to |-> n, ids |-> LiveFor(n), marked |-> FALSE]}
  /\ UNCHANGED <<now, consent, keys, rows, sends, revokes, seen>>

(* A row that died or expired in between is not marked as collected.       *)
MarkableBlindly(o) == {m \in o.ids : Stored(m) /\ rows[m].to = o.to}
Markable(o) == {m \in o.ids : Stored(m) /\ rows[m].to = o.to
                                /\ rows[m].expires > now /\ ~rows[m].dead}

PollMark(o) ==
  /\ ~o.marked
  /\ rows' = [m \in Msg |-> IF m \in Markable(o)
                            THEN [rows[m] EXCEPT !.collected = TRUE] ELSE rows[m]]
  /\ polls' = (polls \ {o}) \union {[o EXCEPT !.marked = TRUE]}
  /\ UNCHANGED <<now, consent, keys, sends, revokes, seen>>

(* The answer carries what was fetched, whatever happened since.           *)
PollAnswer(o) ==
  /\ o.marked
  /\ polls' = polls \ {o}
  /\ seen' = [seen EXCEPT ![o.to] = @ \union o.ids]
  /\ UNCHANGED <<now, consent, keys, rows, sends, revokes>>

PollLost(o) ==
  /\ polls' = polls \ {o}
  /\ UNCHANGED <<now, consent, keys, rows, sends, revokes, seen>>

(* A client acks what it was brought; the request arrives at once, late,   *)
(* again, or never.  What is not stored, or acked, is left as it is.       *)
Ack(n, m) ==
  /\ m \in seen[n]
  /\ Unacked(m) /\ rows[m].to = n
  /\ rows' = [rows EXCEPT ![m].acked = TRUE, ![m].ackedAt = now]
  /\ UNCHANGED <<now, consent, keys, requests, seen>>

-----------------------------------------------------------------------------
(* Revoke: the identities of the peer and of the caller, then the consent  *)
(* row and the mail between the two names, at once.                        *)
RevokeRead(n, r) ==
  /\ n # r /\ ~Busy
  /\ revokes' = revokes \union {[by |-> n, peer |-> r, pair |-> {key[r]}]}
  /\ UNCHANGED <<now, consent, keys, rows, sends, polls, seen>>

RevokeReadBy(q) ==
  /\ q.pair \in Half
  /\ revokes' = (revokes \ {q}) \union {[q EXCEPT !.pair = @ \union {key[q.by]}]}
  /\ UNCHANGED <<now, consent, keys, rows, sends, polls, seen>>

DoomedUncollected(n, r) ==
  {m \in Msg : Live(m) /\ {rows[m].from, rows[m].to} = {n, r} /\ ~rows[m].collected}
Doomed(n, r) == {m \in Msg : Live(m) /\ {rows[m].from, rows[m].to} = {n, r}}

Buried(r) == [r EXCEPT !.expires = now, !.dead = TRUE]

RevokeCommit(q) ==
  /\ q.pair \in Pair
  /\ C!End(q.pair)
  /\ rows' = [m \in Msg |-> IF m \in Doomed(q.by, q.peer)
                            THEN Buried(rows[m]) ELSE rows[m]]
  /\ revokes' = revokes \ {q}
  /\ UNCHANGED <<now, keys, sends, polls, seen>>

(* No such pair, or already revoked.                                       *)
RevokeNothing(q) ==
  /\ q.pair \in Pair
  /\ status[q.pair] \notin C!Current
  /\ revokes' = revokes \ {q}
  /\ UNCHANGED <<now, consent, keys, rows, sends, polls, seen>>

-----------------------------------------------------------------------------
(* Sweep: resolved mail goes at once, acked mail RETENTION after its ack,  *)
(* unacked mail RETENTION after its expiry, and of the expired unacked     *)
(* rows only the newest DeadCap stay.                                      *)
Expired(m) == Stored(m) /\ rows[m].expires <= now
Resolved(m) == Expired(m) /\ rows[m].acked
RetiredOnCollection(m) ==
  \/ Stored(m) /\ (rows[m].acked \/ rows[m].collected) /\ rows[m].sent + Retention <= now
  \/ Unacked(m) /\ rows[m].expires + Retention <= now
Retired(m) ==
  \/ Stored(m) /\ rows[m].acked /\ rows[m].ackedAt + Retention <= now
  \/ Unacked(m) /\ rows[m].expires + Retention <= now
DeadLetters == {m \in Msg : Expired(m) /\ ~rows[m].acked /\ ~Retired(m)}
Overflows(S) ==
  /\ S \subseteq DeadLetters
  /\ Cardinality(DeadLetters \ S) =
       IF Cardinality(DeadLetters) < DeadCap THEN Cardinality(DeadLetters) ELSE DeadCap
  /\ \A m \in S, k \in DeadLetters \ S : rows[m].sent <= rows[k].sent

Sweep ==
  \E S \in SUBSET DeadLetters :
    LET gone == {m \in Msg : Resolved(m) \/ Retired(m)} \union S IN
    /\ Overflows(S)
    /\ gone # {}
    /\ rows' = [m \in Msg |-> IF m \in gone THEN [rows[m] EXCEPT !.stored = FALSE]
                              ELSE rows[m]]
    /\ UNCHANGED <<now, consent, keys, requests, seen>>

(* The process restarts: handlers die, the database stays.                 *)
Restart ==
  /\ sends \union revokes \union polls # {}
  /\ sends' = {} /\ revokes' = {} /\ polls' = {}
  /\ UNCHANGED <<now, consent, keys, rows, seen>>

-----------------------------------------------------------------------------
Next ==
  \/ ConsentStep \/ Tick \/ Sweep \/ Restart
  \/ \E n \in Name, k \in Ident : RotateKey(n, k)
  \/ \E n, r \in Name, m \in Msg, ttl \in Ttls : SendRead(n, r, m, ttl)
  \/ \E q \in sends : SendReadTo(q) \/ SendAccept(q) \/ SendRefuse(q)
  \/ \E n \in Name : PollFetch(n)
  \/ \E o \in polls : PollMark(o) \/ PollAnswer(o) \/ PollLost(o)
  \/ \E n \in Name, m \in Msg : Ack(n, m)
  \/ \E n, r \in Name : RevokeRead(n, r)
  \/ \E q \in revokes : RevokeReadBy(q) \/ RevokeCommit(q) \/ RevokeNothing(q)

Spec == Init /\ [][Next]_vars

(* Handler threads are scheduled.  A client keeps polling and acking, over *)
(* a connection that does not lose every answer and every ack, and a relay *)
(* that does not die in every poll.  The clock need not move.              *)
FairSpec ==
  /\ Spec
  /\ WF_vars(\E q \in sends : SendReadTo(q) \/ SendAccept(q) \/ SendRefuse(q))
  /\ WF_vars(\E q \in revokes : RevokeReadBy(q) \/ RevokeCommit(q) \/ RevokeNothing(q))
  /\ \A n \in Name :
       /\ SF_vars(PollFetch(n))
       /\ SF_vars(\E o \in polls : o.to = n /\ PollMark(o))
       /\ SF_vars(\E o \in polls : o.to = n /\ PollAnswer(o))
       /\ \A m \in Msg : WF_vars(Ack(n, m))

-----------------------------------------------------------------------------
(* Safety. *)

(* What a poll may hand out was gated on a pair that is still active: a    *)
(* revocation takes the mail with it, collected or not, also when a send   *)
(* or a rotation of the key races it.                                      *)
LiveMailHasConsent ==
  \A m \in Msg : Live(m) => status[rows[m].pair] = "active"

(* Once a revocation is committed nothing of its pair is handed out any    *)
(* more, whatever the two names' keys are by then.                         *)
RevokedMailDies ==
  [][\A p \in Pair : gen'[p] > gen[p] /\ status'[p] = "revoked" =>
       \A m \in Msg : Live(m)' => rows'[m].pair # p]_vars

(* Accepted mail that is gone was acked, or was dead for the whole         *)
(* retention, or made room for DeadCap newer letters.  Being collected,    *)
(* by a poll whose answer may have been lost, removes nothing.             *)
NothingLostSilently ==
  \A m \in Msg : Accepted(m) /\ ~Stored(m) =>
    \/ rows[m].acked
    \/ rows[m].expires + Retention <= now
    \/ /\ rows[m].expires <= now
       /\ Cardinality({k \in Msg \ {m} : Accepted(k) /\ rows[k].sent >= rows[m].sent})
            >= DeadCap

(* The receipt shown to the sender, from the columns of the row.           *)
Receipt(m) ==
  CASE rows[m].acked                -> "acked"
    [] ~rows[m].acked /\ rows[m].dead -> "dead"
    [] ~rows[m].acked /\ ~rows[m].dead /\ rows[m].collected -> "collected"
    [] OTHER -> IF rows[m].expires <= now THEN "expired" ELSE "queued"

Later(r) == CASE r = "queued" -> {"collected", "expired", "dead", "acked"}
              [] r = "collected" -> {"dead", "acked"}
              [] r \in {"expired", "dead"} -> {"acked"}
              [] r = "acked" -> {}

(* A sender never sees a receipt go back: a letter that died between a     *)
(* poll's fetch and its mark is not collected, an ack is final.            *)
ReceiptsOnlyAdvance ==
  [][\A m \in Msg : Stored(m) /\ Stored(m)' =>
       Receipt(m)' \in {Receipt(m)} \union Later(Receipt(m))]_vars

(* A recipient's queue never outgrows its cap, though nothing but the      *)
(* count inside the write transaction limits racing senders.               *)
QueueWithinCap == \A n \in Name : Cardinality(LiveFor(n)) <= PendingCap

(* Mail does not stay live for ever before a client that polls and acks,   *)
(* however many answers and acks are lost on the way.                      *)
MailIsRetired == \A m \in Msg : Live(m) ~> ~Live(m)

-----------------------------------------------------------------------------
(* What comments say, and key rotation does not keep.                      *)

PairNow(n, r) == {key[n], key[r]}

(* A send that races a revoke precedes it, or follows it and is refused.   *)
NoMailAfterRevoke ==
  [][\A m \in Msg : sends' # sends /\ ~Stored(m) /\ Stored(m)' =>
       LET p == PairNow(rows'[m].from, rows'[m].to) IN
         ~(status[p] = "revoked" /\ <<via[p], p>> \in barred)]_vars

(* /v1/fetch: a retained thread, unless the pair of the two names' current *)
(* keys is revoked.                                                        *)
Fetchable(n) ==
  {m \in Msg : /\ Stored(m) /\ ~rows[m].dead
               /\ n \in {rows[m].from, rows[m].to}
               /\ rows[m].sent + Retention >= now
               /\ status[PairNow(rows[m].from, rows[m].to)] # "revoked"}

(* The history of a revoked pair is not fetchable, not even acked mail.    *)
HistoryClosed ==
  \A n \in Name : \A m \in Fetchable(n) : status[rows[m].pair] # "revoked"
=============================================================================
