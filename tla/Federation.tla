----------------------------- MODULE Federation -----------------------------
(***************************************************************************)
(* Cross-home forwarding between two relays (relay.py): the sender's home  *)
(* keeps an outbox, its one forwarder thread claims due rows and posts     *)
(* them, and the recipient's home checks and stores them.  A request may   *)
(* be lost, arrive after the forwarder gave up, or be answered too late;   *)
(* either relay restarts at any time.  Each home has its own copy of the   *)
(* route snapshots, and may see the move of a peer before the other does.  *)
(*                                                                         *)
(* The backoff only delays the next attempt, which may happen at any time  *)
(* here.  Signing and reading the stored payload do not fail.              *)
(***************************************************************************)
EXTENDS Naturals, FiniteSets

CONSTANTS
    Msgs,       \* message ids, chosen by the clients
    None,
    Ttls,       \* lifetimes clients ask for
    MaxTtl,     \* longest lifetime, MAX_TTL
    Retention,  \* RETENTION, of finished rows at both homes
    MaxTime     \* bound: the clock

ASSUME FederationAssumption ==
    /\ None \notin Msgs /\ None \notin {"accepted", "refused", "full"}
    /\ None \notin [msg : Msgs, started : Nat]
    /\ Ttls \subseteq Nat
    /\ MaxTtl \in Nat /\ Retention \in Nat /\ MaxTime \in Nat

VARIABLES
    moved,      \* homes whose snapshot says that the peers moved away
    grants,     \* ids between whose peers there is an active grant
    checked,    \* sends that resolved their routes
    outbox,     \* federation_outbox: state, created, expires
    local,      \* ids the sender's home stores on its local lane
    batch,      \* rows the forwarder claimed and did not attempt yet, as it read them:
                \* message and expiry
    current,    \* the attempt: message and start, or None
    answer,     \* the answer to the current attempt, or None
    net,        \* requests under way: message, expiry, and whether anyone waits
    handling,   \* requests that passed the checks of the recipient's home
    box,        \* messages of the recipient's home: state, expires, acked
    copies,     \* history: how often a copy was stored that could still be polled
    lodged,     \* history: ids stored there at some time
    lasting,    \* history: ids queued at some time to live longer than Retention
    clock

home == <<checked, outbox, local, batch, current, answer>>
history == <<copies, lodged, lasting>>
away == <<handling, box, history>>
vars == <<moved, grants, home, net, away, clock>>

Pending == {"queued", "inflight"}
Final == {"delivered", "rejected", "expired"}
NoRow == [state |-> "none", created |-> 0, expires |-> 0]
NoMail == [state |-> "none", expires |-> 0, acked |-> 0]
Exists(m) == outbox[m].state # "none"
Requests == [msg : Msgs, expires : 0..(MaxTime + MaxTtl), waited : BOOLEAN]

Init ==
    /\ moved = {} /\ grants \in {{}, Msgs} /\ checked = {} /\ local = {}
    /\ outbox = [m \in Msgs |-> NoRow]
    /\ batch = {} /\ current = None /\ answer = None
    /\ net = {} /\ handling = {}
    /\ box = [m \in Msgs |-> NoMail]
    /\ copies = [m \in Msgs |-> 0] /\ lodged = {} /\ lasting = {}
    /\ clock = 0

-----------------------------------------------------------------------------
(* The sender's home: /v1/send.                                            *)

\* The snapshot of home h resolves sender and recipient to their old homes, with an
\* endpoint in private transport scope and keys that match the pins.
Resolves(h) == h \notin moved

\* The snapshot pins the sender here and the recipient there.
SendCheck(m) ==
    /\ Resolves("A")
    /\ checked' = checked \cup {m}
    /\ UNCHANGED <<moved, grants, outbox, local, batch, current, answer, net, away, clock>>

\* Neither lane has the id.
Free(m) == ~Exists(m) /\ m \notin local

\* _validate_send_body: the lifetime of a well-formed body.
ValidTtl(ttl) == ttl \in 1..MaxTtl

\* One transaction: the id is free, the grant is active, the row is queued.
Enqueue(m) ==
    /\ m \in checked /\ Free(m) /\ m \in grants
    /\ checked' = checked \ {m}
    /\ \E ttl \in Ttls :
           /\ ValidTtl(ttl) /\ clock + ttl <= MaxTime
           /\ outbox' = [outbox EXCEPT ![m] =
                  [state |-> "queued", created |-> clock, expires |-> clock + ttl]]
           /\ lasting' = IF ttl > Retention THEN lasting \cup {m} ELSE lasting
    /\ copies' = [copies EXCEPT ![m] = 0]
    /\ UNCHANGED <<moved, grants, local, batch, current, answer, net, handling, box, lodged,
                   clock>>

\* A repeated, a colliding or an ungranted send.
SendRefused(m) ==
    /\ m \in checked
    /\ ~Free(m) \/ m \notin grants
    /\ checked' = checked \ {m}
    /\ UNCHANGED <<moved, grants, outbox, local, batch, current, answer, net, away, clock>>

\* The local lane takes an id that is in neither table.
LocalSend(m) ==
    /\ Free(m)
    /\ local' = local \cup {m}
    /\ UNCHANGED <<moved, grants, checked, outbox, batch, current, answer, net, away, clock>>

\* The sweep deletes the local message.
LocalGone(m) ==
    /\ m \in local
    /\ local' = local \ {m}
    /\ UNCHANGED <<moved, grants, checked, outbox, batch, current, answer, net, away, clock>>

-----------------------------------------------------------------------------
(* The forwarder.                                                          *)

Lapsed(row) == row.state \in Pending /\ row.expires <= clock
\* Defect: a row that was claimed does not expire.
ExpiredUnclaimed(row) ==
    IF Lapsed(row) /\ row.state = "queued" THEN [row EXCEPT !.state = "expired"] ELSE row
Expired(row) == IF Lapsed(row) THEN [row EXCEPT !.state = "expired"] ELSE row

Claimable == {m \in Msgs : outbox[m].state \in Pending /\ outbox[m].expires > clock}

\* federation_forward_pending: expire, then claim what is due.
Claim ==
    /\ current = None /\ batch = {}
    /\ \E due \in SUBSET Claimable :
           /\ batch' = {[msg |-> m, expires |-> outbox[m].expires] : m \in due}
           /\ outbox' = [m \in Msgs |-> IF m \in due THEN [outbox[m] EXCEPT !.state = "inflight"]
                                        ELSE Expired(outbox[m])]
    /\ UNCHANGED <<moved, grants, checked, local, current, answer, net, away, clock>>

\* _federation_mark writes whatever the row's state is; a deleted row stays deleted.
Mark(m, state) ==
    outbox' = [outbox EXCEPT ![m].state = IF Exists(m) THEN state ELSE @]

\* A row that expired while it waited in the batch.  The forwarder goes by the expiry
\* it read with the claim, whatever became of the row: of an id that was swept and
\* queued again meanwhile, it marks the new row.
AttemptLapsed(b) ==
    /\ current = None /\ b \in batch
    /\ b.expires <= clock
    /\ batch' = batch \ {b}
    /\ Mark(b.msg, "expired")
    /\ UNCHANGED <<moved, grants, checked, local, current, answer, net, away, clock>>

Post(b) ==
    /\ current = None /\ b \in batch
    /\ b.expires > clock
    /\ batch' = batch \ {b}
    /\ current' = [msg |-> b.msg, started |-> clock]
    /\ net' = net \cup {[msg |-> b.msg, expires |-> b.expires, waited |-> TRUE]}
    /\ answer' = None
    /\ UNCHANGED <<moved, grants, checked, outbox, local, away, clock>>

\* Nobody waits for the requests of an attempt that ended.
Unwaited(requests) == {[r EXCEPT !.waited = FALSE] : r \in requests}

Ends(state) ==
    /\ current # None
    /\ Mark(current.msg, state)
    /\ current' = None /\ answer' = None
    /\ net' = Unwaited(net) /\ handling' = Unwaited(handling)
    /\ UNCHANGED <<moved, grants, checked, local, batch, box, history, clock>>

\* A timeout, a lost or unreadable answer, or one that does not prove the key which
\* our snapshot pins for the recipient's home.
OutcomeUnknown == Ends("queued")
\* Defect: an acceptance is believed without waiting for the answer.
DeliveredUnproven == Ends("delivered")
OutcomeAccepted == answer = "accepted" /\ Resolves("A") /\ Ends("delivered")
OutcomeFull == answer = "full" /\ Ends("queued")
\* A synchronous 400, 403 or 409 is terminal.
OutcomeRefused == answer = "refused" /\ Ends("rejected")

\* The sweep's rules for the outbox.
Pruned(row) == row.state \in Final /\ row.created + Retention <= clock

SweepOutbox ==
    /\ outbox' = [m \in Msgs |-> IF Pruned(Expired(outbox[m])) THEN NoRow ELSE Expired(outbox[m])]
    /\ outbox' # outbox
    /\ UNCHANGED <<moved, grants, checked, local, batch, current, answer, net, away, clock>>

RestartA ==
    /\ checked' = {} /\ batch' = {} /\ current' = None /\ answer' = None
    /\ net' = Unwaited(net) /\ handling' = Unwaited(handling)
    /\ UNCHANGED <<moved, grants, outbox, local, box, history, clock>>

-----------------------------------------------------------------------------
(* The recipient's home: /v1/federation/deliver and its mailbox.           *)

Reply(r, what) == answer' = IF r.waited THEN what ELSE answer

\* The attestation, the route of the sender and the expiry are checked before the
\* transaction.
Acceptable(r) == Resolves("B") /\ r.expires > clock /\ r.expires - clock <= MaxTtl

DeliverCheck(r) ==
    /\ r \in net /\ Acceptable(r)
    /\ net' = net \ {r}
    /\ handling' = handling \cup {r}
    /\ UNCHANGED <<moved, grants, home, box, history, clock>>

DeliverDenied(r) ==
    /\ r \in net /\ ~Acceptable(r)
    /\ net' = net \ {r}
    /\ Reply(r, "refused")
    /\ UNCHANGED <<moved, grants, checked, outbox, local, batch, current, away, clock>>

\* Defect: only unread mail is compared.
KnownUnread(m) == box[m].state = "live"
\* The same bytes are stored already.
Known(m) == box[m].state \in {"live", "acked"}

Answered(r, what) ==
    /\ r \in handling
    /\ handling' = handling \ {r}
    /\ Reply(r, what)
    /\ UNCHANGED <<moved, grants, checked, outbox, local, batch, current, net, clock>>

DeliverDuplicate(r) ==
    /\ Known(r.msg)
    /\ Answered(r, "accepted")
    /\ UNCHANGED <<box, history>>
DeliverCollides(r) ==
    /\ box[r.msg].state = "foreign"
    /\ Answered(r, "refused")
    /\ UNCHANGED <<box, history>>
\* Mail of others fills the recipient's mailbox and leaves it again.
DeliverFull(r) ==
    /\ ~Known(r.msg) /\ box[r.msg].state # "foreign"
    /\ Answered(r, "full")
    /\ UNCHANGED <<box, history>>
DeliverStores(r) ==
    /\ ~Known(r.msg) /\ box[r.msg].state # "foreign"
    /\ Answered(r, "accepted")
    /\ box' = [box EXCEPT ![r.msg] = [state |-> "live", expires |-> r.expires, acked |-> 0]]
    /\ copies' = [copies EXCEPT ![r.msg] = IF r.expires > clock THEN @ + 1 ELSE @]
    /\ lodged' = lodged \cup {r.msg}
    /\ UNCHANGED lasting

\* A client of the recipient's home uses the id for mail of its own.
ForeignUse(m) ==
    /\ box[m].state = "none"
    /\ box' = [box EXCEPT ![m] = [state |-> "foreign", expires |-> MaxTime, acked |-> 0]]
    /\ UNCHANGED <<moved, grants, home, net, handling, history, clock>>

AckMail(m) ==
    /\ box[m].state = "live"
    /\ box' = [box EXCEPT ![m].state = "acked", ![m].acked = clock]
    /\ UNCHANGED <<moved, grants, home, net, handling, history, clock>>

\* The sweep's rules for messages.
Retired(row) ==
    \/ row.state = "acked" /\ (row.expires <= clock \/ row.acked + Retention <= clock)
    \/ row.state = "live" /\ row.expires + Retention <= clock

SweepBox ==
    /\ \E m \in Msgs : Retired(box[m])
    /\ box' = [m \in Msgs |-> IF Retired(box[m]) THEN NoMail ELSE box[m]]
    /\ UNCHANGED <<moved, grants, home, net, handling, history, clock>>

\* The connection breaks, or the recipient's home restarts after its commit or
\* before it.
RequestLost(r) ==
    /\ r \in net \cup handling
    /\ net' = net \ {r} /\ handling' = handling \ {r}
    /\ UNCHANGED <<moved, grants, home, box, history, clock>>
AnswerLost ==
    /\ answer # None
    /\ answer' = None
    /\ UNCHANGED <<moved, grants, checked, outbox, local, batch, current, net, away, clock>>

-----------------------------------------------------------------------------
\* The operator of a home loads the snapshot in which the peers moved.
Move(h) ==
    /\ h \notin moved
    /\ moved' = moved \cup {h}
    /\ UNCHANGED <<grants, home, net, away, clock>>

RevokeGrant(m) ==
    /\ m \in grants
    /\ grants' = grants \ {m}
    /\ UNCHANGED <<moved, home, net, away, clock>>

\* An attempt ends within its timeout: it sees the clock move at most once.
Tick ==
    /\ clock < MaxTime
    /\ current # None => current.started = clock
    /\ clock' = clock + 1
    /\ UNCHANGED <<moved, grants, home, net, away>>

Outcome == OutcomeUnknown \/ OutcomeAccepted \/ OutcomeFull \/ OutcomeRefused
Deliver(r) ==
    \/ DeliverCheck(r) \/ DeliverDenied(r)
    \/ DeliverDuplicate(r) \/ DeliverCollides(r) \/ DeliverFull(r) \/ DeliverStores(r)

Next ==
    \/ \E m \in Msgs :
           \/ SendCheck(m) \/ Enqueue(m) \/ SendRefused(m) \/ LocalSend(m) \/ LocalGone(m)
           \/ ForeignUse(m) \/ AckMail(m) \/ RevokeGrant(m)
    \/ \E b \in batch : AttemptLapsed(b) \/ Post(b)
    \/ Claim \/ Outcome \/ SweepOutbox \/ RestartA
    \/ \E r \in net \cup handling : Deliver(r) \/ RequestLost(r)
    \/ AnswerLost \/ SweepBox
    \/ \E h \in {"A", "B"} : Move(h)
    \/ Tick

Spec == Init /\ [][Next]_vars

\* The clock runs, an attempt ends with its timeout, the sweep thread wakes.
FairSpec == Spec /\ WF_vars(Tick) /\ WF_vars(Outcome) /\ WF_vars(SweepOutbox)

-----------------------------------------------------------------------------
(* Properties.                                                             *)

\* Rows, requests and answers are of their kinds, and only one attempt runs.
TypeOK ==
    /\ moved \subseteq {"A", "B"} /\ grants \subseteq Msgs /\ checked \subseteq Msgs
    /\ \A m \in Msgs : /\ outbox[m].state \in Pending \cup Final \cup {"none"}
                       /\ outbox[m].created <= outbox[m].expires
                       /\ box[m].state \in {"none", "live", "acked", "foreign"}
    /\ batch \subseteq [msg : Msgs, expires : 0..(MaxTime + MaxTtl)]
    /\ current # None => current.msg \in Msgs \ {b.msg : b \in batch}
    /\ answer \in {None, "accepted", "refused", "full"}
    /\ net \subseteq Requests /\ handling \subseteq Requests
    /\ Cardinality({r \in net \cup handling : r.waited}) <= 1
    /\ clock \in 0..MaxTime

\* A copy that can still be polled is stored once for each time the message was
\* queued, however often it is sent again ("this never duplicates the recipient
\* mailbox", relay.py), unless it was to live longer than the homes remember what
\* they finished: MAX_TTL is longer than RETENTION.
StoredOnce == \A m \in Msgs \ lasting : copies[m] <= 1

\* Every message that is pending comes to an end, although an attempt that outlives
\* the expiry puts an expired row back into the queue.
PendingEnds ==
    \A m \in Msgs : outbox[m].state \in Pending ~> outbox[m].state \notin Pending

PhaseOf(state) ==
    CASE state \in Pending -> "pending"
      [] state = "rejected" -> "refused"
      [] OTHER -> state
O == INSTANCE Outbox WITH phase <- [m \in Msgs |-> PhaseOf(outbox[m].state)]

\* The two relays together keep the promises of Outbox.
ImplementsOutbox == O!OutboxSpec

=============================================================================
