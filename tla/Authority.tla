----------------------------- MODULE Authority -----------------------------
(***************************************************************************)
(* The federation authority (federation_authority.py) and the adapter that *)
(* drives it (federation_adapter.py).  One SQLite file and one             *)
(* cross-process lock hold grants, reservations, holds and non-delivery    *)
(* records; the lock is kept across the transport of a message and across  *)
(* the acknowledgement of a received one, and falls when its process dies. *)
(*                                                                         *)
(* Every function of the authority is one lock section and one             *)
(* transaction, hence one action, except action(), which commits the       *)
(* handoff, calls the transport and commits the outcome.  A message keeps  *)
(* the grant it was journaled under (send() refuses any other), so the     *)
(* grant column of the tables is the constant Route.                       *)
(***************************************************************************)
EXTENDS Naturals

CONSTANTS
    Grants,     \* grants of the approved bootstrap; the code installs none
    Msgs,       \* stable ids of outgoing messages
    Ins,        \* ids of messages waiting for us at the relay
    Route,      \* the grant of an outgoing or incoming message, cfg["routes"]
    Nonces,     \* nonces of revocation batches
    None,       \* nobody holds the lock across a call
    PartitionCap,   \* partition_cap_s
    MaxGen,     \* bound: generations of a grant
    MaxTime     \* bound: the trusted clock

(* The configuration an adapter accepts: the binding of peers and endpoint *)
(* to one grant is unambiguous in either direction, and the cap is a time. *)
ConfigAccepted ==
    /\ Route \in [Msgs \cup Ins -> Grants]
    /\ Msgs \cap Ins = {}
    /\ PartitionCap \in Nat \ {0}

ASSUME AuthorityAssumption ==
    /\ ConfigAccepted
    /\ None \notin Msgs \cup Ins
    /\ MaxGen \in Nat \ {0}
    /\ MaxTime \in Nat

VARIABLES
    grants,     \* generation, state, last_recheck_verified_at
    payloads,   \* runtime_payloads: messages send() has journaled
    resv,       \* reservations, one per message at most
    outbox,     \* outbox rows
    queued,     \* queued_messages
    held,       \* held_messages: the generation of the row, 0 for none
    lineage,    \* authority_holds: generation (0 for none), bound to a reservation
    ndrs,       \* messages with a signed non-delivery record
    nonces,     \* consumed_nonces
    evidence,   \* signed recheck statements, used or not
    inbox,      \* runtime_inbox
    busy,       \* the message whose transport or acknowledgement holds the lock
    underway,   \* requests that left and did not arrive yet
    taken,      \* messages the destination relay accepted
    acked,      \* incoming messages the relay regards as acknowledged
    clock

tables == <<grants, payloads, resv, outbox, queued, held, lineage, ndrs, nonces,
            evidence, inbox>>
vars == <<tables, busy, underway, taken, acked, clock>>

LiveStates == {"reserved", "inflight", "failed-unknown", "retry"}
Row(s, n) == [state |-> s, gen |-> n]
NoRow == Row("none", 0)
NoHold == [gen |-> 0, bound |-> FALSE]
Exists(row) == row.state # "none"
Live(row) == row.state \in LiveStates

GenOf(m) == grants[Route[m]].gen
StateOf(m) == grants[Route[m]].state
Of(g) == {m \in Msgs : Route[m] = g}

Init ==
    /\ grants \in [Grants -> {[gen |-> 1, state |-> "OK", seen |-> 0]}]
    /\ payloads = {} /\ ndrs = {} /\ nonces = {} /\ evidence = {} /\ inbox = {}
    /\ resv = [m \in Msgs |-> NoRow]
    /\ outbox = [m \in Msgs |-> NoRow]
    /\ queued = {}
    /\ held = [m \in Msgs |-> 0]
    /\ lineage = [m \in Msgs |-> NoHold]
    /\ busy = None
    /\ underway = {} /\ taken = {} /\ acked = {}
    /\ clock = 0

-----------------------------------------------------------------------------
(* _advance_live_generation: what grant g carries to its next generation.  *)

CarriesReservation(g, m) == m \in Of(g) /\ Live(resv[m]) /\ resv[m].gen = grants[g].gen

\* Defect: the display state "held" counts as authority.
CarriesDisplayHold(g, m) ==
    /\ m \in Of(g) /\ m \notin ndrs
    /\ outbox[m] = Row("held", grants[g].gen)
    /\ held[m] = grants[g].gen
CarriesHold(g, m) ==
    /\ m \in Of(g) /\ m \notin ndrs
    /\ lineage[m].gen = grants[g].gen
    /\ outbox[m] = Row("held", grants[g].gen)
    /\ held[m] = grants[g].gen
    /\ IF lineage[m].bound THEN CarriesReservation(g, m) ELSE ~Exists(resv[m])

CarriesOutbox(g, m) ==
    \/ CarriesHold(g, m)
    \/ CarriesReservation(g, m) /\ outbox[m] = resv[m]

NextResv(g) == [m \in Msgs |->
    IF CarriesReservation(g, m) THEN [resv[m] EXCEPT !.gen = @ + 1] ELSE resv[m]]
NextOutbox(g) == [m \in Msgs |->
    IF CarriesOutbox(g, m) THEN [outbox[m] EXCEPT !.gen = @ + 1] ELSE outbox[m]]
NextHeld(g) == [m \in Msgs |-> IF CarriesHold(g, m) THEN held[m] + 1 ELSE held[m]]
NextLineage(g) == [m \in Msgs |->
    IF CarriesHold(g, m) THEN [lineage[m] EXCEPT !.gen = @ + 1] ELSE lineage[m]]

Advance(g) ==
    /\ resv' = NextResv(g)
    /\ outbox' = NextOutbox(g)
    /\ held' = NextHeld(g)
    /\ lineage' = NextLineage(g)

-----------------------------------------------------------------------------
(* Transitions of a grant.                                                 *)

LockFree == busy = None
Terminal(g) == grants[g].state = "REVOKED"
MayAdvance(g) == grants[g].gen < MaxGen

\* Defect: a suspension does not wait for the lock.
SetSuspectUnlocked(g) ==
    /\ MayAdvance(g)
    /\ grants[g].state = "OK"
    /\ grants' = [grants EXCEPT ![g].state = "SUSPECT", ![g].gen = @ + 1]
    /\ Advance(g)
    /\ UNCHANGED <<payloads, queued, ndrs, nonces, evidence, inbox, busy, underway,
                   taken, acked, clock>>
\* set_grant: the one helper transition, OK to SUSPECT.
SetSuspect(g) ==
    /\ LockFree /\ MayAdvance(g)
    /\ grants[g].state = "OK"
    /\ grants' = [grants EXCEPT ![g].state = "SUSPECT", ![g].gen = @ + 1]
    /\ Advance(g)
    /\ UNCHANGED <<payloads, queued, ndrs, nonces, evidence, inbox, busy, underway,
                   taken, acked, clock>>

CapDue(g) ==
    /\ grants[g].state \in {"OK", "SUSPECT"}
    /\ clock - grants[g].seen >= PartitionCap

\* What waits for a decision about grant g.
Waiting(g) == {m \in Of(g) : m \in queued \/ held[m] # 0}

\* _emit_ndr: a second record for a message is never written.
WithRecords(waiting) == ndrs \cup waiting

\* apply_partition_cap, enforce_cap and the evaluation inside a fence: the grant
\* is capped, what waits gets its record, and its live reservation is released.
ApplyPartitionCap(g) ==
    LET capGen == grants[g].gen + 1
        released == {m \in Waiting(g) : CarriesReservation(g, m)}
        closes(m) == /\ m \in released
                     /\ NextOutbox(g)[m].gen \in {grants[g].gen, capGen}
                     /\ NextOutbox(g)[m].state \in LiveStates \cup {"held"} IN
    /\ LockFree /\ MayAdvance(g) /\ CapDue(g)
    /\ grants' = [grants EXCEPT ![g].state = "CAPPED", ![g].gen = capGen]
    /\ ndrs' = WithRecords(Waiting(g))
    /\ resv' = [m \in Msgs |-> IF m \in released THEN Row("released", capGen) ELSE NextResv(g)[m]]
    /\ outbox' = [m \in Msgs |-> IF closes(m) THEN Row("released", capGen) ELSE NextOutbox(g)[m]]
    /\ queued' = queued \ Of(g)
    /\ held' = [m \in Msgs |-> IF m \in Of(g) THEN 0 ELSE held[m]]
    /\ lineage' = NextLineage(g)
    /\ UNCHANGED <<payloads, nonces, evidence, inbox, busy, underway, taken, acked, clock>>

\* commit_revoke_batch: a nonce, all its grants and their records, or nothing.
CommitRevokeBatch(n, batch) ==
    LET waiting == UNION {Waiting(g) : g \in batch}
        touched == UNION {Of(g) : g \in batch} IN
    /\ LockFree /\ batch # {} /\ n \notin nonces
    /\ \A g \in batch : ~Terminal(g) /\ MayAdvance(g)
    /\ nonces' = nonces \cup {n}
    /\ grants' = [g \in Grants |->
           IF g \in batch THEN [grants[g] EXCEPT !.state = "REVOKED", !.gen = @ + 1] ELSE grants[g]]
    /\ ndrs' = WithRecords(waiting)
    /\ queued' = queued \ touched
    /\ held' = [m \in Msgs |-> IF m \in touched THEN 0 ELSE held[m]]
    /\ UNCHANGED <<payloads, resv, outbox, lineage, evidence, inbox, busy, underway,
                   taken, acked, clock>>

\* A recheck statement: its grant, generation and prior state, and when it was verified.
Statement(g) == [grant |-> g, gen |-> grants[g].gen, prior |-> grants[g].state, at |-> clock]

\* The verifier signs what it finds now; the statement may be used much later.
SignEvidence(g) ==
    /\ grants[g].state \in {"SUSPECT", "CAPPED"}
    /\ evidence' = evidence \cup {Statement(g)}
    /\ UNCHANGED <<grants, payloads, resv, outbox, queued, held, lineage, ndrs, nonces,
                   inbox, busy, underway, taken, acked, clock>>

\* verified_recheck.  A used statement names a generation that is gone.
VerifiedRecheck(e) ==
    LET g == e.grant IN
    /\ LockFree /\ MayAdvance(g)
    /\ grants[g].gen = e.gen /\ grants[g].state = e.prior
    /\ e.at > grants[g].seen
    /\ grants' = [grants EXCEPT ![g] = [gen |-> e.gen + 1, state |-> "OK", seen |-> e.at]]
    /\ Advance(g)
    /\ UNCHANGED <<payloads, queued, ndrs, nonces, evidence, inbox, busy, underway,
                   taken, acked, clock>>

-----------------------------------------------------------------------------
(* Queue and reservations.                                                 *)

QueueMessage(m) ==
    /\ LockFree
    /\ queued' = queued \cup {m}
    /\ UNCHANGED <<grants, payloads, resv, outbox, held, lineage, ndrs, nonces, evidence,
                   inbox, busy, underway, taken, acked, clock>>

\* mark_held: a held row without lineage.
MarkHeld(m) ==
    /\ LockFree
    /\ held' = [held EXCEPT ![m] = GenOf(m)]
    /\ UNCHANGED <<grants, payloads, resv, outbox, queued, lineage, ndrs, nonces, evidence,
                   inbox, busy, underway, taken, acked, clock>>

\* resolve_queued: only after the durable delivery resolved.
ResolveQueued(m) ==
    /\ LockFree /\ m \in queued /\ resv[m].state = "sent"
    /\ queued' = queued \ {m}
    /\ UNCHANGED <<grants, payloads, resv, outbox, held, lineage, ndrs, nonces, evidence,
                   inbox, busy, underway, taken, acked, clock>>

\* An unbound hold of exactly this grant, generation and message.
Adoptable(m) ==
    /\ lineage[m] = [gen |-> GenOf(m), bound |-> FALSE]
    /\ outbox[m] = Row("held", GenOf(m))
    /\ held[m] = GenOf(m) /\ m \notin ndrs

\* Defect: a released reservation is taken for none and made anew.
ReserveAgain(m) ==
    /\ LockFree /\ StateOf(m) = "OK" /\ resv[m].state \in {"none", "released"}
    /\ resv' = [resv EXCEPT ![m] = Row("reserved", GenOf(m))]
    /\ lineage' = [lineage EXCEPT ![m].bound = @ \/ Adoptable(m)]
    /\ UNCHANGED <<grants, payloads, outbox, queued, held, ndrs, nonces, evidence, inbox,
                   busy, underway, taken, acked, clock>>
\* reserve_dispatch: the first reservation of a message is its only one.
ReserveDispatch(m) ==
    /\ LockFree /\ StateOf(m) = "OK" /\ ~Exists(resv[m])
    /\ resv' = [resv EXCEPT ![m] = Row("reserved", GenOf(m))]
    /\ lineage' = [lineage EXCEPT ![m].bound = @ \/ Adoptable(m)]
    /\ UNCHANGED <<grants, payloads, outbox, queued, held, ndrs, nonces, evidence, inbox,
                   busy, underway, taken, acked, clock>>

\* A reservation moves from one state to another, its outbox row with it if the
\* row is in that state too.
MoveBoth(m, from, to) ==
    /\ LockFree /\ resv[m].state = from
    /\ resv' = [resv EXCEPT ![m].state = to]
    /\ outbox' = [outbox EXCEPT ![m].state = IF @ = from THEN to ELSE @]
    /\ UNCHANGED <<grants, payloads, queued, held, lineage, ndrs, nonces, evidence, inbox,
                   busy, underway, taken, acked, clock>>

ReconcileInflight(m) == MoveBoth(m, "inflight", "failed-unknown")
ScheduleRetry(m) == MoveBoth(m, "failed-unknown", "retry")

\* release_reservation leaves the outbox row as it is.
ReleaseReservation(m) ==
    /\ LockFree /\ Exists(resv[m]) /\ resv[m].state # "sent"
    /\ resv' = [resv EXCEPT ![m].state = "released"]
    /\ UNCHANGED <<grants, payloads, outbox, queued, held, lineage, ndrs, nonces, evidence,
                   inbox, busy, underway, taken, acked, clock>>

-----------------------------------------------------------------------------
(* send() journals, then action() decides.                                 *)

JournalPayload(m) ==
    /\ LockFree
    /\ payloads' = payloads \cup {m}
    /\ UNCHANGED <<grants, resv, outbox, queued, held, lineage, ndrs, nonces, evidence,
                   inbox, busy, underway, taken, acked, clock>>

\* The read-only refusals in front of every decision of action().
Refused(m) ==
    \/ Exists(outbox[m]) /\ outbox[m].gen # GenOf(m)
    \/ m \in ndrs
    \/ outbox[m].state \in {"sent", "released"}

\* action() runs for a journaled message, after the cap was applied if due.
Decides(m) == LockFree /\ m \in payloads /\ ~CapDue(Route[m]) /\ ~Refused(m)

\* _hold_with_connection
Hold(m, hold) ==
    /\ outbox' = [outbox EXCEPT ![m] = Row("held", GenOf(m))]
    /\ held' = [held EXCEPT ![m] = GenOf(m)]
    /\ lineage' = [lineage EXCEPT ![m] = hold]
    /\ UNCHANGED <<grants, payloads, queued, ndrs, nonces, evidence, inbox, busy, underway,
                   taken, acked, clock>>

\* The grant is not OK: only a live lineage may be held, and only under SUSPECT
\* does the hold itself become authority.
HoldAtFence(m) ==
    /\ Decides(m) /\ StateOf(m) # "OK"
    /\ CASE outbox[m].state = "none" -> TRUE
         [] outbox[m].state = "held" ->
                lineage[m] = [gen |-> GenOf(m), bound |-> Exists(resv[m])]
         [] OTHER -> outbox[m].state = resv[m].state
    /\ Exists(resv[m]) => Live(resv[m]) /\ resv[m].gen = GenOf(m)
    /\ Hold(m, IF StateOf(m) = "SUSPECT" THEN [gen |-> GenOf(m), bound |-> Exists(resv[m])]
               ELSE NoHold)
    /\ UNCHANGED resv

\* The grant is OK and the reservation is of another generation or released.
HoldAtReservation(m) ==
    /\ Decides(m) /\ StateOf(m) = "OK" /\ Exists(resv[m])
    /\ resv[m].gen # GenOf(m) \/ resv[m].state = "released"
    /\ Hold(m, NoHold)
    /\ UNCHANGED resv

\* action() makes the reservation itself when there is none.
Reservation(m) == IF Exists(resv[m]) THEN resv[m] ELSE Row("reserved", GenOf(m))

\* The handoff is committed before the transport is called under the same lock.
HandOff(m) ==
    /\ Decides(m) /\ StateOf(m) = "OK"
    /\ Reservation(m).gen = GenOf(m) /\ Reservation(m).state \in {"reserved", "retry"}
    /\ outbox[m].state \in {"none", "held", Reservation(m).state}
    /\ resv' = [resv EXCEPT ![m] = Row("inflight", GenOf(m))]
    /\ outbox' = [outbox EXCEPT ![m] = Row("inflight", GenOf(m))]
    /\ lineage' = [lineage EXCEPT ![m] = NoHold]
    /\ busy' = m
    /\ underway' = underway \cup {m}
    /\ UNCHANGED <<grants, payloads, queued, held, ndrs, nonces, evidence, inbox, taken,
                   acked, clock>>

\* The destination relay stores the message once; the request may come late.
RelayTakes(m) ==
    /\ m \in underway
    /\ underway' = underway \ {m}
    /\ taken' = taken \cup {m}
    /\ UNCHANGED <<tables, busy, acked, clock>>

RequestLost(m) ==
    /\ m \in underway
    /\ underway' = underway \ {m}
    /\ UNCHANGED <<tables, busy, taken, acked, clock>>

Settle(m, to) ==
    /\ busy = m
    /\ busy' = None
    /\ resv' = [resv EXCEPT ![m].state = to]
    /\ outbox' = [outbox EXCEPT ![m].state = to]
    /\ UNCHANGED <<grants, payloads, queued, lineage, ndrs, nonces, evidence, inbox,
                   underway, taken, acked, clock>>

TransportAccepted(m) ==
    /\ m \in taken
    /\ Settle(m, "sent")
    /\ held' = [held EXCEPT ![m] = 0]

\* A timeout, an exception or an answer that cannot be read.
TransportUnknown(m) == Settle(m, "failed-unknown") /\ UNCHANGED held

\* A parsed refusal, for which action() has a branch although the adapter's own
\* transport answers a sent or an unknown and never this; the relay answers
\* "duplicate" for what it already took.  A request of an earlier attempt may
\* still be under way.
TransportRejected(m) ==
    /\ m \notin taken
    /\ Settle(m, "released")
    /\ UNCHANGED held

-----------------------------------------------------------------------------
(* receive(): persist under the lock, then acknowledge under the lock.     *)

\* Defect: acknowledge first, persist later.
ReceiveUnsaved(x) ==
    /\ LockFree /\ x \notin acked
    /\ ~CapDue(Route[x]) /\ StateOf(x) = "OK"
    /\ busy' = x
    /\ UNCHANGED <<tables, underway, taken, acked, clock>>
Receive(x) ==
    /\ LockFree /\ x \notin acked
    /\ ~CapDue(Route[x]) /\ StateOf(x) = "OK"
    /\ inbox' = inbox \cup {x}
    /\ busy' = x
    /\ UNCHANGED <<grants, payloads, resv, outbox, queued, held, lineage, ndrs, nonces,
                   evidence, underway, taken, acked, clock>>

\* The acknowledgement arrives, and its answer may be lost: either way the relay
\* forgets the message and the lock falls.
AckArrives(x) ==
    /\ busy = x
    /\ acked' = acked \cup {x}
    /\ busy' = None
    /\ UNCHANGED <<tables, underway, taken, clock>>

\* The process dies in the transport or in an acknowledgement that did not
\* arrive, or the call fails before it leaves: the lock falls.
Dies ==
    /\ ~LockFree
    /\ busy' = None
    /\ UNCHANGED <<tables, underway, taken, acked, clock>>

Tick ==
    /\ clock < MaxTime
    /\ clock' = clock + 1
    /\ UNCHANGED <<tables, busy, underway, taken, acked>>

Reconcile(m) == ReconcileInflight(m) \/ ScheduleRetry(m)
Action(m) == HoldAtFence(m) \/ HoldAtReservation(m) \/ HandOff(m)
Outcome(m) == TransportAccepted(m) \/ TransportUnknown(m) \/ TransportRejected(m)

Next ==
    \/ \E g \in Grants : SetSuspect(g) \/ ApplyPartitionCap(g) \/ SignEvidence(g)
    \/ \E n \in Nonces, batch \in SUBSET Grants : CommitRevokeBatch(n, batch)
    \/ \E e \in evidence : VerifiedRecheck(e)
    \/ \E m \in Msgs : \/ QueueMessage(m) \/ MarkHeld(m) \/ ResolveQueued(m) \/ ReserveDispatch(m)
                       \/ ReleaseReservation(m) \/ JournalPayload(m)
                       \/ Reconcile(m) \/ Action(m) \/ Outcome(m)
                       \/ RelayTakes(m) \/ RequestLost(m)
    \/ \E x \in Ins : Receive(x) \/ AckArrives(x)
    \/ Dies
    \/ Tick

Spec == Init /\ [][Next]_vars

-----------------------------------------------------------------------------
(* Properties.                                                             *)

Rows(states) == [state : states, gen : 0..MaxGen]
ReservationStates == LiveStates \cup {"none", "sent", "released"}

\* Every table holds rows of its schema.
TypeOK ==
    /\ grants \in [Grants -> [gen : 1..MaxGen, state : {"OK", "SUSPECT", "CAPPED", "REVOKED"},
                              seen : 0..MaxTime]]
    /\ payloads \subseteq Msgs /\ queued \subseteq Msgs /\ ndrs \subseteq Msgs
    /\ resv \in [Msgs -> Rows(ReservationStates)]
    /\ outbox \in [Msgs -> Rows(ReservationStates \cup {"held"})]
    /\ held \in [Msgs -> 0..MaxGen]
    /\ lineage \in [Msgs -> [gen : 0..MaxGen, bound : BOOLEAN]]
    /\ nonces \subseteq Nonces
    /\ evidence \subseteq [grant : Grants, gen : 1..MaxGen, prior : {"SUSPECT", "CAPPED"},
                           at : 0..MaxTime]
    /\ inbox \subseteq Ins /\ acked \subseteq Ins
    /\ busy \in Msgs \cup Ins \cup {None}
    /\ underway \subseteq Msgs /\ taken \subseteq Msgs
    /\ clock \in 0..MaxTime

\* While a message is in its transport its grant is OK, reservation and outbox are
\* inflight at the grant's generation, and no record says it was not delivered:
\* the decision cannot go stale between the fence and the transport's return.
FenceHolds ==
    busy \in Msgs =>
        /\ StateOf(busy) = "OK"
        /\ resv[busy] = Row("inflight", GenOf(busy))
        /\ outbox[busy] = resv[busy]
        /\ busy \notin ndrs

\* Whatever chain of suspensions, caps and reopenings a grant goes through, a live
\* reservation is of the grant's generation until a revocation strands it.
LiveIsCurrent ==
    \A m \in Msgs : Live(resv[m]) /\ ~Terminal(Route[m]) => resv[m].gen = GenOf(m)

\* A reservation is only recorded as sent when the relay has the message.
SentIsTaken == \A m \in Msgs : resv[m].state = "sent" => m \in taken

\* A message the relay was told to forget is in the local inbox.
AckedIsKept == acked \subseteq inbox

\* A message the relay has, or may still get from a request under way, leaves a
\* second time only when its outcome was recorded as unknown and a retry was then
\* scheduled: whatever died, was released, held and reopened since, no repeated
\* send() and no new reservation sends it again.
DepartsAgainByRetry ==
    [][\A m \in underway \cup taken : busy # m /\ busy' = m => resv[m].state = "retry"]_vars

\* A held message leaves only on the lineage of a hold under SUSPECT: a display
\* state of "held" written under CAPPED or REVOKED never becomes authority.
HeldLeavesOnLineage ==
    [][\A m \in Msgs : busy # m /\ busy' = m /\ outbox[m].state = "held" =>
        lineage[m].gen = GenOf(m)]_vars

=============================================================================
