-------------------------- MODULE FederationProofs --------------------------
(***************************************************************************)
(* The two relays keep the promises of Outbox and store a message once,    *)
(* for every number of messages, every lifetime and every retention.       *)
(***************************************************************************)
EXTENDS Federation, TLAPS

RowSet == [state : Pending \cup Final \cup {"none"}, created : Nat, expires : Nat]
MailSet == [state : {"none", "live", "acked", "foreign"}, expires : Nat, acked : Nat]
ClaimSet == [msg : Msgs, expires : Nat]
RequestSet == [msg : Msgs, expires : Nat, waited : BOOLEAN]

Types ==
    /\ clock \in Nat
    /\ outbox \in [Msgs -> RowSet] /\ box \in [Msgs -> MailSet]
    /\ batch \subseteq ClaimSet
    /\ current = None \/ current.msg \in Msgs
    /\ net \subseteq RequestSet /\ handling \subseteq RequestSet
    /\ copies \in [Msgs -> Nat]

\* What the forwarder has in hand was not settled by anyone else meanwhile, and it
\* has nothing twice.
Unsettled(m) == outbox[m].state \in Pending \cup {"expired", "none"}
InHand ==
    /\ \A b \in batch : Unsettled(b.msg) /\ \A c \in batch : c.msg = b.msg => c = b
    /\ current # None => Unsettled(current.msg) /\ \A b \in batch : b.msg # current.msg

\* Somebody waits only for requests of the current attempt, and what this attempt was
\* told of the destination is true of it.
AnswersAreTrue ==
    /\ \A r \in net \cup handling : r.waited => current # None /\ current.msg = r.msg
    /\ answer = "accepted" => current.msg \in lodged
    /\ \A m \in Msgs : Known(m) => m \in lodged

OutboxInv == Types /\ InHand /\ AnswersAreTrue

\* Of a message that never was to outlive the retention, a row stays until the message
\* is past its expiry; so a request that can still be stored belongs to the row, and so
\* does one that the forwarder is still to post ...
RowsOutliveMail ==
    \A m \in Msgs \ lasting :
        Exists(m) => /\ outbox[m].created <= clock
                     /\ outbox[m].expires <= outbox[m].created + Retention
RequestsHaveRows ==
    \A r \in net \cup handling \cup batch :
        r.msg \notin lasting /\ r.expires > clock =>
            Exists(r.msg) /\ r.expires = outbox[r.msg].expires

\* ... and the copy that was stored for this row is still known.
CopyIsKnown ==
    \A m \in Msgs \ lasting :
        copies[m] > 0 /\ Exists(m) /\ outbox[m].expires > clock =>
            /\ Known(m) /\ box[m].expires = outbox[m].expires
            /\ box[m].state = "acked" => box[m].acked >= outbox[m].created

StoreInv ==
    Types /\ RowsOutliveMail /\ RequestsHaveRows /\ CopyIsKnown /\ StoredOnce

-----------------------------------------------------------------------------
\* The steps by what they change.

Quiet(m) ==
    \/ SendCheck(m) \/ SendRefused(m) \/ LocalSend(m) \/ LocalGone(m) \/ RevokeGrant(m)

LEMMA QuietKeeps ==
    ASSUME \/ \E m \in Msgs : Quiet(m)
           \/ \E h \in {"A", "B"} : Move(h)
           \/ UNCHANGED vars
    PROVE  UNCHANGED <<outbox, batch, current, answer, net, handling, box, copies, lodged, lasting,
                       clock>>
BY DEF Quiet, SendCheck, SendRefused, LocalSend, LocalGone, RevokeGrant, Move, vars, home, away,
       history

LEMMA ExpiredTyped ==
    ASSUME NEW row \in RowSet
    PROVE  /\ Expired(row) \in RowSet
           /\ Expired(row).created = row.created /\ Expired(row).expires = row.expires
           /\ \/ Expired(row).state = row.state
              \/ row.state \in Pending /\ Expired(row).state = "expired"
BY DEF Expired, Lapsed, RowSet, Pending, Final

\* A mark writes the state of a row that exists.
LEMMA MarkEffect ==
    ASSUME Types, NEW m \in Msgs, NEW state \in Pending \cup Final, Mark(m, state)
    PROVE  /\ outbox' \in [Msgs -> RowSet]
           /\ \A n \in Msgs : n # m => outbox'[n] = outbox[n]
           /\ \A n \in Msgs : outbox'[n].created = outbox[n].created
           /\ \A n \in Msgs : outbox'[n].expires = outbox[n].expires
           /\ outbox'[m].state = IF Exists(m) THEN state ELSE outbox[m].state
<1>1. outbox[m] \in RowSet
    BY DEF Types
<1>2. outbox' = [outbox EXCEPT ![m] = [outbox[m] EXCEPT !.state = IF Exists(m) THEN state ELSE @]]
    BY DEF Mark
<1> DEFINE row == [outbox[m] EXCEPT !.state = IF Exists(m) THEN state ELSE @]
<1>3. /\ row \in RowSet /\ row.created = outbox[m].created /\ row.expires = outbox[m].expires
      /\ row.state = IF Exists(m) THEN state ELSE outbox[m].state
    BY <1>1 DEF RowSet
<1> HIDE DEF row
<1>4. outbox' = [outbox EXCEPT ![m] = row]
    BY <1>2 DEF row
<1> QED BY <1>3, <1>4 DEF Types

LEMMA UnwaitedTyped ==
    ASSUME NEW rs \in SUBSET RequestSet
    PROVE  /\ Unwaited(rs) \subseteq RequestSet
           /\ \A r \in Unwaited(rs) :
                  ~r.waited /\ \E q \in rs : q.msg = r.msg /\ q.expires = r.expires
BY DEF Unwaited, RequestSet

-----------------------------------------------------------------------------
\* Types.

LEMMA TypesStep ==
    ASSUME Types, [Next]_vars
    PROVE  Types'
<1> USE FederationAssumption
<1>1. ASSUME NEW m \in Msgs, Quiet(m) PROVE Types'
    BY <1>1, QuietKeeps DEF Types
<1>2. ASSUME NEW h \in {"A", "B"}, Move(h) PROVE Types'
    BY <1>2, QuietKeeps DEF Types
<1>3. CASE UNCHANGED vars
    BY <1>3, QuietKeeps DEF Types
<1>4. ASSUME NEW m \in Msgs, Enqueue(m) PROVE Types'
    <2>1. PICK ttl \in Ttls :
             outbox' = [outbox EXCEPT ![m] =
                 [state |-> "queued", created |-> clock, expires |-> clock + ttl]]
        BY <1>4 DEF Enqueue
    <2>2. clock \in Nat /\ clock + ttl \in Nat
        BY DEF Types
    <2>3. [state |-> "queued", created |-> clock, expires |-> clock + ttl] \in RowSet
        BY <2>2 DEF RowSet, Pending
    <2> QED BY <1>4, <2>1, <2>3 DEF Enqueue, Types
<1>5. ASSUME NEW b \in batch, AttemptLapsed(b) PROVE Types'
    <2>1. b.msg \in Msgs
        BY DEF Types, ClaimSet
    <2> QED BY <1>5, <2>1, MarkEffect DEF AttemptLapsed, Types, Final, away, history
<1>6. ASSUME NEW b \in batch, Post(b) PROVE Types'
    <2>1. b.msg \in Msgs /\ [msg |-> b.msg, expires |-> b.expires, waited |-> TRUE] \in RequestSet
        BY DEF Types, ClaimSet, RequestSet
    <2>2. current'.msg \in Msgs
        BY <1>6, <2>1 DEF Post
    <2> QED BY <1>6, <2>1, <2>2 DEF Post, Types, away, history
<1>7. CASE Claim
    <2>1. PICK due \in SUBSET Claimable :
             /\ batch' = {[msg |-> m, expires |-> outbox[m].expires] : m \in due}
             /\ outbox' = [m \in Msgs |-> IF m \in due THEN [outbox[m] EXCEPT !.state = "inflight"]
                                           ELSE Expired(outbox[m])]
        BY <1>7 DEF Claim
    <2>2. ASSUME NEW m \in Msgs
          PROVE  [outbox[m] EXCEPT !.state = "inflight"] \in RowSet /\ Expired(outbox[m]) \in RowSet
        BY ExpiredTyped DEF Types, RowSet, Pending
    <2>3. outbox' \in [Msgs -> RowSet]
        BY <2>1, <2>2
    <2>4. batch' \subseteq ClaimSet
        BY <2>1 DEF Claimable, ClaimSet, Types, RowSet
    <2> QED BY <1>7, <2>3, <2>4 DEF Claim, Types, away, history
<1>8. ASSUME NEW state \in Pending \cup Final, Ends(state) PROVE Types'
    BY <1>8, MarkEffect, UnwaitedTyped DEF Ends, Types, history
<1>9. CASE Outcome
    BY <1>8, <1>9 DEF Outcome, OutcomeUnknown, OutcomeAccepted, OutcomeFull, OutcomeRefused,
                      Pending, Final
<1>10. CASE SweepOutbox
    <2>1. ASSUME NEW m \in Msgs
          PROVE  Expired(outbox[m]) \in RowSet /\ NoRow \in RowSet
        BY ExpiredTyped DEF Types, RowSet, NoRow
    <2>2. outbox' \in [Msgs -> RowSet]
        BY <1>10, <2>1 DEF SweepOutbox
    <2> QED BY <1>10, <2>2 DEF SweepOutbox, Types, away, history
<1>11. CASE RestartA
    BY <1>11, UnwaitedTyped DEF RestartA, Types, history
<1>12. ASSUME NEW r \in net \cup handling, Deliver(r) PROVE Types'
    <2>1. r \in RequestSet
        BY DEF Types
    <2>2. CASE DeliverCheck(r)
        BY <2>1, <2>2 DEF DeliverCheck, Types, home, history
    <2>3. CASE DeliverDenied(r)
        BY <2>3 DEF DeliverDenied, Types, away, history
    <2>4. CASE DeliverDuplicate(r) \/ DeliverCollides(r) \/ DeliverFull(r)
        BY <2>4 DEF DeliverDuplicate, DeliverCollides, DeliverFull, Answered, Types, history
    <2>5. CASE DeliverStores(r)
        <3>1. [state |-> "live", expires |-> r.expires, acked |-> 0] \in MailSet
            BY <2>1 DEF RequestSet, MailSet
        <3>2. box' \in [Msgs -> MailSet]
            BY <2>1, <2>5, <3>1 DEF DeliverStores, Types
        <3>3. PICK n \in {copies[r.msg], copies[r.msg] + 1} : copies' = [copies EXCEPT ![r.msg] = n]
            BY <2>5 DEF DeliverStores
        <3>4. r.msg \in Msgs
            BY <2>1 DEF RequestSet
        <3>5. copies' \in [Msgs -> Nat]
            BY <3>3, <3>4 DEF Types
        <3> QED BY <2>5, <3>2, <3>5 DEF DeliverStores, Answered, Types
    <2> QED BY <1>12, <2>2, <2>3, <2>4, <2>5 DEF Deliver
<1>13. ASSUME NEW m \in Msgs, ForeignUse(m) PROVE Types'
    <2>1. [state |-> "foreign", expires |-> MaxTime, acked |-> 0] \in MailSet
        BY DEF MailSet
    <2> QED BY <1>13, <2>1 DEF ForeignUse, Types, home, history
<1>14. ASSUME NEW m \in Msgs, AckMail(m) PROVE Types'
    <2>1. box' = [box EXCEPT ![m] = [box[m] EXCEPT !.state = "acked", !.acked = clock]]
        BY <1>14 DEF AckMail, Types
    <2>2. [box[m] EXCEPT !.state = "acked", !.acked = clock] \in MailSet
        BY DEF Types, MailSet
    <2>3. box' \in [Msgs -> MailSet]
        BY <2>1, <2>2 DEF Types
    <2> QED BY <1>14, <2>3 DEF AckMail, Types, home, history
<1>15. CASE SweepBox
    <2>1. NoMail \in MailSet
        BY DEF NoMail, MailSet
    <2>2. box' \in [Msgs -> MailSet]
        BY <1>15, <2>1 DEF SweepBox, Types
    <2> QED BY <1>15, <2>2 DEF SweepBox, Types, home, history
<1>16. ASSUME NEW r \in net \cup handling, RequestLost(r) PROVE Types'
    BY <1>16 DEF RequestLost, Types, home, history
<1>17. CASE AnswerLost
    BY <1>17 DEF AnswerLost, Types, away, history
<1>18. CASE Tick
    BY <1>18 DEF Tick, Types, home, away, history
<1> QED
    BY <1>1, <1>2, <1>3, <1>4, <1>5, <1>6, <1>7, <1>9, <1>10, <1>11, <1>12, <1>13, <1>14, <1>15,
       <1>16, <1>17, <1>18 DEF Next, Quiet

-----------------------------------------------------------------------------
\* The forwarder's rows and the answers it gets.

LEMMA InHandStep ==
    ASSUME OutboxInv, [Next]_vars
    PROVE  InHand'
<1> USE FederationAssumption DEF OutboxInv, InHand, Unsettled
<1>1. ASSUME UNCHANGED <<outbox, batch, current>> PROVE InHand'
    BY <1>1
<1>2. ASSUME NEW m \in Msgs, Enqueue(m) PROVE InHand'
    <2>1. \A n \in Msgs : outbox'[n] = outbox[n] \/ outbox'[n].state = "queued"
        BY <1>2 DEF Enqueue, Types
    <2> QED BY <1>2, <2>1 DEF Enqueue, Types, Pending
<1>3. ASSUME NEW b \in batch, AttemptLapsed(b) PROVE InHand'
    <2>1. b.msg \in Msgs /\ \A c \in batch : c.msg \in Msgs
        BY DEF Types, ClaimSet
    <2>2. \A n \in Msgs : n # b.msg => outbox'[n] = outbox[n]
        BY <1>3, <2>1, MarkEffect DEF AttemptLapsed, Final
    <2> QED BY <1>3, <2>1, <2>2 DEF AttemptLapsed
<1>4. ASSUME NEW b \in batch, Post(b) PROVE InHand'
    <2>1. current'.msg = b.msg
        BY <1>4 DEF Post
    <2> QED BY <1>4, <2>1 DEF Post
<1>5. CASE Claim
    <2>1. PICK due \in SUBSET Claimable :
             /\ batch' = {[msg |-> m, expires |-> outbox[m].expires] : m \in due}
             /\ outbox' = [m \in Msgs |-> IF m \in due THEN [outbox[m] EXCEPT !.state = "inflight"]
                                           ELSE Expired(outbox[m])]
        BY <1>5 DEF Claim
    <2>2. \A m \in due : outbox'[m].state = "inflight"
        BY <2>1 DEF Claimable, Types, RowSet
    <2> QED BY <1>5, <2>1, <2>2 DEF Claim, Pending
<1>6. ASSUME NEW state \in Pending \cup Final, Ends(state) PROVE InHand'
    <2>1. \A n \in Msgs : n # current.msg => outbox'[n] = outbox[n]
        BY <1>6, MarkEffect DEF Ends, Types
    <2>2. \A b \in batch : b.msg \in Msgs
        BY DEF Types, ClaimSet
    <2> QED BY <1>6, <2>1, <2>2 DEF Ends
<1>7. CASE Outcome
    BY <1>6, <1>7 DEF Outcome, OutcomeUnknown, OutcomeAccepted, OutcomeFull, OutcomeRefused,
                      Pending, Final
<1>8. CASE SweepOutbox
    <2>1. ASSUME NEW m \in Msgs, Unsettled(m) PROVE Unsettled(m)'
        BY <1>8, <2>1, ExpiredTyped DEF SweepOutbox, Types, NoRow
    <2>2. \A b \in batch : b.msg \in Msgs
        BY DEF Types, ClaimSet
    <2> QED BY <1>8, <2>1, <2>2 DEF SweepOutbox, Types
<1>9. CASE RestartA
    BY <1>9 DEF RestartA
<1>10. ASSUME NEW r \in net \cup handling, Deliver(r) \/ RequestLost(r)
       PROVE  UNCHANGED <<outbox, batch, current>>
    BY <1>10 DEF Deliver, DeliverCheck, DeliverDenied, DeliverDuplicate, DeliverCollides,
                 DeliverFull, DeliverStores, Answered, RequestLost, home
<1>11. ASSUME \/ \E m \in Msgs : ForeignUse(m) \/ AckMail(m)
              \/ AnswerLost \/ SweepBox \/ Tick
       PROVE  UNCHANGED <<outbox, batch, current>>
    BY <1>11 DEF ForeignUse, AckMail, AnswerLost, SweepBox, Tick, home
<1> QED
    BY <1>1, <1>2, <1>3, <1>4, <1>5, <1>7, <1>8, <1>9, <1>10, <1>11, QuietKeeps DEF Next, Quiet

LEMMA AnswersStep ==
    ASSUME OutboxInv, [Next]_vars
    PROVE  AnswersAreTrue'
<1> USE FederationAssumption DEF OutboxInv, AnswersAreTrue, Known
<1>1. ASSUME UNCHANGED <<current, answer, box, lodged>>,
             net' \cup handling' \subseteq net \cup handling
      PROVE  AnswersAreTrue'
    BY <1>1
<1>2. ASSUME (\E m \in Msgs : Enqueue(m)) \/ (\E b \in batch : AttemptLapsed(b))
      PROVE  UNCHANGED <<current, answer, box, lodged, net, handling>>
    BY <1>2 DEF Enqueue, AttemptLapsed, away, history
<1>3. ASSUME NEW b \in batch, Post(b) PROVE AnswersAreTrue'
    <2>1. current' = [msg |-> b.msg, started |-> clock] /\ clock \in Nat /\ b.msg \in Msgs
        BY <1>3 DEF Post, Types, ClaimSet
    <2>2. current' # None /\ current'.msg = b.msg
        BY <2>1
    <2> QED BY <1>3, <2>2 DEF Post, away, history
<1>4. CASE Claim \/ SweepOutbox \/ Tick
    BY <1>1, <1>4 DEF Claim, SweepOutbox, Tick, home, away, history
<1>5. ASSUME NEW state, Ends(state) PROVE AnswersAreTrue'
    <2>1. \A r \in net' \cup handling' : ~r.waited
        BY <1>5, UnwaitedTyped DEF Ends, Types
    <2> QED BY <1>5, <2>1 DEF Ends, history
<1>6. CASE RestartA
    <2>1. \A r \in net' \cup handling' : ~r.waited
        BY <1>6, UnwaitedTyped DEF RestartA, Types
    <2> QED BY <1>6, <2>1 DEF RestartA, history
<1>7. ASSUME NEW r \in net \cup handling, Deliver(r) PROVE AnswersAreTrue'
    <2>1. CASE DeliverCheck(r)
        BY <2>1 DEF DeliverCheck, home, history
    <2>2. CASE DeliverDenied(r)
        BY <2>2 DEF DeliverDenied, Reply, away, history
    <2>3. CASE DeliverCollides(r) \/ DeliverFull(r)
        BY <2>3 DEF DeliverCollides, DeliverFull, Answered, Reply, history
    <2>4. CASE DeliverDuplicate(r)
        BY <2>4 DEF DeliverDuplicate, Answered, Reply, history, Types, RequestSet
    <2>5. CASE DeliverStores(r)
        <3>1. \A m \in Msgs : m # r.msg => box'[m] = box[m]
            BY <2>5 DEF DeliverStores, Types
        <3> QED BY <2>5, <3>1 DEF DeliverStores, Answered, Reply
    <2> QED BY <1>7, <2>1, <2>2, <2>3, <2>4, <2>5 DEF Deliver
<1>8. ASSUME NEW r \in net \cup handling, RequestLost(r) PROVE AnswersAreTrue'
    BY <1>8 DEF RequestLost, home, history
<1>9. ASSUME NEW m \in Msgs, ForeignUse(m) PROVE AnswersAreTrue'
    <2>1. \A n \in Msgs : Known(n)' => Known(n)
        BY <1>9 DEF ForeignUse, Types
    <2> QED BY <1>9, <2>1 DEF ForeignUse, home, history
<1>10. ASSUME NEW m \in Msgs, AckMail(m) PROVE AnswersAreTrue'
    <2>1. \A n \in Msgs : Known(n)' => Known(n)
        BY <1>10 DEF AckMail, Types
    <2> QED BY <1>10, <2>1 DEF AckMail, home, history
<1>11. CASE SweepBox
    <2>1. \A n \in Msgs : Known(n)' => Known(n)
        BY <1>11 DEF SweepBox, Types, NoMail
    <2> QED BY <1>11, <2>1 DEF SweepBox, home, history
<1>12. CASE AnswerLost
    BY <1>12 DEF AnswerLost, away, history
<1> QED
    BY <1>1, <1>2, <1>3, <1>4, <1>5, <1>6, <1>7, <1>8, <1>9, <1>10, <1>11, <1>12, QuietKeeps
    DEF Next, Quiet, Outcome, OutcomeUnknown, OutcomeAccepted, OutcomeFull, OutcomeRefused

LEMMA OutboxInvariant == Spec => []OutboxInv
<1>1. Init => OutboxInv
    BY FederationAssumption
    DEF Init, OutboxInv, Types, InHand, AnswersAreTrue, Known, NoRow, NoMail, RowSet, MailSet
<1>2. OutboxInv /\ [Next]_vars => OutboxInv'
    BY TypesStep, InHandStep, AnswersStep DEF OutboxInv
<1> QED BY <1>1, <1>2, PTL DEF Spec

-----------------------------------------------------------------------------
\* The refinement: every step of the two relays is a step of Outbox or none.

LEMMA PhaseOfStates ==
    ASSUME NEW state \in Pending \cup Final \cup {"none"}
    PROVE  /\ state \in Pending => PhaseOf(state) = "pending"
           /\ state = "rejected" => PhaseOf(state) = "refused"
           /\ state \in {"none", "delivered", "expired"} => PhaseOf(state) = state
           /\ PhaseOf(state) \in {"none", "pending", "delivered", "refused", "expired"}
BY DEF PhaseOf, Pending, Final

\* One row moved.
LEMMA OneMoves ==
    ASSUME Types, Types', UNCHANGED lodged, NEW m \in Msgs,
           \A n \in Msgs \ {m} : outbox'[n].state = outbox[n].state,
           NEW from, NEW to, PhaseOf(outbox[m].state) \in from, PhaseOf(outbox'[m].state) = to
    PROVE  O!Moves(m, from, to)
<1>1. ASSUME NEW n \in Msgs
      PROVE  PhaseOf(outbox'[n].state) = IF n = m THEN to ELSE PhaseOf(outbox[n].state)
    OBVIOUS
<1> QED BY <1>1 DEF O!Moves

\* Hygiene: any number of rows expire, or are forgotten when they were finished.
LEMMA ManyExpire ==
    ASSUME Types, Types', UNCHANGED lodged,
           \A m \in Msgs :
               \/ outbox'[m].state = outbox[m].state
               \/ outbox[m].state \in Pending /\ outbox'[m].state \in Pending \cup {"expired", "none"}
               \/ outbox[m].state \in Final /\ outbox'[m].state = "none"
    PROVE  O!Expire
<1> DEFINE was == [m \in Msgs |-> PhaseOf(outbox[m].state)]
           is == [m \in Msgs |-> PhaseOf(outbox'[m].state)]
<1>1. \A m \in Msgs : /\ outbox[m].state \in Pending \cup Final \cup {"none"}
                     /\ outbox'[m].state \in Pending \cup Final \cup {"none"}
    BY DEF Types, RowSet
<1>2. ASSUME NEW m \in Msgs
      PROVE  /\ PhaseOf(outbox'[m].state) \in {"none", "pending", "delivered", "refused", "expired"}
             /\ \/ PhaseOf(outbox'[m].state) = PhaseOf(outbox[m].state)
                \/ PhaseOf(outbox[m].state) = "pending" /\ PhaseOf(outbox'[m].state) \in {"expired", "none"}
                \/ /\ PhaseOf(outbox[m].state) \in {"delivered", "refused", "expired"}
                   /\ PhaseOf(outbox'[m].state) = "none"
    BY <1>1, PhaseOfStates DEF Pending, Final
<1> QED BY <1>2 DEF O!Expire

LEMMA OutboxStep ==
    ASSUME OutboxInv, [Next]_vars
    PROVE  [O!OutboxNext]_(O!outboxVars)
<1> USE FederationAssumption
<1>1. Types /\ Types'
    BY TypesStep DEF OutboxInv
<1>2. \A m \in Msgs : outbox[m].state \in Pending \cup Final \cup {"none"}
    BY <1>1 DEF Types, RowSet
<1>3. ASSUME UNCHANGED <<outbox, lodged>> PROVE UNCHANGED O!outboxVars
    BY <1>3 DEF O!outboxVars
<1>4. ASSUME NEW m \in Msgs, Enqueue(m) PROVE O!Accept(m)
    <2>1. PICK ttl \in Ttls :
             outbox' = [outbox EXCEPT ![m] =
                 [state |-> "queued", created |-> clock, expires |-> clock + ttl]]
        BY <1>4 DEF Enqueue
    <2>2. outbox[m].state = "none" /\ outbox'[m].state = "queued" /\ lodged' = lodged
        BY <1>1, <1>4, <2>1 DEF Enqueue, Free, Exists, Types
    <2>3. \A n \in Msgs \ {m} : outbox'[n].state = outbox[n].state
        BY <1>1, <2>1 DEF Types
    <2>4. PhaseOf(outbox[m].state) \in {"none"} /\ PhaseOf(outbox'[m].state) = "pending"
        BY <2>2, PhaseOfStates DEF Pending
    <2> QED BY <1>1, <2>2, <2>3, <2>4, OneMoves DEF O!Accept
<1>5. ASSUME NEW b \in batch, AttemptLapsed(b) PROVE O!Expire
    <2> DEFINE m == b.msg
    <2>1. Mark(m, "expired") /\ lodged' = lodged /\ Unsettled(m) /\ m \in Msgs
        BY <1>1, <1>5 DEF AttemptLapsed, away, history, OutboxInv, InHand, Types, ClaimSet
    <2> HIDE DEF m
    <2>2. \A n \in Msgs : n # m => outbox'[n] = outbox[n]
        BY <1>1, <2>1, MarkEffect DEF Final
    <2>3. outbox'[m].state = IF Exists(m) THEN "expired" ELSE outbox[m].state
        BY <1>1, <2>1, MarkEffect DEF Final
    <2> QED BY <1>1, <2>1, <2>2, <2>3, ManyExpire DEF Unsettled, Exists
<1>6. ASSUME NEW state \in Pending \cup {"delivered", "rejected"}, Ends(state),
             state = "delivered" => current.msg \in lodged
      PROVE  O!OutboxNext \/ UNCHANGED O!outboxVars
    <2> DEFINE m == current.msg
    <2>1. m \in Msgs /\ Mark(m, state) /\ lodged' = lodged /\ Unsettled(m)
        BY <1>1, <1>6 DEF Ends, Types, OutboxInv, InHand, history
    <2> HIDE DEF m
    <2>2. \A n \in Msgs \ {m} : outbox'[n].state = outbox[n].state
        BY <1>1, <2>1, MarkEffect DEF Final
    <2>3. outbox'[m].state = IF Exists(m) THEN state ELSE outbox[m].state
        BY <1>1, <2>1, MarkEffect DEF Final
    <2>4. CASE outbox'[m].state = outbox[m].state \/ PhaseOf(outbox'[m].state) = PhaseOf(outbox[m].state)
        <3>1. ASSUME NEW n \in Msgs PROVE PhaseOf(outbox'[n].state) = PhaseOf(outbox[n].state)
            BY <2>2, <2>4
        <3> QED BY <2>1, <3>1 DEF O!outboxVars
    <2>5. CASE outbox[m].state \in Pending \cup {"expired"} /\ outbox'[m].state = state
        <3>1. PhaseOf(outbox[m].state) \in {"pending", "expired"}
            BY <1>2, <2>1, <2>5, PhaseOfStates
        <3>2. CASE state \in Pending
            <4>1. PhaseOf(outbox'[m].state) = "pending"
                BY <2>5, <3>2, PhaseOfStates
            <4>2. CASE outbox[m].state = "expired"
                <5>1. PhaseOf(outbox[m].state) \in {"expired"}
                    BY <4>2, PhaseOfStates DEF Final
                <5>2. O!Requeue(m)
                    BY <1>1, <2>1, <2>2, <4>1, <5>1, OneMoves DEF O!Requeue
                <5> QED BY <2>1, <5>2 DEF O!OutboxNext
            <4>3. CASE outbox[m].state \in Pending
                BY <2>4, <4>1, <4>3, PhaseOfStates
            <4> QED BY <2>5, <4>2, <4>3
        <3>3. CASE state = "delivered"
            <4>1. PhaseOf(outbox'[m].state) = "delivered"
                BY <2>5, <3>3, PhaseOfStates DEF Final
            <4>2. O!Moves(m, {"pending", "expired"}, "delivered")
                BY <1>1, <2>1, <2>2, <3>1, <4>1, OneMoves
            <4> QED BY <1>6, <2>1, <3>3, <4>2 DEF O!Deliver, O!OutboxNext, m
        <3>4. CASE state = "rejected"
            <4>1. PhaseOf(outbox'[m].state) = "refused"
                BY <2>5, <3>4, PhaseOfStates DEF Final
            <4>2. O!Moves(m, {"pending", "expired"}, "refused")
                BY <1>1, <2>1, <2>2, <3>1, <4>1, OneMoves
            <4> QED BY <2>1, <4>2 DEF O!Refuse, O!OutboxNext
        <3> QED BY <1>6, <3>2, <3>3, <3>4
    <2> QED BY <2>1, <2>3, <2>4, <2>5 DEF Unsettled, Exists
<1>7. CASE Outcome
    <2>1. OutcomeAccepted => current.msg \in lodged /\ Ends("delivered")
        BY DEF OutcomeAccepted, OutboxInv, AnswersAreTrue
    <2> QED BY <1>6, <1>7, <2>1 DEF Outcome, OutcomeUnknown, OutcomeFull, OutcomeRefused, Pending
<1>8. CASE Claim
    <2>1. PICK due \in SUBSET Claimable :
             outbox' = [m \in Msgs |-> IF m \in due THEN [outbox[m] EXCEPT !.state = "inflight"]
                                      ELSE Expired(outbox[m])]
        BY <1>8 DEF Claim
    <2>2. ASSUME NEW m \in Msgs
          PROVE  \/ outbox'[m].state = outbox[m].state
                 \/ outbox[m].state \in Pending /\ outbox'[m].state \in Pending \cup {"expired"}
        <3>1. CASE m \in due
            BY <1>1, <2>1, <3>1 DEF Claimable, Types, RowSet, Pending
        <3>2. CASE m \notin due
            BY <1>1, <2>1, <3>2, ExpiredTyped DEF Types
        <3> QED BY <3>1, <3>2
    <2>3. lodged' = lodged
        BY <1>8 DEF Claim, away, history
    <2> QED BY <1>1, <2>2, <2>3, ManyExpire DEF O!OutboxNext
<1>9. CASE SweepOutbox
    <2>1. ASSUME NEW m \in Msgs
          PROVE  \/ outbox'[m].state = outbox[m].state
                 \/ outbox[m].state \in Pending /\ outbox'[m].state \in {"expired", "none"}
                 \/ outbox[m].state \in Final /\ outbox'[m].state = "none"
        BY <1>1, <1>9, ExpiredTyped DEF SweepOutbox, Pruned, NoRow, Types
    <2>2. lodged' = lodged
        BY <1>9 DEF SweepOutbox, away, history
    <2> QED BY <1>1, <2>1, <2>2, ManyExpire DEF O!OutboxNext
<1>10. ASSUME NEW r \in net \cup handling, Deliver(r)
       PROVE  outbox' = outbox /\ (lodged' = lodged \/ lodged' = lodged \cup {r.msg}) /\ r.msg \in Msgs
    BY <1>1, <1>10 DEF Deliver, DeliverCheck, DeliverDenied, DeliverDuplicate, DeliverCollides,
                 DeliverFull, DeliverStores, Answered, home, away, history, Types, RequestSet
<1>11. ASSUME NEW r \in net \cup handling, Deliver(r)
       PROVE  O!OutboxNext \/ UNCHANGED O!outboxVars
    BY <1>3, <1>10, <1>11 DEF O!OutboxNext, O!Lodge
<1>12. ASSUME \/ \E b \in batch : Post(b)
              \/ \E m \in Msgs : ForeignUse(m) \/ AckMail(m)
              \/ \E r \in net \cup handling : RequestLost(r)
              \/ RestartA \/ AnswerLost \/ SweepBox \/ Tick
       PROVE  UNCHANGED <<outbox, lodged>>
    BY <1>12 DEF Post, ForeignUse, AckMail, RequestLost, RestartA, AnswerLost, SweepBox, Tick, home,
                 away, history
<1>13. (\E m \in Msgs : Enqueue(m)) \/ (\E b \in batch : AttemptLapsed(b)) => O!OutboxNext
    BY <1>4, <1>5 DEF O!OutboxNext
<1> QED
    BY <1>3, <1>7, <1>8, <1>9, <1>11, <1>12, <1>13, QuietKeeps DEF Next, Quiet

\* The two relays keep the promises of Outbox, whatever the network, the two route
\* snapshots, the sweeps and the restarts do: a message counts as delivered only when
\* the other home has stored it, and delivered and refused are final.
THEOREM OutboxImplemented == Spec => ImplementsOutbox
<1>1. Init => O!OutboxInit
    <2>1. PhaseOf("none") = "none"
        BY PhaseOfStates
    <2> QED BY <2>1 DEF Init, NoRow, O!OutboxInit
<1>2. OutboxInv /\ [Next]_vars => [O!OutboxNext]_(O!outboxVars)
    BY OutboxStep
<1> QED BY <1>1, <1>2, OutboxInvariant, PTL DEF Spec, ImplementsOutbox, O!OutboxSpec

-----------------------------------------------------------------------------
\* What Outbox promises, proved of the abstract specification and true of the two
\* relays because they implement it.

\* The phase of one id after a step of Outbox, and what that step did for it.
LEMMA PhaseStep ==
    ASSUME O!OutboxNext, NEW m \in Msgs
    PROVE  LET was == PhaseOf(outbox[m].state)
               is == PhaseOf(outbox'[m].state)
           IN  /\ lodged \subseteq lodged'
               /\ \/ is = was
                  \/ was \notin {"delivered", "refused"} /\ is # "delivered"
                  \/ is = "delivered" /\ was \in {"pending", "expired"} /\ m \in lodged
                  \/ is = "none"
<1> DEFINE was == [n \in Msgs |-> PhaseOf(outbox[n].state)]
           is == [n \in Msgs |-> PhaseOf(outbox'[n].state)]
<1>1. ASSUME NEW n \in Msgs, NEW from, NEW to, O!Moves(n, from, to)
      PROVE  /\ lodged' = lodged /\ was[n] \in from
             /\ is[m] = IF m = n THEN to ELSE was[m]
    <2>1. is = [was EXCEPT ![n] = to]
        BY <1>1 DEF O!Moves
    <2> QED BY <1>1, <2>1 DEF O!Moves
<1>2. ASSUME NEW n \in Msgs, O!Accept(n) \/ O!Refuse(n) \/ O!Requeue(n)
      PROVE  /\ lodged' = lodged
             /\ is[m] = was[m] \/ (was[m] \notin {"delivered", "refused"} /\ is[m] # "delivered")
    BY <1>1, <1>2 DEF O!Accept, O!Refuse, O!Requeue
<1>3. ASSUME NEW n \in Msgs, O!Deliver(n)
      PROVE  /\ lodged' = lodged
             /\ \/ is[m] = was[m]
                \/ is[m] = "delivered" /\ was[m] \in {"pending", "expired"} /\ m \in lodged
    BY <1>1, <1>3 DEF O!Deliver
<1>4. ASSUME NEW n \in Msgs, O!Lodge(n)
      PROVE  lodged \subseteq lodged' /\ is[m] = was[m]
    <2>1. is = was
        BY <1>4 DEF O!Lodge
    <2> QED BY <1>4, <2>1 DEF O!Lodge
<1>5. CASE O!Expire
    <2>1. is[m] # was[m] =>
             \/ was[m] = "pending" /\ is[m] \in {"expired", "none"}
             \/ was[m] \in {"delivered", "refused", "expired"} /\ is[m] = "none"
        BY <1>5 DEF O!Expire
    <2> QED BY <1>5, <2>1 DEF O!Expire
<1> QED BY <1>2, <1>3, <1>4, <1>5 DEF O!OutboxNext

\* An id counts as delivered only when the other home has stored it: the answer that
\* may be lost, late or of another attempt is never what makes it so.
THEOREM DeliveredIsLodged == O!OutboxSpec => []O!DeliveredWasLodged
<1>1. O!OutboxInit => O!DeliveredWasLodged
    <2> SUFFICES ASSUME O!OutboxInit, NEW m \in Msgs PROVE PhaseOf(outbox[m].state) # "delivered"
        BY DEF O!DeliveredWasLodged
    <2>1. [n \in Msgs |-> PhaseOf(outbox[n].state)][m] = "none"
        BY DEF O!OutboxInit
    <2> QED BY <2>1
<1>2. O!DeliveredWasLodged /\ [O!OutboxNext]_(O!outboxVars) => O!DeliveredWasLodged'
    <2> SUFFICES ASSUME O!DeliveredWasLodged, [O!OutboxNext]_(O!outboxVars), NEW m \in Msgs,
                        PhaseOf(outbox'[m].state) = "delivered"
                 PROVE  m \in lodged'
        BY DEF O!DeliveredWasLodged
    <2>1. PhaseOf(outbox[m].state) = "delivered" => m \in lodged
        BY DEF O!DeliveredWasLodged
    <2>2. CASE O!OutboxNext
        BY <2>1, <2>2, PhaseStep
    <2>3. CASE UNCHANGED O!outboxVars
        <3>1. [n \in Msgs |-> PhaseOf(outbox'[n].state)][m]
                = [n \in Msgs |-> PhaseOf(outbox[n].state)][m] /\ lodged' = lodged
            BY <2>3 DEF O!outboxVars
        <3> QED BY <2>1, <3>1
    <2> QED BY <2>2, <2>3
<1> QED BY <1>1, <1>2, PTL DEF O!OutboxSpec

\* Delivered and refused are the last word about an id until it is forgotten.
THEOREM LastWordStands == O!OutboxSpec => O!EndsAreFinal
<1> DEFINE phase == [m \in Msgs |-> PhaseOf(outbox[m].state)]
           Stands == \A m \in Msgs :
             phase[m] \in {"delivered", "refused"} => phase'[m] \in {phase[m], "none"}
<1>1. [O!OutboxNext]_(O!outboxVars) => [Stands]_(O!outboxVars)
    BY PhaseStep
<1> QED BY <1>1, PTL DEF O!OutboxSpec, O!EndsAreFinal

\* Both hold of the relays, through the refinement: a sender that reads delivered in a
\* receipt, or refused, will read nothing else, and what it reads delivered was stored.
THEOREM ReceiptsAreTrue == Spec => []O!DeliveredWasLodged /\ O!EndsAreFinal
BY OutboxImplemented, DeliveredIsLodged, LastWordStands, PTL DEF ImplementsOutbox

-----------------------------------------------------------------------------
\* Storing once.

\* A row is queued, or keeps its times, or is forgotten when its message is past them.
LEMMA RowTimes ==
    ASSUME Types, [Next]_vars, NEW m \in Msgs
    PROVE  \/ Enqueue(m)
           \/ /\ outbox'[m].created = outbox[m].created
              /\ outbox'[m].expires = outbox[m].expires
              /\ Exists(m)' <=> Exists(m)
           \/ outbox'[m] = NoRow /\ outbox[m].created + Retention <= clock /\ clock' = clock
<1> USE FederationAssumption
<1>1. outbox[m] \in RowSet
    BY DEF Types
<1>2. ASSUME NEW n \in Msgs, n # m, Enqueue(n) PROVE outbox'[m] = outbox[m]
    BY <1>2 DEF Enqueue, Types
<1>3. ASSUME NEW n \in Msgs, NEW state \in Pending \cup Final, Mark(n, state)
      PROVE  /\ outbox'[m].created = outbox[m].created
             /\ outbox'[m].expires = outbox[m].expires
             /\ Exists(m)' <=> Exists(m)
    BY <1>3, MarkEffect DEF Exists, Pending, Final
<1>4. (\E b \in batch : AttemptLapsed(b)) \/ Outcome
        => \E n \in Msgs, state \in Pending \cup Final : Mark(n, state)
    BY DEF AttemptLapsed, Outcome, OutcomeUnknown, OutcomeAccepted, OutcomeFull, OutcomeRefused,
           Ends, Pending, Final, Types, ClaimSet
<1>5. CASE Claim
    <2>1. PICK due \in SUBSET Claimable :
             outbox' = [n \in Msgs |-> IF n \in due THEN [outbox[n] EXCEPT !.state = "inflight"]
                                      ELSE Expired(outbox[n])]
        BY <1>5 DEF Claim
    <2>2. CASE m \in due
        BY <1>1, <2>1, <2>2 DEF Claimable, Exists, RowSet, Pending
    <2>3. CASE m \notin due
        BY <1>1, <2>1, <2>3, ExpiredTyped DEF Exists, Pending
    <2> QED BY <2>2, <2>3
<1>6. CASE SweepOutbox
    <2>1. CASE Pruned(Expired(outbox[m]))
        BY <1>1, <1>6, <2>1, ExpiredTyped DEF SweepOutbox, Pruned
    <2>2. CASE ~Pruned(Expired(outbox[m]))
        BY <1>1, <1>6, <2>2, ExpiredTyped DEF SweepOutbox, Exists, Pending
    <2> QED BY <2>1, <2>2
<1>7. ASSUME \/ \E b \in batch : Post(b)
             \/ \E n \in Msgs : ForeignUse(n) \/ AckMail(n)
             \/ \E r \in net \cup handling : Deliver(r) \/ RequestLost(r)
             \/ RestartA \/ AnswerLost \/ SweepBox \/ Tick
      PROVE  outbox' = outbox
    BY <1>7 DEF Post, ForeignUse, AckMail, Deliver, DeliverCheck, DeliverDenied, DeliverDuplicate,
                DeliverCollides, DeliverFull, DeliverStores, Answered, RequestLost, RestartA,
                AnswerLost, SweepBox, Tick, home
<1>8. outbox' = outbox => Exists(m)' = Exists(m)
    BY DEF Exists
<1> QED
    BY <1>2, <1>3, <1>4, <1>5, <1>6, <1>7, <1>8, QuietKeeps DEF Next, Quiet, Exists

\* What is under way, or to be posted, was so before, or is claimed now from a row that
\* still lives.
LEMMA RequestsStep ==
    ASSUME Types, [Next]_vars, NEW r \in net' \cup handling' \cup batch'
    PROVE  \/ \E q \in net \cup handling \cup batch : q.msg = r.msg /\ q.expires = r.expires
           \/ /\ r.msg \in Msgs /\ Exists(r.msg) /\ r.expires = outbox[r.msg].expires
              /\ r.expires > clock
<1>1. CASE net' \cup handling' \cup batch' \subseteq net \cup handling \cup batch
    BY <1>1
<1>2. ASSUME NEW b \in batch, Post(b)
      PROVE  r \in net \cup handling \cup batch \/ (r.msg = b.msg /\ r.expires = b.expires)
    BY <1>2 DEF Post, away
<1>3. ASSUME (\E state : Ends(state)) \/ RestartA
      PROVE  \E q \in net \cup handling \cup batch : q.msg = r.msg /\ q.expires = r.expires
    BY <1>3, UnwaitedTyped DEF Ends, RestartA, Types
<1>4. ASSUME \/ \E m \in Msgs : Enqueue(m) \/ ForeignUse(m) \/ AckMail(m)
             \/ \E b \in batch : AttemptLapsed(b)
             \/ \E q \in net \cup handling : RequestLost(q)
             \/ SweepOutbox \/ AnswerLost \/ SweepBox \/ Tick
      PROVE  net' \cup handling' \cup batch' \subseteq net \cup handling \cup batch
    BY <1>4 DEF Enqueue, AttemptLapsed, ForeignUse, AckMail, RequestLost, SweepOutbox,
                AnswerLost, SweepBox, Tick, home, away
<1>5. ASSUME NEW q \in net \cup handling, Deliver(q)
      PROVE  net' \cup handling' \cup batch' \subseteq net \cup handling \cup batch
    BY <1>5 DEF Deliver, DeliverCheck, DeliverDenied, DeliverDuplicate, DeliverCollides,
                DeliverFull, DeliverStores, Answered, home, away
<1>6. ASSUME Claim, r \notin net \cup handling
      PROVE  /\ r.msg \in Msgs /\ Exists(r.msg) /\ r.expires = outbox[r.msg].expires
             /\ r.expires > clock
    <2>1. r \in batch'
        BY <1>6 DEF Claim, away
    <2>2. PICK m \in Claimable : r = [msg |-> m, expires |-> outbox[m].expires]
        BY <1>6, <2>1 DEF Claim
    <2> QED BY <2>2 DEF Claimable, Exists, Pending
<1> QED
    BY <1>1, <1>2, <1>3, <1>4, <1>5, <1>6, QuietKeeps
    DEF Next, Quiet, Outcome, OutcomeUnknown, OutcomeAccepted, OutcomeFull, OutcomeRefused

StoresFor(r, m) ==
    /\ r.msg = m /\ ~Known(m) /\ Known(m)'
    /\ box'[m].state = "live" /\ box'[m].expires = r.expires
    /\ copies'[m] = IF r.expires > clock THEN copies[m] + 1 ELSE copies[m]
    /\ UNCHANGED <<outbox, lasting, clock>>

\* The other home stores, or its mail changes by the clock and its readers only.
LEMMA MailStep ==
    ASSUME Types, [Next]_vars, NEW m \in Msgs
    PROVE  \/ copies'[m] = 0
           \/ copies'[m] = copies[m] /\ Known(m) /\ ~Known(m)' /\ Retired(box[m]) /\ clock' = clock
           \/ copies'[m] = copies[m] /\ (Known(m) => box'[m] = box[m])
           \/ /\ copies'[m] = copies[m] /\ Known(m) /\ Known(m)'
              /\ box'[m].expires = box[m].expires /\ box'[m].acked = clock
           \/ \E r \in handling : StoresFor(r, m)
<1>1. ASSUME UNCHANGED <<box, copies>>
      PROVE  copies'[m] = copies[m] /\ box'[m] = box[m]
    BY <1>1
<1>2. ASSUME NEW n \in Msgs, Enqueue(n)
      PROVE  box' = box /\ (copies'[m] = 0 \/ copies'[m] = copies[m])
    BY <1>2 DEF Enqueue, Types
<1>3. ASSUME \/ \E b \in batch : AttemptLapsed(b) \/ Post(b)
             \/ \E r \in net \cup handling : RequestLost(r) \/ DeliverCheck(r) \/ DeliverDenied(r)
                    \/ DeliverDuplicate(r) \/ DeliverCollides(r) \/ DeliverFull(r)
             \/ \E state : Ends(state)
             \/ RestartA \/ Claim \/ SweepOutbox \/ AnswerLost \/ Tick
      PROVE  UNCHANGED <<box, copies>>
    BY <1>3 DEF AttemptLapsed, Post, RequestLost, DeliverCheck, DeliverDenied, DeliverDuplicate,
                DeliverCollides, DeliverFull, Ends, RestartA, Claim, SweepOutbox, AnswerLost, Tick,
                away, history
<1>4. ASSUME NEW r \in net \cup handling, DeliverStores(r), r.msg = m
      PROVE  r \in handling /\ StoresFor(r, m)
    BY <1>4 DEF DeliverStores, Answered, Known, Types, StoresFor
<1>5. ASSUME NEW r \in net \cup handling, DeliverStores(r), r.msg # m
      PROVE  copies'[m] = copies[m] /\ box'[m] = box[m]
    BY <1>5 DEF DeliverStores, Types
<1>6. ASSUME NEW n \in Msgs, ForeignUse(n)
      PROVE  copies'[m] = copies[m] /\ (Known(m) => box'[m] = box[m])
    BY <1>6 DEF ForeignUse, Known, Types, history
<1>7. ASSUME NEW n \in Msgs, AckMail(n)
      PROVE  /\ copies'[m] = copies[m]
             /\ \/ box'[m] = box[m]
                \/ /\ Known(m) /\ Known(m)' /\ box'[m].expires = box[m].expires
                   /\ box'[m].acked = clock
    <2>1. box' = [box EXCEPT ![n] = [box[n] EXCEPT !.state = "acked", !.acked = clock]]
        BY <1>7 DEF AckMail, Types
    <2>2. box[n] \in MailSet /\ box[n].state = "live"
        BY <1>7 DEF AckMail, Types
    <2> QED BY <1>7, <2>1, <2>2 DEF AckMail, Known, Types, history, MailSet
<1>8. CASE SweepBox
    <2>1. copies' = copies /\ clock' = clock
        BY <1>8 DEF SweepBox, history
    <2>2. box'[m] = IF Retired(box[m]) THEN NoMail ELSE box[m]
        BY <1>8 DEF SweepBox
    <2> QED BY <2>1, <2>2 DEF Known, NoMail, Retired
<1> QED
    BY <1>1, <1>2, <1>3, <1>4, <1>5, <1>6, <1>7, <1>8, QuietKeeps
    DEF Next, Quiet, Deliver, Outcome, OutcomeUnknown, OutcomeAccepted, OutcomeFull, OutcomeRefused

\* Time passes, and an id that was to outlive the retention is marked for good.
LEMMA ClockStep ==
    ASSUME Types, [Next]_vars
    PROVE  clock' >= clock /\ lasting \subseteq lasting'
<1>1. ASSUME \/ \E b \in batch : AttemptLapsed(b) \/ Post(b)
             \/ \E n \in Msgs : ForeignUse(n) \/ AckMail(n)
             \/ \E r \in net \cup handling : RequestLost(r) \/ Deliver(r)
             \/ \E state : Ends(state)
             \/ RestartA \/ Claim \/ SweepOutbox \/ AnswerLost \/ SweepBox
      PROVE  UNCHANGED <<lasting, clock>>
    BY <1>1 DEF AttemptLapsed, Post, ForeignUse, AckMail, RequestLost, Deliver, DeliverCheck,
                DeliverDenied, DeliverDuplicate, DeliverCollides, DeliverFull, DeliverStores, Answered,
                Ends, RestartA, Claim, SweepOutbox, AnswerLost, SweepBox, away, history
<1>2. ASSUME NEW n \in Msgs, Enqueue(n) PROVE lasting \subseteq lasting' /\ clock' = clock
    BY <1>2 DEF Enqueue
<1>3. Tick => lasting' = lasting /\ clock' = clock + 1
    BY DEF Tick, away, history
<1> QED
    BY <1>1, <1>2, <1>3, QuietKeeps
    DEF Next, Quiet, Outcome, OutcomeUnknown, OutcomeAccepted, OutcomeFull, OutcomeRefused, Types

\* A message is queued for the retention at most, or marked.
LEMMA EnqueueEffect ==
    ASSUME Types, NEW m \in Msgs, Enqueue(m)
    PROVE  /\ ~Exists(m) /\ copies'[m] = 0 /\ clock' = clock
           /\ outbox'[m].created = clock
           /\ m \in lasting' \/ outbox'[m].expires <= clock + Retention
           /\ UNCHANGED <<net, handling, batch>>
<1>1. PICK ttl \in Ttls :
         /\ outbox' = [outbox EXCEPT ![m] =
                [state |-> "queued", created |-> clock, expires |-> clock + ttl]]
         /\ lasting' = IF ttl > Retention THEN lasting \cup {m} ELSE lasting
    BY DEF Enqueue
<1>2. outbox'[m] = [state |-> "queued", created |-> clock, expires |-> clock + ttl]
    BY <1>1 DEF Types
<1>3. m \in lasting' \/ ttl <= Retention
    BY <1>1, FederationAssumption
<1>4. m \in lasting' \/ clock + ttl <= clock + Retention
    BY <1>3, FederationAssumption DEF Types
<1> QED BY <1>2, <1>4 DEF Enqueue, Free, Types

LEMMA StoreStep ==
    ASSUME StoreInv, [Next]_vars
    PROVE  StoreInv'
<1> USE FederationAssumption DEF StoreInv
<1>1. Types'
    BY TypesStep
<1>2. clock \in Nat /\ clock' \in Nat /\ clock' >= clock /\ lasting \subseteq lasting'
    BY <1>1, ClockStep DEF Types
<1>3. \A m \in Msgs : /\ outbox[m].created \in Nat /\ outbox[m].expires \in Nat
                     /\ outbox'[m].created \in Nat /\ outbox'[m].expires \in Nat
    BY <1>1 DEF Types, RowSet
<1>4. \A m \in Msgs : copies[m] \in Nat /\ box[m] \in MailSet /\ box'[m] \in MailSet
    BY <1>1 DEF Types
<1>5. RowsOutliveMail'
    <2> SUFFICES ASSUME NEW m \in Msgs \ lasting', Exists(m)'
                 PROVE  /\ outbox'[m].created <= clock'
                        /\ outbox'[m].expires <= outbox'[m].created + Retention
        BY DEF RowsOutliveMail
    <2>1. CASE Enqueue(m)
        BY <1>2, <1>3, <2>1, EnqueueEffect
    <2>2. CASE /\ outbox'[m].created = outbox[m].created
               /\ outbox'[m].expires = outbox[m].expires /\ Exists(m)
        BY <1>2, <1>3, <2>2 DEF RowsOutliveMail
    <2>3. CASE outbox'[m] = NoRow
        BY <2>3 DEF NoRow, Exists
    <2> QED BY <2>1, <2>2, <2>3, RowTimes
<1>6. RequestsHaveRows'
    <2> SUFFICES ASSUME NEW r \in net' \cup handling' \cup batch', r.msg \notin lasting', r.expires > clock'
                 PROVE  Exists(r.msg)' /\ r.expires = outbox'[r.msg].expires
        BY DEF RequestsHaveRows
    <2>1. r.msg \in Msgs /\ r.expires \in Nat
        BY <1>1 DEF Types, RequestSet, ClaimSet
    <2>2. r.expires > clock
        BY <1>2, <2>1
    <2>3. Exists(r.msg) /\ r.expires = outbox[r.msg].expires
        <3>1. CASE \E q \in net \cup handling \cup batch : q.msg = r.msg /\ q.expires = r.expires
            BY <1>2, <2>2, <3>1 DEF RequestsHaveRows
        <3> QED BY <3>1, RequestsStep
    <2>4. CASE Enqueue(r.msg)
        BY <2>1, <2>3, <2>4, EnqueueEffect
    <2>5. CASE outbox[r.msg].created + Retention <= clock
        BY <1>2, <1>3, <2>1, <2>2, <2>3, <2>5 DEF RowsOutliveMail
    <2> QED BY <2>1, <2>3, <2>4, <2>5, RowTimes
<1>7. ASSUME NEW m \in Msgs \ lasting', copies'[m] > 0, copies'[m] = copies[m], Exists(m)',
             outbox'[m].expires > clock'
      PROVE  /\ Known(m) /\ box[m].expires = outbox'[m].expires
             /\ box[m].state = "acked" => box[m].acked >= outbox'[m].created
             /\ outbox'[m].created <= clock /\ outbox'[m].expires <= outbox'[m].created + Retention
    <2>1. ~Enqueue(m)
        BY <1>7, EnqueueEffect
    <2>2. outbox'[m] # NoRow
        BY <1>7 DEF NoRow, Exists
    <2>3. /\ outbox'[m].created = outbox[m].created
          /\ outbox'[m].expires = outbox[m].expires /\ Exists(m)
        BY <1>7, <2>1, <2>2, RowTimes
    <2>4. outbox[m].expires > clock
        BY <1>2, <1>3, <1>7, <2>3
    <2> QED BY <1>2, <1>7, <2>3, <2>4 DEF CopyIsKnown, RowsOutliveMail
<1>8. CopyIsKnown'
    <2> SUFFICES ASSUME NEW m \in Msgs \ lasting', copies'[m] > 0, Exists(m)',
                        outbox'[m].expires > clock'
                 PROVE  /\ Known(m)' /\ box'[m].expires = outbox'[m].expires
                        /\ box'[m].state = "acked" => box'[m].acked >= outbox'[m].created
        BY DEF CopyIsKnown
    <2>1. CASE copies'[m] = copies[m] /\ (Known(m) => box'[m] = box[m])
        BY <1>7, <2>1 DEF Known
    <2>2. CASE /\ copies'[m] = copies[m] /\ Known(m) /\ Known(m)'
               /\ box'[m].expires = box[m].expires /\ box'[m].acked = clock
        BY <1>7, <2>2
    <2>3. CASE copies'[m] = copies[m] /\ Retired(box[m]) /\ clock' = clock
        <3>1. /\ box[m].expires \in Nat /\ box[m].acked \in Nat
            BY <1>4 DEF MailSet
        <3>2. /\ box[m].expires = outbox'[m].expires /\ box[m].expires > clock
              /\ box[m].state = "acked" => box[m].acked >= outbox'[m].created
              /\ outbox'[m].expires <= outbox'[m].created + Retention
            BY <1>7, <2>3
        <3> QED BY <1>2, <1>3, <2>3, <3>1, <3>2 DEF Retired
    <2>4. ASSUME NEW r \in handling, StoresFor(r, m)
          PROVE  /\ Known(m)' /\ box'[m].expires = outbox'[m].expires
                 /\ box'[m].state = "acked" => box'[m].acked >= outbox'[m].created
        <3>1. CASE r.expires > clock
            BY <2>4, <3>1 DEF RequestsHaveRows, StoresFor
        <3>2. CASE ~(r.expires > clock)
            BY <1>7, <2>4, <3>2 DEF StoresFor
        <3> QED BY <3>1, <3>2
    <2>5. copies'[m] # 0
        BY <1>1 DEF Types
    <2> QED BY <2>1, <2>2, <2>3, <2>4, <2>5, MailStep
<1>9. StoredOnce'
    <2> SUFFICES ASSUME NEW m \in Msgs \ lasting' PROVE copies'[m] <= 1
        BY DEF StoredOnce
    <2>1. copies[m] <= 1
        BY <1>2 DEF StoredOnce
    <2>2. ASSUME NEW r \in handling, StoresFor(r, m) PROVE copies'[m] <= 1
        <3>1. CASE r.expires > clock
            <4>1. Exists(m) /\ outbox[m].expires > clock
                BY <1>2, <2>2, <3>1 DEF RequestsHaveRows, StoresFor
            <4>2. ~(copies[m] > 0)
                BY <1>2, <2>2, <4>1 DEF CopyIsKnown, StoresFor
            <4> QED BY <1>4, <2>2, <4>2 DEF StoresFor
        <3>2. CASE ~(r.expires > clock)
            BY <2>1, <2>2, <3>2 DEF StoresFor
        <3> QED BY <3>1, <3>2
    <2> QED BY <2>1, <2>2, MailStep
<1> QED BY <1>1, <1>5, <1>6, <1>8, <1>9

\* However often a message is sent again, through lost answers, restarts and sweeps of
\* both homes, the other home stores one copy of it that can still be polled, if it is
\* not to live longer than the homes remember what they finished.
THEOREM OneCopy == Spec => []StoredOnce
<1>1. Init => StoreInv
    BY FederationAssumption
    DEF Init, StoreInv, Types, RowsOutliveMail, RequestsHaveRows, CopyIsKnown,
        StoredOnce, Exists, NoRow, NoMail, RowSet, MailSet
<1>2. StoreInv /\ [Next]_vars => StoreInv'
    BY StoreStep
<1>3. StoreInv => StoredOnce
    BY DEF StoreInv
<1> QED BY <1>1, <1>2, <1>3, PTL DEF Spec

=============================================================================
