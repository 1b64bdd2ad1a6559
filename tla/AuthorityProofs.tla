-------------------------- MODULE AuthorityProofs --------------------------
(***************************************************************************)
(* Authority for every set of grants, messages and nonces, every route,    *)
(* cap and clock: a transport runs under a grant that is OK, what left     *)
(* leaves again only by a retry, a held message leaves only on a lineage,  *)
(* and what the relay forgets is in the inbox.                             *)
(***************************************************************************)
EXTENDS Authority, TLAPS

(* No row of a message is of a generation its grant has not reached.       *)
Behind(m) ==
  /\ outbox[m].gen <= GenOf(m) /\ lineage[m].gen <= GenOf(m) /\ resv[m].gen <= GenOf(m)

(* A current held row has a lineage of its generation, unless its grant is *)
(* capped or revoked or its reservation is dead: a display of "held" that  *)
(* a reopening would meet is of an older generation.                       *)
DeadReservation(m) ==
  Exists(resv[m]) /\ (resv[m].gen # GenOf(m) \/ resv[m].state = "released")
HeldAuthorised(m) ==
  outbox[m] = Row("held", GenOf(m)) =>
    \/ lineage[m].gen = GenOf(m)
    \/ StateOf(m) \in {"CAPPED", "REVOKED"}
    \/ DeadReservation(m)

Current(m) == Live(resv[m]) /\ ~Terminal(Route[m]) => resv[m].gen = GenOf(m)
SentTaken(m) == resv[m].state = "sent" => m \in taken

RowInv(m) == Behind(m) /\ HeldAuthorised(m) /\ Current(m) /\ SentTaken(m)

(* The acknowledgement under way is of a message that is saved.            *)
AckingIsSaved == busy \in Ins => busy \in inbox

(* What left keeps a reservation that is neither missing nor fresh.        *)
LeftIsRemembered ==
  \A m \in underway \cup taken : resv[m].state \notin {"none", "reserved"}

IInv ==
  /\ TypeOK /\ FenceHolds /\ AckingIsSaved /\ AckedIsKept /\ LeftIsRemembered
  /\ \A m \in Msgs : RowInv(m)

-----------------------------------------------------------------------------
(* Types. *)

States == {"OK", "SUSPECT", "CAPPED", "REVOKED"}
OutboxStates == ReservationStates \cup {"held"}

LEMMA GrantTyped ==
  ASSUME TypeOK, NEW g \in Grants
  PROVE  /\ grants[g].gen \in 1..MaxGen /\ grants[g].gen \in Nat /\ grants[g].gen # 0
         /\ grants[g].state \in States
         /\ grants[g].seen \in 0..MaxTime /\ grants[g].seen \in Nat
         /\ MayAdvance(g) => grants[g].gen + 1 \in 1..MaxGen
<1>1. grants[g] \in [gen : 1..MaxGen, state : States, seen : 0..MaxTime]
  BY DEF TypeOK, States
<1> QED BY <1>1, AuthorityAssumption DEF MayAdvance

LEMMA MsgTyped ==
  ASSUME TypeOK, NEW m \in Msgs
  PROVE  /\ Route[m] \in Grants /\ GenOf(m) \in 1..MaxGen /\ GenOf(m) \in Nat
         /\ GenOf(m) \in 0..MaxGen /\ GenOf(m) # 0 /\ StateOf(m) \in States
         /\ resv[m] \in Rows(ReservationStates) /\ outbox[m] \in Rows(OutboxStates)
         /\ resv[m].state \in ReservationStates /\ resv[m].gen \in Nat
         /\ outbox[m].state \in OutboxStates /\ outbox[m].gen \in Nat
         /\ resv[m] = Row(resv[m].state, resv[m].gen)
         /\ outbox[m] = Row(outbox[m].state, outbox[m].gen)
         /\ held[m] \in 0..MaxGen
         /\ lineage[m] \in [gen : 0..MaxGen, bound : BOOLEAN]
         /\ lineage[m].gen \in Nat /\ lineage[m].bound \in BOOLEAN
<1>1. Route[m] \in Grants
  BY AuthorityAssumption DEF ConfigAccepted
<1>2. GenOf(m) \in 1..MaxGen /\ StateOf(m) \in States
  BY <1>1, GrantTyped DEF GenOf, StateOf
<1>3. resv[m] \in Rows(ReservationStates) /\ outbox[m] \in Rows(OutboxStates)
        /\ held[m] \in 0..MaxGen /\ lineage[m] \in [gen : 0..MaxGen, bound : BOOLEAN]
  BY DEF TypeOK, OutboxStates
<1> QED BY <1>1, <1>2, <1>3, AuthorityAssumption DEF Rows, Row

(* What an advance of g carries is at g's next generation, in the state it *)
(* had; the rest is left as it is.                                         *)
LEMMA NextRows ==
  ASSUME TypeOK, NEW g \in Grants, NEW m \in Msgs
  PROVE  /\ NextResv(g)[m] =
              IF CarriesReservation(g, m) THEN Row(resv[m].state, grants[g].gen + 1) ELSE resv[m]
         /\ NextOutbox(g)[m] =
              IF CarriesOutbox(g, m) THEN Row(outbox[m].state, grants[g].gen + 1) ELSE outbox[m]
         /\ NextHeld(g)[m] = IF CarriesHold(g, m) THEN grants[g].gen + 1 ELSE held[m]
         /\ NextLineage(g)[m] =
              IF CarriesHold(g, m) THEN [gen |-> grants[g].gen + 1, bound |-> lineage[m].bound]
              ELSE lineage[m]
         /\ CarriesOutbox(g, m) => outbox[m].gen = grants[g].gen
         /\ CarriesReservation(g, m) \/ CarriesHold(g, m) \/ CarriesOutbox(g, m) => Route[m] = g
<1>1. /\ resv[m] = Row(resv[m].state, resv[m].gen)
      /\ outbox[m] = Row(outbox[m].state, outbox[m].gen)
      /\ lineage[m] \in [gen : 0..MaxGen, bound : BOOLEAN]
  BY MsgTyped
<1>2. CarriesReservation(g, m) => resv[m].gen = grants[g].gen /\ Route[m] = g
  BY DEF CarriesReservation, Of
<1>3. CarriesHold(g, m) => /\ outbox[m] = Row("held", grants[g].gen) /\ held[m] = grants[g].gen
                           /\ lineage[m].gen = grants[g].gen /\ Route[m] = g
  BY DEF CarriesHold, Of
<1>4. CarriesOutbox(g, m) => outbox[m].gen = grants[g].gen /\ Route[m] = g
  BY <1>2, <1>3 DEF CarriesOutbox, Row
<1>5. NextResv(g)[m] =
        IF CarriesReservation(g, m) THEN Row(resv[m].state, grants[g].gen + 1) ELSE resv[m]
  BY <1>1, <1>2 DEF NextResv, Row
<1>6. NextOutbox(g)[m] =
        IF CarriesOutbox(g, m) THEN Row(outbox[m].state, grants[g].gen + 1) ELSE outbox[m]
  BY <1>1, <1>4 DEF NextOutbox, Row
<1>7. NextHeld(g)[m] = IF CarriesHold(g, m) THEN grants[g].gen + 1 ELSE held[m]
  BY <1>3 DEF NextHeld
<1>8. NextLineage(g)[m] =
        IF CarriesHold(g, m) THEN [gen |-> grants[g].gen + 1, bound |-> lineage[m].bound]
        ELSE lineage[m]
  BY <1>1, <1>3 DEF NextLineage
<1> QED BY <1>2, <1>3, <1>4, <1>5, <1>6, <1>7, <1>8

LEMMA AdvanceTyped ==
  ASSUME TypeOK, NEW g \in Grants, MayAdvance(g)
  PROVE  /\ NextResv(g) \in [Msgs -> Rows(ReservationStates)]
         /\ NextOutbox(g) \in [Msgs -> Rows(OutboxStates)]
         /\ NextHeld(g) \in [Msgs -> 0..MaxGen]
         /\ NextLineage(g) \in [Msgs -> [gen : 0..MaxGen, bound : BOOLEAN]]
<1>1. grants[g].gen + 1 \in 0..MaxGen
  BY GrantTyped, AuthorityAssumption
<1>2. ASSUME NEW m \in Msgs
      PROVE  /\ NextResv(g)[m] \in Rows(ReservationStates)
             /\ NextOutbox(g)[m] \in Rows(OutboxStates)
             /\ NextHeld(g)[m] \in 0..MaxGen
             /\ NextLineage(g)[m] \in [gen : 0..MaxGen, bound : BOOLEAN]
  <2>1. /\ resv[m].state \in ReservationStates /\ outbox[m].state \in OutboxStates
        /\ lineage[m].bound \in BOOLEAN
        /\ resv[m] \in Rows(ReservationStates) /\ outbox[m] \in Rows(OutboxStates)
        /\ held[m] \in 0..MaxGen /\ lineage[m] \in [gen : 0..MaxGen, bound : BOOLEAN]
    BY MsgTyped
  <2>2. /\ Row(resv[m].state, grants[g].gen + 1) \in Rows(ReservationStates)
        /\ Row(outbox[m].state, grants[g].gen + 1) \in Rows(OutboxStates)
        /\ [gen |-> grants[g].gen + 1, bound |-> lineage[m].bound]
             \in [gen : 0..MaxGen, bound : BOOLEAN]
    BY <1>1, <2>1 DEF Row, Rows
  <2> QED BY <1>1, <2>1, <2>2, NextRows
<1>3. /\ DOMAIN NextResv(g) = Msgs /\ NextResv(g) = [m \in Msgs |-> NextResv(g)[m]]
      /\ NextOutbox(g) = [m \in Msgs |-> NextOutbox(g)[m]]
      /\ NextHeld(g) = [m \in Msgs |-> NextHeld(g)[m]]
      /\ NextLineage(g) = [m \in Msgs |-> NextLineage(g)[m]]
  BY DEF NextResv, NextOutbox, NextHeld, NextLineage
<1> QED BY <1>2, <1>3

LEMMA TypeInit == Init => TypeOK
<1> SUFFICES ASSUME Init PROVE TypeOK
  OBVIOUS
<1>1. 0 \in 0..MaxGen /\ 1 \in 1..MaxGen /\ 0 \in 0..MaxTime
  BY AuthorityAssumption
<1>2. grants \in [Grants -> [gen : 1..MaxGen, state : States, seen : 0..MaxTime]]
  BY <1>1 DEF Init, States
<1>3. /\ resv \in [Msgs -> Rows(ReservationStates)]
      /\ outbox \in [Msgs -> Rows(OutboxStates)]
      /\ held \in [Msgs -> 0..MaxGen]
      /\ lineage \in [Msgs -> [gen : 0..MaxGen, bound : BOOLEAN]]
  BY <1>1 DEF Init, Rows, NoRow, Row, NoHold, ReservationStates, OutboxStates
<1> QED BY <1>1, <1>2, <1>3 DEF Init, TypeOK, OutboxStates, States

(* Steps that move grants.                                                 *)
LEMMA TypeGrantSteps ==
  ASSUME TypeOK,
         \/ \E g \in Grants : SetSuspect(g) \/ ApplyPartitionCap(g) \/ SignEvidence(g)
         \/ \E n \in Nonces, batch \in SUBSET Grants : CommitRevokeBatch(n, batch)
         \/ \E e \in evidence : VerifiedRecheck(e)
  PROVE  TypeOK'
<1> USE DEF OutboxStates, States
<1>1. ASSUME NEW g \in Grants, SetSuspect(g) PROVE TypeOK'
  <2>1. grants' \in [Grants -> [gen : 1..MaxGen, state : States, seen : 0..MaxTime]]
    BY <1>1, GrantTyped DEF SetSuspect, TypeOK
  <2> QED BY <1>1, <2>1, AdvanceTyped DEF SetSuspect, Advance, TypeOK
<1>2. ASSUME NEW g \in Grants, ApplyPartitionCap(g) PROVE TypeOK'
  <2>1. grants' \in [Grants -> [gen : 1..MaxGen, state : States, seen : 0..MaxTime]]
    BY <1>2, GrantTyped DEF ApplyPartitionCap, TypeOK
  <2>2. grants[g].gen + 1 \in 0..MaxGen /\ 0 \in 0..MaxGen
    BY <1>2, GrantTyped, AuthorityAssumption DEF ApplyPartitionCap
  <2>3. Row("released", grants[g].gen + 1) \in Rows(ReservationStates)
        /\ Row("released", grants[g].gen + 1) \in Rows(OutboxStates)
    BY <2>2 DEF Row, Rows, ReservationStates
  <2>4. NextResv(g) \in [Msgs -> Rows(ReservationStates)] /\ NextOutbox(g) \in [Msgs -> Rows(OutboxStates)]
        /\ NextLineage(g) \in [Msgs -> [gen : 0..MaxGen, bound : BOOLEAN]]
    BY <1>2, AdvanceTyped DEF ApplyPartitionCap
  <2>5. /\ resv' \in [Msgs -> Rows(ReservationStates)]
        /\ outbox' \in [Msgs -> Rows(OutboxStates)]
        /\ held' \in [Msgs -> 0..MaxGen]
        /\ lineage' \in [Msgs -> [gen : 0..MaxGen, bound : BOOLEAN]]
    BY <1>2, <2>2, <2>3, <2>4 DEF ApplyPartitionCap, TypeOK
  <2>6. ndrs' \subseteq Msgs /\ queued' \subseteq Msgs
    BY <1>2 DEF ApplyPartitionCap, WithRecords, Waiting, Of, TypeOK
  <2> QED BY <1>2, <2>1, <2>5, <2>6 DEF ApplyPartitionCap, TypeOK
<1>3. ASSUME NEW g \in Grants, SignEvidence(g) PROVE TypeOK'
  <2>1. Statement(g) \in [grant : Grants, gen : 1..MaxGen, prior : {"SUSPECT", "CAPPED"},
                          at : 0..MaxTime]
    BY <1>3, GrantTyped DEF SignEvidence, Statement, TypeOK
  <2> QED BY <1>3, <2>1 DEF SignEvidence, TypeOK
<1>4. ASSUME NEW n \in Nonces, NEW batch \in SUBSET Grants, CommitRevokeBatch(n, batch)
      PROVE  TypeOK'
  <2> DEFINE waiting == UNION {Waiting(g) : g \in batch}
             touched == UNION {Of(g) : g \in batch}
  <2>1. \A g \in batch : MayAdvance(g) /\ g \in Grants
    BY <1>4 DEF CommitRevokeBatch
  <2>2. grants' = [g \in Grants |-> IF g \in batch
                                   THEN [grants[g] EXCEPT !.state = "REVOKED", !.gen = @ + 1]
                                   ELSE grants[g]]
    BY <1>4, Zenon DEF CommitRevokeBatch
  <2>3. /\ ndrs' = ndrs \cup waiting /\ queued' = queued \ touched
        /\ nonces' = nonces \cup {n}
        /\ held' = [m \in Msgs |-> IF m \in touched THEN 0 ELSE held[m]]
    BY <1>4, Zenon DEF CommitRevokeBatch, WithRecords
  <2>4. waiting \subseteq Msgs
    BY DEF Waiting, Of
  <2> HIDE DEF waiting, touched
  <2>5. ASSUME NEW g \in Grants
        PROVE  grants'[g] \in [gen : 1..MaxGen, state : States, seen : 0..MaxTime]
    <3>1. grants[g] \in [gen : 1..MaxGen, state : States, seen : 0..MaxTime]
      BY DEF TypeOK
    <3>2. g \in batch => grants[g].gen + 1 \in 1..MaxGen
      BY <2>1, GrantTyped
    <3> QED BY <2>2, <3>1, <3>2
  <2>6. grants' \in [Grants -> [gen : 1..MaxGen, state : States, seen : 0..MaxTime]]
    BY <2>2, <2>5
  <2>7. held' \in [Msgs -> 0..MaxGen]
    BY <2>3, AuthorityAssumption DEF TypeOK
  <2>8. ndrs' \subseteq Msgs /\ queued' \subseteq Msgs /\ nonces' \subseteq Nonces
    BY <2>3, <2>4 DEF TypeOK
  <2>9. UNCHANGED <<payloads, resv, outbox, lineage, evidence, inbox, busy, underway,
                    taken, acked, clock>>
    BY <1>4, Zenon DEF CommitRevokeBatch
  <2> QED BY <2>6, <2>7, <2>8, <2>9 DEF TypeOK
<1>5. ASSUME NEW e \in evidence, VerifiedRecheck(e) PROVE TypeOK'
  <2>1. e.grant \in Grants /\ e.gen \in 1..MaxGen /\ e.at \in 0..MaxTime
    BY DEF TypeOK
  <2>2. MayAdvance(e.grant) /\ grants[e.grant].gen = e.gen
    BY <1>5 DEF VerifiedRecheck
  <2>3. e.gen + 1 \in 1..MaxGen
    BY <2>1, <2>2, GrantTyped
  <2>4. grants' \in [Grants -> [gen : 1..MaxGen, state : States, seen : 0..MaxTime]]
    BY <1>5, <2>1, <2>3 DEF VerifiedRecheck, TypeOK
  <2> QED BY <1>5, <2>1, <2>2, <2>4, AdvanceTyped DEF VerifiedRecheck, Advance, TypeOK
<1> QED BY <1>1, <1>2, <1>3, <1>4, <1>5

LEMMA TypeMsgSteps ==
  ASSUME TypeOK, NEW m \in Msgs,
         \/ QueueMessage(m) \/ MarkHeld(m) \/ ResolveQueued(m) \/ ReserveDispatch(m)
         \/ ReleaseReservation(m) \/ JournalPayload(m)
         \/ Reconcile(m) \/ Action(m) \/ Outcome(m)
         \/ RelayTakes(m) \/ RequestLost(m)
  PROVE  TypeOK'
<1> USE DEF OutboxStates
<1>1. /\ resv \in [Msgs -> Rows(ReservationStates)]
      /\ outbox \in [Msgs -> Rows(OutboxStates)]
      /\ held \in [Msgs -> 0..MaxGen]
      /\ lineage \in [Msgs -> [gen : 0..MaxGen, bound : BOOLEAN]]
  BY DEF TypeOK
<1>2. GenOf(m) \in 0..MaxGen /\ 0 \in 0..MaxGen
  BY MsgTyped, AuthorityAssumption
<1>3. CASE QueueMessage(m) \/ ResolveQueued(m) \/ JournalPayload(m) \/ RelayTakes(m) \/ RequestLost(m)
  BY <1>3 DEF QueueMessage, ResolveQueued, JournalPayload, RelayTakes, RequestLost, tables, TypeOK
<1>4. CASE MarkHeld(m)
  BY <1>2, <1>4 DEF MarkHeld, TypeOK
<1>5. CASE ReserveDispatch(m)
  <2>1. Row("reserved", GenOf(m)) \in Rows(ReservationStates)
    BY <1>2 DEF Row, Rows, ReservationStates, LiveStates
  <2>3. resv' \in [Msgs -> Rows(ReservationStates)]
    BY <1>1, <1>5, <2>1 DEF ReserveDispatch
  <2>4. lineage' \in [Msgs -> [gen : 0..MaxGen, bound : BOOLEAN]]
    BY <1>1, <1>5 DEF ReserveDispatch, Adoptable
  <2> QED BY <1>5, <2>3, <2>4 DEF ReserveDispatch, TypeOK
<1>6. CASE ReleaseReservation(m)
  <2>1. resv' \in [Msgs -> Rows(ReservationStates)]
    BY <1>1, <1>6 DEF ReleaseReservation, Rows, ReservationStates
  <2> QED BY <1>6, <2>1 DEF ReleaseReservation, TypeOK
<1>7. CASE Reconcile(m)
  <2>1. PICK from \in {"inflight", "failed-unknown"}, to \in {"failed-unknown", "retry"} :
          MoveBoth(m, from, to)
    BY <1>7 DEF Reconcile, ReconcileInflight, ScheduleRetry
  <2>2. resv' \in [Msgs -> Rows(ReservationStates)]
    BY <1>1, <2>1 DEF MoveBoth, Rows, ReservationStates, LiveStates
  <2>3. outbox' = [outbox EXCEPT ![m] = [outbox[m] EXCEPT !.state =
                                           IF outbox[m].state = from THEN to ELSE outbox[m].state]]
    BY <1>1, <2>1 DEF MoveBoth
  <2>4. [outbox[m] EXCEPT !.state = IF outbox[m].state = from THEN to ELSE outbox[m].state]
          \in Rows(OutboxStates)
    BY <1>1, <2>1 DEF Rows, ReservationStates, LiveStates
  <2>5. outbox' \in [Msgs -> Rows(OutboxStates)]
    BY <1>1, <2>3, <2>4
  <2> QED BY <2>1, <2>2, <2>5 DEF MoveBoth, TypeOK
<1>8. CASE HoldAtFence(m) \/ HoldAtReservation(m)
  <2>1. PICK hold \in [gen : 0..MaxGen, bound : BOOLEAN] : Hold(m, hold) /\ UNCHANGED resv
    <3>1. NoHold \in [gen : 0..MaxGen, bound : BOOLEAN]
      BY <1>2 DEF NoHold
    <3>2. [gen |-> GenOf(m), bound |-> Exists(resv[m])] \in [gen : 0..MaxGen, bound : BOOLEAN]
      BY <1>2 DEF Exists
    <3> QED BY <1>8, <3>1, <3>2 DEF HoldAtFence, HoldAtReservation
  <2>2. Row("held", GenOf(m)) \in Rows(OutboxStates)
    BY <1>2 DEF Row, Rows
  <2>3. /\ outbox' \in [Msgs -> Rows(OutboxStates)] /\ held' \in [Msgs -> 0..MaxGen]
        /\ lineage' \in [Msgs -> [gen : 0..MaxGen, bound : BOOLEAN]]
    BY <1>1, <1>2, <2>1, <2>2 DEF Hold
  <2> QED BY <2>1, <2>3 DEF Hold, TypeOK
<1>9. CASE HandOff(m)
  <2>1. Row("inflight", GenOf(m)) \in Rows(ReservationStates) /\ NoHold \in [gen : 0..MaxGen, bound : BOOLEAN]
        /\ Row("inflight", GenOf(m)) \in Rows(OutboxStates)
    BY <1>2 DEF Row, Rows, ReservationStates, LiveStates, NoHold
  <2>2. /\ resv' \in [Msgs -> Rows(ReservationStates)]
        /\ outbox' \in [Msgs -> Rows(OutboxStates)]
        /\ lineage' \in [Msgs -> [gen : 0..MaxGen, bound : BOOLEAN]]
    BY <1>1, <1>9, <2>1 DEF HandOff
  <2> QED BY <1>9, <2>2 DEF HandOff, TypeOK
<1>10. CASE Outcome(m)
  <2>1. PICK to \in {"sent", "failed-unknown", "released"} : Settle(m, to)
    BY <1>10 DEF Outcome, TransportAccepted, TransportUnknown, TransportRejected
  <2>2. /\ resv' \in [Msgs -> Rows(ReservationStates)]
        /\ outbox' \in [Msgs -> Rows(OutboxStates)]
    BY <1>1, <2>1 DEF Settle, Rows, ReservationStates, LiveStates
  <2>3. held' \in [Msgs -> 0..MaxGen]
    BY <1>1, <1>2, <1>10 DEF Outcome, TransportAccepted, TransportUnknown, TransportRejected
  <2> QED BY <2>1, <2>2, <2>3 DEF Settle, TypeOK
<1> QED BY <1>3, <1>4, <1>5, <1>6, <1>7, <1>8, <1>9, <1>10 DEF Action

LEMMA TypeStep == TypeOK /\ [Next]_vars => TypeOK'
<1> SUFFICES ASSUME TypeOK, [Next]_vars PROVE TypeOK'
  OBVIOUS
<1>1. CASE \E x \in Ins : Receive(x) \/ AckArrives(x)
  BY <1>1 DEF Receive, AckArrives, tables, TypeOK
<1>2. CASE Dies
  BY <1>2 DEF Dies, tables, TypeOK
<1>3. CASE Tick
  <2>1. clock + 1 \in 0..MaxTime
    BY <1>3, AuthorityAssumption DEF Tick, TypeOK
  <2> QED BY <1>3, <2>1 DEF Tick, tables, TypeOK
<1>4. CASE UNCHANGED vars
  BY <1>4 DEF vars, tables, TypeOK
<1> QED BY <1>1, <1>2, <1>3, <1>4, TypeGrantSteps, TypeMsgSteps DEF Next

-----------------------------------------------------------------------------
(* The rows of one message, step by step. *)

LEMMA SameRows ==
  ASSUME NEW m \in Msgs, RowInv(m), UNCHANGED grants, resv'[m] = resv[m],
         outbox'[m] = outbox[m], lineage'[m] = lineage[m], taken \subseteq taken'
  PROVE  RowInv(m)'
BY DEF RowInv, Behind, HeldAuthorised, DeadReservation, Current, SentTaken, GenOf, StateOf, Terminal

(* A live grant moves on by one generation.                                *)
LEMMA AdvanceRows ==
  ASSUME TypeOK, NEW g \in Grants, ~Terminal(g), NEW m \in Msgs, RowInv(m),
         grants'[g].gen = grants[g].gen + 1,
         \A h \in Grants : h # g => grants'[h] = grants[h],
         resv'[m] = NextResv(g)[m], outbox'[m] = NextOutbox(g)[m],
         lineage'[m] = NextLineage(g)[m], UNCHANGED taken
  PROVE  RowInv(m)'
<1>1. /\ Route[m] \in Grants /\ GenOf(m) \in Nat /\ resv[m].gen \in Nat /\ outbox[m].gen \in Nat
      /\ lineage[m].gen \in Nat /\ resv[m].state \in ReservationStates
      /\ outbox[m] = Row(outbox[m].state, outbox[m].gen)
      /\ resv[m] = Row(resv[m].state, resv[m].gen)
      /\ grants[g].gen \in Nat
  BY MsgTyped, GrantTyped
<1>4. /\ resv'[m] = IF CarriesReservation(g, m) THEN Row(resv[m].state, grants[g].gen + 1) ELSE resv[m]
      /\ outbox'[m] = IF CarriesOutbox(g, m) THEN Row(outbox[m].state, grants[g].gen + 1) ELSE outbox[m]
      /\ lineage'[m] = IF CarriesHold(g, m)
                       THEN [gen |-> grants[g].gen + 1, bound |-> lineage[m].bound] ELSE lineage[m]
      /\ CarriesReservation(g, m) \/ CarriesHold(g, m) \/ CarriesOutbox(g, m) => Route[m] = g
  BY NextRows
<1>2. CASE Route[m] # g
  <2>1. resv'[m] = resv[m] /\ outbox'[m] = outbox[m] /\ lineage'[m] = lineage[m]
    BY <1>2, <1>4
  <2>2. GenOf(m)' = GenOf(m) /\ StateOf(m)' = StateOf(m) /\ Terminal(Route[m])' = Terminal(Route[m])
    BY <1>1, <1>2 DEF GenOf, StateOf, Terminal
  <2> QED BY <2>1, <2>2
          DEF RowInv, Behind, HeldAuthorised, DeadReservation, Current, SentTaken
<1>3. CASE Route[m] = g
  <2>1. GenOf(m) = grants[g].gen /\ GenOf(m)' = grants[g].gen + 1
    BY <1>3 DEF GenOf
  <2>2. Behind(m)'
    BY <1>1, <2>1, <1>4 DEF RowInv, Behind, Row
  <2>3. HeldAuthorised(m)'
    <3> SUFFICES ASSUME outbox'[m] = Row("held", GenOf(m)') PROVE lineage'[m].gen = GenOf(m)'
      BY DEF HeldAuthorised
    <3>1. CarriesOutbox(g, m) /\ outbox[m].state = "held"
      BY <1>1, <2>1, <1>4 DEF RowInv, Behind, Row
    <3>2. CarriesHold(g, m)
      BY <1>1, <3>1 DEF CarriesOutbox, ReservationStates, LiveStates
    <3> QED BY <2>1, <3>2, <1>4
  <2>4. Current(m)'
    <3> SUFFICES ASSUME Live(resv[m])' PROVE resv'[m].gen = GenOf(m)'
      BY DEF Current
    <3>1. Live(resv[m])
      BY <1>4 DEF Live, Row
    <3>2. CarriesReservation(g, m)
      BY <1>3, <2>1, <3>1 DEF RowInv, Current, CarriesReservation, Of
    <3> QED BY <2>1, <3>2, <1>4 DEF Row
  <2>5. SentTaken(m)'
    BY <1>4 DEF RowInv, SentTaken, Row
  <2> QED BY <2>2, <2>3, <2>4, <2>5 DEF RowInv
<1> QED BY <1>2, <1>3

(* The cap releases what it writes a record for; the grant is capped.      *)
LEMMA CapRows ==
  ASSUME TypeOK, NEW g \in Grants, ApplyPartitionCap(g), NEW m \in Msgs, RowInv(m)
  PROVE  RowInv(m)'
<1> DEFINE capGen == grants[g].gen + 1
<1>1. /\ Route[m] \in Grants /\ GenOf(m) \in Nat /\ resv[m].gen \in Nat /\ outbox[m].gen \in Nat
      /\ lineage[m].gen \in Nat
      /\ outbox[m] = Row(outbox[m].state, outbox[m].gen)
      /\ resv[m] = Row(resv[m].state, resv[m].gen)
      /\ grants[g].gen \in Nat /\ grants[g].state \in {"OK", "SUSPECT"}
  BY MsgTyped, GrantTyped DEF ApplyPartitionCap, CapDue
<1>2. grants' = [grants EXCEPT ![g].state = "CAPPED", ![g].gen = capGen] /\ UNCHANGED taken
  BY DEF ApplyPartitionCap
<1>3. /\ grants'[g].state = "CAPPED" /\ grants'[g].gen = capGen
      /\ \A h \in Grants : h # g => grants'[h] = grants[h]
  BY <1>2 DEF TypeOK
<1>4. /\ (resv'[m] = Row("released", capGen) /\ CarriesReservation(g, m)) \/ resv'[m] = NextResv(g)[m]
      /\ (outbox'[m] = Row("released", capGen) /\ CarriesReservation(g, m))
           \/ outbox'[m] = NextOutbox(g)[m]
      /\ lineage'[m] = NextLineage(g)[m]
  BY DEF ApplyPartitionCap
<1>5. /\ NextResv(g)[m] = IF CarriesReservation(g, m) THEN Row(resv[m].state, capGen) ELSE resv[m]
      /\ NextOutbox(g)[m] = IF CarriesOutbox(g, m) THEN Row(outbox[m].state, capGen) ELSE outbox[m]
      /\ NextLineage(g)[m] = IF CarriesHold(g, m) THEN [gen |-> capGen, bound |-> lineage[m].bound]
                             ELSE lineage[m]
      /\ CarriesReservation(g, m) \/ CarriesHold(g, m) \/ CarriesOutbox(g, m) => Route[m] = g
  BY NextRows
<1> HIDE DEF capGen
<1>6. CASE Route[m] # g
  <2>1. resv'[m] = resv[m] /\ outbox'[m] = outbox[m] /\ lineage'[m] = lineage[m]
    BY <1>4, <1>5, <1>6
  <2>2. GenOf(m)' = GenOf(m) /\ StateOf(m)' = StateOf(m) /\ Terminal(Route[m])' = Terminal(Route[m])
    BY <1>1, <1>3, <1>6 DEF GenOf, StateOf, Terminal
  <2> QED BY <1>2, <2>1, <2>2
          DEF RowInv, Behind, HeldAuthorised, DeadReservation, Current, SentTaken
<1>7. CASE Route[m] = g
  <2>1. GenOf(m) = grants[g].gen /\ GenOf(m)' = capGen /\ StateOf(m)' = "CAPPED"
          /\ capGen = GenOf(m) + 1
    BY <1>3, <1>7 DEF GenOf, StateOf, capGen
  <2>2. Behind(m)'
    BY <1>1, <1>4, <1>5, <2>1 DEF RowInv, Behind, Row
  <2>3. HeldAuthorised(m)'
    BY <2>1 DEF HeldAuthorised
  <2>4. Current(m)'
    <3> SUFFICES ASSUME Live(resv[m])' PROVE resv'[m].gen = GenOf(m)'
      BY DEF Current
    <3>1. Live(resv[m]) /\ resv'[m] = NextResv(g)[m]
      BY <1>4, <1>5 DEF Live, Row, LiveStates
    <3>2. ~Terminal(Route[m])
      BY <1>1, <1>7 DEF Terminal
    <3>3. CarriesReservation(g, m)
      BY <1>7, <2>1, <3>1, <3>2 DEF RowInv, Current, CarriesReservation, Of
    <3> QED BY <1>5, <2>1, <3>1, <3>3 DEF Row
  <2>5. SentTaken(m)'
    BY <1>2, <1>4, <1>5 DEF RowInv, SentTaken, Row
  <2> QED BY <2>2, <2>3, <2>4, <2>5 DEF RowInv
<1> QED BY <1>6, <1>7

(* A revocation strands the rows of its grants a generation behind.        *)
LEMMA RevokeRows ==
  ASSUME TypeOK, NEW n \in Nonces, NEW batch \in SUBSET Grants, CommitRevokeBatch(n, batch),
         NEW m \in Msgs, RowInv(m)
  PROVE  RowInv(m)'
<1>1. /\ Route[m] \in Grants /\ GenOf(m) \in Nat /\ resv[m].gen \in Nat /\ outbox[m].gen \in Nat
      /\ lineage[m].gen \in Nat
  BY MsgTyped
<1>2. grants' = [g \in Grants |-> IF g \in batch
                                 THEN [grants[g] EXCEPT !.state = "REVOKED", !.gen = @ + 1]
                                 ELSE grants[g]]
  BY Zenon DEF CommitRevokeBatch
<1>3. UNCHANGED <<resv, outbox, lineage, taken>>
  BY Zenon DEF CommitRevokeBatch
<1>4. CASE Route[m] \in batch
  <2>1. GenOf(m)' = GenOf(m) + 1 /\ Terminal(Route[m])'
    BY <1>1, <1>2, <1>4 DEF GenOf, Terminal, TypeOK
  <2>2. Behind(m)'
    BY <1>1, <1>3, <2>1 DEF RowInv, Behind
  <2>3. HeldAuthorised(m)'
    BY <1>1, <1>3, <2>1 DEF RowInv, Behind, HeldAuthorised, Row
  <2> QED BY <1>3, <2>1, <2>2, <2>3 DEF RowInv, Current, SentTaken
<1>5. CASE Route[m] \notin batch
  <2>1. GenOf(m)' = GenOf(m) /\ StateOf(m)' = StateOf(m) /\ Terminal(Route[m])' = Terminal(Route[m])
    BY <1>1, <1>2, <1>5 DEF GenOf, StateOf, Terminal
  <2> QED BY <1>3, <2>1
          DEF RowInv, Behind, HeldAuthorised, DeadReservation, Current, SentTaken
<1> QED BY <1>4, <1>5

(* The steps of message k, seen from message m.                            *)
LEMMA MsgRows ==
  ASSUME TypeOK, NEW k \in Msgs, NEW m \in Msgs, RowInv(m), FenceHolds,
         \/ QueueMessage(k) \/ MarkHeld(k) \/ ResolveQueued(k) \/ ReserveDispatch(k)
         \/ ReleaseReservation(k) \/ JournalPayload(k)
         \/ Reconcile(k) \/ Action(k) \/ Outcome(k)
         \/ RelayTakes(k) \/ RequestLost(k)
  PROVE  RowInv(m)'
<1>0. /\ GenOf(m) \in Nat /\ resv[m] \in Rows(ReservationStates) /\ outbox[m] \in Rows(OutboxStates)
      /\ lineage[m] \in [gen : 0..MaxGen, bound : BOOLEAN] /\ GenOf(m) # 0
      /\ resv[m].gen \in Nat /\ outbox[m].gen \in Nat /\ lineage[m].gen \in Nat
      /\ StateOf(m) \in States
  BY MsgTyped
<1>1. CASE QueueMessage(k) \/ MarkHeld(k) \/ ResolveQueued(k) \/ JournalPayload(k)
           \/ RelayTakes(k) \/ RequestLost(k)
  BY <1>1, SameRows
  DEF QueueMessage, MarkHeld, ResolveQueued, JournalPayload, RelayTakes, RequestLost, tables
<1>2. CASE m # k /\ (\/ ReserveDispatch(k) \/ ReleaseReservation(k)
                     \/ Reconcile(k) \/ Action(k) \/ Outcome(k))
  <2>1. UNCHANGED <<grants, taken>>
    BY <1>2 DEF ReserveDispatch, ReleaseReservation, Reconcile, ReconcileInflight, ScheduleRetry,
                MoveBoth, Action, HoldAtFence, HoldAtReservation, Hold, HandOff, Outcome,
                TransportAccepted, TransportUnknown, TransportRejected, Settle
  <2>2. resv'[m] = resv[m]
    BY <1>2 DEF ReserveDispatch, ReleaseReservation, Reconcile, ReconcileInflight, ScheduleRetry,
                MoveBoth, Action, HoldAtFence, HoldAtReservation, Hold, HandOff, Outcome,
                TransportAccepted, TransportUnknown, TransportRejected, Settle, TypeOK
  <2>3. outbox'[m] = outbox[m]
    BY <1>2 DEF ReserveDispatch, ReleaseReservation, Reconcile, ReconcileInflight, ScheduleRetry,
                MoveBoth, Action, HoldAtFence, HoldAtReservation, Hold, HandOff, Outcome,
                TransportAccepted, TransportUnknown, TransportRejected, Settle, TypeOK
  <2>4. lineage'[m] = lineage[m]
    BY <1>2 DEF ReserveDispatch, ReleaseReservation, Reconcile, ReconcileInflight, ScheduleRetry,
                MoveBoth, Action, HoldAtFence, HoldAtReservation, Hold, HandOff, Outcome,
                TransportAccepted, TransportUnknown, TransportRejected, Settle, TypeOK
  <2> QED BY <2>1, <2>2, <2>3, <2>4, SameRows
<1>3. CASE m = k /\ ReserveDispatch(k)
  <2>1. /\ resv'[m] = Row("reserved", GenOf(m)) /\ outbox' = outbox
        /\ lineage'[m].gen = lineage[m].gen /\ UNCHANGED <<grants, taken>>
        /\ ~Exists(resv[m]) /\ StateOf(m) = "OK"
    BY <1>3, <1>0 DEF ReserveDispatch, TypeOK
  <2>2. GenOf(m)' = GenOf(m) /\ StateOf(m)' = StateOf(m)
    BY <2>1 DEF GenOf, StateOf
  <2> QED BY <1>0, <2>1, <2>2
          DEF RowInv, Behind, HeldAuthorised, DeadReservation, Current, SentTaken, Row
<1>4. CASE m = k /\ ReleaseReservation(k)
  <2>1. /\ resv'[m] = [resv[m] EXCEPT !.state = "released"] /\ UNCHANGED <<grants, taken, outbox, lineage>>
    BY <1>4 DEF ReleaseReservation, TypeOK
  <2>2. resv'[m].state = "released" /\ resv'[m].gen = resv[m].gen
    BY <1>0, <2>1 DEF Rows
  <2>3. GenOf(m)' = GenOf(m) /\ StateOf(m)' = StateOf(m)
    BY <2>1 DEF GenOf, StateOf
  <2> QED BY <1>0, <2>1, <2>2, <2>3
          DEF RowInv, Behind, HeldAuthorised, DeadReservation, Current, SentTaken, Exists, Live,
              LiveStates
<1>5. CASE m = k /\ Reconcile(k)
  <2>1. PICK from \in {"inflight", "failed-unknown"}, to \in {"failed-unknown", "retry"} :
          MoveBoth(m, from, to)
    BY <1>5 DEF Reconcile, ReconcileInflight, ScheduleRetry
  <2>2. /\ resv'[m] = [resv[m] EXCEPT !.state = to] /\ resv[m].state = from
        /\ UNCHANGED <<grants, taken, lineage>>
    BY <2>1 DEF MoveBoth, TypeOK
  <2>3. outbox'[m] = [outbox[m] EXCEPT !.state =
                        IF outbox[m].state = from THEN to ELSE outbox[m].state]
    BY <2>1 DEF MoveBoth, TypeOK
  <2>4. /\ resv'[m].state = to /\ resv'[m].gen = resv[m].gen
        /\ outbox'[m].gen = outbox[m].gen
        /\ outbox'[m].state = "held" => outbox'[m] = outbox[m]
    BY <1>0, <2>2, <2>3 DEF Rows
  <2>5. GenOf(m)' = GenOf(m) /\ StateOf(m)' = StateOf(m) /\ Terminal(Route[m])' = Terminal(Route[m])
    BY <2>2 DEF GenOf, StateOf, Terminal
  <2>6. Current(m)'
    BY <2>2, <2>4, <2>5 DEF RowInv, Current, Live, LiveStates
  <2>7. HeldAuthorised(m)'
    <3> SUFFICES ASSUME outbox'[m] = Row("held", GenOf(m)) 
                 PROVE  \/ lineage[m].gen = GenOf(m)
                        \/ StateOf(m) \in {"CAPPED", "REVOKED"}
                        \/ DeadReservation(m)'
      BY <2>2, <2>5 DEF HeldAuthorised
    <3>1. outbox[m] = Row("held", GenOf(m))
      BY <2>4 DEF Row
    <3> QED BY <2>2, <2>4, <2>5, <3>1 DEF RowInv, HeldAuthorised, DeadReservation, Exists
  <2> QED BY <2>2, <2>4, <2>5, <2>6, <2>7 DEF RowInv, Behind, SentTaken
<1>6. CASE m = k /\ HoldAtFence(k)
  <2>1. PICK hold : Hold(m, hold) /\ hold = IF StateOf(m) = "SUSPECT"
                                            THEN [gen |-> GenOf(m), bound |-> Exists(resv[m])]
                                            ELSE NoHold
    BY <1>6 DEF HoldAtFence
  <2>2. /\ outbox'[m] = Row("held", GenOf(m)) /\ lineage'[m] = hold
        /\ UNCHANGED <<grants, taken, resv>> /\ StateOf(m) # "OK"
    BY <1>6, <2>1 DEF HoldAtFence, Hold, TypeOK
  <2>3. GenOf(m)' = GenOf(m) /\ StateOf(m)' = StateOf(m) /\ Terminal(Route[m])' = Terminal(Route[m])
    BY <2>2 DEF GenOf, StateOf, Terminal
  <2>4. lineage'[m].gen = IF StateOf(m) = "SUSPECT" THEN GenOf(m) ELSE 0
    BY <2>1, <2>2 DEF NoHold
  <2> QED BY <1>0, <2>2, <2>3, <2>4
          DEF RowInv, Behind, HeldAuthorised, Current, SentTaken, Row, States
<1>7. CASE m = k /\ HoldAtReservation(k)
  <2>1. /\ outbox'[m] = Row("held", GenOf(m)) /\ lineage'[m] = NoHold
        /\ UNCHANGED <<grants, taken, resv>> /\ DeadReservation(m)
    BY <1>7 DEF HoldAtReservation, Hold, TypeOK, DeadReservation
  <2>2. GenOf(m)' = GenOf(m) /\ StateOf(m)' = StateOf(m) /\ Terminal(Route[m])' = Terminal(Route[m])
    BY <2>1 DEF GenOf, StateOf, Terminal
  <2> QED BY <1>0, <2>1, <2>2
          DEF RowInv, Behind, HeldAuthorised, DeadReservation, Current, SentTaken, Row, NoHold
<1>8. CASE m = k /\ HandOff(k)
  <2>1. /\ resv'[m] = Row("inflight", GenOf(m)) /\ outbox'[m] = Row("inflight", GenOf(m))
        /\ lineage'[m] = NoHold /\ UNCHANGED <<grants, taken>>
    BY <1>8 DEF HandOff, TypeOK
  <2>2. GenOf(m)' = GenOf(m)
    BY <2>1 DEF GenOf
  <2> QED BY <1>0, <2>1, <2>2
          DEF RowInv, Behind, HeldAuthorised, Current, SentTaken, Row, NoHold
<1>9. CASE m = k /\ Outcome(k)
  <2>1. PICK to \in {"sent", "failed-unknown", "released"} :
          Settle(m, to) /\ (to = "sent" => m \in taken)
    BY <1>9 DEF Outcome, TransportAccepted, TransportUnknown, TransportRejected
  <2>2. /\ resv'[m] = [resv[m] EXCEPT !.state = to] /\ outbox'[m] = [outbox[m] EXCEPT !.state = to]
        /\ UNCHANGED <<grants, taken, lineage>> /\ busy = m
    BY <2>1 DEF Settle, TypeOK
  <2>3. /\ resv'[m].state = to /\ resv'[m].gen = resv[m].gen
        /\ outbox'[m].state = to /\ outbox'[m].gen = outbox[m].gen
    BY <1>0, <2>2 DEF Rows
  <2>4. resv[m].gen = GenOf(m)
    BY <2>2 DEF FenceHolds, Row
  <2>5. GenOf(m)' = GenOf(m)
    BY <2>2 DEF GenOf
  <2> QED BY <1>0, <2>1, <2>2, <2>3, <2>4, <2>5
          DEF RowInv, Behind, HeldAuthorised, Current, SentTaken, Row
<1> QED BY <1>1, <1>2, <1>3, <1>4, <1>5, <1>6, <1>7, <1>8, <1>9 DEF Action

LEMMA RowStep ==
  ASSUME TypeOK, FenceHolds, [Next]_vars, NEW m \in Msgs, RowInv(m)
  PROVE  RowInv(m)'
<1>1. ASSUME NEW g \in Grants, SetSuspect(g) PROVE RowInv(m)'
  <2>1. /\ ~Terminal(g) /\ grants'[g].gen = grants[g].gen + 1
        /\ \A h \in Grants : h # g => grants'[h] = grants[h]
    BY <1>1 DEF SetSuspect, Terminal, TypeOK
  <2>2. /\ resv'[m] = NextResv(g)[m] /\ outbox'[m] = NextOutbox(g)[m]
        /\ lineage'[m] = NextLineage(g)[m] /\ UNCHANGED taken
    BY <1>1 DEF SetSuspect, Advance
  <2> QED BY <2>1, <2>2, AdvanceRows
<1>2. ASSUME NEW e \in evidence, VerifiedRecheck(e) PROVE RowInv(m)'
  <2> DEFINE g == e.grant
  <2>1. g \in Grants /\ e.prior \in {"SUSPECT", "CAPPED"}
    BY DEF TypeOK
  <2>2. /\ ~Terminal(g) /\ grants'[g].gen = grants[g].gen + 1
        /\ \A h \in Grants : h # g => grants'[h] = grants[h]
    BY <1>2, <2>1 DEF VerifiedRecheck, Terminal, TypeOK
  <2>3. /\ resv'[m] = NextResv(g)[m] /\ outbox'[m] = NextOutbox(g)[m]
        /\ lineage'[m] = NextLineage(g)[m] /\ UNCHANGED taken
    BY <1>2 DEF VerifiedRecheck, Advance
  <2> HIDE DEF g
  <2> QED BY <2>1, <2>2, <2>3, AdvanceRows
<1>3. CASE \/ \E g \in Grants : SignEvidence(g)
           \/ \E x \in Ins : Receive(x) \/ AckArrives(x)
           \/ Dies \/ Tick \/ UNCHANGED vars
  BY <1>3, SameRows DEF SignEvidence, Receive, AckArrives, Dies, Tick, vars, tables
<1> QED BY <1>1, <1>2, <1>3, CapRows, RevokeRows, MsgRows DEF Next

-----------------------------------------------------------------------------
(* The fence: whatever moves a grant or a table waits for the lock.        *)
LEMMA FenceStep ==
  ASSUME TypeOK, FenceHolds, AckingIsSaved, AckedIsKept, [Next]_vars
  PROVE  FenceHolds' /\ AckingIsSaved' /\ AckedIsKept'
<1> USE DEF tables
<1>0. None \notin Msgs \cup Ins /\ Msgs \cap Ins = {}
  BY AuthorityAssumption DEF ConfigAccepted
<1>1. CASE UNCHANGED <<grants, resv, outbox, ndrs, busy, inbox, acked>>
  BY <1>1 DEF FenceHolds, StateOf, GenOf, AckingIsSaved, AckedIsKept
<1>2. CASE busy' = None /\ UNCHANGED <<inbox, acked>>
  BY <1>0, <1>2 DEF FenceHolds, AckingIsSaved, AckedIsKept
<1>3. ASSUME NEW m \in Msgs, HandOff(m)
      PROVE  FenceHolds' /\ AckingIsSaved' /\ AckedIsKept'
  <2>1. /\ busy' = m /\ resv'[m] = Row("inflight", GenOf(m))
        /\ outbox'[m] = Row("inflight", GenOf(m))
        /\ StateOf(m) = "OK" /\ m \notin ndrs /\ UNCHANGED <<grants, ndrs, inbox, acked>>
    BY <1>3 DEF HandOff, Decides, Refused, TypeOK
  <2>2. StateOf(m)' = StateOf(m) /\ GenOf(m)' = GenOf(m)
    BY <2>1 DEF StateOf, GenOf
  <2>3. FenceHolds'
    BY <2>1, <2>2 DEF FenceHolds, StateOf, GenOf
  <2> QED BY <1>0, <2>1, <2>3 DEF AckingIsSaved, AckedIsKept
<1>4. ASSUME NEW x \in Ins, Receive(x)
      PROVE  FenceHolds' /\ AckingIsSaved' /\ AckedIsKept'
  BY <1>0, <1>4 DEF Receive, FenceHolds, AckingIsSaved, AckedIsKept
<1>5. ASSUME NEW x \in Ins, AckArrives(x)
      PROVE  FenceHolds' /\ AckingIsSaved' /\ AckedIsKept'
  BY <1>0, <1>5 DEF AckArrives, FenceHolds, AckingIsSaved, AckedIsKept
<1>6. CASE \/ \E g \in Grants : SetSuspect(g) \/ ApplyPartitionCap(g)
           \/ \E n \in Nonces, batch \in SUBSET Grants : CommitRevokeBatch(n, batch)
           \/ \E e \in evidence : VerifiedRecheck(e)
  <2>1. busy = None /\ busy' = busy /\ UNCHANGED <<inbox, acked>>
    <3>1. CASE \E n \in Nonces, batch \in SUBSET Grants : CommitRevokeBatch(n, batch)
      BY <3>1, Zenon DEF CommitRevokeBatch, LockFree
    <3> QED BY <1>6, <3>1 DEF SetSuspect, ApplyPartitionCap, VerifiedRecheck, LockFree
  <2> QED BY <1>2, <2>1
<1>7. ASSUME NEW m \in Msgs,
             \/ QueueMessage(m) \/ MarkHeld(m) \/ ResolveQueued(m) \/ ReserveDispatch(m)
             \/ ReleaseReservation(m) \/ JournalPayload(m)
             \/ Reconcile(m) \/ HoldAtFence(m) \/ HoldAtReservation(m)
      PROVE  busy = None /\ busy' = None /\ UNCHANGED <<inbox, acked>>
  BY <1>7 DEF QueueMessage, MarkHeld, ResolveQueued, ReserveDispatch, ReleaseReservation,
     JournalPayload, Reconcile, ReconcileInflight, ScheduleRetry, MoveBoth, HoldAtFence,
     HoldAtReservation, Hold, Decides, LockFree
<1>8. ASSUME NEW m \in Msgs, Outcome(m) PROVE busy' = None /\ UNCHANGED <<inbox, acked>>
  BY <1>8 DEF Outcome, TransportAccepted, TransportUnknown, TransportRejected, Settle
<1>9. CASE \/ \E g \in Grants : SignEvidence(g)
           \/ \E m \in Msgs : RelayTakes(m) \/ RequestLost(m)
           \/ Tick \/ UNCHANGED vars
  BY <1>1, <1>9 DEF SignEvidence, RelayTakes, RequestLost, Tick, vars
<1>10. CASE Dies
  BY <1>2, <1>10 DEF Dies
<1> QED BY <1>2, <1>3, <1>4, <1>5, <1>6, <1>7, <1>8, <1>9, <1>10 DEF Next, Action

-----------------------------------------------------------------------------
(* What left: its reservation moves on, and no second one is made.         *)
LEMMA LeftStep ==
  ASSUME TypeOK, [Next]_vars, LeftIsRemembered
  PROVE  LeftIsRemembered'
<1>1. ASSUME underway' \cup taken' \subseteq underway \cup taken,
             \A m \in Msgs : resv'[m].state \in {"none", "reserved"} => resv'[m].state = resv[m].state
      PROVE  LeftIsRemembered'
  BY <1>1 DEF LeftIsRemembered, TypeOK
<1>2. ASSUME NEW g \in Grants, NEW m \in Msgs PROVE NextResv(g)[m].state = resv[m].state
  <2>1. resv[m] \in Rows(ReservationStates)
    BY DEF TypeOK
  <2> QED BY <2>1 DEF NextResv, Rows
<1>3. ASSUME NEW g \in Grants, SetSuspect(g) PROVE LeftIsRemembered'
  BY <1>1, <1>2, <1>3 DEF SetSuspect, Advance
<1>4. ASSUME NEW e \in evidence, VerifiedRecheck(e) PROVE LeftIsRemembered'
  BY <1>1, <1>2, <1>4 DEF VerifiedRecheck, Advance, TypeOK
<1>5. ASSUME NEW g \in Grants, ApplyPartitionCap(g) PROVE LeftIsRemembered'
  BY <1>1, <1>2, <1>5 DEF ApplyPartitionCap, Row
<1>6. CASE \/ \E g \in Grants : SignEvidence(g)
           \/ \E n \in Nonces, batch \in SUBSET Grants : CommitRevokeBatch(n, batch)
           \/ \E x \in Ins : Receive(x) \/ AckArrives(x)
           \/ Dies \/ Tick \/ UNCHANGED vars
  <2>1. UNCHANGED <<resv, underway, taken>>
    BY <1>6, Zenon DEF SignEvidence, CommitRevokeBatch, Receive, AckArrives, Dies, Tick, vars, tables
  <2> QED BY <1>1, <2>1
<1>7. ASSUME NEW k \in Msgs, \/ QueueMessage(k) \/ MarkHeld(k) \/ ResolveQueued(k)
                             \/ JournalPayload(k) \/ HoldAtFence(k) \/ HoldAtReservation(k)
                             \/ RelayTakes(k) \/ RequestLost(k)
      PROVE  LeftIsRemembered'
  BY <1>1, <1>7 DEF QueueMessage, MarkHeld, ResolveQueued, JournalPayload, HoldAtFence,
     HoldAtReservation, Hold, RelayTakes, RequestLost, tables
<1>8. ASSUME NEW k \in Msgs, ReleaseReservation(k) \/ Reconcile(k) \/ Outcome(k)
      PROVE  LeftIsRemembered'
  <2>1. PICK to \in {"released", "failed-unknown", "retry", "sent"} :
          resv' = [resv EXCEPT ![k].state = to]
    BY <1>8 DEF ReleaseReservation, Reconcile, ReconcileInflight, ScheduleRetry, MoveBoth,
       Outcome, TransportAccepted, TransportUnknown, TransportRejected, Settle
  <2>2. UNCHANGED <<underway, taken>>
    BY <1>8 DEF ReleaseReservation, Reconcile, ReconcileInflight, ScheduleRetry, MoveBoth,
       Outcome, TransportAccepted, TransportUnknown, TransportRejected, Settle
  <2>3. ASSUME NEW m \in Msgs
        PROVE  resv'[m].state \in {"none", "reserved"} => resv'[m].state = resv[m].state
    <3>1. resv[m] \in Rows(ReservationStates)
      BY DEF TypeOK
    <3> QED BY <2>1, <3>1 DEF TypeOK, Rows
  <2> QED BY <1>1, <2>2, <2>3
<1>9. ASSUME NEW k \in Msgs, ReserveDispatch(k) PROVE LeftIsRemembered'
  <2>1. /\ k \notin underway \cup taken
        /\ \A m \in Msgs : m # k => resv'[m] = resv[m]
        /\ UNCHANGED <<underway, taken>>
    BY <1>9 DEF ReserveDispatch, LeftIsRemembered, Exists, TypeOK
  <2> QED BY <2>1 DEF LeftIsRemembered, TypeOK
<1>10. ASSUME NEW k \in Msgs, HandOff(k) PROVE LeftIsRemembered'
  <2>1. /\ resv'[k].state = "inflight"
        /\ \A m \in Msgs : m # k => resv'[m] = resv[m]
        /\ underway' = underway \cup {k} /\ taken' = taken
    BY <1>10 DEF HandOff, Row, TypeOK
  <2> QED BY <2>1 DEF LeftIsRemembered, TypeOK
<1> QED BY <1>3, <1>4, <1>5, <1>6, <1>7, <1>8, <1>9, <1>10 DEF Next, Action

LEMMA IInit == Init => IInv
<1> SUFFICES ASSUME Init PROVE IInv
  OBVIOUS
<1>1. TypeOK
  BY TypeInit
<1>2. None \notin Msgs \cup Ins
  BY AuthorityAssumption
<1>3. ASSUME NEW m \in Msgs PROVE RowInv(m)
  <2>1. resv[m] = NoRow /\ outbox[m] = NoRow /\ lineage[m] = NoHold /\ GenOf(m) \in Nat
    BY <1>1, MsgTyped DEF Init
  <2>2. 0 <= GenOf(m)
    BY <2>1
  <2> QED BY <2>1, <2>2 DEF RowInv, Behind, HeldAuthorised, Current, SentTaken, NoRow, NoHold, Row,
                          Live, LiveStates
<1> QED BY <1>1, <1>2, <1>3
        DEF Init, IInv, FenceHolds, AckingIsSaved, AckedIsKept, LeftIsRemembered

LEMMA IStep == IInv /\ [Next]_vars => IInv'
<1> SUFFICES ASSUME IInv, [Next]_vars PROVE IInv'
  OBVIOUS
<1>1. TypeOK'
  BY TypeStep DEF IInv
<1>2. FenceHolds' /\ AckingIsSaved' /\ AckedIsKept'
  BY FenceStep DEF IInv
<1>3. \A m \in Msgs : RowInv(m)'
  BY RowStep DEF IInv
<1>4. LeftIsRemembered'
  BY LeftStep DEF IInv
<1> QED BY <1>1, <1>2, <1>3, <1>4 DEF IInv

(* The tables keep their schema.                                           *)
THEOREM Typed == Spec => []TypeOK
<1>1. IInv => TypeOK
  BY DEF IInv
<1> QED BY <1>1, IInit, IStep, PTL DEF Spec

(* While a message is in its transport its grant is OK, its rows are       *)
(* inflight at the grant's generation and no record says it failed: what   *)
(* action() decided cannot go stale before the transport returns, however  *)
(* many processes wait for the lock and whichever of them dies.            *)
THEOREM Fence == Spec => []FenceHolds
<1>1. IInv => FenceHolds
  BY DEF IInv
<1> QED BY <1>1, IInit, IStep, PTL DEF Spec

(* What the relay was told to forget is in the local inbox.                *)
THEOREM AckedKept == Spec => []AckedIsKept
<1>1. IInv => AckedIsKept
  BY DEF IInv
<1> QED BY <1>1, IInit, IStep, PTL DEF Spec

(* A live reservation is of its grant's generation until a revocation      *)
(* strands it, and one recorded as sent is at the destination.             *)
THEOREM ReservationsCurrent == Spec => [](LiveIsCurrent /\ SentIsTaken)
<1>1. IInv => LiveIsCurrent /\ SentIsTaken
  BY DEF IInv, RowInv, Current, SentTaken, LiveIsCurrent, SentIsTaken
<1> QED BY <1>1, IInit, IStep, PTL DEF Spec

(* A message leaves by its handoff only.                                   *)
LEMMA LeavesByHandOff ==
  ASSUME Next, NEW m \in Msgs, busy # m, busy' = m
  PROVE  HandOff(m)
<1> USE DEF tables
<1>1. None \notin Msgs \cup Ins /\ Msgs \cap Ins = {}
  BY AuthorityAssumption DEF ConfigAccepted
<1>2. ASSUME NEW n \in Nonces, NEW batch \in SUBSET Grants, CommitRevokeBatch(n, batch)
      PROVE  busy' = busy
  BY <1>2, Zenon DEF CommitRevokeBatch
<1>3. ASSUME NEW g \in Grants, SetSuspect(g) \/ ApplyPartitionCap(g) \/ SignEvidence(g)
      PROVE  busy' = busy
  BY <1>3 DEF SetSuspect, ApplyPartitionCap, SignEvidence
<1>4. ASSUME NEW e \in evidence, VerifiedRecheck(e) PROVE busy' = busy
  BY <1>4 DEF VerifiedRecheck
<1>5. ASSUME NEW k \in Msgs,
             \/ QueueMessage(k) \/ MarkHeld(k) \/ ResolveQueued(k) \/ ReserveDispatch(k)
             \/ ReleaseReservation(k) \/ JournalPayload(k)
             \/ Reconcile(k) \/ HoldAtFence(k) \/ HoldAtReservation(k) \/ Outcome(k)
             \/ RelayTakes(k) \/ RequestLost(k)
      PROVE  busy' \in {busy, None}
  BY <1>5 DEF QueueMessage, MarkHeld, ResolveQueued, ReserveDispatch, ReleaseReservation,
     JournalPayload, Reconcile, ReconcileInflight, ScheduleRetry, MoveBoth, HoldAtFence,
     HoldAtReservation, Hold, Outcome, TransportAccepted, TransportUnknown, TransportRejected,
     Settle, RelayTakes, RequestLost
<1>6. ASSUME NEW x \in Ins, Receive(x) \/ AckArrives(x) PROVE busy' \in {x, None}
  BY <1>6 DEF Receive, AckArrives
<1>7. ASSUME Dies \/ Tick PROVE busy' \in {busy, None}
  BY <1>7 DEF Dies, Tick
<1>8. \E k \in Msgs : HandOff(k)
  BY <1>1, <1>2, <1>3, <1>4, <1>5, <1>6, <1>7 DEF Next, Action
<1> QED BY <1>8 DEF HandOff

(* What the relay has or may still get leaves again only by a retry that   *)
(* was scheduled: a message has one reservation in its life, which is past *)
(* "reserved" from the first handoff on (LeftIsRemembered), and of the     *)
(* states it can then be in only "retry" passes the fence.                 *)
THEOREM SentAgainByRetry == Spec => DepartsAgainByRetry
<1>1. IInv /\ [Next]_vars
        => [\A m \in underway \cup taken : busy # m /\ busy' = m => resv[m].state = "retry"]_vars
  <2> SUFFICES ASSUME IInv, Next, NEW m \in underway \cup taken, busy # m, busy' = m
               PROVE  resv[m].state = "retry"
    OBVIOUS
  <2>1. m \in Msgs /\ resv[m].state \notin {"none", "reserved"}
    BY DEF IInv, TypeOK, LeftIsRemembered
  <2>2. HandOff(m)
    BY <2>1, LeavesByHandOff
  <2> QED BY <2>1, <2>2 DEF HandOff, Reservation, Exists
<1> QED BY <1>1, IInit, IStep, PTL DEF Spec, DepartsAgainByRetry

(* A held message leaves only on the lineage of a hold under SUSPECT: the  *)
(* handoff does not look at the lineage, but a current held row without    *)
(* one belongs to a grant that is not OK or to a dead reservation.         *)
THEOREM HeldOnLineage == Spec => HeldLeavesOnLineage
<1>1. IInv /\ [Next]_vars
        => [\A m \in Msgs : busy # m /\ busy' = m /\ outbox[m].state = "held" =>
              lineage[m].gen = GenOf(m)]_vars
  <2> SUFFICES ASSUME IInv, Next, NEW m \in Msgs, busy # m, busy' = m, outbox[m].state = "held"
               PROVE  lineage[m].gen = GenOf(m)
    OBVIOUS
  <2>1. /\ Exists(outbox[m]) => outbox[m].gen = GenOf(m)
        /\ StateOf(m) = "OK"
        /\ Reservation(m).gen = GenOf(m) /\ Reservation(m).state \in {"reserved", "retry"}
    BY LeavesByHandOff DEF HandOff, Decides, Refused
  <2>2. outbox[m] = Row("held", GenOf(m))
    BY <2>1, MsgTyped DEF IInv, Exists
  <2>3. ~DeadReservation(m)
    BY <2>1 DEF DeadReservation, Reservation
  <2> QED BY <2>1, <2>2, <2>3 DEF IInv, RowInv, HeldAuthorised
<1> QED BY <1>1, IInit, IStep, PTL DEF Spec, HeldLeavesOnLineage
=============================================================================
