-------------------------- MODULE AdapterV2Proofs --------------------------
(***************************************************************************)
(* The v2 adapter over the route snapshots, for every set of snapshots,    *)
(* loaders and messages: what leaves or is stored for the first time was   *)
(* agreed with routes in force during that very call, and everything that  *)
(* left or was stored was signed for published routes.                     *)
(***************************************************************************)
EXTENDS AdapterV2, TLAPS

\* What a call may rely on has been active since it began.
ActiveServed == \A m \in Msgs : call[m] # "idle" => Active \subseteq served[m]

\* What is active, was ever active during a call, or is kept disabled, was published.
ServedPublished == \A m \in Msgs : served[m] \subseteq published
RowsPublished == \A i \in Identities : rows[i] # None => rows[i].route \in published

\* The two ends as this call found them.
SenderFound(m) ==
    \E r \in served[m] :
        /\ r.peer = Ctx[m].from.peer /\ Agrees(Ctx[m].from, r)
        /\ m \in Sent => Bound(r)
RecipientFound(m) == \E r \in served[m] : r.peer = Ctx[m].to.peer /\ Agrees(Ctx[m].to, r)

\* How far the gate is follows from where the call stands; behind it is every call that
\* could be the first to let the message leave or be stored.
First(m) ==
    \/ call[m] = "journal"
    \/ m \in Sent /\ call[m] = "act" /\ resv[m] = "none"
    \/ call[m] = "persist" /\ m \notin inbox
Gated ==
    \A m \in Msgs :
        /\ call[m] = "recipient" => SenderFound(m)
        /\ First(m) => SenderFound(m) /\ RecipientFound(m)

AdapterInv ==
    /\ TypeOK /\ ActiveServed /\ ServedPublished /\ RowsPublished /\ Gated
    /\ OnlyPublishedContexts

-----------------------------------------------------------------------------
\* An identity that a snapshot names has one route written last.
LEMMA LastIsListed ==
    ASSUME NEW s \in Snapshots, NEW i \in Named(s)
    PROVE  LastOf(s, i) \in s.routes /\ LastOf(s, i) \in Routes
  <1>1. PICK r \in s.routes : r.identity = i
    BY DEF Named
  <1>2. \E q \in s.routes : q.identity = i
            /\ \A t \in s.routes : t.identity = i => t.peer <= q.peer
    BY <1>1, CnsAssumption
  <1> QED BY <1>2 DEF LastOf, Routes

LEMMA ActivePublished ==
    ASSUME TypeOK, RowsPublished
    PROVE  Active \subseteq published
  BY DEF Active, RowsPublished

\* What was found stays found while the served routes only grow.
LEMMA FoundStays ==
    ASSUME NEW m \in Msgs, served[m] \subseteq served'[m]
    PROVE  /\ SenderFound(m) => SenderFound(m)'
           /\ RecipientFound(m) => RecipientFound(m)'
  BY DEF SenderFound, RecipientFound, Agrees, Bound

-----------------------------------------------------------------------------
LEMMA InvInit == Init => AdapterInv
  <1> SUFFICES ASSUME Init PROVE AdapterInv
    OBVIOUS
  <1>1. TypeOK
    BY DEF Init, CnsInit, TypeOK
  <1> QED
    BY <1>1, CnsAssumption
    DEF Init, CnsInit, AdapterInv, ActiveServed, ServedPublished, RowsPublished, Gated, First,
        OnlyPublishedContexts

\* A loader's step, the projection of a snapshot above all.
LEMMA RoutingStep ==
    ASSUME AdapterInv, Routing
    PROVE  AdapterInv'
  <1> USE DEF AdapterInv
  <1>1. TypeOK' /\ RowsPublished' /\ published \subseteq published'
    <2>1. CASE UNCHANGED <<meta, rows>> /\ loading' \in
                 [Loaders -> Loads \cup {None}]
               /\ now' \in Nat
      <3>1. published' \subseteq Routes /\ published \subseteq published'
        BY <2>1 DEF Routing, TypeOK, Routes
      <3>2. Active' = Active
        BY <2>1 DEF Active
      <3>3. Active \subseteq Routes
        BY DEF Active, TypeOK
      <3>4. served' \in [Msgs -> SUBSET Routes]
        BY <3>2, <3>3 DEF Routing, TypeOK
      <3> QED BY <2>1, <3>1, <3>4 DEF Routing, TypeOK, RowsPublished, adapterVars
    <2>2. ASSUME NEW l \in Loaders, Project(l)
          PROVE  TypeOK' /\ RowsPublished' /\ published \subseteq published'
      <3> DEFINE s == loading[l].snap
      <3>1. s \in Snapshots /\ loading[l].known \subseteq Identities
        BY <2>2 DEF Project, TypeOK, Loads
      <3>2. meta' = s /\ published' = published \cup s.routes
        BY <2>2, <3>1, CnsAssumption DEF Project, Routing
      <3>3. ASSUME NEW i \in Identities
            PROVE  /\ rows'[i] \in [route : Routes, disabled : BOOLEAN] \cup {None}
                   /\ rows'[i] # None => rows'[i].route \in published'
        <4>1. CASE i \in Named(s)
          <5>1. rows'[i] = [route |-> LastOf(s, i), disabled |-> FALSE]
            BY <2>2, <4>1 DEF Project
          <5> QED BY <3>1, <3>2, <4>1, <5>1, LastIsListed
        <4>2. CASE i \notin Named(s)
          <5>1. rows'[i] = Omitted(s, loading[l].known, i)
            BY <2>2, <4>2 DEF Project
          <5>2. rows[i] \in [route : Routes, disabled : BOOLEAN] \cup {None}
            BY DEF TypeOK
          <5>3. rows'[i] = rows[i]
                \/ (rows[i] # None /\ rows'[i] = [rows[i] EXCEPT !.disabled = TRUE])
            BY <5>1 DEF Omitted
          <5>4. rows[i] # None =>
                   /\ [rows[i] EXCEPT !.disabled = TRUE] \in [route : Routes, disabled : BOOLEAN]
                   /\ [rows[i] EXCEPT !.disabled = TRUE].route = rows[i].route
            BY <5>2
          <5> QED BY <3>2, <5>2, <5>3, <5>4 DEF RowsPublished
        <4> QED BY <4>1, <4>2
      <3>4. rows' \in [Identities -> [route : Routes, disabled : BOOLEAN] \cup {None}]
        BY <2>2, <3>3 DEF Project
      <3>5. Active' \subseteq Routes
        <4>1. \A i \in Identities : rows'[i] # None => rows'[i].route \in Routes
          BY <3>3
        <4> QED BY <4>1 DEF Active
      <3>6. published' \subseteq Routes /\ served' \in [Msgs -> SUBSET Routes]
        BY <3>1, <3>2, <3>5 DEF Routing, TypeOK, Routes
      <3>7. loading' \in [Loaders -> Loads \cup {None}]
        BY <2>2 DEF Project, TypeOK
      <3> QED
        BY <2>2, <3>1, <3>2, <3>3, <3>4, <3>6, <3>7
        DEF Project, Routing, TypeOK, RowsPublished, adapterVars
    <2>3. ASSUME NEW l \in Loaders, (\E s \in Snapshots : CheckMeta(l, s)) \/ CheckRows(l)
          PROVE  loading' \in [Loaders -> Loads \cup {None}]
      <3>1. \A s \in Snapshots, known \in SUBSET Identities, compared \in BOOLEAN :
              [snap |-> s, known |-> known, compared |-> compared] \in Loads
        BY DEF Loads
      <3>2. loading[l] # None => loading[l].snap \in Snapshots
        BY DEF TypeOK, Loads
      <3>3. CASE CheckRows(l)
        <4>1. [snap |-> loading[l].snap, known |-> {i \in Identities : rows[i] # None},
               compared |-> TRUE] \in Loads
          BY <3>1, <3>2, <3>3 DEF CheckRows
        <4> QED BY <3>3, <4>1 DEF CheckRows, TypeOK
      <3>4. ASSUME NEW s \in Snapshots, CheckMeta(l, s)
            PROVE  loading' \in [Loaders -> Loads \cup {None}]
        BY <3>1, <3>4 DEF CheckMeta, TypeOK
      <3> QED BY <2>3, <3>3, <3>4
    <2>4. ASSUME NEW l \in Loaders, LoadFails(l)
          PROVE  loading' \in [Loaders -> Loads \cup {None}]
      BY <2>4 DEF LoadFails, TypeOK
    <2>5. CnsNext => (\E l \in Loaders : Project(l))
                     \/ (UNCHANGED <<meta, rows>> /\ now' \in Nat /\ loading' \in
                           [Loaders -> Loads \cup {None}])
      BY <2>3, <2>4 DEF CnsNext, CheckMeta, CheckRows, LoadFails, CnsTick, TypeOK
    <2> QED BY <2>1, <2>2, <2>5 DEF Routing
  <1>2. Active' \subseteq published'
    BY <1>1 DEF Active, RowsPublished
  <1>3. /\ UNCHANGED <<call, payloads, resv, inbox>>
        /\ \A m \in Msgs : served'[m] = served[m] \cup Active'
    BY DEF Routing, adapterVars
  <1>4. ActiveServed' /\ ServedPublished'
    BY <1>1, <1>2, <1>3 DEF ActiveServed, ServedPublished
  <1>5. Gated'
    BY <1>3, FoundStays DEF Gated, First
  <1>6. OnlyPublishedContexts'
    BY <1>1, <1>3 DEF OnlyPublishedContexts, Agrees
  <1> QED BY <1>1, <1>4, <1>5, <1>6

-----------------------------------------------------------------------------
\* What the steps of the calls have in common: one message moves, no route does.
CallMoves(m) ==
    /\ UNCHANGED <<cnsVars, published>>
    /\ call' \in [Msgs -> {"idle", "sender", "recipient", "journal", "act", "persist"}]
    /\ \A n \in Msgs \ {m} : call'[n] = call[n] /\ served'[n] = served[n]
    /\ \A n \in Sent \ {m} : resv'[n] = resv[n]
    /\ \A n \in Msgs \ {m} : n \in inbox' <=> n \in inbox
    /\ payloads' \subseteq Sent /\ inbox' \subseteq Received
    /\ resv' \in [Sent -> {"none", "sent", "failed-unknown", "released"}]
    /\ served' \in [Msgs -> SUBSET Routes]
    /\ served'[m] = served[m] \/ served'[m] = Active
    /\ call'[m] = "idle" \/ call[m] # "idle" \/ served'[m] = Active

LEMMA ActiveTyped ==
    ASSUME TypeOK
    PROVE  Active \subseteq Routes
  BY DEF Active, TypeOK

LEMMA CallsMove ==
    ASSUME TypeOK,
           NEW m \in Msgs,
           \/ m \in Sent /\ (SendBegin(m) \/ Journal(m) \/ Act(m))
           \/ m \in Received /\ (ReceiveBegin(m) \/ Persist(m))
           \/ GateSender(m) \/ GateRecipient(m) \/ Dies(m)
    PROVE  CallMoves(m)
  <1> USE ActiveTyped DEF CallMoves, TypeOK
  <1>1. CASE m \in Sent /\ SendBegin(m)
    BY <1>1 DEF SendBegin, At
  <1>2. CASE m \in Sent /\ Journal(m)
    BY <1>2 DEF Journal, At
  <1>3. CASE m \in Sent /\ Act(m)
    BY <1>3 DEF Act, At
  <1>4. CASE m \in Received /\ ReceiveBegin(m)
    BY <1>4 DEF ReceiveBegin, At
  <1>5. CASE m \in Received /\ Persist(m)
    BY <1>5 DEF Persist, At
  <1>6. CASE GateSender(m)
    BY <1>6 DEF GateSender, At
  <1>7. CASE GateRecipient(m)
    BY <1>7 DEF GateRecipient, At
  <1>8. CASE Dies(m)
    BY <1>8 DEF Dies
  <1> QED BY <1>1, <1>2, <1>3, <1>4, <1>5, <1>6, <1>7, <1>8

\* Such a step keeps the invariant if it keeps the gate of the message that moves, and
\* lets nothing pass that is not behind it.
Passes(m) ==
    \/ m \in Sent /\ resv[m] = "none" /\ resv'[m] # "none"
    \/ m \notin Sent /\ m \notin inbox /\ m \in inbox'

LEMMA MoveKeeps ==
    ASSUME AdapterInv, NEW m \in Msgs, CallMoves(m),
           call'[m] = "recipient" => SenderFound(m)',
           First(m)' => SenderFound(m)' /\ RecipientFound(m)',
           Passes(m) => First(m)
    PROVE  AdapterInv'
  <1> USE DEF AdapterInv
  <1>1. TypeOK'
    BY DEF CallMoves, TypeOK, cnsVars
  <1>2. Active' = Active
    BY DEF CallMoves, cnsVars, Active
  <1>3. ActiveServed'
    BY <1>2 DEF CallMoves, ActiveServed
  <1>4. ServedPublished' /\ RowsPublished'
    BY ActivePublished DEF CallMoves, ServedPublished, RowsPublished, cnsVars
  <1>5. ASSUME NEW n \in Msgs, n # m
        PROVE  /\ call'[n] = "recipient" => SenderFound(n)'
               /\ First(n)' => SenderFound(n)' /\ RecipientFound(n)'
    <2>1. First(n)' => First(n)
      BY <1>5 DEF CallMoves, First
    <2> QED BY <1>5, <2>1, FoundStays DEF CallMoves, Gated
  <1>6. Gated'
    BY <1>5 DEF Gated
  <1>7. OnlyPublishedContexts'
    <2> SUFFICES ASSUME NEW n \in Msgs,
                        IF n \in Sent THEN resv'[n] # "none" ELSE n \in inbox',
                        NEW end \in {Ctx[n].from, Ctx[n].to}
                 PROVE  \E r \in published : r.peer = end.peer /\ Agrees(end, r)
      BY DEF OnlyPublishedContexts, CallMoves, Agrees
    <2>1. CASE IF n \in Sent THEN resv[n] # "none" ELSE n \in inbox
      BY <2>1 DEF OnlyPublishedContexts
    <2>2. CASE ~(IF n \in Sent THEN resv[n] # "none" ELSE n \in inbox)
      <3>1. n = m /\ Passes(m)
        BY <2>2 DEF CallMoves, Passes
      <3>2. SenderFound(m) /\ RecipientFound(m)
        BY <3>1 DEF Gated
      <3> QED BY <3>1, <3>2 DEF SenderFound, RecipientFound, ServedPublished
    <2> QED BY <2>1, <2>2
  <1> QED BY <1>1, <1>3, <1>4, <1>6, <1>7

LEMMA CallStep ==
    ASSUME AdapterInv,
           NEW m \in Msgs,
           \/ m \in Sent /\ (SendBegin(m) \/ Journal(m) \/ Act(m))
           \/ m \in Received /\ (ReceiveBegin(m) \/ Persist(m))
           \/ GateSender(m) \/ GateRecipient(m) \/ Dies(m)
    PROVE  AdapterInv' /\ (Departs(m) => First(m))
  <1> USE DEF AdapterInv
  <1>1. CallMoves(m)
    BY CallsMove
  <1>3. CASE m \in Sent /\ SendBegin(m)
    <2>1. call'[m] = "act" => resv'[m] # "none"
      BY <1>3 DEF SendBegin, At, GateProven, TypeOK
    <2> QED BY <1>3, <2>1, <1>1, MoveKeeps DEF SendBegin, At, First, Passes, Departs, TypeOK
  <1>4. CASE m \in Sent /\ Journal(m)
    BY <1>4, <1>1, MoveKeeps, FoundStays DEF Journal, At, First, Passes, Departs, TypeOK, Gated
  <1>5. CASE m \in Sent /\ Act(m)
    BY <1>5, <1>1, MoveKeeps DEF Act, At, First, Passes, Departs, TypeOK
  <1>6. CASE m \in Received /\ ReceiveBegin(m)
    BY <1>6, <1>1, MoveKeeps DEF ReceiveBegin, At, First, Passes, Departs, TypeOK
  <1>7. CASE m \in Received /\ Persist(m)
    BY <1>7, <1>1, MoveKeeps DEF Persist, At, First, Passes, Departs, TypeOK
  <1>8. CASE GateSender(m)
    <2>1. PICK r \in Active : /\ Resolves(Ctx[m].from.peer, r) /\ Agrees(Ctx[m].from, r)
                              /\ m \in Sent => Bound(r)
      BY <1>8 DEF GateSender
    <2>2. SenderFound(m)
      BY <1>8, <2>1 DEF GateSender, At, ActiveServed, SenderFound, Resolves
    <2> QED BY <1>8, <2>2, <1>1, MoveKeeps, FoundStays
            DEF GateSender, At, First, Passes, Departs, TypeOK
  <1>9. CASE GateRecipient(m)
    <2>1. PICK r \in Active : Resolves(Ctx[m].to.peer, r) /\ Agrees(Ctx[m].to, r)
      BY <1>9 DEF GateRecipient
    <2>2. SenderFound(m) /\ RecipientFound(m)
      BY <1>9, <2>1 DEF GateRecipient, At, ActiveServed, Gated, RecipientFound, Resolves
    <2> QED BY <1>9, <2>2, <1>1, MoveKeeps, FoundStays
            DEF GateRecipient, At, First, Passes, Departs, TypeOK
  <1>10. CASE Dies(m)
    BY <1>10, <1>1, MoveKeeps DEF Dies, First, Passes, Departs, TypeOK
  <1> QED BY <1>3, <1>4, <1>5, <1>6, <1>7, <1>8, <1>9, <1>10

LEMMA InvStep == AdapterInv /\ [Next]_vars => AdapterInv'
  <1> SUFFICES ASSUME AdapterInv, [Next]_vars PROVE AdapterInv'
    OBVIOUS
  <1>1. CASE Routing
    BY <1>1, RoutingStep
  <1>2. CASE \E m \in Msgs :
                \/ m \in Sent /\ (SendBegin(m) \/ Journal(m) \/ Act(m))
                \/ m \in Received /\ (ReceiveBegin(m) \/ Persist(m))
                \/ GateSender(m) \/ GateRecipient(m) \/ Dies(m)
    BY <1>2, CallStep
  <1>3. CASE UNCHANGED vars
    BY <1>3
    DEF vars, cnsVars, adapterVars, AdapterInv, TypeOK, ActiveServed, ServedPublished,
        RowsPublished, Gated, First, OnlyPublishedContexts, SenderFound, RecipientFound, Agrees,
        Bound, Active
  <1> QED BY <1>1, <1>2, <1>3 DEF Next, Msgs

\* The adapter's tables, calls and routes keep their types.
THEOREM Typed == Spec => []TypeOK
  <1>1. AdapterInv => TypeOK
    BY DEF AdapterInv
  <1> QED BY <1>1, InvInit, InvStep, PTL DEF Spec

\* Whatever left or was stored was signed for routes that the authority published, at
\* both ends, though snapshots are loaded, also by racing loaders, at any moment.
THEOREM PublishedOnly == Spec => []OnlyPublishedContexts
  <1>1. AdapterInv => OnlyPublishedContexts
    BY DEF AdapterInv
  <1> QED BY <1>1, InvInit, InvStep, PTL DEF Spec

\* The first departure of a message, and the first time one is stored, rest on routes
\* that were in force during that very call: deaths, holds and journaled payloads let
\* none of them skip the gate.
THEOREM DepartureGated == Spec => FirstDepartureIsGated
  <1> DEFINE Step ==
        \A m \in Msgs : Departs(m) =>
            /\ \E r \in served[m] : /\ r.peer = Ctx[m].from.peer /\ Agrees(Ctx[m].from, r)
                                    /\ m \in Sent => Bound(r)
            /\ \E r \in served[m] : r.peer = Ctx[m].to.peer /\ Agrees(Ctx[m].to, r)
  <1>1. AdapterInv /\ [Next]_vars => [Step]_vars
    <2> SUFFICES ASSUME AdapterInv, Next, NEW m \in Msgs, Departs(m)
                 PROVE  SenderFound(m) /\ RecipientFound(m)
      BY DEF SenderFound, RecipientFound
    <2>1. First(m)
      <3>1. CASE Routing
        BY <3>1 DEF Routing, adapterVars, Departs
      <3>2. ASSUME NEW n \in Msgs,
                   \/ n \in Sent /\ (SendBegin(n) \/ Journal(n) \/ Act(n))
                   \/ n \in Received /\ (ReceiveBegin(n) \/ Persist(n))
                   \/ GateSender(n) \/ GateRecipient(n) \/ Dies(n)
            PROVE  First(m)
        <4>1. CallMoves(n)
          BY <3>2, CallsMove DEF AdapterInv
        <4>2. n = m
          BY <4>1 DEF CallMoves, Departs, AdapterInv, TypeOK
        <4> QED BY <3>2, <4>2, CallStep
      <3> QED BY <3>1, <3>2 DEF Next, Msgs
    <2> QED BY <2>1 DEF AdapterInv, Gated
  <1> QED BY <1>1, InvInit, InvStep, PTL DEF Spec, FirstDepartureIsGated

-----------------------------------------------------------------------------
(* One loader at a time.                                                   *)

OneLoader == \A k, l \in Loaders : k = l

\* What the loader checked holds until its transaction, for nobody else projects.
CheckedHolds ==
    \A l \in Loaders : loading[l] # None =>
        /\ Advances(loading[l].snap)
        /\ loading[l].compared =>
             /\ \A r \in loading[l].snap.routes : Continues(r)
             /\ loading[l].known = {i \in Identities : rows[i] # None}

LoaderInv == TypeOK /\ CheckedHolds /\ ServesLatest

LEMMA RowIsNotNone == \A row \in [route : Routes, disabled : BOOLEAN] : row # None
  BY CnsAssumption

\* What a projection leaves: the last route of each identity named, the others disabled.
LEMMA Projected ==
    ASSUME LoaderInv, NEW l \in Loaders, Project(l), NEW i \in Identities
    PROVE  LET s == loading[l].snap IN
           /\ s \in Snapshots /\ meta' = s /\ Advances(s)
           /\ i \in Named(s) =>
                /\ rows'[i] = [route |-> LastOf(s, i), disabled |-> FALSE]
                /\ LastOf(s, i) \in s.routes /\ LastOf(s, i).identity = i
                /\ Continues(LastOf(s, i))
           /\ i \notin Named(s) =>
                IF rows[i] = None THEN rows'[i] = None
                ELSE rows'[i].route = rows[i].route /\ rows'[i].disabled /\ rows'[i] # None
  <1> DEFINE s == loading[l].snap
  <1>1. s \in Snapshots /\ meta' = s /\ Advances(s)
    BY DEF LoaderInv, CheckedHolds, Project, TypeOK, Loads
  <1>2. ASSUME i \in Named(s)
        PROVE  /\ rows'[i] = [route |-> LastOf(s, i), disabled |-> FALSE]
               /\ LastOf(s, i) \in s.routes /\ LastOf(s, i).identity = i
               /\ Continues(LastOf(s, i))
    <2>1. PICK r \in s.routes : r.identity = i
      BY <1>2 DEF Named
    <2>2. \E q \in s.routes : q.identity = i
              /\ \A t \in s.routes : t.identity = i => t.peer <= q.peer
      BY <1>1, <2>1, CnsAssumption
    <2>3. LastOf(s, i) \in s.routes /\ LastOf(s, i).identity = i
      BY <2>2 DEF LastOf
    <2> QED BY <1>2, <2>3 DEF Project, LoaderInv, CheckedHolds
  <1>3. ASSUME i \notin Named(s)
        PROVE  IF rows[i] = None THEN rows'[i] = None
               ELSE rows'[i].route = rows[i].route /\ rows'[i].disabled /\ rows'[i] # None
    <2>1. rows'[i] = Omitted(s, loading[l].known, i)
      BY <1>3 DEF Project
    <2>2. rows[i] # None => i \in loading[l].known
      BY DEF Project, LoaderInv, CheckedHolds
    <2>3. rows[i] # None => rows[i] \in [route : Routes, disabled : BOOLEAN]
      BY DEF LoaderInv, TypeOK
    <2>4. rows[i] # None => rows'[i] = [rows[i] EXCEPT !.disabled = TRUE]
      BY <2>1, <2>2 DEF Omitted
    <2>5. rows[i] # None => rows'[i].route = rows[i].route /\ rows'[i].disabled
      BY <2>3, <2>4
    <2>6. rows[i] # None => rows'[i] # None
      BY <2>3, <2>4, CnsAssumption
    <2> QED BY <2>1, <2>5, <2>6 DEF Omitted
  <1> QED BY <1>1, <1>2, <1>3

\* No step but a projection writes the routes, and a projection only advances them.
Advance ==
    /\ meta # None => meta'.seq >= meta.seq
    /\ \A i \in Identities : rows[i] # None =>
          /\ rows'[i] # None
          /\ \/ rows'[i].route = rows[i].route
             \/ /\ rows'[i].route.gen > rows[i].route.gen
                /\ rows'[i].route.owner = rows[i].route.owner

LEMMA ProjectAdvances ==
    ASSUME LoaderInv, NEW l \in Loaders, Project(l)
    PROVE  Advance
  <1> DEFINE s == loading[l].snap
  <1>1. meta # None => meta'.seq >= meta.seq
    <2> SUFFICES ASSUME meta # None PROVE meta'.seq >= meta.seq
      OBVIOUS
    <2>1. s \in Snapshots /\ meta' = s /\ Advances(s)
      BY DEF LoaderInv, CheckedHolds, Project, TypeOK, Loads
    <2>2. s.seq \in Nat /\ meta.seq \in Nat
      BY <2>1, CnsAssumption DEF LoaderInv, TypeOK
    <2> QED BY <2>1, <2>2 DEF Advances
  <1>2. ASSUME NEW i \in Identities, rows[i] # None
        PROVE  /\ rows'[i] # None
               /\ \/ rows'[i].route = rows[i].route
                  \/ /\ rows'[i].route.gen > rows[i].route.gen
                     /\ rows'[i].route.owner = rows[i].route.owner
    <2>1. CASE i \in Named(s)
      <3>1. /\ rows'[i] = [route |-> LastOf(s, i), disabled |-> FALSE]
            /\ LastOf(s, i) \in s.routes /\ LastOf(s, i).identity = i
            /\ Continues(LastOf(s, i)) /\ s \in Snapshots
        BY <2>1, Projected
      <3>2. rows'[i] \in [route : Routes, disabled : BOOLEAN]
        BY <3>1 DEF Routes
      <3>3. rows'[i] # None
        BY <3>2, RowIsNotNone, Zenon
      <3>4. rows'[i].route = LastOf(s, i)
        BY <3>1
      <3> QED BY <1>2, <3>1, <3>3, <3>4 DEF Continues
    <2>2. CASE i \notin Named(s)
      BY <1>2, <2>2, Projected
    <2> QED BY <2>1, <2>2
  <1> QED BY <1>1, <1>2 DEF Advance

LEMMA LoaderInit == Init => LoaderInv
  <1> SUFFICES ASSUME Init PROVE LoaderInv
    OBVIOUS
  <1>1. TypeOK
    BY DEF Init, CnsInit, TypeOK
  <1> QED BY <1>1 DEF Init, CnsInit, LoaderInv, CheckedHolds, ServesLatest

LEMMA LoaderStep ==
    ASSUME OneLoader, LoaderInv, AdapterInv, [Next]_vars
    PROVE  LoaderInv' /\ [Advance]_cnsVars
  <1>1. TypeOK'
    BY InvStep DEF AdapterInv
  <1>2. ASSUME NEW l \in Loaders, Project(l)
        PROVE  CheckedHolds' /\ ServesLatest' /\ Advance
    <2> DEFINE s == loading[l].snap
    <2>1. \A k \in Loaders : loading'[k] = None
      BY <1>2 DEF OneLoader, Project, LoaderInv, TypeOK
    <2>2. CheckedHolds'
      BY <2>1 DEF CheckedHolds
    <2>3. \A i \in Identities :
            (rows'[i] # None /\ ~rows'[i].disabled) =>
                i \in Named(s) /\ rows'[i].route \in s.routes /\ rows'[i].route.identity = i
      <3> SUFFICES ASSUME NEW i \in Identities, rows'[i] # None, ~rows'[i].disabled
                   PROVE  i \in Named(s) /\ rows'[i].route \in s.routes
                          /\ rows'[i].route.identity = i
        OBVIOUS
      <3>1. i \in Named(s)
        BY <1>2, Projected
      <3>2. /\ rows'[i] = [route |-> LastOf(s, i), disabled |-> FALSE]
            /\ LastOf(s, i) \in s.routes /\ LastOf(s, i).identity = i
        BY <1>2, <3>1, Projected
      <3> QED BY <3>1, <3>2
    <2>4. meta' = s /\ s \in Snapshots
      BY <1>2 DEF Project, LoaderInv, TypeOK, Loads
    <2>5. Active' \subseteq s.routes /\ {r.identity : r \in Active'} \subseteq Named(s)
      BY <2>3 DEF Active
    <2>6. ASSUME NEW i \in Named(s) PROVE i \in {r.identity : r \in Active'}
      <3>1. i \in Identities
        BY <2>4 DEF Named, Identities, Routes
      <3>2. /\ rows'[i] = [route |-> LastOf(s, i), disabled |-> FALSE]
            /\ LastOf(s, i) \in s.routes /\ LastOf(s, i).identity = i
        BY <1>2, <3>1, Projected
      <3>3. rows'[i] \in [route : Routes, disabled : BOOLEAN]
        BY <2>4, <3>2 DEF Routes
      <3>4. rows'[i] # None
        BY <3>3, RowIsNotNone, Zenon
      <3>5. ~rows'[i].disabled /\ rows'[i].route = LastOf(s, i)
        BY <3>2
      <3> QED BY <3>1, <3>2, <3>4, <3>5 DEF Active
    <2>7. ServesLatest'
      BY <2>4, <2>5, <2>6 DEF ServesLatest, Named
    <2> QED BY <1>2, <2>2, <2>7, ProjectAdvances
  <1>3. ASSUME UNCHANGED <<meta, rows>>, CheckedHolds' PROVE LoaderInv' /\ [Advance]_cnsVars
    <2>1. ServesLatest'
      BY <1>3 DEF LoaderInv, ServesLatest, Active
    <2>2. Advance
      <3>1. meta # None => meta.seq \in Nat
        BY CnsAssumption DEF LoaderInv, TypeOK
      <3> QED BY <1>3, <3>1 DEF Advance
    <2> QED BY <1>1, <1>3, <2>1, <2>2 DEF LoaderInv
  <1>4. ASSUME UNCHANGED <<meta, rows>>,
               \A l \in Loaders : loading'[l] = loading[l] \/ loading'[l] = None
        PROVE  CheckedHolds'
    BY <1>4 DEF LoaderInv, CheckedHolds, Advances, Continues
  <1>5. ASSUME NEW l \in Loaders, (\E s \in Snapshots : CheckMeta(l, s)) \/ CheckRows(l)
        PROVE  CheckedHolds'
    <2>1. CASE CheckRows(l)
      <3>1. loading'[l] = [snap |-> loading[l].snap, compared |-> TRUE,
                           known |-> {i \in Identities : rows[i] # None}]
        BY <2>1 DEF CheckRows, LoaderInv, TypeOK
      <3>2. Advances(loading[l].snap) /\ \A r \in loading[l].snap.routes : Continues(r)
        BY <2>1 DEF CheckRows, LoaderInv, CheckedHolds
      <3> QED BY <2>1, <3>1, <3>2 DEF OneLoader, CheckRows, CheckedHolds, Advances, Continues
    <2>2. ASSUME NEW s \in Snapshots, CheckMeta(l, s) PROVE CheckedHolds'
      <3>1. loading'[l] = [snap |-> s, known |-> {}, compared |-> FALSE]
        BY <2>2 DEF CheckMeta, LoaderInv, TypeOK
      <3> QED BY <2>2, <3>1 DEF OneLoader, CheckMeta, CheckedHolds, Advances
    <2> QED BY <1>5, <2>1, <2>2
  <1>6. CASE Routing
    <2>1. CASE \E l \in Loaders : Project(l)
      BY <1>1, <1>2, <2>1 DEF LoaderInv
    <2>2. CASE \E l \in Loaders : (\E s \in Snapshots : CheckMeta(l, s)) \/ CheckRows(l)
      BY <1>3, <1>5, <2>2 DEF CheckMeta, CheckRows
    <2>3. CASE \E l \in Loaders : LoadFails(l)
      BY <1>3, <1>4, <2>3 DEF LoadFails, LoaderInv, TypeOK
    <2>4. CASE CnsTick
      BY <1>3, <1>4, <2>4 DEF CnsTick
    <2> QED BY <1>6, <2>1, <2>2, <2>3, <2>4 DEF Routing, CnsNext
  <1>7. CASE UNCHANGED cnsVars
    BY <1>3, <1>4, <1>7 DEF cnsVars
  <1>8. Routing \/ UNCHANGED cnsVars
    BY DEF Next, SendBegin, Journal, Act, ReceiveBegin, Persist, GateSender, GateRecipient, Dies,
           vars
  <1> QED BY <1>6, <1>7, <1>8

\* With one loader at a time the high water of the snapshots never falls, and no route is
\* rolled back, rewritten within its generation or given to another owner.
THEOREM OneLoaderKeepsHighWater == ASSUME OneLoader PROVE Spec => HighWaterKept /\ RoutesAdvance
  <1> DEFINE SeqKept == meta # None => meta'.seq >= meta.seq
             RoutesKept ==
               \A i \in Identities : rows[i] # None =>
                  rows'[i] # None /\ (\/ rows'[i].route = rows[i].route
                                      \/ /\ rows'[i].route.gen > rows[i].route.gen
                                         /\ rows'[i].route.owner = rows[i].route.owner)
  <1>1. AdapterInv /\ LoaderInv /\ [Next]_vars => (AdapterInv /\ LoaderInv)' /\ [Advance]_cnsVars
    BY InvStep, LoaderStep
  <1>2. [Advance]_cnsVars => [SeqKept]_cnsVars /\ [RoutesKept]_cnsVars
    BY DEF Advance
  <1> QED BY <1>1, <1>2, InvInit, LoaderInit, PTL DEF Spec, HighWaterKept, RoutesAdvance

\* With one loader at a time what can be resolved is the last snapshot.
THEOREM OneLoaderServesLatest == ASSUME OneLoader PROVE Spec => []ServesLatest
  <1>1. AdapterInv /\ LoaderInv /\ [Next]_vars => (AdapterInv /\ LoaderInv)'
    BY InvStep, LoaderStep
  <1>2. LoaderInv => ServesLatest
    BY DEF LoaderInv
  <1> QED BY <1>1, <1>2, InvInit, LoaderInit, PTL DEF Spec
=============================================================================
