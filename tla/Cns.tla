-------------------------------- MODULE Cns --------------------------------
(***************************************************************************)
(* The signed route snapshots of federation_cns.py.  An operator curates   *)
(* complete snapshots, the pinned authority signs them, and load_snapshot  *)
(* projects one into a SQLite file after checking it against the high      *)
(* water kept there.  Relays and adapters resolve peers from that file,    *)
(* each time anew.                                                         *)
(*                                                                         *)
(* load_snapshot reads the high water, then the rows, each in a statement  *)
(* of its own, checks the snapshot against both and opens its transaction  *)
(* only then: three steps.  A binding stands for what a generation fixes   *)
(* besides the peer name: home, endpoint, relay key and the two keys of    *)
(* the agent.                                                              *)
(***************************************************************************)
EXTENDS Naturals, FiniteSets

CONSTANTS
    Snapshots,  \* files the operator may place: issuer, seq, issued, expires, routes
    Authority,  \* the pinned issuer
    Loaders,    \* processes that run load_snapshot
    Skew, MaxLife,  \* 300 seconds and a week
    None,
    MaxTime     \* bound: the clock

Routes == UNION {s.routes : s \in Snapshots}
Identities == {r.identity : r \in Routes}

ASSUME CnsAssumption ==
    /\ \A s \in Snapshots : s.seq \in Nat \ {0} /\ s.issued \in Nat /\ s.expires \in Nat
    /\ \A r \in Routes : r.gen \in Nat /\ r.peer \in Nat
    /\ None \notin Snapshots \cup Routes \cup [route : Routes, disabled : BOOLEAN]
    \* A snapshot is a finite list: of an identity it names there is a last peer name.
    /\ \A s \in Snapshots : \A r \in s.routes : \E q \in s.routes :
           q.identity = r.identity
           /\ \A t \in s.routes : t.identity = r.identity => t.peer <= q.peer

VARIABLES
    meta,       \* cns_meta: the snapshot projected last, or None
    rows,       \* cns_routes: a route and its disabled flag, or None
    loading,    \* a loader between its reads and its transaction: what it loads, the
                \* identities it found, and whether it compared the rows yet
    now

Loads == [snap : Snapshots, known : SUBSET Identities, compared : BOOLEAN]
cnsVars == <<meta, rows, loading, now>>

CnsInit ==
    /\ meta = None
    /\ rows = [i \in Identities |-> None]
    /\ loading = [l \in Loaders |-> None]
    /\ now = 0

\* validate_snapshot_shape refuses an empty list and a repeated (identity, peer),
\* so a snapshot may still name an identity or a peer twice.
WellFormed(s) ==
    /\ s.routes # {}
    /\ \A r, q \in s.routes : r.identity = q.identity /\ r.peer = q.peer => r = q

\* verify_snapshot: the pinned issuer and its signature over the canonical bytes.
Verified(s) == s.issuer = Authority

\* check_freshness
Fresh(s) ==
    /\ s.issued <= now + Skew
    /\ s.issued < s.expires /\ s.expires - s.issued <= MaxLife
    /\ s.expires + Skew > now

Advances(s) == meta # None => s.seq > meta.seq

\* A route against its recorded generation.
Continues(r) ==
    LET row == rows[r.identity] IN
    row # None =>
        \/ r = row.route
        \/ (r.gen > row.route.gen /\ r.owner = row.route.owner)

\* load_snapshot up to the read of cns_meta; a refusal writes nothing, and neither
\* does the same snapshot again.
CheckMeta(l, s) ==
    /\ loading[l] = None
    /\ WellFormed(s) /\ Verified(s) /\ Fresh(s)
    /\ Advances(s)
    /\ loading' = [loading EXCEPT ![l] = [snap |-> s, known |-> {}, compared |-> FALSE]]
    /\ UNCHANGED <<meta, rows, now>>

\* The read of cns_routes and what follows it up to BEGIN IMMEDIATE.
CheckRows(l) ==
    /\ loading[l] # None /\ ~loading[l].compared
    /\ \A r \in loading[l].snap.routes : Continues(r)
    /\ loading' = [loading EXCEPT
           ![l] = [snap |-> loading[l].snap, known |-> {i \in Identities : rows[i] # None},
                   compared |-> TRUE]]
    /\ UNCHANGED <<meta, rows, now>>

\* Routes are written in the order of (identity, peer): the last of an identity stays.
LastOf(s, i) ==
    CHOOSE r \in s.routes : r.identity = i
        /\ \A q \in s.routes : q.identity = i => q.peer <= r.peer
Named(s) == {r.identity : r \in s.routes}

\* Omission disables; the row stays as the high water.
Omitted(s, known, i) ==
    IF i \in known /\ rows[i] # None THEN [rows[i] EXCEPT !.disabled = TRUE] ELSE rows[i]

Project(l) ==
    LET s == loading[l].snap IN
    /\ loading[l] # None /\ loading[l].compared
    /\ meta' = s
    /\ rows' = [i \in Identities |->
           IF i \in Named(s) THEN [route |-> LastOf(s, i), disabled |-> FALSE]
           ELSE Omitted(s, loading[l].known, i)]
    /\ loading' = [loading EXCEPT ![l] = None]
    /\ UNCHANGED now

\* A row refuses the snapshot, the loader dies, or its transaction is rolled back.
LoadFails(l) ==
    /\ loading[l] # None
    /\ loading' = [loading EXCEPT ![l] = None]
    /\ UNCHANGED <<meta, rows, now>>

CnsTick ==
    /\ now < MaxTime
    /\ now' = now + 1
    /\ UNCHANGED <<meta, rows, loading>>

CnsNext ==
    \/ \E l \in Loaders : \/ \E s \in Snapshots : CheckMeta(l, s)
                          \/ CheckRows(l) \/ Project(l) \/ LoadFails(l)
    \/ CnsTick

-----------------------------------------------------------------------------
(* Resolution.                                                             *)

Active == {rows[i].route : i \in {j \in Identities : rows[j] # None /\ ~rows[j].disabled}}

\* active_routes keeps one row per peer name, so resolve_route finds one match
\* even where several identities hold the name.
Resolves(peer, r) == r \in Active /\ r.peer = peer

\* "CNS snapshot state is monotonic" (federation-candidate-679.md): no snapshot is
\* projected over a later one.  Two loaders that check before either projects break it.
HighWaterKept ==
    [][meta # None => meta'.seq >= meta.seq]_cnsVars

\* The rollback checks of _project: a route once projected is replaced by none of an
\* earlier generation, by another of its own, or by one of another owner.
RoutesAdvance ==
    [][\A i \in Identities : rows[i] # None =>
          rows'[i] # None /\ (\/ rows'[i].route = rows[i].route
                              \/ /\ rows'[i].route.gen > rows[i].route.gen
                                 /\ rows'[i].route.owner = rows[i].route.owner)]_cnsVars

=============================================================================
