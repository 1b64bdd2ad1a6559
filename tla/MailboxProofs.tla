--------------------------- MODULE MailboxProofs ---------------------------
(***************************************************************************)
(* Deliverable mail has a consent that stands now, a receipt never goes    *)
(* back, nothing accepted is lost silently and a queue keeps to its cap,   *)
(* for every number of peers, keys, messages and requests under way.       *)
(***************************************************************************)
EXTENDS Mailbox, FiniteSetTheorems, TLAPS

(* Whose keys a pair joins.                                                *)
Joins(p, n, r) ==
  n # r /\ \E x \in KeysOf[n], y \in KeysOf[r] : p = {x, y}

KeysOwned == \A n \in Name : key[n] \in KeysOf[n]

(* The pair a row was stored under is a pair of the names beside it,       *)
(* rotated or not; what a request has read so far is one or half of one.   *)
PartlyJoins(s, n, r) ==
  \/ Joins(s, n, r)
  \/ n # r /\ \E x \in KeysOf[n] : s = {x}
PairsJoinNames ==
  /\ \A m \in Msg : Stored(m) => Joins(rows[m].pair, rows[m].from, rows[m].to)
  /\ \A q \in sends : PartlyJoins(q.pair, q.from, q.to)
  /\ \A q \in revokes : PartlyJoins(q.pair, q.peer, q.by)

BaseInv == TypeOK /\ KeysOwned /\ PairsJoinNames
IInv == BaseInv /\ LiveMailHasConsent

(* What a step of the mailbox does to the two: consent may end under it in *)
(* other ways than by a revoke, the names and pairs still hold.            *)
MailKept == LiveMailHasConsent => LiveMailHasConsent'
Kept == BaseInv' /\ MailKept

-----------------------------------------------------------------------------
(* One key is no pair, so what was read halfway cannot be acted on.        *)
LEMMA PairIsTwo ==
  /\ \A n, r \in Name : \A s \in Pair : PartlyJoins(s, n, r) => Joins(s, n, r)
  /\ \A s : ~(s \in Pair /\ s \in Half)
<1>1. \A s \in Pair : \E x, y \in s : x # y
  <2> SUFFICES ASSUME NEW s \in Pair PROVE \E x, y \in s : x # y
    OBVIOUS
  <2>1. PICK n \in Name, r \in Name :
               n # r /\ \E x \in KeysOf[n], y \in KeysOf[r] : s = {x, y}
    BY DEF Pair
  <2>2. PICK x \in KeysOf[n], y \in KeysOf[r] : s = {x, y}
    BY <2>1
  <2>3. x # y
    BY <2>1, <2>2, MailboxAssumption
  <2> QED BY <2>2, <2>3
<1> QED BY <1>1 DEF PartlyJoins, Half

(* What the first read notes, and what the second makes of it.             *)
LEMMA ReadJoins ==
  ASSUME KeysOwned, NEW n \in Name, NEW r \in Name, n # r
  PROVE  /\ {key[n]} \in Half /\ PartlyJoins({key[n]}, n, r)
         /\ \A s \in Half : PartlyJoins(s, n, r) =>
              /\ s \union {key[r]} \in Pair /\ PartlyJoins(s \union {key[r]}, n, r)
<1>1. key[n] \in KeysOf[n] /\ key[r] \in KeysOf[r]
  BY DEF KeysOwned
<1>2. KeysOf[n] \subseteq Ident /\ KeysOf[r] \subseteq Ident
  BY MailboxAssumption
<1>3. {key[n]} \in Half /\ PartlyJoins({key[n]}, n, r)
  BY <1>1, <1>2 DEF Half, PartlyJoins
<1>4. ASSUME NEW s \in Half, PartlyJoins(s, n, r)
      PROVE  s \union {key[r]} \in Pair /\ PartlyJoins(s \union {key[r]}, n, r)
  <2>1. ~Joins(s, n, r)
    BY PairIsTwo, <1>2 DEF Joins, Pair
  <2>2. PICK x \in KeysOf[n] : s = {x}
    BY <1>4, <2>1 DEF PartlyJoins
  <2>3. s \union {key[r]} = {x, key[r]} /\ x \in Ident /\ key[r] \in Ident
    BY <1>1, <1>2, <2>2
  <2> QED BY <1>1, <2>2, <2>3 DEF Pair, PartlyJoins, Joins
<1> QED BY <1>3, <1>4

(* No peer holds another peer's key, so a pair joins only two names.       *)
LEMMA OnePairOfNames ==
  \A a, b, c, d \in Name : \A p : Joins(p, a, b) /\ Joins(p, c, d) =>
    (a = c /\ b = d) \/ (a = d /\ b = c)
<1> SUFFICES ASSUME NEW a \in Name, NEW b \in Name, NEW c \in Name, NEW d \in Name, NEW p,
                    Joins(p, a, b), Joins(p, c, d)
             PROVE  (a = c /\ b = d) \/ (a = d /\ b = c)
  OBVIOUS
<1>1. PICK x \in KeysOf[a], y \in KeysOf[b] : p = {x, y}
  BY DEF Joins
<1>2. PICK u \in KeysOf[c], v \in KeysOf[d] : p = {u, v}
  BY DEF Joins
<1>3. a # b /\ c # d
  BY DEF Joins
<1>4. \A n, r \in Name : \A k : k \in KeysOf[n] /\ k \in KeysOf[r] => n = r
  BY MailboxAssumption
<1>5. (x = u /\ y = v) \/ (x = v /\ y = u) \/ x = y \/ u = v
  BY <1>1, <1>2
<1>6. x # y /\ u # v
  BY <1>3, <1>4
<1> QED BY <1>4, <1>5, <1>6

LEMMA RowTyped ==
  ASSUME TypeOK, NEW m \in Msg, Stored(m)
  PROVE  rows[m] \in Row
BY DEF TypeOK, Stored, NoRow

-----------------------------------------------------------------------------
(* The consent variables keep their types, and no proposal, accept or      *)
(* lapse takes a pair out of the active state.                             *)
LEMMA ConsentEffect ==
  ASSUME TypeOK, ConsentStep
  PROVE  /\ C!ConsentTypeOK'
         /\ \A p \in Pair : status[p] = "active" => status'[p] = "active"
<1> USE DEF TypeOK, C!ConsentTypeOK, C!Status
<1>1. PICK p \in Pair :
        \/ gen' = gen /\ \E l \in Link : C!Propose(p, l)
        \/ C!Activate(p)
        \/ status[p] = "pending" /\ C!Lapse({p})
  BY DEF ConsentStep
<1>2. ASSUME gen' = gen, NEW l \in Link, C!Propose(p, l)
      PROVE  /\ C!ConsentTypeOK'
             /\ \A r \in Pair : status[r] = "active" => status'[r] = "active"
  BY <1>2 DEF C!Propose
<1>3. CASE C!Activate(p)
  BY <1>3 DEF C!Activate
<1>4. CASE status[p] = "pending" /\ C!Lapse({p})
  BY <1>4 DEF C!Lapse
<1> QED BY <1>1, <1>2, <1>3, <1>4

LEMMA EndEffect ==
  ASSUME TypeOK, NEW p \in Pair, C!End(p)
  PROVE  /\ C!ConsentTypeOK'
         /\ \A r \in Pair : r # p => status'[r] = status[r]
<1> USE DEF TypeOK, C!ConsentTypeOK, C!Status
<1>1. \A l : l \in {via[p]} \ {NoLink} => l \in Link
  OBVIOUS
<1>2. {<<l, p>> : l \in {via[p]} \ {NoLink}} \subseteq Link \X Pair
  BY <1>1
<1> QED BY <1>2 DEF C!End

-----------------------------------------------------------------------------
(* What a step may do to a row without touching its consent: leave it, or  *)
(* keep its sender, recipient and pair and make it no more alive.          *)
SameMail(m) ==
  \/ rows'[m] = rows[m]
  \/ /\ Stored(m) /\ rows'[m] \in Row
     /\ rows'[m].from = rows[m].from /\ rows'[m].to = rows[m].to
     /\ rows'[m].pair = rows[m].pair
     /\ Live(m)' => Live(m)

(* Marking, acking, burying and deleting are of this kind.                 *)
LEMMA RowChanges ==
  ASSUME TypeOK, NEW m \in Msg, Stored(m)
  PROVE  LET r == rows[m] IN
         /\ [r EXCEPT !.collected = TRUE] \in Row
         /\ [r EXCEPT !.acked = TRUE, !.ackedAt = now] \in Row
         /\ [r EXCEPT !.expires = now, !.dead = TRUE] \in Row
         /\ [r EXCEPT !.stored = FALSE] \in Row
<1>1. rows[m] \in Row /\ now \in Nat
  BY RowTyped DEF TypeOK
<1> QED BY <1>1 DEF Row

LEMMA SameMailKeeps ==
  ASSUME BaseInv, now' \in Nat, now' >= now,
         \A m \in Msg : SameMail(m),
         sends' \subseteq sends, revokes' \subseteq revokes
  PROVE  /\ \A m \in Msg : rows'[m] \in Row \union {NoRow}
         /\ PairsJoinNames'
         /\ (\A p \in Pair : status[p] = "active" => status'[p] = "active") => MailKept
<1>1. \A m \in Msg : rows'[m] \in Row \union {NoRow}
  BY DEF SameMail, BaseInv, TypeOK
<1>2. ASSUME NEW m \in Msg, Stored(m)'
      PROVE  /\ Stored(m) /\ rows'[m].from = rows[m].from
             /\ rows'[m].to = rows[m].to /\ rows'[m].pair = rows[m].pair
  BY <1>2 DEF SameMail, Stored
<1>3. PairsJoinNames'
  <2>1. ASSUME NEW m \in Msg, Stored(m)'
        PROVE  Joins(rows'[m].pair, rows'[m].from, rows'[m].to)
    BY <2>1, <1>2 DEF BaseInv, PairsJoinNames
  <2>2. \A q \in sends' : PartlyJoins(q.pair, q.from, q.to)
    BY DEF BaseInv, PairsJoinNames
  <2>3. \A q \in revokes' : PartlyJoins(q.pair, q.peer, q.by)
    BY DEF BaseInv, PairsJoinNames
  <2> QED BY <2>1, <2>2, <2>3 DEF PairsJoinNames, Joins
<1>4. ASSUME NEW m \in Msg, Live(m)' PROVE Live(m)
  <2>1. Stored(m)' /\ Stored(m)
    BY <1>2, <1>4 DEF Live, Unacked
  <2>2. rows[m] \in Row /\ now \in Nat
    BY <2>1, RowTyped DEF BaseInv, TypeOK
  <2>3. rows'[m] = rows[m] => Live(m)
    BY <1>4, <2>2 DEF Live, Unacked, Stored, Row
  <2> QED BY <1>4, <2>3 DEF SameMail
<1>5. ASSUME \A p \in Pair : status[p] = "active" => status'[p] = "active"
      PROVE  MailKept
  <2> SUFFICES ASSUME LiveMailHasConsent, NEW m \in Msg, Live(m)'
               PROVE  status'[rows'[m].pair] = "active"
    BY DEF MailKept, LiveMailHasConsent
  <2>1. Live(m) /\ Stored(m) /\ rows'[m].pair = rows[m].pair
    BY <1>2, <1>4 DEF Live, Unacked
  <2>2. rows[m].pair \in Pair
    BY <2>1, RowTyped DEF BaseInv, Row
  <2> QED BY <1>5, <2>1, <2>2 DEF LiveMailHasConsent
<1> QED BY <1>1, <1>3, <1>5

-----------------------------------------------------------------------------
(* One lemma per kind of step. *)

LEMMA QuietStep ==
  ASSUME BaseInv, UNCHANGED <<consent, rows>>, now' \in Nat, now' >= now, key' = key,
         held' = held, seen' \in [Name -> SUBSET Msg], polls' \subseteq Poll,
         sends' \subseteq sends, revokes' \subseteq revokes
  PROVE  Kept
<1>1. \A m \in Msg : SameMail(m)
  BY DEF SameMail
<1>2. \A r \in Pair : status[r] = "active" => status'[r] = "active"
  BY DEF consent
<1>3. PairsJoinNames' /\ MailKept
  BY <1>1, <1>2, SameMailKeeps
<1>4. TypeOK' /\ KeysOwned'
  BY DEF BaseInv, TypeOK, KeysOwned, consent, C!ConsentTypeOK
<1> QED BY <1>3, <1>4 DEF Kept, BaseInv

LEMMA QuietSteps ==
  ASSUME BaseInv,
         \/ Tick \/ Restart \/ UNCHANGED vars
         \/ \E q \in sends : SendRefuse(q)
         \/ \E n \in Name : PollFetch(n)
         \/ \E o \in polls : PollAnswer(o) \/ PollLost(o)
         \/ \E q \in revokes : RevokeNothing(q)
  PROVE  Kept
<1> USE DEF consent, keys, requests
<1>1. /\ now \in Nat /\ seen \in [Name -> SUBSET Msg] /\ polls \subseteq Poll
      /\ sends \subseteq Send /\ revokes \subseteq RevokeReq
  BY DEF BaseInv, TypeOK
<1>2. CASE Tick
  BY <1>1, <1>2, QuietStep DEF Tick
<1>3. CASE Restart
  BY <1>1, <1>3, QuietStep DEF Restart
<1>4. CASE UNCHANGED vars
  BY <1>1, <1>4, QuietStep DEF vars
<1>5. ASSUME NEW q \in sends, SendRefuse(q) PROVE Kept
  BY <1>1, <1>5, QuietStep DEF SendRefuse
<1>6. ASSUME NEW n \in Name, PollFetch(n) PROVE Kept
  <2>1. [to |-> n, ids |-> LiveFor(n), marked |-> FALSE] \in Poll
    BY DEF Poll, LiveFor
  <2>2. polls' \subseteq Poll
    BY <1>1, <1>6, <2>1 DEF PollFetch
  <2> QED BY <1>1, <1>6, <2>2, QuietStep DEF PollFetch
<1>7. ASSUME NEW o \in polls, PollAnswer(o) PROVE Kept
  <2>1. o.ids \subseteq Msg
    BY <1>1 DEF Poll
  <2>2. seen' \in [Name -> SUBSET Msg] /\ polls' \subseteq Poll
    BY <1>1, <1>7, <2>1 DEF PollAnswer
  <2> QED BY <1>1, <1>7, <2>2, QuietStep DEF PollAnswer
<1>8. ASSUME NEW o \in polls, PollLost(o) PROVE Kept
  BY <1>1, <1>8, QuietStep DEF PollLost
<1>9. ASSUME NEW q \in revokes, RevokeNothing(q) PROVE Kept
  BY <1>1, <1>9, QuietStep DEF RevokeNothing
<1> QED BY <1>2, <1>3, <1>4, <1>5, <1>6, <1>7, <1>8, <1>9

LEMMA KeyStep ==
  ASSUME BaseInv, NEW n \in Name, NEW k \in Ident, RotateKey(n, k)
  PROVE  Kept
<1> USE DEF consent, keys, requests
<1>1. \A m \in Msg : SameMail(m)
  BY DEF SameMail, RotateKey
<1>2. PairsJoinNames' /\ MailKept
  BY <1>1, SameMailKeeps DEF RotateKey, BaseInv, TypeOK
<1>3. TypeOK' /\ KeysOwned'
  BY DEF RotateKey, BaseInv, TypeOK, KeysOwned, C!ConsentTypeOK
<1> QED BY <1>2, <1>3 DEF Kept, BaseInv

LEMMA ConsentMoves == ASSUME BaseInv, ConsentStep PROVE Kept
<1>1. /\ UNCHANGED <<now, key, held, rows, sends, revokes, polls, seen>>
      /\ C!ConsentTypeOK'
      /\ \A r \in Pair : status[r] = "active" => status'[r] = "active"
  BY ConsentEffect DEF ConsentStep, keys, requests, BaseInv
<1>2. \A m \in Msg : SameMail(m)
  BY <1>1 DEF SameMail
<1>3. PairsJoinNames' /\ MailKept
  BY <1>1, <1>2, SameMailKeeps DEF BaseInv, TypeOK
<1>4. TypeOK' /\ KeysOwned'
  BY <1>1 DEF BaseInv, TypeOK, KeysOwned
<1> QED BY <1>3, <1>4 DEF Kept, BaseInv

(* Marking, acking and deleting change rows and nothing else that counts.  *)
LEMMA RowStep ==
  ASSUME BaseInv, UNCHANGED <<now, consent, keys, sends, revokes, seen>>, polls' \subseteq Poll,
         rows' \in [Msg -> Row \union {NoRow}], \A m \in Msg : SameMail(m)
  PROVE  Kept
<1> USE DEF consent, keys
<1>1. \A r \in Pair : status[r] = "active" => status'[r] = "active"
  OBVIOUS
<1>2. PairsJoinNames' /\ MailKept
  BY <1>1, SameMailKeeps DEF BaseInv, TypeOK
<1>3. TypeOK' /\ KeysOwned'
  BY DEF BaseInv, TypeOK, KeysOwned, C!ConsentTypeOK
<1> QED BY <1>2, <1>3 DEF Kept, BaseInv

LEMMA MarkStep == ASSUME BaseInv, NEW o \in polls, PollMark(o) PROVE Kept
<1> USE DEF consent, keys
<1>1. /\ rows' = [m \in Msg |-> IF m \in Markable(o) THEN [rows[m] EXCEPT !.collected = TRUE]
                                ELSE rows[m]]
      /\ rows \in [Msg -> Row \union {NoRow}]
  BY DEF PollMark, BaseInv, TypeOK
<1>2. ASSUME NEW m \in Msg PROVE SameMail(m) /\ rows'[m] \in Row \union {NoRow}
  <2>1. CASE m \in Markable(o)
    <3>1. Stored(m)
      BY <2>1 DEF Markable
    <3>2. rows[m] \in Row /\ [rows[m] EXCEPT !.collected = TRUE] \in Row
      BY <3>1, RowTyped, RowChanges DEF BaseInv
    <3>3. rows'[m] = [rows[m] EXCEPT !.collected = TRUE] /\ now' = now
      BY <1>1, <2>1 DEF PollMark
    <3> QED BY <3>1, <3>2, <3>3 DEF SameMail, Live, Unacked, Stored, Row
  <2>2. CASE m \notin Markable(o)
    BY <1>1, <2>2 DEF SameMail
  <2> QED BY <2>1, <2>2
<1>3. [o EXCEPT !.marked = TRUE] \in Poll /\ polls \subseteq Poll
  BY DEF BaseInv, TypeOK, Poll
<1>4. polls' \subseteq Poll
  BY <1>3 DEF PollMark
<1> QED BY <1>1, <1>2, <1>4, RowStep DEF PollMark

LEMMA AckStep == ASSUME BaseInv, NEW n \in Name, NEW k \in Msg, Ack(n, k) PROVE Kept
<1> USE DEF consent, keys, requests
<1> DEFINE row == [rows[k] EXCEPT !.acked = TRUE, !.ackedAt = now]
<1>1. rows' = [rows EXCEPT ![k] = row] /\ rows \in [Msg -> Row \union {NoRow}] /\ now' = now
  BY DEF Ack, BaseInv, TypeOK
<1>2. Stored(k) /\ rows[k] \in Row /\ row \in Row
  BY RowTyped, RowChanges DEF Ack, Unacked, BaseInv
<1>3. row.stored = rows[k].stored /\ row.from = rows[k].from /\ row.to = rows[k].to
        /\ row.pair = rows[k].pair /\ row.acked
  BY <1>2 DEF Row
<1> HIDE DEF row
<1>4. SameMail(k) /\ rows'[k] \in Row
  BY <1>1, <1>2, <1>3 DEF SameMail, Live, Unacked
<1>5. \A m \in Msg : SameMail(m)
  BY <1>1, <1>4 DEF SameMail
<1>6. rows' \in [Msg -> Row \union {NoRow}]
  BY <1>1, <1>2
<1> QED BY <1>5, <1>6, RowStep DEF Ack, BaseInv, TypeOK

LEMMA SweepStep == ASSUME BaseInv, Sweep PROVE Kept
<1> USE DEF consent, keys, requests
<1>1. PICK gone \in SUBSET Msg :
        /\ \A m \in gone : Stored(m)
        /\ rows' = [m \in Msg |-> IF m \in gone THEN [rows[m] EXCEPT !.stored = FALSE]
                                  ELSE rows[m]]
        /\ UNCHANGED <<now, consent, keys, requests, seen>>
  <2>1. PICK S \in SUBSET DeadLetters :
          LET gone == {m \in Msg : Resolved(m) \/ Retired(m)} \union S IN
          /\ rows' = [m \in Msg |-> IF m \in gone THEN [rows[m] EXCEPT !.stored = FALSE]
                                    ELSE rows[m]]
          /\ UNCHANGED <<now, consent, keys, requests, seen>>
    BY DEF Sweep
  <2> DEFINE gone == {m \in Msg : Resolved(m) \/ Retired(m)} \union S
  <2>2. gone \in SUBSET Msg /\ \A m \in gone : Stored(m)
    BY DEF DeadLetters, Resolved, Expired, Retired, Unacked
  <2> QED BY <2>1, <2>2
<1>2. rows \in [Msg -> Row \union {NoRow}] /\ polls \subseteq Poll
  BY DEF BaseInv, TypeOK
<1>3. ASSUME NEW m \in Msg PROVE SameMail(m) /\ rows'[m] \in Row \union {NoRow}
  <2>1. CASE m \in gone
    <3>1. Stored(m) /\ rows[m] \in Row /\ [rows[m] EXCEPT !.stored = FALSE] \in Row
      BY <1>1, <2>1, RowTyped, RowChanges DEF BaseInv
    <3>2. rows'[m] = [rows[m] EXCEPT !.stored = FALSE]
      BY <1>1, <2>1
    <3> QED BY <3>1, <3>2 DEF SameMail, Live, Unacked, Stored, Row
  <2>2. CASE m \notin gone
    BY <1>1, <1>2, <2>2 DEF SameMail
  <2> QED BY <2>1, <2>2
<1> QED BY <1>1, <1>2, <1>3, RowStep

(* Both requests note a pair of the names they speak of, key by key.       *)
LEMMA ReadSteps ==
  ASSUME BaseInv,
         \/ \E n, r \in Name, m \in Msg, ttl \in Ttls : SendRead(n, r, m, ttl)
         \/ \E q \in sends : SendReadTo(q)
         \/ \E n, r \in Name : RevokeRead(n, r)
         \/ \E q \in revokes : RevokeReadBy(q)
  PROVE  Kept
<1> USE DEF consent, keys
<1> DEFINE Known ==
      /\ sends' \subseteq Send /\ revokes' \subseteq RevokeReq
      /\ \A q \in sends' : PartlyJoins(q.pair, q.from, q.to)
      /\ \A q \in revokes' : PartlyJoins(q.pair, q.peer, q.by)
<1>1. UNCHANGED <<now, consent, keys, rows, polls, seen>>
  BY DEF SendRead, SendReadTo, RevokeRead, RevokeReadBy, RevokeReadBy
<1>2. Known
  <2>1. /\ sends \subseteq Send /\ revokes \subseteq RevokeReq
        /\ \A q \in sends : PartlyJoins(q.pair, q.from, q.to)
        /\ \A q \in revokes : PartlyJoins(q.pair, q.peer, q.by)
    BY DEF BaseInv, TypeOK, PairsJoinNames
  <2>2. ASSUME NEW n \in Name, NEW r \in Name, NEW m \in Msg, NEW ttl \in Ttls,
               SendRead(n, r, m, ttl)
        PROVE  Known
    <3> DEFINE new == [from |-> n, to |-> r, id |-> m, ttl |-> ttl, pair |-> {key[n]}]
    <3>1. sends' = sends \union {new} /\ revokes' = revokes /\ n # r
      BY <2>2 DEF SendRead
    <3>2. {key[n]} \in Half /\ PartlyJoins({key[n]}, n, r)
      BY <3>1, ReadJoins DEF BaseInv
    <3>3. new \in Send /\ new.pair = {key[n]} /\ new.from = n /\ new.to = r
      BY <3>2, MailboxAssumption DEF Send
    <3> HIDE DEF new
    <3> QED BY <2>1, <3>1, <3>2, <3>3
  <2>3. ASSUME NEW n \in Name, NEW r \in Name, RevokeRead(n, r) PROVE Known
    <3> DEFINE new == [by |-> n, peer |-> r, pair |-> {key[r]}]
    <3>1. revokes' = revokes \union {new} /\ sends' = sends /\ n # r
      BY <2>3 DEF RevokeRead
    <3>2. {key[r]} \in Half /\ PartlyJoins({key[r]}, r, n)
      BY <3>1, ReadJoins DEF BaseInv
    <3>3. new \in RevokeReq /\ new.pair = {key[r]} /\ new.by = n /\ new.peer = r
      BY <3>2 DEF RevokeReq
    <3> HIDE DEF new
    <3> QED BY <2>1, <3>1, <3>2, <3>3
  <2>4. ASSUME NEW q \in sends, SendReadTo(q) PROVE Known
    <3> DEFINE new == [q EXCEPT !.pair = @ \union {key[q.to]}]
    <3>1. sends' = (sends \ {q}) \union {new} /\ revokes' = revokes /\ q.pair \in Half
      BY <2>4 DEF SendReadTo
    <3>2. q \in Send /\ q.from \in Name /\ q.to \in Name /\ PartlyJoins(q.pair, q.from, q.to)
      BY <2>1 DEF Send
    <3>3. q.pair \union {key[q.to]} \in Pair
            /\ PartlyJoins(q.pair \union {key[q.to]}, q.from, q.to)
      <4>1. q.from # q.to
        BY <3>2 DEF PartlyJoins, Joins
      <4> QED BY <3>1, <3>2, <4>1, ReadJoins DEF BaseInv
    <3>4. /\ new \in Send /\ new.pair = q.pair \union {key[q.to]}
          /\ new.from = q.from /\ new.to = q.to
      BY <3>2, <3>3 DEF Send
    <3> HIDE DEF new
    <3> QED BY <2>1, <3>1, <3>3, <3>4
  <2>5. ASSUME NEW q \in revokes, RevokeReadBy(q) PROVE Known
    <3> DEFINE new == [q EXCEPT !.pair = @ \union {key[q.by]}]
    <3>1. revokes' = (revokes \ {q}) \union {new} /\ sends' = sends /\ q.pair \in Half
      BY <2>5 DEF RevokeReadBy
    <3>2. /\ q \in RevokeReq /\ q.by \in Name /\ q.peer \in Name
          /\ PartlyJoins(q.pair, q.peer, q.by)
      BY <2>1 DEF RevokeReq
    <3>3. q.pair \union {key[q.by]} \in Pair
            /\ PartlyJoins(q.pair \union {key[q.by]}, q.peer, q.by)
      <4>1. q.peer # q.by
        BY <3>2 DEF PartlyJoins, Joins
      <4> QED BY <3>1, <3>2, <4>1, ReadJoins DEF BaseInv
    <3>4. /\ new \in RevokeReq /\ new.pair = q.pair \union {key[q.by]}
          /\ new.by = q.by /\ new.peer = q.peer
      BY <3>2, <3>3 DEF RevokeReq
    <3> HIDE DEF new
    <3> QED BY <2>1, <3>1, <3>3, <3>4
  <2> QED BY <2>2, <2>3, <2>4, <2>5
<1>3. TypeOK' /\ KeysOwned'
  BY <1>1, <1>2 DEF BaseInv, TypeOK, KeysOwned, C!ConsentTypeOK
<1>4. PairsJoinNames'
  BY <1>1, <1>2 DEF BaseInv, PairsJoinNames, Stored, Joins
<1>5. MailKept
  BY <1>1 DEF MailKept, LiveMailHasConsent, Live, Unacked, Stored
<1> QED BY <1>3, <1>4, <1>5 DEF Kept, BaseInv

(* The gate and the insert are one transaction: the pair the row is stored *)
(* under is active when it is stored.                                      *)
LEMMA AcceptStep == ASSUME BaseInv, NEW q \in sends, SendAccept(q) PROVE Kept
<1> USE DEF consent, keys
<1> DEFINE row == [stored |-> TRUE, from |-> q.from, to |-> q.to, pair |-> q.pair, sent |-> now,
                   expires |-> now + q.ttl, acked |-> FALSE, ackedAt |-> 0,
                   collected |-> FALSE, dead |-> FALSE]
<1>1. /\ rows' = [rows EXCEPT ![q.id] = row] /\ sends' = sends \ {q}
      /\ UNCHANGED <<now, consent, keys, revokes, polls, seen>>
      /\ status[q.pair] = "active"
  BY DEF SendAccept
<1>2. q \in Send /\ PartlyJoins(q.pair, q.from, q.to) /\ q.pair \in Pair /\ now \in Nat
  BY DEF BaseInv, TypeOK, PairsJoinNames, SendAccept
<1>3. q.id \in Msg /\ q.ttl \in Nat /\ q.from \in Name /\ q.to \in Name
  BY <1>2, MailboxAssumption DEF Send
<1>10. Joins(q.pair, q.from, q.to)
  BY <1>2, <1>3, PairIsTwo
<1>4. row \in Row /\ row.pair = q.pair /\ row.from = q.from /\ row.to = q.to
  BY <1>2, <1>3 DEF Row
<1> HIDE DEF row
<1>5. rows \in [Msg -> Row \union {NoRow}] /\ rows' \in [Msg -> Row \union {NoRow}]
  BY <1>1, <1>3, <1>4 DEF BaseInv, TypeOK
<1>6. \A m \in Msg : rows'[m] = IF m = q.id THEN row ELSE rows[m]
  BY <1>1, <1>5
<1>7. TypeOK' /\ KeysOwned'
  BY <1>1, <1>5 DEF BaseInv, TypeOK, KeysOwned, C!ConsentTypeOK
<1>8. PairsJoinNames'
  <2>1. ASSUME NEW m \in Msg, Stored(m)'
        PROVE  Joins(rows'[m].pair, rows'[m].from, rows'[m].to)
    BY <2>1, <1>10, <1>4, <1>6 DEF BaseInv, PairsJoinNames, Stored
  <2>2. /\ \A o \in sends' : PartlyJoins(o.pair, o.from, o.to)
        /\ \A o \in revokes' : PartlyJoins(o.pair, o.peer, o.by)
    BY <1>1 DEF BaseInv, PairsJoinNames
  <2> QED BY <2>1, <2>2 DEF PairsJoinNames, Joins
<1>9. MailKept
  <2> SUFFICES ASSUME LiveMailHasConsent, NEW m \in Msg, Live(m)'
               PROVE  status'[rows'[m].pair] = "active"
    BY DEF MailKept, LiveMailHasConsent
  <2>1. CASE m = q.id
    BY <1>1, <1>4, <1>6, <2>1
  <2>2. CASE m # q.id
    BY <1>1, <1>6, <2>2 DEF LiveMailHasConsent, Live, Unacked, Stored
  <2> QED BY <2>1, <2>2
<1> QED BY <1>7, <1>8, <1>9 DEF Kept, BaseInv

(* A revocation buries all live mail between its two names, and the mail   *)
(* of its pair is mail between those names.                                *)
LEMMA RevokeBuries ==
  ASSUME BaseInv, NEW q \in revokes, RevokeCommit(q), NEW m \in Msg, Live(m)'
  PROVE  Live(m) /\ rows'[m] = rows[m] /\ rows[m].pair \in Pair /\ rows[m].pair # q.pair
<1>1. /\ rows' = [k \in Msg |-> IF k \in Doomed(q.by, q.peer) THEN Buried(rows[k])
                                ELSE rows[k]]
      /\ now' = now
  BY DEF RevokeCommit
<1>2. q.by \in Name /\ q.peer \in Name /\ Joins(q.pair, q.peer, q.by) /\ now \in Nat
  BY PairIsTwo DEF BaseInv, TypeOK, RevokeReq, PairsJoinNames, RevokeCommit
<1>3. m \notin Doomed(q.by, q.peer)
  <2> SUFFICES ASSUME m \in Doomed(q.by, q.peer) PROVE FALSE
    OBVIOUS
  <2>1. rows[m] \in Row /\ rows'[m] = Buried(rows[m])
    BY <1>1, RowTyped DEF BaseInv, Doomed, Live, Unacked
  <2>2. rows'[m].expires = now
    BY <2>1 DEF Buried, Row
  <2> QED BY <1>1, <1>2, <2>2 DEF Live
<1>4. rows'[m] = rows[m] /\ Live(m) /\ Stored(m)
  BY <1>1, <1>3 DEF Live, Unacked, Stored
<1>5. Joins(rows[m].pair, rows[m].from, rows[m].to) /\ rows[m] \in Row
  BY <1>4, RowTyped DEF BaseInv, PairsJoinNames
<1>6. rows[m].from \in Name /\ rows[m].to \in Name /\ rows[m].pair \in Pair
  BY <1>5 DEF Row
<1>7. rows[m].pair # q.pair
  <2> SUFFICES ASSUME rows[m].pair = q.pair PROVE FALSE
    OBVIOUS
  <2> DEFINE a == rows[m].from
             b == rows[m].to
  <2>1. a \in Name /\ b \in Name /\ Joins(q.pair, a, b)
    BY <1>5, <1>6
  <2> HIDE DEF a, b
  <2>2. (a = q.by /\ b = q.peer) \/ (a = q.peer /\ b = q.by)
    BY <1>2, <2>1, OnePairOfNames
  <2>3. m \in Doomed(q.by, q.peer)
    BY <1>4, <2>2 DEF Doomed, a, b
  <2> QED BY <1>3, <2>3
<1> QED BY <1>4, <1>6, <1>7

LEMMA RevokeStep == ASSUME BaseInv, NEW q \in revokes, RevokeCommit(q) PROVE Kept
<1> USE DEF keys
<1>1. /\ C!End(q.pair) /\ revokes' = revokes \ {q}
      /\ rows' = [m \in Msg |-> IF m \in Doomed(q.by, q.peer) THEN Buried(rows[m])
                                ELSE rows[m]]
      /\ UNCHANGED <<now, keys, sends, polls, seen>>
  BY DEF RevokeCommit
<1>2. q.pair \in Pair /\ q.by \in Name /\ q.peer \in Name
        /\ rows \in [Msg -> Row \union {NoRow}] /\ now \in Nat
  BY DEF BaseInv, TypeOK, RevokeReq, RevokeCommit
<1>3. C!ConsentTypeOK' /\ \A r \in Pair : r # q.pair => status'[r] = status[r]
  BY <1>1, <1>2, EndEffect DEF BaseInv
<1>4. ASSUME NEW m \in Msg, m \in Doomed(q.by, q.peer)
      PROVE  /\ Stored(m) /\ rows'[m] \in Row /\ ~Live(m)'
             /\ rows'[m].pair = rows[m].pair /\ rows'[m].from = rows[m].from
             /\ rows'[m].to = rows[m].to
  <2>1. Stored(m)
    BY <1>4 DEF Doomed, Live, Unacked
  <2>2. rows[m] \in Row /\ Buried(rows[m]) \in Row
    BY <2>1, RowTyped, RowChanges DEF BaseInv, Buried
  <2>3. rows'[m] = Buried(rows[m]) /\ now' = now
    BY <1>1, <1>4
  <2> QED BY <1>2, <2>1, <2>2, <2>3 DEF Buried, Live, Unacked, Stored, Row
<1>5. \A m \in Msg : m \notin Doomed(q.by, q.peer) => rows'[m] = rows[m]
  BY <1>1
<1>6. TypeOK' /\ KeysOwned'
  <2>1. rows' \in [Msg -> Row \union {NoRow}]
    BY <1>1, <1>2, <1>4, <1>5
  <2> QED BY <1>1, <1>3, <2>1 DEF BaseInv, TypeOK, KeysOwned
<1>7. PairsJoinNames'
  <2>1. ASSUME NEW m \in Msg, Stored(m)'
        PROVE  Joins(rows'[m].pair, rows'[m].from, rows'[m].to)
    BY <2>1, <1>4, <1>5 DEF BaseInv, PairsJoinNames, Stored
  <2>2. /\ \A o \in sends' : PartlyJoins(o.pair, o.from, o.to)
        /\ \A o \in revokes' : PartlyJoins(o.pair, o.peer, o.by)
    BY <1>1 DEF BaseInv, PairsJoinNames
  <2> QED BY <2>1, <2>2 DEF PairsJoinNames, Joins
<1>8. MailKept
  <2> SUFFICES ASSUME LiveMailHasConsent, NEW m \in Msg, Live(m)'
               PROVE  status'[rows'[m].pair] = "active"
    BY DEF MailKept, LiveMailHasConsent
  <2>1. Live(m) /\ rows'[m] = rows[m] /\ rows[m].pair \in Pair /\ rows[m].pair # q.pair
    BY RevokeBuries
  <2> QED BY <1>3, <2>1 DEF LiveMailHasConsent
<1> QED BY <1>6, <1>7, <1>8 DEF Kept, BaseInv

-----------------------------------------------------------------------------
LEMMA IInit == Init => IInv
<1> SUFFICES ASSUME Init PROVE IInv
  OBVIOUS
<1>1. key = FirstKey /\ rows = [m \in Msg |-> NoRow]
  BY DEF Init
<1>2. \A m \in Msg : ~Stored(m)
  BY <1>1 DEF Stored, NoRow
<1>3. TypeOK
  <2>1. C!ConsentTypeOK
    BY DEF Init, C!ConsentInit, C!ConsentTypeOK, C!Status
  <2>2. held \subseteq Ident /\ key \in [Name -> Ident]
    BY <1>1, MailboxAssumption DEF Init
  <2> QED BY <1>1, <2>1, <2>2 DEF Init, TypeOK
<1>4. KeysOwned
  BY <1>1, MailboxAssumption DEF KeysOwned
<1>5. PairsJoinNames
  BY <1>2 DEF Init, PairsJoinNames
<1>6. LiveMailHasConsent
  BY <1>2 DEF LiveMailHasConsent, Live, Unacked
<1> QED BY <1>3, <1>4, <1>5, <1>6 DEF IInv, BaseInv

LEMMA EachStep == ASSUME BaseInv, [Next]_vars PROVE Kept
<1> QED
  BY QuietSteps, KeyStep, ConsentMoves, MarkStep, AckStep, SweepStep, ReadSteps, AcceptStep,
     RevokeStep
  DEF Next

LEMMA IStep == IInv /\ [Next]_vars => IInv'
BY EachStep DEF IInv, Kept, MailKept

(* The rows, requests and consents of the mailbox keep their types.        *)
THEOREM Typed == Spec => []TypeOK
<1>1. IInv => TypeOK
  BY DEF IInv, BaseInv
<1> QED BY <1>1, IInit, IStep, PTL DEF Spec

(* Whatever a poll may hand out belongs to a pair that is active now, for  *)
(* any number of sends and revokes that read their pair before it changed, *)
(* and any number of key rotations between the reading and the writing.    *)
THEOREM MailHasConsent == Spec => []LiveMailHasConsent
<1>1. IInv => LiveMailHasConsent
  BY DEF IInv
<1> QED BY <1>1, IInit, IStep, PTL DEF Spec

-----------------------------------------------------------------------------
(* What any step may do to a row: store it, or mark, ack, bury or delete a *)
(* stored one.                                                             *)
Stores(m) ==
  /\ ~Stored(m) /\ rows'[m] \in Row /\ rows'[m].stored
  /\ rows'[m].sent = now /\ now' = now
Marks(m) ==
  /\ Stored(m) /\ rows[m].expires > now /\ ~rows[m].dead
  /\ rows'[m] = [rows[m] EXCEPT !.collected = TRUE] /\ now' = now
Acks(m) ==
  /\ Unacked(m)
  /\ rows'[m] = [rows[m] EXCEPT !.acked = TRUE, !.ackedAt = now] /\ now' = now
Buries(m) ==
  /\ Live(m) /\ rows'[m] = Buried(rows[m]) /\ now' = now
Deletes(m) ==
  /\ Stored(m) /\ rows'[m] = [rows[m] EXCEPT !.stored = FALSE] /\ now' = now

RowMove(m) ==
  rows'[m] = rows[m] \/ Stores(m) \/ Marks(m) \/ Acks(m) \/ Buries(m) \/ Deletes(m)

LEMMA RowMoves ==
  ASSUME TypeOK, [Next]_vars
  PROVE  /\ now' \in Nat /\ now' >= now
         /\ \A m \in Msg : RowMove(m)
<1> USE DEF consent, keys, requests
<1>1. now \in Nat /\ rows \in [Msg -> Row \union {NoRow}] /\ sends \subseteq Send
  BY DEF TypeOK
<1>2. CASE rows' = rows
  <2>1. now' = now \/ now' = now + 1
    BY <1>2 DEF Next, Tick, ConsentStep, Sweep, Restart, RotateKey, SendRead, SendReadTo, SendAccept, SendRefuse,
             PollFetch, PollMark, PollAnswer, PollLost, Ack, RevokeRead, RevokeReadBy, RevokeCommit,
             RevokeNothing, vars
  <2> QED BY <1>1, <1>2, <2>1 DEF RowMove
<1>3. ASSUME NEW q \in sends, SendAccept(q)
      PROVE  now' = now /\ \A m \in Msg : RowMove(m)
  <2> DEFINE row == [stored |-> TRUE, from |-> q.from, to |-> q.to, pair |-> q.pair, sent |-> now,
                     expires |-> now + q.ttl, acked |-> FALSE, ackedAt |-> 0,
                     collected |-> FALSE, dead |-> FALSE]
  <2>1. rows' = [rows EXCEPT ![q.id] = row] /\ ~Stored(q.id) /\ now' = now
    BY <1>3 DEF SendAccept
  <2>2. q.id \in Msg /\ q.ttl \in Nat /\ q.pair \in Pair /\ q.from \in Name /\ q.to \in Name
    <3>1. q.pair \in Pair
      BY <1>3 DEF SendAccept
    <3> QED BY <1>1, <3>1, MailboxAssumption DEF Send
  <2>3. now + q.ttl \in Nat
    BY <1>1, <2>2
  <2>4. row \in Row /\ row.stored /\ row.sent = now
    BY <1>1, <2>2, <2>3 DEF Row
  <2> HIDE DEF row
  <2> QED BY <1>1, <2>1, <2>2, <2>4 DEF RowMove, Stores
<1>4. ASSUME NEW o \in polls, PollMark(o)
      PROVE  now' = now /\ \A m \in Msg : RowMove(m)
  BY <1>4 DEF PollMark, Markable, RowMove, Marks
<1>5. ASSUME NEW n \in Name, NEW k \in Msg, Ack(n, k)
      PROVE  now' = now /\ \A m \in Msg : RowMove(m)
  <2>1. rows' = [rows EXCEPT ![k] = [rows[k] EXCEPT !.acked = TRUE, !.ackedAt = now]]
        /\ Unacked(k) /\ now' = now
    BY <1>5 DEF Ack
  <2> QED BY <1>1, <2>1 DEF RowMove, Acks
<1>6. ASSUME NEW q \in revokes, RevokeCommit(q)
      PROVE  now' = now /\ \A m \in Msg : RowMove(m)
  BY <1>6 DEF RevokeCommit, Doomed, RowMove, Buries
<1>7. ASSUME Sweep PROVE now' = now /\ \A m \in Msg : RowMove(m)
  <2>1. PICK S \in SUBSET DeadLetters :
          /\ rows' = [m \in Msg |->
               IF m \in {k \in Msg : Resolved(k) \/ Retired(k)} \union S
               THEN [rows[m] EXCEPT !.stored = FALSE] ELSE rows[m]]
          /\ now' = now
    BY <1>7 DEF Sweep
  <2>2. \A m \in {k \in Msg : Resolved(k) \/ Retired(k)} \union S : Stored(m)
    BY DEF DeadLetters, Resolved, Expired, Retired, Unacked
  <2> QED BY <2>1, <2>2 DEF RowMove, Deletes
<1>8. CASE rows' # rows
  <2>1. \/ Sweep
        \/ \E q \in sends : SendAccept(q)
        \/ \E o \in polls : PollMark(o)
        \/ \E n \in Name, m \in Msg : Ack(n, m)
        \/ \E q \in revokes : RevokeCommit(q)
    BY <1>8 DEF Next, Tick, ConsentStep, Restart, RotateKey, SendRead, SendReadTo, SendRefuse,
             PollFetch, PollAnswer, PollLost, RevokeRead, RevokeReadBy, RevokeNothing, vars
  <2>2. now' = now /\ \A m \in Msg : RowMove(m)
    BY <1>3, <1>4, <1>5, <1>6, <1>7, <2>1
  <2> QED BY <1>1, <2>2
<1> QED BY <1>2, <1>8

LEMMA ReceiptStep ==
  ASSUME TypeOK, now' \in Nat, now' >= now, NEW m \in Msg, RowMove(m), Stored(m), Stored(m)'
  PROVE  Receipt(m)' \in {Receipt(m)} \union Later(Receipt(m))
<1>1. now \in Nat /\ now' \in Nat /\ now' >= now /\ RowMove(m)
  BY DEF TypeOK
<1>2. rows[m] \in Row
  BY RowTyped
<1>3. rows[m].expires \in Nat /\ rows[m].acked \in BOOLEAN /\ rows[m].dead \in BOOLEAN
      /\ rows[m].collected \in BOOLEAN
  BY <1>2 DEF Row
<1>4. CASE rows'[m] = rows[m]
  BY <1>1, <1>3, <1>4 DEF Receipt, Later
<1>5. CASE Marks(m)
  <2>1. /\ rows'[m].acked = rows[m].acked /\ rows'[m].dead = rows[m].dead
        /\ rows'[m].expires = rows[m].expires /\ rows'[m].collected
    BY <1>2, <1>5 DEF Marks, Row
  <2> QED BY <1>1, <1>3, <1>5, <2>1 DEF Marks, Receipt, Later
<1>6. CASE Acks(m)
  <2>1. rows'[m].acked
    BY <1>2, <1>6 DEF Acks, Row
  <2> QED BY <1>1, <1>3, <2>1 DEF Receipt, Later
<1>7. CASE Buries(m)
  <2>1. rows'[m].acked = rows[m].acked /\ rows'[m].dead
    BY <1>2, <1>7 DEF Buries, Buried, Row
  <2> QED BY <1>1, <1>3, <1>7, <2>1 DEF Buries, Live, Unacked, Receipt, Later
<1>8. CASE Deletes(m)
  BY <1>2, <1>8 DEF Deletes, Stored, Row
<1> QED BY <1>1, <1>4, <1>5, <1>6, <1>7, <1>8 DEF RowMove, Stores

(* A sender never sees a receipt go back, whichever of a mark, an ack, a   *)
(* revocation and the clock comes between.                                 *)
THEOREM ReceiptsAdvance == Spec => ReceiptsOnlyAdvance
<1>1. TypeOK /\ [Next]_vars
        => [\A m \in Msg : Stored(m) /\ Stored(m)' =>
              Receipt(m)' \in {Receipt(m)} \union Later(Receipt(m))]_vars
  BY RowMoves, ReceiptStep
<1> QED BY <1>1, Typed, PTL DEF Spec, ReceiptsOnlyAdvance

-----------------------------------------------------------------------------
(* Nothing is lost silently.  The letters that made room for a lost one    *)
(* are finitely many and stay accepted, and no accepted letter is from the *)
(* future, so that storing an id again only makes it newer.                *)
Newer(m) == {k \in Msg \ {m} : Accepted(k) /\ rows[k].sent >= rows[m].sent}

FinitelyMany == IsFiniteSet({m \in Msg : Accepted(m)})
SentByNow == \A m \in Msg : Accepted(m) => rows[m].sent <= now

LossInv == TypeOK /\ FinitelyMany /\ SentByNow /\ NothingLostSilently

LEMMA RowIsNotNoRow == ASSUME NEW r \in Row PROVE r # NoRow
<1>1. "from" \in DOMAIN r
  BY DEF Row
<1>2. "from" \notin DOMAIN NoRow
  BY DEF NoRow
<1> QED BY <1>1, <1>2

LEMMA AcceptedRow ==
  ASSUME TypeOK, NEW m \in Msg
  PROVE  /\ Accepted(m) <=> rows[m] \in Row
         /\ Stored(m) => Accepted(m)
<1>1. rows[m] \in Row => Accepted(m)
  BY RowIsNotNoRow DEF Accepted
<1>2. Stored(m) => rows[m] \in Row
  BY RowTyped
<1> QED BY <1>1, <1>2 DEF TypeOK, Accepted

(* A row once accepted stays so, and is the same letter or a later one.    *)
LEMMA RowsOnlyGrow ==
  ASSUME TypeOK, TypeOK', SentByNow, NEW m \in Msg, RowMove(m), Accepted(m)
  PROVE  /\ Accepted(m)' /\ rows'[m].sent >= rows[m].sent
         /\ ~Stores(m) => rows'[m].sent = rows[m].sent
<1>1. rows[m] \in Row /\ now \in Nat
  BY AcceptedRow DEF TypeOK
<1>2. rows'[m] \in Row => Accepted(m)'
  BY RowIsNotNoRow DEF Accepted
<1>3. rows[m].sent \in Nat /\ rows[m].sent <= now
  BY <1>1 DEF Row, SentByNow
<1>4. CASE Stores(m)
  BY <1>2, <1>3, <1>4 DEF Stores
<1>5. CASE ~Stores(m)
  <2>1. rows'[m] \in Row /\ rows'[m].sent = rows[m].sent
    BY <1>1, <1>5 DEF RowMove, Marks, Acks, Buries, Buried, Deletes, Row
  <2> QED BY <1>2, <1>3, <1>5, <2>1
<1> QED BY <1>4, <1>5

LEMMA LossInit == Init => LossInv
<1> SUFFICES ASSUME Init PROVE LossInv
  OBVIOUS
<1>1. TypeOK
  BY IInit DEF IInv, BaseInv
<1>2. \A m \in Msg : ~Accepted(m)
  BY DEF Init, Accepted
<1>3. {m \in Msg : Accepted(m)} = {}
  BY <1>2
<1>4. FinitelyMany
  BY <1>3, FS_EmptySet DEF FinitelyMany
<1> QED BY <1>1, <1>2, <1>4 DEF LossInv, SentByNow, NothingLostSilently

LEMMA SentByNowStep ==
  ASSUME TypeOK, TypeOK', SentByNow, [Next]_vars
  PROVE  SentByNow'
<1> SUFFICES ASSUME NEW m \in Msg, Accepted(m)' PROVE rows'[m].sent <= now'
  BY DEF SentByNow
<1>1. now \in Nat /\ now' \in Nat /\ now' >= now /\ RowMove(m)
  BY RowMoves DEF TypeOK
<1>2. CASE Accepted(m) /\ ~Stores(m)
  <2>1. rows'[m].sent = rows[m].sent /\ rows[m].sent <= now /\ rows[m] \in Row
    BY <1>1, <1>2, RowsOnlyGrow, AcceptedRow DEF SentByNow
  <2> QED BY <1>1, <2>1 DEF Row
<1>3. CASE Stores(m)
  BY <1>1, <1>3 DEF Stores
<1>4. CASE ~Accepted(m) /\ ~Stores(m)
  BY <1>1, <1>4, AcceptedRow DEF RowMove, Marks, Acks, Unacked, Buries, Live, Deletes, Accepted
<1> QED BY <1>2, <1>3, <1>4

(* Only an accepted send changes a row that is not stored.                 *)
LEMMA OnlyAcceptsStore ==
  ASSUME TypeOK, [Next]_vars, ~\E q \in sends : SendAccept(q)
  PROVE  \A m \in Msg : rows'[m] = rows[m] \/ Stored(m)
<1>1. CASE rows' = rows
  BY <1>1
<1>2. CASE Sweep
  BY <1>2 DEF Sweep, DeadLetters, Resolved, Expired, Retired, Unacked
<1>3. CASE \E o \in polls : PollMark(o)
  BY <1>3 DEF PollMark, Markable
<1>4. CASE \E n \in Name, m \in Msg : Ack(n, m)
  BY <1>4 DEF Ack, Unacked, TypeOK
<1>5. CASE \E q \in revokes : RevokeCommit(q)
  BY <1>5 DEF RevokeCommit, Doomed, Live, Unacked
<1>6. CASE rows' # rows
  BY <1>2, <1>3, <1>4, <1>5, <1>6
  DEF Next, Tick, ConsentStep, Restart, RotateKey, SendRead, SendReadTo, SendRefuse, PollFetch,
      PollAnswer, PollLost, RevokeRead, RevokeReadBy, RevokeNothing, vars, consent, keys, requests
<1> QED BY <1>1, <1>6

(* A step accepts at most one id that it did not know.                     *)
LEMMA FiniteStep ==
  ASSUME TypeOK, FinitelyMany, [Next]_vars
  PROVE  FinitelyMany'
<1> DEFINE A == {m \in Msg : Accepted(m)}
           B == {m \in Msg : rows'[m] # NoRow}
<1>1. IsFiniteSet(A)
  BY DEF FinitelyMany
<1>2. CASE \E q \in sends : SendAccept(q)
  <2>1. PICK q \in sends : SendAccept(q)
    BY <1>2
  <2>2. \A m \in Msg : m # q.id => rows'[m] = rows[m]
    BY <2>1 DEF SendAccept, TypeOK
  <2>3. B \subseteq A \union {q.id}
    BY <2>2 DEF Accepted
  <2>4. IsFiniteSet(A \union {q.id})
    BY <1>1, FS_AddElement
  <2>5. IsFiniteSet(B)
    BY <2>3, <2>4, FS_Subset
  <2> QED BY <2>5 DEF FinitelyMany, Accepted
<1>3. CASE ~\E q \in sends : SendAccept(q)
  <2>1. \A m \in Msg : rows'[m] = rows[m] \/ Stored(m)
    BY <1>3, OnlyAcceptsStore
  <2>2. B \subseteq A
    BY <2>1, AcceptedRow DEF Accepted
  <2>3. IsFiniteSet(B)
    BY <1>1, <2>2, FS_Subset
  <2> QED BY <2>3 DEF FinitelyMany, Accepted
<1> QED BY <1>2, <1>3

LEMMA NewerIsFinite ==
  ASSUME FinitelyMany, NEW m \in Msg
  PROVE  IsFiniteSet(Newer(m)) /\ Cardinality(Newer(m)) \in Nat
<1>1. Newer(m) \subseteq {k \in Msg : Accepted(k)}
  BY DEF Newer
<1>2. IsFiniteSet(Newer(m))
  BY <1>1, FS_Subset DEF FinitelyMany
<1> QED BY <1>2, FS_CardinalityType

(* A letter that is not stored again has ever more newer ones.             *)
LEMMA NewerGrows ==
  ASSUME TypeOK, TypeOK', SentByNow, FinitelyMany', NEW m \in Msg,
         Accepted(m), rows'[m].sent = rows[m].sent, \A k \in Msg : RowMove(k)
  PROVE  /\ Cardinality(Newer(m))' >= Cardinality(Newer(m))
         /\ Cardinality(Newer(m))' \in Nat
<1> DEFINE N == {k \in Msg \ {m} : rows'[k] # NoRow /\ rows'[k].sent >= rows'[m].sent}
<1>1. Newer(m)' = N
  BY DEF Newer, Accepted
<1>2. Newer(m) \subseteq N
  <2> SUFFICES ASSUME NEW k \in Newer(m) PROVE k \in N
    OBVIOUS
  <2>1. k \in Msg \ {m} /\ Accepted(k) /\ rows[k].sent >= rows[m].sent
    BY DEF Newer
  <2>2. rows'[k] # NoRow /\ rows'[k].sent >= rows[k].sent
    BY <2>1, RowsOnlyGrow DEF Accepted
  <2>3. rows[k] \in Row /\ rows'[k] \in Row /\ rows[m] \in Row
    BY <2>1, <2>2, AcceptedRow DEF TypeOK
  <2>4. rows[k].sent \in Nat /\ rows'[k].sent \in Nat /\ rows[m].sent \in Nat
    BY <2>3 DEF Row
  <2> QED BY <2>1, <2>2, <2>4
<1>3. IsFiniteSet(N)
  <2>1. N \subseteq {k \in Msg : rows'[k] # NoRow}
    OBVIOUS
  <2>2. IsFiniteSet({k \in Msg : rows'[k] # NoRow})
    BY DEF FinitelyMany, Accepted
  <2> QED BY <2>1, <2>2, FS_Subset
<1>4. Cardinality(Newer(m)) <= Cardinality(N)
  BY <1>2, <1>3, FS_Subset
<1>5. Cardinality(Newer(m)) \in Nat /\ Cardinality(N) \in Nat
  BY <1>2, <1>3, FS_Subset, FS_CardinalityType
<1>6. Cardinality(Newer(m))' = Cardinality(N)
  BY <1>1
<1> HIDE DEF N
<1> QED BY <1>4, <1>5, <1>6

(* A dead letter falls over the cap only when the cap is full of letters   *)
(* at least as new.                                                        *)
LEMMA OverflowMakesRoom ==
  ASSUME TypeOK, FinitelyMany, NEW S \in SUBSET DeadLetters, Overflows(S), NEW m \in S
  PROVE  rows[m].expires <= now /\ Cardinality(Newer(m)) >= DeadCap
<1>1. m \in DeadLetters /\ m \in Msg /\ DeadLetters \subseteq Msg
  BY DEF DeadLetters
<1>2. rows[m].expires <= now
  BY <1>1 DEF DeadLetters, Expired
<1>3. IsFiniteSet(DeadLetters)
  <2>1. DeadLetters \subseteq {k \in Msg : Accepted(k)}
    BY AcceptedRow DEF DeadLetters, Expired
  <2> QED BY <2>1, FS_Subset DEF FinitelyMany
<1>4. DeadLetters \ S \subseteq DeadLetters /\ DeadLetters \ S # DeadLetters
  BY <1>1
<1>5. /\ Cardinality(DeadLetters \ S) \in Nat /\ Cardinality(DeadLetters) \in Nat
      /\ Cardinality(DeadLetters \ S) < Cardinality(DeadLetters)
  BY <1>3, <1>4, FS_Subset, FS_CardinalityType
<1>6. Cardinality(DeadLetters \ S) = DeadCap
  BY <1>5, MailboxAssumption DEF Overflows
<1>7. DeadLetters \ S \subseteq Newer(m)
  <2> SUFFICES ASSUME NEW k \in DeadLetters \ S PROVE k \in Newer(m)
    OBVIOUS
  <2>1. k \in Msg /\ k # m /\ Stored(k) /\ Stored(m) /\ rows[m].sent <= rows[k].sent
    BY <1>1 DEF DeadLetters, Expired, Overflows
  <2>2. rows[k] \in Row /\ rows[m] \in Row /\ Accepted(k)
    BY <1>1, <2>1, RowTyped, AcceptedRow
  <2>3. rows[k].sent \in Nat /\ rows[m].sent \in Nat
    BY <2>2 DEF Row
  <2> QED BY <2>1, <2>2, <2>3 DEF Newer
<1>8. Cardinality(DeadLetters \ S) <= Cardinality(Newer(m)) /\ Cardinality(Newer(m)) \in Nat
  BY <1>1, <1>7, NewerIsFinite, FS_Subset
<1> QED BY <1>2, <1>5, <1>6, <1>8

Excused(m) ==
  \/ rows[m].acked
  \/ rows[m].expires + Retention <= now
  \/ rows[m].expires <= now /\ Cardinality(Newer(m)) >= DeadCap

LEMMA LossStep == LossInv /\ TypeOK' /\ [Next]_vars => LossInv'
<1> SUFFICES ASSUME LossInv, TypeOK', [Next]_vars PROVE LossInv'
  OBVIOUS
<1>1. FinitelyMany' /\ SentByNow'
  BY FiniteStep, SentByNowStep DEF LossInv
<1>2. now \in Nat /\ now' \in Nat /\ now' >= now /\ \A m \in Msg : RowMove(m)
  BY RowMoves DEF LossInv, TypeOK
<1>3. NothingLostSilently'
  <2> SUFFICES ASSUME NEW m \in Msg, Accepted(m)', ~Stored(m)'
               PROVE  \/ rows'[m].acked
                      \/ rows'[m].expires + Retention <= now'
                      \/ rows'[m].expires <= now' /\ Cardinality(Newer(m))' >= DeadCap
    BY DEF NothingLostSilently, Newer, Accepted
  <2>1. rows[m] \in Row /\ Accepted(m) /\ RowMove(m) /\ ~Stores(m)
    <3>1. ~Stores(m) /\ RowMove(m)
      BY <1>2 DEF Stores, Stored
    <3>2. Accepted(m)
      BY <3>1, AcceptedRow
      DEF LossInv, RowMove, Marks, Acks, Unacked, Buries, Live, Deletes, Accepted
    <3> QED BY <3>1, <3>2, AcceptedRow DEF LossInv
  <2>2. rows'[m].acked = rows[m].acked /\ rows'[m].expires = rows[m].expires
        /\ rows'[m].sent = rows[m].sent /\ (rows'[m] = rows[m] \/ Deletes(m))
    <3>1. ~Marks(m) /\ ~Acks(m) /\ ~Buries(m)
      BY <2>1 DEF Marks, Acks, Buries, Buried, Live, Unacked, Stored, Row
    <3> QED BY <2>1, <3>1 DEF RowMove, Deletes, Row
  <2>3. Cardinality(Newer(m))' >= Cardinality(Newer(m)) /\ Cardinality(Newer(m))' \in Nat
    BY <1>1, <1>2, <2>1, <2>2, NewerGrows DEF LossInv
  <2>4. Cardinality(Newer(m)) \in Nat /\ rows[m].expires \in Nat
    BY <2>1, NewerIsFinite DEF LossInv, Row
  <2>5. Excused(m)
    <3>1. CASE ~Stored(m)
      BY <2>1, <3>1 DEF LossInv, NothingLostSilently, Excused, Newer
    <3>2. CASE Stored(m)
      <4>1. Sweep
        <5>1. rows'[m] = [rows[m] EXCEPT !.stored = FALSE] /\ rows'[m] # rows[m]
          BY <2>2, <3>2 DEF Deletes, Stored
        <5>2. ~\E q \in sends : SendAccept(q)
          BY <5>1, <3>2 DEF SendAccept, LossInv, TypeOK
        <5>3. ~\E o \in polls : PollMark(o)
          BY <5>1, <2>1, <3>2 DEF PollMark, Stored, Row
        <5>4. ~\E n \in Name, k \in Msg : Ack(n, k)
          <6> SUFFICES ASSUME NEW n \in Name, NEW k \in Msg, Ack(n, k) PROVE FALSE
            OBVIOUS
          <6>1. rows' = [rows EXCEPT ![k] = [rows[k] EXCEPT !.acked = TRUE, !.ackedAt = now]]
            BY DEF Ack
          <6>2. rows'[m] = rows[m] \/ rows'[m] = [rows[m] EXCEPT !.acked = TRUE, !.ackedAt = now]
            BY <6>1 DEF LossInv, TypeOK
          <6>3. rows'[m].stored = rows[m].stored
            BY <2>1, <6>2 DEF Row
          <6> QED BY <5>1, <2>1, <3>2, <6>3 DEF Stored, Row
        <5>5. ~\E q \in revokes : RevokeCommit(q)
          <6> SUFFICES ASSUME NEW q \in revokes, RevokeCommit(q) PROVE FALSE
            OBVIOUS
          <6>1. rows'[m] = rows[m] \/ rows'[m] = Buried(rows[m])
            BY DEF RevokeCommit
          <6>2. rows'[m].stored = rows[m].stored
            BY <2>1, <6>1 DEF Buried, Row
          <6> QED BY <5>1, <2>1, <3>2, <6>2 DEF Stored, Row
        <5> QED
          BY <5>1, <5>2, <5>3, <5>4, <5>5
          DEF Next, Tick, ConsentStep, Restart, RotateKey, SendRead, SendReadTo, SendRefuse, PollFetch,
              PollAnswer, PollLost, RevokeRead, RevokeReadBy, RevokeNothing, vars, consent, keys, requests
      <4>2. PICK S \in SUBSET DeadLetters :
              /\ Overflows(S)
              /\ rows' = [k \in Msg |->
                   IF k \in {j \in Msg : Resolved(j) \/ Retired(j)} \union S
                   THEN [rows[k] EXCEPT !.stored = FALSE] ELSE rows[k]]
        BY <4>1 DEF Sweep
      <4>3. m \in S \/ Resolved(m) \/ Retired(m)
        BY <3>2, <4>2 DEF Stored
      <4>4. m \in S => rows[m].expires <= now /\ Cardinality(Newer(m)) >= DeadCap
        BY <4>2, OverflowMakesRoom DEF LossInv
      <4> QED BY <4>3, <4>4 DEF Excused, Resolved, Retired
    <3> QED BY <3>1, <3>2
  <2> QED BY <1>2, <2>2, <2>3, <2>4, <2>5, MailboxAssumption DEF Excused
<1> QED BY <1>1, <1>3 DEF LossInv

(* Accepted mail that is gone was acked, was dead for the whole retention, *)
(* or made room for DeadCap letters at least as new: being collected by a  *)
(* poll whose answer may have been lost removes nothing.                   *)
THEOREM NothingLost == Spec => []NothingLostSilently
<1>1. LossInv => NothingLostSilently
  BY DEF LossInv
<1> QED BY <1>1, LossInit, LossStep, Typed, PTL DEF Spec

LEMMA CapInit == Init => QueueWithinCap
<1> SUFFICES ASSUME Init, NEW n \in Name PROVE Cardinality(LiveFor(n)) <= PendingCap
  BY DEF QueueWithinCap
<1>1. \A m \in Msg : ~Stored(m)
  BY DEF Init, Stored, NoRow
<1>2. LiveFor(n) = {}
  BY <1>1 DEF LiveFor, Live, Unacked
<1> QED BY <1>2, FS_EmptySet, MailboxAssumption

(* A step makes no row live but the one it stores.                         *)
LEMMA OnlyStoresQueue ==
  ASSUME TypeOK, [Next]_vars, NEW m \in Msg, ~Stores(m), Live(m)'
  PROVE  Live(m) /\ rows'[m].to = rows[m].to
<1>1. now \in Nat /\ now' \in Nat /\ now' >= now /\ RowMove(m)
  BY RowMoves DEF TypeOK
<1>2. CASE rows'[m] = rows[m]
  <2>1. Stored(m) /\ rows[m] \in Row
    BY <1>2, RowTyped DEF Live, Unacked, Stored
  <2> QED BY <1>1, <1>2, <2>1 DEF Live, Unacked, Stored, Row
<1>3. CASE Marks(m)
  <2>1. rows[m] \in Row
    BY <1>3, RowTyped DEF Marks
  <2> QED BY <1>3, <2>1 DEF Marks, Live, Unacked, Stored, Row
<1>4. CASE Acks(m) \/ Buries(m) \/ Deletes(m)
  <2>1. rows[m] \in Row
    BY <1>4, RowTyped DEF Acks, Buries, Deletes, Live, Unacked
  <2> QED BY <1>1, <1>4, <2>1 DEF Acks, Buries, Buried, Deletes, Live, Unacked, Stored, Row
<1> QED BY <1>1, <1>2, <1>3, <1>4 DEF RowMove

LEMMA CapStep ==
  TypeOK /\ FinitelyMany /\ QueueWithinCap /\ [Next]_vars => QueueWithinCap'
<1> SUFFICES ASSUME TypeOK, FinitelyMany, QueueWithinCap, [Next]_vars, NEW n \in Name
             PROVE  Cardinality(LiveFor(n))' <= PendingCap
  BY DEF QueueWithinCap
<1> DEFINE L == LiveFor(n)
           K == {m \in Msg : Live(m)' /\ rows'[m].to = n}
<1>1. LiveFor(n)' = K
  BY DEF LiveFor
<1>2. IsFiniteSet(L) /\ Cardinality(L) \in Nat /\ Cardinality(L) <= PendingCap
  <2>1. L \subseteq {m \in Msg : Accepted(m)}
    BY AcceptedRow DEF LiveFor, Live, Unacked
  <2> QED BY <2>1, FS_Subset, FS_CardinalityType DEF FinitelyMany, QueueWithinCap
<1>3. CASE \E q \in sends : SendAccept(q)
  <2>1. PICK q \in sends : SendAccept(q)
    BY <1>3
  <2>2. \A m \in Msg : m # q.id => rows'[m] = rows[m] /\ ~Stores(m)
    BY <2>1, RowTyped DEF SendAccept, TypeOK, Stores, Stored
  <2>3. rows'[q.id].to = q.to /\ q.id \in Msg
    BY <2>1 DEF SendAccept, TypeOK, Send
  <2>4. CASE q.to = n
    <3>1. Cardinality(L) < PendingCap
      BY <2>1, <2>4 DEF SendAccept, HasRoom
    <3>2. K \subseteq L \union {q.id}
      BY <2>2, OnlyStoresQueue DEF LiveFor
    <3>3. /\ IsFiniteSet(L \union {q.id})
          /\ \/ Cardinality(L \union {q.id}) = Cardinality(L)
             \/ Cardinality(L \union {q.id}) = Cardinality(L) + 1
      BY <1>2, FS_AddElement
    <3>4. Cardinality(K) <= Cardinality(L \union {q.id}) /\ Cardinality(K) \in Nat
      BY <3>2, <3>3, FS_Subset, FS_CardinalityType
    <3> HIDE DEF K, L
    <3> QED BY <1>1, <1>2, <3>1, <3>3, <3>4, MailboxAssumption
  <2>5. CASE q.to # n
    <3>1. K \subseteq L
      BY <2>2, <2>3, <2>5, OnlyStoresQueue DEF LiveFor
    <3>2. Cardinality(K) <= Cardinality(L) /\ Cardinality(K) \in Nat
      BY <1>2, <3>1, FS_Subset, FS_CardinalityType
    <3> HIDE DEF K, L
    <3> QED BY <1>1, <1>2, <3>2, MailboxAssumption
  <2> QED BY <2>4, <2>5
<1>4. CASE ~\E q \in sends : SendAccept(q)
  <2>1. \A m \in Msg : ~Stores(m)
    <3>1. \A m \in Msg : rows'[m] = rows[m] \/ Stored(m)
      BY <1>4, OnlyAcceptsStore
    <3> QED BY <3>1 DEF Stores, Stored
  <2>2. K \subseteq L
    BY <2>1, OnlyStoresQueue DEF LiveFor
  <2>3. Cardinality(K) <= Cardinality(L) /\ Cardinality(K) \in Nat
    BY <1>2, <2>2, FS_Subset, FS_CardinalityType
  <2> HIDE DEF K, L
  <2> QED BY <1>1, <1>2, <2>3, MailboxAssumption
<1> QED BY <1>3, <1>4

(* A recipient's queue never outgrows its cap, however many senders race   *)
(* for the last place: nothing but the count inside the write transaction  *)
(* limits them.                                                            *)
THEOREM QueueCapped == Spec => []QueueWithinCap
<1>1. LossInv => TypeOK /\ FinitelyMany
  BY DEF LossInv
<1> QED BY <1>1, CapInit, CapStep, LossInit, LossStep, Typed, PTL DEF Spec

-----------------------------------------------------------------------------
(* Composition with the handshakes, over Consent.                          *)

(* What the mailbox does to consent is what Consent allows: the revocation *)
(* of a pair that was read before a key changed ends that pair only.       *)
THEOREM MailboxKeepsConsent == Spec => C!ConsentSpec
<1>1. Init => C!ConsentInit
  BY DEF Init
<1>2. IInv /\ [Next]_vars => [C!ConsentNext]_(C!consentVars)
  <2> SUFFICES ASSUME IInv, [Next]_vars
               PROVE  C!ConsentNext \/ UNCHANGED C!consentVars
    OBVIOUS
  <2>1. CASE ConsentStep
    <3>1. \/ \E p \in Pair, l \in Link : C!Propose(p, l)
          \/ \E p \in Pair : C!Activate(p)
          \/ \E p \in Pair : C!Lapse({p})
      BY <2>1 DEF ConsentStep
    <3>2. \A p \in Pair : {p} \in SUBSET Pair
      OBVIOUS
    <3> QED BY <3>1, <3>2 DEF C!ConsentNext
  <2>2. ASSUME NEW q \in revokes, RevokeCommit(q) PROVE C!ConsentNext
    <3>1. q.pair \in Pair
      BY <2>2 DEF RevokeCommit
    <3> QED BY <2>2, <3>1 DEF RevokeCommit, C!ConsentNext
  <2>3. CASE ~ConsentStep /\ ~\E q \in revokes : RevokeCommit(q)
    <3>1. UNCHANGED consent
      BY <2>3 DEF Next, Tick, Sweep, Restart, RotateKey, SendRead, SendReadTo, SendAccept, SendRefuse,
               PollFetch, PollMark, PollAnswer, PollLost, Ack, RevokeRead, RevokeReadBy, RevokeNothing,
               vars, consent
    <3> QED BY <3>1 DEF consent, C!consentVars
  <2> QED BY <2>1, <2>2, <2>3
<1>3. Spec => []IInv
  BY IInit, IStep, PTL DEF Spec
<1> QED BY <1>1, <1>2, <1>3, PTL DEF Spec, C!ConsentSpec

(* The mailbox under handshakes of which only Consent is known: they open, *)
(* replace and accept ceremonies and let any set of pairs lapse, hard      *)
(* expiry of active ones included.  Revocation is the mailbox's own.       *)
HandshakeMoves ==
  /\ \/ \E p \in Pair, l \in Link : C!Propose(p, l)
     \/ \E p \in Pair : C!Activate(p)
     \/ \E S \in SUBSET Pair : C!Lapse(S)
  /\ UNCHANGED <<now, keys, rows, requests, seen>>

OpenNext == Next \/ HandshakeMoves
OpenSpec == Init /\ [][OpenNext]_vars

LEMMA MovesTyped == ASSUME TypeOK, HandshakeMoves PROVE C!ConsentTypeOK'
<1> USE DEF TypeOK, C!ConsentTypeOK, C!Status
<1>1. ASSUME NEW p \in Pair, NEW l \in Link, C!Propose(p, l) PROVE C!ConsentTypeOK'
  <2>1. gen' \in [Pair -> Nat]
    BY <1>1 DEF C!Propose
  <2> QED BY <1>1, <2>1 DEF C!Propose
<1>2. ASSUME NEW p \in Pair, C!Activate(p) PROVE C!ConsentTypeOK'
  BY <1>2 DEF C!Activate
<1>3. ASSUME NEW S \in SUBSET Pair, C!Lapse(S) PROVE C!ConsentTypeOK'
  BY <1>3 DEF C!Lapse
<1> QED BY <1>1, <1>2, <1>3 DEF HandshakeMoves

(* No move of the handshakes revokes a pair that was current.              *)
LEMMA MovesRevokeNothing ==
  ASSUME TypeOK, HandshakeMoves, NEW p \in Pair, status'[p] = "revoked"
  PROVE  gen'[p] = gen[p]
<1> USE DEF TypeOK, C!ConsentTypeOK
<1>1. ASSUME NEW r \in Pair, NEW l \in Link, C!Propose(r, l) PROVE gen'[p] = gen[p]
  <2>1. p # r
    BY <1>1 DEF C!Propose
  <2> QED BY <1>1, <2>1 DEF C!Propose
<1>2. ASSUME NEW r \in Pair, C!Activate(r) PROVE gen'[p] = gen[p]
  BY <1>2 DEF C!Activate
<1>3. ASSUME NEW S \in SUBSET Pair, C!Lapse(S) PROVE gen'[p] = gen[p]
  BY <1>3 DEF C!Lapse
<1> QED BY <1>1, <1>2, <1>3 DEF HandshakeMoves

LEMMA MovesKeep ==
  ASSUME BaseInv, HandshakeMoves
  PROVE  /\ BaseInv'
         /\ (\A p \in Pair : status[p] = "active" => status'[p] = "active") => MailKept
<1>1. /\ UNCHANGED <<now, key, held, rows, sends, revokes, polls, seen>>
      /\ C!ConsentTypeOK'
  BY MovesTyped DEF HandshakeMoves, keys, requests, BaseInv
<1>2. \A m \in Msg : SameMail(m)
  BY <1>1 DEF SameMail
<1>3. /\ PairsJoinNames'
      /\ (\A p \in Pair : status[p] = "active" => status'[p] = "active") => MailKept
  BY <1>1, <1>2, SameMailKeeps DEF BaseInv, TypeOK
<1>4. TypeOK' /\ KeysOwned'
  BY <1>1 DEF BaseInv, TypeOK, KeysOwned
<1> QED BY <1>3, <1>4 DEF BaseInv

OpenInv == BaseInv /\ LossInv /\ QueueWithinCap

LEMMA OpenInvariant == OpenSpec => []OpenInv
<1>1. Init => OpenInv
  BY IInit, LossInit, CapInit DEF OpenInv, IInv
<1>2. OpenInv /\ [OpenNext]_vars => OpenInv'
  <2> SUFFICES ASSUME OpenInv, [OpenNext]_vars PROVE OpenInv'
    OBVIOUS
  <2>1. CASE [Next]_vars
    <3>1. BaseInv' /\ TypeOK'
      BY <2>1, EachStep DEF OpenInv, BaseInv, Kept
    <3> QED BY <2>1, <3>1, LossStep, CapStep DEF OpenInv, LossInv
  <2>2. CASE HandshakeMoves
    <3>1. BaseInv' /\ TypeOK'
      BY <2>2, MovesKeep DEF OpenInv, BaseInv
    <3>2. UNCHANGED <<now, rows>>
      BY <2>2 DEF HandshakeMoves
    <3>3. FinitelyMany' /\ SentByNow' /\ NothingLostSilently'
      BY <3>2 DEF OpenInv, LossInv, FinitelyMany, SentByNow, NothingLostSilently, Accepted, Stored
    <3>4. QueueWithinCap'
      BY <3>2 DEF OpenInv, QueueWithinCap, LiveFor, Live, Unacked, Stored
    <3> QED BY <3>1, <3>3, <3>4 DEF OpenInv, LossInv
  <2> QED BY <2>1, <2>2 DEF OpenNext
<1> QED BY <1>1, <1>2, PTL DEF OpenSpec

(* Whatever the handshakes do within Consent, nothing accepted is lost     *)
(* silently, a queue keeps to its cap and no receipt goes back.            *)
THEOREM KeptAmongHandshakes ==
  OpenSpec => [](NothingLostSilently /\ QueueWithinCap) /\ ReceiptsOnlyAdvance
<1>1. OpenInv => NothingLostSilently /\ QueueWithinCap
  BY DEF OpenInv, LossInv
<1>2. OpenInv /\ [OpenNext]_vars
        => [\A m \in Msg : Stored(m) /\ Stored(m)' =>
              Receipt(m)' \in {Receipt(m)} \union Later(Receipt(m))]_vars
  <2> SUFFICES ASSUME TypeOK, OpenNext, NEW m \in Msg, Stored(m), Stored(m)'
               PROVE  Receipt(m)' \in {Receipt(m)} \union Later(Receipt(m))
    BY DEF OpenInv, BaseInv
  <2>1. now' \in Nat /\ now' >= now /\ RowMove(m)
    <3>1. CASE Next
      BY <3>1, RowMoves
    <3>2. CASE HandshakeMoves
      BY <3>2 DEF HandshakeMoves, RowMove, TypeOK
    <3> QED BY <3>1, <3>2 DEF OpenNext
  <2> QED BY <2>1, ReceiptStep
<1> QED BY <1>1, <1>2, OpenInvariant, PTL DEF OpenSpec, ReceiptsOnlyAdvance

(* Nor does anything they do, hard expiry included, leave mail deliverable *)
(* of a pair that a revocation has just ended.                             *)
THEOREM RevocationTakesTheMail == OpenSpec => RevokedMailDies
<1> DEFINE Dies == \A p \in Pair : gen'[p] > gen[p] /\ status'[p] = "revoked" =>
                     \A m \in Msg : Live(m)' => rows'[m].pair # p
<1>1. OpenInv /\ [OpenNext]_vars => [Dies]_vars
  <2> SUFFICES ASSUME BaseInv, OpenNext, NEW p \in Pair, gen'[p] > gen[p],
                      status'[p] = "revoked", NEW m \in Msg, Live(m)'
               PROVE  rows'[m].pair # p
    BY DEF OpenInv
  <2>1. gen[p] \in Nat
    BY DEF BaseInv, TypeOK, C!ConsentTypeOK
  <2>2. ~HandshakeMoves
    BY <2>1, MovesRevokeNothing DEF BaseInv
  <2>3. ~ConsentStep
    <3> SUFFICES ASSUME ConsentStep PROVE HandshakeMoves
      BY <2>2
    <3>1. \A r \in Pair : {r} \in SUBSET Pair
      OBVIOUS
    <3> QED BY <3>1 DEF ConsentStep, HandshakeMoves
  <2>4. gen' # gen
    BY <2>1
  <2>5. PICK q \in revokes : RevokeCommit(q)
    BY <2>2, <2>3, <2>4 DEF OpenNext, Next, Tick, Sweep, Restart, RotateKey, SendRead, SendReadTo, SendAccept,
       SendRefuse, PollFetch, PollMark, PollAnswer, PollLost, Ack, RevokeRead, RevokeReadBy, RevokeNothing,
       consent
  <2>6. q.pair = p
    BY <2>1, <2>5 DEF RevokeCommit, C!End, BaseInv, TypeOK, C!ConsentTypeOK
  <2> QED BY <2>5, <2>6, RevokeBuries
<1> QED BY <1>1, OpenInvariant, PTL DEF OpenSpec, RevokedMailDies

(* Where an active pair ends by a revocation only, deliverable mail has    *)
(* its consent: the part of the handshakes in LiveMailHasConsent.          *)
THEOREM ConsentAmongHandshakes == OpenSpec /\ C!EndsOnlyByRevoke => []LiveMailHasConsent
<1> DEFINE Ends == \A p \in Pair : status[p] = "active" /\ status'[p] # "active" => C!End(p)
<1>1. Init => LiveMailHasConsent
  BY IInit DEF IInv
<1>2. OpenInv /\ LiveMailHasConsent /\ [OpenNext]_vars /\ [Ends]_(C!consentVars)
        => LiveMailHasConsent'
  <2> SUFFICES ASSUME BaseInv, LiveMailHasConsent, [OpenNext]_vars, [Ends]_(C!consentVars)
               PROVE  LiveMailHasConsent'
    BY DEF OpenInv
  <2>1. CASE [Next]_vars
    BY <2>1, EachStep DEF Kept, MailKept
  <2>2. CASE HandshakeMoves
    <3> SUFFICES ASSUME NEW p \in Pair, status[p] = "active" PROVE status'[p] = "active"
      BY <2>2, MovesKeep DEF MailKept
    <3> SUFFICES ASSUME C!End(p) PROVE FALSE
      BY DEF C!consentVars
    <3>1. gen'[p] # gen[p] /\ status'[p] = "revoked"
      BY DEF C!End, BaseInv, TypeOK, C!ConsentTypeOK
    <3> QED BY <2>2, <3>1, MovesRevokeNothing DEF BaseInv
  <2> QED BY <2>1, <2>2 DEF OpenNext
<1> QED BY <1>1, <1>2, OpenInvariant, PTL DEF OpenSpec, C!EndsOnlyByRevoke
=============================================================================
