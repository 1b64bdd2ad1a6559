-------------------------- MODULE EnrollmentProofs --------------------------
(***************************************************************************)
(* Proofs about Enrollment.tla, for any keys, names, invites, nonces,      *)
(* config files and threads.                                               *)
(*                                                                         *)
(* The invariant has three parts besides the shapes of the tables.  What a *)
(* request that is under way still relies on: its invite exists, the       *)
(* challenge it spent is used and has let nobody in, and no other request  *)
(* holds it.  What the history says: an invite that was never minted let   *)
(* nobody in, a challenge that let somebody in is used.  What the rows     *)
(* promise: one row to a key, mail for its owner only, and the set kept    *)
(* beside the table short of the rows whose enrollment is not answered.    *)
(*                                                                         *)
(* The last part is about the other end of an enrollment, the client's     *)
(* command of Onboard.tla, taken as the instance Join.                     *)
(***************************************************************************)
EXTENDS Enrollment, TLAPS, FiniteSetTheorems

Shapes ==
    /\ up \in BOOLEAN /\ file \in Files /\ retired \subseteq Names /\ cached \subseteq Names
    /\ peers \in [Names -> Peer \cup {None}]
    /\ invites \in [Invites -> Invitation \cup {None}]
    /\ challenges \in [Nonces -> Ticket \cup {None}]
    /\ requests \in [Threads -> Request \cup {None}]
    /\ mail \in [Names -> SUBSET Nat]
    /\ now \in Nat /\ serial \in Nat
    /\ won \in [Nonces -> Nat] /\ entered \in [Invites -> Nat]

\* A request that goes by an invite goes by one that was minted.
InvitesAreThere ==
    \A t \in Threads :
        requests[t] # None /\ (requests[t].gate = "invite" \/ requests[t].route = "handshake")
        => requests[t].invite \in Invites /\ invites[requests[t].invite] # None

\* Counted on both sides: the invite's uses and the enrollments it let in.
UsesCounted ==
    \A i \in Invites :
        IF invites[i] = None THEN entered[i] = 0
        ELSE invites[i].uses = entered[i] /\ invites[i].uses <= invites[i].max

Spent(t) == requests[t] # None /\ requests[t].stage = "spent"
Used(c) == challenges[c] # None /\ challenges[c].used

\* A challenge is known as long as a request names it; one that was spent is used,
\* has let nobody in yet, and is held by one request.
ChallengesKnown == \A t \in Threads : requests[t] # None => challenges[requests[t].nonce] # None
SpentIsUsed == \A t \in Threads : Spent(t) => Used(requests[t].nonce) /\ won[requests[t].nonce] = 0
SpentByOne == \A s, t \in Threads : Spent(s) /\ Spent(t) /\ requests[s].nonce = requests[t].nonce => s = t
WonIsUsed == \A c \in Nonces : won[c] <= 1 /\ (won[c] # 0 => Used(c))
ChallengeInv == ChallengesKnown /\ SpentIsUsed /\ SpentByOne /\ WonIsUsed

MailIsOwned == \A n \in Names : mail[n] # {} => n \in Taken /\ mail[n] = {peers[n].born}

Written(t) == requests[t] # None /\ requests[t].stage = "written"
WrittenAreRows == \A t \in Threads : Written(t) => requests[t].name \in Taken
NothingRunsWhenDown == ~up => \A t \in Threads : requests[t] = None
CacheInv == WrittenAreRows /\ NothingRunsWhenDown /\ CachedNamesAreRows

EnrollInv ==
    /\ Shapes /\ InvitesAreThere /\ UsesCounted /\ ChallengeInv /\ OneNameAKey
    /\ DeadNamesStayDead /\ MailIsOwned /\ CacheInv

-----------------------------------------------------------------------------
(* The start.                                                              *)

\* The row of a name of the config file is that name's row.
LEMMA RowOfName ==
    ASSUME NEW n \in Incoming
    PROVE  Row(n) \in DOMAIN file /\ file[Row(n)].name = n
  BY DEF Incoming, Row

\* What a sequence holds.
LEMMA Elements ==
    ASSUME NEW S, NEW s \in Seq(S)
    PROVE  /\ Len(s) \in Nat /\ DOMAIN s = 1..Len(s)
           /\ \A j \in DOMAIN s : s[j] \in S
  OBVIOUS

\* A config file of the model is a sequence of rows whose names are names of peers.
LEMMA FilesAreRows ==
    ASSUME Shapes
    PROVE  /\ Len(file) \in Nat /\ DOMAIN file = 1..Len(file)
           /\ \A j \in DOMAIN file : file[j].name \in Names
           /\ \A j \in DOMAIN file : file[j].key \in Keys \cup {None}
           /\ Incoming \subseteq Names
  <1>1. file \in Files
    BY DEF Shapes
  <1>2. file \in Seq([name : ConfigNames, key : Keys \cup {None}])
    BY <1>1, EnrollmentAssumption
  <1>3. Len(file) \in Nat /\ DOMAIN file = 1..Len(file)
    BY <1>2, Elements
  <1>4. \A j \in DOMAIN file : file[j] \in [name : ConfigNames, key : Keys \cup {None}]
    BY <1>2, Elements
  <1>5. ConfigNames \subseteq Names
    BY DEF Names
  <1> QED
    BY <1>3, <1>4, <1>5 DEF Incoming

\* What init_db leaves in the table, name by name: the row of the file, or else the
\* row that was there, unless its peer was removed.
LEMMA RebuiltRows ==
    ASSUME Shapes
    PROVE  /\ \A n \in Incoming : Rebuilt[n] = Rewritten(Row(n))
           /\ \A n \in Names \ Incoming : Rebuilt[n] = IF n \in Removed THEN None ELSE peers[n]
  <1>1. \A n \in Incoming : Row(n) < Len(file) + 1
    BY RowOfName, FilesAreRows
  <1> QED
    BY <1>1, FilesAreRows DEF Rebuilt, TableBefore, Kept

\* A row the start writes is a peer row, whose gate is the config.
LEMMA RewrittenIsPeer ==
    ASSUME Shapes, NEW j \in DOMAIN file
    PROVE  Rewritten(j) \in Peer /\ Rewritten(j).key = file[j].key /\ Rewritten(j).gate = "config"
  <1>1. j \in Nat /\ file[j].key \in Keys \cup {None} /\ file[j].name \in Names
    BY FilesAreRows
  <1>2. serial + j \in Nat
    BY <1>1 DEF Shapes
  <1>3. file[j].name \in Configured => peers[file[j].name] \in Peer
    BY <1>1 DEF Shapes, Configured, Taken
  <1>4. (IF file[j].name \in Configured THEN peers[file[j].name].born ELSE serial + j) \in Nat
    BY <1>2, <1>3 DEF Peer
  <1> QED
    BY <1>1, <1>4 DEF Rewritten, Peer

\* After a start the table holds peer rows.
LEMMA RebuiltShape ==
    ASSUME Shapes
    PROVE  Rebuilt \in [Names -> Peer \cup {None}]
  <1>1. Rebuilt = [n \in Names |-> Rebuilt[n]]
    BY DEF Rebuilt, TableBefore
  <1>2. ASSUME NEW n \in Names PROVE Rebuilt[n] \in Peer \cup {None}
    <2>1. CASE n \in Incoming
      BY <2>1, RebuiltRows, RowOfName, RewrittenIsPeer
    <2>2. CASE n \notin Incoming
      BY <2>2, RebuiltRows DEF Shapes
    <2> QED BY <2>1, <2>2
  <1> QED BY <1>1, <1>2

\* A start that was not refused met every row of a peer that enrolled itself, and every
\* key of a row it keeps, nowhere in the file.
LEMMA NotRefused ==
    ASSUME Shapes, ~Refused
    PROVE  /\ \A n \in Incoming : n \in Taken => n \in Configured
           /\ \A n \in Incoming, m \in Names \ Incoming :
                  ~(/\ Rebuilt[m] # None /\ file[Row(n)].key # None
                    /\ Rebuilt[m].key = file[Row(n)].key)
           /\ \A m, n \in Incoming :
                  ~(/\ m # n /\ file[Row(n)].key # None
                    /\ file[Row(m)].key = file[Row(n)].key)
  <1>0. \A n \in Incoming : /\ Row(n) \in DOMAIN file /\ file[Row(n)].name = n
                            /\ Row(n) \in Nat /\ ~Clashes(Row(n))
    BY RowOfName, FilesAreRows DEF Refused
  <1>1. ASSUME NEW n \in Incoming, n \in Taken PROVE n \in Configured
    <2>1. TableBefore(Row(n))[n] = Kept[n]
      BY <1>1, <1>0 DEF TableBefore, Taken
    <2>2. n \notin Removed /\ Kept[n] = peers[n] /\ peers[n] # None
      BY <1>1 DEF Kept, Removed, Taken
    <2> QED
      BY <1>0, <2>1, <2>2 DEF Clashes
  <1>2. ASSUME NEW n \in Incoming, NEW m \in Names \ Incoming, Rebuilt[m] # None,
               file[Row(n)].key # None, Rebuilt[m].key = file[Row(n)].key
        PROVE  FALSE
    <2>1. TableBefore(Row(n))[m] = Rebuilt[m]
      BY DEF TableBefore, Rebuilt
    <2>2. m \in Names \ {n}
      OBVIOUS
    <2> QED
      BY <1>0, <1>2, <2>1, <2>2 DEF Clashes
  <1>3. ASSUME NEW m \in Incoming, NEW n \in Incoming, Row(m) < Row(n),
               file[Row(n)].key # None, file[Row(m)].key = file[Row(n)].key
        PROVE  FALSE
    <2>1. m \in Names \ {n}
      BY <1>3, <1>0, FilesAreRows
    <2>2. TableBefore(Row(n))[m] = Rewritten(Row(m))
      BY <1>3, <2>1 DEF TableBefore
    <2>3. Rewritten(Row(m)) # None /\ Rewritten(Row(m)).key = file[Row(m)].key
      BY <1>0, RewrittenIsPeer, EnrollmentAssumption
    <2> QED
      BY <1>0, <1>3, <2>1, <2>2, <2>3 DEF Clashes
  <1>4. \A m, n \in Incoming : m # n => Row(m) < Row(n) \/ Row(n) < Row(m)
    BY <1>0
  <1> QED
    BY <1>1, <1>2, <1>3, <1>4

-----------------------------------------------------------------------------
(* The shapes of the tables.                                               *)

\* A request of the table, an invite, a challenge and a peer are records.
LEMMA RowsAreRecords ==
    ASSUME Shapes
    PROVE  /\ \A t \in Threads : requests[t] # None => requests[t] \in Request
           /\ \A i \in Invites : invites[i] # None => invites[i] \in Invitation
           /\ \A c \in Nonces : challenges[c] # None => challenges[c] \in Ticket
           /\ \A n \in Names : peers[n] # None => peers[n] \in Peer
  BY DEF Shapes

\* What an enrollment that counts a use leaves of the invite's row.
LEMMA CountedUseRow ==
    ASSUME Shapes, NEW t \in Threads, requests[t] # None,
           requests[t].invite \in Invites, invites[requests[t].invite] # None
    PROVE  LET row == CountedUse(requests[t])
               was == invites[requests[t].invite]
           IN row \in Invitation /\ row.uses = was.uses + 1 /\ row.max = was.max /\ row.by = was.by
  <1> DEFINE was == invites[requests[t].invite]
  <1>1. was \in Invitation /\ requests[t].key \in Keys
    BY RowsAreRecords DEF Request
  <1>2. (IF Claims(requests[t]) THEN requests[t].key ELSE was.claim) \in Keys \cup {None}
    BY <1>1 DEF Invitation
  <1> DEFINE claim == IF Claims(requests[t]) THEN requests[t].key ELSE was.claim
  <1>3. CountedUse(requests[t]) = [was EXCEPT !.uses = was.uses + 1, !.claim = claim]
    BY DEF CountedUse
  <1>4. claim \in Keys \cup {None}
    BY <1>2
  <1> HIDE DEF was, claim
  <1> DEFINE used == [was EXCEPT !.uses = was.uses + 1]
             row == [used EXCEPT !.claim = claim]
  <1>5. row \in Invitation /\ row.uses = was.uses + 1 /\ row.max = was.max /\ row.by = was.by
    <2>1. used \in Invitation /\ used.uses = was.uses + 1 /\ used.max = was.max /\ used.by = was.by
      BY <1>1 DEF Invitation
    <2> HIDE DEF used
    <2> QED BY <1>4, <2>1 DEF Invitation
  <1>6. CountedUse(requests[t]) = row
    BY <1>3
  <1> HIDE DEF row
  <1> QED BY <1>5, <1>6, Zenon DEF was

\* An enrollment returns a name of the peers: that of the key, or one that is not taken
\* and, unless it was drawn with a suffix, not retired.
LEMMA AssignedNames ==
    ASSUME Shapes, NEW q \in Request, NEW n \in Assignable(q.want, q.key)
    PROVE  /\ n \in Names
           /\ n \in RowsOf(q.key) \/ (RowsOf(q.key) = {} /\ n \notin Taken)
           /\ n \in Taken \/ n \notin retired \/ n \in Suffixed
  <1>1. q.want \in Wanted \cup {None}
    BY DEF Request
  <1>2. FreeGuests \subseteq Names /\ FreeGuests \cap (Taken \cup retired) = {}
    BY DEF FreeGuests, Names
  <1>3. CASE RowsOf(q.key) # {}
    BY <1>3 DEF Assignable, RowsOf, Taken
  <1>4. CASE RowsOf(q.key) = {} /\ q.want = None
    BY <1>4, <1>2 DEF Assignable
  <1>5. CASE RowsOf(q.key) = {} /\ q.want # None /\ n = q.want /\ q.want \notin Taken \cup retired
    BY <1>5, <1>1 DEF Names
  <1>6. CASE RowsOf(q.key) = {} /\ q.want # None /\ n \in Drawn(q.want)
    <2>1. q.want \in Wanted /\ Fallback[q.want] \subseteq Suffixed
      BY <1>6, <1>1 DEF Suffixed
    <2>2. n \in Fallback[q.want] \ Taken \/ n \in FreeGuests
      BY <1>6 DEF Drawn
    <2> QED BY <2>1, <2>2, <1>2, <1>6 DEF Names
  <1> QED
    BY <1>3, <1>4, <1>5, <1>6 DEF Assignable

\* The table an enrollment leaves: one row, the others untouched.
LEMMA EnrolledTable ==
    ASSUME Shapes, NEW q \in Request, NEW n \in Names,
           n \in RowsOf(q.key) \/ (RowsOf(q.key) = {} /\ n \notin Taken)
    PROVE  /\ EnrollAs(n, q) \in [Names -> Peer \cup {None}]
           /\ \A m \in Names \ {n} : EnrollAs(n, q)[m] = peers[m]
           /\ EnrollAs(n, q)[n] \in Peer /\ EnrollAs(n, q)[n].key = q.key
           /\ n \in Taken => /\ EnrollAs(n, q)[n].born = peers[n].born
                             /\ EnrollAs(n, q)[n].gate = peers[n].gate
                             /\ peers[n].key = q.key
  <1>1. serial + 1 \in Nat /\ q.key \in Keys /\ q.gate \in Gates /\ peers \in [Names -> Peer \cup {None}]
    BY DEF Shapes, Request
  <1>2. CASE n \in RowsOf(q.key)
    <2>1. peers[n] \in Peer /\ peers[n].key = q.key
      BY <1>2, RowsAreRecords DEF RowsOf, Taken
    <2>2. [peers[n] EXCEPT !.token = serial + 1] \in Peer
      BY <2>1, <1>1 DEF Peer
    <2>3. EnrollAs(n, q) = [peers EXCEPT ![n].token = serial + 1]
      BY <1>2 DEF EnrollAs
    <2>4. EnrollAs(n, q)[n] = [peers[n] EXCEPT !.token = serial + 1]
      BY <2>3, <1>1
    <2>5. \A m \in Names \ {n} : EnrollAs(n, q)[m] = peers[m]
      BY <2>3, <1>1
    <2>6. EnrollAs(n, q) \in [Names -> Peer \cup {None}]
      BY <2>2, <2>3, <1>1
    <2>7. /\ EnrollAs(n, q)[n].key = peers[n].key /\ EnrollAs(n, q)[n].born = peers[n].born
          /\ EnrollAs(n, q)[n].gate = peers[n].gate
      BY <2>1, <2>4 DEF Peer
    <2> QED BY <2>1, <2>2, <2>4, <2>5, <2>6, <2>7
  <1>3. CASE n \notin RowsOf(q.key)
    <2> DEFINE row == [key |-> q.key, token |-> serial + 1, gate |-> q.gate, born |-> serial + 1]
    <2>1. row \in Peer
      BY <1>1 DEF Peer
    <2>2. EnrollAs(n, q) = [peers EXCEPT ![n] = row]
      BY <1>3 DEF EnrollAs
    <2>3. n \notin Taken /\ row.key = q.key
      BY <1>3
    <2> QED BY <2>1, <2>2, <2>3, <1>1
  <1> QED BY <1>2, <1>3

-----------------------------------------------------------------------------
(* Which actions write what.                                               *)

Enrolls == \E t \in Threads, n \in Names : Enroll(t, n)
Begins == \E t \in Threads, route \in {"redeem", "enroll", "handshake"}, gate \in Gates,
             i \in Invites \cup {None}, k \in Keys, want \in Wanted \cup {None}, c \in Nonces :
             Begin(t, route, gate, i, k, want, c)
Challenges == \E c \in Nonces, kind \in {"legacy", "invite", "pow", "open"},
                 i \in Invites \cup {None} : Challenge(c, kind, i)

\* The steps of the system.
LEMMA AnyStep ==
    ASSUME [Next]_vars
    PROVE  \/ Start \/ Stop \/ EditFile \/ Reap \/ Tick
           \/ \E i \in Invites, x \in Inviters : Mint(i, x)
           \/ \E i \in Invites : Revoke(i)
           \/ Challenges \/ Begins \/ Enrolls
           \/ \E t \in Threads : Spend(t) \/ GiveUp(t) \/ Publish(t)
           \/ (\E p \in paired : Part(p)) \/ (\E n \in Mailed : Send(n))
           \/ UNCHANGED vars
  BY DEF Next, Serves, Challenges, Begins, Enrolls

\* The peers are written by a start and by an enrollment, the mail by a start and a
\* send, the set of names by a start, a stop and the last step of a request.
LEMMA WhoWritesRows ==
    ASSUME [Next]_vars
    PROVE  /\ Start \/ Enrolls \/ UNCHANGED <<peers, retired>>
           /\ Start \/ (\E n \in Mailed : Send(n)) \/ UNCHANGED mail
           /\ Start \/ Stop \/ (\E t \in Threads : Publish(t)) \/ UNCHANGED <<up, cached>>
           /\ Start \/ Stop \/ up' = up
           /\ EditFile \/ file' = file
           /\ Start \/ Enrolls \/ serial' = serial
           /\ Tick \/ now' = now
  <1>1. CASE Start \/ Stop \/ EditFile \/ Reap \/ Tick
    BY <1>1 DEF Start, Stop, EditFile, Reap, Tick, stored, history
  <1>2. CASE \E i \in Invites, x \in Inviters : Mint(i, x)
    BY <1>2 DEF Mint, stored, history
  <1>3. CASE \E i \in Invites : Revoke(i)
    BY <1>3 DEF Revoke, stored, history
  <1>4. CASE Challenges
    BY <1>4 DEF Challenges, Challenge, stored, history
  <1>5. CASE Begins
    BY <1>5 DEF Begins, Begin, stored, history
  <1>6. CASE \E t \in Threads : Spend(t) \/ GiveUp(t) \/ Publish(t)
    BY <1>6 DEF Spend, GiveUp, Publish, stored, history
  <1>7. CASE Enrolls
    BY <1>7 DEF Enrolls, Enroll, stored, history
  <1>8. CASE (\E p \in paired : Part(p)) \/ (\E n \in Mailed : Send(n))
    BY <1>8 DEF Part, Send, stored, history
  <1>9. CASE UNCHANGED vars
    BY <1>9 DEF vars, stored, history
  <1> QED
    BY <1>1, <1>2, <1>3, <1>4, <1>5, <1>6, <1>7, <1>8, <1>9, AnyStep

\* Invites are minted, revoked and used, challenges given out, spent and swept; what the
\* history says of both changes with an enrollment alone.
LEMMA WhoWritesTokens ==
    ASSUME [Next]_vars
    PROVE  /\ \/ Enrolls
              \/ \E i \in Invites, x \in Inviters : Mint(i, x)
              \/ \E i \in Invites : Revoke(i)
              \/ UNCHANGED invites
           /\ Enrolls \/ UNCHANGED <<won, entered>>
           /\ Challenges \/ Reap \/ (\E t \in Threads : Spend(t)) \/ UNCHANGED challenges
           /\ \/ Stop \/ Begins \/ Enrolls
              \/ \E t \in Threads : Spend(t) \/ GiveUp(t) \/ Publish(t)
              \/ UNCHANGED requests
  <1>1. CASE Start \/ Stop \/ EditFile \/ Reap \/ Tick
    BY <1>1 DEF Start, Stop, EditFile, Reap, Tick, stored, history
  <1>2. CASE \E i \in Invites, x \in Inviters : Mint(i, x)
    BY <1>2 DEF Mint, stored, history
  <1>3. CASE \E i \in Invites : Revoke(i)
    BY <1>3 DEF Revoke, stored, history
  <1>4. CASE Challenges
    BY <1>4 DEF Challenges, Challenge, stored, history
  <1>5. CASE Begins
    BY <1>5 DEF Begins, Begin, stored, history
  <1>6. CASE \E t \in Threads : Spend(t) \/ GiveUp(t) \/ Publish(t)
    BY <1>6 DEF Spend, GiveUp, Publish, stored, history
  <1>7. CASE Enrolls
    BY <1>7 DEF Enrolls, Enroll, stored, history
  <1>8. CASE (\E p \in paired : Part(p)) \/ (\E n \in Mailed : Send(n))
    BY <1>8 DEF Part, Send, stored, history
  <1>9. CASE UNCHANGED vars
    BY <1>9 DEF vars, stored, history
  <1> QED
    BY <1>1, <1>2, <1>3, <1>4, <1>5, <1>6, <1>7, <1>8, <1>9, AnyStep

-----------------------------------------------------------------------------
(* The shapes hold.                                                        *)

LEMMA ConstantsHere ==
    /\ Quota \in Nat /\ MaxUses \in Nat /\ Life \in Nat /\ ChallengeTtl \in Nat
    /\ None \notin Keys \cup Names \cup Invites \cup Nonces \cup Gates
    /\ None \notin Peer /\ None \notin Invitation /\ None \notin Ticket /\ None \notin Request
  BY EnrollmentAssumption

\* The tables start empty.
LEMMA ShapesInit == Init => Shapes
  <1> SUFFICES ASSUME Init PROVE Shapes
    OBVIOUS
  <1>1. /\ up \in BOOLEAN /\ file \in Files /\ retired \subseteq Names /\ cached \subseteq Names
        /\ now \in Nat /\ serial \in Nat
    BY DEF Init
  <1>2. /\ peers \in [Names -> Peer \cup {None}]
        /\ invites \in [Invites -> Invitation \cup {None}]
        /\ challenges \in [Nonces -> Ticket \cup {None}]
        /\ requests \in [Threads -> Request \cup {None}]
    BY DEF Init
  <1>3. mail \in [Names -> SUBSET Nat]
    BY DEF Init
  <1>4. won \in [Nonces -> Nat] /\ entered \in [Invites -> Nat]
    BY DEF Init
  <1> QED BY <1>1, <1>2, <1>3, <1>4 DEF Shapes

\* What an enrollment is: the request it ends, and the rows it writes.
LEMMA EnrollReads ==
    ASSUME Shapes, NEW t \in Threads, NEW n \in Names, Enroll(t, n)
    PROVE  /\ requests[t] \in Request /\ requests[t] # None /\ requests[t].stage = "spent"
           /\ n \in Assignable(requests[t].want, requests[t].key)
           /\ n \in RowsOf(requests[t].key) \/ (RowsOf(requests[t].key) = {} /\ n \notin Taken)
           /\ peers' = EnrollAs(n, requests[t])
           /\ peers' \in [Names -> Peer \cup {None}]
           /\ peers'[n] \in Peer /\ peers'[n].key = requests[t].key
           /\ \A m \in Names \ {n} : peers'[m] = peers[m]
           /\ Taken' = Taken \cup {n}
           /\ requests' = [requests EXCEPT ![t].stage = "written", ![t].name = n]
           /\ requests'[t] \in Request /\ requests'[t].stage = "written" /\ requests'[t].name = n
           /\ \A s \in Threads \ {t} : requests'[s] = requests[s]
  <1> DEFINE q == requests[t]
  <1>1. q \in Request /\ q # None /\ q.stage = "spent" /\ n \in Assignable(q.want, q.key)
    BY RowsAreRecords DEF Enroll
  <1>2. n \in RowsOf(q.key) \/ (RowsOf(q.key) = {} /\ n \notin Taken)
    BY <1>1, AssignedNames
  <1>3. peers' = EnrollAs(n, q) /\ requests' = [requests EXCEPT ![t].stage = "written", ![t].name = n]
    BY DEF Enroll
  <1>4. /\ peers' \in [Names -> Peer \cup {None}] /\ peers'[n] \in Peer /\ peers'[n].key = q.key
        /\ \A m \in Names \ {n} : peers'[m] = peers[m]
    BY <1>1, <1>2, <1>3, EnrolledTable
  <1>5. Taken' = Taken \cup {n}
    BY <1>4, ConstantsHere DEF Taken
  <1>6. requests'[t] = [[q EXCEPT !.stage = "written"] EXCEPT !.name = n]
    BY <1>3 DEF Shapes
  <1>7. requests'[t] \in Request /\ requests'[t].stage = "written" /\ requests'[t].name = n
    BY <1>1, <1>6 DEF Request
  <1>8. \A s \in Threads \ {t} : requests'[s] = requests[s]
    BY <1>3 DEF Shapes
  <1> HIDE DEF q
  <1> QED
    BY <1>1, <1>2, <1>3, <1>4, <1>5, <1>7, <1>8 DEF q

\* A counter that goes up by one at a place stays a function to the naturals.
LEMMA CountedUp ==
    ASSUME NEW S, NEW f \in [S -> Nat], NEW x
    PROVE  [f EXCEPT ![x] = @ + 1] \in [S -> Nat]
  <1>1. CASE x \in S
    <2>1. f[x] + 1 \in Nat
      BY <1>1
    <2> QED BY <2>1
  <1>2. CASE x \notin S
    <2>1. [f EXCEPT ![x] = @ + 1] = f
      BY <1>2
    <2> QED BY <2>1
  <1> QED BY <1>1, <1>2

\* Every step keeps the shapes.
LEMMA ShapesStep ==
    ASSUME Shapes, WrittenAreRows, ChallengesKnown, [Next]_vars
    PROVE  Shapes'
  <1>1. up' \in BOOLEAN
    BY WhoWritesRows DEF Shapes, Start, Stop
  <1>2. file' \in Files
    BY WhoWritesRows DEF Shapes, EditFile
  <1>3. peers' \in [Names -> Peer \cup {None}]
    <2>1. CASE Start
      BY <2>1, RebuiltShape DEF Start
    <2>2. CASE Enrolls
      BY <2>2, EnrollReads DEF Enrolls
    <2> QED BY <2>1, <2>2, WhoWritesRows DEF Shapes
  <1>4. retired' \subseteq Names
    <2>1. CASE Start
      BY <2>1 DEF Start, Shapes, Removed, Configured, Taken
    <2>2. CASE Enrolls
      BY <2>2 DEF Enrolls, Enroll, Shapes
    <2> QED BY <2>1, <2>2, WhoWritesRows DEF Shapes
  <1>5. cached' \subseteq Names
    <2>1. ASSUME NEW t \in Threads, Publish(t) PROVE cached' \subseteq Names
      BY <2>1 DEF Publish, WrittenAreRows, Written, Taken, Shapes
    <2> QED BY <2>1, WhoWritesRows DEF Start, Stop, Shapes
  <1>6. invites' \in [Invites -> Invitation \cup {None}]
    <2>1. ASSUME NEW i \in Invites, NEW x \in Inviters, Mint(i, x)
          PROVE  invites' \in [Invites -> Invitation \cup {None}]
      <3>1. now + Life \in Nat
        BY ConstantsHere DEF Shapes
      <3> QED BY <2>1, <3>1, ConstantsHere DEF Mint, Shapes, Invitation
    <2>2. ASSUME NEW i \in Invites, Revoke(i)
          PROVE  invites' \in [Invites -> Invitation \cup {None}]
      <3>1. invites[i] \in Invitation
        BY <2>2, RowsAreRecords DEF Revoke
      <3>2. [invites[i] EXCEPT !.revoked = TRUE] \in Invitation
        BY <3>1 DEF Invitation
      <3> QED BY <2>2, <3>2 DEF Revoke, Shapes
    <2>3. ASSUME NEW t \in Threads, NEW n \in Names, Enroll(t, n)
          PROVE  invites' \in [Invites -> Invitation \cup {None}]
      <3>2. CASE CountsUse(requests[t])
        <4>1. /\ Live(requests[t].invite) /\ requests[t] # None
              /\ invites' = [invites EXCEPT ![requests[t].invite] = CountedUse(requests[t])]
          BY <2>3, <3>2 DEF Enroll, Open
        <4>2. requests[t].invite \in Invites => CountedUse(requests[t]) \in Invitation
          BY <4>1, CountedUseRow DEF Live
        <4> QED BY <4>1, <4>2 DEF Shapes
      <3>3. CASE ~CountsUse(requests[t])
        BY <2>3, <3>3 DEF Enroll, Shapes
      <3> QED BY <3>2, <3>3
    <2> QED BY <2>1, <2>2, <2>3, WhoWritesTokens DEF Enrolls, Shapes
  <1>7. challenges' \in [Nonces -> Ticket \cup {None}]
    <2>1. CASE Challenges
      <3>1. PICK c \in Nonces, kind \in {"legacy", "invite", "pow", "open"}, i \in Invites \cup {None} :
              Challenge(c, kind, i)
        BY <2>1 DEF Challenges
      <3>2. now + ChallengeTtl \in Nat
        BY ConstantsHere DEF Shapes
      <3> QED BY <3>1, <3>2 DEF Challenge, Shapes, Ticket
    <2>2. CASE Reap
      <3>1. Gone \in Ticket
        BY DEF Gone, Ticket
      <3> QED BY <2>2, <3>1 DEF Reap, Shapes
    <2>3. ASSUME NEW t \in Threads, Spend(t) PROVE challenges' \in [Nonces -> Ticket \cup {None}]
      <3>1. requests[t].nonce \in Nonces
        BY <2>3, RowsAreRecords DEF Spend, Request
      <3>2. \A c \in Nonces : challenges[c] # None => [challenges[c] EXCEPT !.used = TRUE] \in Ticket
        BY RowsAreRecords DEF Ticket
      <3>3. challenges[requests[t].nonce] # None
        BY <2>3 DEF Spend, ChallengesKnown
      <3> QED BY <2>3, <3>1, <3>2, <3>3 DEF Spend, Shapes
    <2> QED BY <2>1, <2>2, <2>3, WhoWritesTokens DEF Shapes
  <1>8. requests' \in [Threads -> Request \cup {None}]
    <2>1. CASE Begins
      <3>1. PICK t \in Threads, route \in {"redeem", "enroll", "handshake"}, gate \in Gates,
                 i \in Invites \cup {None}, k \in Keys, want \in Wanted \cup {None}, c \in Nonces :
              Begin(t, route, gate, i, k, want, c)
        BY <2>1 DEF Begins
      <3>2. [route |-> route, gate |-> gate, invite |-> i, key |-> k, want |-> want,
             nonce |-> c, at |-> now, stage |-> "read", name |-> None] \in Request
        BY DEF Request, Shapes
      <3> QED BY <3>1, <3>2 DEF Begin, Shapes
    <2>2. CASE Enrolls
      <3>1. PICK t \in Threads, n \in Names : Enroll(t, n)
        BY <2>2 DEF Enrolls
      <3>2. requests'[t] \in Request /\ \A s \in Threads \ {t} : requests'[s] = requests[s]
        BY <3>1, EnrollReads
      <3>3. requests' = [requests EXCEPT ![t].stage = "written", ![t].name = n]
        BY <3>1, EnrollReads
      <3>4. requests' = [s \in Threads |-> requests'[s]]
        BY <3>3 DEF Shapes
      <3>5. \A s \in Threads : requests'[s] \in Request \cup {None}
        BY <3>2 DEF Shapes
      <3> HIDE <3>3
      <3> QED BY <3>4, <3>5
    <2>3. ASSUME NEW t \in Threads, Spend(t) PROVE requests' \in [Threads -> Request \cup {None}]
      <3>1. requests[t] \in Request
        BY <2>3, RowsAreRecords DEF Spend
      <3>2. [requests[t] EXCEPT !.stage = "spent"] \in Request
        BY <3>1 DEF Request
      <3> QED BY <2>3, <3>2 DEF Spend, Shapes
    <2>4. ASSUME NEW t \in Threads, GiveUp(t) \/ Publish(t) PROVE requests' \in [Threads -> Request \cup {None}]
      BY <2>4 DEF GiveUp, Publish, Shapes
    <2>5. CASE Stop
      BY <2>5 DEF Stop, Shapes
    <2> QED BY <2>1, <2>2, <2>3, <2>4, <2>5, WhoWritesTokens DEF Shapes
  <1>9. mail' \in [Names -> SUBSET Nat]
    <2>1. ASSUME NEW n \in Mailed, Send(n) PROVE mail' \in [Names -> SUBSET Nat]
      <3>1. n \in Names /\ peers[n] # None
        BY <2>1 DEF Send, Shapes
      <3>2. peers[n].born \in Nat
        BY <3>1, RowsAreRecords DEF Peer
      <3> QED BY <2>1, <3>1, <3>2 DEF Send, Shapes
    <2>2. CASE Start
      BY <2>2 DEF Start, Shapes
    <2> QED BY <2>1, <2>2, WhoWritesRows DEF Shapes
  <1>10. now' \in Nat
    BY WhoWritesRows DEF Tick, Shapes
  <1>11. serial' \in Nat
    <2>1. CASE Start
      BY <2>1, FilesAreRows DEF Start, Shapes
    <2>2. CASE Enrolls
      BY <2>2 DEF Enrolls, Enroll, Shapes
    <2> QED BY <2>1, <2>2, WhoWritesRows DEF Shapes
  <1>12. won' \in [Nonces -> Nat] /\ entered' \in [Invites -> Nat]
    <2>1. ASSUME NEW t \in Threads, NEW n \in Names, Enroll(t, n)
          PROVE  won' \in [Nonces -> Nat] /\ entered' \in [Invites -> Nat]
      <3>1. won' = [won EXCEPT ![requests[t].nonce] = @ + 1]
        BY <2>1 DEF Enroll
      <3>2. entered' = entered \/ entered' = [entered EXCEPT ![requests[t].invite] = @ + 1]
        BY <2>1 DEF Enroll
      <3> QED BY <3>1, <3>2, CountedUp DEF Shapes
    <2> QED BY <2>1, WhoWritesTokens DEF Enrolls, Shapes
  <1> QED
    BY <1>1, <1>2, <1>3, <1>4, <1>5, <1>6, <1>7, <1>8, <1>9, <1>10, <1>11, <1>12 DEF Shapes

-----------------------------------------------------------------------------
(* Invites and challenges.                                                 *)

\* Requests that are new or went on: what every other step leaves alone.
LEMMA RequestSteps ==
    ASSUME Shapes, [Next]_vars, NEW t \in Threads, requests'[t] # None
    PROVE  \/ requests'[t] = requests[t]
           \/ /\ requests[t] = None /\ requests'[t].stage = "read"
              /\ requests'[t].nonce \in Nonces /\ challenges[requests'[t].nonce] # None
              /\ requests'[t].gate = "invite" \/ requests'[t].route = "handshake"
                 => requests'[t].invite \in Invites /\ invites[requests'[t].invite] # None
           \/ Spend(t) /\ requests[t] # None /\ requests'[t] = [requests[t] EXCEPT !.stage = "spent"]
           \/ \E n \in Names : /\ Enroll(t, n) /\ requests[t] # None
                               /\ requests'[t] = [requests[t] EXCEPT !.stage = "written", !.name = n]
  <1>1. CASE Stop
    BY <1>1 DEF Stop
  <1>2. CASE Begins
    <2>1. PICK s \in Threads, route \in {"redeem", "enroll", "handshake"}, gate \in Gates,
               i \in Invites \cup {None}, k \in Keys, want \in Wanted \cup {None}, c \in Nonces :
            Begin(s, route, gate, i, k, want, c)
      BY <1>2 DEF Begins
    <2>2. CASE s = t
      <3>1. /\ requests[t] = None /\ challenges[c] # None
            /\ requests'[t] = [route |-> route, gate |-> gate, invite |-> i, key |-> k, want |-> want,
                               nonce |-> c, at |-> now, stage |-> "read", name |-> None]
        BY <2>1, <2>2 DEF Begin, Shapes
      <3>2. gate = "invite" \/ route = "handshake" => i \in Invites /\ invites[i] # None
        BY <2>1 DEF Begin, Begun, RedeemBegins, EnrollBegins, HandshakeBegins, Live
      <3> QED BY <3>1, <3>2
    <2>3. CASE s # t
      BY <2>1, <2>3 DEF Begin, Shapes
    <2> QED BY <2>2, <2>3
  <1>3. CASE Enrolls
    <2>1. PICK s \in Threads, n \in Names : Enroll(s, n)
      BY <1>3 DEF Enrolls
    <2>2. s = t => requests[t] # None /\ requests'[t] = [requests[t] EXCEPT !.stage = "written", !.name = n]
      BY <2>1 DEF Enroll, Shapes
    <2>3. s # t => requests'[t] = requests[t]
      BY <2>1 DEF Enroll, Shapes
    <2> QED BY <2>1, <2>2, <2>3
  <1>4. ASSUME NEW s \in Threads, Spend(s)
        PROVE  \/ requests'[t] = requests[t]
               \/ Spend(t) /\ requests[t] # None /\ requests'[t] = [requests[t] EXCEPT !.stage = "spent"]
    BY <1>4 DEF Spend, Shapes
  <1>5. ASSUME NEW s \in Threads, GiveUp(s) \/ Publish(s)
        PROVE  requests'[t] = requests[t]
    BY <1>5 DEF GiveUp, Publish, Shapes
  <1> QED
    BY <1>1, <1>2, <1>3, <1>4, <1>5, WhoWritesTokens

\* Rows of invites and challenges are not deleted.
LEMMA TokensStay ==
    ASSUME Shapes, ChallengesKnown, [Next]_vars
    PROVE  /\ \A i \in Invites : invites[i] # None => invites'[i] # None
           /\ \A c \in Nonces : challenges[c] # None => challenges'[c] # None
           /\ \A c \in Nonces : Used(c) => Used(c)'
  <1>1. \A i \in Invites : invites[i] # None => invites'[i] # None
    <2>1. ASSUME NEW j \in Invites, NEW x \in Inviters, Mint(j, x), NEW i \in Invites, invites[i] # None
          PROVE  invites'[i] # None
      BY <2>1 DEF Mint, Shapes
    <2>2. ASSUME NEW j \in Invites, Revoke(j), NEW i \in Invites, invites[i] # None
          PROVE  invites'[i] # None
      <3>1. [invites[i] EXCEPT !.revoked = TRUE] \in Invitation
        BY <2>2, RowsAreRecords DEF Invitation
      <3> QED BY <2>2, <3>1, ConstantsHere DEF Revoke, Shapes
    <2>3. ASSUME NEW t \in Threads, NEW n \in Names, Enroll(t, n), NEW i \in Invites, invites[i] # None
          PROVE  invites'[i] # None
      <3>1. i = requests[t].invite => CountedUse(requests[t]) \in Invitation
        BY <2>3, CountedUseRow DEF Enroll
      <3>2. invites' \in {invites, [invites EXCEPT ![requests[t].invite] = CountedUse(requests[t])]}
        BY <2>3 DEF Enroll
      <3> QED BY <2>3, <3>1, <3>2, ConstantsHere DEF Shapes
    <2> QED BY <2>1, <2>2, <2>3, WhoWritesTokens DEF Enrolls
  <1>2. ASSUME NEW c \in Nonces, challenges[c] # None
        PROVE  challenges'[c] # None /\ (challenges[c].used => challenges'[c].used)
    <2>1. CASE Challenges
      <3>1. PICK d \in Nonces, kind \in {"legacy", "invite", "pow", "open"}, i \in Invites \cup {None} :
              Challenge(d, kind, i)
        BY <2>1 DEF Challenges
      <3> QED BY <1>2, <3>1 DEF Challenge, Shapes
    <2>2. CASE Reap
      <3>1. Gone \in Ticket /\ Gone.used
        BY DEF Gone, Ticket
      <3> QED BY <1>2, <2>2, <3>1, ConstantsHere DEF Reap
    <2>3. ASSUME NEW t \in Threads, Spend(t)
          PROVE  challenges'[c] # None /\ (challenges[c].used => challenges'[c].used)
      <3>1. challenges[c] \in Ticket
        BY <1>2, RowsAreRecords
      <3>2. [challenges[c] EXCEPT !.used = TRUE] \in Ticket /\ [challenges[c] EXCEPT !.used = TRUE].used
        BY <3>1 DEF Ticket
      <3>3. \/ challenges'[c] = challenges[c]
            \/ challenges'[c] = [challenges[c] EXCEPT !.used = TRUE]
        BY <2>3 DEF Spend, Shapes
      <3> QED BY <1>2, <3>2, <3>3, ConstantsHere
    <2> QED BY <1>2, <2>1, <2>2, <2>3, WhoWritesTokens
  <1> QED BY <1>1, <1>2 DEF Used

\* A request keeps to an invite that is there.
LEMMA InvitesAreThereStep ==
    ASSUME Shapes, InvitesAreThere, ChallengesKnown, [Next]_vars
    PROVE  InvitesAreThere'
  <1> SUFFICES ASSUME NEW t \in Threads, requests'[t] # None,
                      requests'[t].gate = "invite" \/ requests'[t].route = "handshake"
               PROVE  requests'[t].invite \in Invites /\ invites'[requests'[t].invite] # None
    BY DEF InvitesAreThere
  <1>1. CASE requests[t] = None
    BY <1>1, RequestSteps, TokensStay
  <1>2. CASE requests[t] # None
    <2>1. requests[t] \in Request
      BY <1>2, RowsAreRecords
    <2>2. /\ requests'[t].gate = requests[t].gate /\ requests'[t].route = requests[t].route
          /\ requests'[t].invite = requests[t].invite
      BY <1>2, <2>1, RequestSteps DEF Request
    <2> QED BY <1>2, <2>2, TokensStay DEF InvitesAreThere
  <1> QED BY <1>1, <1>2

\* The uses an invite has lost are the enrollments it let in.
LEMMA UsesCountedStep ==
    ASSUME Shapes, InvitesAreThere, UsesCounted, [Next]_vars
    PROVE  UsesCounted'
  <1>1. ASSUME NEW j \in Invites, NEW x \in Inviters, Mint(j, x) PROVE UsesCounted'
    <2>1. PICK max \in 1..MaxUses, gh \in BOOLEAN, short \in BOOLEAN :
            invites' = [invites EXCEPT ![j] =
                [by |-> x, exp |-> now + Life, max |-> max, uses |-> 0, revoked |-> FALSE,
                 gh |-> gh, short |-> short, claim |-> None]]
      BY <1>1 DEF Mint
    <2>2. invites[j] = None /\ entered' = entered /\ entered[j] = 0
      BY <1>1 DEF Mint, history, UsesCounted
    <2>3. invites'[j] # None
      <3>1. now + Life \in Nat /\ max \in Nat
        BY ConstantsHere DEF Shapes
      <3>2. invites'[j] \in Invitation
        BY <2>1, <3>1 DEF Invitation, Shapes
      <3> QED BY <3>2, ConstantsHere
    <2>4. invites'[j].uses = 0 /\ invites'[j].max \in Nat
      BY <2>1, ConstantsHere DEF Shapes
    <2> QED BY <2>1, <2>2, <2>3, <2>4 DEF UsesCounted, Shapes
  <1>2. ASSUME NEW j \in Invites, Revoke(j) PROVE UsesCounted'
    <2>1. invites[j] \in Invitation /\ entered' = entered /\ invites[j] # None
      BY <1>2, RowsAreRecords DEF Revoke, history
    <2>2. invites' = [invites EXCEPT ![j].revoked = TRUE]
      BY <1>2 DEF Revoke
    <2>3. /\ invites'[j] \in Invitation /\ invites'[j].uses = invites[j].uses
          /\ invites'[j].max = invites[j].max
      BY <2>1, <2>2 DEF Shapes, Invitation
    <2> QED BY <2>1, <2>2, <2>3, ConstantsHere DEF UsesCounted, Shapes
  <1>3. ASSUME NEW t \in Threads, NEW n \in Names, Enroll(t, n) PROVE UsesCounted'
    <2> DEFINE q == requests[t]
    <2>1. CASE CountsUse(q)
      <3>1. /\ Live(q.invite) /\ invites' = [invites EXCEPT ![q.invite] = CountedUse(q)]
            /\ entered' = [entered EXCEPT ![q.invite] = @ + 1]
        BY <1>3, <2>1 DEF Enroll, Open
      <3>2. q.invite \in Invites
        BY <1>3, <2>1 DEF Enroll, CountsUse, InvitesAreThere
      <3>3. invites[q.invite] \in Invitation /\ invites[q.invite] # None
        BY <3>1, <3>2, RowsAreRecords DEF Live
      <3>4. /\ invites'[q.invite] \in Invitation /\ invites'[q.invite].uses = invites[q.invite].uses + 1
            /\ invites'[q.invite].max = invites[q.invite].max
        <4>1. q # None
          BY <1>3 DEF Enroll
        <4> QED BY <3>1, <3>2, <3>3, <4>1, CountedUseRow DEF Shapes
      <3>5. invites[q.invite].uses < invites[q.invite].max
        BY <3>1 DEF Live
      <3>6. entered'[q.invite] = entered[q.invite] + 1 /\ entered[q.invite] = invites[q.invite].uses
        BY <3>1, <3>2, <3>3 DEF Shapes, UsesCounted
      <3>7. \A i \in Invites \ {q.invite} : invites'[i] = invites[i] /\ entered'[i] = entered[i]
        BY <3>1 DEF Shapes
      <3>8. invites'[q.invite].uses <= invites'[q.invite].max
        BY <3>3, <3>4, <3>5 DEF Invitation
      <3> HIDE DEF q
      <3> QED BY <3>3, <3>4, <3>6, <3>7, <3>8, ConstantsHere DEF UsesCounted
    <2>2. CASE ~CountsUse(q)
      BY <1>3, <2>2 DEF Enroll, UsesCounted
    <2> QED BY <2>1, <2>2
  <1>4. CASE UNCHANGED <<invites, entered>>
    BY <1>4 DEF UsesCounted
  <1>5. UNCHANGED invites /\ ~Enrolls => UNCHANGED <<invites, entered>>
    BY WhoWritesTokens
  <1> QED BY <1>1, <1>2, <1>3, <1>4, <1>5, WhoWritesTokens DEF Enrolls

\* Only a request that spent a challenge nobody had spent holds it, and it gives it up
\* when it lets its caller in.
LEMMA ChallengeInvStep ==
    ASSUME Shapes, ChallengeInv, [Next]_vars
    PROVE  ChallengeInv'
  <1> USE DEF ChallengeInv
  <1>1. ChallengesKnown'
    <2> SUFFICES ASSUME NEW t \in Threads, requests'[t] # None
                 PROVE  challenges'[requests'[t].nonce] # None
      BY DEF ChallengesKnown
    <2>1. CASE requests[t] = None
      BY <2>1, RequestSteps, TokensStay
    <2>2. CASE requests[t] # None
      <3>1. requests[t] \in Request
        BY <2>2, RowsAreRecords
      <3>2. requests'[t].nonce = requests[t].nonce /\ requests[t].nonce \in Nonces
        BY <2>2, <3>1, RequestSteps DEF Request
      <3> QED BY <2>2, <3>2, TokensStay DEF ChallengesKnown
    <2> QED BY <2>1, <2>2
  \* What holds of a request that has spent its challenge after the step.
  <1>2. ASSUME NEW t \in Threads, Spent(t)'
        PROVE  /\ requests'[t].nonce = requests[t].nonce /\ requests[t].nonce \in Nonces
               /\ Used(requests[t].nonce)'
               /\ won[requests[t].nonce] = 0
               /\ \/ Spent(t)
                  \/ Spend(t) /\ requests[t] # None /\ ~Used(requests[t].nonce)
    <2>1. CASE requests'[t] = requests[t]
      <3>1. requests[t] \in Request /\ Spent(t)
        BY <1>2, <2>1, RowsAreRecords DEF Spent
      <3> QED BY <2>1, <3>1, TokensStay DEF SpentIsUsed, Request
    <2>2. CASE Spend(t) /\ requests[t] # None /\ requests'[t] = [requests[t] EXCEPT !.stage = "spent"]
      <3>1. requests[t] \in Request /\ ~challenges[requests[t].nonce].used
        BY <2>2, RowsAreRecords DEF Spend, Spendable
      <3>2. requests'[t].nonce = requests[t].nonce /\ requests[t].nonce \in Nonces
        BY <2>2, <3>1 DEF Request
      <3>3. challenges[requests[t].nonce] \in Ticket
        BY <2>2, <3>2, RowsAreRecords DEF ChallengesKnown
      <3>4. challenges'[requests[t].nonce] = [challenges[requests[t].nonce] EXCEPT !.used = TRUE]
        BY <2>2, <3>2 DEF Spend, Shapes
      <3>5. challenges'[requests[t].nonce] \in Ticket /\ challenges'[requests[t].nonce].used
        BY <3>3, <3>4 DEF Ticket
      <3>6. won[requests[t].nonce] = 0
        BY <3>1, <3>2 DEF WonIsUsed, Used
      <3> QED BY <2>2, <3>1, <3>2, <3>5, <3>6, ConstantsHere DEF Used
    <2>3. CASE requests'[t].stage = "read"
      BY <1>2, <2>3 DEF Spent
    <2>4. ASSUME NEW n \in Names, requests[t] # None,
                 requests'[t] = [requests[t] EXCEPT !.stage = "written", !.name = n]
          PROVE  FALSE
      <3>1. requests[t] \in Request
        BY <2>4, RowsAreRecords
      <3>2. requests'[t].stage = "written"
        BY <2>4, <3>1 DEF Request
      <3> QED BY <1>2, <3>2 DEF Spent
    <2>5. requests'[t] # None
      BY <1>2 DEF Spent
    <2> QED BY <2>1, <2>2, <2>3, <2>4, <2>5, RequestSteps
  \* A request that enrolls has spent its challenge, and is the only one.
  <1>3. ASSUME NEW t \in Threads, NEW n \in Names, Enroll(t, n)
        PROVE  /\ Spent(t) /\ requests[t].nonce \in Nonces /\ challenges' = challenges
               /\ won' = [won EXCEPT ![requests[t].nonce] = @ + 1]
               /\ \A s \in Threads : Spent(s)' => s # t /\ Spent(s)
    <2>1. Spent(t) /\ requests[t] \in Request
      BY <1>3, EnrollReads DEF Spent
    <2>2. challenges' = challenges /\ won' = [won EXCEPT ![requests[t].nonce] = @ + 1]
      BY <1>3 DEF Enroll
    <2>3. requests'[t].stage = "written" /\ \A s \in Threads \ {t} : requests'[s] = requests[s]
      BY <1>3, EnrollReads
    <2>4. \A s \in Threads : Spent(s)' => s # t /\ Spent(s)
      BY <2>3 DEF Spent
    <2> QED BY <2>1, <2>2, <2>4 DEF Request
  <1>4. SpentIsUsed'
    <2> SUFFICES ASSUME NEW t \in Threads, Spent(t)'
                 PROVE  Used(requests[t].nonce)' /\ won'[requests'[t].nonce] = 0
      BY DEF SpentIsUsed
    <2>1. CASE Enrolls
      <3>1. PICK s \in Threads, n \in Names : Enroll(s, n)
        BY <2>1 DEF Enrolls
      <3>2. s # t /\ Spent(t) /\ Spent(s)
        BY <3>1, <1>3
      <3>3. requests[s].nonce # requests[t].nonce
        BY <3>2 DEF SpentByOne
      <3>4. won' = [won EXCEPT ![requests[s].nonce] = @ + 1]
        BY <3>1, <1>3
      <3>5. won'[requests[t].nonce] = won[requests[t].nonce]
        BY <1>2, <3>3, <3>4 DEF Shapes
      <3> QED BY <1>2, <3>5
    <2>2. CASE UNCHANGED won
      BY <1>2, <2>2
    <2> QED BY <2>1, <2>2, WhoWritesTokens
  <1>5. SpentByOne'
    <2> SUFFICES ASSUME NEW s \in Threads, NEW t \in Threads, Spent(s)', Spent(t)',
                        requests'[s].nonce = requests'[t].nonce, s # t
                 PROVE  FALSE
      BY DEF SpentByOne
    <2>1. requests[s].nonce = requests[t].nonce
      BY <1>2
    <2>2. CASE Spent(s) /\ Spent(t)
      BY <2>1, <2>2 DEF SpentByOne
    <2>3. CASE Spent(s) /\ ~Used(requests[t].nonce)
      BY <2>1, <2>3 DEF SpentIsUsed
    <2>4. CASE Spent(t) /\ ~Used(requests[s].nonce)
      BY <2>1, <2>4 DEF SpentIsUsed
    <2>5. CASE Spend(s) /\ Spend(t) /\ ~Spent(t)
      <3>1. requests' = [requests EXCEPT ![s].stage = "spent"]
        BY <2>5 DEF Spend
      <3>2. requests'[t] = requests[t]
        BY <3>1 DEF Shapes
      <3> QED BY <2>5, <3>2 DEF Spent
    <2> QED BY <1>2, <2>2, <2>3, <2>4, <2>5
  <1>6. WonIsUsed'
    <2>1. ASSUME NEW t \in Threads, NEW n \in Names, Enroll(t, n) PROVE WonIsUsed'
      <3>1. won[requests[t].nonce] = 0 /\ Used(requests[t].nonce)
        BY <2>1, <1>3 DEF SpentIsUsed
      <3>2. \A c \in Nonces : won'[c] = IF c = requests[t].nonce THEN won[c] + 1 ELSE won[c]
        BY <2>1, <1>3 DEF Shapes
      <3>3. \A c \in Nonces : Used(c) <=> Used(c)'
        BY <2>1, <1>3 DEF Used
      <3> QED BY <3>1, <3>2, <3>3 DEF WonIsUsed
    <2>2. CASE UNCHANGED won
      <3>1. \A c \in Nonces : Used(c) => Used(c)'
        BY TokensStay
      <3> QED BY <2>2, <3>1 DEF WonIsUsed
    <2> QED BY <2>1, <2>2, WhoWritesTokens DEF Enrolls
  <1> QED BY <1>1, <1>4, <1>5, <1>6

-----------------------------------------------------------------------------
(* Rows, names and mail.                                                   *)

\* What a start leaves in the table, by where a name stands.
LEMMA StartReads ==
    ASSUME Shapes, Start
    PROVE  /\ ~up /\ ~Refused /\ peers' = Rebuilt
           /\ \A n \in Incoming : /\ n \in Names /\ n \in Taken'
                                  /\ peers'[n] = Rewritten(Row(n))
                                  /\ peers'[n].key = file[Row(n)].key
                                  /\ peers'[n].gate = "config"
           /\ \A n \in Removed : n \notin Incoming /\ n \notin Taken'
           /\ \A n \in Names \ Incoming : n \notin Removed => peers'[n] = peers[n]
  <1>1. ~up /\ ~Refused /\ peers' = Rebuilt
    BY DEF Start
  <1>2. ASSUME NEW n \in Incoming
        PROVE  /\ n \in Names /\ n \in Taken' /\ peers'[n] = Rewritten(Row(n))
               /\ peers'[n].key = file[Row(n)].key /\ peers'[n].gate = "config"
    <2>1. n \in Names /\ Row(n) \in DOMAIN file /\ peers'[n] = Rewritten(Row(n))
      BY <1>1, RowOfName, FilesAreRows, RebuiltRows
    <2> QED BY <2>1, RewrittenIsPeer, ConstantsHere DEF Taken
  <1>3. ASSUME NEW n \in Removed PROVE n \notin Incoming /\ n \notin Taken'
    <2>1. n \in Names \ Incoming
      BY DEF Removed, Configured, Taken
    <2>2. peers'[n] = None
      BY <1>1, <2>1, RebuiltRows
    <2> QED BY <2>1, <2>2 DEF Taken
  <1>4. \A n \in Names \ Incoming : n \notin Removed => peers'[n] = peers[n]
    BY <1>1, RebuiltRows
  <1> QED BY <1>1, <1>2, <1>3, <1>4

\* One row to a key: a start refuses a file that would give it a second, an enrollment
\* looks the key up first.
LEMMA OneNameAKeyStep ==
    ASSUME Shapes, OneNameAKey, [Next]_vars
    PROVE  OneNameAKey'
  <1>1. CASE Start
    <2> SUFFICES ASSUME NEW m \in Taken', NEW n \in Taken', peers'[m].key # None,
                        peers'[m].key = peers'[n].key, m # n
                 PROVE  FALSE
      BY DEF OneNameAKey
    <2>1. m \in Names /\ n \in Names /\ peers'[m] # None /\ peers'[n] # None
      BY DEF Taken
    <2>2. CASE m \in Incoming /\ n \in Incoming
      BY <1>1, <2>2, StartReads, NotRefused
    <2>3. CASE m \in Incoming /\ n \notin Incoming
      BY <1>1, <2>1, <2>3, StartReads, NotRefused
    <2>4. CASE m \notin Incoming /\ n \in Incoming
      BY <1>1, <2>1, <2>4, StartReads, NotRefused
    <2>5. CASE m \notin Incoming /\ n \notin Incoming
      <3>1. peers'[m] = peers[m] /\ peers'[n] = peers[n]
        BY <1>1, <2>1, <2>5, StartReads
      <3> QED BY <2>1, <3>1 DEF OneNameAKey, Taken
    <2> QED BY <2>2, <2>3, <2>4, <2>5
  <1>2. ASSUME NEW t \in Threads, NEW n \in Names, Enroll(t, n) PROVE OneNameAKey'
    <2>1. /\ n \in RowsOf(requests[t].key) \/ (RowsOf(requests[t].key) = {} /\ n \notin Taken)
          /\ peers'[n].key = requests[t].key /\ Taken' = Taken \cup {n}
          /\ \A m \in Names \ {n} : peers'[m] = peers[m]
      BY <1>2, EnrollReads
    <2>2. ASSUME NEW m \in Taken', m # n, peers'[m].key = peers'[n].key, peers'[n].key # None PROVE FALSE
      <3>1. m \in Taken /\ peers[m].key = requests[t].key
        BY <2>1, <2>2 DEF Taken
      <3>2. n \in Taken /\ peers[n].key = requests[t].key
        BY <2>1, <3>1 DEF RowsOf
      <3> QED BY <2>1, <2>2, <3>1, <3>2 DEF OneNameAKey
    <2>3. \A l, m \in Taken' : l # n /\ m # n => /\ l \in Taken /\ peers'[l] = peers[l]
                                                 /\ m \in Taken /\ peers'[m] = peers[m]
      BY <2>1 DEF Taken
    <2> QED BY <2>2, <2>3 DEF OneNameAKey
  <1>3. CASE UNCHANGED peers
    BY <1>3 DEF OneNameAKey, Taken
  <1> QED BY <1>1, <1>2, <1>3, WhoWritesRows DEF Enrolls

\* No name that was retired comes back, unless it has the form of a suffixed one.
LEMMA DeadNamesStayDeadStep ==
    ASSUME Shapes, DeadNamesStayDead, [Next]_vars
    PROVE  DeadNamesStayDead'
  <1>1. Suffixed' = Suffixed
    BY DEF Suffixed
  <1>2. CASE Start
    <2> SUFFICES ASSUME NEW n \in retired', n \in Taken' PROVE n \in Suffixed
      BY <1>1 DEF DeadNamesStayDead
    <2>1. n \in (retired \cup Removed) \ Incoming
      BY <1>2 DEF Start
    <2>2. n \in Names \ Incoming /\ n \notin Removed /\ n \in retired
      BY <1>2, <2>1, StartReads DEF Taken
    <2>3. n \in Taken
      BY <1>2, <2>2, StartReads DEF Taken
    <2> QED BY <2>2, <2>3 DEF DeadNamesStayDead
  <1>3. ASSUME NEW t \in Threads, NEW n \in Names, Enroll(t, n) PROVE DeadNamesStayDead'
    <2>1. /\ requests[t] \in Request /\ n \in Assignable(requests[t].want, requests[t].key)
          /\ Taken' = Taken \cup {n}
      BY <1>3, EnrollReads
    <2>2. n \in Taken \/ n \notin retired \/ n \in Suffixed
      BY <2>1, AssignedNames
    <2>3. retired' = retired
      BY <1>3 DEF Enroll
    <2> QED BY <1>1, <2>1, <2>2, <2>3 DEF DeadNamesStayDead
  <1>4. CASE UNCHANGED <<peers, retired>>
    BY <1>1, <1>4 DEF DeadNamesStayDead, Taken
  <1> QED BY <1>2, <1>3, <1>4, WhoWritesRows DEF Enrolls

\* A name with mail is a peer, and all of it was sent to the row it has now: a row goes
\* with its mail, and a row of the config that stays keeps its birth.
LEMMA MailIsOwnedStep ==
    ASSUME Shapes, MailIsOwned, [Next]_vars
    PROVE  MailIsOwned'
  <1>1. CASE Start
    <2> SUFFICES ASSUME NEW n \in Names, mail'[n] # {}
                 PROVE  n \in Taken' /\ mail'[n] = {peers'[n].born}
      BY DEF MailIsOwned
    <2>1. mail' = [m \in Names |-> IF m \in Removed THEN {} ELSE mail[m]]
      BY <1>1 DEF Start
    <2>2. n \notin Removed /\ mail'[n] = mail[n] /\ n \in Taken /\ mail[n] = {peers[n].born}
      BY <2>1 DEF MailIsOwned
    <2>3. CASE n \in Incoming
      <3>1. n \in Configured
        BY <1>1, <2>2, <2>3, StartReads, NotRefused
      <3>2. file[Row(n)].name = n /\ peers'[n] = Rewritten(Row(n)) /\ n \in Taken'
        BY <1>1, <2>3, RowOfName, StartReads
      <3>3. peers'[n].born = peers[n].born
        BY <3>1, <3>2 DEF Rewritten
      <3> QED BY <2>2, <3>2, <3>3
    <2>4. CASE n \notin Incoming
      <3>1. peers'[n] = peers[n]
        BY <1>1, <2>2, <2>4, StartReads
      <3> QED BY <2>2, <3>1 DEF Taken
    <2> QED BY <2>3, <2>4
  <1>2. ASSUME NEW t \in Threads, NEW n \in Names, Enroll(t, n) PROVE MailIsOwned'
    <2> DEFINE q == requests[t]
    <2>1. /\ q \in Request /\ (n \in RowsOf(q.key) \/ (RowsOf(q.key) = {} /\ n \notin Taken))
          /\ peers' = EnrollAs(n, q) /\ Taken' = Taken \cup {n}
          /\ \A m \in Names \ {n} : peers'[m] = peers[m]
      BY <1>2, EnrollReads
    <2>2. n \in Taken => peers'[n].born = peers[n].born
      BY <2>1, EnrolledTable
    <2>3. mail' = mail
      BY <1>2 DEF Enroll
    <2>4. \A m \in Taken : peers'[m].born = peers[m].born
      BY <2>1, <2>2 DEF Taken
    <2> HIDE DEF q
    <2> QED BY <2>1, <2>3, <2>4 DEF MailIsOwned
  <1>3. ASSUME NEW n \in Mailed, Send(n), UNCHANGED peers PROVE MailIsOwned'
    <2>1. n \in Taken /\ mail' = [mail EXCEPT ![n] = @ \cup {peers[n].born}]
      BY <1>3 DEF Send, Shapes, Taken
    <2>2. mail'[n] = {peers[n].born}
      BY <2>1 DEF MailIsOwned, Taken, Shapes
    <2>3. \A m \in Names \ {n} : mail'[m] = mail[m]
      BY <2>1 DEF Shapes
    <2> QED BY <1>3, <2>1, <2>2, <2>3 DEF MailIsOwned, Taken
  <1>4. CASE UNCHANGED <<peers, mail>>
    BY <1>4 DEF MailIsOwned, Taken
  <1>5. \A n \in Mailed : Send(n) => UNCHANGED peers
    BY DEF Send
  <1>6. Start \/ Enrolls \/ (\E n \in Mailed : Send(n)) \/ UNCHANGED <<peers, mail>>
    BY WhoWritesRows
  <1> QED BY <1>1, <1>2, <1>3, <1>4, <1>5, <1>6 DEF Enrolls

\* While the process runs no row goes; a row it does not know by name belongs to a
\* request that has written it and is not done.
LEMMA CacheInvStep ==
    ASSUME Shapes, CacheInv, [Next]_vars
    PROVE  CacheInv'
  <1>1. ~Start => Taken \subseteq Taken'
    <2>1. ASSUME NEW t \in Threads, NEW n \in Names, Enroll(t, n) PROVE Taken \subseteq Taken'
      BY <2>1, EnrollReads
    <2>2. UNCHANGED peers => Taken \subseteq Taken'
      BY DEF Taken
    <2> QED BY <2>1, <2>2, WhoWritesRows DEF Enrolls
  <1>2. Start => requests' = requests /\ \A t \in Threads : requests[t] = None
    BY DEF Start, CacheInv, NothingRunsWhenDown
  \* A request that has written its row after the step had done so, or does so now.
  <1>3. ASSUME NEW t \in Threads, Written(t)'
        PROVE  (Written(t) /\ requests'[t] = requests[t]) \/ \E n \in Names : Enroll(t, n)
    <2>1. requests'[t] # None /\ requests'[t].stage = "written"
      BY <1>3 DEF Written
    <2>2. requests[t] # None => [requests[t] EXCEPT !.stage = "spent"].stage = "spent"
      BY RowsAreRecords DEF Request
    <2> QED BY <2>1, <2>2, RequestSteps DEF Written
  <1>4. WrittenAreRows'
    <2> SUFFICES ASSUME NEW t \in Threads, Written(t)' PROVE requests'[t].name \in Taken'
      BY DEF WrittenAreRows
    <2>1. CASE Written(t) /\ requests'[t] = requests[t]
      BY <1>1, <1>2, <2>1 DEF CacheInv, WrittenAreRows, Written
    <2>2. ASSUME NEW n \in Names, Enroll(t, n) PROVE requests'[t].name \in Taken'
      <3>1. Taken' = Taken \cup {n}
        BY <2>2, EnrollReads
      <3>2. requests'[t].name = n
        BY <2>2, EnrollReads
      <3> QED BY <3>1, <3>2
    <2> QED BY <1>3, <2>1, <2>2
  <1>5. NothingRunsWhenDown'
    <2> SUFFICES ASSUME ~up', NEW t \in Threads, requests'[t] # None PROVE FALSE
      BY DEF NothingRunsWhenDown
    <2>1. CASE Stop
      BY <2>1 DEF Stop
    <2>2. CASE ~Stop
      <3>1. ~up
        BY <2>2, WhoWritesRows DEF Start
      <3>2. \A s \in Threads : requests[s] = None
        BY <3>1 DEF CacheInv, NothingRunsWhenDown
      <3>3. ~Begins
        BY <3>1 DEF Begins, Begin
      <3> QED BY <2>2, <3>2, <3>3, WhoWritesTokens DEF Enrolls, Enroll, Spend, GiveUp, Publish
    <2> QED BY <2>1, <2>2
  <1>6. CachedNamesAreRows'
    <2> SUFFICES ASSUME up'
                 PROVE  /\ cached' \subseteq Taken'
                        /\ \A n \in Taken' \ cached' :
                              \E t \in Threads : Written(t)' /\ requests'[t].name = n
      BY DEF CachedNamesAreRows, Written
    <2>1. CASE Start
      BY <2>1 DEF Start, Taken
    <2>2. CASE ~Start
      <3>1. /\ up /\ cached \subseteq Taken
            /\ \A n \in Taken \ cached : \E t \in Threads : Written(t) /\ requests[t].name = n
        BY <2>2, WhoWritesRows DEF Stop, CacheInv, CachedNamesAreRows, Written
      <3>2. ASSUME NEW t \in Threads, Publish(t)
            PROVE  /\ cached' \subseteq Taken'
                   /\ \A n \in Taken' \ cached' :
                         \E s \in Threads : Written(s)' /\ requests'[s].name = n
        <4>1. /\ Written(t) /\ cached' = cached \cup {requests[t].name} /\ Taken' = Taken
              /\ \A s \in Threads \ {t} : requests'[s] = requests[s]
          BY <3>2 DEF Publish, Written, Taken, stored, Shapes
        <4>2. requests[t].name \in Taken
          BY <4>1 DEF CacheInv, WrittenAreRows
        <4> QED BY <3>1, <4>1, <4>2 DEF Written
      <3>3. ASSUME NEW t \in Threads, NEW n \in Names, Enroll(t, n)
            PROVE  /\ cached' \subseteq Taken'
                   /\ \A m \in Taken' \ cached' :
                         \E s \in Threads : Written(s)' /\ requests'[s].name = m
        <4>1. /\ Taken' = Taken \cup {n} /\ requests[t].stage = "spent"
              /\ requests'[t] \in Request /\ requests'[t].stage = "written" /\ requests'[t].name = n
              /\ \A s \in Threads \ {t} : requests'[s] = requests[s]
          BY <3>3, EnrollReads
        <4>2. cached' = cached
          BY <3>3 DEF Enroll
        <4> QED BY <3>1, <4>1, <4>2, ConstantsHere DEF Written
      <3>4. ASSUME UNCHANGED <<cached, peers>>,
                   \A t \in Threads : Written(t) => Written(t)' /\ requests'[t] = requests[t]
            PROVE  /\ cached' \subseteq Taken'
                   /\ \A m \in Taken' \ cached' :
                         \E s \in Threads : Written(s)' /\ requests'[s].name = m
        <4>1. Taken' = Taken
          BY <3>4 DEF Taken
        <4> QED BY <3>1, <3>4, <4>1
      <3>5. ~Stop
        BY DEF Stop
      <3>6. ASSUME ~Enrolls, \A t \in Threads : ~Publish(t)
            PROVE  \A t \in Threads : Written(t) => Written(t)' /\ requests'[t] = requests[t]
        <4>1. Begins => \A t \in Threads : Written(t) => requests'[t] = requests[t]
          BY DEF Begins, Begin, Written, Shapes
        <4>2. \A s, t \in Threads : Spend(s) \/ GiveUp(s) => (Written(t) => requests'[t] = requests[t])
          BY DEF Spend, GiveUp, Written, Shapes
        <4> QED BY <3>5, <3>6, <4>1, <4>2, WhoWritesTokens DEF Written
      <3> QED BY <2>2, <3>2, <3>3, <3>4, <3>5, <3>6, WhoWritesRows DEF Enrolls
    <2> QED BY <2>1, <2>2
  <1> QED BY <1>4, <1>5, <1>6 DEF CacheInv

-----------------------------------------------------------------------------
(* The theorems.                                                           *)

\* A relay that has not started has no peer, no request and no history.
LEMMA EnrollInvInit == Init => EnrollInv
  <1> SUFFICES ASSUME Init PROVE EnrollInv
    OBVIOUS
  <1>1. Shapes
    BY ShapesInit
  <1>2. Taken = {}
    BY DEF Init, Taken
  <1>3. InvitesAreThere /\ UsesCounted
    BY DEF Init, InvitesAreThere, UsesCounted
  <1>4. ChallengeInv
    BY DEF Init, ChallengeInv, ChallengesKnown, SpentIsUsed, SpentByOne, WonIsUsed, Spent
  <1>5. OneNameAKey /\ DeadNamesStayDead /\ MailIsOwned
    BY <1>2 DEF Init, OneNameAKey, DeadNamesStayDead, MailIsOwned
  <1>6. CacheInv
    BY DEF Init, CacheInv, WrittenAreRows, Written, NothingRunsWhenDown, CachedNamesAreRows
  <1> QED BY <1>1, <1>3, <1>4, <1>5, <1>6 DEF EnrollInv

\* Every step keeps the invariant.
LEMMA EnrollInvStep == EnrollInv /\ [Next]_vars => EnrollInv'
  <1> SUFFICES ASSUME EnrollInv, [Next]_vars PROVE EnrollInv'
    OBVIOUS
  <1>1. Shapes'
    BY ShapesStep DEF EnrollInv, CacheInv, ChallengeInv
  <1>2. InvitesAreThere' /\ UsesCounted'
    BY InvitesAreThereStep, UsesCountedStep DEF EnrollInv, ChallengeInv
  <1>3. ChallengeInv' /\ OneNameAKey' /\ DeadNamesStayDead'
    BY ChallengeInvStep, OneNameAKeyStep, DeadNamesStayDeadStep DEF EnrollInv
  <1>4. MailIsOwned' /\ CacheInv'
    BY MailIsOwnedStep, CacheInvStep DEF EnrollInv
  <1> QED BY <1>1, <1>2, <1>3, <1>4 DEF EnrollInv

\* The invariant holds in every state: the shapes of the tables, what requests under
\* way rely on, and what the rows promise.
THEOREM EnrollmentInvariant == Spec => []EnrollInv
  <1> QED BY EnrollInvInit, EnrollInvStep, PTL DEF Spec

\* Whatever requests race for the last use of an invite, whenever it is revoked, its
\* uses are the enrollments it let in and never more than it allows.
THEOREM UsesMatch == Spec => []UsesMatchEnrollments
  <1>1. EnrollInv => UsesMatchEnrollments
    BY DEF EnrollInv, UsesCounted, UsesMatchEnrollments
  <1> QED BY <1>1, EnrollmentInvariant, PTL

\* A challenge lets in one enrollment, however many requests present it and wherever.
THEOREM ChallengeOnce == Spec => []ChallengeWinsOnce
  <1>1. EnrollInv => ChallengeWinsOnce
    BY DEF EnrollInv, ChallengeInv, WonIsUsed, ChallengeWinsOnce
  <1> QED BY <1>1, EnrollmentInvariant, PTL

\* A key is one peer, through racing enrollments, edits of the config file and starts.
THEOREM KeyIsOnePeer == Spec => []OneNameAKey
  <1>1. EnrollInv => OneNameAKey
    BY DEF EnrollInv
  <1> QED BY <1>1, EnrollmentInvariant, PTL

\* A retired name is not a peer's again unless the config takes it back, suffixed forms
\* of names excepted.
THEOREM RetiredStayRetired == Spec => []DeadNamesStayDead
  <1>1. EnrollInv => DeadNamesStayDead
    BY DEF EnrollInv
  <1> QED BY <1>1, EnrollmentInvariant, PTL

\* Queued mail is for the row that holds the name now, the one it was sent to.
THEOREM MailKeepsItsOwner == Spec => []MailStaysWithItsOwner
  <1>1. EnrollInv => MailStaysWithItsOwner
    BY DEF EnrollInv, MailIsOwned, MailStaysWithItsOwner
  <1> QED BY <1>1, EnrollmentInvariant, PTL

\* The set of names /v1/send reads names rows only, and lacks a row only while the
\* request that wrote it is not answered.
THEOREM CacheFollowsTable == Spec => []CachedNamesAreRows
  <1>1. EnrollInv => CachedNamesAreRows
    BY DEF EnrollInv, CacheInv
  <1> QED BY <1>1, EnrollmentInvariant, PTL

\* A peer that enrolled itself keeps its row, its key and its gate in every step: a start
\* refuses a config that names it, and no enrollment takes over a row.
THEOREM EnrolledStays == Spec => EnrolledForGood
  <1>1. EnrollInv /\ [Next]_vars =>
          [\A n \in Taken \ Configured :
              peers'[n] # None /\ peers'[n].key = peers[n].key /\ peers'[n].gate = peers[n].gate]_vars
    <2> SUFFICES ASSUME EnrollInv, [Next]_vars, NEW n \in Taken \ Configured
                 PROVE  peers'[n] # None /\ peers'[n].key = peers[n].key /\ peers'[n].gate = peers[n].gate
      OBVIOUS
    <2>1. n \in Names /\ peers[n] # None /\ Shapes
      BY DEF Taken, EnrollInv
    <2>2. CASE Start
      <3>1. n \notin Incoming /\ n \notin Removed
        BY <2>1, <2>2, StartReads, NotRefused DEF Removed
      <3> QED BY <2>1, <2>2, <3>1, StartReads
    <2>3. ASSUME NEW t \in Threads, NEW m \in Names, Enroll(t, m)
          PROVE  peers'[n] # None /\ peers'[n].key = peers[n].key /\ peers'[n].gate = peers[n].gate
      <3> DEFINE q == requests[t]
      <3>1. /\ q \in Request /\ (m \in RowsOf(q.key) \/ (RowsOf(q.key) = {} /\ m \notin Taken))
            /\ peers' = EnrollAs(m, q) /\ peers'[m] \in Peer /\ peers'[m].key = q.key
            /\ \A l \in Names \ {m} : peers'[l] = peers[l]
        BY <2>1, <2>3, EnrollReads
      <3>2. m \in Taken => peers'[m].gate = peers[m].gate /\ peers[m].key = q.key
        BY <2>1, <3>1, EnrolledTable
      <3> HIDE DEF q
      <3> QED BY <2>1, <3>1, <3>2, ConstantsHere
    <2>4. CASE UNCHANGED peers
      BY <2>1, <2>4
    <2> QED BY <2>2, <2>3, <2>4, WhoWritesRows DEF Enrolls
  <1> QED BY <1>1, EnrollmentInvariant, PTL DEF Spec, EnrolledForGood

\* A reserved name is a peer's only with the key it is pinned to, provided that no draw
\* (a suffixed or guest name) can hit it: a draw is not looked up in reserved_names.
THEOREM ReservedStaysPinned ==
    ASSUME DOMAIN Reserved \cap (Suffixed \cup Guests) = {}
    PROVE  Spec => []ReservedHeld
  <1>1. Init => ReservedHeld
    BY DEF Init, ReservedHeld, Taken
  <1>2. EnrollInv /\ ReservedHeld /\ [Next]_vars => ReservedHeld'
    <2> SUFFICES ASSUME EnrollInv, ReservedHeld, [Next]_vars,
                        NEW n \in DOMAIN Reserved, n \in Taken', peers'[n].gate # "config"
                 PROVE  peers'[n].key = Reserved[n]
      BY DEF ReservedHeld, Configured
    <2>1. n \in Names /\ Shapes
      BY DEF EnrollInv, Taken
    <2>2. peers'[n] = peers[n] => peers'[n].key = Reserved[n]
      BY DEF ReservedHeld, Taken, Configured
    <2>3. CASE Start
      BY <2>1, <2>2, <2>3, StartReads DEF Taken
    <2>4. ASSUME NEW t \in Threads, NEW m \in Names, Enroll(t, m) PROVE peers'[n].key = Reserved[n]
      <3> DEFINE q == requests[t]
      <3>1. /\ q \in Request /\ (m \in RowsOf(q.key) \/ (RowsOf(q.key) = {} /\ m \notin Taken))
            /\ peers' = EnrollAs(m, q) /\ peers'[m].key = q.key /\ m \in Assignable(q.want, q.key)
            /\ \A l \in Names \ {m} : peers'[l] = peers[l]
        BY <2>1, <2>4, EnrollReads
      <3> HIDE DEF q
      <3>2. CASE m # n
        BY <2>1, <2>2, <3>1, <3>2
      <3>3. CASE m = n /\ m \in RowsOf(q.key)
        <4>1. peers'[n].gate = peers[n].gate /\ peers[n].key = q.key /\ n \in Taken
          BY <2>1, <3>1, <3>3, EnrolledTable DEF RowsOf
        <4> QED BY <3>1, <3>3, <4>1 DEF ReservedHeld, Configured
      <3>4. CASE m = n /\ RowsOf(q.key) = {} /\ m \notin Taken
        <4>1. q.want \in Wanted \cup {None}
          BY <3>1 DEF Request
        <4>2. n \notin FreeGuests /\ (q.want \in Wanted => n \notin Drawn(q.want))
          BY DEF FreeGuests, Drawn, Suffixed
        <4>3. n = q.want /\ Pinned(q.want, q.key)
          BY <3>1, <3>4, <4>1, <4>2 DEF Assignable
        <4> QED BY <3>1, <3>4, <4>3 DEF Pinned
      <3> QED BY <3>1, <3>2, <3>3, <3>4
    <2>5. CASE UNCHANGED peers
      BY <2>2, <2>5
    <2> QED BY <2>3, <2>4, <2>5, WhoWritesRows DEF Enrolls
  <1> QED BY <1>1, <1>2, EnrollmentInvariant, PTL DEF Spec

-----------------------------------------------------------------------------
(* The quota of an identity's invites.                                     *)

Out(x) == {i \in Invites : Live(i) /\ invites[i].by = x}

\* Of the invites an identity has out, only a mint adds one.
LEMMA OutGrows ==
    ASSUME Shapes, InvitesAreThere, [Next]_vars, NEW x \in Inviters
    PROVE  \/ Out(x)' \subseteq Out(x)
           \/ \E i \in Invites : /\ i \notin Out(x) /\ Cardinality(Out(x)) < Quota
                                 /\ Out(x)' \subseteq Out(x) \cup {i}
  <1>1. ASSUME NEW i \in Invites, NEW y \in Inviters, Mint(i, y)
        PROVE  \/ Out(x)' \subseteq Out(x)
               \/ /\ i \notin Out(x) /\ Cardinality(Out(x)) < Quota
                  /\ Out(x)' \subseteq Out(x) \cup {i}
    <2>1. /\ i \notin Out(x) /\ now' = now
          /\ \A j \in Invites \ {i} : invites'[j] = invites[j]
      BY <1>1 DEF Mint, Out, Live, Shapes
    <2>2. Out(x)' \subseteq Out(x) \cup {i}
      BY <2>1 DEF Out, Live
    <2>3. CASE x = y
      BY <1>1, <2>1, <2>2, <2>3 DEF Mint, Out
    <2>4. CASE x # y
      <3>1. invites'[i].by = y
        BY <1>1 DEF Mint, Shapes
      <3> QED BY <2>2, <2>4, <3>1 DEF Out
    <2> QED BY <2>3, <2>4
  <1>2. ASSUME NEW i \in Invites, Revoke(i) PROVE Out(x)' \subseteq Out(x)
    <2>1. invites[i] \in Invitation /\ now' = now
      BY <1>2, RowsAreRecords DEF Revoke, history
    <2>2. /\ invites'[i] = [invites[i] EXCEPT !.revoked = TRUE]
          /\ \A j \in Invites \ {i} : invites'[j] = invites[j]
      BY <1>2 DEF Revoke, Shapes
    <2>3. invites'[i].revoked
      BY <2>1, <2>2 DEF Invitation
    <2> QED BY <2>1, <2>2, <2>3 DEF Out, Live
  <1>3. ASSUME NEW t \in Threads, NEW n \in Names, Enroll(t, n) PROVE Out(x)' \subseteq Out(x)
    <2>1. now' = now
      BY <1>3 DEF Enroll
    <2>2. CASE invites' = invites
      BY <2>1, <2>2 DEF Out, Live
    <2>3. CASE CountsUse(requests[t])
      <3> DEFINE i == requests[t].invite
      <3>1. Live(i) /\ invites' = [invites EXCEPT ![i] = CountedUse(requests[t])] /\ i \in Invites
        BY <1>3, <2>3 DEF Enroll, Open, CountsUse, InvitesAreThere
      <3>2. CountedUse(requests[t]).by = invites[i].by
        BY <1>3, <3>1, CountedUseRow DEF Enroll, Live
      <3>3. /\ invites'[i] = CountedUse(requests[t])
            /\ \A j \in Invites \ {i} : invites'[j] = invites[j]
        BY <3>1 DEF Shapes
      <3>4. invites'[i].by = invites[i].by
        BY <3>2, <3>3
      <3> HIDE DEF i
      <3> QED BY <2>1, <3>1, <3>3, <3>4 DEF Out, Live
    <2> QED BY <1>3, <2>2, <2>3 DEF Enroll
  <1>4. CASE UNCHANGED <<invites, now>>
    BY <1>4 DEF Out, Live
  <1>5. CASE Tick
    <2>1. now' = now + 1 /\ invites' = invites /\ now \in Nat
      BY <1>5 DEF Tick, Shapes
    <2>2. \A i \in Invites : Live(i)' => Live(i)
      <3> SUFFICES ASSUME NEW i \in Invites, Live(i)' PROVE Live(i)
        OBVIOUS
      <3>1. invites[i] # None /\ invites[i].exp > now + 1
        BY <2>1 DEF Live
      <3>2. invites[i].exp \in Nat
        BY <3>1, RowsAreRecords DEF Invitation
      <3> QED BY <2>1, <3>1, <3>2 DEF Live
    <2> QED BY <2>1, <2>2 DEF Out
  <1>6. Enrolls \/ (\E i \in Invites, y \in Inviters : Mint(i, y)) \/ (\E i \in Invites : Revoke(i))
        \/ Tick \/ UNCHANGED <<invites, now>>
    BY WhoWritesTokens, WhoWritesRows
  <1> QED BY <1>1, <1>2, <1>3, <1>4, <1>5, <1>6 DEF Enrolls

\* Minting counts and inserts in one transaction, and nothing gives an invite back that
\* was used up, revoked or out of time: an identity has at most its quota out.
THEOREM QuotaKept == Spec => []InvitesWithinQuota
  <1>1. Init => InvitesWithinQuota
    <2> SUFFICES ASSUME Init, NEW x \in Inviters PROVE Cardinality(Out(x)) <= Quota
      BY DEF InvitesWithinQuota, Out
    <2>1. Out(x) = {}
      BY DEF Init, Out, Live
    <2> QED BY <2>1, FS_EmptySet, ConstantsHere
  <1>2. EnrollInv /\ InvitesWithinQuota /\ [Next]_vars => InvitesWithinQuota'
    <2> SUFFICES ASSUME EnrollInv, InvitesWithinQuota, [Next]_vars, NEW x \in Inviters
                 PROVE  Cardinality(Out(x)') <= Quota
      BY DEF InvitesWithinQuota, Out
    <2>1. IsFiniteSet(Out(x)) /\ Cardinality(Out(x)) \in Nat /\ Cardinality(Out(x)) <= Quota
      <3>1. Out(x) \subseteq Invites /\ IsFiniteSet(Invites)
        BY EnrollmentAssumption DEF Out
      <3>2. IsFiniteSet(Out(x))
        BY <3>1, FS_Subset
      <3>3. Cardinality(Out(x)) \in Nat
        BY <3>2, FS_CardinalityType
      <3>4. Cardinality(Out(x)) <= Quota
        BY DEF InvitesWithinQuota, Out
      <3> QED BY <3>2, <3>3, <3>4
    <2>2. CASE Out(x)' \subseteq Out(x)
      <3>1. Cardinality(Out(x)') <= Cardinality(Out(x)) /\ IsFiniteSet(Out(x)')
        BY <2>1, <2>2, FS_Subset
      <3>2. Cardinality(Out(x)') \in Nat
        BY <3>1, FS_CardinalityType
      <3> QED BY <2>1, <3>1, <3>2, ConstantsHere
    <2>3. ASSUME NEW i \in Invites, i \notin Out(x), Cardinality(Out(x)) < Quota,
                 Out(x)' \subseteq Out(x) \cup {i}
          PROVE  Cardinality(Out(x)') <= Quota
      <3>1. IsFiniteSet(Out(x) \cup {i}) /\ Cardinality(Out(x) \cup {i}) = Cardinality(Out(x)) + 1
        BY <2>1, <2>3, FS_AddElement
      <3>2. Cardinality(Out(x)') <= Cardinality(Out(x) \cup {i}) /\ IsFiniteSet(Out(x)')
        BY <2>3, <3>1, FS_Subset
      <3>3. Cardinality(Out(x)') \in Nat
        BY <3>2, FS_CardinalityType
      <3> QED BY <2>1, <2>3, <3>1, <3>2, <3>3, ConstantsHere
    <2>4. Shapes /\ InvitesAreThere
      BY DEF EnrollInv
    <2> QED BY <2>2, <2>3, <2>4, OutGrows
  <1> QED BY <1>1, <1>2, EnrollmentInvariant, PTL DEF Spec

(***************************************************************************)
(* The client's side of an enrollment: Onboard for any commands, bounds    *)
(* and relay keys.  Its challenges are numbers, not the rows above.        *)
(***************************************************************************)
CONSTANTS Guest, Commands, Retried, MaxSeeds, MaxTries, MaxLate, MaxCrashes, MaxRekeys
VARIABLES config, key, proc, rows, pair, issued, late, relayKey, made, crashes, rekeys

Join == INSTANCE Onboard WITH challenges <- issued

Early == {"check", "discover", "identity", "savekey", "saveconfig", "challenge", "post", "wait"}
Has(cfg) == cfg # None /\ cfg.token # None

(* A config with a token is pinned; once the command has seen the relay's  *)
(* key, the file and the command's copy are pinned to that key.            *)
PinInv ==
    /\ Has(config) => config.pin # None
    /\ proc.pc = "check" => Join!Cfg = config
    /\ proc.pc # "idle" /\ Has(config) => Has(Join!Cfg)
    /\ proc.pc \notin {"idle", "check"} => proc.fp # None
    /\ proc.pc \notin {"idle", "check"} => \A c \in {config, Join!Cfg} : Has(c) => c.pin = proc.fp
    /\ proc.pc \notin {"idle", "check", "discover", "identity"} => Join!Cfg # None

(* Until the answer is applied the command's name is the file's; after it, *)
(* the one that was asked for, if one was.                                 *)
NameInv ==
    /\ proc.pc \in Early => Join!NameOf(config) = Join!NameOf(Join!Cfg)
    /\ proc.pc \in {"resavekey", "resaveconfig"} =>
         \/ Join!NameOf(Join!Cfg) = Join!NameOf(config)
         \/ proc.cmd.want \in {None, Join!NameOf(Join!Cfg)}

(* A redemption on live credentials carries challenge 0 and a token, and   *)
(* is never answered with another one.                                     *)
TalkInv ==
    /\ \A r \in late : r.step = "post" /\ r.chal = 0 => r.token # None
    /\ proc.pc \in Early \ {"post", "wait"} => proc.chal = 0
    /\ proc.pc \in {"post", "wait"} => (Join!ByCredentials <=> proc.chal = 0)
    /\ proc.pc = "wait" /\ Join!ByCredentials /\ proc.answer # None => proc.answer.token = None
    /\ proc.pc \in {"accept", "waitaccept"} => Join!Kind = "handshake"

JoinInv == Join!TypeOK /\ PinInv /\ NameInv /\ TalkInv

LEMMA SameCardinality ==
    ASSUME NEW S
    PROVE  Join!IsFiniteSet(S) = IsFiniteSet(S) /\ Join!Cardinality(S) = Cardinality(S)
<1>1. Join!IsFiniteSet(S) = IsFiniteSet(S)
    BY DEF Join!IsFiniteSet, IsFiniteSet
<1>2. Join!Cardinality(S) = Cardinality(S)
    BY DEF Join!Cardinality, Cardinality
<1> QED BY <1>1, <1>2

LEMMA IdleIsTyped ==
    ASSUME Join!OnboardAssumption
    PROVE  /\ Join!Idle \in Join!Procs /\ Join!Idle.pc = "idle" /\ Join!Idle.chal = 0
           /\ \A c \in Commands, f \in Join!Configs \union {None} :
                [Join!Idle EXCEPT !.pc = "check", !.cmd = c, !.cfg = f] \in Join!Procs
<1>1. 0 \in 0..(MaxLate + 1)
    BY DEF Join!OnboardAssumption
<1> QED BY <1>1 DEF Join!Idle, Join!Procs, Join!Points, Join!Pins

LEMMA JoinInit == ASSUME Join!OnboardAssumption, Join!Init PROVE JoinInv
<1> USE DEF Join!Init
<1>1. Join!Idle \in Join!Procs /\ Join!Idle.pc = "idle"
    BY IdleIsTyped
<1>2. late = {} /\ Join!IsFiniteSet(late) /\ Join!Cardinality(late) <= MaxLate
    BY FS_EmptySet, SameCardinality DEF Join!OnboardAssumption
<1>3. Join!TypeOK
  <2>1. 0 \in 0..MaxSeeds
      BY DEF Join!OnboardAssumption
  <2>2. rows \in [Join!Seeds -> Join!Names]
      BY DEF Join!Names
  <2>3. relayKey \in Join!Pins
      BY DEF Join!Pins, Join!RelayKeys
  <2>4. proc \in Join!Procs /\ proc.pc = "idle"
      BY <1>1
  <2>5. issued \subseteq 1..(MaxLate + 1) /\ late \subseteq Join!Requests
      BY <1>2
  <2> QED BY <1>2, <2>1, <2>2, <2>3, <2>4, <2>5 DEF Join!TypeOK
<1>4. PinInv /\ NameInv /\ TalkInv
    BY <1>2 DEF PinInv, NameInv, TalkInv, Join!Idle, Has, Early
<1> QED BY <1>3, <1>4 DEF JoinInv

(* A command that ends, or dies, leaves the file as it is.                 *)
LEMMA EndsStep ==
    ASSUME Join!OnboardAssumption, JoinInv, Join!Ends,
           UNCHANGED <<config, key, rows, pair, issued, late, relayKey, made>>
    PROVE  JoinInv'
<1>1. Join!Idle \in Join!Procs /\ Join!Idle.pc = "idle" /\ proc' = Join!Idle
    BY IdleIsTyped DEF Join!Ends
<1>2. Join!TypeOK'
    BY <1>1 DEF JoinInv, Join!TypeOK
<1>3. PinInv' /\ NameInv' /\ TalkInv'
    BY <1>1 DEF JoinInv, PinInv, NameInv, TalkInv, Has, Early
<1> QED BY <1>2, <1>3 DEF JoinInv

LEMMA BeginsStep ==
    ASSUME Join!OnboardAssumption, JoinInv, NEW c \in Commands, Join!Begins(c)
    PROVE  JoinInv'
<1>1. /\ proc' = [Join!Idle EXCEPT !.pc = "check", !.cmd = c, !.cfg = config]
      /\ UNCHANGED <<config, key, rows, pair, issued, late, relayKey, made>>
    BY DEF Join!Begins, Join!files, Join!relay, Join!bounds
<1>2. /\ proc' \in Join!Procs /\ proc'.pc = "check" /\ proc'.cfg = config /\ proc'.cmd = c
      /\ proc'.chal = 0
    BY <1>1, IdleIsTyped DEF JoinInv, Join!TypeOK, Join!Procs
<1>3. Join!TypeOK'
    BY <1>1, <1>2 DEF JoinInv, Join!TypeOK
<1>4. PinInv' /\ NameInv' /\ TalkInv'
    BY <1>1, <1>2 DEF JoinInv, PinInv, NameInv, TalkInv, Has, Early, Join!Cfg, Join!NameOf
<1> QED BY <1>3, <1>4 DEF JoinInv

LEMMA ChecksStep ==
    ASSUME Join!OnboardAssumption, JoinInv, Join!ChecksRelay
    PROVE  JoinInv'
<1>1. UNCHANGED <<config, key, rows, pair, issued, late, relayKey, made>> /\ proc.pc = "check"
    BY DEF Join!ChecksRelay, Join!files, Join!relay, Join!bounds
<1>2. CASE Join!Ends
    BY <1>1, <1>2, EndsStep
<1>3. CASE ~Join!Ends
  <2> DEFINE kept == IF Join!Cfg = None THEN Join!Fresh(0) ELSE Join!Cfg
             full == IF proc.cmd.full # None THEN proc.cmd.full ELSE kept.full
             next == IF Join!Kind = "private" THEN "discover" ELSE "identity"
  <2>1. Join!Presents(kept.pin, full) /\ proc' = [proc EXCEPT !.fp = relayKey, !.pc = next]
      BY <1>3 DEF Join!ChecksRelay
  <2>2. relayKey # None /\ kept.pin \in {None, relayKey}
      BY <2>1 DEF Join!Presents
  <2>3. proc \in Join!Procs /\ relayKey \in Join!Pins
      BY DEF JoinInv, Join!TypeOK
  <2>4. /\ proc' \in Join!Procs /\ proc'.pc \in {"discover", "identity"} /\ proc'.fp = relayKey
        /\ proc'.cfg = proc.cfg /\ proc'.cmd = proc.cmd /\ proc'.chal = proc.chal
      BY <2>1, <2>3 DEF Join!Procs, Join!Points
  <2>5. Join!TypeOK'
      BY <1>1, <2>4 DEF JoinInv, Join!TypeOK
  <2>6. Join!Cfg' = Join!Cfg /\ Join!Cfg = config
      BY <1>1, <2>4 DEF JoinInv, PinInv, Join!Cfg
  <2>7. Has(config) => config.pin = relayKey
      BY <2>2, <2>6 DEF JoinInv, PinInv, Has
  <2>8. PinInv'
      BY <1>1, <2>2, <2>4, <2>6, <2>7 DEF JoinInv, PinInv, Has
  <2>9. NameInv' /\ TalkInv'
      BY <1>1, <2>4, <2>6 DEF JoinInv, NameInv, TalkInv, Early, Join!NameOf
  <2> QED BY <2>5, <2>8, <2>9 DEF JoinInv
<1> QED BY <1>2, <1>3

(* The look at a private invitation keeps the verdict on the relay only.   *)
LEMMA DiscoversStep ==
    ASSUME Join!OnboardAssumption, JoinInv, Join!Discovers
    PROVE  JoinInv'
<1>1. UNCHANGED <<config, key, rows, pair, issued, late, relayKey, made>> /\ proc.pc = "discover"
    BY DEF Join!Discovers, Join!files, Join!relay, Join!bounds
<1>2. CASE Join!Ends
    BY <1>1, <1>2, EndsStep
<1>3. CASE ~Join!Ends
  <2>1. /\ proc' = [proc EXCEPT !.pc = "identity", !.cached = relayKey]
        /\ proc \in Join!Procs /\ relayKey \in Join!Pins
      BY <1>3 DEF Join!Discovers, JoinInv, Join!TypeOK
  <2>2. /\ proc' \in Join!Procs /\ proc'.pc = "identity" /\ proc'.fp = proc.fp
        /\ proc'.cfg = proc.cfg /\ proc'.cmd = proc.cmd /\ proc'.chal = proc.chal
      BY <2>1 DEF Join!Procs, Join!Points
  <2>3. Join!TypeOK'
      BY <1>1, <2>2 DEF JoinInv, Join!TypeOK
  <2>4. PinInv'
      BY <1>1, <2>2 DEF JoinInv, PinInv, Has, Join!Cfg
  <2>5. NameInv' /\ TalkInv'
      BY <1>1, <2>2 DEF JoinInv, NameInv, TalkInv, Early, Join!NameOf, Join!Cfg
  <2> QED BY <2>3, <2>4, <2>5 DEF JoinInv
<1> QED BY <1>2, <1>3

(* A step of the command up to the challenge that leaves the file alone.   *)
LEMMA PrepareJoin ==
    ASSUME Join!OnboardAssumption, JoinInv,
           UNCHANGED <<config, rows, pair, issued, late, relayKey>>,
           key' \in Join!Seeds \union {None}, made' \in 0..MaxSeeds,
           proc.pc \in {"identity", "savekey"}, proc' \in Join!Procs,
           proc'.pc \in {"savekey", "saveconfig", "challenge"},
           proc'.fp = proc.fp, proc'.cmd = proc.cmd, proc'.chal = proc.chal,
           proc'.cfg \in Join!Configs,
           Join!NameOf(proc'.cfg) = Join!NameOf(proc.cfg),
           Has(proc'.cfg) = Has(proc.cfg), Has(proc'.cfg) => proc'.cfg.pin = proc.fp
    PROVE  JoinInv'
<1>1. Join!TypeOK'
    BY DEF JoinInv, Join!TypeOK
<1>2. proc'.cfg # None
    BY DEF Join!OnboardAssumption
<1>3. PinInv'
    BY <1>2 DEF JoinInv, PinInv, Has, Join!Cfg
<1>4. NameInv' /\ TalkInv'
    BY DEF JoinInv, NameInv, TalkInv, Early, Join!NameOf, Join!Cfg
<1> QED BY <1>1, <1>3, <1>4 DEF JoinInv

LEMMA Typed ==
    ASSUME Join!OnboardAssumption, JoinInv, proc.pc # "idle"
    PROVE  /\ proc \in Join!Procs /\ proc.cmd \in Commands /\ Join!Cfg = proc.cfg
           /\ Join!Kind \in Join!Kinds /\ proc.cmd.want \in Join!Names /\ proc.cmd.full \in Join!Pins
           /\ proc.cfg \in Join!Configs \union {None}
           /\ proc.pc \notin {"idle", "check", "discover", "identity"} => proc.cfg \in Join!Configs
           /\ proc.chal \in 0..(MaxLate + 1) /\ proc.try \in Nat
           /\ proc.fp \in Join!Pins /\ proc.answer \in Join!Outcomes \union {None}
<1>1. proc \in Join!Procs /\ proc.cmd \in Commands
    BY DEF JoinInv, Join!TypeOK
<1>2. /\ proc.cfg \in Join!Configs \union {None} /\ proc.chal \in 0..(MaxLate + 1)
      /\ proc.try \in Nat /\ proc.fp \in Join!Pins /\ proc.answer \in Join!Outcomes \union {None}
    BY <1>1 DEF Join!Procs
<1>3. proc.cmd.kind \in Join!Kinds /\ proc.cmd.full \in Join!Pins /\ proc.cmd.want \in Join!Names
  <2>1. proc.cmd.kind \in Join!Kinds /\ proc.cmd.full \in Join!Pins
      BY <1>1 DEF Join!OnboardAssumption
  <2>2. proc.cmd.want \in Join!Names
      BY <1>1 DEF Join!Names
  <2> QED BY <2>1, <2>2
<1>4. proc.pc \notin {"idle", "check", "discover", "identity"} => proc.cfg # None
    BY DEF JoinInv, PinInv, Join!Cfg
<1> QED BY <1>1, <1>2, <1>3, <1>4 DEF Join!Cfg, Join!Kind

(* A new identity, or the one on file.                                     *)
LEMMA IdentifiesStep ==
    ASSUME Join!OnboardAssumption, JoinInv, Join!Identifies
    PROVE  JoinInv'
<1>1. /\ UNCHANGED <<config, key, rows, pair, issued, late, relayKey>>
      /\ proc.pc = "identity" /\ key \in Join!Seeds \union {None} /\ made \in 0..MaxSeeds
    BY DEF Join!Identifies, Join!files, Join!relay, JoinInv, Join!TypeOK
<1>2. /\ proc \in Join!Procs /\ Join!Cfg = proc.cfg /\ proc.fp \in Join!Pins
      /\ proc.cfg \in Join!Configs \union {None} /\ proc.cmd.full \in Join!Pins
    BY <1>1, Typed
<1>3. Has(proc.cfg) => proc.cfg.pin = proc.fp
    BY <1>1, <1>2 DEF JoinInv, PinInv
<1>4. {"savekey", "challenge"} \subseteq Join!Points
    BY DEF Join!Points
<1>5. ASSUME Join!Cfg = None, made < MaxSeeds, made' = made + 1,
             proc' = [proc EXCEPT !.pc = "savekey", !.cfg =
                [Join!Fresh(made + 1) EXCEPT !.pin = IF Join!Kind = "private" THEN proc.fp ELSE None]]
      PROVE  JoinInv'
  <2> DEFINE f == [Join!Fresh(made + 1) EXCEPT !.pin = IF Join!Kind = "private" THEN proc.fp ELSE None]
  <2>1. made + 1 \in Join!Seeds /\ made' \in 0..MaxSeeds
      BY <1>1, <1>5 DEF Join!Seeds, Join!OnboardAssumption
  <2>2. f \in Join!Configs /\ f.name = None /\ f.token = None
      BY <1>2, <2>1 DEF Join!Fresh, Join!Configs, Join!Pins, Join!Tokens, Join!Names
  <2> HIDE DEF f
  <2>3. /\ proc' \in Join!Procs /\ proc'.pc = "savekey" /\ proc'.cfg = f /\ proc'.fp = proc.fp
        /\ proc'.cmd = proc.cmd /\ proc'.chal = proc.chal
      BY <1>2, <1>4, <1>5, <2>2 DEF Join!Procs, f
  <2>4. Join!NameOf(f) = Join!NameOf(proc.cfg) /\ Has(f) = Has(proc.cfg) /\ ~Has(f)
      BY <1>2, <1>5, <2>2 DEF Join!NameOf, Has
  <2> QED BY <1>1, <2>1, <2>2, <2>3, <2>4, PrepareJoin
<1>6. ASSUME NEW f \in Join!Configs, NEW pc \in {"savekey", "challenge"},
             Join!Cfg # None, f.name = proc.cfg.name, f.token = proc.cfg.token,
             f.pin = proc.cfg.pin \/ f.pin = proc.fp, made' = made,
             proc' = [proc EXCEPT !.pc = pc, !.cfg = f]
      PROVE  JoinInv'
  <2>1. /\ proc' \in Join!Procs /\ proc'.pc = pc /\ proc'.cfg = f /\ proc'.fp = proc.fp
        /\ proc'.cmd = proc.cmd /\ proc'.chal = proc.chal
      BY <1>2, <1>4, <1>6 DEF Join!Procs
  <2>2. f # None
      BY DEF Join!OnboardAssumption
  <2>3. Join!NameOf(f) = Join!NameOf(proc.cfg) /\ Has(f) = Has(proc.cfg) /\ (Has(f) => f.pin = proc.fp)
      BY <1>2, <1>3, <1>6, <2>2 DEF Join!NameOf, Has
  <2> QED BY <1>1, <1>6, <2>1, <2>3, PrepareJoin
<1> DEFINE pinned == [proc.cfg EXCEPT !.full = IF proc.cmd.full = None THEN @ ELSE proc.cmd.full]
           private == [proc.cfg EXCEPT !.pin = proc.fp]
<1>7. Join!Cfg # None =>
        /\ pinned \in Join!Configs /\ private \in Join!Configs
        /\ pinned.name = proc.cfg.name /\ pinned.token = proc.cfg.token /\ pinned.pin = proc.cfg.pin
        /\ private.name = proc.cfg.name /\ private.token = proc.cfg.token /\ private.pin = proc.fp
    BY <1>2 DEF Join!Configs
<1>8. \/ /\ Join!Cfg = None /\ made < MaxSeeds /\ made' = made + 1
         /\ proc' = [proc EXCEPT !.pc = "savekey", !.cfg =
                [Join!Fresh(made + 1) EXCEPT !.pin = IF Join!Kind = "private" THEN proc.fp ELSE None]]
      \/ Join!Ends /\ made' = made
      \/ Join!Cfg # None /\ made' = made /\ proc' = [proc EXCEPT !.pc = "savekey", !.cfg = private]
      \/ Join!Cfg # None /\ made' = made /\ proc' = [proc EXCEPT !.pc = "challenge", !.cfg = pinned]
    BY <1>2 DEF Join!Identifies
<1> HIDE DEF pinned, private
<1> QED BY <1>1, <1>5, <1>6, <1>7, <1>8, EndsStep

LEMMA SavesKeyStep ==
    ASSUME Join!OnboardAssumption, JoinInv, Join!SavesKey
    PROVE  JoinInv'
<1>1. /\ UNCHANGED <<config, rows, pair, issued, late, relayKey, made>>
      /\ proc.pc \in {"savekey", "resavekey"} /\ key' = proc.cfg.seed
      /\ proc' = [proc EXCEPT !.pc = IF proc.pc = "savekey" THEN "saveconfig" ELSE "resaveconfig"]
    BY DEF Join!SavesKey, Join!relay, Join!bounds, Join!At, Join!Cfg
<1>2. proc \in Join!Procs /\ proc.cfg \in Join!Configs /\ proc.cfg.seed \in Join!Seeds
    BY <1>1, Typed DEF Join!Configs
<1>3. /\ proc' \in Join!Procs /\ proc' = [proc EXCEPT !.pc = proc'.pc]
      /\ proc'.pc = IF proc.pc = "savekey" THEN "saveconfig" ELSE "resaveconfig"
      /\ proc'.cfg = proc.cfg /\ proc'.fp = proc.fp /\ proc'.cmd = proc.cmd /\ proc'.chal = proc.chal
    BY <1>1, <1>2 DEF Join!Procs, Join!Points
<1>4. Join!TypeOK'
    BY <1>1, <1>2, <1>3 DEF JoinInv, Join!TypeOK
<1>5. PinInv' /\ NameInv' /\ TalkInv'
    BY <1>1, <1>3 DEF JoinInv, PinInv, NameInv, TalkInv, Early, Join!Cfg, Join!NameOf, Has
<1> QED BY <1>4, <1>5 DEF JoinInv

LEMMA SavesConfigStep ==
    ASSUME Join!OnboardAssumption, JoinInv, Join!SavesConfig
    PROVE  JoinInv'
<1> DEFINE next == IF proc.pc = "saveconfig" THEN "challenge"
                   ELSE CASE Join!Kind = "handshake" -> "accept"
                          [] Join!Kind = "private" -> "done"
                          [] OTHER -> "hello"
           f == [proc.cfg EXCEPT !.full = IF proc.pc = "saveconfig" /\ proc.cmd.full # None
                                          THEN proc.cmd.full ELSE @]
<1>1. /\ UNCHANGED <<key, rows, pair, issued, late, relayKey, made>>
      /\ proc.pc \in {"saveconfig", "resaveconfig"} /\ config' = proc.cfg
      /\ proc' = [proc EXCEPT !.pc = next, !.cfg.full =
                    IF proc.pc = "saveconfig" /\ proc.cmd.full # None THEN proc.cmd.full ELSE @]
    BY DEF Join!SavesConfig, Join!relay, Join!bounds, Join!Cfg
<1>2. proc \in Join!Procs /\ proc.cfg \in Join!Configs /\ proc.cmd.full \in Join!Pins
    BY <1>1, Typed
<1>3. /\ next \in Join!Points /\ next \in {"challenge", "accept", "done", "hello"}
      /\ next = "challenge" => proc.pc = "saveconfig"
      /\ next = "accept" => Join!Kind = "handshake"
    BY DEF Join!Points
<1>4. /\ f \in Join!Configs /\ f.name = proc.cfg.name /\ f.token = proc.cfg.token
      /\ f.pin = proc.cfg.pin /\ f # None
    BY <1>2 DEF Join!Configs, Join!OnboardAssumption
<1>5. proc' = [proc EXCEPT !.pc = next, !.cfg = f]
    BY <1>1, <1>2 DEF Join!Procs
<1> HIDE DEF next, f
<1>6. /\ proc' \in Join!Procs /\ proc'.pc = next /\ proc'.cfg = f /\ proc'.fp = proc.fp
      /\ proc'.cmd = proc.cmd /\ proc'.chal = proc.chal
    BY <1>2, <1>3, <1>4, <1>5 DEF Join!Procs
<1>7. Join!TypeOK'
    BY <1>1, <1>2, <1>3, <1>6 DEF JoinInv, Join!TypeOK
<1>8. Has(proc.cfg) => proc.cfg.pin = proc.fp /\ proc.fp # None
    BY <1>1 DEF JoinInv, PinInv, Join!Cfg
<1>9. PinInv'
    BY <1>1, <1>3, <1>4, <1>6, <1>8 DEF JoinInv, PinInv, Join!Cfg, Has
<1>10. NameInv' /\ TalkInv'
    BY <1>1, <1>2, <1>3, <1>4, <1>6
    DEF JoinInv, NameInv, TalkInv, Early, Join!Cfg, Join!NameOf, Join!Kind,
        Join!OnboardAssumption
<1> QED BY <1>7, <1>9, <1>10 DEF JoinInv

(* What req() goes ahead with: the config it holds, but for a pin that was *)
(* missing, which is written only onto the file it holds a copy of.        *)
LEMMA VerdictFacts ==
    ASSUME Join!OnboardAssumption, JoinInv, proc.pc \notin {"idle", "check", "discover", "identity"},
           NEW v \in Join!Verdicts
    PROVE  /\ v.cfg \in Join!Configs /\ v.cached \in Join!Pins
           /\ v.cfg.name = proc.cfg.name /\ v.cfg.token = proc.cfg.token
           /\ v.cfg.pin = proc.cfg.pin \/ proc.cfg.pin = None
           /\ v.writes => config = proc.cfg
<1>1. proc \in Join!Procs /\ proc.cfg \in Join!Configs /\ Join!Cfg = proc.cfg
    BY Typed
<1>2. proc.cached \in Join!Pins /\ relayKey \in Join!Pins /\ None \in Join!Pins
    BY <1>1 DEF JoinInv, Join!TypeOK, Join!Procs, Join!Pins
<1>3. \/ v.cfg = proc.cfg /\ v.cached \in {proc.cached, None, relayKey} /\ v.writes = FALSE
      \/ /\ v.cfg = [proc.cfg EXCEPT !.pin = relayKey] /\ v.cached \in {relayKey, None}
         /\ proc.cfg.pin = None /\ config = proc.cfg
    BY <1>1 DEF Join!Verdicts, Join!PinIsCurrent
<1> QED BY <1>1, <1>2, <1>3 DEF Join!Configs

(* A step that goes through req(): the answer may have put the pin onto    *)
(* the file, and the command goes on to point pc.                          *)
LEMMA VerifiedStep ==
    ASSUME Join!OnboardAssumption, JoinInv, proc.pc \notin {"idle", "check", "discover", "identity"},
           NEW v \in Join!Verdicts, NEW next \in Join!Procs, Join!Verified(v, next),
           next.cmd = proc.cmd, next.fp = proc.fp, next.pc \notin {"idle", "check", "discover", "identity"}
    PROVE  /\ proc' \in Join!Procs /\ proc'.cmd = proc.cmd /\ proc'.fp = proc.fp
           /\ proc'.pc = next.pc /\ proc'.chal = next.chal /\ proc'.answer = next.answer
           /\ config' \in Join!Configs \union {None}
           /\ Join!NameOf(proc'.cfg) = Join!NameOf(proc.cfg)
           /\ Join!NameOf(config') = Join!NameOf(config)
           /\ Has(proc'.cfg) = Has(proc.cfg) /\ proc'.cfg.name = proc.cfg.name
           /\ proc'.cfg.token = proc.cfg.token
           /\ config' # config => ~Has(config)
           /\ PinInv'
<1>1. /\ proc \in Join!Procs /\ proc.cfg \in Join!Configs /\ Join!Cfg = proc.cfg /\ proc.cfg # None
      /\ v.cfg # None /\ config \in Join!Configs \union {None} /\ v.cfg \in Join!Configs
    BY Typed, VerdictFacts DEF JoinInv, Join!TypeOK, Join!OnboardAssumption
<1>2. /\ config' = IF v.writes THEN v.cfg ELSE config
      /\ proc' = [next EXCEPT !.cfg = v.cfg, !.cached = v.cached]
    BY DEF Join!Verified
<1>3. /\ proc' \in Join!Procs /\ proc'.cmd = proc.cmd /\ proc'.fp = proc.fp /\ proc'.cfg = v.cfg
      /\ proc'.pc = next.pc /\ proc'.chal = next.chal /\ proc'.answer = next.answer
    BY <1>1, <1>2, VerdictFacts DEF Join!Procs
<1>4. Has(proc.cfg) => proc.cfg.pin = proc.fp /\ proc.fp # None
    BY <1>1 DEF JoinInv, PinInv
<1>5. Has(v.cfg) = Has(proc.cfg) /\ (Has(v.cfg) => v.cfg.pin = proc.fp)
    BY <1>1, <1>4, VerdictFacts DEF Has
<1>6. config' \in {config, v.cfg} /\ (config' # config => config = proc.cfg)
    BY <1>2, VerdictFacts
<1>7. config' # config => ~Has(config)
  <2> SUFFICES ASSUME config' # config, Has(config) PROVE FALSE
      OBVIOUS
  <2>1. config = proc.cfg /\ v.cfg.pin = proc.cfg.pin
      BY <1>4, <1>6, VerdictFacts
  <2>2. \/ v.cfg = proc.cfg
        \/ v.cfg = [proc.cfg EXCEPT !.pin = relayKey] /\ proc.cfg.pin = None
      BY <1>1 DEF Join!Verdicts
  <2> QED BY <1>4, <1>6, <2>1, <2>2
<1>8. PinInv'
    BY <1>1, <1>3, <1>5, <1>6 DEF JoinInv, PinInv, Has, Join!Cfg
<1> QED BY <1>1, <1>3, <1>5, <1>6, <1>7, <1>8, VerdictFacts DEF Join!NameOf

(* A challenge that comes to nothing: at most the pin of a first contact   *)
(* is on the file, onto the config the command began with.                 *)
LEMMA FailedChallenge ==
    ASSUME Join!OnboardAssumption, JoinInv, Join!ChallengeFails
    PROVE  /\ UNCHANGED <<key, rows, pair, issued, late, relayKey, made>> /\ Join!Ends
           /\ config' \in Join!Configs \union {None} /\ (config' = None) = (config = None)
           /\ config # None => config'.seed = config.seed
           /\ Join!NameOf(config') = Join!NameOf(config)
           /\ config' # config => ~Has(config) /\ ~Has(config')
<1>1. PICK v \in Join!Verdicts : config' = IF v.writes THEN v.cfg ELSE config
    BY DEF Join!ChallengeFails
<1>2. /\ UNCHANGED <<key, rows, pair, issued, late, relayKey, made>> /\ Join!Ends
      /\ proc.pc = "challenge"
    BY DEF Join!ChallengeFails, Join!relay, Join!bounds
<1>3. CASE config' = config
    BY <1>2, <1>3 DEF JoinInv, Join!TypeOK
<1>4. CASE config' # config
  <2>1. /\ config' = v.cfg /\ config = proc.cfg /\ proc.cfg \in Join!Configs /\ Join!Cfg = proc.cfg
        /\ v.cfg \in Join!Configs
      BY <1>1, <1>2, <1>4, Typed, VerdictFacts
  <2>2. proc.cfg.pin = None /\ v.cfg = [proc.cfg EXCEPT !.pin = relayKey]
      BY <1>4, <2>1 DEF Join!Verdicts
  <2>3. v.cfg.seed = proc.cfg.seed /\ v.cfg.name = proc.cfg.name /\ v.cfg.token = proc.cfg.token
      BY <2>1, <2>2 DEF Join!Configs
  <2>4. v.cfg # None /\ proc.cfg # None
      BY <2>1 DEF Join!OnboardAssumption
  <2>5. ~Has(config)
      BY <2>1, <2>2 DEF JoinInv, PinInv
  <2> QED BY <1>2, <2>1, <2>3, <2>4, <2>5 DEF Has, Join!NameOf
<1> QED BY <1>3, <1>4

LEMMA ChallengeFailsStep ==
    ASSUME Join!OnboardAssumption, JoinInv, Join!ChallengeFails
    PROVE  JoinInv'
<1>1. Join!Idle \in Join!Procs /\ Join!Idle.pc = "idle" /\ proc' = Join!Idle
    BY IdleIsTyped, FailedChallenge DEF Join!Ends
<1>2. Join!TypeOK'
    BY <1>1, FailedChallenge DEF JoinInv, Join!TypeOK
<1>3. Has(config') => config'.pin # None
    BY FailedChallenge DEF JoinInv, PinInv
<1>4. PinInv' /\ NameInv' /\ TalkInv'
    BY <1>1, <1>3, FailedChallenge DEF JoinInv, PinInv, NameInv, TalkInv, Has, Early
<1> QED BY <1>2, <1>4 DEF JoinInv

LEMMA OntoIsNoLarger ==
    ASSUME NEW S, NEW T, NEW f \in [S -> T], IsFiniteSet(S), \A t \in T : \E s \in S : f[s] = t
    PROVE  IsFiniteSet(T) /\ Cardinality(T) <= Cardinality(S)
<1>1. f \in Surjection(S, T)
    BY DEF Surjection
<1> QED BY <1>1, FS_Surjection

(* One more than the requests under way: a number is free.                 *)
LEMMA ChallengeIsNew ==
    ASSUME Join!OnboardAssumption, JoinInv
    PROVE  Join!NewChallenge \in 1..(MaxLate + 1)
<1>1. IsFiniteSet(late) /\ Cardinality(late) <= MaxLate /\ MaxLate \in Nat
    BY SameCardinality DEF JoinInv, Join!TypeOK, Join!OnboardAssumption
<1>2. IsFiniteSet(Join!Held) /\ Cardinality(Join!Held) <= Cardinality(late)
  <2> DEFINE f == [r \in late |-> r.chal]
  <2>1. f \in [late -> Join!Held] /\ \A t \in Join!Held : \E r \in late : f[r] = t
      BY DEF Join!Held
  <2> HIDE DEF f
  <2> QED BY <1>1, <2>1, OntoIsNoLarger
<1>3. IsFiniteSet(1..(MaxLate + 1)) /\ Cardinality(1..(MaxLate + 1)) = MaxLate + 1
    BY <1>1, FS_Interval
<1>4. Cardinality(late) \in Nat /\ Cardinality(Join!Held) \in Nat
    BY <1>1, <1>2, FS_CardinalityType
<1>5. ~(1..(MaxLate + 1) \subseteq Join!Held)
    BY <1>1, <1>2, <1>3, <1>4, FS_Subset
<1> QED BY <1>5 DEF Join!NewChallenge

LEMMA ChallengeStep ==
    ASSUME Join!OnboardAssumption, JoinInv, Join!GetsChallenge
    PROVE  JoinInv'
<1>1. /\ UNCHANGED <<key, rows, pair, late, relayKey, made>> /\ proc.pc = "challenge"
    BY DEF Join!GetsChallenge, Join!bounds
<1>2. proc \in Join!Procs /\ proc.cfg \in Join!Configs /\ proc.chal = 0 /\ Join!Cfg = proc.cfg
      /\ Join!NameOf(config) = Join!NameOf(Join!Cfg)
    BY <1>1, Typed DEF JoinInv, TalkInv, NameInv, Early
<1>3. CASE Join!ByCredentials /\ Join!At("post") /\ UNCHANGED <<config, issued>>
  <2>1. /\ proc' \in Join!Procs /\ proc'.pc = "post" /\ proc'.cfg = proc.cfg /\ proc'.fp = proc.fp
        /\ proc'.cmd = proc.cmd /\ proc'.chal = 0
      BY <1>2, <1>3 DEF Join!At, Join!Procs, Join!Points
  <2>2. Join!ByCredentials'
      BY <1>3, <2>1 DEF Join!ByCredentials, Join!Kind, Join!Enrolled, Join!Cfg
  <2>3. Join!TypeOK'
      BY <1>1, <1>3, <2>1 DEF JoinInv, Join!TypeOK
  <2>4. PinInv' /\ NameInv' /\ TalkInv'
      BY <1>1, <1>3, <2>1, <2>2
      DEF JoinInv, PinInv, NameInv, TalkInv, Early, Join!Cfg, Join!NameOf, Has
  <2> QED BY <2>3, <2>4 DEF JoinInv
<1>4. CASE ~Join!ByCredentials
  <2>1. PICK v \in Join!Verdicts :
          Join!Verified(v, [proc EXCEPT !.pc = "post", !.chal = Join!NewChallenge])
      BY <1>4 DEF Join!GetsChallenge
  <2> DEFINE next == [proc EXCEPT !.pc = "post", !.chal = Join!NewChallenge]
  <2>2. Join!NewChallenge \in 1..(MaxLate + 1) /\ MaxLate \in Nat
      BY ChallengeIsNew DEF Join!OnboardAssumption
  <2>3. Join!NewChallenge \in 0..(MaxLate + 1) /\ Join!NewChallenge # 0
      BY <2>2
  <2>4. next \in Join!Procs /\ next.pc = "post" /\ next.chal = Join!NewChallenge
        /\ next.cmd = proc.cmd /\ next.fp = proc.fp
      BY <1>2, <2>3 DEF Join!Procs, Join!Points
  <2>5. issued' \subseteq 1..(MaxLate + 1)
      BY <1>4, <2>2 DEF Join!GetsChallenge, JoinInv, Join!TypeOK
  <2> HIDE DEF next
  <2>6. Join!Verified(v, next)
      BY <2>1 DEF next
  <2>7. /\ proc' \in Join!Procs /\ proc'.cmd = proc.cmd /\ proc'.pc = "post"
        /\ proc'.chal = Join!NewChallenge
        /\ config' \in Join!Configs \union {None}
        /\ Join!NameOf(proc'.cfg) = Join!NameOf(proc.cfg)
        /\ Join!NameOf(config') = Join!NameOf(config)
        /\ proc'.cfg.token = proc.cfg.token /\ proc'.cfg.name = proc.cfg.name
        /\ PinInv'
      BY <1>1, <2>4, <2>6, VerifiedStep
  <2>8. ~Join!ByCredentials'
      BY <1>2, <1>4, <2>7 DEF Join!ByCredentials, Join!Kind, Join!Enrolled, Join!Cfg
  <2>9. Join!TypeOK'
      BY <1>1, <2>5, <2>7 DEF JoinInv, Join!TypeOK
  <2>10. NameInv' /\ TalkInv'
      BY <1>1, <1>2, <2>3, <2>7, <2>8 DEF JoinInv, NameInv, TalkInv, Early, Join!Cfg, Join!NameOf
  <2> QED BY <2>7, <2>9, <2>10 DEF JoinInv
<1> QED BY <1>3, <1>4 DEF Join!GetsChallenge

LEMMA SendsStep ==
    ASSUME Join!OnboardAssumption, JoinInv, Join!Sends
    PROVE  JoinInv'
<1>1. /\ UNCHANGED <<key, rows, pair, issued, relayKey, made>> /\ proc.pc \in {"post", "accept"}
      /\ Join!Cardinality(late) < MaxLate /\ late' = late \union {Join!Request}
    BY DEF Join!Sends, Join!bounds
<1>2. proc \in Join!Procs /\ proc.cfg \in Join!Configs /\ Join!Cfg = proc.cfg /\ proc.cmd \in Commands
    BY <1>1, Typed
<1> DEFINE next == [proc EXCEPT !.answer = None,
                      !.pc = IF proc.pc = "post" THEN "wait" ELSE "waitaccept"]
<1>3. /\ next \in Join!Procs /\ next.cmd = proc.cmd /\ next.fp = proc.fp /\ next.chal = proc.chal
      /\ next.answer = None
      /\ next.pc = IF proc.pc = "post" THEN "wait" ELSE "waitaccept"
    BY <1>2 DEF Join!Procs, Join!Points
<1>4. PICK v \in Join!Verdicts : Join!Verified(v, next)
    BY DEF Join!Sends
<1> HIDE DEF next
<1>5. /\ proc' \in Join!Procs /\ proc'.cmd = proc.cmd /\ proc'.pc = next.pc
      /\ proc'.chal = proc.chal /\ proc'.answer = None
      /\ config' \in Join!Configs \union {None}
      /\ Join!NameOf(proc'.cfg) = Join!NameOf(proc.cfg)
      /\ Join!NameOf(config') = Join!NameOf(config)
      /\ proc'.cfg.token = proc.cfg.token /\ proc'.cfg.name = proc.cfg.name
      /\ PinInv'
    BY <1>1, <1>3, <1>4, VerifiedStep
<1>6. Join!Request \in Join!Requests
  <2>1. Join!Wanted \in Join!Names /\ key \in Join!Seeds \union {None}
      BY <1>1, Typed DEF Join!Wanted, Join!Names, JoinInv, Join!TypeOK
  <2>2. proc.cfg.seed \in Join!Seeds /\ proc.cfg.token \in Join!Tokens /\ None \in Join!Tokens
      BY <1>2 DEF Join!Configs, Join!Tokens
  <2>3. 0 \in 0..(MaxLate + 1) /\ proc.chal \in 0..(MaxLate + 1) /\ proc.try \in Nat
      BY <1>1, Typed DEF Join!OnboardAssumption
  <2>4. (IF key = None THEN 0 ELSE key) \in Join!Seeds \union {0}
      BY <2>1
  <2> QED BY <1>1, <1>2, <2>1, <2>2, <2>3, <2>4, Typed DEF Join!Request, Join!Requests
<1>7. Join!Request.step = "post" /\ Join!Request.chal = 0 => Join!Request.token # None
    BY <1>1, <1>2 DEF Join!Request, JoinInv, TalkInv, Join!ByCredentials, Join!Enrolled
<1>8. Join!IsFiniteSet(late') /\ Join!Cardinality(late') <= MaxLate
  <2>1. IsFiniteSet(late) /\ Cardinality(late) < MaxLate /\ MaxLate \in Nat
      BY <1>1, SameCardinality DEF JoinInv, Join!TypeOK, Join!OnboardAssumption
  <2>2. IsFiniteSet(late') /\ Cardinality(late') <= Cardinality(late) + 1 /\ Cardinality(late) \in Nat
    <3>1. Cardinality(late) \in Nat
        BY <2>1, FS_CardinalityType
    <3>2. /\ IsFiniteSet(late \union {Join!Request})
          /\ Cardinality(late \union {Join!Request}) =
               IF Join!Request \in late THEN Cardinality(late) ELSE Cardinality(late) + 1
        BY <2>1, FS_AddElement
    <3> QED BY <1>1, <3>1, <3>2
  <2>3. Cardinality(late') \in Nat
      BY <2>2, FS_CardinalityType
  <2> QED BY <2>1, <2>2, <2>3, SameCardinality
<1>9. Join!TypeOK'
    BY <1>1, <1>2, <1>5, <1>6, <1>8 DEF JoinInv, Join!TypeOK
<1>10. Join!ByCredentials' = Join!ByCredentials
    BY <1>2, <1>5 DEF Join!ByCredentials, Join!Kind, Join!Enrolled, Join!Cfg
<1>11. NameInv' /\ TalkInv'
    BY <1>1, <1>2, <1>3, <1>5, <1>7, <1>10
    DEF JoinInv, NameInv, TalkInv, Early, Join!Cfg, Join!NameOf, Join!Kind
<1> QED BY <1>5, <1>9, <1>11 DEF JoinInv

LEMMA GivesUpStep ==
    ASSUME Join!OnboardAssumption, JoinInv, Join!GivesUp
    PROVE  JoinInv'
<1>1. /\ UNCHANGED <<config, key, rows, pair, issued, late, relayKey, made>>
      /\ proc.pc \in {"wait", "waitaccept"}
    BY DEF Join!GivesUp, Join!files, Join!relay, Join!bounds
<1>2. CASE Join!Ends
    BY <1>1, <1>2, EndsStep
<1>3. CASE ~Join!Ends
  <2>1. /\ proc' = [proc EXCEPT !.pc = "post", !.try = @ + 1, !.answer = None]
        /\ Join!Kind \in {"enroll", "redeem"}
      BY <1>3 DEF Join!GivesUp
  <2>2. proc \in Join!Procs /\ proc.try \in Nat /\ proc.cmd \in Commands
      BY <1>1, Typed
  <2>9. proc.try + 1 \in Nat /\ "post" \in Join!Points
      BY <2>2 DEF Join!Points
  <2>3. /\ proc' \in Join!Procs /\ proc'.pc = "post" /\ proc'.cfg = proc.cfg /\ proc'.fp = proc.fp
        /\ proc'.cmd = proc.cmd /\ proc'.chal = proc.chal
      BY <2>1, <2>2, <2>9 DEF Join!Procs
  <2>4. Join!TypeOK'
      BY <1>1, <2>2, <2>3 DEF JoinInv, Join!TypeOK
  <2>5. proc.pc = "wait" => (Join!ByCredentials' <=> proc'.chal = 0)
      BY <2>3
      DEF JoinInv, TalkInv, Join!ByCredentials, Join!Kind, Join!Enrolled, Join!Cfg
  <2>6. PinInv'
      BY <1>1, <2>3 DEF JoinInv, PinInv, Has, Join!Cfg
  <2>7. proc.pc = "wait"
      BY <1>1, <2>1 DEF JoinInv, TalkInv
  <2> QED BY <1>1, <2>3, <2>4, <2>5, <2>6, <2>7
          DEF JoinInv, NameInv, TalkInv, Early, Join!Cfg, Join!NameOf
<1> QED BY <1>2, <1>3

(* The answer is stored under the name that was asked for, or not at all.  *)
LEMMA AppliesStep ==
    ASSUME Join!OnboardAssumption, JoinInv, Join!Applies
    PROVE  JoinInv'
<1>1. /\ UNCHANGED <<config, key, rows, pair, issued, late, relayKey, made>>
      /\ proc.pc = "wait" /\ proc.answer # None
    BY DEF Join!Applies, Join!files, Join!relay, Join!bounds
<1>2. CASE Join!Ends
    BY <1>1, <1>2, EndsStep
<1>3. CASE ~Join!Ends
  <2> DEFINE out == proc.answer
             token == IF Join!Kind = "private" /\ Join!ByCredentials THEN None ELSE out.token
             name == IF token = None THEN proc.cfg.name ELSE out.name
             f == [proc.cfg EXCEPT !.token = IF token = None THEN @ ELSE token, !.name = name,
                     !.pin = proc.fp]
  <2>1. /\ proc \in Join!Procs /\ proc.cfg \in Join!Configs /\ Join!Cfg = proc.cfg
        /\ proc.cmd \in Commands /\ out \in Join!Outcomes /\ proc.fp \in Join!Pins /\ proc.fp # None
        /\ Join!Kind \in Join!Kinds
      BY <1>1, Typed DEF JoinInv, PinInv
  <2>2. /\ proc' = [proc EXCEPT !.pc = "resavekey", !.answer = None,
               !.cfg.token = IF token = None THEN @ ELSE token,
               !.cfg.name = name, !.cfg.pin = proc.fp]
        /\ Join!Wanted \in {None, name} /\ (token # None \/ Join!Enrolled(proc.cfg))
      BY <1>1, <1>3, <2>1 DEF Join!Applies
  <2>3. /\ f \in Join!Configs /\ f.name = name /\ f.pin = proc.fp /\ f # None
        /\ f.token = IF token = None THEN proc.cfg.token ELSE token
      BY <2>1 DEF Join!Configs, Join!Outcomes, Join!Tokens, Join!OnboardAssumption
  <2>4. f.token # None
      BY <2>2, <2>3 DEF Join!Enrolled
  <2>5. proc' = [proc EXCEPT !.pc = "resavekey", !.answer = None, !.cfg = f]
      BY <2>1, <2>2 DEF Join!Procs
  <2>6. name = proc.cfg.name \/ proc.cmd.want \in {None, name}
    <3>1. CASE Join!ByCredentials
        BY <1>1, <3>1 DEF JoinInv, TalkInv
    <3>2. CASE ~Join!ByCredentials /\ Join!Kind = "redeem"
        BY <2>1, <3>2 DEF Join!OnboardAssumption, Join!Kind
    <3>3. CASE ~Join!ByCredentials /\ Join!Kind # "redeem"
        BY <2>1, <2>2, <3>3 DEF Join!Wanted, Join!ByCredentials, Join!Kinds
    <3> QED BY <3>1, <3>2, <3>3
  <2> HIDE DEF f
  <2>7. /\ proc' \in Join!Procs /\ proc'.pc = "resavekey" /\ proc'.cfg = f /\ proc'.fp = proc.fp
        /\ proc'.cmd = proc.cmd
      BY <2>1, <2>3, <2>5 DEF Join!Procs, Join!Points
  <2> HIDE DEF name, token
  <2>8. Join!TypeOK'
      BY <1>1, <2>1, <2>7 DEF JoinInv, Join!TypeOK
  <2>9. PinInv'
      BY <1>1, <2>1, <2>3, <2>4, <2>7 DEF JoinInv, PinInv, Has, Join!Cfg
  <2>10. Join!NameOf(config) = proc.cfg.name
      BY <1>1, <2>1 DEF JoinInv, NameInv, Early, Join!NameOf, Join!OnboardAssumption
  <2>11. NameInv' /\ TalkInv'
      BY <1>1, <2>3, <2>6, <2>7, <2>10 DEF JoinInv, NameInv, TalkInv, Early, Join!Cfg, Join!NameOf
  <2> QED BY <2>8, <2>9, <2>11 DEF JoinInv
<1> QED BY <1>2, <1>3

LEMMA AcceptedStep ==
    ASSUME Join!OnboardAssumption, JoinInv, Join!Accepted
    PROVE  JoinInv'
<1>1. /\ UNCHANGED <<config, key, rows, pair, issued, late, relayKey, made>>
      /\ proc.pc = "waitaccept" /\ (Join!At("hello") \/ Join!Ends)
    BY DEF Join!Accepted, Join!files, Join!relay, Join!bounds
<1>2. CASE Join!Ends
    BY <1>1, <1>2, EndsStep
<1>3. CASE Join!At("hello")
  <2>1. proc \in Join!Procs /\ proc.cmd \in Commands
      BY <1>1, Typed
  <2>2. /\ proc' \in Join!Procs /\ proc'.pc = "hello" /\ proc'.cfg = proc.cfg /\ proc'.fp = proc.fp
        /\ proc'.cmd = proc.cmd
      BY <1>3, <2>1 DEF Join!At, Join!Procs, Join!Points
  <2>3. Join!TypeOK'
      BY <1>1, <2>1, <2>2 DEF JoinInv, Join!TypeOK
  <2>4. PinInv'
      BY <1>1, <2>2 DEF JoinInv, PinInv, Has, Join!Cfg
  <2>5. NameInv' /\ TalkInv'
      BY <1>1, <2>2 DEF JoinInv, NameInv, TalkInv, Early
  <2> QED BY <2>3, <2>4, <2>5 DEF JoinInv
<1> QED BY <1>1, <1>2, <1>3

(* The relay's answer, for the waiting command or for nobody; a new token  *)
(* makes the one on file and in every request an old one.                  *)
LEMMA AnswerStep ==
    ASSUME Join!OnboardAssumption, JoinInv, NEW r \in late, NEW out \in Join!Outcomes,
           NEW f \in Join!Configs \union {None},
           proc' = [proc EXCEPT !.cfg = f, !.answer = Join!Reply(r, out)],
           Join!NameOf(f) = Join!NameOf(proc.cfg), Has(f) = Has(proc.cfg),
           (f = None) = (proc.cfg = None), Has(f) => f.pin = proc.cfg.pin,
           config' \in Join!Configs \union {None}, Join!NameOf(config') = Join!NameOf(config),
           Has(config') = Has(config), Has(config') => config'.pin = config.pin,
           proc.pc = "check" => f = config',
           late' \subseteq Join!Requests, IsFiniteSet(late'), Cardinality(late') <= MaxLate,
           \A q \in late' : q.step = "post" /\ q.chal = 0 => q.token # None,
           rows' \in [Join!Seeds -> Join!Names], pair' \in {"none", "pending", "active"},
           issued' \subseteq issued, UNCHANGED <<key, relayKey, made>>,
           out.token # None => r.step = "post" /\ r.token = None
    PROVE  JoinInv'
<1>1. proc \in Join!Procs
    BY DEF JoinInv, Join!TypeOK
<1>2. Join!Reply(r, out) \in Join!Outcomes \union {None}
    BY <1>1 DEF Join!Reply, Join!Procs
<1>3. /\ proc' \in Join!Procs /\ proc'.pc = proc.pc /\ proc'.cfg = f /\ proc'.fp = proc.fp
      /\ proc'.cmd = proc.cmd /\ proc'.chal = proc.chal /\ proc'.answer = Join!Reply(r, out)
    BY <1>1, <1>2 DEF Join!Procs
<1>4. Join!TypeOK'
    BY <1>3, SameCardinality DEF JoinInv, Join!TypeOK
<1>5. PinInv'
    BY <1>3 DEF JoinInv, PinInv, Has, Join!Cfg
<1>6. NameInv'
    BY <1>3 DEF JoinInv, NameInv, Join!Cfg
<1>7. proc.pc \in {"post", "wait"} => Join!ByCredentials' = Join!ByCredentials
  <2>1. proc.pc \in {"post", "wait"} => proc.cfg # None
      BY DEF JoinInv, PinInv, Join!Cfg
  <2> QED BY <1>3, <2>1
          DEF Join!ByCredentials, Join!Kind, Join!Enrolled, Join!Cfg, Join!NameOf, Has
<1>8. proc.pc = "wait" /\ Join!ByCredentials /\ Join!Reply(r, out) # None
        => Join!Reply(r, out).token = None
  <2>1. ASSUME proc.pc = "wait", Join!ByCredentials, Join!IsOwn(r) PROVE out.token = None
    <3>1. r.chal = 0 /\ (r.step = "post" => r.token # None)
        BY <2>1 DEF JoinInv, TalkInv, Join!IsOwn
    <3> QED BY <3>1
  <2> QED BY <2>1 DEF JoinInv, TalkInv, Join!Reply
<1>9. TalkInv'
    BY <1>3, <1>7, <1>8 DEF JoinInv, TalkInv, Early, Join!Kind
<1> QED BY <1>4, <1>5, <1>6, <1>9 DEF JoinInv

LEMMA ServedStep ==
    ASSUME Join!OnboardAssumption, JoinInv, NEW r \in late,
           Join!Served(r) \/ Join!RelayRefuses(r) \/ Join!RequestLost(r)
    PROVE  JoinInv'
<1>1. /\ late \subseteq Join!Requests /\ IsFiniteSet(late) /\ Cardinality(late) <= MaxLate
      /\ \A q \in late : q.step = "post" /\ q.chal = 0 => q.token # None
      /\ proc \in Join!Procs /\ proc.cfg \in Join!Configs \union {None}
      /\ config \in Join!Configs \union {None} /\ rows \in [Join!Seeds -> Join!Names]
      /\ None \in Join!Names /\ None # Join!Old
      /\ proc.pc = "check" => proc.cfg = config
    BY SameCardinality
    DEF JoinInv, TalkInv, PinInv, Join!Cfg, Join!TypeOK, Join!Procs, Join!Names,
        Join!OnboardAssumption
<1>2. r \in Join!Requests /\ r.seed \in Join!Seeds /\ rows[r.seed] \in Join!Names
    BY <1>1 DEF Join!Requests
<1>3. IsFiniteSet(late \ {r}) /\ Cardinality(late \ {r}) <= Cardinality(late)
      /\ Cardinality(late) \in Nat /\ Cardinality(late \ {r}) \in Nat
    BY <1>1, FS_Subset, FS_CardinalityType
<1>4. proc = [proc EXCEPT !.cfg = proc.cfg]
    BY <1>1 DEF Join!Procs
<1>5. ASSUME NEW f \in Join!Configs \union {None}
      PROVE  /\ Join!Aged(f) \in Join!Configs \union {None} /\ Join!NameOf(Join!Aged(f)) = Join!NameOf(f)
             /\ Has(Join!Aged(f)) = Has(f) /\ (f = None) = (Join!Aged(f) = None)
             /\ Has(f) => Join!Aged(f).pin = f.pin
  <2>1. CASE f = None \/ f.token # Join!Cur
      BY <2>1 DEF Join!Aged
  <2>2. CASE f # None /\ f.token = Join!Cur
    <3>1. /\ Join!Aged(f) \in Join!Configs /\ Join!Aged(f).name = f.name
          /\ Join!Aged(f).pin = f.pin /\ Join!Aged(f).token = Join!Old
        BY <2>2 DEF Join!Aged, Join!Configs, Join!Tokens
    <3>2. f.token # None /\ Join!Aged(f) # None
        BY <2>2, <3>1 DEF Join!OnboardAssumption
    <3> QED BY <1>1, <2>2, <3>1, <3>2 DEF Join!NameOf, Has
  <2> QED BY <2>1, <2>2
<1>6. CASE Join!RelayEnrolls(r)
  <2> DEFINE older(q) == IF q.token = Join!Cur THEN [q EXCEPT !.token = Join!Old] ELSE q
  <2>1. PICK name \in IF rows[r.seed] # None THEN {rows[r.seed]} ELSE {r.want, Guest} \ {None} :
          /\ rows' = [rows EXCEPT ![r.seed] = name]
          /\ proc' = [proc EXCEPT !.cfg = Join!Aged(@),
               !.answer = Join!Reply(r, [ok |-> TRUE, token |-> Join!Cur, name |-> name])]
      BY <1>6 DEF Join!RelayEnrolls
  <2>2. /\ r.step = "post" /\ r.token = None /\ config' = Join!Aged(config)
        /\ issued' \subseteq issued /\ late' = {older(q) : q \in late \ {r}}
        /\ pair' \in {"none", "pending", "active"} /\ UNCHANGED <<key, relayKey, made>>
      BY <1>6 DEF Join!RelayEnrolls, Join!bounds, JoinInv, Join!TypeOK
  <2>3. name \in Join!Names
      BY <1>2, <2>1 DEF Join!Requests, Join!Names
  <2> DEFINE out == [ok |-> TRUE, token |-> Join!Cur, name |-> name]
  <2>4. out \in Join!Outcomes /\ rows' \in [Join!Seeds -> Join!Names]
        /\ proc' = [proc EXCEPT !.cfg = Join!Aged(proc.cfg), !.answer = Join!Reply(r, out)]
      BY <1>1, <1>2, <2>1, <2>3 DEF Join!Outcomes, Join!Procs
  <2>5. \A q \in late : /\ older(q) \in Join!Requests /\ older(q).step = q.step
                        /\ older(q).chal = q.chal /\ (q.token # None => older(q).token # None)
      BY <1>1 DEF Join!Requests, Join!Tokens
  <2>6. IsFiniteSet(late') /\ Cardinality(late') <= MaxLate
    <3> DEFINE g == [q \in late \ {r} |-> older(q)]
    <3>1. g \in [late \ {r} -> late'] /\ \A t \in late' : \E q \in late \ {r} : g[q] = t
        BY <2>2
    <3> HIDE DEF g
    <3>2. IsFiniteSet(late') /\ Cardinality(late') <= Cardinality(late \ {r})
        BY <1>3, <3>1, OntoIsNoLarger
    <3>3. Cardinality(late') \in Nat /\ MaxLate \in Nat
        BY <3>2, FS_CardinalityType DEF Join!OnboardAssumption
    <3> QED BY <1>1, <1>3, <3>2, <3>3
  <2>7. late' \subseteq Join!Requests
        /\ \A q \in late' : q.step = "post" /\ q.chal = 0 => q.token # None
      BY <1>1, <2>2, <2>5
  <2>8. out.token # None => r.step = "post" /\ r.token = None
      BY <2>2
  <2> HIDE DEF older, out
  <2> DEFINE f == Join!Aged(proc.cfg)
  <2>9. /\ f \in Join!Configs \union {None} /\ Join!NameOf(f) = Join!NameOf(proc.cfg)
        /\ Has(f) = Has(proc.cfg) /\ (f = None) = (proc.cfg = None)
        /\ Has(f) => f.pin = proc.cfg.pin
        /\ proc.pc = "check" => f = config'
      BY <1>1, <1>5, <2>2
  <2>10. /\ config' \in Join!Configs \union {None} /\ Join!NameOf(config') = Join!NameOf(config)
         /\ Has(config') = Has(config) /\ (Has(config') => config'.pin = config.pin)
      BY <1>1, <1>5, <2>2
  <2>11. proc' = [proc EXCEPT !.cfg = f, !.answer = Join!Reply(r, out)]
      BY <2>4
  <2> HIDE DEF f
  <2> QED BY <2>2, <2>4, <2>6, <2>7, <2>8, <2>9, <2>10, <2>11, AnswerStep
<1>7. CASE Join!RelayServes(r) \/ Join!RelayRefuses(r)
  <2>1. PICK out \in Join!Outcomes : out.token = None /\ proc' = [proc EXCEPT !.answer = Join!Reply(r, out)]
    <3>1. CASE Join!RelayServes(r)
      <4>1. [ok |-> TRUE, token |-> None, name |-> rows[r.seed]] \in Join!Outcomes
          BY <1>2 DEF Join!Outcomes
      <4> QED BY <3>1, <4>1 DEF Join!RelayServes
    <3>2. CASE Join!RelayRefuses(r)
      <4>1. [ok |-> FALSE, token |-> None, name |-> None] \in Join!Outcomes
          BY <1>1 DEF Join!Outcomes
      <4> QED BY <3>2, <4>1 DEF Join!RelayRefuses
    <3> QED BY <1>7, <3>1, <3>2
  <2>2. proc' = [proc EXCEPT !.cfg = proc.cfg, !.answer = Join!Reply(r, out)]
      BY <1>1, <2>1 DEF Join!Procs
  <2>3. /\ UNCHANGED <<config, key, rows, issued, relayKey, made>> /\ late' = late \ {r}
        /\ pair' \in {"none", "pending", "active"}
      BY <1>7 DEF Join!RelayServes, Join!RelayRefuses, Join!files, Join!bounds, JoinInv, Join!TypeOK
  <2>4. IsFiniteSet(late') /\ Cardinality(late') <= MaxLate
      BY <1>1, <1>3, <2>3 DEF Join!OnboardAssumption
  <2> QED BY <1>1, <2>1, <2>2, <2>3, <2>4, AnswerStep
<1>8. CASE Join!RequestLost(r)
  <2>1. /\ UNCHANGED <<config, key, proc, rows, pair, issued, relayKey, made>> /\ late' = late \ {r}
      BY <1>8 DEF Join!RequestLost, Join!files, Join!bounds
  <2>2. Join!IsFiniteSet(late') /\ Join!Cardinality(late') <= MaxLate
      BY <1>1, <1>3, <2>1, SameCardinality DEF Join!OnboardAssumption
  <2>3. Join!TypeOK'
      BY <2>1, <2>2 DEF JoinInv, Join!TypeOK
  <2> QED BY <2>1, <2>3
          DEF JoinInv, PinInv, NameInv, TalkInv, Join!Cfg, Join!ByCredentials, Join!Kind, Join!Enrolled
<1> QED BY <1>6, <1>7, <1>8 DEF Join!Served

LEMMA JoinStep ==
    ASSUME Join!OnboardAssumption, JoinInv, [Join!Next]_Join!vars
    PROVE  JoinInv'
<1>1. CASE UNCHANGED Join!vars
    BY <1>1
    DEF Join!vars, JoinInv, Join!TypeOK, PinInv, NameInv, TalkInv, Join!Cfg, Join!ByCredentials,
        Join!Kind, Join!Enrolled
<1>2. CASE Join!ChallengeExpires \/ Join!RelayKeyChanges
  <2>1. /\ UNCHANGED <<config, key, proc, rows, pair, late, made>> /\ issued' \subseteq issued
        /\ relayKey' \in Join!Pins
      BY <1>2 DEF Join!ChallengeExpires, Join!RelayKeyChanges, Join!files, Join!bounds, Join!relay,
         JoinInv, Join!TypeOK
  <2>2. Join!TypeOK'
      BY <2>1 DEF JoinInv, Join!TypeOK
  <2> QED BY <2>1, <2>2 DEF JoinInv, PinInv, NameInv, TalkInv, Join!Cfg, Join!ByCredentials, Join!Kind,
          Join!Enrolled
<1>3. CASE Join!Crash \/ Join!Aborts \/ Join!RenameRefused \/ Join!Greets
  <2>1. Join!Ends /\ UNCHANGED <<config, key, rows, pair, issued, late, relayKey, made>>
      BY <1>3 DEF Join!Crash, Join!Aborts, Join!RenameRefused, Join!Greets, Join!files, Join!relay, Join!bounds
  <2> QED BY <2>1, EndsStep
<1> QED
    BY <1>1, <1>2, <1>3, BeginsStep, ChecksStep, DiscoversStep, IdentifiesStep, SavesKeyStep,
       SavesConfigStep, ChallengeStep, ChallengeFailsStep, SendsStep, GivesUpStep, AppliesStep, AcceptedStep, ServedStep
    DEF Join!Next, Join!Client

(* The five steps that write the config file.                              *)
LEMMA FileWrites ==
    ASSUME Join!OnboardAssumption, JoinInv, [Join!Next]_Join!vars, config' # config
    PROVE  \/ Join!NameOf(config') = Join!NameOf(config) /\ (Has(config) => config'.pin = config.pin)
           \/ Join!SavesConfig
<1>1. \/ Join!GetsChallenge \/ Join!ChallengeFails \/ Join!Sends \/ Join!SavesConfig
      \/ \E r \in late : Join!RelayEnrolls(r)
    BY DEF Join!vars, Join!Next, Join!Client, Join!Begins, Join!ChecksRelay, Join!Discovers, Join!Identifies,
       Join!SavesKey, Join!RenameRefused, Join!Applies, Join!Accepted, Join!Greets, Join!Aborts,
       Join!GivesUp, Join!Served, Join!RelayServes, Join!RelayRefuses,
       Join!RequestLost, Join!ChallengeExpires, Join!RelayKeyChanges, Join!Crash, Join!files
<1>2. CASE Join!GetsChallenge
  <2> DEFINE next == [proc EXCEPT !.pc = "post", !.chal = Join!NewChallenge]
  <2>1. PICK v \in Join!Verdicts : Join!Verified(v, next)
      BY <1>2 DEF Join!GetsChallenge
  <2>2. proc.pc = "challenge" /\ proc \in Join!Procs
      BY <1>2, Typed DEF Join!GetsChallenge
  <2>3. Join!NewChallenge \in 0..(MaxLate + 1)
      BY ChallengeIsNew DEF Join!OnboardAssumption
  <2>4. next \in Join!Procs /\ next.cmd = proc.cmd /\ next.fp = proc.fp /\ next.pc = "post"
      BY <2>2, <2>3 DEF Join!Procs, Join!Points
  <2> HIDE DEF next
  <2> QED BY <2>1, <2>2, <2>4, VerifiedStep
<1>3. CASE Join!Sends
  <2> DEFINE next == [proc EXCEPT !.answer = None,
                        !.pc = IF proc.pc = "post" THEN "wait" ELSE "waitaccept"]
  <2>1. PICK v \in Join!Verdicts : Join!Verified(v, next)
      BY <1>3 DEF Join!Sends
  <2>2. proc.pc \in {"post", "accept"} /\ proc \in Join!Procs
      BY <1>3, Typed DEF Join!Sends
  <2>3. next \in Join!Procs /\ next.cmd = proc.cmd /\ next.fp = proc.fp
        /\ next.pc \in {"wait", "waitaccept"}
      BY <2>2 DEF Join!Procs, Join!Points
  <2> HIDE DEF next
  <2> QED BY <2>1, <2>2, <2>3, VerifiedStep
<1>4. CASE \E r \in late : Join!RelayEnrolls(r)
  <2>1. config' = Join!Aged(config) /\ config \in Join!Configs \union {None}
      BY <1>4 DEF Join!RelayEnrolls, JoinInv, Join!TypeOK
  <2>2. config # None /\ config' = [config EXCEPT !.token = Join!Old] /\ config \in Join!Configs
      BY <2>1 DEF Join!Aged
  <2>3. config' \in Join!Configs /\ config'.name = config.name /\ config'.pin = config.pin
      BY <2>2 DEF Join!Configs, Join!Tokens
  <2>4. config' # None
      BY <2>3 DEF Join!OnboardAssumption
  <2> QED BY <2>2, <2>3, <2>4 DEF Join!NameOf
<1>5. CASE Join!ChallengeFails
    BY <1>5, FailedChallenge
<1> QED BY <1>1, <1>2, <1>3, <1>4, <1>5

(* Where the operator asked for a name, no command stores another: for any *)
(* commands, however late, often or never the relay answers.               *)
THEOREM NameIsTheOneAsked ==
    ASSUME Join!OnboardAssumption
    PROVE  Join!Spec => Join!NoSubstitutedName
<1>1. ASSUME JoinInv, [Join!Next]_Join!vars
      PROVE  [Join!NameOf(config') # Join!NameOf(config)
                => proc.cmd.want \in {None, Join!NameOf(config')}]_Join!vars
  <2>1. CASE Join!SavesConfig
    <3>1. config' = Join!Cfg /\ proc.pc \in {"saveconfig", "resaveconfig"}
        BY <2>1 DEF Join!SavesConfig
    <3> QED BY <1>1, <3>1 DEF JoinInv, NameInv, Early
  <2>2. CASE ~Join!SavesConfig
      BY <1>1, <2>2, FileWrites
  <2> QED BY <2>1, <2>2
<1> QED BY <1>1, JoinInit, JoinStep, PTL DEF Join!Spec, Join!NoSubstitutedName

(* The pin of an enrolled config is replaced by no onboarding command,     *)
(* whatever key the relay presents meanwhile.                              *)
THEOREM PinIsKept ==
    ASSUME Join!OnboardAssumption
    PROVE  Join!Spec => Join!PinHolds
<1>1. ASSUME JoinInv, [Join!Next]_Join!vars
      PROVE  [config # None /\ config.token # None => config'.pin = config.pin]_Join!vars
  <2>1. CASE Join!SavesConfig
    <3>1. config' = Join!Cfg /\ proc.pc \in {"saveconfig", "resaveconfig"}
        BY <2>1 DEF Join!SavesConfig
    <3> QED BY <1>1, <3>1 DEF JoinInv, PinInv, Has
  <2>2. CASE ~Join!SavesConfig
      BY <1>1, <2>2, FileWrites DEF Has
  <2> QED BY <2>1, <2>2
<1> QED BY <1>1, JoinInit, JoinStep, PTL DEF Join!Spec, Join!PinHolds
-----------------------------------------------------------------------------
(* The running command writes the identity of the config it began with, and *)
(* asks the relay nothing before a config with the same key is on file.    *)
HandKept ==
    /\ proc.pc # "idle" /\ config # None => Join!Cfg # None /\ Join!Cfg.seed = config.seed
    /\ proc.pc \in {"discover", "identity"} /\ Join!Cfg # None => config # None
    /\ proc.pc \in {"saveconfig", "resaveconfig"} => key = Join!Cfg.seed
    /\ proc.pc \notin {"idle", "check", "discover", "identity", "savekey", "saveconfig"} => config # None

OnDisk(s) == config # None /\ config.seed = s /\ key = s
KeptInv ==
    /\ \A r \in late : OnDisk(r.seed)
    /\ \A s \in Join!Seeds : rows[s] # None => OnDisk(s)
    /\ config # None => key = config.seed
    /\ HandKept

SameDisk ==
    /\ key' = key /\ (config' = None) = (config = None)
    /\ config # None => config'.seed = config.seed

LEMMA KeptFrame ==
    ASSUME KeptInv, SameDisk, \A r \in late' : OnDisk(r.seed),
           \A s \in Join!Seeds : rows'[s] # None => rows[s] # None \/ OnDisk(s),
           HandKept'
    PROVE  KeptInv'
<1>1. \A s : OnDisk(s) => OnDisk(s)'
    BY DEF SameDisk, OnDisk
<1> QED BY <1>1 DEF KeptInv, SameDisk, Join!Seeds

(* Seeds of the config a request goes ahead with.                          *)
LEMMA VerifiedSeed ==
    ASSUME Join!OnboardAssumption, JoinInv, KeptInv, proc.pc \in {"challenge", "post", "accept"},
           NEW v \in Join!Verdicts, NEW next \in Join!Procs, Join!Verified(v, next),
           next.pc \in {"post", "wait", "waitaccept"}, key' = key
    PROVE  SameDisk /\ HandKept' /\ OnDisk(Join!Cfg.seed)
<1>1. /\ proc.cfg \in Join!Configs /\ Join!Cfg = proc.cfg /\ proc.cfg # None
      /\ config # None /\ config.seed = proc.cfg.seed /\ config \in Join!Configs
      /\ v.cfg \in Join!Configs /\ v.cached \in Join!Pins
    BY Typed, VerdictFacts DEF KeptInv, HandKept, JoinInv, Join!TypeOK, Join!OnboardAssumption
<1>2. v.cfg = proc.cfg \/ v.cfg = [proc.cfg EXCEPT !.pin = relayKey]
    BY <1>1 DEF Join!Verdicts
<1>3. v.cfg.seed = proc.cfg.seed /\ v.cfg # None
    BY <1>1, <1>2 DEF Join!Configs, Join!OnboardAssumption
<1>4. /\ config' = IF v.writes THEN v.cfg ELSE config
      /\ proc' = [next EXCEPT !.cfg = v.cfg, !.cached = v.cached]
    BY DEF Join!Verified
<1>5. proc'.cfg = v.cfg /\ proc'.pc = next.pc
    BY <1>1, <1>4 DEF Join!Procs
<1>6. SameDisk
    BY <1>1, <1>3, <1>4 DEF SameDisk
<1>7. HandKept'
    BY <1>1, <1>3, <1>4, <1>5 DEF HandKept, Join!Cfg
<1> QED BY <1>1, <1>6, <1>7 DEF OnDisk, KeptInv

(* The command goes on with the same identity.                             *)
LEMMA HandGoesOn ==
    ASSUME KeptInv, UNCHANGED <<config, key>>, proc.pc # "idle", proc.cfg # None, proc'.cfg # None,
           proc'.cfg.seed = proc.cfg.seed, config # None,
           proc'.pc \notin {"saveconfig", "resaveconfig"}
    PROVE  HandKept'
BY DEF KeptInv, HandKept, Join!Cfg

(* A step of the command that writes no file and sends nothing.            *)
LEMMA KeptCommand ==
    ASSUME Join!OnboardAssumption, JoinInv, KeptInv,
           \/ \E c \in Commands : Join!Begins(c)
           \/ Join!ChecksRelay \/ Join!Discovers \/ Join!Identifies \/ Join!RenameRefused
           \/ Join!Applies \/ Join!Accepted \/ Join!Greets \/ Join!Aborts
           \/ Join!GivesUp \/ Join!Crash
    PROVE  KeptInv'
<1>1. UNCHANGED <<config, key, rows, late>>
    BY DEF Join!Begins, Join!ChecksRelay, Join!Discovers, Join!Identifies, Join!RenameRefused,
       Join!Applies, Join!Accepted, Join!Greets, Join!Aborts, Join!GivesUp, Join!Crash,
       Join!files, Join!relay
<1>2. SameDisk
    BY <1>1 DEF SameDisk
<1> SUFFICES HandKept'
    BY <1>1, <1>2, KeptFrame DEF KeptInv
<1>3. CASE Join!Ends
    BY <1>3 DEF Join!Ends, Join!Idle, HandKept
<1>4. CASE \E c \in Commands : Join!Begins(c)
  <2>1. PICK c \in Commands : proc' = [Join!Idle EXCEPT !.pc = "check", !.cmd = c, !.cfg = config]
      BY <1>4 DEF Join!Begins
  <2>2. proc'.pc = "check" /\ proc'.cfg = config
      BY <2>1 DEF Join!Idle
  <2> QED BY <1>1, <2>2 DEF HandKept, Join!Cfg
<1>5. CASE Join!ChecksRelay /\ ~Join!Ends
  <2>1. PICK pc \in {"discover", "identity"} :
          proc.pc = "check" /\ proc' = [proc EXCEPT !.fp = relayKey, !.pc = pc]
      BY <1>5 DEF Join!ChecksRelay
  <2>2. proc \in Join!Procs /\ proc.cfg = config
      BY <2>1, Typed DEF JoinInv, PinInv
  <2>3. proc'.pc = pc /\ proc'.cfg = config
      BY <2>1, <2>2 DEF Join!Procs
  <2> QED BY <1>1, <2>3 DEF HandKept, Join!Cfg
<1>6. CASE Join!Identifies /\ ~Join!Ends
  <2>1. /\ proc.pc = "identity" /\ proc \in Join!Procs /\ Join!Cfg = proc.cfg
        /\ proc.cfg \in Join!Configs \union {None} /\ proc.fp \in Join!Pins
        /\ proc.cmd.full \in Join!Pins
      BY <1>6, Typed DEF Join!Identifies
  <2>2. CASE proc.cfg = None
    <3>1. config = None
        BY <2>1, <2>2 DEF KeptInv, HandKept
    <3>2. proc' = [proc EXCEPT !.pc = "savekey", !.cfg =
                [Join!Fresh(made + 1) EXCEPT !.pin = IF Join!Kind = "private" THEN proc.fp ELSE None]]
        BY <1>6, <2>1, <2>2 DEF Join!Identifies
    <3>3. proc'.pc = "savekey"
        BY <2>1, <3>2 DEF Join!Procs
    <3> QED BY <1>1, <3>1, <3>3 DEF HandKept
  <2>3. CASE proc.cfg # None
    <3>1. PICK f \in {[proc.cfg EXCEPT !.full = IF proc.cmd.full = None THEN @ ELSE proc.cmd.full],
                      [proc.cfg EXCEPT !.pin = proc.fp]},
               pc \in {"savekey", "challenge"} :
            proc' = [proc EXCEPT !.pc = pc, !.cfg = f]
        BY <1>6, <2>1, <2>3 DEF Join!Identifies
    <3>2. f \in Join!Configs /\ f.seed = proc.cfg.seed
        BY <2>1, <2>3, <3>1 DEF Join!Configs
    <3>3. proc'.pc = pc /\ proc'.cfg = f /\ f # None
        BY <2>1, <3>1, <3>2 DEF Join!Procs, Join!OnboardAssumption
    <3>4. config # None
        BY <2>1, <2>3 DEF KeptInv, HandKept
    <3> QED BY <1>1, <2>1, <2>3, <3>2, <3>3, <3>4, HandGoesOn
  <2> QED BY <2>2, <2>3
<1>7. CASE Join!Applies /\ ~Join!Ends
  <2>1. /\ proc.pc = "wait" /\ proc \in Join!Procs /\ Join!Cfg = proc.cfg
        /\ proc.cfg \in Join!Configs /\ proc.fp \in Join!Pins /\ proc.answer \in Join!Outcomes
      BY <1>7, Typed DEF Join!Applies
  <2>2. PICK token \in {None, proc.answer.token}, name \in {proc.cfg.name, proc.answer.name} :
          proc' = [proc EXCEPT !.pc = "resavekey", !.answer = None,
               !.cfg.token = IF token = None THEN @ ELSE token,
               !.cfg.name = name, !.cfg.pin = proc.fp]
      BY <1>7, <2>1 DEF Join!Applies
  <2>3. proc'.pc = "resavekey" /\ proc'.cfg.seed = proc.cfg.seed /\ proc'.cfg \in Join!Configs
      BY <2>1, <2>2 DEF Join!Procs, Join!Configs, Join!Outcomes, Join!Tokens
  <2>4. proc'.cfg # None /\ proc.cfg # None /\ config # None
      BY <2>1, <2>3 DEF Join!OnboardAssumption, KeptInv, HandKept
  <2> QED BY <1>1, <2>1, <2>3, <2>4, HandGoesOn
<1>8. CASE (Join!Accepted \/ Join!GivesUp) /\ ~Join!Ends
  <2>1. /\ proc.pc \in {"wait", "waitaccept"} /\ proc \in Join!Procs
        /\ proc.cfg \in Join!Configs
      BY <1>8, Typed DEF Join!Accepted, Join!GivesUp
  <2>2. \/ proc' = [proc EXCEPT !.pc = "hello"]
        \/ proc' = [proc EXCEPT !.pc = "post", !.try = @ + 1, !.answer = None]
      BY <1>8 DEF Join!Accepted, Join!GivesUp, Join!At
  <2>3. proc'.pc \in {"hello", "post"} /\ proc'.cfg = proc.cfg
      BY <2>1, <2>2 DEF Join!Procs
  <2>4. proc.cfg # None /\ config # None
      BY <2>1 DEF Join!OnboardAssumption, KeptInv, HandKept
  <2> QED BY <1>1, <2>1, <2>3, <2>4, HandGoesOn
<1>9. CASE Join!Discovers /\ ~Join!Ends
  <2>1. /\ proc.pc = "discover" /\ proc' = [proc EXCEPT !.pc = "identity", !.cached = relayKey]
        /\ proc \in Join!Procs
      BY <1>9, Typed DEF Join!Discovers
  <2>2. proc'.pc = "identity" /\ proc'.cfg = proc.cfg
      BY <2>1 DEF Join!Procs
  <2> QED BY <1>1, <2>1, <2>2 DEF KeptInv, HandKept, Join!Cfg
<1>10. Join!RenameRefused \/ Join!Greets \/ Join!Aborts \/ Join!Crash => Join!Ends
    BY DEF Join!RenameRefused, Join!Greets, Join!Aborts, Join!Crash
<1> QED BY <1>3, <1>4, <1>5, <1>6, <1>7, <1>8, <1>9, <1>10

LEMMA KeptFailedChallenge ==
    ASSUME Join!OnboardAssumption, JoinInv, KeptInv, Join!ChallengeFails
    PROVE  KeptInv'
<1>1. SameDisk
    BY FailedChallenge DEF SameDisk
<1>2. HandKept'
    BY FailedChallenge DEF Join!Ends, Join!Idle, HandKept
<1> QED BY <1>1, <1>2, FailedChallenge, KeptFrame DEF KeptInv

(* The key is written first, and its config after it.                      *)
LEMMA KeptFiles ==
    ASSUME Join!OnboardAssumption, JoinInv, KeptInv, Join!SavesKey \/ Join!SavesConfig
    PROVE  KeptInv'
<1>1. /\ UNCHANGED <<rows, late>> /\ proc \in Join!Procs /\ proc.cfg \in Join!Configs
      /\ Join!Cfg = proc.cfg /\ proc.cfg # None
      /\ config # None => config.seed = proc.cfg.seed /\ key = config.seed
    BY Typed DEF Join!SavesKey, Join!SavesConfig, Join!relay, KeptInv, HandKept,
       Join!OnboardAssumption
<1>2. \A r \in late : config # None
    BY DEF KeptInv, OnDisk
<1>3. \A s \in Join!Seeds : rows[s] # None => config # None
    BY DEF KeptInv, OnDisk
<1>4. CASE Join!SavesKey
  <2>1. /\ config' = config /\ key' = proc.cfg.seed /\ proc.pc \in {"savekey", "resavekey"}
        /\ proc' = [proc EXCEPT !.pc = IF proc.pc = "savekey" THEN "saveconfig" ELSE "resaveconfig"]
      BY <1>1, <1>4 DEF Join!SavesKey, Join!At
  <2>2. /\ proc'.cfg = proc.cfg
        /\ proc'.pc = IF proc.pc = "savekey" THEN "saveconfig" ELSE "resaveconfig"
      BY <1>1, <2>1 DEF Join!Procs
  <2>3. HandKept'
      BY <1>1, <2>1, <2>2 DEF KeptInv, HandKept, Join!Cfg
  <2> QED BY <1>1, <1>2, <1>3, <2>1, <2>3 DEF KeptInv, OnDisk, Join!Seeds
<1>5. CASE Join!SavesConfig
  <2>1. /\ config' = proc.cfg /\ key' = key /\ proc.pc \in {"saveconfig", "resaveconfig"}
        /\ key = proc.cfg.seed
      BY <1>1, <1>5 DEF Join!SavesConfig, KeptInv, HandKept
  <2>2. proc'.cfg.seed = proc.cfg.seed /\ proc'.cfg # None
        /\ proc'.pc \in {"challenge", "accept", "done", "hello"}
    <3> DEFINE full == IF proc.pc = "saveconfig" /\ proc.cmd.full # None
                       THEN proc.cmd.full ELSE proc.cfg.full
               next == IF proc.pc = "saveconfig" THEN "challenge"
                       ELSE CASE Join!Kind = "handshake" -> "accept"
                              [] Join!Kind = "private" -> "done"
                              [] OTHER -> "hello"
               f == [proc.cfg EXCEPT !.full = full]
    <3>1. full \in Join!Pins /\ next \in {"challenge", "accept", "done", "hello"}
        BY <1>1, <2>1, Typed DEF Join!Configs
    <3>2. f \in Join!Configs /\ f.seed = proc.cfg.seed /\ f # None
        BY <1>1, <3>1 DEF Join!Configs, Join!OnboardAssumption
    <3>3. proc' = [proc EXCEPT !.pc = next, !.cfg = f]
        BY <1>1, <1>5 DEF Join!SavesConfig, Join!Procs, Join!Configs
    <3> HIDE DEF f, next
    <3> QED BY <1>1, <3>1, <3>2, <3>3 DEF Join!Procs
  <2>3. HandKept'
      BY <1>1, <2>1, <2>2 DEF HandKept, Join!Cfg
  <2> QED BY <1>1, <1>2, <1>3, <2>1, <2>3 DEF KeptInv, OnDisk, Join!Seeds
<1> QED BY <1>4, <1>5

(* What leaves for the relay is signed with the key on file.               *)
LEMMA KeptRequests ==
    ASSUME Join!OnboardAssumption, JoinInv, KeptInv, Join!GetsChallenge \/ Join!Sends
    PROVE  KeptInv'
<1>1. /\ UNCHANGED <<key, rows>> /\ proc.pc \in {"challenge", "post", "accept"}
      /\ proc \in Join!Procs /\ proc.cfg \in Join!Configs /\ Join!Cfg = proc.cfg
    BY Typed DEF Join!GetsChallenge, Join!Sends
<1>2. CASE Join!GetsChallenge /\ UNCHANGED config /\ Join!At("post")
  <2>1. proc'.pc = "post" /\ proc'.cfg = proc.cfg /\ late' = late
      BY <1>1, <1>2 DEF Join!At, Join!Procs, Join!GetsChallenge
  <2>2. proc.cfg # None /\ config # None
      BY <1>1 DEF Join!OnboardAssumption, KeptInv, HandKept
  <2>3. HandKept'
      BY <1>1, <1>2, <2>1, <2>2, HandGoesOn
  <2>4. SameDisk
      BY <1>1, <1>2 DEF SameDisk
  <2> QED BY <1>1, <2>1, <2>3, <2>4, KeptFrame DEF KeptInv
<1>3. CASE Join!GetsChallenge /\ ~(UNCHANGED config /\ Join!At("post"))
  <2> DEFINE next == [proc EXCEPT !.pc = "post", !.chal = Join!NewChallenge]
  <2>1. PICK v \in Join!Verdicts : Join!Verified(v, next)
      BY <1>3 DEF Join!GetsChallenge
  <2>2. Join!NewChallenge \in 0..(MaxLate + 1)
      BY ChallengeIsNew DEF Join!OnboardAssumption
  <2>3. next \in Join!Procs /\ next.pc = "post" /\ late' = late
      BY <1>1, <1>3, <2>2 DEF Join!Procs, Join!Points, Join!GetsChallenge
  <2> HIDE DEF next
  <2>4. SameDisk /\ HandKept'
      BY <1>1, <2>1, <2>3, VerifiedSeed
  <2> QED BY <1>1, <2>3, <2>4, KeptFrame DEF KeptInv
<1>4. CASE Join!Sends
  <2> DEFINE next == [proc EXCEPT !.answer = None,
                        !.pc = IF proc.pc = "post" THEN "wait" ELSE "waitaccept"]
  <2>1. PICK v \in Join!Verdicts : Join!Verified(v, next)
      BY <1>4 DEF Join!Sends
  <2>2. next \in Join!Procs /\ next.pc \in {"wait", "waitaccept"}
      BY <1>1 DEF Join!Procs, Join!Points
  <2> HIDE DEF next
  <2>3. SameDisk /\ HandKept' /\ OnDisk(proc.cfg.seed)
      BY <1>1, <2>1, <2>2, VerifiedSeed
  <2>4. late' = late \union {Join!Request} /\ Join!Request.seed = proc.cfg.seed
      BY <1>1, <1>4 DEF Join!Sends, Join!Request
  <2> QED BY <1>1, <2>3, <2>4, KeptFrame DEF KeptInv
<1> QED BY <1>2, <1>3, <1>4

(* The relay enrolls what was asked for; a new token changes no identity.  *)
LEMMA KeptRelay ==
    ASSUME Join!OnboardAssumption, JoinInv, KeptInv, NEW r \in late,
           Join!Served(r) \/ Join!RelayRefuses(r) \/ Join!RequestLost(r)
    PROVE  KeptInv'
<1>1. /\ proc \in Join!Procs /\ proc.cfg \in Join!Configs \union {None}
      /\ config \in Join!Configs \union {None} /\ rows \in [Join!Seeds -> Join!Names]
      /\ late \subseteq Join!Requests /\ r.seed \in Join!Seeds
    BY DEF JoinInv, Join!TypeOK, Join!Procs, Join!Requests
<1>2. ASSUME NEW f \in Join!Configs \union {None}
      PROVE  (Join!Aged(f) = None) = (f = None) /\ (f # None => Join!Aged(f).seed = f.seed)
  <2>1. CASE f = None \/ f.token # Join!Cur
      BY <2>1 DEF Join!Aged
  <2>2. CASE f # None /\ f.token = Join!Cur
    <3>1. Join!Aged(f) \in Join!Configs /\ Join!Aged(f).seed = f.seed
        BY <2>2 DEF Join!Aged, Join!Configs, Join!Tokens
    <3> QED BY <2>2, <3>1 DEF Join!OnboardAssumption
  <2> QED BY <2>1, <2>2
<1>3. \A q \in late' : \E s \in late : q.seed = s.seed
  <2>1. CASE Join!RelayEnrolls(r)
    <3>1. late' = {IF q.token = Join!Cur THEN [q EXCEPT !.token = Join!Old] ELSE q : q \in late \ {r}}
        BY <2>1 DEF Join!RelayEnrolls
    <3>2. \A q \in late : (IF q.token = Join!Cur THEN [q EXCEPT !.token = Join!Old] ELSE q).seed = q.seed
        BY <1>1 DEF Join!Requests
    <3> QED BY <3>1, <3>2
  <2>2. CASE ~Join!RelayEnrolls(r)
      BY <2>2 DEF Join!Served, Join!RelayServes, Join!RelayRefuses, Join!RequestLost
  <2> QED BY <2>1, <2>2
<1>4. \A s \in Join!Seeds : rows'[s] # None => rows[s] # None \/ s = r.seed
    BY <1>1 DEF Join!Served, Join!RelayEnrolls, Join!RelayServes, Join!RelayRefuses, Join!RequestLost
<1>5. /\ key' = key /\ proc'.pc = proc.pc
      /\ \/ config' = config /\ proc'.cfg = proc.cfg
         \/ config' = Join!Aged(config) /\ proc'.cfg = Join!Aged(proc.cfg)
    BY <1>1 DEF Join!Served, Join!RelayEnrolls, Join!RelayServes, Join!RelayRefuses, Join!RequestLost,
       Join!files, Join!bounds, Join!Procs
<1>6. SameDisk
    BY <1>1, <1>2, <1>5 DEF SameDisk
<1>7. HandKept'
    BY <1>1, <1>2, <1>5 DEF KeptInv, HandKept, Join!Cfg
<1> QED BY <1>3, <1>4, <1>6, <1>7, KeptFrame DEF KeptInv

(* An identity the relay enrolled, or may still enroll, is on disk with    *)
(* its config and its key, whenever the process dies.                      *)
THEOREM EnrolledIsOnDisk ==
    ASSUME Join!OnboardAssumption
    PROVE  Join!Spec => []Join!EnrolledIdentityIsKept
<1>1. Join!Init => JoinInv /\ KeptInv
  <2> SUFFICES ASSUME Join!Init PROVE KeptInv
      BY JoinInit
  <2> QED BY DEF Join!Init, Join!Idle, KeptInv, HandKept
<1>2. JoinInv /\ KeptInv /\ [Join!Next]_Join!vars => (JoinInv /\ KeptInv)'
  <2> SUFFICES ASSUME JoinInv, KeptInv, [Join!Next]_Join!vars PROVE KeptInv'
      BY JoinStep
  <2>1. CASE UNCHANGED Join!vars
      BY <2>1 DEF Join!vars, KeptInv, HandKept, OnDisk, Join!Cfg, Join!Seeds
  <2>2. CASE Join!ChallengeExpires \/ Join!RelayKeyChanges
    <3>1. UNCHANGED <<config, key, proc, rows, late>>
        BY <2>2 DEF Join!ChallengeExpires, Join!RelayKeyChanges, Join!files, Join!relay
    <3> QED BY <3>1 DEF KeptInv, HandKept, OnDisk, Join!Cfg, Join!Seeds
  <2> QED BY <2>1, <2>2, KeptCommand, KeptFailedChallenge, KeptFiles, KeptRequests, KeptRelay DEF Join!Next, Join!Client
<1>3. KeptInv => Join!EnrolledIdentityIsKept
    BY DEF KeptInv, OnDisk, Join!EnrolledIdentityIsKept
<1> QED BY <1>1, <1>2, <1>3, PTL DEF Join!Spec
=============================================================================
