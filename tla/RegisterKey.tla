---------------------------- MODULE RegisterKey ----------------------------
(***************************************************************************)
(* /v1/register-key: one identity key, two stores (relay.py).  The handler *)
(* commits the key to the database, then publishes it in the config file,  *)
(* and compensates the database when the publication did not happen.       *)
(* Every runtime writer of an identity key holds registration_lock, so at  *)
(* most one registration is under way; what interleaves with it is the     *)
(* operator editing the config file, faults of either store, a process or  *)
(* host crash between any two steps, and requests waiting for the lock.    *)
(***************************************************************************)
EXTENDS Naturals, FiniteSets

CONSTANTS Managed,     \* peers named in the config file
          Guest,       \* peers that only enroll
          Key, NoKey,  \* identity keys; no (valid) key
          Nonce,
          Rank,        \* the order in which a restart updates the managed rows
          HostCrashes, \* whether the host, and not only the process, may fail
          ReadFaults,  \* whether reading the file after a failed replace may fail
          MaxQueue, MaxEdits   \* bounds of a finite instance

Peer == Managed \union Guest
Keys == Key \union {NoKey}

ASSUME RegisterKeyAssumption ==
  /\ Managed \intersect Guest = {}
  /\ NoKey \notin Key
  /\ Rank \in [Managed -> Nat]
  /\ \A x, y \in Managed : Rank[x] = Rank[y] => x = y
  /\ HostCrashes \in BOOLEAN /\ ReadFaults \in BOOLEAN
  /\ MaxQueue \in Nat /\ MaxEdits \in Nat

VARIABLES up,        \* the process runs
          failStop,  \* _registration_fail_stop_reason is set
          db,        \* committed peers.identity_pubkey
          nonces,    \* committed seen_nonces
          cfg,       \* the visible config file: keys, and the operator's edits
          undurable, \* older contents a host crash may still bring back
          base,      \* _CONFIG_STARTUP_BYTES
          queue,     \* requests waiting for registration_lock
          reg,       \* the handler that holds it
          open,      \* a rollback failed and left its transaction open
          (* history *)
          before,    \* the stores when the handler took the lock
          promise    \* the key each peer was last definitely told it has

vars == <<up, failStop, db, nonces, cfg, undurable, base, queue, reg, open,
          before, promise>>

Request == [peer: Peer, new: Key, signer: Keys, nonce: Nonce]
Config == [keys: [Managed -> Keys], edits: Nat]
PC == {"locked", "written", "committed", "checked", "replaced",
       "synced", "rollback", "compensate", "halt", "refused", "done"}
Handler == [pc: PC, req: Request, old: Keys, raw: Config,
            nonceIn: BOOLEAN, keyIn: BOOLEAN]   \* what its transaction wrote
Idle == [pc |-> "idle"]
Unsure == "unsure"

TypeOK ==
  /\ up \in BOOLEAN /\ failStop \in BOOLEAN
  /\ db \in [Peer -> Keys]
  /\ nonces \subseteq Nonce
  /\ cfg \in Config /\ undurable \subseteq Config /\ base \in Config
  /\ queue \subseteq Request
  /\ reg \in Handler \union {Idle}
  /\ open \in Handler \union {Idle}
  /\ before \in [db: [Peer -> Keys], keys: [Managed -> Keys], nonces: SUBSET Nonce]
  /\ promise \in [Peer -> Keys \union {Unsure}]

Init ==
  /\ up = TRUE /\ failStop = FALSE
  /\ db = [p \in Peer |-> NoKey]
  /\ nonces = {}
  /\ cfg = [keys |-> [p \in Managed |-> NoKey], edits |-> 0]
  /\ undurable = {} /\ base = cfg
  /\ queue = {} /\ reg = Idle /\ open = Idle
  /\ before = [db |-> db, keys |-> cfg.keys, nonces |-> {}]
  /\ promise = db

stores == <<db, nonces, cfg, undurable, base>>

-----------------------------------------------------------------------------
(* A request passes the bearer check and waits.  Nothing it read counts.   *)
Arrive(q) ==
  /\ up /\ ~failStop /\ Cardinality(queue) < MaxQueue
  /\ queue' = queue \union {q}
  /\ UNCHANGED <<up, failStop, stores, reg, open, before, promise>>

(* The current key must have signed; a peer without one may bootstrap.     *)
AuthorisedByBearer(q) == q.peer \in Managed \/ db[q.peer] # NoKey
Authorised(q) ==
  /\ q.peer \in Managed \/ db[q.peer] # NoKey     \* else there is no row
  /\ db[q.peer] # NoKey => q.signer = db[q.peer]

Signed == reg.old # NoKey          \* the request's nonce is to be recorded

(* registration_lock, and with it the lock file beside the config: one     *)
(* writer of identity keys at a time, in this process and in any other.    *)
LockFree == reg = Idle

Acquire(q) ==
  /\ up /\ LockFree /\ q \in queue
  /\ queue' = queue \ {q}
  /\ IF ~failStop /\ Authorised(q)
     THEN /\ reg' = [pc |-> "locked", req |-> q, old |-> db[q.peer], raw |-> cfg,
                     nonceIn |-> FALSE, keyIn |-> FALSE]
          /\ before' = [db |-> db, keys |-> cfg.keys, nonces |-> nonces]
     ELSE UNCHANGED <<reg, before>>
  /\ UNCHANGED <<up, failStop, stores, open, promise>>

At(pc) == up /\ reg.pc = pc
Goto(pc) == reg' = [reg EXCEPT !.pc = pc]
p == reg.req.peer
IsManaged == p \in Managed

(* The uncommitted transaction, and what its commit makes visible.         *)
KeyTaken(k, x) == \E o \in Peer \ {x} : db[o] = k
Commits(h) ==
  /\ db' = IF h.keyIn THEN [db EXCEPT ![h.req.peer] = h.req.new] ELSE db
  /\ nonces' = nonces \union (IF h.nonceIn THEN {h.req.nonce} ELSE {})

Fresh == Signed => reg.req.nonce \notin nonces

(* Fresh config, nonce reservation, key update, staged candidate: all of   *)
(* it is inside the open transaction.  A replayed nonce, a key in use or   *)
(* an I/O fault on the way ends in a rollback of what was written.         *)
Write ==
  /\ At("locked")
  /\ \/ IsManaged /\ cfg # base /\ Goto("refused")    \* config_changed_restart_required
     \/ /\ IsManaged => cfg = base
        /\ Fresh /\ ~KeyTaken(reg.req.new, p)
        /\ \E pc \in {"written", "rollback"} :
             reg' = [reg EXCEPT !.pc = pc, !.raw = cfg, !.nonceIn = Signed, !.keyIn = TRUE]
     \/ /\ IsManaged => cfg = base
        /\ reg' = [reg EXCEPT !.pc = "rollback", !.nonceIn = Signed /\ Fresh]
  /\ UNCHANGED <<up, failStop, stores, queue, open, before, promise>>

(* The bytes are read again, then sqlite commits: it succeeds, it fails    *)
(* with the transaction still open, or it fails with the outcome unknown.  *)
Commit ==
  /\ At("written")
  /\ \/ (IsManaged => cfg = reg.raw) /\ Commits(reg) /\ Goto("committed")
     \/ (IsManaged => cfg = reg.raw) /\ Commits(reg) /\ Goto("compensate")
     \/ Goto("compensate") /\ UNCHANGED <<db, nonces>>
     \/ Goto("rollback") /\ UNCHANGED <<db, nonces>>
  /\ UNCHANGED <<up, failStop, cfg, undurable, base, queue, open, before, promise>>

Rollback ==
  /\ At("rollback")
  /\ \/ Goto("refused") /\ UNCHANGED <<failStop, open>>
     \/ Goto("halt") /\ failStop' = TRUE /\ open' = reg
  /\ UNCHANGED <<up, stores, queue, before, promise>>

(* A database-only key is done at its commit.  Otherwise the bytes are     *)
(* read a last time before the replace.                                    *)
PublishCheck ==
  /\ At("committed")
  /\ Goto(IF ~IsManaged THEN "done"
          ELSE IF cfg = reg.raw THEN "checked" ELSE "compensate")
  /\ UNCHANGED <<up, failStop, stores, queue, open, before, promise>>

Candidate == [reg.raw EXCEPT !.keys[p] = reg.req.new]

(* os.replace: it succeeds, it raises without landing, or it raises after  *)
(* landing.  The handler tells the last two apart by reading the file; if  *)
(* that read fails too, it takes the replace for one that did not land.    *)
Replace ==
  /\ At("checked")
  /\ \/ Goto("compensate") /\ UNCHANGED <<failStop, cfg, undurable, base>>
     \/ /\ cfg' = Candidate
        /\ undurable' = undurable \union {cfg}
        /\ \/ Goto("replaced") /\ UNCHANGED <<failStop, base>>
           \/ Goto("halt") /\ failStop' = TRUE /\ base' = Candidate
           \/ ReadFaults /\ Goto("compensate") /\ UNCHANGED <<failStop, base>>
  /\ UNCHANGED <<up, db, nonces, queue, open, before, promise>>

(* fsync of the directory; its failure leaves both stores new and stops.   *)
SyncDirUnchecked ==
  /\ At("replaced") /\ Goto("synced")
  /\ UNCHANGED <<up, failStop, db, nonces, cfg, undurable, base, queue, open,
                 before, promise>>
SyncDir ==
  /\ At("replaced")
  /\ \/ Goto("synced") /\ undurable' = {} /\ UNCHANGED <<failStop, base>>
     \/ Goto("halt") /\ failStop' = TRUE /\ base' = Candidate /\ UNCHANGED undurable
  /\ UNCHANGED <<up, db, nonces, cfg, queue, open, before, promise>>

(* Memory mirrors and the new baseline, or fail-stop.                      *)
Apply ==
  /\ At("synced")
  /\ \/ Goto("done") /\ base' = Candidate /\ UNCHANGED failStop
     \/ Goto("halt") /\ failStop' = TRUE /\ UNCHANGED base
  /\ UNCHANGED <<up, db, nonces, cfg, undurable, queue, open, before, promise>>

(* What the compensating transaction of handler h makes visible.           *)
RestoredNever(h) == db
Restored(h) == [db EXCEPT ![h.req.peer] = h.old]
ForgottenNever(h) == nonces
Forgotten(h) == nonces \ (IF h.nonceIn THEN {h.req.nonce} ELSE {})
Undoes(h) == h.pc = "compensate"
Undo(h) == db' = Restored(h) /\ nonces' = Forgotten(h)

CompensateLanded ==
  /\ At("compensate") /\ db[p] = reg.req.new
  /\ Undo(reg) /\ Goto("refused")
  /\ UNCHANGED <<up, failStop, cfg, undurable, base, queue, open, before, promise>>
(* The compensation commits, and the request is refused; or something on   *)
(* the way raises, and the relay stops: the commit landed all the same, or *)
(* nothing did and the rollback undid the transaction or left it open.     *)
Compensate ==
  /\ At("compensate")
  /\ \/ Undo(reg) /\ Goto("refused") /\ UNCHANGED <<failStop, open>>
     \/ /\ Goto("halt") /\ failStop' = TRUE
        /\ \/ Undo(reg) /\ UNCHANGED open
           \/ UNCHANGED <<db, nonces>> /\ open' \in {open, reg}
  /\ UNCHANGED <<up, cfg, undurable, base, queue, before, promise>>

(* The answer: 200, a definite refusal, or 503 registration_fail_stop.     *)
Answer ==
  /\ up /\ reg.pc \in {"done", "refused", "halt"}
  /\ promise' = CASE reg.pc = "done" -> [promise EXCEPT ![p] = reg.req.new]
                  [] reg.pc = "halt" -> [promise EXCEPT ![p] = Unsure]
                  [] OTHER -> promise
  /\ reg' = Idle
  /\ UNCHANGED <<up, failStop, stores, queue, open, before>>

-----------------------------------------------------------------------------
(* Everything else that touches the stores. *)

(* What a self-enrollment waits for: the lock, and then no fail-stop, so   *)
(* that none slips in behind the registration that set it.                 *)
IdentityLocks == LockFree /\ ~failStop

(* A self-enrollment creates a row.                                        *)
EnrollUnlocked(x, k) ==
  /\ up /\ ~failStop
  /\ x \in Guest /\ db[x] = NoKey /\ ~KeyTaken(k, x)
  /\ db' = [db EXCEPT ![x] = k]
  /\ promise' = [promise EXCEPT ![x] = k]
  /\ UNCHANGED <<up, failStop, nonces, cfg, undurable, base, queue, reg, open, before>>
Enroll(x, k) ==
  /\ up /\ IdentityLocks
  /\ x \in Guest /\ db[x] = NoKey /\ ~KeyTaken(k, x)
  /\ db' = [db EXCEPT ![x] = k]
  /\ promise' = [promise EXCEPT ![x] = k]
  /\ UNCHANGED <<up, failStop, nonces, cfg, undurable, base, queue, reg, open, before>>

(* The sweep commits on the shared connection, fail-stop or not: the       *)
(* registration or the compensation that was left open.                    *)
StrayCommit ==
  /\ up /\ open # Idle
  /\ IF Undoes(open) THEN Undo(open) ELSE Commits(open)
  /\ open' = Idle
  /\ UNCHANGED <<up, failStop, cfg, undurable, base, queue, reg, before, promise>>

(* The operator rewrites something other than the keys, at any moment.     *)
EditConfig ==
  /\ cfg.edits < MaxEdits
  /\ cfg' = [cfg EXCEPT !.edits = @ + 1]
  /\ undurable' = {}
  /\ UNCHANGED <<up, failStop, db, nonces, base, queue, reg, open, before, promise>>

Crash ==
  /\ up /\ up' = FALSE
  /\ queue' = {} /\ reg' = Idle /\ open' = Idle
  /\ promise' = IF reg = Idle THEN promise ELSE [promise EXCEPT ![p] = Unsure]
  /\ UNCHANGED <<failStop, stores, before>>

HostCrash ==
  /\ HostCrashes /\ ~up /\ undurable # {}
  /\ cfg' \in undurable
  /\ undurable' = {}
  /\ UNCHANGED <<up, failStop, db, nonces, base, queue, reg, open, before, promise>>

(* init_db writes the config's keys over the managed rows, one by one; the *)
(* unique index on identity_pubkey makes it refuse to start on a clash.    *)
FromConfig == [x \in Peer |-> IF x \in Managed THEN cfg.keys[x] ELSE db[x]]
HeldAt(x, y) == IF y \in Managed /\ Rank[y] < Rank[x] THEN cfg.keys[y] ELSE db[y]
Startable ==
  \A x \in Managed : \A y \in Peer \ {x} :
    cfg.keys[x] = HeldAt(x, y) => cfg.keys[x] = NoKey

Restart ==
  /\ ~up /\ Startable
  /\ up' = TRUE /\ failStop' = FALSE
  /\ db' = FromConfig
  /\ base' = cfg
  /\ UNCHANGED <<nonces, cfg, undurable, queue, reg, open, before, promise>>

-----------------------------------------------------------------------------
HandlerStep ==
  Write \/ Commit \/ Rollback \/ PublishCheck \/ Replace \/ SyncDir \/ Apply
        \/ Compensate \/ Answer

Next ==
  \/ \E q \in Request : Arrive(q)
  \/ \E q \in queue : Acquire(q)
  \/ HandlerStep
  \/ \E x \in Guest, k \in Key : Enroll(x, k)
  \/ StrayCommit \/ EditConfig \/ Crash \/ HostCrash \/ Restart

Spec == Init /\ [][Next]_vars

(* A thread that holds the lock is scheduled.                              *)
FairSpec == Spec /\ WF_vars(HandlerStep)

-----------------------------------------------------------------------------
(* Safety. *)

(* The config file never gets ahead of the database: while the relay       *)
(* serves, the two differ on a managed peer only between the commit of the *)
(* registration under way and its publication or compensation, and then    *)
(* the file still holds the old key.                                       *)
ConfigNeverAhead ==
  up /\ ~failStop =>
    \A x \in Managed :
      cfg.keys[x] # db[x] =>
        /\ reg.pc \in {"committed", "checked", "compensate"} /\ p = x
        /\ cfg.keys[x] = reg.old /\ db[x] = reg.req.new

(* A definite refusal left no trace: neither key nor nonce, in neither     *)
(* store, whichever step failed and however it was undone.                 *)
RefusalLeavesNoTrace ==
  reg.pc = "refused" =>
    before = [db |-> db, keys |-> cfg.keys, nonces |-> nonces]

(* The key a peer was told is registered is the key that every later       *)
(* restart brings up, whatever crashed and whichever writes were lost.     *)
Outcomes(x) == IF x \in Managed THEN {c.keys[x] : c \in {cfg} \union undurable}
               ELSE {db[x]}
PromiseSurvives ==
  \A x \in Peer :
    promise[x] # Unsure /\ (reg = Idle \/ p # x) /\ (open = Idle \/ open.req.peer # x)
      => Outcomes(x) = {promise[x]}

(* /v1/register-key/status answers what the database holds, and a client   *)
(* settles an unanswered registration by it.  While no registration is     *)
(* under way, a restart brings up the keys that status tells; and so does  *)
(* one after the host failed, once no older file is left to come back.     *)
StatusSurvivesRestart ==
  up /\ ~failStop /\ reg = Idle =>
    /\ FromConfig = db
    /\ undurable = {} => \A x \in Peer : Outcomes(x) = {db[x]}

(* The same without that condition.  It does not hold: a process that dies *)
(* or stops between the replace and the fsync of the directory is          *)
(* started again without that fsync, and tells the new key too early.      *)
StatusIsFinal == up /\ ~failStop /\ reg = Idle => \A x \in Peer : Outcomes(x) = {db[x]}

(* No two peers ever hold one key, in the database or in the file.         *)
KeysUnique ==
  /\ \A x, y \in Peer : x # y /\ db[x] = db[y] => db[x] = NoKey
  /\ \A x, y \in Managed : x # y /\ cfg.keys[x] = cfg.keys[y] => cfg.keys[x] = NoKey

(* A process crash never leaves stores the relay refuses to start from.    *)
RestartPossible == [][up /\ ~up' => Startable']_vars

(* A peer's key changes, while the relay runs, only by a request signed    *)
(* with the key it replaces, whose nonce is spent by the same commit, or   *)
(* back to that key; never under fail-stop, except for the transaction, a  *)
(* registration or its compensation, that a failed rollback left open.     *)
KeyChangesAuthorised ==
  [][\A x \in Peer :
       up /\ up' /\ db'[x] # db[x] =>
         \/ db[x] = NoKey /\ ~failStop
         \/ open # Idle /\ open.req.peer = x
         \/ /\ ~failStop /\ reg # Idle /\ p = x
            /\ \/ db'[x] = reg.old
               \/ reg.req.signer = db[x] /\ reg.req.nonce \in nonces' \ nonces
    ]_vars

(* The operator's edit of the config file is never rewritten from stale    *)
(* bytes: register-key answers 409 instead.                                *)
EditsKept == [][cfg'.edits >= cfg.edits]_vars

(* RegisterKey implements KeyRegister.  A managed peer's key is the one in *)
(* the file, a guest's the one in the database, but for a commit whose     *)
(* outcome the handler does not know and is about to take back.  A peer    *)
(* knows its key unless a request of its own is under way.                 *)
HeldKey ==
  [x \in Peer |-> IF x \in Managed THEN cfg.keys[x]
                  ELSE IF reg.pc = "compensate" /\ p = x THEN reg.old
                  ELSE db[x]]
ToldKey ==
  [x \in Peer |-> IF (reg # Idle /\ p = x) \/ (open # Idle /\ open.req.peer = x)
                  THEN Unsure ELSE promise[x]]

R == INSTANCE KeyRegister WITH
       held <- HeldKey, told <- ToldKey, HostFails <- HostCrashes

ImplementsRegister == R!RegisterSpec

(* A key that restarts bring up is replaced only by a request signed with  *)
(* it, also when the process dies at the change or commits what a failed   *)
(* rollback left open.  It goes back to an older one in one way only: the  *)
(* compensation of that very request failed half-way, so that the relay    *)
(* stopped and the peer was left unsure, and the sweep commits it later.   *)
SignedOver(x) ==
  \E h \in {reg, open} \ {Idle} :
    h.req.peer = x /\ h.req.signer = HeldKey[x] /\ HeldKey'[x] = h.req.new
TakenBack(x) ==
  /\ failStop /\ open # Idle /\ Undoes(open) /\ open.req.peer = x
  /\ HeldKey[x] = open.req.new /\ HeldKey'[x] = open.old
  /\ ToldKey[x] = Unsure /\ open.req.signer = open.old
HeldKeyChangesSigned ==
  [][\A x \in Peer :
       up /\ HeldKey'[x] # HeldKey[x] => HeldKey[x] = NoKey \/ SignedOver(x) \/ TakenBack(x)]_vars

(* Every path through the handler releases the lock.                       *)
LockReleased == (reg # Idle) ~> (reg = Idle)
=============================================================================
