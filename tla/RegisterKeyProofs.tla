------------------------- MODULE RegisterKeyProofs -------------------------
(***************************************************************************)
(* RegisterKey for every set of peers, keys and nonces: types, a refusal   *)
(* leaves no trace, the config file never gets ahead of the database, what *)
(* a peer was told survives, a key is one peer's and changes only by its   *)
(* holder's signature, and a crashed relay can start again.                *)
(* The last part is about the client that sends these requests: KeyClient, *)
(* taken as the instance Client.                                           *)
(***************************************************************************)
EXTENDS RegisterKey, Integers, TLAPS

(* The handler's request is well typed whenever there is one.              *)
LEMMA HandlerTyped ==
  ASSUME TypeOK, reg # Idle
  PROVE  /\ reg \in Handler /\ reg.req \in Request /\ p \in Peer
         /\ reg.req.new \in Key /\ reg.req.new \in Keys /\ reg.req.nonce \in Nonce
         /\ reg.old \in Keys /\ reg.raw \in Config
BY DEF TypeOK, Handler, Request, p, Keys

(* A step at one of the handler's points is a step of a handler.           *)
LEMMA AtHandler ==
  ASSUME NEW pc, At(pc), pc # "idle"
  PROVE  reg # Idle /\ up /\ reg.pc = pc
BY DEF At, Idle

LEMMA CandidateTyped ==
  ASSUME TypeOK, reg # Idle
  PROVE  /\ Candidate \in Config
         /\ IsManaged => Candidate.keys = [reg.raw.keys EXCEPT ![p] = reg.req.new]
         /\ Candidate.edits = reg.raw.edits
<1>1. reg.raw \in Config /\ reg.req.new \in Keys
  BY HandlerTyped
<1> QED BY <1>1 DEF Candidate, Config, IsManaged

LEMMA TypeStep == TypeOK /\ [Next]_vars => TypeOK'
<1> SUFFICES ASSUME TypeOK, [Next]_vars PROVE TypeOK'
  OBVIOUS
<1> USE DEF stores
<1>1. ASSUME NEW q \in Request, Arrive(q) PROVE TypeOK'
  BY <1>1 DEF Arrive, TypeOK
<1>2. ASSUME NEW q \in queue, Acquire(q) PROVE TypeOK'
  <2>1. q \in Request /\ db[q.peer] \in Keys
    BY DEF TypeOK, Request
  <2>2. [pc |-> "locked", req |-> q, old |-> db[q.peer], raw |-> cfg,
         nonceIn |-> FALSE, keyIn |-> FALSE] \in Handler
    BY <2>1 DEF TypeOK, Handler, PC
  <2>3. [db |-> db, keys |-> cfg.keys, nonces |-> nonces]
          \in [db: [Peer -> Keys], keys: [Managed -> Keys], nonces: SUBSET Nonce]
    BY DEF TypeOK, Config
  <2> QED BY <1>2, <2>2, <2>3 DEF Acquire, LockFree, TypeOK
<1>3. CASE Write
  <2>1. reg \in Handler /\ reg # Idle
    BY <1>3, AtHandler, HandlerTyped DEF Write
  <2>2. reg' \in Handler
    BY <1>3, <2>1 DEF Write, Goto, Handler, PC, TypeOK, Signed, Fresh
  <2> QED BY <1>3, <2>2 DEF Write, TypeOK
<1>4. CASE Commit
  <2>1. reg \in Handler /\ reg # Idle /\ reg.req.new \in Keys /\ reg.req.nonce \in Nonce
    BY <1>4, AtHandler, HandlerTyped DEF Commit
  <2>2. reg' \in Handler
    BY <1>4, <2>1 DEF Commit, Goto, Handler, PC
  <2>3. db' \in [Peer -> Keys] /\ nonces' \subseteq Nonce
    BY <1>4, <2>1 DEF Commit, Commits, TypeOK
  <2> QED BY <1>4, <2>2, <2>3 DEF Commit, TypeOK
<1>5. CASE Rollback
  <2>1. reg \in Handler
    BY <1>5, AtHandler, HandlerTyped DEF Rollback
  <2>2. reg' \in Handler
    BY <1>5, <2>1 DEF Rollback, Goto, Handler, PC
  <2> QED BY <1>5, <2>1, <2>2 DEF Rollback, TypeOK
<1>6. CASE PublishCheck
  <2>1. reg \in Handler
    BY <1>6, AtHandler, HandlerTyped DEF PublishCheck
  <2>2. reg' \in Handler
    BY <1>6, <2>1 DEF PublishCheck, Goto, Handler, PC
  <2> QED BY <1>6, <2>2 DEF PublishCheck, TypeOK
<1>7. CASE Replace
  <2>1. reg \in Handler /\ Candidate \in Config
    BY <1>7, AtHandler, HandlerTyped, CandidateTyped DEF Replace
  <2>2. reg' \in Handler
    BY <1>7, <2>1 DEF Replace, Goto, Handler, PC
  <2> QED BY <1>7, <2>1, <2>2 DEF Replace, TypeOK
<1>8. CASE SyncDir
  <2>1. reg \in Handler /\ Candidate \in Config
    BY <1>8, AtHandler, HandlerTyped, CandidateTyped DEF SyncDir
  <2>2. reg' \in Handler
    BY <1>8, <2>1 DEF SyncDir, Goto, Handler, PC
  <2> QED BY <1>8, <2>1, <2>2 DEF SyncDir, TypeOK
<1>9. CASE Apply
  <2>1. reg \in Handler /\ Candidate \in Config
    BY <1>9, AtHandler, HandlerTyped, CandidateTyped DEF Apply
  <2>2. reg' \in Handler
    BY <1>9, <2>1 DEF Apply, Goto, Handler, PC
  <2> QED BY <1>9, <2>1, <2>2 DEF Apply, TypeOK
<1>10. CASE Compensate
  <2>1. reg \in Handler /\ p \in Peer /\ reg.old \in Keys
    BY <1>10, AtHandler, HandlerTyped DEF Compensate
  <2>2. reg' \in Handler
    BY <1>10, <2>1 DEF Compensate, Goto, Handler, PC
  <2>3. db' \in [Peer -> Keys] /\ nonces' \subseteq Nonce
    BY <1>10, <2>1 DEF Compensate, Undo, Restored, Forgotten, p, TypeOK
  <2> QED BY <1>10, <2>1, <2>2, <2>3 DEF Compensate, TypeOK
<1>11. CASE Answer
  <2>1. reg # Idle
    BY <1>11 DEF Answer, Idle
  <2>2. p \in Peer /\ reg.req.new \in Keys
    BY <2>1, HandlerTyped
  <2>3. promise' \in [Peer -> Keys \union {Unsure}]
    BY <1>11, <2>2 DEF Answer, TypeOK
  <2> QED BY <1>11, <2>3 DEF Answer, TypeOK
<1>12. ASSUME NEW x \in Guest, NEW k \in Key, Enroll(x, k) PROVE TypeOK'
  BY <1>12 DEF Enroll, IdentityLocks, TypeOK, Peer, Keys
<1>13. CASE StrayCommit
  <2>1. open \in Handler
    BY <1>13 DEF StrayCommit, TypeOK
  <2>2. open.req.new \in Keys /\ open.req.nonce \in Nonce /\ open.old \in Keys
    BY <2>1 DEF Handler, Request, Keys
  <2>3. db' \in [Peer -> Keys] /\ nonces' \subseteq Nonce
    BY <1>13, <2>2 DEF StrayCommit, Commits, Undo, Restored, Forgotten, TypeOK
  <2> QED BY <1>13, <2>3 DEF StrayCommit, TypeOK
<1>14. CASE EditConfig
  <2>1. cfg' \in Config
    BY <1>14 DEF EditConfig, TypeOK, Config
  <2> QED BY <1>14, <2>1 DEF EditConfig, TypeOK
<1>15. CASE Crash
  <2>1. promise' \in [Peer -> Keys \union {Unsure}]
    BY <1>15, HandlerTyped DEF Crash, TypeOK
  <2> QED BY <1>15, <2>1 DEF Crash, TypeOK
<1>16. CASE HostCrash
  BY <1>16 DEF HostCrash, TypeOK
<1>17. CASE Restart
  <2>1. FromConfig \in [Peer -> Keys]
    BY DEF FromConfig, TypeOK, Config
  <2> QED BY <1>17, <2>1 DEF Restart, TypeOK
<1>18. CASE UNCHANGED vars
  BY <1>18 DEF vars, TypeOK
<1> QED
  BY <1>1, <1>2, <1>3, <1>4, <1>5, <1>6, <1>7, <1>8, <1>9, <1>10, <1>11, <1>12, <1>13,
     <1>14, <1>15, <1>16, <1>17, <1>18
  DEF Next, HandlerStep

LEMMA TypeInit == Init => TypeOK
<1> SUFFICES ASSUME Init PROVE TypeOK
  OBVIOUS
<1>1. db \in [Peer -> Keys] /\ cfg.keys \in [Managed -> Keys] /\ cfg \in Config
  BY DEF Init, Keys, Config
<1>2. before \in [db: [Peer -> Keys], keys: [Managed -> Keys], nonces: SUBSET Nonce]
  BY <1>1 DEF Init
<1>3. promise \in [Peer -> Keys \union {Unsure}]
  BY <1>1 DEF Init
<1> QED BY <1>1, <1>2, <1>3 DEF Init, TypeOK

(* Every reachable state is well typed.                                    *)
THEOREM Typed == Spec => []TypeOK
BY TypeInit, TypeStep, PTL DEF Spec

-----------------------------------------------------------------------------
(* What the handler knows at each of its steps: which of its writes have   *)
(* landed, relative to the stores as it found them under the lock.         *)
Untouched == db = before.db /\ nonces = before.nonces
Landed ==
  /\ db = [before.db EXCEPT ![p] = reg.req.new]
  /\ nonces = before.nonces \union (IF reg.nonceIn THEN {reg.req.nonce} ELSE {})
ConfigOld == cfg.keys = before.keys
ConfigNew == cfg.keys = [before.keys EXCEPT ![p] = reg.req.new]

HandlerKnows ==
  reg # Idle =>
    /\ up /\ (failStop <=> reg.pc = "halt")
    /\ reg.old = before.db[p]
    /\ reg.nonceIn => reg.req.nonce \notin before.nonces
    /\ \A x \in Managed : before.keys[x] = before.db[x]
    /\ reg.pc # "halt" => reg.raw.keys = before.keys
    /\ reg.pc \in {"locked", "written", "rollback", "refused"} => Untouched /\ ConfigOld
    /\ reg.pc = "written" => reg.keyIn
    /\ reg.pc \in {"committed", "checked"} => Landed /\ ConfigOld
    /\ reg.pc = "compensate" => (Untouched \/ Landed) /\ ConfigOld
    /\ reg.pc \in {"checked", "replaced", "synced"} => IsManaged
    /\ reg.pc \in {"replaced", "synced"} => Landed /\ ConfigNew
    /\ reg.pc = "done" => Landed /\ (IF IsManaged THEN ConfigNew ELSE ConfigOld)

(* While nobody holds the lock, the file and the database agree on every   *)
(* managed peer; only fail-stop leaves a transaction open.                 *)
AgreeAtRest ==
  /\ open # Idle => up /\ failStop
  /\ up /\ ~failStop /\ reg = Idle => \A x \in Managed : cfg.keys[x] = db[x]

IInv == TypeOK /\ HandlerKnows /\ AgreeAtRest

LEMMA IInit == Init => IInv
<1> SUFFICES ASSUME Init PROVE HandlerKnows /\ AgreeAtRest
  BY TypeInit DEF IInv
<1>1. reg = Idle /\ open = Idle
  BY DEF Init
<1>2. \A x \in Managed : cfg.keys[x] = db[x]
  BY DEF Init, Peer
<1> QED BY <1>1, <1>2 DEF HandlerKnows, AgreeAtRest

(* Steps that move no store and no handler.                                *)
LEMMA IdleSteps ==
  ASSUME IInv, UNCHANGED <<up, failStop, db, nonces, reg, before>>, cfg'.keys = cfg.keys,
         open' = open
  PROVE  HandlerKnows' /\ AgreeAtRest'
BY DEF IInv, HandlerKnows, AgreeAtRest, Untouched, Landed, ConfigOld, ConfigNew, p, IsManaged

LEMMA AcquireStep ==
  ASSUME IInv, NEW q \in queue, Acquire(q)
  PROVE  HandlerKnows' /\ AgreeAtRest'
<1> USE DEF stores
<1>1. CASE ~failStop /\ Authorised(q)
  <2>1. /\ reg' = [pc |-> "locked", req |-> q, old |-> db[q.peer], raw |-> cfg,
                   nonceIn |-> FALSE, keyIn |-> FALSE]
        /\ before' = [db |-> db, keys |-> cfg.keys, nonces |-> nonces]
        /\ up /\ reg = Idle /\ UNCHANGED <<up, failStop, db, nonces, cfg, open>>
    BY <1>1 DEF Acquire, LockFree
  <2>2. \A x \in Managed : cfg.keys[x] = db[x]
    BY <1>1, <2>1 DEF IInv, AgreeAtRest
  <2>3. reg' # Idle
    BY <2>1 DEF Idle
  <2>4. HandlerKnows'
    BY <1>1, <2>1, <2>2 DEF HandlerKnows, Untouched, ConfigOld, p
  <2>5. AgreeAtRest'
    BY <2>1, <2>3 DEF IInv, AgreeAtRest
  <2> QED BY <2>4, <2>5
<1>2. CASE failStop \/ ~Authorised(q)
  <2>1. UNCHANGED <<up, failStop, db, nonces, reg, before, cfg, open>>
    BY <1>2 DEF Acquire
  <2> QED BY <2>1, IdleSteps
<1> QED BY <1>1, <1>2

(* What a Goto leaves of the handler.                                      *)
LEMMA GotoKeeps ==
  ASSUME TypeOK, reg # Idle, NEW pc \in PC, Goto(pc)
  PROVE  /\ reg' # Idle /\ reg'.pc = pc /\ reg'.req = reg.req /\ reg'.old = reg.old
         /\ reg'.raw = reg.raw /\ reg'.nonceIn = reg.nonceIn /\ reg'.keyIn = reg.keyIn
         /\ p' = p
<1>1. reg \in Handler
  BY HandlerTyped
<1> QED BY <1>1 DEF Goto, Handler, Idle, PC, p

LEMMA WriteStep == ASSUME IInv, Write PROVE HandlerKnows' /\ AgreeAtRest'
<1> USE DEF stores
<1>1. reg # Idle /\ up /\ reg.pc = "locked" /\ reg \in Handler /\ ~failStop
  BY AtHandler, HandlerTyped DEF Write, IInv, HandlerKnows
<1>2. UNCHANGED <<up, failStop, db, nonces, cfg, open, before>>
  BY DEF Write
<1>3. /\ reg.old = before.db[p] /\ Untouched /\ ConfigOld /\ reg.raw.keys = before.keys
      /\ \A x \in Managed : before.keys[x] = before.db[x]
  BY <1>1 DEF IInv, HandlerKnows
<1>4. CASE Goto("refused")
  <2>1. /\ reg' # Idle /\ reg'.pc = "refused" /\ p' = p /\ reg'.old = reg.old
        /\ reg'.raw = reg.raw /\ reg'.nonceIn = reg.nonceIn /\ reg'.req = reg.req
    BY <1>1, <1>4, GotoKeeps DEF IInv, PC
  <2> QED BY <1>1, <1>2, <1>3, <2>1
          DEF IInv, HandlerKnows, AgreeAtRest, Untouched, ConfigOld
<1>5. ASSUME NEW pc \in {"written", "rollback"}, Fresh,
             reg' = [reg EXCEPT !.pc = pc, !.raw = cfg, !.nonceIn = Signed, !.keyIn = TRUE]
      PROVE  HandlerKnows' /\ AgreeAtRest'
  <2>1. /\ reg'.pc = pc /\ reg'.req = reg.req /\ reg'.old = reg.old /\ reg'.raw = cfg
        /\ reg'.nonceIn = Signed /\ reg'.keyIn = TRUE
    BY <1>1, <1>5 DEF Handler
  <2>2. reg' # Idle /\ p' = p
    BY <2>1 DEF Idle, p
  <2>3. reg'.nonceIn => reg'.req.nonce \notin before.nonces
    BY <1>3, <1>5, <2>1 DEF Fresh, Untouched
  <2> QED BY <1>1, <1>2, <1>3, <2>1, <2>2, <2>3
          DEF IInv, HandlerKnows, AgreeAtRest, Untouched, ConfigOld
<1>6. ASSUME reg' = [reg EXCEPT !.pc = "rollback", !.nonceIn = Signed /\ Fresh]
      PROVE  HandlerKnows' /\ AgreeAtRest'
  <2>1. /\ reg'.pc = "rollback" /\ reg'.req = reg.req /\ reg'.old = reg.old
        /\ reg'.raw = reg.raw /\ reg'.nonceIn = (Signed /\ Fresh)
    BY <1>1, <1>6 DEF Handler
  <2>2. reg' # Idle /\ p' = p
    BY <2>1 DEF Idle, p
  <2>3. reg'.nonceIn => reg'.req.nonce \notin before.nonces
    BY <1>3, <2>1 DEF Fresh, Untouched
  <2> QED BY <1>1, <1>2, <1>3, <2>1, <2>2, <2>3
          DEF IInv, HandlerKnows, AgreeAtRest, Untouched, ConfigOld
<1> QED BY <1>4, <1>5, <1>6 DEF Write

LEMMA CommitStep == ASSUME IInv, Commit PROVE HandlerKnows' /\ AgreeAtRest'
<1>1. reg # Idle /\ up /\ reg.pc = "written" /\ reg \in Handler /\ ~failStop
  BY AtHandler, HandlerTyped DEF Commit, IInv, HandlerKnows
<1>2. UNCHANGED <<up, failStop, cfg, open, before>>
  BY DEF Commit
<1>3. /\ reg.old = before.db[p] /\ Untouched /\ ConfigOld /\ reg.raw.keys = before.keys
      /\ \A x \in Managed : before.keys[x] = before.db[x]
      /\ reg.nonceIn => reg.req.nonce \notin before.nonces
      /\ reg.keyIn
  BY <1>1 DEF IInv, HandlerKnows
<1>4. PICK pc \in {"committed", "compensate", "rollback"} : Goto(pc)
  BY DEF Commit
<1>5. /\ reg' # Idle /\ reg'.pc = pc /\ reg'.req = reg.req /\ reg'.old = reg.old
      /\ reg'.raw = reg.raw /\ reg'.nonceIn = reg.nonceIn /\ reg'.keyIn = reg.keyIn
      /\ p' = p
  BY <1>1, <1>4, GotoKeeps DEF IInv, PC
<1>6. CASE Commits(reg) /\ pc # "rollback"
  <2>1. Landed'
    BY <1>2, <1>3, <1>5, <1>6 DEF Commits, Landed, Untouched, p
  <2> QED BY <1>1, <1>2, <1>3, <1>5, <1>6, <2>1
          DEF IInv, HandlerKnows, AgreeAtRest, ConfigOld
<1>7. CASE UNCHANGED <<db, nonces>> /\ pc # "committed"
  BY <1>1, <1>2, <1>3, <1>5, <1>7 DEF IInv, HandlerKnows, AgreeAtRest, ConfigOld, Untouched
<1>8. \/ Commits(reg) /\ pc # "rollback"
      \/ UNCHANGED <<db, nonces>> /\ pc # "committed"
  BY <1>1, <1>5, GotoKeeps DEF Commit, IInv, PC
<1> QED BY <1>6, <1>7, <1>8

LEMMA RollbackStep == ASSUME IInv, Rollback PROVE HandlerKnows' /\ AgreeAtRest'
<1> USE DEF stores
<1>1. reg # Idle /\ up /\ reg.pc = "rollback" /\ reg \in Handler /\ ~failStop
  BY AtHandler, HandlerTyped DEF Rollback, IInv, HandlerKnows
<1>2. UNCHANGED <<up, db, nonces, cfg, before>>
  BY DEF Rollback
<1>3. CASE Goto("refused") /\ UNCHANGED <<failStop, open>>
  BY <1>1, <1>2, <1>3, GotoKeeps
  DEF IInv, PC, HandlerKnows, AgreeAtRest, ConfigOld, Untouched
<1>4. CASE Goto("halt") /\ failStop' = TRUE
  BY <1>1, <1>2, <1>4, GotoKeeps DEF IInv, PC, HandlerKnows, AgreeAtRest
<1> QED BY <1>3, <1>4 DEF Rollback

LEMMA PublishCheckStep == ASSUME IInv, PublishCheck PROVE HandlerKnows' /\ AgreeAtRest'
<1> USE DEF stores
<1>1. reg # Idle /\ up /\ reg.pc = "committed" /\ reg \in Handler /\ ~failStop
  BY AtHandler, HandlerTyped DEF PublishCheck, IInv, HandlerKnows
<1>2. UNCHANGED <<up, failStop, db, nonces, cfg, open, before>>
  BY DEF PublishCheck
<1>3. PICK pc \in {"done", "checked", "compensate"} :
        Goto(pc) /\ (IsManaged <=> pc # "done")
  BY DEF PublishCheck
<1>4. /\ reg' # Idle /\ reg'.pc = pc /\ reg'.req = reg.req /\ reg'.old = reg.old
      /\ reg'.raw = reg.raw /\ reg'.nonceIn = reg.nonceIn /\ p' = p
  BY <1>1, <1>3, GotoKeeps DEF IInv, PC
<1>5. IsManaged' <=> IsManaged
  BY <1>4 DEF IsManaged
<1> QED BY <1>1, <1>2, <1>3, <1>4, <1>5
        DEF IInv, HandlerKnows, AgreeAtRest, ConfigOld, Landed

LEMMA ReplaceStep ==
  ASSUME IInv, Replace, ~ReadFaults
  PROVE  HandlerKnows' /\ AgreeAtRest'
<1>1. reg # Idle /\ up /\ reg.pc = "checked" /\ reg \in Handler /\ ~failStop
  BY AtHandler, HandlerTyped DEF Replace, IInv, HandlerKnows
<1>2. UNCHANGED <<up, db, nonces, open, before>>
  BY DEF Replace
<1>3. IsManaged /\ Candidate.keys = [before.keys EXCEPT ![p] = reg.req.new]
  BY <1>1, CandidateTyped DEF IInv, HandlerKnows
<1>4. CASE Goto("compensate") /\ UNCHANGED <<failStop, cfg>>
  BY <1>1, <1>2, <1>4, GotoKeeps
  DEF IInv, PC, HandlerKnows, AgreeAtRest, ConfigOld, Landed
<1>5. CASE Goto("replaced") /\ cfg' = Candidate /\ UNCHANGED failStop
  <2>1. reg' # Idle /\ reg'.pc = "replaced" /\ reg'.req = reg.req /\ reg'.old = reg.old
          /\ reg'.raw = reg.raw /\ reg'.nonceIn = reg.nonceIn /\ p' = p
    BY <1>1, <1>5, GotoKeeps DEF IInv, PC
  <2>2. ConfigNew' /\ Landed' /\ IsManaged'
    BY <1>1, <1>2, <1>3, <1>5, <2>1 DEF IInv, HandlerKnows, ConfigNew, Landed, IsManaged
  <2> QED BY <1>1, <1>2, <1>5, <2>1, <2>2 DEF IInv, HandlerKnows, AgreeAtRest
<1>6. CASE Goto("halt") /\ failStop' = TRUE
  BY <1>1, <1>2, <1>6, GotoKeeps DEF IInv, PC, HandlerKnows, AgreeAtRest
<1> QED BY <1>4, <1>5, <1>6 DEF Replace

LEMMA SyncDirStep == ASSUME IInv, SyncDir PROVE HandlerKnows' /\ AgreeAtRest'
<1>1. reg # Idle /\ up /\ reg.pc = "replaced" /\ reg \in Handler /\ ~failStop
  BY AtHandler, HandlerTyped DEF SyncDir, IInv, HandlerKnows
<1>2. UNCHANGED <<up, db, nonces, cfg, open, before>>
  BY DEF SyncDir
<1>3. CASE Goto("synced") /\ UNCHANGED failStop
  BY <1>1, <1>2, <1>3, GotoKeeps
  DEF IInv, PC, HandlerKnows, AgreeAtRest, ConfigNew, Landed, IsManaged
<1>4. CASE Goto("halt") /\ failStop' = TRUE
  BY <1>1, <1>2, <1>4, GotoKeeps DEF IInv, PC, HandlerKnows, AgreeAtRest
<1> QED BY <1>3, <1>4 DEF SyncDir

LEMMA ApplyStep == ASSUME IInv, Apply PROVE HandlerKnows' /\ AgreeAtRest'
<1>1. reg # Idle /\ up /\ reg.pc = "synced" /\ reg \in Handler /\ ~failStop
  BY AtHandler, HandlerTyped DEF Apply, IInv, HandlerKnows
<1>2. UNCHANGED <<up, db, nonces, cfg, open, before>>
  BY DEF Apply
<1>3. CASE Goto("done") /\ UNCHANGED failStop
  BY <1>1, <1>2, <1>3, GotoKeeps
  DEF IInv, PC, HandlerKnows, AgreeAtRest, ConfigNew, Landed, IsManaged
<1>4. CASE Goto("halt") /\ failStop' = TRUE
  BY <1>1, <1>2, <1>4, GotoKeeps DEF IInv, PC, HandlerKnows, AgreeAtRest
<1> QED BY <1>3, <1>4 DEF Apply

(* Both halves of the undo are exact: the key the handler read under the   *)
(* lock, and only the nonce that its own transaction inserted.             *)
LEMMA CompensateStep == ASSUME IInv, Compensate PROVE HandlerKnows' /\ AgreeAtRest'
<1>1. reg # Idle /\ up /\ reg.pc = "compensate" /\ reg \in Handler /\ ~failStop /\ p \in Peer
  BY AtHandler, HandlerTyped DEF Compensate, IInv, HandlerKnows
<1>2. UNCHANGED <<up, cfg, before>>
  BY DEF Compensate
<1>3. CASE Undo(reg) /\ Goto("refused") /\ UNCHANGED <<failStop, open>>
  <2>1. before.db \in [Peer -> Keys] /\ before.nonces \subseteq Nonce
    BY DEF IInv, TypeOK
  <2>2. reg.old = before.db[p] /\ (reg.nonceIn => reg.req.nonce \notin before.nonces)
          /\ (Untouched \/ Landed)
    BY <1>1 DEF IInv, HandlerKnows
  <2>3. Restored(reg) = before.db
    BY <1>1, <2>1, <2>2 DEF Restored, Untouched, Landed, p
  <2>4. Forgotten(reg) = before.nonces
    BY <2>2 DEF Forgotten, Untouched, Landed
  <2>5. Untouched'
    BY <1>2, <1>3, <2>3, <2>4 DEF Undo, Untouched
  <2> QED BY <1>1, <1>2, <1>3, <2>5, GotoKeeps
          DEF IInv, PC, HandlerKnows, AgreeAtRest, ConfigOld
<1>4. CASE Goto("halt") /\ failStop' = TRUE
  BY <1>1, <1>2, <1>4, GotoKeeps DEF IInv, PC, HandlerKnows, AgreeAtRest
<1> QED BY <1>3, <1>4 DEF Compensate

LEMMA AnswerStep == ASSUME IInv, Answer PROVE HandlerKnows' /\ AgreeAtRest'
<1> USE DEF stores
<1>1. reg # Idle /\ up /\ reg.pc \in {"done", "refused", "halt"} /\ p \in Peer
  BY HandlerTyped DEF Answer, Idle, IInv
<1>2. reg' = Idle /\ UNCHANGED <<up, failStop, db, nonces, cfg, open>>
  BY DEF Answer
<1>3. before.db \in [Peer -> Keys] /\ before.keys \in [Managed -> Keys]
  BY DEF IInv, TypeOK
<1>4. ASSUME ~failStop, NEW x \in Managed PROVE cfg.keys[x] = db[x]
  <2>1. reg.pc # "halt" /\ before.keys[x] = before.db[x] /\ x \in Peer
    BY <1>1, <1>4 DEF IInv, HandlerKnows, Peer
  <2>2. CASE reg.pc = "refused"
    BY <1>1, <2>1, <2>2 DEF IInv, HandlerKnows, Untouched, ConfigOld
  <2>3. CASE reg.pc = "done"
    BY <1>1, <1>3, <2>1, <2>3
    DEF IInv, HandlerKnows, Landed, ConfigOld, ConfigNew, IsManaged
  <2> QED BY <1>1, <2>1, <2>2, <2>3
<1> QED BY <1>2, <1>4 DEF IInv, HandlerKnows, AgreeAtRest

LEMMA OtherSteps ==
  ASSUME IInv,
         \/ \E x \in Guest, k \in Key : Enroll(x, k)
         \/ StrayCommit \/ Crash \/ HostCrash \/ Restart
  PROVE  HandlerKnows' /\ AgreeAtRest'
<1> USE DEF stores
<1>1. ASSUME NEW x \in Guest, NEW k \in Key, Enroll(x, k)
      PROVE  HandlerKnows' /\ AgreeAtRest'
  <2>1. \A y \in Managed : db'[y] = db[y]
    BY <1>1, RegisterKeyAssumption DEF Enroll, IdentityLocks, IInv, TypeOK, Peer
  <2> QED BY <1>1, <2>1 DEF Enroll, IdentityLocks, LockFree, IInv, HandlerKnows, AgreeAtRest
<1>2. CASE StrayCommit
  <2>1. failStop /\ (reg # Idle => reg.pc = "halt")
    BY <1>2 DEF StrayCommit, IInv, HandlerKnows, AgreeAtRest
  <2> QED BY <1>2, <2>1 DEF StrayCommit, IInv, HandlerKnows, AgreeAtRest, p
<1>3. CASE Crash
  BY <1>3 DEF Crash, HandlerKnows, AgreeAtRest
<1>4. CASE HostCrash
  BY <1>4 DEF HostCrash, IInv, HandlerKnows, AgreeAtRest
<1>5. CASE Restart
  <2>1. reg = Idle /\ open = Idle
    BY <1>5 DEF Restart, IInv, HandlerKnows, AgreeAtRest
  <2>2. \A x \in Managed : FromConfig[x] = cfg.keys[x]
    BY DEF FromConfig, Peer
  <2> QED BY <1>5, <2>1, <2>2 DEF Restart, HandlerKnows, AgreeAtRest
<1> QED BY <1>1, <1>2, <1>3, <1>4, <1>5

LEMMA IStep == ~ReadFaults /\ IInv /\ [Next]_vars => IInv'
<1> SUFFICES ASSUME ~ReadFaults, IInv, [Next]_vars PROVE HandlerKnows' /\ AgreeAtRest'
  BY TypeStep DEF IInv
<1>1. ASSUME NEW q \in Request, Arrive(q) PROVE HandlerKnows' /\ AgreeAtRest'
  BY <1>1, IdleSteps DEF Arrive, stores
<1>2. CASE EditConfig
  <2>1. cfg'.keys = cfg.keys
    BY <1>2 DEF EditConfig, IInv, TypeOK, Config
  <2> QED BY <1>2, <2>1, IdleSteps DEF EditConfig
<1>3. CASE UNCHANGED vars
  BY <1>3, IdleSteps DEF vars
<1> QED
  BY <1>1, <1>2, <1>3, AcquireStep, WriteStep, CommitStep, RollbackStep, PublishCheckStep,
     ReplaceStep, SyncDirStep, ApplyStep, CompensateStep, AnswerStep, OtherSteps
  DEF Next, HandlerStep

-----------------------------------------------------------------------------
(* Whatever failed and however it was undone, a refused registration left  *)
(* both stores as it found them, if the read that tells a failed replace   *)
(* from a landed one does not fail as well.                                *)
THEOREM NoTrace == ASSUME ~ReadFaults PROVE Spec => []RefusalLeavesNoTrace
<1>1. IInv => RefusalLeavesNoTrace
  <2> SUFFICES ASSUME IInv, reg.pc = "refused"
               PROVE  before = [db |-> db, keys |-> cfg.keys, nonces |-> nonces]
    BY DEF RefusalLeavesNoTrace
  <2>1. Untouched /\ ConfigOld
    BY DEF IInv, HandlerKnows, Idle
  <2> QED BY <2>1 DEF IInv, TypeOK, Untouched, ConfigOld
<1>2. IInv /\ [Next]_vars => IInv'
  BY IStep
<1> QED BY <1>1, <1>2, IInit, PTL DEF Spec

(* While the relay serves, the file differs from the database only for the *)
(* peer being registered, and is then the one that is behind, under the    *)
(* same condition.                                                         *)
THEOREM NeverAhead == ASSUME ~ReadFaults PROVE Spec => []ConfigNeverAhead
<1>1. IInv => ConfigNeverAhead
  <2> SUFFICES ASSUME IInv, up, ~failStop, NEW x \in Managed, cfg.keys[x] # db[x]
               PROVE  /\ reg.pc \in {"committed", "checked", "compensate"} /\ p = x
                      /\ cfg.keys[x] = reg.old /\ db[x] = reg.req.new
    BY DEF ConfigNeverAhead
  <2>1. reg # Idle
    BY DEF IInv, AgreeAtRest
  <2>2. reg.pc \in PC /\ reg.pc # "halt" /\ p \in Peer /\ x \in Peer
    BY <2>1, HandlerTyped DEF IInv, HandlerKnows, Handler, Peer
  <2>3. before.db \in [Peer -> Keys] /\ before.keys \in [Managed -> Keys]
          /\ before.keys[x] = before.db[x] /\ reg.old = before.db[p]
    BY <2>1 DEF IInv, TypeOK, HandlerKnows
  <2>4. ~(Untouched /\ ConfigOld)
    BY <2>3 DEF Untouched, ConfigOld
  <2>5. reg.pc \in {"committed", "checked", "compensate", "replaced", "synced", "done"}
    BY <2>1, <2>2, <2>4 DEF IInv, HandlerKnows, PC
  <2>6. Landed
    BY <2>1, <2>4, <2>5 DEF IInv, HandlerKnows
  <2>7. p = x /\ ConfigOld
    BY <2>1, <2>2, <2>3, <2>5, <2>6
    DEF IInv, HandlerKnows, Landed, ConfigOld, ConfigNew, IsManaged
  <2> QED BY <2>1, <2>2, <2>3, <2>5, <2>6, <2>7
          DEF IInv, HandlerKnows, Landed, ConfigOld, ConfigNew, IsManaged
<1>2. IInv /\ [Next]_vars => IInv'
  BY IStep
<1> QED BY <1>1, <1>2, IInit, PTL DEF Spec

-----------------------------------------------------------------------------
(* The promise, the keys' uniqueness and the authority of a key's change.  *)
(* What a peer was told holds in every file a restart may find, unless its *)
(* own registration is under way; until that one has replaced the file it  *)
(* still does, and for a peer without a file the key to go back to is the  *)
(* promised one.  A registration is answered 200 with nothing undurable    *)
(* left, and one that left a transaction open is answered 503.             *)
Busy(x) == reg # Idle /\ p = x
BeforeReplace == {"locked", "written", "rollback", "committed", "checked", "compensate", "refused"}

Settled(x, v) ==
  IF x \in Managed THEN cfg.keys[x] = v /\ \A c \in undurable : c.keys[x] = v
                   ELSE db[x] = v

PromiseKept ==
  \A x \in Peer : promise[x] # Unsure /\ ~Busy(x) => Settled(x, promise[x])

PromiseUnderWay ==
  reg # Idle /\ promise[p] # Unsure =>
    /\ IsManaged /\ reg.pc \in BeforeReplace => Settled(p, promise[p])
    /\ ~IsManaged => before.db[p] = promise[p]

AnsweredIsDurable ==
  reg # Idle /\ IsManaged /\ reg.pc \in {"synced", "done"} => undurable = {}

OpenIsUnsure ==
  open # Idle => promise[open.req.peer] = Unsure \/ (Busy(open.req.peer) /\ reg.pc = "halt")

PromiseInv == PromiseKept /\ PromiseUnderWay /\ AnsweredIsDurable /\ OpenIsUnsure

(* The handler's request is signed with the key it replaces, which a guest *)
(* always has, and spends its nonce in the transaction that writes the new *)
(* one.                                                                    *)
RequestIsSigned ==
  reg # Idle =>
    /\ IsManaged \/ reg.old # NoKey
    /\ reg.old # NoKey => reg.req.signer = reg.old
    /\ reg.pc = "written" => (reg.nonceIn <=> Signed)

(* No key is held twice: not in the database, and while the process runs   *)
(* not in the file either, nor by one peer here and by another there.  The *)
(* key a transaction would still write is nobody's, also the old one that  *)
(* a compensation left open would bring back.                              *)
Nobodys(k, x) ==
  \A y \in Peer \ {x} : db[y] # k /\ (y \in Managed => cfg.keys[y] # k)

DbUnique == \A x, y \in Peer : x # y /\ db[x] = db[y] => db[x] = NoKey
FileUnique ==
  up => \A x \in Managed, y \in Peer : x # y =>
          /\ cfg.keys[x] = db[y] => cfg.keys[x] = NoKey
          /\ y \in Managed /\ cfg.keys[x] = cfg.keys[y] => cfg.keys[x] = NoKey
NewIsNobodys ==
  /\ reg # Idle /\ reg.pc = "locked" => ~reg.keyIn
  /\ reg # Idle /\ reg.pc \in {"written", "rollback"} /\ reg.keyIn => Nobodys(reg.req.new, p)
  /\ open # Idle /\ ~Undoes(open) /\ open.keyIn => Nobodys(open.req.new, open.req.peer)
  /\ open # Idle /\ Undoes(open) /\ open.old # NoKey => Nobodys(open.old, open.req.peer)

BeforeUnique ==
  reg # Idle => \A x, y \in Peer : x # y /\ before.db[x] = before.db[y] => before.db[x] = NoKey

UniqueInv == DbUnique /\ FileUnique /\ NewIsNobodys /\ BeforeUnique

LEMMA SettledOutcomes ==
  ASSUME NEW x \in Peer, NEW v
  PROVE  Outcomes(x) = {v} <=> Settled(x, v)
<1>1. CASE x \in Managed
  BY <1>1 DEF Outcomes, Settled
<1>2. CASE x \notin Managed
  BY <1>2 DEF Outcomes, Settled
<1> QED BY <1>1, <1>2

(* What is settled stays so while the file keeps its keys and the database *)
(* its row, whatever becomes durable.                                      *)
LEMMA StaysSettled ==
  ASSUME NEW x \in Peer, NEW v, Settled(x, v), undurable' \subseteq undurable,
         cfg'.keys = cfg.keys, x \in Managed \/ db'[x] = db[x]
  PROVE  Settled(x, v)'
BY DEF Settled

LEMMA PromiseInit == Init => PromiseInv
<1> SUFFICES ASSUME Init PROVE PromiseInv
  OBVIOUS
<1>1. reg = Idle /\ open = Idle /\ undurable = {} /\ promise = db
  BY DEF Init
<1>2. \A x \in Peer : Settled(x, promise[x])
  BY DEF Init, Settled, Peer
<1> QED BY <1>1, <1>2 DEF PromiseInv, PromiseKept, PromiseUnderWay, AnsweredIsDurable, OpenIsUnsure

(* The steps of a handler that leave the file's keys alone.                *)
LEMMA PromiseMid ==
  ASSUME PromiseInv, reg # Idle, reg' # Idle, reg'.req = reg.req,
         promise' = promise, before' = before, cfg'.keys = cfg.keys,
         undurable' \subseteq undurable,
         \A y \in Peer : y # p => db'[y] = db[y],
         reg'.pc \in BeforeReplace => reg.pc \in BeforeReplace,
         IsManaged /\ reg'.pc \in {"synced", "done"} => undurable' = {},
         p \in Peer, OpenIsUnsure'
  PROVE  PromiseInv'
<1>1. p' = p
  BY DEF p
<1>2. IsManaged' <=> IsManaged
  BY <1>1 DEF IsManaged
<1>3. PromiseKept'
  <2> SUFFICES ASSUME NEW x \in Peer, promise[x] # Unsure, p # x
               PROVE  Settled(x, promise[x])'
    BY <1>1 DEF PromiseKept, Busy
  <2>1. Settled(x, promise[x])
    BY DEF PromiseInv, PromiseKept, Busy
  <2>2. Settled(x, promise[x])' <=> IF x \in Managed THEN cfg'.keys[x] = promise[x] /\ \A c \in undurable' : c.keys[x] = promise[x] ELSE db'[x] = promise[x]
    BY DEF Settled
  <2> QED BY <2>1, <2>2 DEF Settled
<1>4. PromiseUnderWay'
  <2> SUFFICES ASSUME promise[p] # Unsure
               PROVE  /\ IsManaged /\ reg'.pc \in BeforeReplace
                           => /\ cfg'.keys[p] = promise[p]
                              /\ \A c \in undurable' : c.keys[p] = promise[p]
                      /\ ~IsManaged => before.db[p] = promise[p]
    BY <1>1, <1>2 DEF PromiseUnderWay, Settled, IsManaged
  <2> QED BY DEF PromiseInv, PromiseUnderWay, Settled, IsManaged
<1>5. AnsweredIsDurable'
  BY <1>2 DEF AnsweredIsDurable
<1> QED BY <1>3, <1>4, <1>5 DEF PromiseInv

(* While a handler is at work and has not halted no transaction is open.   *)
LEMMA NothingOpen == ASSUME IInv, reg # Idle, reg.pc # "halt" PROVE open = Idle /\ ~failStop
BY DEF IInv, HandlerKnows, AgreeAtRest

LEMMA PromiseWrite == ASSUME IInv, PromiseInv, Write PROVE PromiseInv'
<1> USE DEF stores
<1>1. reg # Idle /\ reg.pc = "locked" /\ reg \in Handler /\ p \in Peer
  BY AtHandler, HandlerTyped DEF Write, IInv
<1>2. /\ reg' # Idle /\ reg'.req = reg.req /\ reg'.pc \in {"written", "rollback", "refused"}
  BY <1>1 DEF Write, Goto, Handler, Idle
<1>3. OpenIsUnsure'
  BY <1>1, NothingOpen DEF Write, OpenIsUnsure
<1> QED BY <1>1, <1>2, <1>3, PromiseMid DEF Write, BeforeReplace

LEMMA PromiseCommit == ASSUME IInv, PromiseInv, Commit PROVE PromiseInv'
<1>1. reg # Idle /\ reg.pc = "written" /\ reg \in Handler /\ p \in Peer
  BY AtHandler, HandlerTyped DEF Commit, IInv
<1>2. /\ reg' # Idle /\ reg'.req = reg.req /\ reg'.pc \in {"committed", "compensate", "rollback"}
  BY <1>1 DEF Commit, Goto, Handler, Idle
<1>3. OpenIsUnsure'
  BY <1>1, NothingOpen DEF Commit, OpenIsUnsure
<1>4. \A y \in Peer : y # p => db'[y] = db[y]
  BY DEF Commit, Commits, p, IInv, TypeOK
<1> QED BY <1>1, <1>2, <1>3, <1>4, PromiseMid DEF Commit, BeforeReplace

LEMMA PromiseRollback == ASSUME IInv, PromiseInv, Rollback PROVE PromiseInv'
<1> USE DEF stores
<1>1. reg # Idle /\ reg.pc = "rollback" /\ reg \in Handler /\ p \in Peer
  BY AtHandler, HandlerTyped DEF Rollback, IInv
<1>2. /\ reg' # Idle /\ reg'.req = reg.req /\ reg'.pc \in {"refused", "halt"}
      /\ reg'.pc = "refused" => open' = open
      /\ reg'.pc = "halt" => open' = reg
  BY <1>1 DEF Rollback, Goto, Handler, Idle
<1>3. OpenIsUnsure'
  BY <1>1, <1>2, NothingOpen DEF OpenIsUnsure, Busy, p
<1> QED BY <1>1, <1>2, <1>3, PromiseMid DEF Rollback, BeforeReplace

LEMMA PromisePublishCheck == ASSUME IInv, PromiseInv, PublishCheck PROVE PromiseInv'
<1> USE DEF stores
<1>1. reg # Idle /\ reg.pc = "committed" /\ reg \in Handler /\ p \in Peer
  BY AtHandler, HandlerTyped DEF PublishCheck, IInv
<1>2. /\ reg' # Idle /\ reg'.req = reg.req /\ reg'.pc \in {"done", "checked", "compensate"}
      /\ IsManaged => reg'.pc # "done"
  BY <1>1 DEF PublishCheck, Goto, Handler, Idle
<1>3. OpenIsUnsure'
  BY <1>1, NothingOpen DEF PublishCheck, OpenIsUnsure
<1> QED BY <1>1, <1>2, <1>3, PromiseMid DEF PublishCheck, BeforeReplace

LEMMA PromiseReplace == ASSUME IInv, PromiseInv, Replace, ~ReadFaults PROVE PromiseInv'
<1>1. reg # Idle /\ reg.pc = "checked" /\ reg \in Handler /\ p \in Peer /\ IsManaged
  BY AtHandler, HandlerTyped DEF Replace, IInv, HandlerKnows
<1>2. OpenIsUnsure'
  BY <1>1, NothingOpen DEF Replace, OpenIsUnsure
<1>3. CASE cfg' = cfg /\ undurable' = undurable /\ Goto("compensate")
  BY <1>1, <1>2, <1>3, PromiseMid, GotoKeeps DEF Replace, BeforeReplace, IInv, PC
<1>4. CASE cfg' = Candidate /\ undurable' = undurable \union {cfg} /\ (Goto("replaced") \/ Goto("halt"))
  <2>1. /\ reg' # Idle /\ reg'.req = reg.req /\ reg'.pc \in {"replaced", "halt"} /\ p' = p
    BY <1>1, <1>4, GotoKeeps DEF IInv, PC
  <2>2. UNCHANGED <<db, promise, before>>
    BY DEF Replace
  <2>3. IsManaged'
    BY <1>1, <2>1 DEF IsManaged
  <2>4. \A y \in Managed : y # p => cfg'.keys[y] = cfg.keys[y]
    <3>1. cfg.keys = reg.raw.keys /\ Candidate.keys = [reg.raw.keys EXCEPT ![p] = reg.req.new]
      BY <1>1, CandidateTyped DEF IInv, HandlerKnows, ConfigOld
    <3> QED BY <1>4, <3>1 DEF IInv, TypeOK, Config
  <2>5. PromiseKept'
    <3> SUFFICES ASSUME NEW x \in Peer, promise[x] # Unsure, p # x
                 PROVE  Settled(x, promise[x])'
      BY <2>1, <2>2 DEF PromiseKept, Busy
    <3>1. Settled(x, promise[x])
      BY DEF PromiseInv, PromiseKept, Busy
    <3>2. Settled(x, promise[x])' <=>
            IF x \in Managed
            THEN cfg'.keys[x] = promise[x] /\ \A c \in undurable' : c.keys[x] = promise[x]
            ELSE db'[x] = promise[x]
      BY <2>2 DEF Settled
    <3> QED BY <1>4, <2>2, <2>4, <3>1, <3>2 DEF Settled
  <2>6. PromiseUnderWay'
    BY <2>1, <2>3 DEF PromiseUnderWay, BeforeReplace
  <2>7. AnsweredIsDurable'
    BY <2>1 DEF AnsweredIsDurable
  <2> QED BY <1>2, <2>5, <2>6, <2>7 DEF PromiseInv
<1> QED BY <1>3, <1>4 DEF Replace

LEMMA PromiseSyncDir == ASSUME IInv, PromiseInv, SyncDir PROVE PromiseInv'
<1>1. reg # Idle /\ reg.pc = "replaced" /\ reg \in Handler /\ p \in Peer
  BY AtHandler, HandlerTyped DEF SyncDir, IInv
<1>2. /\ reg' # Idle /\ reg'.req = reg.req /\ reg'.pc \in {"synced", "halt"}
      /\ reg'.pc = "synced" => undurable' = {}
      /\ undurable' \subseteq undurable
  BY <1>1 DEF SyncDir, Goto, Handler, Idle
<1>3. OpenIsUnsure'
  BY <1>1, NothingOpen DEF SyncDir, OpenIsUnsure
<1> QED BY <1>1, <1>2, <1>3, PromiseMid DEF SyncDir, BeforeReplace

LEMMA PromiseApply == ASSUME IInv, PromiseInv, Apply PROVE PromiseInv'
<1>1. reg # Idle /\ reg.pc = "synced" /\ reg \in Handler /\ p \in Peer /\ IsManaged
  BY AtHandler, HandlerTyped DEF Apply, IInv, HandlerKnows
<1>2. /\ reg' # Idle /\ reg'.req = reg.req /\ reg'.pc \in {"done", "halt"}
  BY <1>1 DEF Apply, Goto, Handler, Idle
<1>3. OpenIsUnsure'
  BY <1>1, NothingOpen DEF Apply, OpenIsUnsure
<1>4. undurable' = {}
  BY <1>1 DEF Apply, PromiseInv, AnsweredIsDurable
<1> QED BY <1>1, <1>2, <1>3, <1>4, PromiseMid DEF Apply, BeforeReplace

LEMMA PromiseCompensate == ASSUME IInv, PromiseInv, Compensate PROVE PromiseInv'
<1>1. reg # Idle /\ reg.pc = "compensate" /\ reg \in Handler /\ p \in Peer
  BY AtHandler, HandlerTyped DEF Compensate, IInv
<1>2. /\ reg' # Idle /\ reg'.req = reg.req /\ reg'.pc \in {"refused", "halt"}
      /\ open' # Idle => reg'.pc = "halt" /\ open' = reg
  BY <1>1, NothingOpen DEF Compensate, Goto, Handler, Idle
<1>3. OpenIsUnsure'
  BY <1>1, <1>2 DEF OpenIsUnsure, Busy, p
<1>4. \A y \in Peer : y # p => db'[y] = db[y]
  BY DEF Compensate, Undo, Restored, p, IInv, TypeOK
<1> QED BY <1>1, <1>2, <1>3, <1>4, PromiseMid DEF Compensate, BeforeReplace

(* The answer: 200 for a key that is settled, a definite refusal for one   *)
(* that still is, or 503.                                                  *)
LEMMA PromiseAnswer == ASSUME IInv, PromiseInv, Answer PROVE PromiseInv'
<1> USE DEF stores
<1>1. reg # Idle /\ reg.pc \in {"done", "refused", "halt"} /\ p \in Peer
      /\ reg.req.new \in Keys
  BY HandlerTyped DEF Answer, Idle, IInv
<1>2. reg' = Idle /\ UNCHANGED <<failStop, db, cfg, undurable, open>>
  BY DEF Answer
<1>3. promise \in [Peer -> Keys \union {Unsure}] /\ before.db \in [Peer -> Keys]
      /\ before.keys \in [Managed -> Keys]
  BY DEF IInv, TypeOK
<1>4. \A x \in Peer : x # p => promise'[x] = promise[x]
  BY <1>1, <1>3 DEF Answer
<1>5. /\ reg.pc = "done" => promise'[p] = reg.req.new
      /\ reg.pc = "halt" => promise'[p] = Unsure
      /\ reg.pc = "refused" => promise'[p] = promise[p]
  BY <1>1, <1>3 DEF Answer
<1>6. PromiseKept'
  <2> SUFFICES ASSUME NEW x \in Peer, promise'[x] # Unsure
               PROVE  IF x \in Managed
                      THEN cfg.keys[x] = promise'[x] /\ \A c \in undurable : c.keys[x] = promise'[x]
                      ELSE db[x] = promise'[x]
    BY <1>2 DEF PromiseKept, Settled
  <2>1. CASE x # p
    BY <1>4, <2>1 DEF PromiseInv, PromiseKept, Busy, Settled
  <2>2. CASE x = p /\ reg.pc = "done"
    <3>1. Landed /\ (IF IsManaged THEN ConfigNew ELSE ConfigOld) /\ (IsManaged => undurable = {})
      BY <1>1, <2>2 DEF IInv, HandlerKnows, PromiseInv, AnsweredIsDurable
    <3> QED BY <1>1, <1>3, <1>5, <2>2, <3>1 DEF Landed, ConfigNew, IsManaged
  <2>3. CASE x = p /\ reg.pc = "refused"
    <3>1. Untouched
      BY <1>1, <2>3 DEF IInv, HandlerKnows
    <3> QED BY <1>1, <1>5, <2>3, <3>1
            DEF PromiseInv, PromiseUnderWay, BeforeReplace, Settled, Untouched, IsManaged
  <2> QED BY <1>1, <1>5, <2>1, <2>2, <2>3
<1>7. OpenIsUnsure'
  <2> SUFFICES ASSUME open # Idle PROVE promise'[open.req.peer] = Unsure
    BY <1>2 DEF OpenIsUnsure
  <2>1. reg.pc = "halt" /\ open.req.peer \in Peer
    BY <1>1, NothingOpen DEF IInv, TypeOK, Handler, Request
  <2> QED BY <1>4, <1>5, <2>1 DEF PromiseInv, OpenIsUnsure, Busy
<1> QED BY <1>2, <1>6, <1>7 DEF PromiseInv, PromiseUnderWay, AnsweredIsDurable

LEMMA PromiseOthers ==
  ASSUME IInv, PromiseInv,
         \/ \E q \in Request : Arrive(q)
         \/ \E q \in queue : Acquire(q)
         \/ \E x \in Guest, k \in Key : Enroll(x, k)
         \/ StrayCommit \/ EditConfig \/ Crash \/ HostCrash \/ Restart \/ UNCHANGED vars
  PROVE  PromiseInv'
<1> USE DEF stores
<1>1. CASE UNCHANGED <<db, undurable, reg, open, before, promise>> /\ cfg'.keys = cfg.keys
  <2>1. PromiseKept'
    BY <1>1 DEF PromiseInv, PromiseKept, Settled, Busy, p
  <2>2. PromiseUnderWay'
    BY <1>1 DEF PromiseInv, PromiseUnderWay, Settled, IsManaged, p
  <2> QED BY <1>1, <2>1, <2>2
          DEF PromiseInv, AnsweredIsDurable, OpenIsUnsure, Busy, IsManaged, p
<1>2. ASSUME NEW q \in queue, Acquire(q) PROVE PromiseInv'
  <2>1. CASE ~failStop /\ Authorised(q)
    <3>1. /\ reg' = [pc |-> "locked", req |-> q, old |-> db[q.peer], raw |-> cfg,
                     nonceIn |-> FALSE, keyIn |-> FALSE]
          /\ before' = [db |-> db, keys |-> cfg.keys, nonces |-> nonces]
          /\ reg = Idle /\ open = Idle
          /\ UNCHANGED <<db, cfg, undurable, open, promise>>
      BY <1>2, <2>1 DEF Acquire, LockFree, IInv, AgreeAtRest
    <3>2. \A x \in Peer : promise[x] # Unsure => Settled(x, promise[x])
      BY <3>1 DEF PromiseInv, PromiseKept, Busy
    <3>3. PromiseKept'
      BY <3>1, <3>2 DEF PromiseKept, Settled
    <3>4. q.peer \in Peer /\ p' = q.peer
      BY <3>1 DEF IInv, TypeOK, Request, p
    <3>5. PromiseUnderWay'
      BY <3>1, <3>2, <3>4 DEF PromiseUnderWay, Settled, IsManaged
    <3> QED BY <3>1, <3>3, <3>5 DEF PromiseInv, AnsweredIsDurable, OpenIsUnsure
  <2>2. CASE ~(~failStop /\ Authorised(q))
    BY <1>1, <1>2, <2>2 DEF Acquire
  <2> QED BY <2>1, <2>2
<1>3. ASSUME NEW x \in Guest, NEW k \in Key, Enroll(x, k) PROVE PromiseInv'
  <2>1. reg = Idle /\ reg' = Idle /\ open = Idle /\ open' = Idle /\ cfg' = cfg /\ undurable' = undurable
    BY <1>3 DEF Enroll, IdentityLocks, LockFree, IInv, AgreeAtRest
  <2>2. ASSUME NEW y \in Peer, promise'[y] # Unsure
        PROVE  IF y \in Managed
               THEN cfg.keys[y] = promise'[y] /\ \A c \in undurable : c.keys[y] = promise'[y]
               ELSE db'[y] = promise'[y]
    <3>1. CASE y = x
      <4>1. y \notin Managed
        BY <3>1, RegisterKeyAssumption
      <4> QED BY <1>3, <3>1, <4>1 DEF Enroll, IInv, TypeOK
    <3>2. CASE y # x
      BY <1>3, <2>1, <2>2, <3>2 DEF Enroll, IInv, TypeOK, PromiseInv, PromiseKept, Busy, Settled
    <3> QED BY <3>1, <3>2
  <2>3. PromiseKept'
    BY <2>1, <2>2 DEF PromiseKept, Settled
  <2> QED BY <2>1, <2>3 DEF PromiseInv, PromiseUnderWay, AnsweredIsDurable, OpenIsUnsure
<1>4. CASE StrayCommit
  <2>1. open \in Handler /\ open.req.peer \in Peer
    BY <1>4 DEF StrayCommit, IInv, TypeOK, Handler, Request
  <2>2. \A y \in Peer : y # open.req.peer => db'[y] = db[y]
    BY <1>4, <2>1 DEF StrayCommit, Commits, Undo, Restored, IInv, TypeOK
  <2>3. UNCHANGED <<cfg, undurable, reg, before, promise>> /\ open' = Idle
    BY <1>4 DEF StrayCommit
  <2>4. p' = p /\ (IsManaged' <=> IsManaged)
    BY <2>3 DEF p, IsManaged
  <2>5. PromiseKept'
    <3> SUFFICES ASSUME NEW x \in Peer, promise[x] # Unsure, ~Busy(x)
                 PROVE  IF x \in Managed
                        THEN cfg.keys[x] = promise[x] /\ \A c \in undurable : c.keys[x] = promise[x]
                        ELSE db'[x] = promise[x]
      BY <2>3, <2>4 DEF PromiseKept, Settled, Busy
    <3>1. x # open.req.peer
      BY <1>4 DEF StrayCommit, PromiseInv, OpenIsUnsure
    <3> QED BY <2>2, <3>1 DEF PromiseInv, PromiseKept, Settled
  <2>6. PromiseUnderWay'
    BY <2>3, <2>4 DEF PromiseInv, PromiseUnderWay, Settled, IsManaged
  <2> QED BY <2>3, <2>4, <2>5, <2>6 DEF PromiseInv, AnsweredIsDurable, OpenIsUnsure
<1>5. CASE Crash
  <2>1. reg' = Idle /\ open' = Idle /\ UNCHANGED <<db, cfg, undurable>>
    BY <1>5 DEF Crash
  <2>2. ASSUME NEW x \in Peer, promise'[x] # Unsure PROVE Settled(x, promise'[x])
    <3>1. promise'[x] = promise[x] /\ ~Busy(x)
      BY <1>5, <2>2 DEF Crash, IInv, TypeOK, Busy
    <3> QED BY <2>2, <3>1 DEF PromiseInv, PromiseKept
  <2>3. PromiseKept'
    BY <2>1, <2>2 DEF PromiseKept, Settled
  <2> QED BY <2>1, <2>3 DEF PromiseInv, PromiseUnderWay, AnsweredIsDurable, OpenIsUnsure
<1>6. CASE HostCrash
  <2>1. reg = Idle /\ reg' = Idle /\ open = Idle /\ open' = Idle
    BY <1>6 DEF HostCrash, IInv, HandlerKnows, AgreeAtRest
  <2>2. PromiseKept'
    BY <1>6, <2>1 DEF HostCrash, PromiseInv, PromiseKept, Settled, Busy
  <2> QED BY <2>1, <2>2 DEF PromiseInv, PromiseUnderWay, AnsweredIsDurable, OpenIsUnsure
<1>7. CASE Restart
  <2>1. reg = Idle /\ reg' = Idle /\ open = Idle /\ open' = Idle /\ UNCHANGED <<cfg, undurable, promise>>
    BY <1>7 DEF Restart, IInv, HandlerKnows, AgreeAtRest
  <2>2. \A x \in Peer : x \notin Managed => db'[x] = db[x]
    BY <1>7 DEF Restart, FromConfig
  <2>3. PromiseKept'
    BY <2>1, <2>2 DEF PromiseInv, PromiseKept, Settled, Busy
  <2> QED BY <2>1, <2>3 DEF PromiseInv, PromiseUnderWay, AnsweredIsDurable, OpenIsUnsure
<1>8. CASE EditConfig
  <2>1. cfg'.keys = cfg.keys /\ undurable' = {}
    BY <1>8 DEF EditConfig, IInv, TypeOK, Config
  <2>2. UNCHANGED <<db, reg, open, before, promise>>
    BY <1>8 DEF EditConfig
  <2>3. PromiseKept'
    BY <2>1, <2>2 DEF PromiseInv, PromiseKept, Settled, Busy, p
  <2>4. PromiseUnderWay'
    BY <2>1, <2>2 DEF PromiseInv, PromiseUnderWay, Settled, IsManaged, p
  <2> QED BY <2>1, <2>2, <2>3, <2>4
          DEF PromiseInv, AnsweredIsDurable, OpenIsUnsure, Busy, IsManaged, p
<1>9. CASE \E q \in Request : Arrive(q)
  BY <1>1, <1>9 DEF Arrive
<1>10. CASE UNCHANGED vars
  BY <1>1, <1>10 DEF vars
<1> QED BY <1>2, <1>3, <1>4, <1>5, <1>6, <1>7, <1>8, <1>9, <1>10

LEMMA PromiseStep ==
  ~ReadFaults /\ IInv /\ PromiseInv /\ [Next]_vars => PromiseInv'
BY PromiseWrite, PromiseCommit, PromiseRollback, PromisePublishCheck, PromiseReplace,
   PromiseSyncDir, PromiseApply, PromiseCompensate, PromiseAnswer, PromiseOthers
DEF Next, HandlerStep

(* The key a peer was last definitely told it has is the one that every    *)
(* later restart brings up, whatever crashes, whatever the host loses and  *)
(* however the fail-stop is reached.                                       *)
THEOREM PromiseDurable == ASSUME ~ReadFaults PROVE Spec => []PromiseSurvives
<1>1. IInv /\ PromiseInv => PromiseSurvives
  BY SettledOutcomes DEF PromiseInv, PromiseKept, PromiseSurvives, Busy
<1>2. IInv /\ PromiseInv /\ [Next]_vars => (IInv /\ PromiseInv)'
  BY IStep, PromiseStep
<1> QED BY <1>1, <1>2, IInit, PromiseInit, PTL DEF Spec

(* A client settles an unanswered registration by the key that status      *)
(* tells it, and that is the key every later restart brings up: after a    *)
(* crash of the process always, after one of the host when the directory   *)
(* has been synced since the last replace.                                 *)
THEOREM StatusOutlives == ASSUME ~ReadFaults PROVE Spec => []StatusSurvivesRestart
<1>1. ASSUME IInv, up, ~failStop, reg = Idle PROVE FromConfig = db
  <2>1. db = [x \in Peer |-> db[x]] /\ Managed \subseteq Peer
    BY <1>1 DEF IInv, TypeOK, Peer
  <2>2. \A x \in Managed : cfg.keys[x] = db[x]
    BY <1>1 DEF IInv, AgreeAtRest
  <2> QED BY <2>1, <2>2 DEF FromConfig
<1>2. ASSUME IInv, up, ~failStop, reg = Idle, undurable = {}, NEW x \in Peer
      PROVE  Outcomes(x) = {db[x]}
  BY <1>2 DEF IInv, AgreeAtRest, Outcomes
<1>3. IInv => StatusSurvivesRestart
  BY <1>1, <1>2 DEF StatusSurvivesRestart
<1>4. IInv /\ [Next]_vars => IInv'
  BY IStep
<1> QED BY <1>3, <1>4, IInit, PTL DEF Spec

LEMMA SignedInit == Init => RequestIsSigned
BY DEF Init, RequestIsSigned

LEMMA SignedStep == IInv /\ RequestIsSigned /\ [Next]_vars => RequestIsSigned'
<1> SUFFICES ASSUME IInv, RequestIsSigned, [Next]_vars, reg' # Idle
             PROVE  /\ reg'.req.peer \in Managed \/ reg'.old # NoKey
                    /\ reg'.old # NoKey => reg'.req.signer = reg'.old
                    /\ reg'.pc = "written" => (reg'.nonceIn <=> reg'.old # NoKey)
  BY DEF RequestIsSigned, Signed, IsManaged, p
<1>1. ASSUME NEW q \in queue, Acquire(q)
      PROVE  /\ reg'.req.peer \in Managed \/ reg'.old # NoKey
             /\ reg'.old # NoKey => reg'.req.signer = reg'.old
             /\ reg'.pc = "written" => (reg'.nonceIn <=> reg'.old # NoKey)
  BY <1>1 DEF Acquire, LockFree, Authorised
<1>2. CASE Write
  <2>1. reg # Idle /\ reg \in Handler
    BY <1>2, AtHandler, HandlerTyped DEF Write, IInv
  <2> QED BY <1>2, <2>1 DEF Write, Goto, Handler, RequestIsSigned, Signed, IsManaged, p
<1>3. ASSUME reg # Idle, NEW pc \in PC, Goto(pc), pc # "written"
      PROVE  /\ reg'.req.peer \in Managed \/ reg'.old # NoKey
             /\ reg'.old # NoKey => reg'.req.signer = reg'.old
             /\ reg'.pc = "written" => (reg'.nonceIn <=> reg'.old # NoKey)
  BY <1>3, GotoKeeps DEF IInv, RequestIsSigned, IsManaged, p
<1>4. CASE Commit \/ Rollback \/ PublishCheck \/ Replace \/ SyncDir \/ Apply \/ Compensate
  <2>1. reg # Idle
    BY <1>4, AtHandler DEF Commit, Rollback, PublishCheck, Replace, SyncDir, Apply, Compensate
  <2>2. \E pc \in PC : pc # "written" /\ Goto(pc)
    BY <1>4 DEF Commit, Rollback, PublishCheck, Replace, SyncDir, Apply, Compensate, PC
  <2> QED BY <1>3, <2>1, <2>2
<1>5. CASE UNCHANGED reg
  BY <1>5 DEF RequestIsSigned, Signed, IsManaged, p
<1>6. CASE Answer \/ Crash
  BY <1>6 DEF Answer, Crash
<1> QED BY <1>1, <1>2, <1>4, <1>5, <1>6
        DEF Next, HandlerStep, Arrive, Enroll, StrayCommit, EditConfig, HostCrash, Restart, vars

(* While the relay runs a peer's key changes only by a request signed with *)
(* the key it replaces, spending its nonce in the same commit, or back to  *)
(* that key when the publication failed; the first key of a peer and the   *)
(* transaction of a failed rollback aside, and never under fail-stop.      *)
THEOREM KeyChangesSigned == ASSUME ~ReadFaults PROVE Spec => KeyChangesAuthorised
<1>1. IInv /\ RequestIsSigned /\ [Next]_vars
        => [\A x \in Peer :
              up /\ up' /\ db'[x] # db[x] =>
                \/ db[x] = NoKey /\ ~failStop
                \/ open # Idle /\ open.req.peer = x
                \/ /\ ~failStop /\ reg # Idle /\ p = x
                   /\ \/ db'[x] = reg.old
                      \/ reg.req.signer = db[x] /\ reg.req.nonce \in nonces' \ nonces]_vars
  <2> SUFFICES ASSUME IInv, RequestIsSigned, Next, NEW x \in Peer, up, up', db'[x] # db[x]
               PROVE  \/ db[x] = NoKey /\ ~failStop
                      \/ open # Idle /\ open.req.peer = x
                      \/ /\ ~failStop /\ reg # Idle /\ p = x
                         /\ \/ db'[x] = reg.old
                            \/ reg.req.signer = db[x] /\ reg.req.nonce \in nonces' \ nonces
    OBVIOUS
  <2>1. \/ \E y \in Guest, k \in Key : Enroll(y, k)
        \/ StrayCommit \/ Commit \/ Compensate
    BY DEF Next, HandlerStep, Arrive, Acquire, Write, Rollback, PublishCheck, Replace, SyncDir,
           Apply, Answer, EditConfig, Crash, HostCrash, Restart, stores
  <2>2. CASE \E y \in Guest, k \in Key : Enroll(y, k)
    BY <2>2 DEF Enroll, IdentityLocks, IInv, TypeOK
  <2>3. CASE StrayCommit
    BY <2>3 DEF StrayCommit, Commits, Undo, Restored, IInv, TypeOK
  <2>4. CASE Commit
    <3>1. reg # Idle /\ reg.pc = "written" /\ p \in Peer
      BY <2>4, AtHandler, HandlerTyped DEF Commit, IInv
    <3>2. ~failStop /\ Untouched /\ reg.old = before.db[p]
            /\ (reg.nonceIn => reg.req.nonce \notin before.nonces)
      BY <3>1, NothingOpen DEF IInv, HandlerKnows
    <3>3. p = x /\ Commits(reg)
      BY <2>4, <3>1 DEF Commit, Commits, p, IInv, TypeOK
    <3>4. reg.old # NoKey => reg.req.signer = reg.old /\ reg.nonceIn
      BY <3>1 DEF RequestIsSigned, Signed
    <3> QED BY <3>1, <3>2, <3>3, <3>4 DEF Commits, Untouched
  <2>5. CASE Compensate
    <3>1. reg # Idle /\ reg.pc = "compensate" /\ p \in Peer
      BY <2>5, AtHandler, HandlerTyped DEF Compensate, IInv
    <3>2. ~failStop
      BY <3>1, NothingOpen
    <3> QED BY <2>5, <3>1, <3>2 DEF Compensate, Undo, Restored, p, IInv, TypeOK
  <2> QED BY <2>1, <2>2, <2>3, <2>4, <2>5
<1>2. IInv /\ RequestIsSigned /\ [Next]_vars => (IInv /\ RequestIsSigned)'
  BY IStep, SignedStep
<1> QED BY <1>1, <1>2, IInit, SignedInit, PTL DEF Spec, KeyChangesAuthorised

LEMMA UniqueInit == Init => UniqueInv
BY DEF Init, UniqueInv, DbUnique, FileUnique, NewIsNobodys, BeforeUnique, Peer

(* The steps that leave the keys of both stores alone.                     *)
LEMMA UniqueKeeps ==
  ASSUME UniqueInv, db' = db, cfg'.keys = cfg.keys, up' => up, BeforeUnique', NewIsNobodys'
  PROVE  UniqueInv'
<1>1. FileUnique'
  BY DEF UniqueInv, FileUnique
<1> QED BY <1>1 DEF UniqueInv, DbUnique

LEMMA UniqueHandler ==
  ASSUME IInv, UniqueInv, Write \/ Rollback \/ PublishCheck \/ SyncDir \/ Apply \/ Answer
  PROVE  UniqueInv'
<1> USE DEF stores
<1>1. UNCHANGED <<db, cfg, up, before>>
  BY DEF Write, Rollback, PublishCheck, SyncDir, Apply, Answer
<1>2. BeforeUnique'
  BY <1>1, AtHandler DEF UniqueInv, BeforeUnique, Write, Rollback, PublishCheck, SyncDir, Apply, Answer
<1>3. NewIsNobodys'
  <2>1. CASE Write
    <3>1. reg # Idle /\ reg.pc = "locked" /\ reg \in Handler /\ p \in Peer /\ ~reg.keyIn
      BY <2>1, AtHandler, HandlerTyped DEF Write, IInv, UniqueInv, NewIsNobodys
    <3>2. open = Idle /\ open' = Idle
      BY <2>1, <3>1, NothingOpen DEF Write
    <3>3. CASE reg'.keyIn
      <4>1. ~KeyTaken(reg.req.new, p) /\ reg'.req = reg.req
        BY <2>1, <3>1, <3>3 DEF Write, Goto, Handler
      <4>2. \A y \in Managed : cfg.keys[y] = db[y] /\ y \in Peer
        BY <3>1 DEF IInv, HandlerKnows, Untouched, ConfigOld, Peer
      <4>3. Nobodys(reg.req.new, p)
        BY <4>1, <4>2 DEF Nobodys, KeyTaken
      <4>4. p' = p
        BY <4>1 DEF p
      <4>5. reg'.pc # "locked"
        BY <2>1, <3>1, <3>3 DEF Write, Goto, Handler
      <4> QED BY <1>1, <3>2, <4>1, <4>3, <4>4, <4>5 DEF NewIsNobodys, Nobodys
    <3>4. CASE ~reg'.keyIn
      BY <3>2, <3>4 DEF NewIsNobodys
    <3> QED BY <3>3, <3>4
  <2>2. CASE Rollback
    <3>1. reg # Idle /\ reg.pc = "rollback"
      BY <2>2, AtHandler DEF Rollback
    <3>2. reg'.pc \in {"refused", "halt"} /\ (open' = open \/ open' = reg) /\ open = Idle
      BY <2>2, <3>1, GotoKeeps, NothingOpen DEF Rollback, IInv, PC
    <3>3. (reg.keyIn => Nobodys(reg.req.new, reg.req.peer)) /\ ~Undoes(reg)
      BY <3>1 DEF UniqueInv, NewIsNobodys, p, Undoes
    <3> QED BY <1>1, <3>2, <3>3 DEF NewIsNobodys, Nobodys, Undoes
  <2>3. CASE PublishCheck \/ SyncDir \/ Apply
    <3>1. PICK pc \in {"done", "checked", "compensate", "synced", "halt"} : Goto(pc) /\ reg # Idle
      BY <2>3, AtHandler DEF PublishCheck, SyncDir, Apply
    <3>2. reg'.pc = pc
      BY <3>1, GotoKeeps DEF IInv, PC
    <3>3. open' = open
      BY <2>3 DEF PublishCheck, SyncDir, Apply
    <3> QED BY <1>1, <3>1, <3>2, <3>3 DEF UniqueInv, NewIsNobodys, Nobodys
  <2>4. CASE Answer
    BY <1>1, <2>4 DEF Answer, UniqueInv, NewIsNobodys, Nobodys
  <2> QED BY <2>1, <2>2, <2>3, <2>4
<1> QED BY <1>1, <1>2, <1>3, UniqueKeeps

LEMMA UniqueCommit == ASSUME IInv, UniqueInv, Commit PROVE UniqueInv'
<1>1. reg # Idle /\ reg.pc = "written" /\ p \in Peer /\ reg.keyIn
  BY AtHandler, HandlerTyped DEF Commit, IInv, HandlerKnows
<1>2. UNCHANGED <<cfg, up, open, before>> /\ open = Idle
  BY <1>1, NothingOpen DEF Commit
<1>3. Nobodys(reg.req.new, p)
  BY <1>1 DEF UniqueInv, NewIsNobodys
<1>4. PICK pc \in {"committed", "compensate", "rollback"} : Goto(pc)
  BY DEF Commit
<1>5. /\ reg'.pc = pc /\ reg'.req = reg.req /\ p' = p /\ reg'.keyIn = reg.keyIn
  BY <1>1, <1>4, GotoKeeps DEF IInv, PC
<1>6. pc = "rollback" => db' = db
  BY <1>1, <1>5 DEF Commit, Goto, IInv, TypeOK, Handler, Idle
<1>7. NewIsNobodys'
  BY <1>1, <1>2, <1>3, <1>5, <1>6 DEF NewIsNobodys, Nobodys
<1>8. BeforeUnique'
  BY <1>1, <1>2 DEF UniqueInv, BeforeUnique
<1>9. CASE db' = db
  BY <1>2, <1>7, <1>8, <1>9, UniqueKeeps
<1>10. CASE Commits(reg)
  <2>1. db' = [db EXCEPT ![p] = reg.req.new] /\ db \in [Peer -> Keys]
    BY <1>1, <1>10 DEF Commits, p, IInv, TypeOK
  <2>2. DbUnique'
    BY <1>1, <1>3, <2>1 DEF UniqueInv, DbUnique, Nobodys
  <2>3. FileUnique'
    BY <1>1, <1>2, <1>3, <2>1 DEF UniqueInv, FileUnique, Nobodys, Peer
  <2> QED BY <1>7, <1>8, <2>2, <2>3 DEF UniqueInv
<1> QED BY <1>9, <1>10 DEF Commit

LEMMA UniqueReplace == ASSUME IInv, UniqueInv, Replace, ~ReadFaults PROVE UniqueInv'
<1>1. reg # Idle /\ reg.pc = "checked" /\ p \in Peer /\ IsManaged /\ up /\ reg.req.new \in Key
  BY AtHandler, HandlerTyped DEF Replace, IInv, HandlerKnows
<1>2. UNCHANGED <<db, up, open, before>>
  BY DEF Replace
<1>3. PICK pc \in {"compensate", "replaced", "halt"} : Goto(pc)
  BY DEF Replace
<1>4. reg'.pc = pc
  BY <1>1, <1>3, GotoKeeps DEF IInv, PC
<1>5. open = Idle
  BY <1>1, NothingOpen
<1>6. NewIsNobodys' /\ BeforeUnique'
  BY <1>1, <1>2, <1>4, <1>5 DEF UniqueInv, NewIsNobodys, BeforeUnique
<1>7. CASE cfg' = cfg
  BY <1>2, <1>6, <1>7, UniqueKeeps
<1>8. CASE cfg' = Candidate
  <2>1. cfg'.keys = [cfg.keys EXCEPT ![p] = reg.req.new] /\ cfg.keys \in [Managed -> Keys]
    BY <1>1, <1>8, CandidateTyped DEF IInv, HandlerKnows, ConfigOld, TypeOK, Config
  <2>2. db[p] = reg.req.new /\ reg.req.new # NoKey
    BY <1>1, RegisterKeyAssumption DEF IInv, HandlerKnows, Landed, TypeOK
  <2>3. \A y \in Peer : y # p => db[y] # reg.req.new
    BY <1>1, <2>2 DEF UniqueInv, DbUnique
  <2>4. \A y \in Managed : y # p => cfg.keys[y] # reg.req.new
    BY <1>1, <2>2 DEF UniqueInv, FileUnique
  <2>5. FileUnique'
    BY <1>1, <1>2, <2>1, <2>3, <2>4 DEF UniqueInv, FileUnique, IsManaged
  <2> QED BY <1>2, <1>6, <2>5 DEF UniqueInv, DbUnique
<1> QED BY <1>7, <1>8 DEF Replace

LEMMA UniqueCompensate == ASSUME IInv, UniqueInv, Compensate PROVE UniqueInv'
<1>1. reg # Idle /\ reg.pc = "compensate" /\ p \in Peer /\ up
  BY AtHandler, HandlerTyped DEF Compensate, IInv, HandlerKnows
<1>2. UNCHANGED <<cfg, up, before>>
  BY DEF Compensate
<1>3. PICK pc \in {"refused", "halt"} : Goto(pc)
  BY DEF Compensate
<1>4. reg'.pc = pc
  BY <1>1, <1>3, GotoKeeps DEF IInv, PC
<1>5. open = Idle
  BY <1>1, NothingOpen
<1>6. /\ before.db \in [Peer -> Keys] /\ reg.old = before.db[p] /\ (Untouched \/ Landed) /\ ConfigOld
      /\ \A x \in Managed : before.keys[x] = before.db[x]
  BY <1>1 DEF IInv, TypeOK, HandlerKnows
<1>7. BeforeUnique'
  BY <1>1, <1>2, <1>4 DEF UniqueInv, BeforeUnique
<1>8. CASE db' = db /\ open' = reg
  <2>1. reg.old # NoKey => Nobodys(reg.old, p)
    <3> SUFFICES ASSUME reg.old # NoKey, NEW y \in Peer \ {p}
                 PROVE  db[y] # reg.old /\ (y \in Managed => cfg.keys[y] # reg.old)
      BY DEF Nobodys
    <3>1. before.db[y] # reg.old /\ db[y] = before.db[y]
      BY <1>1, <1>6 DEF UniqueInv, BeforeUnique, Untouched, Landed
    <3> QED BY <1>6, <3>1 DEF ConfigOld
  <2>2. NewIsNobodys'
    BY <1>1, <1>2, <1>4, <1>8, <2>1 DEF NewIsNobodys, Nobodys, Undoes, p
  <2> QED BY <1>2, <1>7, <1>8, <2>2, UniqueKeeps
<1>9. CASE db' = db /\ open' = Idle
  <2>1. NewIsNobodys'
    BY <1>4, <1>9 DEF NewIsNobodys
  <2> QED BY <1>2, <1>7, <1>9, <2>1, UniqueKeeps
<1>10. CASE Undo(reg) /\ open' = open
  <2>1. NewIsNobodys'
    BY <1>4, <1>5, <1>10 DEF NewIsNobodys
  <2>2. db' = before.db
    BY <1>1, <1>6, <1>10 DEF Undo, Restored, Untouched, Landed, p
  <2>3. DbUnique'
    BY <1>1, <2>2 DEF UniqueInv, BeforeUnique, DbUnique
  <2>4. FileUnique'
    BY <1>1, <1>2, <1>6, <2>2 DEF UniqueInv, BeforeUnique, FileUnique, ConfigOld, Peer
  <2> QED BY <1>7, <2>1, <2>3, <2>4 DEF UniqueInv
<1> QED BY <1>5, <1>8, <1>9, <1>10 DEF Compensate

LEMMA UniqueOthers ==
  ASSUME IInv, UniqueInv,
         \/ \E q \in Request : Arrive(q)
         \/ \E q \in queue : Acquire(q)
         \/ \E x \in Guest, k \in Key : Enroll(x, k)
         \/ StrayCommit \/ EditConfig \/ Crash \/ HostCrash \/ Restart \/ UNCHANGED vars
  PROVE  UniqueInv'
<1> USE DEF stores
<1>1. CASE \/ \E q \in Request : Arrive(q)
           \/ EditConfig \/ UNCHANGED vars
  <2>1. UNCHANGED <<db, up, reg, open, before>> /\ cfg'.keys = cfg.keys
    BY <1>1 DEF Arrive, EditConfig, vars, IInv, TypeOK, Config
  <2>2. NewIsNobodys' /\ BeforeUnique'
    BY <2>1 DEF UniqueInv, NewIsNobodys, Nobodys, BeforeUnique, p
  <2> QED BY <2>1, <2>2, UniqueKeeps
<1>2. ASSUME NEW q \in queue, Acquire(q) PROVE UniqueInv'
  <2>1. UNCHANGED <<db, up, open, cfg>>
    BY <1>2 DEF Acquire
  <2>2. CASE ~failStop /\ Authorised(q)
    <3>1. /\ reg'.pc = "locked" /\ ~reg'.keyIn /\ before'.db = db /\ open = Idle
      BY <1>2, <2>2 DEF Acquire, LockFree, IInv, AgreeAtRest
    <3>2. NewIsNobodys' /\ BeforeUnique'
      BY <2>1, <3>1 DEF UniqueInv, DbUnique, NewIsNobodys, BeforeUnique
    <3> QED BY <2>1, <3>2, UniqueKeeps
  <2>3. CASE reg' = reg /\ before' = before
    <3>1. NewIsNobodys' /\ BeforeUnique'
      BY <2>1, <2>3 DEF UniqueInv, NewIsNobodys, Nobodys, BeforeUnique, p
    <3> QED BY <2>1, <3>1, UniqueKeeps
  <2> QED BY <1>2, <2>2, <2>3 DEF Acquire
<1>3. ASSUME NEW x \in Guest, NEW k \in Key, Enroll(x, k) PROVE UniqueInv'
  <2>1. reg = Idle /\ reg' = Idle /\ open = Idle /\ open' = Idle /\ cfg' = cfg /\ up' = up
        /\ ~failStop /\ up
    BY <1>3 DEF Enroll, IdentityLocks, LockFree, IInv, AgreeAtRest
  <2>2. db' = [db EXCEPT ![x] = k] /\ db \in [Peer -> Keys] /\ x \in Peer /\ x \notin Managed
    BY <1>3, RegisterKeyAssumption DEF Enroll, IInv, TypeOK, Peer
  <2>3. \A y \in Peer : y # x => db[y] # k
    BY <1>3 DEF Enroll, KeyTaken
  <2>4. \A y \in Managed : cfg.keys[y] = db[y] /\ y \in Peer
    BY <2>1 DEF IInv, AgreeAtRest, Peer
  <2>5. DbUnique'
    BY <2>2, <2>3 DEF UniqueInv, DbUnique
  <2>6. FileUnique'
    BY <2>1, <2>2, <2>3, <2>4 DEF UniqueInv, FileUnique
  <2> QED BY <2>1, <2>5, <2>6 DEF UniqueInv, NewIsNobodys, BeforeUnique
<1>4. CASE StrayCommit
  <2>1. open # Idle /\ open \in Handler /\ open.req.peer \in Peer /\ open' = Idle /\ up
        /\ UNCHANGED <<cfg, up, reg, before>>
    BY <1>4 DEF StrayCommit, IInv, TypeOK, Handler, Request
  <2>2. reg # Idle => reg.pc = "halt"
    BY <2>1 DEF IInv, AgreeAtRest, HandlerKnows
  <2>3. NewIsNobodys' /\ BeforeUnique'
    BY <2>1, <2>2 DEF UniqueInv, NewIsNobodys, BeforeUnique
  <2>4. CASE db' = db
    BY <2>1, <2>3, <2>4, UniqueKeeps
  <2>5. ASSUME NEW k, k # NoKey => Nobodys(k, open.req.peer),
               db' = [db EXCEPT ![open.req.peer] = k]
        PROVE  UniqueInv'
    <3>1. db \in [Peer -> Keys]
      BY DEF IInv, TypeOK
    <3>2. DbUnique'
      BY <2>1, <2>5, <3>1 DEF UniqueInv, DbUnique, Nobodys
    <3>3. FileUnique'
      BY <2>1, <2>5, <3>1 DEF UniqueInv, FileUnique, Nobodys, Peer
    <3> QED BY <2>3, <3>2, <3>3 DEF UniqueInv
  <2>6. CASE ~Undoes(open)
    <3>1. open.keyIn => Nobodys(open.req.new, open.req.peer)
      BY <2>1, <2>6 DEF UniqueInv, NewIsNobodys
    <3> QED BY <1>4, <2>4, <2>5, <2>6, <3>1 DEF StrayCommit, Commits
  <2>7. CASE Undoes(open)
    <3>1. open.old # NoKey => Nobodys(open.old, open.req.peer)
      BY <2>1, <2>7 DEF UniqueInv, NewIsNobodys
    <3> QED BY <1>4, <2>5, <2>7, <3>1 DEF StrayCommit, Undo, Restored
  <2> QED BY <2>6, <2>7
<1>5. CASE Crash
  BY <1>5 DEF Crash, UniqueInv, DbUnique, FileUnique, NewIsNobodys, BeforeUnique
<1>6. CASE HostCrash
  <2>1. reg = Idle /\ open = Idle
    BY <1>6 DEF HostCrash, IInv, HandlerKnows, AgreeAtRest
  <2> QED BY <1>6, <2>1 DEF HostCrash, UniqueInv, DbUnique, FileUnique, NewIsNobodys, BeforeUnique
<1>7. CASE Restart
  <2>1. reg = Idle /\ open = Idle /\ UNCHANGED <<cfg, reg, open>> /\ Startable
    BY <1>7 DEF Restart, IInv, HandlerKnows, AgreeAtRest
  <2>2. \A x \in Peer : db'[x] = IF x \in Managed THEN cfg.keys[x] ELSE db[x]
    BY <1>7 DEF Restart, FromConfig
  <2>3. \A x \in Managed, y \in Peer : x # y /\ y \notin Managed =>
          (cfg.keys[x] = db[y] => cfg.keys[x] = NoKey)
    BY <2>1 DEF Startable, HeldAt
  <2>4. \A x, y \in Managed : x # y /\ cfg.keys[x] = cfg.keys[y] => cfg.keys[x] = NoKey
    <3> SUFFICES ASSUME NEW x \in Managed, NEW y \in Managed, x # y, cfg.keys[x] = cfg.keys[y]
                 PROVE  cfg.keys[x] = NoKey
      OBVIOUS
    <3>1. Rank[x] \in Nat /\ Rank[y] \in Nat /\ Rank[x] # Rank[y] /\ x \in Peer /\ y \in Peer
      BY RegisterKeyAssumption DEF Peer
    <3>2. CASE Rank[y] < Rank[x]
      BY <2>1, <3>1, <3>2 DEF Startable, HeldAt
    <3>3. CASE Rank[x] < Rank[y]
      BY <2>1, <3>1, <3>3 DEF Startable, HeldAt
    <3> QED BY <3>1, <3>2, <3>3
  <2>5. DbUnique'
    BY <2>2, <2>3, <2>4 DEF UniqueInv, DbUnique
  <2>6. FileUnique'
    BY <2>1, <2>2, <2>3, <2>4 DEF FileUnique, Peer
  <2> QED BY <2>1, <2>5, <2>6 DEF UniqueInv, NewIsNobodys, BeforeUnique
<1> QED BY <1>1, <1>2, <1>3, <1>4, <1>5, <1>6, <1>7

LEMMA UniqueStep == ~ReadFaults /\ IInv /\ UniqueInv /\ [Next]_vars => UniqueInv'
BY UniqueHandler, UniqueCommit, UniqueReplace, UniqueCompensate, UniqueOthers
DEF Next, HandlerStep

(* A crash of the process, at whatever step of whatever registration, is   *)
(* never the one after which the unique index refuses the file's keys and  *)
(* the relay does not start.                                               *)
THEOREM CrashIsRestartable == ASSUME ~ReadFaults PROVE Spec => RestartPossible
<1>1. IInv /\ UniqueInv /\ [Next]_vars => [up /\ ~up' => Startable']_vars
  <2> SUFFICES ASSUME IInv, UniqueInv, Next, up, ~up' PROVE Startable'
    OBVIOUS
  <2>1. Crash
    BY DEF Next, HandlerStep, Arrive, Acquire, Write, Commit, Rollback, PublishCheck, Replace,
           SyncDir, Apply, Compensate, Answer, Enroll, StrayCommit, EditConfig, HostCrash, Restart
  <2>2. UNCHANGED <<db, cfg>>
    BY <2>1 DEF Crash, stores
  <2>3. Startable
    BY DEF UniqueInv, FileUnique, Startable, HeldAt
  <2> QED BY <2>2, <2>3 DEF Startable, HeldAt
<1>2. IInv /\ UniqueInv /\ [Next]_vars => (IInv /\ UniqueInv)'
  BY IStep, UniqueStep
<1> QED BY <1>1, <1>2, IInit, UniqueInit, PTL DEF Spec, RestartPossible

(* No two peers ever hold one key in the database, nor, while the relay    *)
(* runs, in the file.                                                      *)
THEOREM OneKeyOnePeer == ASSUME ~ReadFaults PROVE Spec => [](DbUnique /\ (up => KeysUnique))
<1>1. IInv /\ UniqueInv => DbUnique /\ (up => KeysUnique)
  BY DEF UniqueInv, DbUnique, FileUnique, KeysUnique, Peer
<1>2. IInv /\ UniqueInv /\ [Next]_vars => (IInv /\ UniqueInv)'
  BY IStep, UniqueStep
<1> QED BY <1>1, <1>2, IInit, UniqueInit, PTL DEF Spec

-----------------------------------------------------------------------------
(* RegisterKey implements KeyRegister: every step of the handler, of a     *)
(* failure or of a restart is one step of the register or none.            *)
Quiet == HeldKey' = HeldKey /\ ToldKey' = ToldKey
BySigner(x) == HeldKey[x] = NoKey \/ SignedOver(x) \/ TakenBack(x)
SignedChange == \A x \in Peer : up /\ HeldKey'[x] # HeldKey[x] => BySigner(x)
Maps == (R!RegisterNext /\ SignedChange) \/ Quiet

(* A transaction left open is of a request that was signed with the key it *)
(* replaces.  The database still has that one, or, if the transaction was  *)
(* to bring it back, perhaps the new one; and a guest always has some key. *)
OpenIsSigned ==
  open # Idle => /\ open.old # NoKey => open.req.signer = open.old
                 /\ \/ open.old = db[open.req.peer]
                    \/ Undoes(open) /\ open.req.new = db[open.req.peer]
                 /\ open.req.peer \in Managed \/ open.old # NoKey

LEMMA OpenSignedStep ==
  IInv /\ RequestIsSigned /\ OpenIsSigned /\ [Next]_vars => OpenIsSigned'
<1> SUFFICES ASSUME IInv, RequestIsSigned, OpenIsSigned, [Next]_vars, open' # Idle
             PROVE  OpenIsSigned'
  BY DEF OpenIsSigned
<1> USE DEF stores
<1>1. CASE Rollback
  <2>1. reg # Idle /\ reg.pc = "rollback" /\ open = Idle /\ open' \in {reg, Idle}
    BY <1>1, AtHandler, NothingOpen DEF Rollback
  <2>2. reg.old = db[reg.req.peer] /\ db' = db
    BY <1>1, <2>1 DEF Rollback, IInv, HandlerKnows, Untouched, p
  <2> QED BY <2>1, <2>2 DEF RequestIsSigned, OpenIsSigned, IsManaged, p
<1>0. CASE Compensate /\ open' # open
  <2>1. reg # Idle /\ reg.pc = "compensate" /\ open' = reg /\ db' = db /\ p \in Peer
    BY <1>0, AtHandler, HandlerTyped DEF Compensate, IInv
  <2>2. db[p] = reg.old \/ db[p] = reg.req.new
    BY <2>1 DEF IInv, TypeOK, HandlerKnows, Untouched, Landed
  <2> QED BY <2>1, <2>2 DEF RequestIsSigned, OpenIsSigned, IsManaged, p, Undoes
<1>2. CASE open' = open /\ db' = db
  BY <1>2 DEF OpenIsSigned
<1>3. CASE open' = open /\ db' # db
  <2>1. open # Idle /\ up /\ failStop /\ (reg # Idle => reg.pc = "halt")
    BY <1>3, NothingOpen DEF IInv, AgreeAtRest
  <2>2. CASE Commit \/ Compensate
    <3>1. reg # Idle /\ reg.pc # "halt"
      BY <2>2, AtHandler DEF Commit, Compensate
    <3> QED BY <2>1, <3>1
  <2>3. CASE Restart \/ \E x \in Guest, k \in Key : Enroll(x, k)
    BY <2>1, <2>3 DEF Restart, Enroll, IdentityLocks
  <2> QED BY <1>3, <2>1, <2>2, <2>3 DEF Next, HandlerStep, Arrive, Acquire, Write, Rollback,
       PublishCheck, Replace, SyncDir, Apply, Answer, StrayCommit, EditConfig, Crash, HostCrash, vars
<1>4. open' = Idle \/ open' = open \/ Rollback \/ (Compensate /\ open' # open)
  BY DEF Next, HandlerStep, Arrive, Acquire, Write, Commit, PublishCheck, Replace, SyncDir, Apply,
         Answer, Enroll, StrayCommit, EditConfig, Crash, HostCrash, Restart, vars
<1> QED BY <1>0, <1>1, <1>2, <1>3, <1>4

LEMMA QuietMaps == Quiet => UNCHANGED R!registerVars
BY DEF Quiet, R!registerVars

LEMMA KeysTyped ==
  ASSUME IInv
  PROVE  /\ HeldKey \in [Peer -> Keys] /\ ToldKey \in [Peer -> Keys \union {Unsure}]
         /\ \A x \in Peer \ Managed : reg.pc # "compensate" \/ p # x => HeldKey[x] = db[x]
         /\ \A x \in Managed : HeldKey[x] = cfg.keys[x]
<1>1. \A x \in Peer : reg.pc = "compensate" /\ p = x => reg.old \in Keys
  BY HandlerTyped DEF IInv, Idle
<1> QED BY <1>1 DEF HeldKey, ToldKey, IInv, TypeOK, Config, Peer

(* Whose key changes, changes it alone, to one nobody else has.            *)
LEMMA TakeMaps ==
  ASSUME IInv, NEW x \in Peer, NEW k \in Key, ToldKey[x] = Unsure, ToldKey' = ToldKey,
         \A y \in Peer \ {x} : HeldKey[y] # k,
         \A y \in Peer : HeldKey'[y] = IF y = x THEN k ELSE HeldKey[y],
         BySigner(x)
  PROVE  Maps
<1>1. HeldKey' = [HeldKey EXCEPT ![x] = k]
  <2>1. HeldKey' = [y \in Peer |-> HeldKey'[y]] /\ HeldKey = [y \in Peer |-> HeldKey[y]]
    BY DEF HeldKey
  <2> QED BY <2>1
<1>2. R!Take(x, k)
  BY <1>1 DEF R!Take, R!Free
<1> QED BY <1>2 DEF Maps, R!RegisterNext, SignedChange

(* The handler's request is signed by the key its peer held.               *)
LEMMA HandlerSigned ==
  ASSUME RequestIsSigned, reg # Idle, HeldKey[p] = reg.old, HeldKey'[p] = reg.req.new
  PROVE  BySigner(p)
BY DEF RequestIsSigned, BySigner, SignedOver, p

(* A key nobody else has in either store is nobody else's in the register. *)
LEMMA NobodysIsFree ==
  ASSUME IInv, NEW x \in Peer, NEW k, Nobodys(k, x), reg.pc # "compensate" \/ p = x
  PROVE  \A y \in Peer \ {x} : HeldKey[y] # k
BY KeysTyped DEF Nobodys

LEMMA LandedIsNobodys ==
  ASSUME IInv, UniqueInv, reg # Idle, db[p] = reg.req.new
  PROVE  Nobodys(reg.req.new, p)
<1>1. up /\ p \in Peer /\ reg.req.new # NoKey
  BY HandlerTyped, RegisterKeyAssumption DEF IInv, HandlerKnows
<1> QED BY <1>1 DEF UniqueInv, DbUnique, FileUnique, Nobodys

(* While a handler is at work its peer is unsure, before and after.        *)
LEMMA StillUnsure ==
  ASSUME IInv, reg # Idle, reg' # Idle, reg'.req = reg.req, promise' = promise,
         open = Idle, open' = Idle \/ open' = reg
  PROVE  ToldKey' = ToldKey /\ p \in Peer /\ ToldKey[p] = Unsure /\ p' = p
<1>1. p \in Peer /\ p' = p
  BY HandlerTyped DEF IInv, p
<1>2. open' # Idle => open'.req.peer = p
  BY DEF p
<1> QED BY <1>1, <1>2 DEF ToldKey

LEMMA PlainMaps ==
  ASSUME IInv, Write \/ Rollback \/ PublishCheck \/ SyncDir \/ Apply
  PROVE  Maps
<1> USE DEF stores
<1>1. /\ reg # Idle /\ reg \in Handler /\ reg.pc # "halt" /\ reg.pc # "compensate"
      /\ reg' # Idle /\ reg'.req = reg.req
      /\ UNCHANGED <<db, cfg, promise>>
  <2>1. reg # Idle /\ reg \in Handler /\ reg.pc # "halt" /\ reg.pc # "compensate"
    BY AtHandler, HandlerTyped DEF Write, Rollback, PublishCheck, SyncDir, Apply, At, IInv, Idle
  <2> QED BY <2>1 DEF Write, Rollback, PublishCheck, SyncDir, Apply, Goto, Handler, Idle
<1>2. open = Idle /\ (open' = Idle \/ open' = reg)
  BY <1>1, NothingOpen DEF Write, Rollback, PublishCheck, SyncDir, Apply
<1>3. reg'.pc = "compensate" => IsManaged
  BY <1>1 DEF Write, Rollback, PublishCheck, SyncDir, Apply, Goto, Handler
<1>4. ToldKey' = ToldKey /\ p' = p
  BY <1>1, <1>2, StillUnsure
<1>5. HeldKey' = HeldKey
  BY <1>1, <1>3, <1>4 DEF HeldKey, IsManaged
<1> QED BY <1>4, <1>5 DEF Maps, Quiet

LEMMA CommitMaps == ASSUME IInv, UniqueInv, RequestIsSigned, Commit PROVE Maps
<1>1. /\ reg # Idle /\ reg \in Handler /\ reg.pc = "written" /\ p \in Peer
      /\ reg.req.new \in Key /\ up
  BY AtHandler, HandlerTyped DEF Commit, IInv
<1>2. /\ reg' # Idle /\ reg'.req = reg.req /\ reg'.old = reg.old
      /\ reg'.pc \in {"committed", "compensate", "rollback"}
      /\ UNCHANGED <<cfg, promise, open>>
  BY <1>1 DEF Commit, Goto, Handler, Idle
<1>3. open = Idle
  BY <1>1, NothingOpen
<1>4. ToldKey' = ToldKey /\ ToldKey[p] = Unsure /\ p' = p
  BY <1>1, <1>2, <1>3, StillUnsure
<1>5. reg.keyIn /\ reg.old = db[p] /\ db \in [Peer -> Keys]
  BY <1>1 DEF IInv, TypeOK, HandlerKnows, Untouched
<1>6. \A y \in Peer : y # p => db'[y] = db[y]
  BY <1>5 DEF Commit, Commits, p
<1>7. \A y \in Peer : y # p \/ y \in Managed => HeldKey'[y] = HeldKey[y]
  BY <1>1, <1>2, <1>4, <1>6 DEF HeldKey
<1>8. CASE ~IsManaged /\ reg'.pc = "committed"
  <2>1. db' = [db EXCEPT ![p] = reg.req.new]
    BY <1>1, <1>5, <1>8 DEF Commit, Commits, Goto, Handler, p
  <2>2. HeldKey'[p] = reg.req.new
    BY <1>1, <1>2, <1>4, <1>5, <1>8, <2>1 DEF HeldKey, IsManaged
  <2>3. \A y \in Peer \ {p} : HeldKey[y] # reg.req.new
    BY <1>1, <1>5, NobodysIsFree DEF UniqueInv, NewIsNobodys
  <2>4. HeldKey[p] = reg.old
    BY <1>1, <1>5, <1>8 DEF HeldKey, IsManaged
  <2>5. BySigner(p)
    BY <1>1, <2>2, <2>4, HandlerSigned
  <2> QED BY <1>1, <1>4, <1>7, <2>2, <2>3, <2>5, TakeMaps
<1>9. CASE IsManaged \/ reg'.pc # "committed"
  <2>1. HeldKey'[p] = HeldKey[p]
    <3>1. CASE IsManaged
      BY <1>1, <1>7, <3>1 DEF IsManaged
    <3>2. CASE reg'.pc = "compensate" /\ ~IsManaged
      BY <1>1, <1>2, <1>4, <1>5, <3>2 DEF HeldKey, IsManaged
    <3>3. CASE reg'.pc = "rollback" /\ ~IsManaged
      <4>1. db' = db
        BY <1>1, <3>3 DEF Commit, Goto, Handler
      <4> QED BY <1>1, <1>2, <1>4, <3>3, <4>1 DEF HeldKey, IsManaged
    <3> QED BY <1>2, <1>9, <3>1, <3>2, <3>3
  <2>2. HeldKey' = HeldKey
    BY <1>7, <2>1 DEF HeldKey
  <2> QED BY <1>4, <2>2 DEF Maps, Quiet
<1> QED BY <1>8, <1>9

LEMMA ReplaceMaps == ASSUME IInv, UniqueInv, RequestIsSigned, Replace, ~ReadFaults PROVE Maps
<1>1. /\ reg # Idle /\ reg \in Handler /\ reg.pc = "checked" /\ p \in Peer /\ IsManaged
      /\ reg.req.new \in Key /\ Landed /\ db \in [Peer -> Keys]
  BY AtHandler, HandlerTyped DEF Replace, IInv, TypeOK, HandlerKnows
<1>2. /\ reg' # Idle /\ reg'.req = reg.req /\ UNCHANGED <<db, promise, open>>
  BY <1>1 DEF Replace, Goto, Handler, Idle
<1>3. open = Idle
  BY <1>1, NothingOpen
<1>4. ToldKey' = ToldKey /\ ToldKey[p] = Unsure /\ p' = p
  BY <1>1, <1>2, <1>3, StillUnsure
<1>5. CASE cfg' = cfg
  <2>1. HeldKey' = HeldKey
    BY <1>1, <1>2, <1>4, <1>5 DEF HeldKey, IsManaged
  <2> QED BY <1>4, <2>1 DEF Maps, Quiet
<1>6. CASE cfg' = Candidate
  <2>1. /\ reg.raw.keys = cfg.keys /\ cfg.keys \in [Managed -> Keys]
        /\ Candidate.keys = [reg.raw.keys EXCEPT ![p] = reg.req.new]
    BY <1>1, CandidateTyped DEF IInv, TypeOK, Config, HandlerKnows, ConfigOld
  <2>2. \A y \in Peer : HeldKey'[y] = IF y = p THEN reg.req.new ELSE HeldKey[y]
    BY <1>1, <1>2, <1>4, <1>6, <2>1 DEF HeldKey, IsManaged
  <2>3. db[p] = reg.req.new
    BY <1>1 DEF Landed, IInv, TypeOK
  <2>4. \A y \in Peer \ {p} : HeldKey[y] # reg.req.new
    BY <1>1, <2>3, LandedIsNobodys, NobodysIsFree
  <2>5. HeldKey[p] = reg.old
    BY <1>1 DEF HeldKey, IsManaged, IInv, HandlerKnows, ConfigOld
  <2>6. BySigner(p)
    BY <1>1, <2>2, <2>5, HandlerSigned
  <2> QED BY <1>1, <1>4, <2>2, <2>4, <2>6, TakeMaps
<1> QED BY <1>5, <1>6 DEF Replace

LEMMA CompensateMaps == ASSUME IInv, UniqueInv, RequestIsSigned, Compensate PROVE Maps
<1>1. /\ reg # Idle /\ reg \in Handler /\ reg.pc = "compensate" /\ p \in Peer
      /\ reg.req.new \in Key /\ db \in [Peer -> Keys] /\ reg.old = before.db[p]
      /\ before.db \in [Peer -> Keys] /\ (Untouched \/ Landed)
  BY AtHandler, HandlerTyped DEF Compensate, IInv, TypeOK, HandlerKnows
<1>2. /\ reg' # Idle /\ reg'.req = reg.req /\ reg'.pc \in {"refused", "halt"}
      /\ UNCHANGED <<cfg, promise>>
  BY <1>1 DEF Compensate, Goto, Handler, Idle
<1>3. open = Idle /\ open' \in {Idle, reg}
  BY <1>1, NothingOpen DEF Compensate
<1>4. ToldKey' = ToldKey /\ ToldKey[p] = Unsure /\ p' = p
  BY <1>1, <1>2, <1>3, StillUnsure
<1>5. \A y \in Peer : y # p => db'[y] = db[y]
  BY <1>1 DEF Compensate, Undo, Restored, p
<1>6. \A y \in Peer : y # p \/ y \in Managed => HeldKey'[y] = HeldKey[y]
  BY <1>1, <1>2, <1>4, <1>5 DEF HeldKey
<1>7. CASE HeldKey'[p] = HeldKey[p]
  <2>1. HeldKey' = HeldKey
    BY <1>6, <1>7 DEF HeldKey
  <2> QED BY <1>4, <2>1 DEF Maps, Quiet
<1>8. CASE HeldKey'[p] # HeldKey[p]
  <2>1. p \notin Managed /\ HeldKey[p] = reg.old /\ HeldKey'[p] = db'[p]
    BY <1>1, <1>2, <1>4, <1>6, <1>8 DEF HeldKey
  <2>2. db' = db /\ db[p] = reg.req.new
    BY <1>1, <1>8, <2>1 DEF Compensate, Undo, Restored, Untouched, Landed, p
  <2>3. \A y \in Peer \ {p} : HeldKey[y] # reg.req.new
    BY <1>1, <2>2, LandedIsNobodys, NobodysIsFree
  <2>4. \A y \in Peer : HeldKey'[y] = IF y = p THEN reg.req.new ELSE HeldKey[y]
    BY <1>6, <2>1, <2>2
  <2>5. BySigner(p)
    BY <1>1, <2>1, <2>2, HandlerSigned
  <2> QED BY <1>1, <1>4, <2>3, <2>4, <2>5, TakeMaps
<1> QED BY <1>7, <1>8

LEMMA AnswerMaps == ASSUME IInv, PromiseInv, Answer PROVE Maps
<1> USE DEF stores
<1>1. /\ reg # Idle /\ reg \in Handler /\ reg.pc \in {"done", "refused", "halt"} /\ p \in Peer
      /\ reg' = Idle /\ UNCHANGED <<db, cfg, open>> /\ db \in [Peer -> Keys]
      /\ promise \in [Peer -> Keys \union {Unsure}]
  BY HandlerTyped DEF Answer, Idle, IInv, TypeOK
<1>2. HeldKey' = HeldKey
  BY <1>1 DEF HeldKey, Idle
<1>3. ToldKey[p] = Unsure
  BY <1>1 DEF ToldKey
<1>4. \A y \in Peer : y # p => ToldKey'[y] = ToldKey[y]
  BY <1>1 DEF ToldKey, Answer
<1>5. ToldKey'[p] \in {Unsure, HeldKey[p]}
  <2>1. CASE reg.pc = "halt"
    BY <1>1, <2>1 DEF ToldKey, Answer
  <2>2. CASE reg.pc = "done"
    <3>1. open = Idle /\ ToldKey'[p] = reg.req.new
      BY <1>1, <2>2, NothingOpen DEF ToldKey, Answer
    <3>2. Landed /\ (IsManaged => ConfigNew) /\ before.keys \in [Managed -> Keys]
          /\ before.db \in [Peer -> Keys]
      BY <1>1, <2>2 DEF IInv, TypeOK, HandlerKnows
    <3>3. HeldKey[p] = reg.req.new
      BY <1>1, <2>2, <3>2 DEF HeldKey, Landed, ConfigNew, IsManaged
    <3> QED BY <3>1, <3>3
  <2>3. CASE reg.pc = "refused"
    <3>1. open = Idle /\ ToldKey'[p] = promise[p]
      BY <1>1, <2>3, NothingOpen DEF ToldKey, Answer
    <3>2. Untouched
      BY <1>1, <2>3 DEF IInv, HandlerKnows
    <3>3. promise[p] # Unsure => HeldKey[p] = promise[p]
      BY <1>1, <2>3, <3>2
      DEF PromiseInv, PromiseUnderWay, BeforeReplace, Settled, Untouched, IsManaged, HeldKey
    <3> QED BY <3>1, <3>3
  <2> QED BY <1>1, <2>1, <2>2, <2>3
<1>6. CASE ToldKey'[p] = Unsure
  <2>1. ToldKey' = ToldKey
    BY <1>3, <1>4, <1>6 DEF ToldKey
  <2> QED BY <1>2, <2>1 DEF Maps, Quiet
<1>7. CASE ToldKey'[p] = HeldKey[p]
  <2>1. ToldKey' = [ToldKey EXCEPT ![p] = HeldKey[p]]
    <3>1. ToldKey' = [y \in Peer |-> ToldKey'[y]] /\ ToldKey = [y \in Peer |-> ToldKey[y]]
      BY DEF ToldKey
    <3> QED BY <1>4, <1>7, <3>1
  <2>2. R!Tell(p)
    BY <1>2, <2>1 DEF R!Tell
  <2> QED BY <1>1, <1>2, <2>2 DEF Maps, R!RegisterNext, SignedChange
<1> QED BY <1>5, <1>6, <1>7

(* A request takes the lock.                                               *)
LEMMA AcquireMaps == ASSUME IInv, NEW q \in queue, Acquire(q) PROVE Maps
<1> USE DEF stores
<1>1. q.peer \in Peer /\ reg = Idle /\ UNCHANGED <<db, cfg, open, promise>>
  BY DEF Acquire, LockFree, IInv, TypeOK, Request
<1>2. CASE reg' = reg
  BY <1>1, <1>2 DEF Maps, Quiet, HeldKey, ToldKey, p
<1>3. CASE ~failStop /\ Authorised(q)
  <2>1. reg' # Idle /\ reg'.req = q /\ reg'.pc = "locked" /\ open = Idle
    BY <1>1, <1>3 DEF Acquire, Idle, IInv, AgreeAtRest
  <2>2. HeldKey' = HeldKey
    BY <1>1, <2>1 DEF HeldKey, Idle
  <2>3. \A y \in Peer : ToldKey'[y] = IF y = q.peer THEN Unsure ELSE ToldKey[y]
    BY <1>1, <2>1 DEF ToldKey, p
  <2>4. ToldKey' = [ToldKey EXCEPT ![q.peer] = Unsure]
    <3>1. ToldKey' = [y \in Peer |-> ToldKey'[y]] /\ ToldKey = [y \in Peer |-> ToldKey[y]]
      BY DEF ToldKey
    <3> QED BY <1>1, <2>3, <3>1
  <2>5. R!Ask(q.peer)
    BY <2>2, <2>4 DEF R!Ask
  <2> QED BY <1>1, <2>2, <2>5 DEF Maps, R!RegisterNext, SignedChange
<1> QED BY <1>2, <1>3 DEF Acquire

LEMMA EnrollMaps == ASSUME IInv, NEW x \in Guest, NEW k \in Key, Enroll(x, k) PROVE Maps
<1>1. /\ reg = Idle /\ reg' = Idle /\ open = Idle /\ open' = Idle /\ cfg' = cfg
      /\ up /\ ~failStop
  BY DEF Enroll, IdentityLocks, LockFree, IInv, AgreeAtRest
<1>2. /\ db' = [db EXCEPT ![x] = k] /\ db \in [Peer -> Keys] /\ x \in Peer /\ x \notin Managed
      /\ promise' = [promise EXCEPT ![x] = k] /\ promise \in [Peer -> Keys \union {Unsure}]
  BY RegisterKeyAssumption DEF Enroll, IInv, TypeOK, Peer
<1>3. \A y \in Peer : HeldKey[y] = db[y]
  BY <1>1 DEF HeldKey, Idle, IInv, AgreeAtRest
<1>4. HeldKey' = [HeldKey EXCEPT ![x] = k]
  <2>1. \A y \in Peer : HeldKey'[y] = IF y = x THEN k ELSE HeldKey[y]
    BY <1>1, <1>2 DEF HeldKey, Idle
  <2>2. HeldKey' = [y \in Peer |-> HeldKey'[y]] /\ HeldKey = [y \in Peer |-> HeldKey[y]]
    BY DEF HeldKey
  <2> QED BY <1>2, <2>1, <2>2
<1>5. ToldKey' = [ToldKey EXCEPT ![x] = k]
  BY <1>1, <1>2 DEF ToldKey
<1>6. R!Join(x, k)
  BY <1>2, <1>3, <1>4, <1>5 DEF Enroll, KeyTaken, R!Join, R!Free
<1>7. SignedChange
  BY <1>2, <1>3, <1>4, KeysTyped DEF Enroll, SignedChange, BySigner
<1> QED BY <1>2, <1>6, <1>7 DEF Maps, R!RegisterNext

(* The commit nobody asked for: of a registration or a compensation that a *)
(* failed rollback left open, whose peer was answered that the outcome is  *)
(* open.                                                                   *)
LEMMA StrayMaps == ASSUME IInv, UniqueInv, PromiseInv, OpenIsSigned, StrayCommit PROVE Maps
<1> DEFINE x == open.req.peer
           new == open.req.new
<1>1. /\ open # Idle /\ open' = Idle /\ open \in Handler /\ x \in Peer /\ new \in Key
      /\ open.old \in Keys
      /\ UNCHANGED <<cfg, reg, promise>> /\ db \in [Peer -> Keys]
  BY DEF StrayCommit, IInv, TypeOK, Handler, Request
<1>2. reg.pc # "compensate" /\ p' = p
  BY <1>1 DEF IInv, AgreeAtRest, HandlerKnows, Idle, p
<1>3. ToldKey[x] = Unsure
  BY <1>1 DEF ToldKey
<1>4. ToldKey' = ToldKey
  <2>1. \A y \in Peer : ToldKey'[y] = ToldKey[y]
    <3>1. ToldKey'[x] = Unsure
      BY <1>1, <1>2 DEF PromiseInv, OpenIsUnsure, Busy, ToldKey
    <3>2. \A y \in Peer : y # x => ToldKey'[y] = ToldKey[y]
      BY <1>1, <1>2 DEF ToldKey
    <3> QED BY <1>3, <3>1, <3>2
  <2> QED BY <2>1 DEF ToldKey
<1>5. CASE db' = db
  <2>1. HeldKey' = HeldKey
    BY <1>1, <1>2, <1>5 DEF HeldKey
  <2> QED BY <1>4, <2>1 DEF Maps, Quiet
<1>6. CASE x \in Managed
  <2>1. \A y \in Peer : y \notin Managed => db'[y] = db[y]
    BY <1>1, <1>6 DEF StrayCommit, Commits, Undo, Restored
  <2>2. HeldKey' = HeldKey
    BY <1>1, <1>2, <2>1 DEF HeldKey
  <2> QED BY <1>4, <2>2 DEF Maps, Quiet
<1>7. ASSUME x \notin Managed, NEW k \in Key, db' = [db EXCEPT ![x] = k], Nobodys(k, x),
             HeldKey[x] = db[x] /\ HeldKey'[x] = k => BySigner(x)
      PROVE  Maps
  <2>1. \A y \in Peer \ {x} : HeldKey[y] # k
    BY <1>1, <1>2, <1>7, NobodysIsFree
  <2>2. \A y \in Peer : HeldKey'[y] = IF y = x THEN k ELSE HeldKey[y]
    BY <1>1, <1>2, <1>7 DEF HeldKey
  <2>3. HeldKey[x] = db[x] /\ HeldKey'[x] = k
    BY <1>1, <1>2, <1>7, <2>2 DEF HeldKey
  <2> QED BY <1>1, <1>3, <1>4, <1>7, <2>1, <2>2, <2>3, TakeMaps
<1>8. CASE x \notin Managed /\ ~Undoes(open) /\ open.keyIn
  <2>1. db' = [db EXCEPT ![x] = new] /\ Nobodys(new, x)
    BY <1>1, <1>8 DEF StrayCommit, Commits, UniqueInv, NewIsNobodys
  <2>2. HeldKey[x] = db[x] /\ HeldKey'[x] = new => BySigner(x)
    BY <1>1, <1>8 DEF OpenIsSigned, BySigner, SignedOver
  <2> QED BY <1>1, <1>7, <1>8, <2>1, <2>2
<1>9. CASE x \notin Managed /\ Undoes(open) /\ db' # db
  <2>1. open.old # NoKey /\ open.old \in Key
    BY <1>1, <1>9 DEF OpenIsSigned, Keys
  <2>2. db' = [db EXCEPT ![x] = open.old] /\ Nobodys(open.old, x)
    BY <1>1, <1>9, <2>1 DEF StrayCommit, Undo, Restored, UniqueInv, NewIsNobodys
  <2>3. db[x] = new
    BY <1>1, <1>9, <2>2 DEF OpenIsSigned
  <2>4. failStop
    BY <1>1 DEF IInv, AgreeAtRest
  <2>5. HeldKey[x] = db[x] /\ HeldKey'[x] = open.old => BySigner(x)
    BY <1>1, <1>3, <1>9, <2>1, <2>3, <2>4 DEF OpenIsSigned, BySigner, TakenBack
  <2> QED BY <1>7, <1>9, <2>1, <2>2, <2>5
<1> QED BY <1>5, <1>6, <1>8, <1>9 DEF StrayCommit, Commits

(* The process dies: its peer never hears, and a guest's commit of unknown *)
(* outcome stands.                                                         *)
LEMMA CrashMaps == ASSUME IInv, UniqueInv, RequestIsSigned, PromiseInv, Crash PROVE Maps
<1>1. /\ reg' = Idle /\ open' = Idle /\ UNCHANGED <<db, cfg>> /\ db \in [Peer -> Keys]
      /\ promise \in [Peer -> Keys \union {Unsure}]
  BY DEF Crash, stores, IInv, TypeOK
<1>2. open # Idle => open.req.peer \in Peer
  BY DEF IInv, TypeOK, Handler, Request
<1>3. ToldKey' = ToldKey
  <2>1. ASSUME NEW y \in Peer PROVE ToldKey'[y] = ToldKey[y]
    <3>1. ToldKey'[y] = promise'[y]
      BY <1>1 DEF ToldKey
    <3>2. CASE reg # Idle /\ p = y
      BY <1>1, <3>1, <3>2 DEF Crash, ToldKey
    <3>3. CASE ~(reg # Idle /\ p = y) /\ open # Idle /\ open.req.peer = y
      <4>1. promise[y] = Unsure
        BY <3>3 DEF PromiseInv, OpenIsUnsure, Busy
      <4> QED BY <1>1, <3>1, <3>3, <4>1 DEF Crash, ToldKey
    <3>4. CASE ~(reg # Idle /\ p = y) /\ ~(open # Idle /\ open.req.peer = y)
      BY <1>1, <3>1, <3>4 DEF Crash, ToldKey
    <3> QED BY <3>2, <3>3, <3>4
  <2> QED BY <2>1 DEF ToldKey
<1>4. \A y \in Peer : HeldKey'[y] = IF y \in Managed THEN cfg.keys[y] ELSE db[y]
  BY <1>1 DEF HeldKey, Idle
<1>5. CASE reg # Idle /\ reg.pc = "compensate" /\ p \notin Managed
  <2>1. /\ p \in Peer /\ reg.req.new \in Key /\ reg.old = before.db[p]
        /\ before.db \in [Peer -> Keys] /\ (Untouched \/ Landed)
    BY <1>5, HandlerTyped DEF IInv, TypeOK, HandlerKnows
  <2>2. /\ HeldKey[p] = reg.old /\ HeldKey'[p] = db[p]
        /\ \A y \in Peer : y # p => HeldKey'[y] = HeldKey[y]
    BY <1>4, <1>5, <2>1 DEF HeldKey
  <2>3. CASE db[p] = reg.old
    <3>1. HeldKey' = HeldKey
      BY <2>2, <2>3 DEF HeldKey
    <3> QED BY <1>3, <3>1 DEF Maps, Quiet
  <2>4. CASE db[p] = reg.req.new
    <3>1. \A y \in Peer \ {p} : HeldKey[y] # reg.req.new
      BY <1>5, <2>1, <2>4, LandedIsNobodys, NobodysIsFree
    <3>2. ToldKey[p] = Unsure
      BY <1>5, <2>1 DEF ToldKey
    <3>3. BySigner(p)
      BY <1>5, <2>2, <2>4, HandlerSigned
    <3> QED BY <1>3, <2>1, <2>2, <2>4, <3>1, <3>2, <3>3, TakeMaps
  <2> QED BY <2>1, <2>3, <2>4 DEF Untouched, Landed
<1>6. CASE ~(reg # Idle /\ reg.pc = "compensate" /\ p \notin Managed)
  <2>1. HeldKey' = HeldKey
    BY <1>4, <1>6 DEF HeldKey, Idle
  <2> QED BY <1>3, <2>1 DEF Maps, Quiet
<1> QED BY <1>5, <1>6

LEMMA HostCrashMaps == ASSUME IInv, PromiseInv, HostCrash PROVE Maps
<1>1. /\ reg = Idle /\ reg' = Idle /\ open = Idle /\ open' = Idle /\ cfg' \in undurable
      /\ UNCHANGED <<db, promise>> /\ HostCrashes
  BY DEF HostCrash, IInv, HandlerKnows, AgreeAtRest
<1>2. ToldKey' = ToldKey /\ \A x \in Peer : ToldKey[x] = promise[x]
  BY <1>1 DEF ToldKey
<1>3. HeldKey' \in [Peer -> Keys]
  BY <1>1 DEF HeldKey, Idle, IInv, TypeOK, Config
<1>4. ASSUME NEW x \in Peer, ToldKey[x] # Unsure PROVE HeldKey'[x] = HeldKey[x]
  <2>1. Settled(x, promise[x])
    BY <1>1, <1>2, <1>4 DEF PromiseInv, PromiseKept, Busy
  <2> QED BY <1>1, <2>1 DEF Settled, HeldKey, Idle
<1>5. R!Forget
  BY <1>1, <1>2, <1>3, <1>4 DEF R!Forget, Keys
<1>6. SignedChange
  BY DEF HostCrash, SignedChange
<1> QED BY <1>5, <1>6 DEF Maps, R!RegisterNext

LEMMA RestMaps ==
  ASSUME IInv, \/ \E q \in Request : Arrive(q)
               \/ EditConfig \/ Restart \/ UNCHANGED vars
  PROVE  Maps
<1> USE DEF stores
<1>1. CASE UNCHANGED <<db, reg, open, promise>> /\ cfg'.keys = cfg.keys
  <2>1. p' = p
    BY <1>1 DEF p
  <2> QED BY <1>1, <2>1 DEF Maps, Quiet, HeldKey, ToldKey
<1>2. CASE Restart
  <2>1. reg = Idle /\ open = Idle /\ UNCHANGED <<cfg, reg, open, promise>>
    BY <1>2 DEF Restart, IInv, HandlerKnows, AgreeAtRest
  <2>2. \A x \in Peer : x \notin Managed => db'[x] = db[x]
    BY <1>2 DEF Restart, FromConfig
  <2> QED BY <2>1, <2>2 DEF Maps, Quiet, HeldKey, ToldKey, Idle
<1>3. CASE EditConfig
  BY <1>1, <1>3 DEF EditConfig, IInv, TypeOK, Config
<1> QED BY <1>1, <1>2, <1>3 DEF Arrive, vars

RegisterInv == IInv /\ UniqueInv /\ PromiseInv /\ RequestIsSigned /\ OpenIsSigned

LEMMA RegisterInit == Init => RegisterInv
<1>1. Init => OpenIsSigned
  BY DEF Init, OpenIsSigned
<1> QED BY <1>1, IInit, UniqueInit, PromiseInit, SignedInit DEF RegisterInv

LEMMA RegisterStep == ASSUME ~ReadFaults PROVE RegisterInv /\ [Next]_vars => RegisterInv'
BY IStep, UniqueStep, PromiseStep, SignedStep, OpenSignedStep DEF RegisterInv

LEMMA StepMaps == ASSUME ~ReadFaults, RegisterInv, [Next]_vars PROVE Maps
BY PlainMaps, CommitMaps, ReplaceMaps, CompensateMaps, AnswerMaps, AcquireMaps,
   EnrollMaps, StrayMaps, CrashMaps, HostCrashMaps, RestMaps
DEF RegisterInv, Next, HandlerStep

(* The relay's two stores, their transactions, failures and restarts are   *)
(* one register of keys: a registration takes effect at one instant or     *)
(* never, a definite answer tells which, and what was told stays until the *)
(* peer asks again, whatever crashes.  The condition is that of the        *)
(* invariants: the read that classifies a failed replace does not fail too. *)
THEOREM RegisterImplemented == ASSUME ~ReadFaults PROVE Spec => ImplementsRegister
<1>1. Init => R!RegisterInit
  <2> SUFFICES ASSUME Init PROVE R!RegisterInit
    OBVIOUS
  <2>1. HeldKey = [x \in Peer |-> NoKey] /\ ToldKey = [x \in Peer |-> NoKey]
    BY DEF Init, HeldKey, ToldKey, Idle, Peer
  <2> QED BY <2>1 DEF R!RegisterInit
<1>2. RegisterInv /\ [Next]_vars => [R!RegisterNext]_(R!registerVars)
  BY StepMaps, QuietMaps DEF Maps
<1> QED BY <1>1, <1>2, RegisterInit, RegisterStep, PTL DEF Spec, ImplementsRegister, R!RegisterSpec

(* The key restarts bring up changes by its holder's signature alone, at   *)
(* whatever step the process dies, also when a transaction commits that a  *)
(* failed rollback left open; it goes back to an older one only when that  *)
(* transaction is the compensation of the request that replaced it, under  *)
(* fail-stop, with its peer left unsure.                                   *)
THEOREM HeldKeyIsItsHolders == ASSUME ~ReadFaults PROVE Spec => HeldKeyChangesSigned
<1> DEFINE Change == \A x \in Peer :
             up /\ HeldKey'[x] # HeldKey[x] => HeldKey[x] = NoKey \/ SignedOver(x) \/ TakenBack(x)
<1>1. RegisterInv /\ [Next]_vars => [Change]_vars
  BY StepMaps DEF Maps, Quiet, SignedChange, BySigner
<1> QED BY <1>1, RegisterInit, RegisterStep, PTL DEF Spec, HeldKeyChangesSigned

(* What a peer was told is the key it has: in every register, and so, with *)
(* the refinement, of this relay.                                          *)
THEOREM ToldStands == R!RegisterSpec => []R!ToldIsHeld
<1>1. R!RegisterInit => R!ToldIsHeld
  BY DEF R!RegisterInit, R!ToldIsHeld
<1>2. R!ToldIsHeld /\ [R!RegisterNext]_(R!registerVars) => R!ToldIsHeld'
  <2> SUFFICES ASSUME R!ToldIsHeld, [R!RegisterNext]_(R!registerVars) PROVE R!ToldIsHeld'
    OBVIOUS
  <2>0. /\ HeldKey = [y \in Peer |-> HeldKey[y]] /\ ToldKey = [y \in Peer |-> ToldKey[y]]
    BY DEF HeldKey, ToldKey
  <2>1. CASE UNCHANGED R!registerVars
    BY <2>1 DEF R!registerVars, R!ToldIsHeld
  <2>2. ASSUME NEW x \in Peer, R!Ask(x) PROVE R!ToldIsHeld'
    BY <2>0, <2>2 DEF R!Ask, R!ToldIsHeld
  <2>3. ASSUME NEW x \in Peer, R!Tell(x) PROVE R!ToldIsHeld'
    BY <2>0, <2>3 DEF R!Tell, R!ToldIsHeld
  <2>4. ASSUME NEW x \in Peer, NEW k \in Key, R!Take(x, k) PROVE R!ToldIsHeld'
    BY <2>0, <2>4 DEF R!Take, R!ToldIsHeld
  <2>5. ASSUME NEW x \in Peer, NEW k \in Key, R!Join(x, k) PROVE R!ToldIsHeld'
    BY <2>0, <2>5 DEF R!Join, R!ToldIsHeld
  <2>6. CASE R!Forget
    BY <2>6 DEF R!Forget, R!ToldIsHeld
  <2> QED BY <2>1, <2>2, <2>3, <2>4, <2>5, <2>6 DEF R!RegisterNext
<1> QED BY <1>1, <1>2, PTL DEF R!RegisterSpec

(* No two peers hold one key, and a key once registered is only ever       *)
(* replaced, and only while its peer is unsure; a host failure is what     *)
(* could bring an older key back, to its holder's surprise or a second     *)
(* peer's.                                                                 *)
THEOREM HoldersStand ==
  ASSUME ~HostCrashes PROVE R!RegisterSpec => []R!OneHolder /\ R!KeyStays
<1> DEFINE Stays == \A x \in Peer :
             HeldKey[x] # NoKey => /\ HeldKey'[x] # NoKey
                                   /\ ToldKey[x] # Unsure => HeldKey'[x] = HeldKey[x]
<1>1. R!RegisterInit => R!OneHolder
  BY DEF R!RegisterInit, R!OneHolder
<1>2. [R!RegisterNext]_(R!registerVars) => [Stays]_(R!registerVars) /\ (R!OneHolder => R!OneHolder')
  <2> SUFFICES ASSUME [R!RegisterNext]_(R!registerVars)
               PROVE  (Stays \/ UNCHANGED R!registerVars) /\ (R!OneHolder => R!OneHolder')
    OBVIOUS
  <2>0. HeldKey = [y \in Peer |-> HeldKey[y]]
    BY DEF HeldKey
  <2>1. CASE HeldKey' = HeldKey
    BY <2>1 DEF R!OneHolder
  <2>2. ASSUME NEW x \in Peer, NEW k \in Key, HeldKey' = [HeldKey EXCEPT ![x] = k],
               R!Free(x, k), ToldKey[x] = Unsure \/ HeldKey[x] = NoKey
        PROVE  Stays /\ (R!OneHolder => R!OneHolder')
    <3>1. k # NoKey
      BY RegisterKeyAssumption
    <3>2. \A y \in Peer : HeldKey'[y] = IF y = x THEN k ELSE HeldKey[y]
      BY <2>0, <2>2
    <3>3. Stays
      BY <2>2, <3>1, <3>2
    <3>4. R!OneHolder => R!OneHolder'
      BY <2>2, <3>2 DEF R!OneHolder, R!Free
    <3> QED BY <3>3, <3>4
  <2>3. CASE UNCHANGED R!registerVars
    BY <2>1, <2>3 DEF R!registerVars
  <2>4. ASSUME NEW x \in Peer, R!Ask(x) \/ R!Tell(x) PROVE HeldKey' = HeldKey
    BY <2>4 DEF R!Ask, R!Tell
  <2>5. ASSUME NEW x \in Peer, NEW k \in Key, R!Take(x, k) \/ R!Join(x, k)
        PROVE  /\ HeldKey' = [HeldKey EXCEPT ![x] = k] /\ R!Free(x, k)
               /\ ToldKey[x] = Unsure \/ HeldKey[x] = NoKey
    BY <2>5 DEF R!Take, R!Join
  <2>6. ~R!Forget
    BY DEF R!Forget
  <2> QED BY <2>1, <2>2, <2>3, <2>4, <2>5, <2>6 DEF R!RegisterNext
<1> QED BY <1>1, <1>2, PTL DEF R!RegisterSpec, R!KeyStays

(* For this relay: a peer's definite answer is the key its restarts bring  *)
(* up, and, on a host that loses no write, keys are one peer's each and    *)
(* never lost.                                                             *)
THEOREM KeysAreKept ==
  ASSUME ~ReadFaults
  PROVE  Spec => []R!ToldIsHeld /\ (~HostCrashes => []R!OneHolder /\ R!KeyStays)
<1>1. Spec => R!RegisterSpec
  BY RegisterImplemented DEF ImplementsRegister
<1>2. CASE HostCrashes
  BY <1>1, <1>2, ToldStands, PTL
<1>3. CASE ~HostCrashes
  <2>1. R!RegisterSpec => []R!OneHolder /\ R!KeyStays
    BY <1>3, HoldersStand
  <2> QED BY <1>1, <2>1, ToldStands, PTL
<1> QED BY <1>2, <1>3

-----------------------------------------------------------------------------
(* What a client's registration can do to its peer's key.  The command     *)
(* line client signs every request for a candidate with the candidate      *)
(* itself (_pending_request_cfg); here the candidates are any set Mine of  *)
(* keys that no other signature proposes and that sign for no other key.   *)
SelfSigned(Mine, q) ==
  /\ q.new \in Mine => q.signer \in {NoKey, q.new}
  /\ q.signer \in Mine => q.new = q.signer
Requests == queue \union {h.req : h \in {reg, open} \ {Idle}}

LEMMA SelfSignedStep ==
  ASSUME IInv, NEW Mine, [Next]_vars,
         \A q \in Requests : SelfSigned(Mine, q),
         \A q \in queue' \ queue : SelfSigned(Mine, q)
  PROVE  \A q \in Requests' : SelfSigned(Mine, q)
<1> USE DEF stores
<1>1. open' \in {open, reg, Idle}
  BY DEF Next, HandlerStep, Arrive, Acquire, Write, Commit, Rollback, PublishCheck, Replace, SyncDir,
         Apply, Compensate, Answer, Enroll, StrayCommit, EditConfig, Crash, HostCrash, Restart, vars
<1>2. reg' = Idle \/ reg' = reg \/ (reg # Idle /\ reg'.req = reg.req) \/ reg'.req \in queue
  <2>1. ASSUME NEW q \in queue, Acquire(q) PROVE reg' = reg \/ reg'.req \in queue
    BY <2>1 DEF Acquire
  <2>2. CASE Write
    <3>1. reg # Idle /\ reg \in Handler
      BY <2>2, AtHandler, HandlerTyped DEF Write, IInv
    <3>2. \/ Goto("refused")
          \/ \E pc \in {"written", "rollback"} :
               reg' = [reg EXCEPT !.pc = pc, !.raw = cfg, !.nonceIn = Signed, !.keyIn = TRUE]
          \/ reg' = [reg EXCEPT !.pc = "rollback", !.nonceIn = Signed /\ Fresh]
      BY <2>2 DEF Write
    <3>3. reg'.req = reg.req
      BY <3>1, <3>2 DEF Goto, Handler
    <3> QED BY <3>1, <3>3
  <2>3. CASE Commit \/ Rollback \/ PublishCheck \/ Replace \/ SyncDir \/ Apply \/ Compensate
    <3>1. reg # Idle
      BY <2>3, AtHandler DEF Commit, Rollback, PublishCheck, Replace, SyncDir, Apply, Compensate
    <3>2. \E pc : Goto(pc)
      BY <2>3 DEF Commit, Rollback, PublishCheck, Replace, SyncDir, Apply, Compensate
    <3>3. reg'.req = reg.req
      BY <3>2 DEF Goto
    <3> QED BY <3>1, <3>3
  <2> QED BY <2>1, <2>2, <2>3 DEF Next, HandlerStep, Arrive, Answer, Enroll, StrayCommit, EditConfig,
         Crash, HostCrash, Restart, vars
<1> QED BY <1>1, <1>2 DEF Requests

(* A candidate becomes the key only of a peer that has none, or that has   *)
(* this one already: on the relay there is nothing more to a client's      *)
(* registration than KeyClient!RelayRegisters, whatever fails or crashes.  *)
THEOREM CandidateOnlyFirst ==
  ASSUME ~ReadFaults, NEW Mine
  PROVE  Spec /\ [][\A q \in queue' \ queue : SelfSigned(Mine, q)]_vars
           => [][\A x \in Peer :
                   up /\ HeldKey'[x] \in Mine => HeldKey[x] \in {NoKey, HeldKey'[x]}]_vars
<1> DEFINE Mild == \A q \in queue' \ queue : SelfSigned(Mine, q)
           Own == \A q \in Requests : SelfSigned(Mine, q)
           Change == \A x \in Peer : up /\ HeldKey'[x] \in Mine => HeldKey[x] \in {NoKey, HeldKey'[x]}
<1>1. Init => Own
  BY DEF Init, Requests
<1>2. RegisterInv /\ Own /\ [Next]_vars /\ [Mild]_vars => Own'
  <2> SUFFICES ASSUME RegisterInv, Own, [Next]_vars, [Mild]_vars PROVE Own'
    OBVIOUS
  <2>1. Mild
    BY DEF vars
  <2> QED BY <2>1, SelfSignedStep DEF RegisterInv
<1>3. RegisterInv /\ Own /\ [Next]_vars => [Change]_vars
  <2> SUFFICES ASSUME RegisterInv, Own, [Next]_vars, NEW x \in Peer, up, HeldKey'[x] \in Mine,
                      HeldKey'[x] # HeldKey[x], HeldKey[x] # NoKey
               PROVE  FALSE
    OBVIOUS
  <2>1. SignedOver(x) \/ TakenBack(x)
    BY StepMaps DEF Maps, Quiet, SignedChange, BySigner
  <2>2. CASE SignedOver(x)
    <3>1. PICK h \in {reg, open} \ {Idle} : h.req.signer = HeldKey[x] /\ HeldKey'[x] = h.req.new
      BY <2>2 DEF SignedOver
    <3>2. SelfSigned(Mine, h.req)
      BY DEF Requests
    <3> QED BY <3>1, <3>2 DEF SelfSigned
  <2>3. CASE TakenBack(x)
    <3>1. SelfSigned(Mine, open.req)
      BY <2>3 DEF TakenBack, Requests
    <3> QED BY <2>3, <3>1 DEF TakenBack, SelfSigned
  <2> QED BY <2>1, <2>2, <2>3
<1> QED BY <1>1, <1>2, <1>3, RegisterInit, RegisterStep, PTL DEF Spec

(***************************************************************************)
(* The client's side of the registration: KeyClient for any number of      *)
(* candidates, inode numbers, crashes and edits.                           *)
(***************************************************************************)
CONSTANTS None, Other, MaxSeeds, MaxInode, MaxCrashes
VARIABLES dir, durable, proc, relayKey, late, accepted, posted, answer, discarded, made,
          crashes, edits

Client == INSTANCE KeyClient

KeyCopies(d) == {Client!Data(d.key), Client!Data(d.kstage)}
Copies(d) == KeyCopies(d) \union {Client!Data(d.config), Client!Data(d.cstage)}

(* Every image shares the journal and the quarantine; what a file or a     *)
(* baseline names is accepted.                                             *)
FilesInv ==
  /\ \A d \in durable : d.pending = dir.pending /\ d.rejected = dir.rejected
  /\ \A d \in durable : Copies(d) \intersect Client!Seeds \subseteq accepted
  /\ Client!Journal # None =>
       {Client!Journal.base, Client!Journal.prior} \intersect Client!Seeds \subseteq accepted
  /\ Client!Journal # None /\ Client!Journal.config # None => Client!Journal.key # None

(* A client's key is registered where there was none: one seed at most is  *)
(* ever accepted, and it is the relay's while the relay holds one of ours. *)
RelayInv ==
  /\ relayKey = None => accepted = {}
  /\ relayKey \in Client!Seeds => accepted = {relayKey}
  /\ \A s, t \in accepted : s = t
  /\ proc.pc = "wait" /\ answer = "ok" => Client!Seed \in accepted
  /\ Client!Journal # None => Client!Seed <= made

(* What the command relies on at a point it has reached.                   *)
PointInv ==
  /\ proc.pc \in {"writekey", "stageconfig", "writeconfig", "baseline"} => dir.kstage # None
  /\ proc.pc \in {"writeconfig", "baseline"} => dir.cstage # None
  /\ proc.pc = "adopt" => Client!Journal.phase = "publishing"
  /\ proc.pc \in Client!Verified => Client!Data(dir.key) = Client!Seed \/ Client!Seed \in discarded

(* Past the relay's answer the journal's seed is the accepted one.         *)
CommandInv ==
  /\ proc.pc # "idle" => Client!Journal # None
  /\ proc.pc \notin Client!Asking \union {"idle"} => Client!Seed \in accepted
  /\ Client!Journal # None /\ Client!Journal.phase \in {"accepted", "publishing", "published"}
       => Client!Seed \in accepted
  /\ PointInv

(* A sent seed is in quarantine, in the journal, or was published.         *)
SentInv ==
  \A s \in posted :
    \/ s \in dir.rejected
    \/ Client!Journal # None /\ Client!Seed = s
    \/ s \in accepted /\ (s \in discarded \/ \A d \in durable : s \in KeyCopies(d))

DirInv == Client!TypeOK /\ FilesInv /\ RelayInv /\ CommandInv /\ SentInv

LEMMA JournalTyped ==
  ASSUME DirInv, Client!Journal # None
  PROVE  /\ Client!Journal \in Client!Journals /\ Client!WellFormed(Client!Journal)
         /\ Client!Seed \in Client!Seeds
BY DEF DirInv, Client!TypeOK, Client!Journal, Client!Seed, Client!Journals, Client!Dirs

LEMMA DirInit == ASSUME Client!KeyClientAssumption, Client!Init PROVE DirInv
<1> USE DEF Client!Init
<1>1. dir \in Client!Dirs /\ dir.pending = None /\ dir.rejected = {}
  BY DEF Client!Dirs, Client!Files, Client!File, Client!Contents, Client!Legacy
<1>2. Client!TypeOK
  <2>1. Client!Idle \in [pc : Client!Steps, n : 0..5, changed : BOOLEAN]
    BY DEF Client!Idle, Client!Steps
  <2> QED BY <1>1, <2>1 DEF Client!TypeOK, Client!Journal
<1>3. FilesInv
  BY <1>1 DEF FilesInv, Copies, KeyCopies, Client!Data, Client!File, Client!Seeds, Client!Legacy,
     Client!Journal, Client!KeyClientAssumption, Client!Files
<1>4. RelayInv /\ CommandInv /\ SentInv
  BY <1>1 DEF RelayInv, CommandInv, PointInv, SentInv, Client!Idle, Client!Journal, Client!Seeds,
     Client!KeyClientAssumption, Client!Verified, Client!Asking
<1> QED BY <1>2, <1>3, <1>4 DEF DirInv

(* A step that leaves the directory alone and sends nothing.               *)
LEMMA ReadStep ==
  ASSUME Client!KeyClientAssumption, DirInv, Client!Reads, posted' = posted, discarded' = discarded, made' = made,
         relayKey' = relayKey, accepted' = accepted, late' = late,
         answer' \in {answer, None}, CommandInv',
         proc' \in [pc : Client!Steps, n : 0..5, changed : BOOLEAN],
         proc'.pc = "wait" => proc.pc = "wait"
  PROVE  DirInv'
<1> USE DEF DirInv, Client!Reads
<1>1. Client!TypeOK'
  BY DEF Client!TypeOK, Client!Journal, Client!WellFormed
<1>2. FilesInv'
  BY DEF FilesInv, Client!Journal
<1>3. RelayInv'
  BY DEF RelayInv, Client!Journal, Client!Seed, Client!KeyClientAssumption, Client!Answers
<1>4. SentInv'
  BY DEF SentInv, Client!Journal, Client!Seed
<1> QED BY <1>1, <1>2, <1>3, <1>4

(* A file step of the command once the relay accepted its seed: it keeps   *)
(* the journal's candidate and baselines and writes no other seed.         *)
LEMMA PastStep ==
  ASSUME Client!KeyClientAssumption, DirInv, proc.pc \notin Client!Asking \union {"idle"},
         UNCHANGED <<relayKey, late, accepted, posted, answer, discarded, made>>,
         dir' \in Client!Dirs, dir' \in durable', durable' \subseteq durable \union {dir'},
         dir'.pending = dir.pending \/ durable' = {dir'},
         dir'.rejected = dir.rejected, dir'.pending # None,
         dir'.pending.seed = dir.pending.seed, dir'.pending.base = dir.pending.base,
         dir'.pending.prior = dir.pending.prior, Client!WellFormed(dir'.pending),
         dir'.pending.config # None => dir'.pending.key # None,
         Copies(dir') \subseteq Copies(dir) \union {Client!Seed, Client!Torn, None},
         PointInv', proc'.pc \notin Client!Asking,
         proc' \in [pc : Client!Steps, n : 0..5, changed : BOOLEAN]
  PROVE  DirInv'
<1>1. /\ Client!Seed \in accepted /\ Client!Journal # None /\ Client!Journal' # None
      /\ Client!Seed' = Client!Seed /\ Client!TypeOK /\ dir \in durable
  BY DEF DirInv, CommandInv, Client!Seed, Client!Journal, Client!TypeOK
<1>2. Client!TypeOK'
  BY <1>1 DEF Client!TypeOK, Client!Journal, Client!WellFormed
<1>3. FilesInv'
  <2>1. \A d \in durable' : d.pending = dir'.pending /\ d.rejected = dir'.rejected
    BY <1>1 DEF DirInv, FilesInv
  <2>2. Client!Torn \notin Client!Seeds /\ None \notin Client!Seeds
    BY DEF Client!Torn, Client!Seeds, Client!KeyClientAssumption
  <2>3. \A d \in durable : Copies(d) \intersect Client!Seeds \subseteq accepted
    BY DEF DirInv, FilesInv
  <2>4. Copies(dir') \intersect Client!Seeds \subseteq accepted
    BY <1>1, <2>2, <2>3
  <2>5. Client!Journal'.base = Client!Journal.base /\ Client!Journal'.prior = Client!Journal.prior
    BY DEF Client!Journal
  <2>6. Client!Seeds' = Client!Seeds /\ \A d \in durable' : Copies(d)' = Copies(d)
    BY DEF Client!Seeds, Copies, KeyCopies, Client!Data
  <2>7. \A d \in durable' : Copies(d) \intersect Client!Seeds \subseteq accepted'
    BY <2>3, <2>4
  <2> QED BY <1>1, <2>1, <2>5, <2>6, <2>7 DEF DirInv, FilesInv, Client!Journal
<1>4. RelayInv'
  BY <1>1 DEF DirInv, RelayInv, Client!Asking
<1>5. CommandInv'
  BY <1>1 DEF CommandInv
<1>6. SentInv'
  BY <1>1 DEF DirInv, RelayInv, SentInv, Client!TypeOK
<1> QED BY <1>2, <1>3, <1>4, <1>5, <1>6 DEF DirInv

LEMMA Points ==
  ASSUME DirInv
  PROVE  /\ \A pc \in Client!Steps : Client!At(pc) =>
              proc' \in [pc : Client!Steps, n : 0..5, changed : BOOLEAN] /\ proc'.pc = pc
         /\ Client!Ends =>
              proc' \in [pc : Client!Steps, n : 0..5, changed : BOOLEAN] /\ proc'.pc = "idle"
         /\ Client!Refuses =>
              /\ proc' \in [pc : Client!Steps, n : 0..5, changed : BOOLEAN]
              /\ proc'.pc \in {"rollback", "idle"}
<1>1. proc \in [pc : Client!Steps, n : 0..5, changed : BOOLEAN]
  BY DEF DirInv, Client!TypeOK
<1>2. ASSUME NEW pc \in Client!Steps, Client!At(pc)
      PROVE  proc' \in [pc : Client!Steps, n : 0..5, changed : BOOLEAN] /\ proc'.pc = pc
  BY <1>1, <1>2 DEF Client!At
<1>3. ASSUME Client!Ends
      PROVE  proc' \in [pc : Client!Steps, n : 0..5, changed : BOOLEAN] /\ proc'.pc = "idle"
  BY <1>3 DEF Client!Ends, Client!Idle, Client!Steps
<1>4. "rollback" \in Client!Steps
  BY DEF Client!Steps, Client!Moving
<1> QED BY <1>2, <1>3, <1>4 DEF Client!Refuses

(* What a step past the acceptance starts from.                            *)
LEMMA Past ==
  ASSUME DirInv, proc.pc \notin Client!Asking \union {"idle"}
  PROVE  /\ dir \in Client!Dirs /\ dir \in durable /\ dir.pending \in Client!Journals
         /\ Client!Journal = dir.pending /\ Client!Seed = dir.pending.seed
         /\ dir.pending # None /\ Client!WellFormed(dir.pending)
         /\ dir.pending.seed \in Client!Seeds
         /\ dir.pending.config # None => dir.pending.key # None
BY DEF DirInv, CommandInv, FilesInv, Client!TypeOK, Client!Journal, Client!Seed, Client!Dirs,
   Client!Journals

(* The phase that a step writes.                                           *)
LEMMA PhaseStep ==
  ASSUME Client!KeyClientAssumption, DirInv, proc.pc \notin Client!Asking \union {"idle"},
         NEW phase \in {"accepted", "published"}, Client!Phased(phase),
         UNCHANGED <<relayKey, late, accepted, posted, answer, discarded, made>>,
         NEW pc \in Client!Steps \ Client!Asking, Client!At(pc), PointInv'
  PROVE  DirInv'
<1> DEFINE j == [dir.pending EXCEPT !.phase = phase]
<1>1. dir' = [dir EXCEPT !.pending = j] /\ durable' = {dir'}
  BY DEF Client!Phased, Client!Wrote, Client!Synced, Client!Journal
<1>2. j \in Client!Journals /\ j # None /\ Client!WellFormed(j)
  BY Past DEF Client!Journals, Client!WellFormed, Client!KeyClientAssumption
<1>3. dir' \in Client!Dirs /\ dir'.pending = j /\ dir'.rejected = dir.rejected
      /\ Copies(dir') = Copies(dir)
  BY <1>1, <1>2, Past DEF Client!Dirs, Copies, KeyCopies
<1>4. j.seed = dir.pending.seed /\ j.base = dir.pending.base /\ j.prior = dir.pending.prior
      /\ j.config = dir.pending.config /\ j.key = dir.pending.key
  BY Past DEF Client!Journals
<1> HIDE DEF j
<1> QED BY <1>1, <1>2, <1>3, <1>4, Past, PastStep, Points

(* Looking only.                                                           *)
LEMMA LookStep ==
  ASSUME Client!KeyClientAssumption, DirInv, proc.pc \notin Client!Asking \union {"idle"},
         Client!Reads, UNCHANGED <<relayKey, late, accepted, posted, answer, discarded, made>>,
         proc' \in [pc : Client!Steps, n : 0..5, changed : BOOLEAN],
         proc'.pc \notin Client!Asking, PointInv'
  PROVE  DirInv'
<1>1. dir' = dir /\ durable' = durable
  BY DEF Client!Reads
<1>2. Copies(dir') = Copies(dir)
  BY <1>1
<1> QED BY <1>1, <1>2, Past, PastStep

(* A name and its stage exchange their files.                              *)
LEMMA ExchangeStep ==
  ASSUME Client!KeyClientAssumption, DirInv, proc.pc \notin Client!Asking \union {"idle"},
         NEW role, NEW d, d = Client!Exchanged(dir, role), Client!Synced(d) \/ Client!Moved(d),
         UNCHANGED <<relayKey, late, accepted, posted, answer, discarded, made>>,
         proc' \in [pc : Client!Steps, n : 0..5, changed : BOOLEAN],
         proc'.pc \in Client!Moving \union {"idle"}
  PROVE  DirInv'
<1>1. dir' = d /\ dir' \in durable' /\ durable' \subseteq durable \union {dir'}
  BY DEF Client!Synced, Client!Moved
<1>2. d \in Client!Dirs /\ d.pending = dir.pending /\ d.rejected = dir.rejected
      /\ Copies(d) = Copies(dir)
  BY Past DEF Client!Exchanged, Client!Dirs, Copies, KeyCopies
<1>3. Copies(dir') = Copies(dir)
  BY <1>1, <1>2
<1>4. PointInv' /\ proc'.pc \notin Client!Asking
  BY DEF PointInv, Client!Moving, Client!Verified, Client!Asking
<1> QED BY <1>1, <1>2, <1>3, <1>4, Past, PastStep

LEMMA StageStep ==
  ASSUME Client!KeyClientAssumption, DirInv,
         Client!Accepts \/ Client!StageFound \/ Client!StageOpened \/ Client!StageWritten
  PROVE  DirInv'
<1> DEFINE past == {"accept", "stagekey", "writekey", "stageconfig", "writeconfig"}
<1> USE DEF Client!remote, Client!ghosts
<1>1. past \subseteq Client!Steps \ (Client!Asking \union {"idle"})
      /\ {"adopt", "baseline"} \subseteq Client!Steps \ Client!Asking
  BY DEF Client!Steps, Client!Asking, Client!Staging
<1>2. /\ Client!StageSteps =
           { [pc |-> "stagekey", write |-> "writekey", name |-> "kstage", next |-> "stageconfig"],
             [pc |-> "stageconfig", write |-> "writeconfig", name |-> "cstage", next |-> "baseline"] }
  BY DEF Client!StageSteps
<1>3. proc.pc \in past
  <2>1. \A st \in Client!StageSteps : st.pc \in past /\ st.write \in past
    BY <1>2
  <2>2. Client!StageOpened => \E st \in Client!StageSteps : proc.pc = st.pc
    BY DEF Client!StageOpened
  <2> QED BY <2>1, <2>2 DEF Client!Accepts, Client!StageFound, Client!StageWritten
<1>4. proc.pc \notin Client!Asking \union {"idle"}
  BY <1>1, <1>3
<1>5. CASE Client!Accepts
  <2>1. CASE Client!Journal.phase = "publishing"
    <3>1. proc'.pc = "adopt" /\ proc' \in [pc : Client!Steps, n : 0..5, changed : BOOLEAN]
          /\ Client!Reads
      BY <1>1, <1>5, <2>1, Points DEF Client!Accepts
    <3>2. PointInv'
      BY <2>1, <3>1 DEF PointInv, Client!Reads, Client!Journal, Client!Verified
    <3> QED BY <1>1, <1>4, <1>5, <3>1, <3>2, LookStep DEF Client!Accepts
  <2>2. CASE Client!Journal.phase # "publishing"
    <3>1. Client!At("stagekey") /\ proc'.pc = "stagekey" /\ Client!Phased("accepted")
      BY <1>1, <1>5, <2>2, Points DEF Client!Accepts
    <3>2. PointInv'
      BY <3>1 DEF PointInv, Client!Verified
    <3> QED BY <1>1, <1>4, <1>5, <3>1, <3>2, PhaseStep DEF Client!Accepts
  <2> QED BY <2>1, <2>2
<1>6. CASE Client!StageFound
  <2>1. PICK st \in Client!StageSteps :
          /\ proc.pc = st.pc /\ dir[st.name] # None
          /\ IF Client!Data(dir[st.name]) = Client!Seed THEN Client!At(st.next) ELSE Client!Ends
          /\ Client!Reads /\ UNCHANGED <<Client!remote, Client!ghosts>>
    BY <1>6 DEF Client!StageFound
  <2>2. proc'.pc \in {"stageconfig", "baseline", "idle"}
        /\ proc' \in [pc : Client!Steps, n : 0..5, changed : BOOLEAN]
    BY <1>1, <1>2, <2>1, Points
  <2>3. /\ proc'.pc = "baseline" => proc.pc = "stageconfig" /\ dir.cstage # None
        /\ proc'.pc = "stageconfig" => dir.kstage # None
    BY <1>1, <1>2, <2>1, Points
  <2>4. PointInv'
    BY <2>1, <2>2, <2>3 DEF DirInv, CommandInv, PointInv, Client!Reads, Client!Verified
  <2>5. proc'.pc \notin Client!Asking
    BY <2>2 DEF Client!Asking
  <2> QED BY <1>4, <2>1, <2>2, <2>4, <2>5, LookStep
<1>7. CASE Client!StageOpened
  <2>1. PICK st \in Client!StageSteps, i \in Client!FreeInodes :
          /\ proc.pc = st.pc /\ dir[st.name] = None /\ Client!At(st.write)
          /\ Client!Moved([dir EXCEPT ![st.name] = Client!File(i, Client!Torn)])
          /\ UNCHANGED <<Client!remote, Client!ghosts>>
    BY <1>7 DEF Client!StageOpened
  <2>2. i \in Nat \ {0}
    BY DEF Client!FreeInodes, Client!KeyClientAssumption
  <2>3. Client!File(i, Client!Torn) \in Client!Files /\ Client!File(i, Client!Torn) # None
        /\ Client!Data(Client!File(i, Client!Torn)) = Client!Torn
    BY <2>2 DEF Client!File, Client!Files, Client!Contents, Client!Data, Client!KeyClientAssumption
  <2>4. proc'.pc = st.write /\ proc' \in [pc : Client!Steps, n : 0..5, changed : BOOLEAN]
        /\ proc'.pc \notin Client!Asking
    BY <1>1, <1>2, <2>1, Points
  <2>5. dir' \in Client!Dirs /\ dir'.pending = dir.pending /\ dir'.rejected = dir.rejected
        /\ Copies(dir') \subseteq Copies(dir) \union {Client!Torn}
        /\ dir' \in durable' /\ durable' \subseteq durable \union {dir'}
    BY <1>2, <1>4, <2>1, <2>3, Past DEF Client!Moved, Client!Dirs, Copies, KeyCopies
  <2>6. PointInv'
    <3>1. proc.pc = "stageconfig" => dir.kstage # None
      BY DEF DirInv, CommandInv, PointInv
    <3>2. st.name = "kstage" => proc'.pc = "writekey" /\ dir'.kstage # None
      BY <1>2, <1>4, <2>1, <2>3, <2>4, Past DEF Client!Moved, Client!Dirs
    <3>3. st.name = "cstage" => proc'.pc = "writeconfig" /\ dir'.cstage # None /\ dir'.kstage = dir.kstage /\ proc.pc = "stageconfig"
      BY <1>2, <1>4, <2>1, <2>3, <2>4, Past DEF Client!Moved, Client!Dirs
    <3>4. st.name = "kstage" \/ st.name = "cstage"
      BY <1>2
    <3> QED BY <3>1, <3>2, <3>3, <3>4 DEF PointInv, Client!Verified
  <2> QED BY <1>4, <2>1, <2>4, <2>5, <2>6, Past, PastStep
<1>8. CASE Client!StageWritten
  <2>1. PICK st \in Client!StageSteps :
          /\ proc.pc = st.write /\ Client!At(st.next)
          /\ Client!Synced([dir EXCEPT ![st.name].data = Client!Seed])
          /\ UNCHANGED <<Client!remote, Client!ghosts>>
    BY <1>8 DEF Client!StageWritten
  <2>2. dir[st.name] \in Client!Files
    BY <1>2, <1>4, <2>1, Past DEF DirInv, CommandInv, PointInv, Client!Dirs
  <2>3. DEFINE f == [dir[st.name] EXCEPT !.data = Client!Seed]
  <2>4. f \in Client!Files /\ f # None /\ Client!Data(f) = Client!Seed
    BY <1>4, <2>2, Past DEF Client!Files, Client!Contents, Client!Data, Client!KeyClientAssumption
  <2>5. dir' = [dir EXCEPT ![st.name] = f] /\ durable' = {dir'}
    BY <2>1 DEF Client!Synced
  <2> HIDE DEF f
  <2>6. proc'.pc = st.next /\ proc' \in [pc : Client!Steps, n : 0..5, changed : BOOLEAN]
        /\ proc'.pc \notin Client!Asking
    BY <1>1, <1>2, <2>1, Points
  <2>7. dir' \in Client!Dirs /\ dir'.pending = dir.pending /\ dir'.rejected = dir.rejected
        /\ Copies(dir') \subseteq Copies(dir) \union {Client!Seed}
    BY <1>2, <1>4, <2>4, <2>5, Past DEF Client!Dirs, Copies, KeyCopies
  <2>8. PointInv'
    <3>1. proc.pc = "writeconfig" => dir.kstage # None
      BY DEF DirInv, CommandInv, PointInv
    <3>2. st.name = "kstage" => proc'.pc = "stageconfig" /\ dir'.kstage # None
      BY <1>2, <1>4, <2>4, <2>5, <2>6, Past DEF Client!Dirs
    <3>3. st.name = "cstage" => proc'.pc = "baseline" /\ dir'.cstage # None /\ dir'.kstage = dir.kstage /\ proc.pc = "writeconfig"
      BY <1>2, <1>4, <2>1, <2>4, <2>5, <2>6, Past DEF Client!Dirs
    <3>4. st.name = "kstage" \/ st.name = "cstage"
      BY <1>2
    <3> QED BY <3>1, <3>2, <3>3, <3>4 DEF PointInv, Client!Verified
  <2> QED BY <1>4, <2>1, <2>5, <2>6, <2>7, <2>8, Past, PastStep
<1> QED BY <1>5, <1>6, <1>7, <1>8

(* Baselines and restored baselines: the journal's tokens, nothing else.   *)
LEMMA BaselineStep ==
  ASSUME Client!KeyClientAssumption, DirInv, Client!Baselines \/ Client!Adopts
  PROVE  DirInv'
<1> USE DEF Client!remote, Client!ghosts
<1>1. proc.pc \notin Client!Asking \union {"idle"}
  BY DEF Client!Baselines, Client!Adopts, Client!Asking
<1>2. Client!FirstLook => proc' \in [pc : Client!Steps, n : 0..5, changed : BOOLEAN] /\ proc'.pc = "look"
  BY DEF Client!FirstLook, Client!Steps, Client!Moving
<1>3. proc'.pc \in {"look", "idle"} => PointInv' /\ proc'.pc \notin Client!Asking
  BY DEF PointInv, Client!Asking, Client!Verified
<1>4. ASSUME NEW j \in Client!Journals, Client!Wrote(j), Client!WellFormed(j),
             j.seed = dir.pending.seed, j.base = dir.pending.base, j.prior = dir.pending.prior,
             j.config # None => j.key # None, Client!FirstLook,
             UNCHANGED <<relayKey, late, accepted, posted, answer, discarded, made>>
      PROVE  DirInv'
  <2>1. dir' = [dir EXCEPT !.pending = j] /\ durable' = {dir'} /\ j # None
    BY <1>4 DEF Client!Wrote, Client!Synced, Client!KeyClientAssumption
  <2>2. dir' \in Client!Dirs /\ dir'.pending = j /\ dir'.rejected = dir.rejected
        /\ Copies(dir') = Copies(dir)
    BY <1>1, <2>1, Past DEF Client!Dirs, Copies, KeyCopies
  <2> QED BY <1>1, <1>2, <1>3, <1>4, <2>1, <2>2, Past, PastStep
<1>5. CASE Client!Baselines
  <2>1. CASE "drift" \in {Client!ConfigState, Client!KeyState}
    BY <1>1, <1>3, <1>5, <2>1, Points, LookStep DEF Client!Baselines
  <2>2. CASE "drift" \notin {Client!ConfigState, Client!KeyState}
    <3> DEFINE cj == Client!Token(Client!ConfigState, dir.cstage, dir.config)
               kj == Client!Token(Client!KeyState, dir.kstage, dir.key)
               j == [dir.pending EXCEPT !.phase = "publishing", !.config = cj, !.key = kj]
    <3>1. dir.cstage \in Client!Files /\ dir.kstage \in Client!Files
      BY <1>1, <1>5, Past DEF DirInv, CommandInv, PointInv, Client!Baselines, Client!Dirs
    <3>2. Client!ConfigState \in {"old", "new"} /\ Client!KeyState \in {"old", "new", "absent"}
      BY <2>2 DEF Client!ConfigState, Client!KeyState
    <3>3. dir.pending.base \in Int /\ dir.pending.seed \in Int
      BY <1>1, Past DEF Client!Journals, Client!Contents, Client!Seeds, Client!Legacy, Client!Foreign,
         Client!Torn
    <3>4. dir.config # None
      BY <1>1, <2>2, <3>3, Past
      DEF Client!ConfigState, Client!Data, Client!KeyClientAssumption
    <3>5. (dir.key = None) = (Client!KeyState = "absent")
      <4>1. ASSUME dir.key = None PROVE Client!KeyState = "absent"
        <5>1. Client!KeyState \in {"absent", "drift"}
          BY <4>1 DEF Client!KeyState
        <5> QED BY <2>2, <5>1
      <4>2. ASSUME dir.key # None PROVE Client!KeyState # "absent"
        BY <4>2 DEF Client!KeyState
      <4> QED BY <4>1, <4>2
    <3>6. dir.config \in Client!Files /\ dir.key \in Client!Files \union {None}
      BY <1>1, <3>4, Past DEF Client!Dirs
    <3>7. /\ cj \in Client!Tokens /\ cj.was # 0 /\ cj.state \in {"old", "new"}
          /\ kj \in Client!Tokens /\ kj.state \in {"old", "new", "absent"}
          /\ (kj.was = 0) = (kj.state = "absent")
      BY <3>1, <3>2, <3>4, <3>5, <3>6 DEF Client!Token, Client!Tokens, Client!Files
    <3>8. cj # None /\ kj # None
      BY <3>7 DEF Client!KeyClientAssumption
    <3> HIDE DEF cj, kj
    <3>9. j \in Client!Journals /\ Client!WellFormed(j)
          /\ j.seed = dir.pending.seed /\ j.base = dir.pending.base /\ j.prior = dir.pending.prior
          /\ j.key = kj
      BY <1>1, <3>7, <3>8, Past DEF Client!Journals, Client!WellFormed
    <3>10. Client!Wrote(j) /\ Client!FirstLook
      BY <1>5, <2>2 DEF Client!Baselines, Client!Journal, cj, kj
    <3> HIDE DEF j
    <3> QED BY <1>4, <1>5, <3>8, <3>9, <3>10 DEF Client!Baselines
  <2> QED BY <2>1, <2>2
<1>6. CASE Client!Adopts
  <2> DEFINE cj == Client!Readopted(dir.pending.config, dir.config, dir.cstage, dir.pending.base)
             kj == Client!Readopted(dir.pending.key, dir.key, dir.kstage, dir.pending.prior)
             j == [dir.pending EXCEPT !.config = cj, !.key = kj]
  <2>1. Client!Journal.phase = "publishing"
    BY <1>6 DEF DirInv, CommandInv, PointInv, Client!Adopts
  <2>2. dir.pending.config \in Client!Tokens /\ dir.pending.key \in Client!Tokens
    BY <1>1, <2>1, Past DEF Client!WellFormed, Client!Journals
  <2>3. ASSUME NEW token \in Client!Tokens, NEW file \in Client!Files \union {None}, NEW stage, NEW old
        PROVE  LET t == Client!Readopted(token, file, stage, old)
               IN t \in Client!Tokens /\ t.state = token.state
                  /\ (t = token \/ (token.state = "old" /\ t.was # 0))
    BY <2>3 DEF Client!Readopted, Client!Tokens, Client!Files
  <2>4. /\ cj \in Client!Tokens /\ cj.state = dir.pending.config.state
        /\ cj = dir.pending.config \/ cj.was # 0
        /\ kj \in Client!Tokens /\ kj.state = dir.pending.key.state
        /\ kj = dir.pending.key \/ (kj.state = "old" /\ kj.was # 0)
    BY <1>1, <2>2, <2>3, Past DEF Client!Dirs
  <2> HIDE DEF cj, kj
  <2>5. cj # None /\ kj # None /\ dir.pending.config # None
    BY <2>2, <2>4 DEF Client!KeyClientAssumption
  <2>6. j \in Client!Journals /\ Client!WellFormed(j)
        /\ j.seed = dir.pending.seed /\ j.base = dir.pending.base /\ j.prior = dir.pending.prior
        /\ j.key = kj
    BY <1>1, <2>4, <2>5, Past DEF Client!Journals, Client!WellFormed
  <2>7. (Client!Reads \/ Client!Wrote(j)) /\ Client!FirstLook
    BY <1>6 DEF Client!Adopts, Client!Journal, cj, kj
  <2> HIDE DEF j
  <2>8. UNCHANGED <<relayKey, late, accepted, posted, answer, discarded, made>>
    BY <1>6 DEF Client!Adopts
  <2> QED BY <1>1, <1>2, <1>3, <1>4, <2>5, <2>6, <2>7, <2>8, LookStep
<1> QED BY <1>5, <1>6

LEMMA PublishStep ==
  ASSUME Client!KeyClientAssumption, DirInv,
         \/ Client!Looks \/ Client!Compensates \/ Client!Swaps \/ Client!Checks
         \/ Client!Inverts \/ Client!ReadsBack \/ Client!RollbackLooks \/ Client!RollsBack
  PROVE  DirInv'
<1> USE DEF Client!remote, Client!ghosts
<1>1. proc.pc \in Client!Moving /\ proc.pc \notin Client!Asking \union {"idle"}
  BY DEF Client!Moving, Client!Asking, Client!Looks, Client!Compensates, Client!Swaps, Client!Checks,
     Client!Inverts, Client!ReadsBack, Client!RollbackLooks, Client!RollsBack
<1>2. UNCHANGED <<relayKey, late, accepted, posted, answer, discarded, made>>
  BY DEF Client!Looks, Client!Compensates, Client!Swaps, Client!Checks,
     Client!Inverts, Client!ReadsBack, Client!RollbackLooks, Client!RollsBack
<1>3. Client!Moving \subseteq Client!Steps
  BY DEF Client!Steps
<1>4. /\ \A c : c = proc.changed \/ c \in BOOLEAN =>
           (Client!Next5(c) => proc' \in [pc : Client!Steps, n : 0..5, changed : BOOLEAN]
                               /\ proc'.pc \in {"match", "look"})
  BY DEF DirInv, Client!TypeOK, Client!Next5, Client!Steps, Client!Moving
<1>5. ASSUME Client!Looks \/ Client!ReadsBack \/ Client!RollbackLooks
      PROVE  /\ Client!Reads /\ proc' \in [pc : Client!Steps, n : 0..5, changed : BOOLEAN]
             /\ proc'.pc \in Client!Moving \union {"match", "idle"}
  BY <1>3, <1>4, <1>5, Points
  DEF Client!Looks, Client!ReadsBack, Client!RollbackLooks, Client!Moving
<1>6. ASSUME Client!Compensates \/ Client!Swaps \/ Client!Checks \/ Client!Inverts \/ Client!RollsBack
      PROVE  /\ proc' \in [pc : Client!Steps, n : 0..5, changed : BOOLEAN]
             /\ proc'.pc \in Client!Moving \union {"idle"}
             /\ \/ Client!Reads \/ Client!Synced(dir)
                \/ \E role : Client!Synced(Client!Exchanged(dir, role))
                             \/ Client!Moved(Client!Exchanged(dir, role))
  BY <1>3, <1>6, Points
  DEF Client!Compensates, Client!Swaps, Client!Checks, Client!Inverts, Client!RollsBack, Client!Moving
<1>7. proc'.pc \in Client!Moving \union {"match", "idle"} => PointInv' /\ proc'.pc \notin Client!Asking
  BY DEF PointInv, Client!Asking, Client!Verified, Client!Moving
<1>8. ASSUME Client!Synced(dir), proc' \in [pc : Client!Steps, n : 0..5, changed : BOOLEAN],
             proc'.pc \in Client!Moving \union {"idle"}
      PROVE  DirInv'
  <2>1. dir' = dir /\ durable' = {dir'}
    BY <1>8 DEF Client!Synced
  <2>2. Copies(dir') = Copies(dir)
    BY <2>1
  <2> QED BY <1>1, <1>2, <1>7, <1>8, <2>1, <2>2, Past, PastStep
<1> QED BY <1>1, <1>2, <1>5, <1>6, <1>7, <1>8, LookStep, ExchangeStep

(* Both names hold the seed: published, stages gone.                       *)
LEMMA FinishStep ==
  ASSUME Client!KeyClientAssumption, DirInv,
         Client!MatchesAll \/ Client!Publishes \/ Client!SweepsKey \/ Client!SweepsConfig
  PROVE  DirInv'
<1> USE DEF Client!remote, Client!ghosts
<1>1. proc.pc \notin Client!Asking \union {"idle"}
      /\ Client!Verified \subseteq Client!Steps \ Client!Asking
      /\ {"sweepkey", "sweepconfig", "publish", "retire"} \subseteq Client!Verified
  BY DEF Client!MatchesAll, Client!Publishes, Client!SweepsKey, Client!SweepsConfig, Client!Asking,
     Client!Verified, Client!Steps
<1>2. proc.pc \in Client!Verified => Client!Data(dir.key) = Client!Seed \/ Client!Seed \in discarded
  BY DEF DirInv, CommandInv, PointInv
<1>3. ASSUME proc'.pc \in Client!Verified, dir'.key = dir.key, dir'.pending.seed = dir.pending.seed,
             discarded' = discarded,
             Client!Data(dir.key) = Client!Seed \/ Client!Seed \in discarded
      PROVE  PointInv'
  BY <1>3 DEF PointInv, Client!Verified, Client!Data, Client!Seed, Client!Journal
<1>4. CASE Client!MatchesAll
  <2>1. proc' \in [pc : Client!Steps, n : 0..5, changed : BOOLEAN] /\ Client!Reads
        /\ \/ proc'.pc = "idle"
           \/ proc'.pc \in Client!Verified /\ Client!Data(dir.key) = Client!Seed
    <3>1. \/ Client!Ends
          \/ Client!Data(dir.key) = Client!Seed /\ (Client!At("sweepkey") \/ Client!At("publish"))
      <4>1. CASE Client!Data(dir.key) # Client!Seed \/ Client!Data(dir.config) # Client!Seed
        BY <1>4, <4>1 DEF Client!MatchesAll
      <4>2. CASE /\ Client!Data(dir.key) = Client!Seed /\ Client!Data(dir.config) = Client!Seed
                 /\ Client!Journal.phase = "published"
        BY <1>4, <4>2 DEF Client!MatchesAll
      <4>3. CASE /\ Client!Data(dir.key) = Client!Seed /\ Client!Data(dir.config) = Client!Seed
                 /\ Client!Journal.phase # "published"
        BY <1>4, <4>3 DEF Client!MatchesAll
      <4> QED BY <4>1, <4>2, <4>3
    <3> QED BY <1>1, <1>4, <3>1, Points DEF Client!MatchesAll
  <2>2. PointInv' /\ proc'.pc \notin Client!Asking
    BY <1>1, <1>3, <1>4, <2>1
    DEF Client!MatchesAll, Client!Reads, PointInv, Client!Verified, Client!Asking
  <2> QED BY <1>1, <1>4, <2>1, <2>2, LookStep DEF Client!MatchesAll
<1>5. CASE Client!Publishes
  <2>1. Client!At("sweepkey") /\ proc'.pc \in Client!Verified /\ Client!Phased("published")
    BY <1>1, <1>5, Points DEF Client!Publishes
  <2>2. dir'.key = dir.key /\ dir'.pending.seed = dir.pending.seed
    BY <1>1, <2>1, Past
    DEF Client!Phased, Client!Wrote, Client!Synced, Client!Journal, Client!Dirs, Client!Journals
  <2>3. PointInv'
    BY <1>1, <1>2, <1>3, <1>5, <2>1, <2>2 DEF Client!Publishes
  <2> QED BY <1>1, <1>5, <2>1, <2>3, PhaseStep DEF Client!Publishes
<1>6. ASSUME NEW name \in {"kstage", "cstage"}, NEW pc \in Client!Verified, Client!At(pc),
             proc.pc \in Client!Verified, Client!Synced([dir EXCEPT ![name] = None]),
             UNCHANGED <<relayKey, late, accepted, posted, answer, discarded, made>>
      PROVE  DirInv'
  <2>1. dir' \in Client!Dirs /\ dir' \in durable' /\ durable' = {dir'}
        /\ dir'.pending = dir.pending /\ dir'.rejected = dir.rejected /\ dir'.key = dir.key
        /\ Copies(dir') \subseteq Copies(dir) \union {None}
    BY <1>1, <1>6, Past DEF Client!Synced, Client!Dirs, Copies, KeyCopies, Client!Data
  <2>2. proc' \in [pc : Client!Steps, n : 0..5, changed : BOOLEAN] /\ proc'.pc \in Client!Verified
    BY <1>1, <1>6, Points
  <2>3. PointInv'
    BY <1>2, <1>3, <1>6, <2>1, <2>2
  <2> QED BY <1>1, <1>6, <2>1, <2>2, <2>3, Past, PastStep
<1>7. CASE Client!SweepsKey
  <2>1. Client!Synced([dir EXCEPT !["kstage"] = None])
    BY <1>7 DEF Client!SweepsKey
  <2> QED BY <1>1, <1>6, <1>7, <2>1 DEF Client!SweepsKey
<1>8. CASE Client!SweepsConfig
  <2>1. Client!Synced([dir EXCEPT !["cstage"] = None])
    BY <1>8 DEF Client!SweepsConfig
  <2> QED BY <1>1, <1>6, <1>8, <2>1 DEF Client!SweepsConfig
<1> QED BY <1>4, <1>5, <1>7, <1>8

(* Begins: a fresh journal, with the baselines the two names show.         *)
LEMMA BeginStep == ASSUME Client!KeyClientAssumption, DirInv, Client!Begins PROVE DirInv'
<1> USE DEF Client!remote
<1>1. PICK s \in Client!Seeds :
        /\ \/ s = Client!Data(dir.config) /\ Client!Data(dir.key) = s /\ made' = made
           \/ Client!Data(dir.config) \notin Client!Seeds /\ s = made + 1 /\ made' = s
        /\ Client!Synced([dir EXCEPT !.theirs = {}, !.pending =
             [phase |-> "prepared", seed |-> s, base |-> Client!Data(dir.config),
              prior |-> Client!Data(dir.key), config |-> None, key |-> None]])
  BY DEF Client!Begins
<1> DEFINE j == [phase |-> "prepared", seed |-> s, base |-> Client!Data(dir.config),
                 prior |-> Client!Data(dir.key), config |-> None, key |-> None]
<1>2. /\ dir \in Client!Dirs /\ dir \in durable /\ dir.pending = None /\ dir.config # None
      /\ UNCHANGED <<relayKey, late, accepted, posted, answer, discarded>> /\ Client!At("mark")
  BY DEF DirInv, Client!TypeOK, Client!Begins, Client!Journal
<1>3. dir' = [dir EXCEPT !.theirs = {}, !.pending = j] /\ durable' = {dir'}
  BY <1>1 DEF Client!Synced
<1>4. j \in Client!Journals /\ j # None /\ Client!WellFormed(j)
  <2>1. Client!Data(dir.config) \in Client!Contents
        /\ Client!Data(dir.key) \in Client!Contents \union {None}
    BY <1>2 DEF Client!Dirs, Client!Files, Client!Data
  <2>2. j \in Client!Journals
    BY <2>1 DEF Client!Journals
  <2> QED BY <2>2 DEF Client!WellFormed, Client!KeyClientAssumption
<1>5. Copies(dir) \intersect Client!Seeds \subseteq accepted /\ accepted \subseteq posted
      /\ made \in Nat /\ \A t \in posted : t <= made
  BY <1>2 DEF DirInv, FilesInv, Client!TypeOK
<1>6. made' \in Nat /\ s <= made' /\ made <= made'
  BY <1>1, <1>5 DEF Copies, KeyCopies, Client!Seeds
<1>7. j.seed = s /\ j.base = Client!Data(dir.config) /\ j.prior = Client!Data(dir.key)
      /\ j.config = None /\ j.phase = "prepared"
  OBVIOUS
<1> HIDE DEF j
<1>8. dir' \in Client!Dirs /\ dir'.pending = j /\ dir'.rejected = dir.rejected
      /\ Copies(dir') = Copies(dir) /\ KeyCopies(dir') = KeyCopies(dir)
  BY <1>2, <1>3, <1>4 DEF Client!Dirs, Copies, KeyCopies
<1>9. proc' \in [pc : Client!Steps, n : 0..5, changed : BOOLEAN] /\ proc'.pc = "mark"
  BY <1>2, Points DEF Client!Steps, Client!Asking
<1>10. Client!TypeOK'
  <2>1. \A t \in posted : t <= made'
    BY <1>5, <1>6 DEF DirInv, Client!TypeOK, Client!Seeds
  <2> QED BY <1>2, <1>3, <1>4, <1>6, <1>8, <1>9, <2>1 DEF DirInv, Client!TypeOK, Client!Journal
<1>11. FilesInv'
  <2>1. \A d \in durable' : d = dir'
    BY <1>3
  <2>2. Copies(dir') \intersect Client!Seeds \subseteq accepted'
    BY <1>2, <1>5, <1>8
  <2>3. {j.base, j.prior} \intersect Client!Seeds \subseteq accepted'
    BY <1>2, <1>5, <1>7 DEF Copies, KeyCopies
  <2> QED BY <1>7, <1>8, <2>1, <2>2, <2>3 DEF FilesInv, Client!Journal, Copies, KeyCopies, Client!Data
<1>12. RelayInv'
  BY <1>2, <1>6, <1>7, <1>8, <1>9 DEF DirInv, RelayInv, Client!Journal, Client!Seed
<1>13. CommandInv'
  BY <1>4, <1>7, <1>8, <1>9 DEF CommandInv, PointInv, Client!Journal, Client!Asking, Client!Verified
<1>14. SentInv'
  <2>1. \A d \in durable' : KeyCopies(d) = KeyCopies(dir)
    BY <1>3, <1>8
  <2>2. \A d \in durable' : KeyCopies(d)' = KeyCopies(d)
    BY DEF KeyCopies, Client!Data
  <2> QED BY <1>2, <1>8, <2>1, <2>2 DEF DirInv, SentInv, Client!Journal
<1> QED BY <1>10, <1>11, <1>12, <1>13, <1>14 DEF DirInv

LEMMA MarkStep == ASSUME Client!KeyClientAssumption, DirInv, Client!Marks PROVE DirInv'
<1> USE DEF Client!remote, Client!ghosts
<1> DEFINE j == [dir.pending EXCEPT !.phase = "requesting"]
<1>1. /\ dir \in Client!Dirs /\ dir \in durable /\ dir.pending # None /\ dir.pending \in Client!Journals
      /\ Client!WellFormed(dir.pending)
  BY DEF DirInv, CommandInv, Client!TypeOK, Client!Marks, Client!Journal, Client!Dirs
<1>2. dir' = [dir EXCEPT !.pending = j] /\ durable' = {dir'}
      /\ UNCHANGED <<relayKey, late, accepted, posted, answer, discarded, made>>
  BY DEF Client!Marks, Client!Phased, Client!Wrote, Client!Synced, Client!Journal
<1>3. j \in Client!Journals /\ j # None /\ Client!WellFormed(j) /\ j.phase = "requesting"
      /\ j.seed = dir.pending.seed /\ j.base = dir.pending.base /\ j.prior = dir.pending.prior
      /\ j.config = dir.pending.config /\ j.key = dir.pending.key
  BY <1>1 DEF Client!Journals, Client!WellFormed, Client!KeyClientAssumption
<1> HIDE DEF j
<1>4. dir' \in Client!Dirs /\ dir'.pending = j /\ dir'.rejected = dir.rejected
      /\ Copies(dir') = Copies(dir) /\ KeyCopies(dir') = KeyCopies(dir)
  BY <1>1, <1>2, <1>3 DEF Client!Dirs, Copies, KeyCopies
<1>5. proc' \in [pc : Client!Steps, n : 0..5, changed : BOOLEAN] /\ proc'.pc = "post"
  BY Points DEF Client!Marks, Client!Steps, Client!Asking
<1>6. Client!TypeOK'
  BY <1>2, <1>3, <1>4, <1>5 DEF DirInv, Client!TypeOK, Client!Journal
<1>7. FilesInv'
  BY <1>1, <1>2, <1>3, <1>4 DEF DirInv, FilesInv, Client!Journal, Copies, KeyCopies, Client!Data
<1>8. RelayInv'
  BY <1>1, <1>2, <1>3, <1>4, <1>5 DEF DirInv, RelayInv, Client!Journal, Client!Seed
<1>9. CommandInv'
  BY <1>3, <1>4, <1>5 DEF CommandInv, PointInv, Client!Journal, Client!Asking, Client!Verified
<1>10. SentInv'
  <2>1. \A d \in durable' : KeyCopies(d) = KeyCopies(dir)
    BY <1>2, <1>4
  <2>2. \A d \in durable' : KeyCopies(d)' = KeyCopies(d)
    BY DEF KeyCopies, Client!Data
  <2> QED BY <1>1, <1>2, <1>3, <1>4, <2>1, <2>2 DEF DirInv, SentInv, Client!Journal, Client!Seed
<1> QED BY <1>6, <1>7, <1>8, <1>9, <1>10 DEF DirInv

(* The journal goes: into quarantine, or because the seed is in place.     *)
LEMMA EndStep ==
  ASSUME Client!KeyClientAssumption, DirInv, Client!Quarantines \/ Client!Retires
  PROVE  DirInv'
<1> USE DEF Client!remote, Client!ghosts
<1> DEFINE r == IF proc.pc = "quarantine" THEN dir.rejected \union {Client!Seed} ELSE dir.rejected
<1>1. /\ dir \in Client!Dirs /\ dir \in durable /\ dir.pending # None
      /\ Client!Journal = dir.pending /\ Client!Seed \in Client!Seeds
  BY DEF DirInv, CommandInv, Client!TypeOK, Client!Quarantines, Client!Retires, Client!Journal,
     Client!Seed, Client!Dirs, Client!Journals
<1>2. /\ dir' = [dir EXCEPT !.pending = None, !.rejected = r] /\ durable' = {dir'} /\ Client!Ends
      /\ UNCHANGED <<relayKey, late, accepted, posted, answer, discarded, made>>
  BY <1>1 DEF Client!Quarantines, Client!Retires, Client!Synced, Client!Dirs
<1>3. dir.rejected \subseteq r /\ r \subseteq Client!Seeds
      /\ (Client!Quarantines => Client!Seed \in r)
  BY <1>1 DEF Client!Dirs, Client!Quarantines
<1> HIDE DEF r
<1>4. dir' \in Client!Dirs /\ dir'.pending = None /\ dir'.rejected = r
      /\ Copies(dir') = Copies(dir) /\ KeyCopies(dir') = KeyCopies(dir)
  BY <1>1, <1>2, <1>3 DEF Client!Dirs, Copies, KeyCopies
<1>5. proc' \in [pc : Client!Steps, n : 0..5, changed : BOOLEAN] /\ proc'.pc = "idle"
  BY <1>2, Points
<1>6. Client!TypeOK'
  BY <1>2, <1>4, <1>5 DEF DirInv, Client!TypeOK, Client!Journal
<1>7. FilesInv'
  BY <1>1, <1>2, <1>4 DEF DirInv, FilesInv, Client!Journal, Copies, KeyCopies, Client!Data
<1>8. RelayInv'
  BY <1>2, <1>4, <1>5 DEF DirInv, RelayInv, Client!Journal
<1>9. CommandInv'
  BY <1>4, <1>5 DEF CommandInv, PointInv, Client!Journal, Client!Verified
<1>10. SentInv'
  <2>1. \A d \in durable' : KeyCopies(d) = KeyCopies(dir)
    BY <1>2, <1>4
  <2>2. \A d \in durable' : KeyCopies(d)' = KeyCopies(d)
    BY DEF KeyCopies, Client!Data
  <2>3. Client!Retires => Client!Seed \in accepted
                          /\ (Client!Seed \in KeyCopies(dir) \/ Client!Seed \in discarded)
    BY DEF DirInv, CommandInv, PointInv, Client!Retires, Client!Asking, Client!Verified, KeyCopies
  <2> QED BY <1>1, <1>2, <1>3, <1>4, <2>1, <2>2, <2>3 DEF DirInv, SentInv
<1> QED BY <1>6, <1>7, <1>8, <1>9, <1>10 DEF DirInv

(* The conversation with the relay, and a command that ends or dies.       *)
LEMMA TalkStep ==
  ASSUME Client!KeyClientAssumption, DirInv,
         \/ Client!Resumes \/ Client!Answered \/ Client!OutcomeUnknown \/ Client!StatusRead
         \/ Client!StatusUnavailable \/ Client!Crash
  PROVE  DirInv'
<1> USE DEF Client!remote, Client!ghosts
<1>1. /\ Client!Reads /\ UNCHANGED <<relayKey, late, accepted, posted, discarded, made>>
      /\ answer' \in {answer, None}
  BY DEF Client!Resumes, Client!Answered, Client!OutcomeUnknown, Client!StatusRead,
     Client!StatusUnavailable, Client!Crash
<1>2. {"mark", "match", "status", "accept", "verify", "quarantine", "idle"} \subseteq Client!Steps
      /\ {"mark", "status", "verify", "quarantine", "wait"} \subseteq Client!Asking
      /\ {"match", "accept", "idle"} \intersect Client!Asking = {}
  BY DEF Client!Steps, Client!Asking
<1>3. /\ proc' \in [pc : Client!Steps, n : 0..5, changed : BOOLEAN]
      /\ proc'.pc \in {"mark", "match", "status", "accept", "verify", "quarantine", "idle"}
      /\ proc'.pc # "idle" => Client!Journal # None
      /\ proc'.pc \in {"match", "accept"} => Client!Seed \in accepted
  <2>1. CASE Client!Resumes
    <3>1. \/ Client!At("mark") \/ Client!At("status")
          \/ Client!At("match") /\ Client!Journal.phase = "published"
      BY <2>1 DEF Client!Resumes
    <3> QED BY <1>2, <2>1, <3>1, Points DEF Client!Resumes, DirInv, CommandInv
  <2>2. CASE Client!Answered
    <3>1. \/ Client!At("verify")
          \/ Client!At("accept") /\ Client!Seed \in accepted
      BY <2>2 DEF Client!Answered, DirInv, RelayInv
    <3> QED BY <1>2, <2>2, <3>1, Points DEF Client!Answered, DirInv, CommandInv
  <2>3. CASE Client!StatusRead
    <3>1. Client!Journal # None /\ Client!Seed \in Client!Seeds
      BY <2>3, JournalTyped DEF Client!StatusRead, DirInv, CommandInv
    <3>2. \/ Client!At("mark") \/ Client!At("quarantine")
          \/ Client!At("accept") /\ Client!Seed \in accepted
      BY <2>3, <3>1 DEF Client!StatusRead, DirInv, RelayInv
    <3> QED BY <1>2, <3>1, <3>2, Points
  <2>4. CASE Client!OutcomeUnknown \/ Client!StatusUnavailable \/ Client!Crash
    BY <2>4, Points DEF Client!OutcomeUnknown, Client!StatusUnavailable, Client!Crash
  <2> QED BY <2>1, <2>2, <2>3, <2>4
<1>4. CommandInv'
  BY <1>1, <1>2, <1>3
  DEF DirInv, CommandInv, PointInv, Client!Reads, Client!Journal, Client!Seed, Client!Verified
<1> QED BY <1>1, <1>3, <1>4, ReadStep

LEMMA PostStep == ASSUME Client!KeyClientAssumption, DirInv, Client!Posts PROVE DirInv'
<1> USE DEF Client!ghosts, Client!Reads
<1>1. /\ UNCHANGED <<dir, durable, relayKey, accepted, discarded, made>> /\ answer' = None
      /\ late' = late \union {Client!Seed} /\ posted' = posted \union {Client!Seed}
      /\ Client!Journal # None /\ Client!Seed \in Client!Seeds
  BY JournalTyped DEF Client!Posts, DirInv, CommandInv
<1>2. proc' \in [pc : Client!Steps, n : 0..5, changed : BOOLEAN] /\ proc'.pc = "wait"
  BY Points DEF Client!Posts, Client!Steps, Client!Asking
<1>3. Client!Journal' = Client!Journal /\ Client!Seed' = Client!Seed
  BY <1>1 DEF Client!Journal, Client!Seed
<1>4. Client!TypeOK'
  BY <1>1, <1>2, <1>3 DEF DirInv, RelayInv, Client!TypeOK, Client!WellFormed
<1>5. FilesInv'
  BY <1>1, <1>3 DEF DirInv, FilesInv
<1>6. RelayInv'
  BY <1>1, <1>3 DEF DirInv, RelayInv, Client!KeyClientAssumption, Client!Answers
<1>7. CommandInv'
  BY <1>1, <1>2, <1>3 DEF DirInv, CommandInv, PointInv, Client!Asking, Client!Verified
<1>8. SentInv'
  BY <1>1, <1>3 DEF DirInv, SentInv
<1> QED BY <1>4, <1>5, <1>6, <1>7, <1>8 DEF DirInv

(* The relay, another client, and the network.                             *)
LEMMA RelayStep ==
  ASSUME Client!KeyClientAssumption, DirInv,
         \/ \E s \in Client!Seeds : Client!RelayRegisters(s) \/ Client!RelayRefuses(s)
         \/ Client!RequestLost \/ Client!KeySetElsewhere
  PROVE  DirInv'
<1> USE DEF Client!ghosts, Client!Reads
<1>1. UNCHANGED <<dir, durable, proc, posted, discarded, made>> /\ late' \subseteq late
  BY DEF Client!RelayRegisters, Client!RelayRefuses, Client!RequestLost, Client!KeySetElsewhere
<1>2. Client!Journal' = Client!Journal /\ Client!Seed' = Client!Seed
  BY <1>1 DEF Client!Journal, Client!Seed
<1>3. /\ accepted \subseteq accepted' /\ accepted' \subseteq posted
      /\ relayKey' \in Client!Seeds \union {None, Other}
      /\ answer' \in Client!Answers \union {None}
      /\ relayKey' = None => accepted' = {}
      /\ relayKey' \in Client!Seeds => accepted' = {relayKey'}
      /\ \A s, t \in accepted' : s = t
      /\ proc.pc = "wait" /\ answer' = "ok" => Client!Seed \in accepted'
  <2>1. ASSUME NEW s \in Client!Seeds, Client!RelayRegisters(s) PROVE <1>3!:
    <3>1. /\ s \in late /\ relayKey \in {None, s} /\ relayKey' = s
          /\ accepted' = accepted \union {s} /\ accepted \subseteq {s}
          /\ answer' = answer \/ (answer' = "ok" /\ Client!Seed = s)
      BY <2>1 DEF Client!RelayRegisters, DirInv, RelayInv
    <3> QED BY <3>1 DEF DirInv, RelayInv, Client!TypeOK, Client!Answers, Client!KeyClientAssumption,
            Client!Seeds
  <2>2. ASSUME NEW s \in Client!Seeds, Client!RelayRefuses(s) PROVE <1>3!:
    BY <2>2 DEF Client!RelayRefuses, DirInv, RelayInv, Client!TypeOK, Client!Answers
  <2>3. CASE Client!RequestLost
    BY <2>3 DEF Client!RequestLost, DirInv, RelayInv, Client!TypeOK
  <2>4. CASE Client!KeySetElsewhere
    <3>1. Other \notin Client!Seeds /\ Other # None
      BY DEF Client!KeyClientAssumption, Client!Seeds
    <3> QED BY <2>4, <3>1 DEF Client!KeySetElsewhere, DirInv, RelayInv, Client!TypeOK
  <2> QED BY <2>1, <2>2, <2>3, <2>4
<1>4. Client!TypeOK'
  BY <1>1, <1>2, <1>3 DEF DirInv, Client!TypeOK, Client!WellFormed
<1>5. FilesInv'
  BY <1>1, <1>2, <1>3 DEF DirInv, FilesInv
<1>6. RelayInv'
  BY <1>1, <1>2, <1>3 DEF DirInv, RelayInv
<1>7. CommandInv'
  BY <1>1, <1>2, <1>3 DEF DirInv, CommandInv, PointInv
<1>8. SentInv'
  BY <1>1, <1>2, <1>3 DEF DirInv, SentInv
<1> QED BY <1>4, <1>5, <1>6, <1>7, <1>8 DEF DirInv

(* The operator's hand: what no image holds any more is discarded.         *)
LEMMA EditStep ==
  ASSUME Client!KeyClientAssumption, DirInv, Client!OperatorEdits
  PROVE  DirInv'
<1> USE DEF Client!remote
<1>1. /\ UNCHANGED <<proc, relayKey, late, accepted, posted, answer, made>>
      /\ dir \in Client!Dirs /\ dir \in durable /\ durable \subseteq Client!Dirs
      /\ Copies(dir) \intersect Client!Seeds \subseteq accepted
  BY DEF Client!OperatorEdits, DirInv, Client!TypeOK, FilesInv
<1>2. PICK name \in {"config", "key"}, file \in Client!Files \union {None} :
        /\ Client!Edited(name, file)
        /\ Client!Data(file) \in Client!Seeds => Client!Data(file) \in accepted
  <2>1. PICK i \in Client!FreeInodes :
          \/ Client!Edited("config", Client!File(i, Client!Foreign))
          \/ Client!Edited("key", Client!File(i, Client!Foreign))
          \/ dir.key # None /\ Client!Edited("key", None)
          \/ Client!Journal # None /\ Client!Edited("config", Client!File(i, Client!Journal.base))
          \/ Client!Journal # None /\ Client!Journal.prior # None
             /\ Client!Edited("key", Client!File(i, Client!Journal.prior))
    BY DEF Client!OperatorEdits
  <2>2. i \in Nat \ {0}
    BY DEF Client!FreeInodes, Client!KeyClientAssumption
  <2>3. \A x \in Client!Contents :
          Client!File(i, x) \in Client!Files /\ Client!Data(Client!File(i, x)) = x
    BY <2>2 DEF Client!File, Client!Files, Client!Data, Client!KeyClientAssumption
  <2>4. Client!Foreign \in Client!Contents /\ Client!Foreign \notin Client!Seeds
    BY DEF Client!Contents, Client!Foreign, Client!Seeds
  <2>5. Client!Data(None) \notin Client!Seeds
    BY DEF Client!Data, Client!Seeds, Client!KeyClientAssumption
  <2>6. Client!Journal # None =>
          /\ Client!Journal.base \in Client!Contents
          /\ Client!Journal.prior # None => Client!Journal.prior \in Client!Contents
          /\ {Client!Journal.base, Client!Journal.prior} \intersect Client!Seeds \subseteq accepted
    BY JournalTyped DEF Client!Journals, DirInv, FilesInv
  <2> QED BY <2>1, <2>3, <2>4, <2>5, <2>6
<1>3. PICK theirs :
        /\ dir' = [dir EXCEPT ![name] = file, !.theirs = theirs]
        /\ theirs \subseteq dir.theirs \union (IF file = None THEN {} ELSE {file.id})
  <2> DEFINE ids(f) == IF f = None THEN {} ELSE {f.id}
             own == Client!Data(file) = Client!Foreign /\ Client!Baseline(name) # Client!Foreign
             theirs == (dir.theirs \ ids(dir[name])) \union (IF own THEN ids(file) ELSE {})
  <2>1. dir' = [dir EXCEPT ![name] = file, !.theirs = theirs]
    BY <1>1, <1>2 DEF Client!Edited, Client!Moved, Client!Dirs
  <2>2. theirs \subseteq dir.theirs \union (IF file = None THEN {} ELSE {file.id})
    OBVIOUS
  <2> HIDE DEF theirs
  <2> QED BY <2>1, <2>2
<1>4. durable' = durable \union {dir'}
  BY <1>2 DEF Client!Edited, Client!Moved
<1>5. /\ dir' \in Client!Dirs /\ dir'.pending = dir.pending /\ dir'.rejected = dir.rejected
      /\ Copies(dir') \subseteq Copies(dir) \union {Client!Data(file)}
      /\ dir'.kstage = dir.kstage /\ dir'.cstage = dir.cstage
      /\ name = "config" => dir'.key = dir.key
  BY <1>1, <1>2, <1>3 DEF Client!Dirs, Client!Files, Copies, KeyCopies
<1>6. Client!Journal' = Client!Journal /\ Client!Seed' = Client!Seed
  BY <1>5 DEF Client!Journal, Client!Seed
<1>7. /\ discarded \subseteq discarded' /\ discarded' \subseteq discarded \union Client!Seeds
      /\ proc.pc \in Client!Verified /\ name = "key" /\ Client!Data(dir.key) \in Client!Seeds
           => Client!Data(dir.key) \in discarded'
      /\ ~(proc.pc \in Client!Verified /\ name = "key") =>
           \A s \in Client!Seeds : s \in Client!Held(dir) /\ s \notin Client!Held(dir')
                                     => s \in discarded'
  BY <1>2 DEF Client!Edited, Client!Moved
<1>8. Client!TypeOK'
  BY <1>1, <1>4, <1>5, <1>6, <1>7 DEF DirInv, Client!TypeOK, Client!WellFormed
<1>9. \A d \in durable' : Copies(d)' = Copies(d) /\ KeyCopies(d)' = KeyCopies(d)
  BY DEF Copies, KeyCopies, Client!Data
<1>10. FilesInv'
  <2>1. \A d \in durable' : d.pending = dir'.pending /\ d.rejected = dir'.rejected
    BY <1>4, <1>5 DEF DirInv, FilesInv
  <2>2. \A d \in durable' : Copies(d) \intersect Client!Seeds \subseteq accepted
    BY <1>1, <1>2, <1>4, <1>5 DEF DirInv, FilesInv
  <2> QED BY <1>1, <1>6, <1>9, <2>1, <2>2 DEF DirInv, FilesInv
<1>11. RelayInv'
  BY <1>1, <1>6 DEF DirInv, RelayInv
<1>12. CommandInv'
  <2>1. proc.pc \in Client!Verified =>
          Client!Data(dir'.key) = Client!Seed \/ Client!Seed \in discarded'
    <3>1. ASSUME proc.pc \in Client!Verified, name = "key"
          PROVE  Client!Seed \in discarded'
      <4>1. Client!Seed \in Client!Seeds
        BY <3>1, JournalTyped DEF DirInv, CommandInv, Client!Verified
      <4> QED BY <1>7, <3>1, <4>1 DEF DirInv, CommandInv, PointInv
    <3> QED BY <1>5, <1>7, <3>1 DEF DirInv, CommandInv, PointInv
  <2>2. Client!Data(dir.key)' = Client!Data(dir'.key)
    BY DEF Client!Data
  <2> QED BY <1>1, <1>5, <1>6, <2>1, <2>2 DEF DirInv, CommandInv, PointInv
<1>13. SentInv'
  <2>1. ASSUME NEW s \in posted, s \in KeyCopies(dir), s \notin dir.rejected,
               ~(Client!Journal # None /\ Client!Seed = s), s \notin discarded'
        PROVE  s \in KeyCopies(dir')
    <3>1. s \in Client!Seeds /\ s \in Client!Held(dir)
      BY <2>1 DEF DirInv, Client!TypeOK, Client!Held, KeyCopies
    <3>2. CASE proc.pc \in Client!Verified /\ name = "key"
      BY <1>5, <1>7, <2>1, <3>1, <3>2 DEF KeyCopies
    <3>3. CASE ~(proc.pc \in Client!Verified /\ name = "key")
      <4>1. s \in Client!Held(dir')
        BY <1>7, <2>1, <3>1, <3>3
      <4> QED BY <1>5, <2>1, <4>1 DEF Client!Held, KeyCopies, Client!Journal, Client!Seed
    <3> QED BY <3>2, <3>3
  <2> QED BY <1>1, <1>4, <1>5, <1>6, <1>7, <1>9, <2>1 DEF DirInv, SentInv
<1> QED BY <1>8, <1>10, <1>11, <1>12, <1>13 DEF DirInv

LEMMA PowerStep ==
  ASSUME Client!KeyClientAssumption, DirInv, Client!PowerLoss
  PROVE  DirInv'
<1>1. /\ dir' \in durable /\ durable' = {dir'} /\ proc' = Client!Idle /\ answer' = None
      /\ UNCHANGED <<relayKey, late, accepted, posted, discarded, made>>
  BY DEF Client!PowerLoss
<1>2. dir'.pending = dir.pending /\ dir'.rejected = dir.rejected
  BY <1>1 DEF DirInv, FilesInv
<1>3. Client!Journal' = Client!Journal /\ Client!Seed' = Client!Seed
  BY <1>2 DEF Client!Journal, Client!Seed
<1>4. proc' \in [pc : Client!Steps, n : 0..5, changed : BOOLEAN] /\ proc'.pc = "idle"
  BY <1>1 DEF Client!Idle, Client!Steps
<1>5. Client!TypeOK'
  BY <1>1, <1>3, <1>4 DEF DirInv, Client!TypeOK, Client!WellFormed
<1>6. \A d \in durable' : Copies(d)' = Copies(d) /\ KeyCopies(d)' = KeyCopies(d)
  BY DEF Copies, KeyCopies, Client!Data
<1>7. FilesInv'
  BY <1>1, <1>3, <1>6 DEF DirInv, FilesInv
<1>8. RelayInv'
  BY <1>1, <1>3, <1>4 DEF DirInv, RelayInv
<1>9. CommandInv'
  BY <1>1, <1>3, <1>4 DEF DirInv, CommandInv, PointInv, Client!Verified
<1>10. SentInv'
  BY <1>1, <1>2, <1>3, <1>6 DEF DirInv, SentInv
<1> QED BY <1>5, <1>7, <1>8, <1>9, <1>10 DEF DirInv

LEMMA DirStep ==
  ASSUME Client!KeyClientAssumption, DirInv, [Client!Next]_Client!vars
  PROVE  DirInv'
<1>1. ASSUME UNCHANGED Client!vars PROVE DirInv'
  BY <1>1 DEF Client!vars, DirInv, Client!TypeOK, FilesInv, RelayInv, CommandInv, PointInv, SentInv,
     Client!Journal, Client!Seed, Client!WellFormed
<1> QED
  BY <1>1, BeginStep, MarkStep, EndStep, TalkStep, PostStep, RelayStep, EditStep, PowerStep,
     StageStep, BaselineStep, PublishStep, FinishStep
  DEF Client!Next, Client!Command

LEMMA SentIsHeld == ASSUME DirInv PROVE Client!SeedNeverLost
<1> QED
  BY DEF DirInv, SentInv, FilesInv, Client!TypeOK, Client!SeedNeverLost, Client!Images, Client!Held,
     KeyCopies, Client!Journal, Client!Seed

LEMMA ShownIsAccepted == ASSUME DirInv PROVE Client!PublishedWasAccepted
<1> QED
  BY DEF DirInv, FilesInv, Client!TypeOK, Client!PublishedWasAccepted, Client!Images, Copies, KeyCopies

(* A seed that was ever sent is on disk, whatever the crash: for any       *)
(* number of candidates, crashes and operator's edits.                     *)
THEOREM SentSeedsAreKept ==
  ASSUME Client!KeyClientAssumption
  PROVE  Client!Spec => []Client!SeedNeverLost
<1> QED BY DirInit, DirStep, SentIsHeld, PTL DEF Client!Spec

(* No local name shows a candidate the relay never accepted.               *)
THEOREM ShownSeedsWereAccepted ==
  ASSUME Client!KeyClientAssumption
  PROVE  Client!Spec => []Client!PublishedWasAccepted
<1> QED BY DirInit, DirStep, ShownIsAccepted, PTL DEF Client!Spec

(***************************************************************************)
(* The operator's files.  Every image keeps them under one of the names: a *)
(* name and its stage exchange files, and what a stage gives up is checked *)
(* before the stage is unlinked.                                           *)
(***************************************************************************)
Theirs(d, f) == f # None /\ f.id \in d.theirs
Distinct(f, g) == f = None \/ g = None \/ f.id # g.id

(* No inode has two names.                                                 *)
Apart(d) ==
  /\ Distinct(d.config, d.key) /\ Distinct(d.config, d.cstage) /\ Distinct(d.config, d.kstage)
  /\ Distinct(d.key, d.cstage) /\ Distinct(d.key, d.kstage) /\ Distinct(d.cstage, d.kstage)

(* An operator's file is under a name or its stage, and is not what the    *)
(* transaction started from: no token describes it.                        *)
Found(d) ==
  \A i \in d.theirs :
    /\ i # 0
    /\ \/ /\ Client!File(i, Client!Foreign) \in {d.config, d.cstage}
          /\ d.pending # None => d.pending.base # Client!Foreign
       \/ /\ Client!File(i, Client!Foreign) \in {d.key, d.kstage}
          /\ d.pending # None => d.pending.prior # Client!Foreign

(* A stage holds one only while its role is being published.               *)
Tidy(d) ==
  d.pending # None =>
    /\ d.pending.phase # "publishing" \/ d.pending.config.state = "new" => ~Theirs(d, d.cstage)
    /\ d.pending.phase # "publishing" \/ d.pending.key.state = "new" => ~Theirs(d, d.kstage)

Kept(d) == Apart(d) /\ Found(d) /\ Tidy(d)

TokenAt(c, d) == IF c.n \in {3, 5} THEN d.pending.key ELSE d.pending.config
StageAt(c, d) == IF c.n \in {3, 5} THEN d.kstage ELSE d.cstage

(* What the command c relies on in the directory d, point by point.        *)
Hand(c, d) ==
  /\ c.pc \in {"mark"} \union (Client!Staging \ {"adopt"}) => d.pending.phase # "publishing"
  /\ c.pc = "writekey" => d.kstage # None /\ d.kstage.data = Client!Torn
  /\ c.pc = "writeconfig" => d.cstage # None /\ d.cstage.data = Client!Torn
  /\ c.pc \in Client!Moving => d.pending.phase = "publishing" /\ c.n \in 1..5
  /\ c.pc \in {"compensate", "swap", "check", "inverse", "readback"} => TokenAt(c, d).state # "new"
  /\ c.pc \in {"compensate", "inverse"} => TokenAt(c, d).state = "old"
  /\ c.pc = "check" /\ TokenAt(c, d).state = "absent" => StageAt(c, d) = None
  /\ c.pc \in Client!Moving /\ c.changed => d.pending.key.state # "new"
  /\ c.pc \in {"rollback", "rollswap"} => d.pending.key.state # "new"
  /\ c.pc = "readback" => ~Theirs(d, StageAt(c, d))
  /\ c.pc \in Client!Moving /\ c.n = 5 => ~Theirs(d, d.cstage)
  /\ c.pc \in {"match", "publish", "sweepkey", "sweepconfig"} =>
        ~Theirs(d, d.cstage) /\ ~Theirs(d, d.kstage)

KeepInv == (\A d \in durable : Kept(d)) /\ Hand(proc, dir)

LEMMA KeepInit == ASSUME Client!KeyClientAssumption, Client!Init PROVE KeepInv
<1> USE DEF Client!Init
<1>1. /\ dir.theirs = {} /\ dir.pending = None /\ dir.cstage = None /\ dir.kstage = None
      /\ dir.config = Client!File(1, Client!Legacy)
      /\ dir.key = None \/ dir.key = Client!File(2, Client!Legacy)
  OBVIOUS
<1>2. Kept(dir)
  BY <1>1 DEF Kept, Apart, Distinct, Found, Tidy, Client!File
<1>3. Hand(proc, dir)
  BY DEF Hand, Client!Idle, Client!Staging, Client!Moving
<1> QED BY <1>2, <1>3 DEF KeepInv

(* The invariant follows from the directory a step leaves.                 *)
LEMMA KeepFrom ==
  ASSUME KeepInv, durable' \subseteq durable \union {dir'}, Kept(dir'), Hand(proc', dir')
  PROVE  KeepInv'
BY DEF KeepInv, Kept, Apart, Distinct, Found, Tidy, Theirs, Hand, TokenAt, StageAt,
   Client!File, Client!Foreign, Client!Torn, Client!Staging, Client!Moving

(* The command's own view of a role is TokenAt and StageAt.                *)
LEMMA RoleView ==
  /\ Client!Tok = TokenAt(proc, dir) /\ Client!Stage = StageAt(proc, dir)
  /\ Client!Journal = dir.pending
BY DEF Client!Tok, Client!Role, Client!Journal, Client!Stage, TokenAt, StageAt

(* What the invariant says of the directory, with its types.               *)
LEMMA KeptNow ==
  ASSUME DirInv, KeepInv
  PROVE  /\ Kept(dir) /\ Hand(proc, dir) /\ dir \in Client!Dirs /\ dir \in durable
         /\ proc \in [pc : Client!Steps, n : 0..5, changed : BOOLEAN]
BY DEF DirInv, KeepInv, Client!TypeOK

(* An operator's file in a stage is not what the role started from.        *)
LEMMA StagedIsForeign ==
  ASSUME Client!KeyClientAssumption, NEW d \in Client!Dirs, Apart(d), Found(d)
  PROVE  /\ Theirs(d, d.cstage) =>
              /\ d.cstage.data = Client!Foreign
              /\ d.pending # None => d.pending.base # Client!Foreign
         /\ Theirs(d, d.kstage) =>
              /\ d.kstage.data = Client!Foreign
              /\ d.pending # None => d.pending.prior # Client!Foreign
<1>1. \A i : Client!File(i, Client!Foreign).id = i /\ Client!File(i, Client!Foreign).data = Client!Foreign
  BY DEF Client!File
<1>2. ASSUME Theirs(d, d.cstage)
      PROVE  /\ d.cstage.data = Client!Foreign
             /\ d.pending # None => d.pending.base # Client!Foreign
  <2> DEFINE f == Client!File(d.cstage.id, Client!Foreign)
  <2>1. d.cstage # None /\ d.cstage.id \in d.theirs
    BY <1>2 DEF Theirs
  <2>2. \/ f \in {d.config, d.cstage} /\ (d.pending # None => d.pending.base # Client!Foreign)
        \/ f \in {d.key, d.kstage} /\ (d.pending # None => d.pending.prior # Client!Foreign)
    BY <2>1 DEF Found
  <2>3. f.id = d.cstage.id /\ f.data = Client!Foreign /\ f # None
    <3>1. d.cstage.id \in Nat \ {0}
      BY <2>1 DEF Client!Dirs, Client!Files
    <3>2. f \in Client!Files
      BY <3>1 DEF Client!File, Client!Files, Client!Contents
    <3> QED BY <1>1, <3>2 DEF Client!KeyClientAssumption
  <2> HIDE DEF f
  <2>4. f # d.config /\ f # d.key /\ f # d.kstage
    BY <2>1, <2>3 DEF Apart, Distinct
  <2> QED BY <2>2, <2>3, <2>4
<1>3. ASSUME Theirs(d, d.kstage)
      PROVE  /\ d.kstage.data = Client!Foreign
             /\ d.pending # None => d.pending.prior # Client!Foreign
  <2> DEFINE f == Client!File(d.kstage.id, Client!Foreign)
  <2>1. d.kstage # None /\ d.kstage.id \in d.theirs
    BY <1>3 DEF Theirs
  <2>2. \/ f \in {d.config, d.cstage} /\ (d.pending # None => d.pending.base # Client!Foreign)
        \/ f \in {d.key, d.kstage} /\ (d.pending # None => d.pending.prior # Client!Foreign)
    BY <2>1 DEF Found
  <2>3. f.id = d.kstage.id /\ f.data = Client!Foreign /\ f # None
    <3>1. d.kstage.id \in Nat \ {0}
      BY <2>1 DEF Client!Dirs, Client!Files
    <3>2. f \in Client!Files
      BY <3>1 DEF Client!File, Client!Files, Client!Contents
    <3> QED BY <1>1, <3>2 DEF Client!KeyClientAssumption
  <2> HIDE DEF f
  <2>4. f # d.config /\ f # d.key /\ f # d.cstage
    BY <2>1, <2>3 DEF Apart, Distinct
  <2> QED BY <2>2, <2>3, <2>4
<1> QED BY <1>2, <1>3

(* The directory as it was: only the command moves on.                     *)
LEMMA KeepReads ==
  ASSUME DirInv, KeepInv, Client!Reads, Hand(proc', dir)
  PROVE  KeepInv'
<1>1. dir' = dir /\ durable' = durable
  BY DEF Client!Reads
<1> QED BY <1>1, KeptNow, KeepFrom

(* The command ends or undoes its key transition.                          *)
LEMMA HandEnds ==
  ASSUME KeepInv, DirInv, NEW d
  PROVE  /\ Client!Ends => Hand(proc', d)
         /\ /\ Client!Refuses /\ proc.pc \in Client!Moving
            /\ d.pending = dir.pending
            => Hand(proc', d)
<1>1. ASSUME Client!Ends PROVE Hand(proc', d)
  BY <1>1 DEF Client!Ends, Client!Idle, Hand, Client!Staging, Client!Moving
<1>2. ASSUME Client!At("rollback"), proc.n = 4, proc.changed, proc.pc \in Client!Moving,
             d.pending = dir.pending
      PROVE  Hand(proc', d)
  <2>1. proc'.pc = "rollback" /\ proc'.n = 4 /\ proc'.changed = proc.changed
    BY <1>2, KeptNow DEF Client!At
  <2>2. dir.pending.phase = "publishing" /\ dir.pending.key.state # "new"
    BY <1>2, KeptNow DEF Hand
  <2> QED BY <1>2, <2>1, <2>2 DEF Hand, Client!Staging, Client!Moving
<1> QED BY <1>1, <1>2 DEF Client!Refuses

(* Points that rely on nothing.                                            *)
LEMMA HandFree ==
  ASSUME NEW d, NEW c, c.pc \in {"idle", "post", "wait", "status", "verify", "quarantine", "accept",
                                 "adopt", "retire"}
  PROVE  Hand(c, d)
BY DEF Hand, Client!Staging, Client!Moving

LEMMA AtView ==
  ASSUME DirInv, NEW pc, Client!At(pc)
  PROVE  proc'.pc = pc /\ proc'.n = proc.n /\ proc'.changed = proc.changed
BY DEF DirInv, Client!TypeOK, Client!At

(* The relay, its network and the command while it asks.                   *)
LEMMA KeepAsks ==
  ASSUME Client!KeyClientAssumption, DirInv, KeepInv,
         \/ Client!Resumes \/ Client!Posts \/ Client!Answered \/ Client!OutcomeUnknown
         \/ Client!StatusRead \/ Client!StatusUnavailable \/ Client!Crash
         \/ \E s \in Client!Seeds : Client!RelayRegisters(s) \/ Client!RelayRefuses(s)
         \/ Client!RequestLost \/ Client!KeySetElsewhere
  PROVE  KeepInv'
<1>1. Client!Reads
  BY DEF Client!Resumes, Client!Posts, Client!Answered, Client!OutcomeUnknown, Client!StatusRead,
     Client!StatusUnavailable, Client!Crash, Client!RelayRegisters, Client!RelayRefuses,
     Client!RequestLost, Client!KeySetElsewhere
<1>2. CASE Client!Resumes
  <2>1. Client!Journal = dir.pending /\ dir.pending # None
        /\ dir.pending.phase \in {"prepared", "requesting", "accepted", "publishing", "published"}
    BY <1>2 DEF Client!Resumes, Client!Journal, Client!WellFormed
  <2>2. CASE dir.pending.phase = "prepared"
    <3>1. proc'.pc = "mark"
      BY <1>2, <2>1, <2>2, AtView DEF Client!Resumes
    <3>2. Hand(proc', dir)
      BY <2>2, <3>1 DEF Hand, Client!Staging, Client!Moving
    <3> QED BY <1>1, <3>2, KeepReads
  <2>3. CASE dir.pending.phase = "published"
    <3>1. proc'.pc = "match"
      BY <1>2, <2>1, <2>3, AtView DEF Client!Resumes
    <3>2. ~Theirs(dir, dir.cstage) /\ ~Theirs(dir, dir.kstage)
      BY <2>1, <2>3, KeptNow DEF Kept, Tidy
    <3>3. Hand(proc', dir)
      BY <3>1, <3>2 DEF Hand, Client!Staging, Client!Moving
    <3> QED BY <1>1, <3>3, KeepReads
  <2>4. CASE dir.pending.phase \notin {"prepared", "published"}
    <3>1. Client!At("status")
      BY <1>2, <2>1, <2>4 DEF Client!Resumes
    <3> QED BY <1>1, <3>1, AtView, HandFree, KeepReads
  <2> QED BY <2>2, <2>3, <2>4
<1>3. CASE Client!StatusRead
  <2>1. CASE relayKey = None /\ proc.pc = "status" /\ relayKey # Client!Seed
    <3>1. Client!At("mark") /\ proc'.pc = "mark"
      BY <1>3, <2>1, AtView DEF Client!StatusRead
    <3>2. dir.pending.phase # "publishing"
      BY <2>1 DEF DirInv, CommandInv, RelayInv, Client!Journal
    <3>3. Hand(proc', dir)
      BY <3>1, <3>2 DEF Hand, Client!Staging, Client!Moving
    <3> QED BY <1>1, <3>3, KeepReads
  <2>2. CASE ~(relayKey = None /\ proc.pc = "status" /\ relayKey # Client!Seed)
    <3>1. proc'.pc \in {"accept", "quarantine"}
      <4>1. CASE relayKey = Client!Seed
        <5>1. Client!Journal # None
          BY <1>3 DEF DirInv, CommandInv, Client!StatusRead
        <5>2. relayKey # None
          BY <4>1, <5>1, JournalTyped DEF Client!Seeds, Client!KeyClientAssumption
        <5>3. Client!At("accept")
          BY <1>3, <4>1, <5>2 DEF Client!StatusRead
        <5> QED BY <5>3, AtView
      <4>2. CASE relayKey # Client!Seed
        <5>1. Client!At("quarantine")
          BY <1>3, <2>2, <4>2 DEF Client!StatusRead
        <5> QED BY <5>1, AtView
      <4> QED BY <4>1, <4>2
    <3> QED BY <1>1, <3>1, HandFree, KeepReads
  <2> QED BY <2>1, <2>2
<1>4. CASE Client!Posts \/ Client!Answered
  <2>1. proc'.pc \in {"wait", "accept", "verify"}
    BY <1>4, AtView DEF Client!Posts, Client!Answered
  <2> QED BY <1>1, <2>1, HandFree, KeepReads
<1>5. CASE Client!OutcomeUnknown \/ Client!StatusUnavailable \/ Client!Crash
  BY <1>1, <1>5, HandEnds, KeepReads
  DEF Client!OutcomeUnknown, Client!StatusUnavailable, Client!Crash
<1>6. ASSUME proc' = proc PROVE KeepInv'
  BY <1>1, <1>6, KeptNow, KeepReads
<1> QED
  BY <1>2, <1>3, <1>4, <1>5, <1>6
  DEF Client!RelayRegisters, Client!RelayRefuses, Client!RequestLost, Client!KeySetElsewhere

(* Looking at a role whose publication is done: nothing of the operator's  *)
(* is in its stage.                                                        *)
LEMMA DoneIsTidy ==
  ASSUME Client!KeyClientAssumption, DirInv, KeepInv, proc.pc \in Client!Moving,
         \/ Client!Already \/ Client!Completed
         \/ /\ TokenAt(proc, dir).state \in {"old", "absent"}
            /\ TokenAt(proc, dir).state = "old" => Client!Holding
            /\ TokenAt(proc, dir).state = "absent" => Client!Stage = None
  PROVE  ~Theirs(dir, StageAt(proc, dir))
<1> SUFFICES ASSUME Theirs(dir, StageAt(proc, dir)) PROVE FALSE
  OBVIOUS
<1>1. /\ dir.pending # None /\ dir.pending.phase = "publishing"
      /\ Kept(dir) /\ dir \in Client!Dirs
  BY Past, KeptNow DEF Hand, Client!Moving, Client!Asking
<1>2. StageAt(proc, dir) # None
  BY DEF Theirs
<1>3. Client!Stage = StageAt(proc, dir) /\ Client!Tok = TokenAt(proc, dir)
  BY RoleView
<1>4. TokenAt(proc, dir).state # "new"
  BY <1>1 DEF Kept, Tidy, TokenAt, StageAt
<1>5. Client!Old = IF proc.n \in {3, 5} THEN dir.pending.prior ELSE dir.pending.base
  BY DEF Client!Old, Client!Role, Client!Journal
<1>6. Client!Holding
  BY <1>2, <1>3, <1>4 DEF Client!Already, Client!Completed
<1>7. StageAt(proc, dir).data = Client!Old
  BY <1>3, <1>6 DEF Client!Holding, Client!Matches, Client!File
<1>8. StageAt(proc, dir).data = Client!Foreign /\ Client!Old # Client!Foreign
  BY <1>1, <1>5, StagedIsForeign DEF Kept, StageAt
<1> QED BY <1>7, <1>8

(* On to the next role, or to the match after the fifth.                   *)
LEMMA HandNext ==
  ASSUME DirInv, KeepInv, proc.pc \in Client!Moving, ~Theirs(dir, StageAt(proc, dir)),
         NEW c, proc.n = 3 /\ c => dir.pending.key.state # "new", Client!Next5(c)
  PROVE  Hand(proc', dir)
<1>1. /\ dir.pending.phase = "publishing" /\ proc.n \in 1..5
      /\ proc.changed => dir.pending.key.state # "new"
      /\ proc.n = 5 => ~Theirs(dir, dir.cstage)
  BY KeptNow DEF Hand
<1>2. /\ proc'.pc = IF proc.n = 5 THEN "match" ELSE "look"
      /\ proc'.n = IF proc.n = 5 THEN 0 ELSE proc.n + 1
      /\ proc'.changed = IF proc.n = 3 THEN c ELSE proc.changed
  BY DEF Client!Next5
<1>3. CASE proc.n = 5
  <2>1. ~Theirs(dir, dir.cstage) /\ ~Theirs(dir, dir.kstage) /\ proc'.pc = "match"
    BY <1>1, <1>2, <1>3 DEF StageAt
  <2> QED BY <2>1 DEF Hand, Client!Staging, Client!Moving
<1>4. CASE proc.n # 5
  <2>1. /\ proc'.pc = "look" /\ proc'.n \in 1..5
        /\ proc'.changed => dir.pending.key.state # "new"
        /\ proc'.n = 5 => ~Theirs(dir, dir.cstage)
    <3>1. proc'.pc = "look" /\ proc'.n = proc.n + 1 /\ proc.n \in 1..4
      BY <1>1, <1>2, <1>4
    <3>2. proc'.changed => dir.pending.key.state # "new"
      BY <1>1, <1>2
    <3>3. proc'.n = 5 => proc.n = 4
      BY <3>1
    <3> QED BY <3>1, <3>2, <3>3 DEF StageAt
  <2> QED BY <1>1, <2>1 DEF Hand, Client!Staging, Client!Moving
<1> QED BY <1>3, <1>4

(* What stays true while the command works on one role.                    *)
LEMMA HandStays ==
  ASSUME DirInv, KeepInv, proc.pc \in Client!Moving,
         proc'.n = proc.n, proc'.changed = proc.changed
  PROVE  /\ dir.pending.phase = "publishing" /\ proc'.n \in 1..5
         /\ proc'.changed => dir.pending.key.state # "new"
         /\ proc'.n = 5 => ~Theirs(dir, dir.cstage)
         /\ TokenAt(proc', dir) = TokenAt(proc, dir) /\ StageAt(proc', dir) = StageAt(proc, dir)
BY KeptNow DEF Hand, TokenAt, StageAt

LEMMA KeepLooks ==
  ASSUME Client!KeyClientAssumption, DirInv, KeepInv,
         \/ Client!Looks \/ Client!ReadsBack \/ Client!RollbackLooks \/ Client!MatchesAll
         \/ Client!Checks
  PROVE  KeepInv'
<1>1. CASE Client!Looks
  <2>1. proc.pc \in Client!Moving /\ Client!Reads
    BY <1>1 DEF Client!Looks, Client!Moving
  <2>2. CASE Client!Already \/ Client!Completed
    <3>0. ~Client!Interrupted /\ ~Client!Ready
      <4>1. CASE Client!Already
        BY <4>1 DEF Client!Already, Client!Interrupted, Client!Ready
      <4>2. CASE Client!Completed
        BY <4>2 DEF Client!Completed, Client!Interrupted, Client!Ready
      <4> QED BY <2>2, <4>1, <4>2
    <3>1. Client!Next5(FALSE)
      BY <1>1, <2>2, <3>0 DEF Client!Looks
    <3>2. ~Theirs(dir, StageAt(proc, dir))
      BY <2>1, <2>2, DoneIsTidy
    <3> QED BY <2>1, <3>1, <3>2, HandNext, KeepReads
  <2>3. CASE ~(Client!Already \/ Client!Completed) /\ Client!Interrupted
    <3>1. Client!At("compensate")
      BY <1>1, <2>3 DEF Client!Looks, Client!Interrupted, Client!Ready
    <3>2. proc'.pc = "compensate" /\ proc'.n = proc.n /\ proc'.changed = proc.changed
      BY <3>1, AtView
    <3>3. TokenAt(proc, dir).state = "old"
      BY <2>3, RoleView DEF Client!Interrupted
    <3>4. Hand(proc', dir)
      BY <2>1, <3>2, <3>3, HandStays DEF Hand, Client!Staging, Client!Moving
    <3> QED BY <2>1, <3>4, KeepReads
  <2>4. CASE /\ ~(Client!Already \/ Client!Completed) /\ ~Client!Interrupted
             /\ Client!Ready
    <3>1. Client!At("swap")
      BY <1>1, <2>4 DEF Client!Looks
    <3>2. proc'.pc = "swap" /\ proc'.n = proc.n /\ proc'.changed = proc.changed
      BY <3>1, AtView
    <3>3. TokenAt(proc, dir).state # "new"
      BY <2>4, RoleView DEF Client!Ready
    <3>4. Hand(proc', dir)
      BY <2>1, <3>2, <3>3, HandStays DEF Hand, Client!Staging, Client!Moving
    <3> QED BY <2>1, <3>4, KeepReads
  <2>5. CASE ~(Client!Already \/ Client!Completed \/ Client!Interrupted \/ Client!Ready)
    <3>1. Client!Refuses
      BY <1>1, <2>5 DEF Client!Looks
    <3> QED BY <2>1, <3>1, HandEnds, KeepReads
  <2> QED BY <2>2, <2>3, <2>4, <2>5
<1>2. CASE Client!ReadsBack
  <2>1. proc.pc \in Client!Moving /\ proc.pc = "readback" /\ Client!Reads
    BY <1>2 DEF Client!ReadsBack, Client!Moving
  <2>2. CASE Client!Installed
    <3>1. Client!Next5(TRUE)
      BY <1>2, <2>2 DEF Client!ReadsBack
    <3>2. ~Theirs(dir, StageAt(proc, dir)) /\ TokenAt(proc, dir).state # "new"
      BY <2>1, KeptNow DEF Hand
    <3>3. proc.n = 3 => dir.pending.key.state # "new"
      BY <3>2 DEF TokenAt
    <3> QED BY <2>1, <3>1, <3>2, <3>3, HandNext, KeepReads
  <2>3. CASE ~Client!Installed
    <3>1. Client!Refuses
      BY <1>2, <2>3 DEF Client!ReadsBack
    <3> QED BY <2>1, <3>1, HandEnds, KeepReads
  <2> QED BY <2>2, <2>3
<1>3. CASE Client!RollbackLooks
  <2>1. proc.pc \in Client!Moving /\ proc.pc = "rollback" /\ Client!Reads
    BY <1>3 DEF Client!RollbackLooks, Client!Moving
  <2>2. CASE Client!At("rollswap")
    <3>1. proc'.pc = "rollswap" /\ proc'.n = proc.n /\ proc'.changed = proc.changed
      BY <2>2, AtView
    <3>2. dir.pending.key.state # "new"
      BY <2>1, KeptNow DEF Hand
    <3>3. Hand(proc', dir)
      BY <2>1, <3>1, <3>2, HandStays DEF Hand, Client!Staging, Client!Moving
    <3> QED BY <2>1, <3>3, KeepReads
  <2>3. CASE Client!Ends
    BY <2>1, <2>3, HandEnds, KeepReads
  <2> QED BY <1>3, <2>2, <2>3 DEF Client!RollbackLooks
<1>4. CASE Client!MatchesAll
  <2>1. proc.pc = "match" /\ Client!Reads
    BY <1>4 DEF Client!MatchesAll
  <2>2. CASE Client!Ends
    BY <2>1, <2>2, HandEnds, KeepReads
  <2>3. ASSUME NEW pc \in {"sweepkey", "publish"}, Client!At(pc)
        PROVE  KeepInv'
    <3>1. proc'.pc = pc
      BY <2>3, AtView
    <3>2. ~Theirs(dir, dir.cstage) /\ ~Theirs(dir, dir.kstage)
      BY <2>1, KeptNow DEF Hand
    <3>3. Hand(proc', dir)
      BY <2>3, <3>1, <3>2 DEF Hand, Client!Staging, Client!Moving
    <3> QED BY <2>1, <3>3, KeepReads
  <2> QED BY <1>4, <2>2, <2>3 DEF Client!MatchesAll
<1>5. CASE Client!Checks
  <2>1. proc.pc \in Client!Moving /\ proc.pc = "check"
    BY <1>5 DEF Client!Checks, Client!Moving
  <2>2. TokenAt(proc, dir).state # "new"
        /\ (TokenAt(proc, dir).state = "absent" => Client!Stage = None)
    BY <2>1, KeptNow, RoleView DEF Hand
  <2>3. CASE Client!Installed /\ (Client!Tok.state = "old" => Client!Holding)
    <3>1. Client!At("readback") /\ Client!Synced(dir)
      BY <1>5, <2>3 DEF Client!Checks
    <3>2. proc'.pc = "readback" /\ proc'.n = proc.n /\ proc'.changed = proc.changed
      BY <3>1, AtView
    <3>3. TokenAt(proc, dir).state \in {"new", "old", "absent"}
      <4>1. dir.pending.config # None /\ dir.pending.phase = "publishing"
        BY <2>1, Past, KeptNow DEF Hand, Client!WellFormed, Client!Moving, Client!Asking
      <4>2. dir.pending.config.state \in {"old", "new"} /\ dir.pending.key.state \in {"absent", "old", "new"}
        BY <2>1, <4>1, Past DEF Client!WellFormed, Client!Moving, Client!Asking
      <4> QED BY <4>2 DEF TokenAt
    <3>4. ~Theirs(dir, StageAt(proc, dir))
      BY <2>1, <2>2, <2>3, <3>3, RoleView, DoneIsTidy
    <3>5. Hand(proc', dir)
      BY <2>1, <2>2, <3>2, <3>4, HandStays DEF Hand, Client!Staging, Client!Moving
    <3>6. dir' = dir /\ durable' = {dir}
      BY <3>1 DEF Client!Synced
    <3> QED BY <3>5, <3>6, KeptNow, KeepFrom
  <2>4. CASE ~(Client!Installed /\ (Client!Tok.state = "old" => Client!Holding))
    <3>1. Client!Reads /\ IF Client!Tok.state = "old" /\ Client!Dest # None THEN Client!At("inverse") ELSE Client!Refuses
      BY <1>5, <2>4 DEF Client!Checks
    <3>2. CASE Client!Tok.state = "old" /\ Client!At("inverse")
      <4>1. proc'.pc = "inverse" /\ proc'.n = proc.n /\ proc'.changed = proc.changed
        BY <3>2, AtView
      <4>2. Hand(proc', dir)
        BY <2>1, <2>2, <3>2, <4>1, HandStays, RoleView DEF Hand, Client!Staging, Client!Moving
      <4> QED BY <3>1, <4>2, KeepReads
    <3>3. CASE Client!Refuses
      BY <2>1, <3>1, <3>3, HandEnds, KeepReads
    <3> QED BY <3>1, <3>2, <3>3
  <2> QED BY <2>3, <2>4
<1> QED BY <1>1, <1>2, <1>3, <1>4, <1>5

(* A name and its stage exchange what they hold, in a role that is being   *)
(* published.                                                              *)
LEMMA ExchangeKept ==
  ASSUME DirInv, KeepInv, proc.pc \in Client!Moving, NEW role \in {"config", "key"},
         role = "key" => dir.pending.key.state # "new",
         role = "config" => dir.pending.config.state # "new",
         NEW d, d = Client!Exchanged(dir, role)
  PROVE  /\ Kept(d) /\ d.pending = dir.pending /\ d.theirs = dir.theirs
         /\ role = "key" => d.cstage = dir.cstage /\ d.kstage = dir.key
         /\ role = "config" => d.kstage = dir.kstage /\ d.cstage = dir.config
<1>1. dir.pending.phase = "publishing" /\ Kept(dir) /\ dir \in Client!Dirs
  BY KeptNow DEF Hand
<1>2. CASE role = "config"
  <2>1. /\ d.config = dir.cstage /\ d.cstage = dir.config /\ d.key = dir.key /\ d.kstage = dir.kstage
        /\ d.pending = dir.pending /\ d.theirs = dir.theirs
    BY <1>1, <1>2 DEF Client!Exchanged, Client!Dirs
  <2>2. Apart(d)
    BY <1>1, <2>1 DEF Kept, Apart, Distinct
  <2>3. Found(d)
    BY <1>1, <2>1 DEF Kept, Found
  <2>4. Tidy(d)
    BY <1>1, <1>2, <2>1 DEF Kept, Tidy, Theirs
  <2> QED BY <1>2, <2>1, <2>2, <2>3, <2>4 DEF Kept
<1>3. CASE role = "key"
  <2>1. /\ d.config = dir.config /\ d.cstage = dir.cstage /\ d.key = dir.kstage /\ d.kstage = dir.key
        /\ d.pending = dir.pending /\ d.theirs = dir.theirs
    BY <1>1, <1>3 DEF Client!Exchanged, Client!Dirs
  <2>2. Apart(d)
    BY <1>1, <2>1 DEF Kept, Apart, Distinct
  <2>3. Found(d)
    BY <1>1, <2>1 DEF Kept, Found
  <2>4. Tidy(d)
    BY <1>1, <1>3, <2>1 DEF Kept, Tidy, Theirs
  <2> QED BY <1>3, <2>1, <2>2, <2>3, <2>4 DEF Kept
<1> QED BY <1>2, <1>3

LEMMA KeepExchanges ==
  ASSUME Client!KeyClientAssumption, DirInv, KeepInv,
         Client!Compensates \/ Client!Swaps \/ Client!Inverts \/ Client!RollsBack
  PROVE  KeepInv'
<1>1. proc.pc \in {"compensate", "swap", "inverse", "rollswap"} /\ proc.pc \in Client!Moving
  BY DEF Client!Compensates, Client!Swaps, Client!Inverts, Client!RollsBack, Client!Moving
<1>2. Client!Role \in {"config", "key"}
  BY DEF Client!Role
<1>3. /\ proc.pc \in {"compensate", "swap", "inverse"} => TokenAt(proc, dir).state # "new"
      /\ proc.pc = "rollswap" => dir.pending.key.state # "new"
  BY KeptNow DEF Hand
<1>4. ASSUME NEW role \in {"config", "key"}, NEW d, d = Client!Exchanged(dir, role),
             role = "key" => dir.pending.key.state # "new",
             role = "config" => dir.pending.config.state # "new",
             Client!Synced(d) \/ Client!Moved(d), Client!Refuses \/ Client!Ends
      PROVE  KeepInv'
  <2>1. Kept(d) /\ d.pending = dir.pending
    BY <1>1, <1>4, ExchangeKept
  <2>2. Hand(proc', d)
    BY <1>1, <1>4, <2>1, HandEnds
  <2>3. dir' = d /\ durable' \subseteq durable \union {d}
    BY <1>4 DEF Client!Synced, Client!Moved
  <2> QED BY <2>1, <2>2, <2>3, KeepFrom
<1>5. ASSUME proc.pc \in {"compensate", "swap", "inverse"}
      PROVE  /\ Client!Role = "key" => dir.pending.key.state # "new"
             /\ Client!Role = "config" => dir.pending.config.state # "new"
  BY <1>3, <1>5 DEF Client!Role, TokenAt
<1>6. CASE Client!Compensates \/ Client!Inverts
  <2>1. Client!Refuses /\ proc.pc \in {"compensate", "inverse"}
        /\ \/ Client!Reads
           \/ Client!Synced(Client!Exchanged(dir, Client!Role))
           \/ Client!Moved(Client!Exchanged(dir, Client!Role))
    BY <1>6 DEF Client!Compensates, Client!Inverts
  <2>2. CASE Client!Reads
    BY <1>1, <2>1, <2>2, HandEnds, KeepReads
  <2>3. CASE ~Client!Reads
    BY <1>2, <1>4, <1>5, <2>1, <2>3
  <2> QED BY <2>2, <2>3
<1>7. CASE Client!Swaps
  <2>1. proc.pc = "swap"
    BY <1>7 DEF Client!Swaps
  <2>2. CASE (Client!Dest = None) # (Client!Tok.state = "absent")
    BY <1>1, <1>7, <2>2, HandEnds, KeepReads DEF Client!Swaps
  <2>3. CASE (Client!Dest = None) = (Client!Tok.state = "absent")
    <3> DEFINE d == Client!Exchanged(dir, Client!Role)
    <3>1. Client!At("check") /\ Client!Moved(d)
      BY <1>7, <2>3 DEF Client!Swaps
    <3>2. /\ Kept(d) /\ d.pending = dir.pending /\ d.theirs = dir.theirs
          /\ Client!Role = "key" => d.cstage = dir.cstage /\ d.kstage = dir.key
          /\ Client!Role = "config" => d.kstage = dir.kstage /\ d.cstage = dir.config
      BY <1>1, <1>2, <1>5, <2>1, ExchangeKept
    <3> HIDE DEF d
    <3>3. proc'.pc = "check" /\ proc'.n = proc.n /\ proc'.changed = proc.changed
      BY <3>1, AtView
    <3>4. TokenAt(proc', d) = TokenAt(proc, dir) /\ StageAt(proc', d) = Client!Dest
      BY <3>2, <3>3 DEF TokenAt, StageAt, Client!Dest, Client!Role
    <3>5. TokenAt(proc, dir).state = "absent" => Client!Dest = None
      BY <2>3, RoleView
    <3>6. proc.n = 5 => ~Theirs(d, d.cstage)
      BY <1>1, <3>2, <3>3, HandStays DEF Client!Role, Theirs
    <3>7. Hand(proc', d)
      BY <1>1, <1>3, <2>1, <3>2, <3>3, <3>4, <3>5, <3>6, HandStays
      DEF Hand, Client!Staging, Client!Moving
    <3>8. dir' = d /\ durable' \subseteq durable \union {d}
      BY <3>1 DEF Client!Moved
    <3> QED BY <3>2, <3>7, <3>8, KeepFrom
  <2> QED BY <2>2, <2>3
<1>8. CASE Client!RollsBack
  <2>1. Client!Ends /\ proc.pc = "rollswap"
        /\ \/ Client!Reads
           \/ Client!Synced(Client!Exchanged(dir, "key"))
           \/ Client!Moved(Client!Exchanged(dir, "key"))
    BY <1>8 DEF Client!RollsBack
  <2>2. CASE Client!Reads
    BY <2>1, <2>2, HandEnds, KeepReads
  <2>3. CASE ~Client!Reads
    BY <1>3, <1>4, <2>1, <2>3
  <2> QED BY <2>2, <2>3
<1> QED BY <1>6, <1>7, <1>8

(* Only the journal is written, and it keeps its baselines.                *)
LEMMA JournalKept ==
  ASSUME DirInv, KeepInv, NEW j, NEW d, d = [dir EXCEPT !.pending = j],
         j # None =>
           /\ dir.pending # None
           /\ j.base = dir.pending.base /\ j.prior = dir.pending.prior
           /\ j.phase # "publishing" \/ j.config.state = "new" => ~Theirs(dir, dir.cstage)
           /\ j.phase # "publishing" \/ j.key.state = "new" => ~Theirs(dir, dir.kstage)
  PROVE  /\ Kept(d) /\ d.pending = j /\ d.theirs = dir.theirs
         /\ d.cstage = dir.cstage /\ d.kstage = dir.kstage
<1>1. Kept(dir) /\ dir \in Client!Dirs
  BY KeptNow
<1>2. /\ d.config = dir.config /\ d.cstage = dir.cstage /\ d.key = dir.key /\ d.kstage = dir.kstage
      /\ d.theirs = dir.theirs /\ d.pending = j
  BY <1>1 DEF Client!Dirs
<1>3. Apart(d)
  BY <1>1, <1>2 DEF Kept, Apart
<1>4. Found(d)
  BY <1>1, <1>2 DEF Kept, Found
<1>5. Tidy(d)
  BY <1>2 DEF Tidy, Theirs
<1> QED BY <1>2, <1>3, <1>4, <1>5 DEF Kept

(* The command writes the journal it keeps under another phase.            *)
LEMMA KeepPhases ==
  ASSUME Client!KeyClientAssumption, DirInv, KeepInv,
         \/ Client!Marks \/ Client!Accepts \/ Client!Publishes
  PROVE  KeepInv'
<1>1. ASSUME NEW phase \in {"requesting", "accepted", "published"}, Client!Phased(phase),
             dir.pending \in Client!Journals, dir.pending # None,
             ~Theirs(dir, dir.cstage), ~Theirs(dir, dir.kstage),
             proc'.pc \in {"post", "stagekey", "sweepkey"}
      PROVE  KeepInv'
  <2> DEFINE j == [dir.pending EXCEPT !.phase = phase]
             d == [dir EXCEPT !.pending = j]
  <2>1. dir' = d /\ durable' = {d}
    BY <1>1 DEF Client!Phased, Client!Wrote, Client!Synced, Client!Journal
  <2>2. j.phase = phase /\ j.base = dir.pending.base /\ j.prior = dir.pending.prior
    BY <1>1 DEF Client!Journals
  <2> HIDE DEF j
  <2>3. /\ Kept(d) /\ d.pending = j /\ d.theirs = dir.theirs
        /\ d.cstage = dir.cstage /\ d.kstage = dir.kstage
    BY <1>1, <2>2, JournalKept
  <2> HIDE DEF d
  <2>4. Hand(proc', d)
    BY <1>1, <2>2, <2>3 DEF Hand, Theirs, Client!Staging, Client!Moving
  <2> QED BY <2>1, <2>3, <2>4, KeepFrom
<1>2. proc.pc # "idle" => dir.pending \in Client!Journals /\ dir.pending # None
  BY JournalTyped DEF DirInv, CommandInv, Client!Journal
<1>3. proc.pc # "idle" /\ dir.pending.phase # "publishing"
      => ~Theirs(dir, dir.cstage) /\ ~Theirs(dir, dir.kstage)
  BY <1>2, KeptNow DEF Kept, Tidy
<1>4. CASE Client!Marks
  <2>1. proc'.pc = "post" /\ Client!Phased("requesting") /\ proc.pc = "mark"
    BY <1>4, AtView DEF Client!Marks
  <2>2. dir.pending.phase # "publishing"
    BY <2>1, KeptNow DEF Hand
  <2> QED BY <1>1, <1>2, <1>3, <2>1, <2>2
<1>5. CASE Client!Accepts
  <2>1. CASE dir.pending.phase = "publishing"
    <3>1. Client!At("adopt") /\ Client!Reads
      BY <1>5, <2>1 DEF Client!Accepts, Client!Journal
    <3> QED BY <3>1, AtView, HandFree, KeepReads
  <2>2. CASE dir.pending.phase # "publishing"
    <3>1. Client!At("stagekey") /\ Client!Phased("accepted") /\ proc.pc = "accept"
      BY <1>5, <2>2 DEF Client!Accepts, Client!Journal
    <3> QED BY <1>1, <1>2, <1>3, <2>2, <3>1, AtView
  <2> QED BY <2>1, <2>2
<1>6. CASE Client!Publishes
  <2>1. proc'.pc = "sweepkey" /\ Client!Phased("published") /\ proc.pc = "publish"
    BY <1>6, AtView DEF Client!Publishes
  <2>2. ~Theirs(dir, dir.cstage) /\ ~Theirs(dir, dir.kstage)
    BY <2>1, KeptNow DEF Hand
  <2> QED BY <1>1, <1>2, <2>1, <2>2
<1> QED BY <1>4, <1>5, <1>6

(* The journal goes, to quarantine or for good, or a fresh one comes.      *)
LEMMA KeepEnds ==
  ASSUME Client!KeyClientAssumption, DirInv, KeepInv,
         Client!Quarantines \/ Client!Retires \/ Client!Begins
  PROVE  KeepInv'
<1>1. Kept(dir) /\ dir \in Client!Dirs
  BY KeptNow
<1>2. CASE Client!Quarantines \/ Client!Retires
  <2>1. /\ dir'.config = dir.config /\ dir'.key = dir.key /\ dir'.cstage = dir.cstage
        /\ dir'.kstage = dir.kstage /\ dir'.theirs = dir.theirs /\ dir'.pending = None
        /\ durable' = {dir'} /\ Client!Ends
    BY <1>1, <1>2 DEF Client!Quarantines, Client!Retires, Client!Synced, Client!Dirs
  <2>2. Kept(dir')
    BY <1>1, <2>1 DEF Kept, Apart, Found, Tidy
  <2> QED BY <2>1, <2>2, HandEnds, KeepFrom
<1>3. CASE Client!Begins
  <2>1. PICK s \in Client!Seeds :
          Client!Synced([dir EXCEPT !.theirs = {}, !.pending =
            [phase |-> "prepared", seed |-> s, base |-> Client!Data(dir.config),
             prior |-> Client!Data(dir.key), config |-> None, key |-> None]])
    BY <1>3 DEF Client!Begins
  <2>2. /\ dir'.config = dir.config /\ dir'.key = dir.key /\ dir'.cstage = dir.cstage
        /\ dir'.kstage = dir.kstage /\ dir'.theirs = {} /\ dir'.pending.phase = "prepared"
        /\ durable' = {dir'}
    BY <1>1, <2>1 DEF Client!Synced, Client!Dirs
  <2>3. Kept(dir')
    BY <1>1, <2>2 DEF Kept, Apart, Found, Tidy, Theirs
  <2>4. proc'.pc = "mark"
    BY <1>3, AtView DEF Client!Begins
  <2>5. Hand(proc', dir')
    BY <2>2, <2>4 DEF Hand, Client!Staging, Client!Moving
  <2> QED BY <2>2, <2>3, <2>5, KeepFrom
<1> QED BY <1>2, <1>3

(* The tokens of the two roles are taken, or taken again.                  *)
LEMMA KeepTokens ==
  ASSUME Client!KeyClientAssumption, DirInv, KeepInv, Client!Baselines \/ Client!Adopts
  PROVE  KeepInv'
<1>1. proc.pc \in {"baseline", "adopt"} /\ proc.pc \notin Client!Asking \union {"idle"}
  BY DEF Client!Baselines, Client!Adopts, Client!Asking
<1>2. dir.pending \in Client!Journals /\ dir.pending # None /\ Client!Journal = dir.pending
  BY <1>1, Past
<1>3. Kept(dir)
  BY KeptNow
<1>4. ASSUME NEW d, d.pending.phase = "publishing", Client!FirstLook PROVE Hand(proc', d)
  BY <1>4 DEF Hand, Client!FirstLook, Client!Staging, Client!Moving
<1>5. ASSUME NEW j, Client!Wrote(j), Client!FirstLook, j.phase = "publishing",
             j.base = dir.pending.base, j.prior = dir.pending.prior,
             j.config.state = "new" => ~Theirs(dir, dir.cstage),
             j.key.state = "new" => ~Theirs(dir, dir.kstage)
      PROVE  KeepInv'
  <2> DEFINE d == [dir EXCEPT !.pending = j]
  <2>1. Kept(d) /\ d.pending = j
    BY <1>2, <1>5, JournalKept
  <2>2. dir' = d /\ durable' = {d}
    BY <1>5 DEF Client!Wrote, Client!Synced
  <2> HIDE DEF d
  <2>3. Hand(proc', d)
    BY <1>4, <1>5, <2>1
  <2> QED BY <2>1, <2>2, <2>3, KeepFrom
<1>6. CASE Client!Baselines
  <2>1. CASE "drift" \in {Client!ConfigState, Client!KeyState}
    BY <1>6, <2>1, HandEnds, KeepReads DEF Client!Baselines
  <2>2. CASE "drift" \notin {Client!ConfigState, Client!KeyState}
    <3> DEFINE cj == Client!Token(Client!ConfigState, dir.cstage, dir.config)
               kj == Client!Token(Client!KeyState, dir.kstage, dir.key)
               j == [dir.pending EXCEPT !.phase = "publishing", !.config = cj, !.key = kj]
    <3>1. Client!Wrote(j) /\ Client!FirstLook
      BY <1>2, <1>6, <2>2 DEF Client!Baselines
    <3> HIDE DEF cj, kj
    <3>2. j.phase = "publishing" /\ j.base = dir.pending.base /\ j.prior = dir.pending.prior
      BY <1>2 DEF Client!Journals
    <3> HIDE DEF j
    <3>3. proc.pc = "baseline"
      BY <1>6 DEF Client!Baselines
    <3>4. dir.pending.phase # "publishing"
      BY <3>3, KeptNow DEF Hand, Client!Staging
    <3>5. ~Theirs(dir, dir.cstage) /\ ~Theirs(dir, dir.kstage)
      BY <1>2, <1>3, <3>4 DEF Kept, Tidy
    <3> QED BY <1>5, <3>1, <3>2, <3>5
  <2> QED BY <2>1, <2>2
<1>7. CASE Client!Adopts
  <2> DEFINE cj == Client!Readopted(dir.pending.config, dir.config, dir.cstage, dir.pending.base)
             kj == Client!Readopted(dir.pending.key, dir.key, dir.kstage, dir.pending.prior)
             j == [dir.pending EXCEPT !.config = cj, !.key = kj]
  <2>1. (Client!Reads \/ Client!Wrote(j)) /\ Client!FirstLook
    BY <1>2, <1>7 DEF Client!Adopts
  <2>2. dir.pending.phase = "publishing" /\ dir.pending.config # None
    BY <1>2, <1>7, Past, <1>1 DEF DirInv, CommandInv, PointInv, Client!Adopts, Client!WellFormed
  <2>3. dir.pending.config \in Client!Tokens /\ dir.pending.key \in Client!Tokens
    BY <1>1, <1>2, <2>2, Past DEF Client!Journals
  <2>4. cj.state = dir.pending.config.state /\ kj.state = dir.pending.key.state
    BY <2>3 DEF Client!Readopted, Client!Tokens
  <2> HIDE DEF cj, kj
  <2>5. /\ j.phase = "publishing" /\ j.base = dir.pending.base /\ j.prior = dir.pending.prior
        /\ j.config = cj /\ j.key = kj
    BY <1>2, <2>2 DEF Client!Journals
  <2> HIDE DEF j
  <2>6. /\ j.config.state = "new" => ~Theirs(dir, dir.cstage)
        /\ j.key.state = "new" => ~Theirs(dir, dir.kstage)
    BY <1>2, <1>3, <2>4, <2>5 DEF Kept, Tidy
  <2>7. Client!Reads => KeepInv'
    BY <1>4, <2>1, <2>2, KeepReads
  <2> QED BY <1>5, <2>1, <2>5, <2>6, <2>7
<1> QED BY <1>6, <1>7

LEMMA FileIsSome ==
  ASSUME Client!KeyClientAssumption, NEW i \in Nat \ {0},
         NEW data \in {Client!Foreign, Client!Torn}
  PROVE  LET f == Client!File(i, data) IN f # None /\ f.id = i /\ f.data = data
<1>1. Client!File(i, data) \in Client!Files
  BY DEF Client!File, Client!Files, Client!Contents
<1> QED BY <1>1 DEF Client!KeyClientAssumption, Client!File

(* A new inode is under no name, so it is no operator's file.              *)
LEMMA FreeIsNobodys ==
  ASSUME Client!KeyClientAssumption, DirInv, KeepInv, NEW i \in Client!FreeInodes
  PROVE  /\ i \in Nat \ {0} /\ i \notin dir.theirs
         /\ \A f \in {dir.config, dir.key, dir.cstage, dir.kstage} : f # None => f.id # i
<1>1. i \in Nat \ {0}
  BY DEF Client!FreeInodes, Client!KeyClientAssumption
<1>2. \A f \in {dir.config, dir.key, dir.cstage, dir.kstage} : f # None => f.id # i
  BY DEF Client!FreeInodes
<1>3. ASSUME i \in dir.theirs PROVE FALSE
  <2> DEFINE f == Client!File(i, Client!Foreign)
  <2>1. f # None /\ f.id = i
    BY <1>1, FileIsSome
  <2>2. f \in {dir.config, dir.key, dir.cstage, dir.kstage}
    BY <1>3, KeptNow DEF Kept, Found
  <2> HIDE DEF f
  <2> QED BY <1>2, <2>1, <2>2
<1> QED BY <1>1, <1>2, <1>3

(* The command fills a stage, or finds it filled.                          *)
LEMMA KeepStages ==
  ASSUME Client!KeyClientAssumption, DirInv, KeepInv,
         Client!StageFound \/ Client!StageOpened \/ Client!StageWritten
  PROVE  KeepInv'
<1>1. /\ Client!StageSteps =
           { [pc |-> "stagekey", write |-> "writekey", name |-> "kstage", next |-> "stageconfig"],
             [pc |-> "stageconfig", write |-> "writeconfig", name |-> "cstage", next |-> "baseline"] }
  BY DEF Client!StageSteps
<1>2. proc.pc \in {"stagekey", "stageconfig", "writekey", "writeconfig"}
  <2>1. \A st \in Client!StageSteps :
          {st.pc, st.write} \subseteq {"stagekey", "stageconfig", "writekey", "writeconfig"}
    BY <1>1
  <2>2. Client!StageOpened => \E st \in Client!StageSteps : proc.pc = st.pc
    BY DEF Client!StageOpened
  <2> QED BY <2>1, <2>2 DEF Client!StageFound, Client!StageWritten
<1>3. dir.pending.phase # "publishing" /\ Kept(dir) /\ dir \in Client!Dirs
  BY <1>2, KeptNow DEF Hand, Client!Staging
<1>4. dir.pending # None
  BY <1>2, Past DEF Client!Asking
<1>5. ASSUME NEW d, NEW c, d.pending.phase # "publishing", c.pc \in {"stageconfig", "baseline"}
      PROVE  Hand(c, d)
  BY <1>5 DEF Hand, Client!Staging, Client!Moving
<1>6. CASE Client!StageFound
  <2>1. PICK st \in Client!StageSteps :
          /\ IF Client!Data(dir[st.name]) = Client!Seed THEN Client!At(st.next) ELSE Client!Ends
          /\ Client!Reads
    BY <1>6 DEF Client!StageFound
  <2>2. CASE Client!At(st.next)
    <3>1. proc'.pc \in {"stageconfig", "baseline"}
      BY <1>1, <2>2, AtView
    <3> QED BY <1>3, <1>5, <2>1, <3>1, KeepReads
  <2>3. CASE Client!Ends
    BY <2>1, <2>3, HandEnds, KeepReads
  <2> QED BY <2>1, <2>2, <2>3
<1>7. CASE Client!StageOpened
  <2>1. PICK st \in Client!StageSteps, i \in Client!FreeInodes :
          /\ dir[st.name] = None /\ Client!At(st.write)
          /\ Client!Moved([dir EXCEPT ![st.name] = Client!File(i, Client!Torn)])
    BY <1>7 DEF Client!StageOpened
  <2> DEFINE f == Client!File(i, Client!Torn)
  <2>2. f # None /\ f.id = i /\ f.data = Client!Torn
    BY FreeIsNobodys, FileIsSome
  <2>3. i \notin dir.theirs
        /\ \A g \in {dir.config, dir.key, dir.cstage, dir.kstage} : g # None => g.id # i
    BY FreeIsNobodys
  <2>4. /\ dir' = [dir EXCEPT ![st.name] = f] /\ durable' = durable \union {dir'}
    BY <2>1 DEF Client!Moved
  <2> HIDE DEF f
  <2>5. /\ dir'.config = dir.config /\ dir'.key = dir.key /\ dir'.pending = dir.pending
        /\ dir'.theirs = dir.theirs
        /\ \/ dir'.cstage = dir.cstage /\ dir.kstage = None /\ dir'.kstage = f /\ proc'.pc = "writekey"
           \/ dir'.kstage = dir.kstage /\ dir.cstage = None /\ dir'.cstage = f /\ proc'.pc = "writeconfig"
    <3>1. CASE st.name = "kstage"
      <4>1. st.write = "writekey" /\ dir[st.name] = dir.kstage
        BY <1>1, <3>1
      <4> QED BY <1>3, <2>1, <2>4, <3>1, <4>1, AtView DEF Client!Dirs
    <3>2. CASE st.name = "cstage"
      <4>1. st.write = "writeconfig" /\ dir[st.name] = dir.cstage
        BY <1>1, <3>2
      <4> QED BY <1>3, <2>1, <2>4, <3>2, <4>1, AtView DEF Client!Dirs
    <3> QED BY <1>1, <3>1, <3>2
  <2>6. Apart(dir')
    BY <1>3, <2>2, <2>3, <2>5 DEF Kept, Apart, Distinct
  <2>7. Found(dir')
    <3>1. \A j \in dir.theirs : Client!File(j, Client!Foreign) # None
      BY <1>3, FileIsSome DEF Kept, Found, Client!Dirs
    <3> QED BY <1>3, <2>5, <3>1 DEF Kept, Found
  <2>8. Tidy(dir')
    BY <1>3, <2>2, <2>3, <2>5 DEF Kept, Tidy, Theirs
  <2>9. Hand(proc', dir')
    BY <1>3, <2>2, <2>5 DEF Hand, Client!Staging, Client!Moving
  <2> QED BY <2>4, <2>6, <2>7, <2>8, <2>9, KeepFrom DEF Kept
<1>8. CASE Client!StageWritten
  <2>1. PICK st \in Client!StageSteps :
          /\ proc.pc = st.write /\ Client!At(st.next)
          /\ Client!Synced([dir EXCEPT ![st.name].data = Client!Seed])
    BY <1>8 DEF Client!StageWritten
  <2>2. dir[st.name] # None /\ dir[st.name].data = Client!Torn /\ dir[st.name] \in Client!Files
        /\ proc'.pc \in {"stageconfig", "baseline"}
    <3>1. CASE st.name = "kstage"
      <4>1. proc.pc = "writekey" /\ dir[st.name] = dir.kstage /\ st.next = "stageconfig"
        BY <1>1, <2>1, <3>1
      <4> QED BY <1>3, <2>1, <4>1, AtView, KeptNow DEF Hand, Client!Dirs
    <3>2. CASE st.name = "cstage"
      <4>1. proc.pc = "writeconfig" /\ dir[st.name] = dir.cstage /\ st.next = "baseline"
        BY <1>1, <2>1, <3>2
      <4> QED BY <1>3, <2>1, <4>1, AtView, KeptNow DEF Hand, Client!Dirs
    <3> QED BY <1>1, <3>1, <3>2
  <2> DEFINE f == [dir[st.name] EXCEPT !.data = Client!Seed]
  <2>3. f.id = dir[st.name].id
    BY <2>2 DEF Client!Files
  <2>4. dir' = [dir EXCEPT ![st.name] = f] /\ durable' = {dir'}
    BY <2>1 DEF Client!Synced
  <2> HIDE DEF f
  <2>5. /\ dir'.config = dir.config /\ dir'.key = dir.key /\ dir'.pending = dir.pending
        /\ dir'.theirs = dir.theirs
        /\ \/ /\ dir'.cstage = dir.cstage /\ dir'.kstage = f /\ f.id = dir.kstage.id
              /\ dir.kstage # None /\ dir.kstage.data = Client!Torn
           \/ /\ dir'.kstage = dir.kstage /\ dir'.cstage = f /\ f.id = dir.cstage.id
              /\ dir.cstage # None /\ dir.cstage.data = Client!Torn
    <3>1. CASE st.name = "kstage"
      <4>1. dir[st.name] = dir.kstage
        BY <3>1
      <4> QED BY <1>3, <2>2, <2>3, <2>4, <3>1, <4>1 DEF Client!Dirs
    <3>2. CASE st.name = "cstage"
      <4>1. dir[st.name] = dir.cstage
        BY <3>2
      <4> QED BY <1>3, <2>2, <2>3, <2>4, <3>2, <4>1 DEF Client!Dirs
    <3> QED BY <1>1, <3>1, <3>2
  <2>6. Apart(dir')
    BY <1>3, <2>5 DEF Kept, Apart, Distinct
  <2>7. Found(dir')
    <3>1. \A j : Client!File(j, Client!Foreign).data # Client!Torn
      BY DEF Client!File, Client!Foreign, Client!Torn
    <3> QED BY <1>3, <2>5, <3>1 DEF Kept, Found
  <2>8. Tidy(dir')
    BY <1>3, <2>5 DEF Kept, Tidy, Theirs
  <2>9. Hand(proc', dir')
    BY <1>3, <1>5, <2>2, <2>5
  <2> QED BY <2>4, <2>6, <2>7, <2>8, <2>9, KeepFrom DEF Kept
<1> QED BY <1>6, <1>7, <1>8

(* A stage is unlinked when it holds no operator's file.                   *)
LEMMA KeepSweeps ==
  ASSUME Client!KeyClientAssumption, DirInv, KeepInv, Client!SweepsKey \/ Client!SweepsConfig
  PROVE  KeepInv'
<1>1. ~Theirs(dir, dir.cstage) /\ ~Theirs(dir, dir.kstage) /\ Kept(dir) /\ dir \in Client!Dirs
  BY KeptNow DEF Hand, Client!SweepsKey, Client!SweepsConfig
<1>2. \A j \in dir.theirs : /\ Client!File(j, Client!Foreign).id = j
                            /\ Client!File(j, Client!Foreign) # None
  BY <1>1, FileIsSome DEF Kept, Found, Client!Dirs
<1>3. \A j \in dir.theirs : Client!File(j, Client!Foreign) \notin {dir.cstage, dir.kstage}
  BY <1>1, <1>2 DEF Theirs
<1>4. /\ dir'.config = dir.config /\ dir'.key = dir.key /\ dir'.pending = dir.pending
      /\ dir'.theirs = dir.theirs /\ dir'.cstage \in {dir.cstage, None}
      /\ dir'.kstage \in {dir.kstage, None} /\ durable' = {dir'}
      /\ proc'.pc \in {"sweepconfig", "retire"}
  BY <1>1, AtView DEF Client!SweepsKey, Client!SweepsConfig, Client!Synced, Client!Dirs
<1>5. Apart(dir')
  BY <1>1, <1>4 DEF Kept, Apart, Distinct
<1>6. Found(dir')
  BY <1>1, <1>3, <1>4 DEF Kept, Found
<1>7. ~Theirs(dir', dir'.cstage) /\ ~Theirs(dir', dir'.kstage)
  BY <1>1, <1>4 DEF Theirs
<1>8. Tidy(dir') /\ Hand(proc', dir')
  BY <1>4, <1>7 DEF Tidy, Hand, Client!Staging, Client!Moving
<1> QED BY <1>4, <1>5, <1>6, <1>8, KeepFrom DEF Kept

(* The operator removes a file, or replaces it by one of a new inode.      *)
LEMMA EditKept ==
  ASSUME Client!KeyClientAssumption, DirInv, KeepInv, proc' = proc,
         NEW name \in {"config", "key"}, NEW i \in Client!FreeInodes, NEW file,
         file # None => file = Client!File(i, file.data),
         Client!Edited(name, file)
  PROVE  KeepInv'
<1>1. Kept(dir) /\ Hand(proc, dir) /\ dir \in Client!Dirs
  BY KeptNow
<1> DEFINE IdsOf(f) == IF f = None THEN {} ELSE {f.id}
           own == Client!Data(file) = Client!Foreign /\ Client!Baseline(name) # Client!Foreign
           left == (dir.theirs \ IdsOf(dir[name])) \union (IF own THEN IdsOf(file) ELSE {})
<1>2. dir' = [dir EXCEPT ![name] = file, !.theirs = left] /\ durable' = durable \union {dir'}
  BY <1>1 DEF Client!Edited, Client!Moved, Client!Dirs
<1>3. /\ i # 0 /\ i \notin dir.theirs
      /\ \A f \in {dir.config, dir.key, dir.cstage, dir.kstage} : f # None => f.id # i
  BY FreeIsNobodys
<1>4. file # None => file.id = i /\ Client!Data(file) = file.data
  BY DEF Client!File, Client!Data
<1>5. own => file # None /\ file = Client!File(i, Client!Foreign)
  BY <1>4 DEF Client!Data, Client!KeyClientAssumption, Client!Foreign
<1>6. \A j : j \in left <=>
         \/ j \in dir.theirs /\ (dir[name] # None => j # dir[name].id)
         \/ own /\ j = i
  BY <1>4, <1>5
<1> HIDE DEF left
<1>7. \A j \in dir.theirs : Client!File(j, Client!Foreign).id = j /\ Client!File(j, Client!Foreign) # None
  BY <1>1, FileIsSome DEF Kept, Found, Client!Dirs
<1>8. /\ dir'.pending = dir.pending /\ dir'.theirs = left
      /\ dir'.cstage = dir.cstage /\ dir'.kstage = dir.kstage
      /\ \/ name = "config" /\ dir'.config = file /\ dir'.key = dir.key /\ dir[name] = dir.config
         \/ name = "key" /\ dir'.key = file /\ dir'.config = dir.config /\ dir[name] = dir.key
  BY <1>1, <1>2 DEF Client!Dirs
<1>9. Client!Journal = dir.pending
  BY DEF Client!Journal
<1>10. own => /\ name = "config" /\ dir.pending # None => dir.pending.base # Client!Foreign
              /\ name = "key" /\ dir.pending # None => dir.pending.prior # Client!Foreign
  BY <1>9 DEF Client!Baseline
<1> HIDE DEF own
<1>11. Apart(dir')
  BY <1>1, <1>3, <1>4, <1>8 DEF Kept, Apart, Distinct
<1>12. Found(dir')
  <2> SUFFICES ASSUME NEW j \in left
               PROVE  /\ j # 0
                      /\ \/ /\ Client!File(j, Client!Foreign) \in {dir'.config, dir'.cstage}
                            /\ dir.pending # None => dir.pending.base # Client!Foreign
                         \/ /\ Client!File(j, Client!Foreign) \in {dir'.key, dir'.kstage}
                            /\ dir.pending # None => dir.pending.prior # Client!Foreign
    BY <1>8 DEF Found
  <2>1. CASE own /\ j = i
    BY <1>3, <1>5, <1>8, <1>10, <2>1
  <2>2. CASE j \in dir.theirs /\ (dir[name] # None => j # dir[name].id)
    <3>1. Client!File(j, Client!Foreign) # dir[name]
      BY <1>7, <2>2
    <3> QED BY <1>1, <1>8, <2>2, <3>1 DEF Kept, Found
  <2> QED BY <1>6, <2>1, <2>2
<1>13. /\ Theirs(dir', dir'.cstage) => Theirs(dir, dir.cstage)
       /\ Theirs(dir', dir'.kstage) => Theirs(dir, dir.kstage)
  BY <1>3, <1>6, <1>8 DEF Theirs
<1>14. Tidy(dir')
  BY <1>1, <1>8, <1>13 DEF Kept, Tidy
<1>15. Hand(proc', dir')
  <2>1. TokenAt(proc, dir') = TokenAt(proc, dir) /\ StageAt(proc, dir') = StageAt(proc, dir)
    BY <1>8 DEF TokenAt, StageAt
  <2>2. Theirs(dir', StageAt(proc, dir')) => Theirs(dir, StageAt(proc, dir))
    BY <1>13 DEF StageAt
  <2> QED BY <1>1, <1>8, <1>13, <2>1, <2>2 DEF Hand, Client!Staging, Client!Moving
<1> QED BY <1>2, <1>11, <1>12, <1>14, <1>15, KeepFrom DEF Kept

LEMMA KeepEdits ==
  ASSUME Client!KeyClientAssumption, DirInv, KeepInv, Client!OperatorEdits
  PROVE  KeepInv'
<1>1. PICK i \in Client!FreeInodes :
        \/ Client!Edited("config", Client!File(i, Client!Foreign))
        \/ Client!Edited("key", Client!File(i, Client!Foreign))
        \/ dir.key # None /\ Client!Edited("key", None)
        \/ dir.pending # None /\ Client!Edited("config", Client!File(i, dir.pending.base))
        \/ /\ dir.pending # None /\ dir.pending.prior # None
           /\ Client!Edited("key", Client!File(i, dir.pending.prior))
  BY DEF Client!OperatorEdits, Client!Journal
<1>2. proc' = proc
  BY DEF Client!OperatorEdits
<1>3. ASSUME NEW name \in {"config", "key"}, NEW data, Client!Edited(name, Client!File(i, data))
      PROVE  KeepInv'
  <2>1. Client!File(i, data).data = data
    BY DEF Client!File
  <2> QED BY <1>2, <1>3, <2>1, EditKept
<1>4. ASSUME NEW name \in {"config", "key"}, NEW file, file = None, Client!Edited(name, file)
      PROVE  KeepInv'
  BY <1>2, <1>4, EditKept
<1> QED BY <1>1, <1>3, <1>4

LEMMA KeepPower ==
  ASSUME DirInv, KeepInv, Client!PowerLoss
  PROVE  KeepInv'
<1>1. dir' \in durable /\ durable' = {dir'} /\ proc'.pc = "idle"
  BY DEF Client!PowerLoss, Client!Idle
<1>2. Kept(dir')
  BY <1>1 DEF KeepInv
<1> QED BY <1>1, <1>2, HandFree, KeepFrom

LEMMA KeepStep ==
  ASSUME Client!KeyClientAssumption, DirInv, KeepInv, [Client!Next]_Client!vars
  PROVE  KeepInv'
<1>1. ASSUME UNCHANGED Client!vars PROVE KeepInv'
  BY <1>1, KeptNow, KeepReads DEF Client!vars, Client!Reads
<1> QED
  BY <1>1, KeepAsks, KeepLooks, KeepExchanges, KeepPhases, KeepEnds, KeepTokens, KeepStages,
     KeepSweeps, KeepEdits, KeepPower
  DEF Client!Next, Client!Command

LEMMA KeptIsForeignKept == ASSUME DirInv, KeepInv PROVE Client!ForeignKept
<1> QED BY KeptNow DEF KeepInv, Kept, Found, Client!ForeignKept, Client!Images

(* What the operator puts in place while a registration is pending stays   *)
(* under one of the names: no rename, rollback or sweep of the transaction *)
(* overwrites or unlinks it, in any image a power loss may leave.          *)
THEOREM OperatorsFilesAreKept ==
  ASSUME Client!KeyClientAssumption
  PROVE  Client!Spec => []Client!ForeignKept
<1>1. DirInv /\ KeepInv /\ [Client!Next]_Client!vars => DirInv' /\ KeepInv'
  BY DirStep, KeepStep
<1>2. Client!Init => DirInv /\ KeepInv
  BY DirInit, KeepInit
<1>3. DirInv /\ KeepInv => Client!ForeignKept
  BY KeptIsForeignKept
<1> QED BY <1>1, <1>2, <1>3, PTL DEF Client!Spec
=============================================================================
