--------------------------- MODULE RequestsProofs ---------------------------
(***************************************************************************)
(* Requests for every set of commands, every clock and every cap: a nonce  *)
(* is used once while it lives, and a command takes effect once.           *)
(***************************************************************************)
EXTENDS Requests, TLAPS

RequestSet == [cmd: Commands, try: Nat, serial: Serials, ts: Nat, key: Nat]
RunSet == [pc: {"idle", "waiting", "ok", "refused", "unknown"},
           try: Nat, serial: Serials \union {0}, ts: Nat, key: Nat]
HandlerSet == [pc: {"body", "checked", "do"}, req: RequestSet, key: Nat]

Types ==
  /\ now \in Nat /\ key \in Nat /\ made \in 0..MaxSerial
  /\ run \in [Commands -> RunSet]
  /\ \A c \in Commands : run[c].serial = 0 => run[c] = NotRun
  /\ wire \subseteq RequestSet /\ handlers \subseteq HandlerSet
  /\ store \subseteq [serial: Serials, exp: Nat]
  /\ effects \in [Commands -> Nat]
  /\ live \in [Serials -> Nat] /\ late \subseteq Serials

(* What was signed and may still count: by a client that may send it       *)
(* again, under way, or being handled.                                     *)
Signature(c, r) == [cmd |-> c, serial |-> r.serial, ts |-> r.ts]
Held == {Signature(c, run[c]) : c \in {d \in Commands : run[d].serial # 0}}
Underway == {Signature(r.cmd, r) : r \in wire}
Handled == {Signature(h.req.cmd, h.req) : h \in handlers}
Issued == Held \union Underway \union Handled

(* A nonce belongs to one signature, and none is known before it is made.  *)
NoncesAreOwn ==
  /\ \A a \in Issued : a.serial <= made
  /\ \A a, b \in Issued : a.serial = b.serial => a = b
  /\ \A s \in Serials : s > made => live[s] = 0 /\ s \notin late

(* A nonce that was used and still lives is in the store.                  *)
Remembered ==
  \A a \in Issued :
    live[a.serial] > 0 /\ now < a.ts + Ttl =>
      [serial |-> a.serial, exp |-> a.ts + Ttl] \in store

NonceInv == Types /\ NoncesAreOwn /\ Remembered /\ LiveNonceOnce

(* The command line signs a command once, so what of it is under way bears *)
(* its nonce; a mint of the library is sent once, so there is one of it at *)
(* most, and none after it had its effect.                                 *)
SignedOnce(c) ==
  /\ \A r \in wire : r.cmd = c => r.serial = run[c].serial
  /\ \A h \in handlers : h.req.cmd = c => h.req.serial = run[c].serial
Doing(c) == {h \in handlers : h.req.cmd = c /\ h.pc = "do"}
Sent(c) == {r \in wire : r.cmd = c}
Taken(c) == {h \in handlers : h.req.cmd = c}
SentOnce(c) ==
  /\ \A x, y \in Sent(c) : x = y
  /\ \A x, y \in Taken(c) : x = y
  /\ Sent(c) = {} \/ Taken(c) = {}
  /\ run[c] = NotRun => effects[c] = 0
  /\ run[c] = NotRun \/ effects[c] > 0 => Sent(c) = {} /\ Taken(c) = {}

(* While no late use of its nonce spoils it, a signed mint is carried out  *)
(* once for its one recorded use, and that one is either done or under way.*)
OneUseOneEffect(c) ==
  LET s == run[c].serial IN
  s \notin late =>
    /\ effects[c] <= 1
    /\ s = 0 \/ live[s] = 0 => effects[c] = 0 /\ Doing(c) = {}
    /\ \A g, h \in Doing(c) : g = h
    /\ Doing(c) # {} => effects[c] = 0

EffectInv ==
  /\ \A c \in Commands : c.by = "cli" => SignedOnce(c)
  /\ \A c \in Commands : c.op = "send" => effects[c] <= 1
  /\ \A c \in Commands : c.op = "mint" /\ c.by = "lib" => SentOnce(c) /\ effects[c] <= 1
  /\ \A c \in Commands : c.op = "mint" /\ c.by = "cli" => OneUseOneEffect(c)

-----------------------------------------------------------------------------
(* Types.                                                                  *)

(* An answer changes how far a run is, and nothing else of it.             *)
LEMMA AnswerKeeps ==
  ASSUME Types, NEW r, NEW out \in {"refused", "ok"}, Answers(r, out)
  PROVE  /\ run' \in [Commands -> RunSet]
         /\ \A c \in Commands : run'[c].serial = run[c].serial
         /\ \A c \in Commands : run'[c].ts = run[c].ts
         /\ \A c \in Commands : run'[c] = NotRun <=> run[c] = NotRun
<1>1. CASE UNCHANGED run
  BY <1>1 DEF Types
<1>2. CASE /\ r.cmd \in Commands /\ run[r.cmd].pc = "waiting"
           /\ run' = [run EXCEPT ![r.cmd].pc = out]
  <2>1. [run[r.cmd] EXCEPT !.pc = out] \in RunSet
    BY <1>2 DEF Types, RunSet
  <2>2. [run[r.cmd] EXCEPT !.pc = out].pc # NotRun.pc /\ run[r.cmd] # NotRun
    BY <1>2 DEF Types, RunSet, NotRun
  <2>3. ASSUME NEW c \in Commands
        PROVE  run'[c] = IF c = r.cmd THEN [run[c] EXCEPT !.pc = out] ELSE run[c]
    BY <1>2 DEF Types
  <2>4. run' \in [Commands -> RunSet]
    BY <1>2, <2>1 DEF Types
  <2>5. [run[r.cmd] EXCEPT !.pc = out].serial = run[r.cmd].serial
    /\ [run[r.cmd] EXCEPT !.pc = out].ts = run[r.cmd].ts
    BY <1>2 DEF Types, RunSet
  <2> QED BY <1>2, <2>2, <2>3, <2>4, <2>5
<1> QED BY <1>1, <1>2 DEF Answers

LEMMA TypesStep ==
  ASSUME Types, [Next]_vars
  PROVE  Types'
<1> USE RequestsAssumption DEF history
<1>0. made < MaxSerial => made + 1 \in Serials /\ made + 1 \in 0..MaxSerial
  BY DEF Types, Serials
<1>a. run \in [Commands -> RunSet] /\ \A c \in Commands : run[c].serial = 0 => run[c] = NotRun
  BY DEF Types
<1>1. ASSUME NEW c \in Commands, NEW d \in Drift, made < MaxSerial,
             Sends(c, [Signed(c, 1) EXCEPT !.ts = @ + d])
      PROVE  /\ run' \in [Commands -> RunSet] /\ wire' \subseteq RequestSet
             /\ \A b \in Commands : run'[b].serial = 0 => run'[b] = NotRun
  <2>1. [Signed(c, 1) EXCEPT !.ts = @ + d] \in RunSet
    <3>1. now + d \in Nat /\ key \in Nat
      BY DEF Types
    <3> QED BY <1>0, <1>1, <3>1 DEF Signed, RunSet
  <2>2. Request(c, [Signed(c, 1) EXCEPT !.ts = @ + d]) \in RequestSet
    <3>1. now + d \in Nat /\ key \in Nat
      BY DEF Types
    <3> QED BY <1>0, <1>1, <3>1 DEF Signed, Request, RequestSet
  <2>3. [Signed(c, 1) EXCEPT !.ts = @ + d].serial # 0
    BY DEF Signed, Types
  <2> QED BY <1>1, <2>1, <2>2, <2>3 DEF Sends, Types
<1>2. CASE \E c \in Commands : Starts(c)
  BY <1>0, <1>1, <1>2 DEF Starts, Types
<1>3. ASSUME NEW c \in Commands, Retries(c) PROVE Types'
  <2>1. CASE c.by = "cli" /\ Sends(c, [run[c] EXCEPT !.try = @ + 1]) /\ UNCHANGED made
    <3>1. run[c] \in RunSet
      BY DEF Types
    <3>2. [run[c] EXCEPT !.try = @ + 1] \in RunSet
      BY <3>1 DEF RunSet
    <3>3. run[c].serial \in Serials
      BY <1>3, <3>1 DEF Retries, Types, NotRun, RunSet
    <3>4. Request(c, [run[c] EXCEPT !.try = @ + 1]) \in RequestSet
      BY <3>1, <3>3 DEF Request, RequestSet, RunSet
    <3> QED
      <4>1. run'[c] = [run[c] EXCEPT !.try = @ + 1] /\ run[c].serial # 0
        BY <2>1, <3>3 DEF Sends, Types, Serials
      <4>2. [run[c] EXCEPT !.try = @ + 1].serial = run[c].serial
        BY <3>1 DEF RunSet
      <4> QED BY <1>3, <2>1, <3>2, <3>4, <4>1, <4>2 DEF Retries, Sends, Types
  <2>2. CASE made < MaxSerial /\ Sends(c, Signed(c, run[c].try + 1)) /\ made' = made + 1
    <3>1. run[c].try + 1 \in Nat /\ now \in Nat /\ key \in Nat
      BY DEF Types, RunSet
    <3>2. Signed(c, run[c].try + 1) \in RunSet
      BY <1>0, <2>2, <3>1 DEF RunSet, Signed
    <3>3. Request(c, Signed(c, run[c].try + 1)) \in RequestSet
      BY <1>0, <2>2, <3>1 DEF Request, RequestSet, Signed
    <3>4. Signed(c, run[c].try + 1).serial # 0
      BY DEF Signed, Types
    <3> QED BY <1>0, <1>3, <2>2, <3>2, <3>3, <3>4 DEF Retries, Sends, Types
  <2> QED BY <1>3, <2>1, <2>2 DEF Retries
<1>4. ASSUME NEW c \in Commands, GivesUp(c) PROVE Types'
  <2>1. [run[c] EXCEPT !.pc = "unknown"] \in RunSet
    BY DEF RunSet, Types
  <2>2. [run[c] EXCEPT !.pc = "unknown"].serial # 0
    BY <1>4 DEF GivesUp, Types, NotRun, RunSet
  <2> QED BY <1>4, <2>1, <2>2 DEF GivesUp, Types
<1>5. ASSUME NEW r \in wire, Arrives(r) PROVE Types'
  <2>1. r \in RequestSet
    BY DEF Types
  <2>2. [pc |-> "do", req |-> r, key |-> 0] \in HandlerSet
    /\ [pc |-> "body", req |-> r, key |-> key] \in HandlerSet
    BY <2>1 DEF HandlerSet, Types
  <2>3. run' \in [Commands -> RunSet] /\ \A c \in Commands : run'[c].serial = 0 => run'[c] = NotRun
    <3>1. UNCHANGED run \/ Answers(r, "refused")
      BY <1>5 DEF Arrives
    <3>2. CASE Answers(r, "refused")
      <4>1. /\ run' \in [Commands -> RunSet]
            /\ \A c \in Commands : run'[c].serial = run[c].serial /\ (run'[c] = NotRun <=> run[c] = NotRun)
        BY <3>2, AnswerKeeps DEF Answers
      <4> QED BY <4>1, <1>a
    <3> QED BY <3>1, <3>2, <1>a
  <2> QED BY <1>5, <2>2, <2>3 DEF Arrives, Types
<1>6. ASSUME NEW h \in handlers, NEW pc \in {"checked", "do"}
      PROVE  [h EXCEPT !.pc = pc] \in HandlerSet
  BY DEF Types, HandlerSet
<1>7. ASSUME NEW h \in handlers, Verifies(h) PROVE Types'
  <2>1. run' \in [Commands -> RunSet] /\ \A c \in Commands : run'[c].serial = 0 => run'[c] = NotRun
    <3>1. UNCHANGED run \/ Answers(h.req, "refused")
      BY <1>7 DEF Verifies
    <3>2. CASE Answers(h.req, "refused")
      <4>1. /\ run' \in [Commands -> RunSet]
            /\ \A c \in Commands : run'[c].serial = run[c].serial /\ (run'[c] = NotRun <=> run[c] = NotRun)
        BY <3>2, AnswerKeeps DEF Answers
      <4> QED BY <4>1, <1>a
    <3> QED BY <3>1, <3>2, <1>a
  <2>2. handlers' \subseteq HandlerSet
    BY <1>6, <1>7 DEF Verifies, To, Ends, Types
  <2> QED BY <1>7, <2>1, <2>2 DEF Verifies, Types
<1>8. ASSUME NEW h \in handlers, Records(h) PROVE Types'
  <2>1. run' \in [Commands -> RunSet] /\ \A c \in Commands : run'[c].serial = 0 => run'[c] = NotRun
    <3>1. UNCHANGED run \/ Answers(h.req, "refused")
      BY <1>8 DEF Records
    <3>2. CASE Answers(h.req, "refused")
      <4>1. /\ run' \in [Commands -> RunSet]
            /\ \A c \in Commands : run'[c].serial = run[c].serial /\ (run'[c] = NotRun <=> run[c] = NotRun)
        BY <3>2, AnswerKeeps DEF Answers
      <4> QED BY <4>1, <1>a
    <3> QED BY <3>1, <3>2, <1>a
  <2>2. handlers' \subseteq HandlerSet
    <3>1. To(h, "do") \/ Ends(h)
      BY <1>8 DEF Records
    <3> QED BY <1>6, <3>1 DEF To, Ends, Types
  <2>3. h.req.serial \in Serials /\ h.req.ts + Ttl \in Nat
    BY DEF Types, HandlerSet, RequestSet
  <2>4. store' \subseteq [serial: Serials, exp: Nat]
    BY <1>8, <2>3 DEF Records, Row, Expired, Types
  <2>5. live' \in [Serials -> Nat] /\ late' \subseteq Serials
    <3>1. \/ live' = [live EXCEPT ![h.req.serial] = @ + 1] /\ late' = late
          \/ late' = late \union {h.req.serial} /\ live' = live
          \/ live' = live /\ late' = late
      BY <1>8 DEF Records
    <3> QED BY <2>3, <3>1 DEF Types
  <2> QED BY <1>8, <2>1, <2>2, <2>4, <2>5 DEF Records, Types
<1>9. ASSUME NEW h \in handlers, Performs(h) PROVE Types'
  <2>1. run' \in [Commands -> RunSet] /\ \A c \in Commands : run'[c].serial = 0 => run'[c] = NotRun
    <3>1. UNCHANGED run \/ Answers(h.req, "ok")
      BY <1>9 DEF Performs
    <3>2. CASE Answers(h.req, "ok")
      <4>1. /\ run' \in [Commands -> RunSet]
            /\ \A c \in Commands : run'[c].serial = run[c].serial /\ (run'[c] = NotRun <=> run[c] = NotRun)
        BY <3>2, AnswerKeeps DEF Answers
      <4> QED BY <4>1, <1>a
    <3> QED BY <3>1, <3>2, <1>a
  <2>2. effects' \in [Commands -> Nat]
    <3>1. PICK n \in {effects[h.req.cmd] + 1, effects[h.req.cmd]} :
             effects' = [effects EXCEPT ![h.req.cmd] = n]
      BY <1>9 DEF Performs
    <3>2. h.req.cmd \in Commands
      BY DEF Types, HandlerSet, RequestSet
    <3> QED BY <3>1, <3>2 DEF Types
  <2> QED BY <1>9, <2>1, <2>2 DEF Performs, Ends, Types
<1>10. CASE Rotates
  <2>1. [serial |-> made + 1, exp |-> now + Ttl] \in [serial: Serials, exp: Nat]
    BY <1>0, <1>10 DEF Rotates, Types
  <2>2. live' \in [Serials -> Nat]
    BY <1>0, <1>10 DEF Rotates, Types
  <2> QED BY <1>0, <1>10, <2>1, <2>2 DEF Rotates, Types
<1>11. CASE Sweeps
  BY <1>11 DEF Sweeps, Types
<1>12. CASE Restarts
  BY <1>12 DEF Restarts, Types
<1>13. CASE Tick
  BY <1>13 DEF Tick, Types
<1>14. CASE UNCHANGED vars
  BY <1>14 DEF vars, Types
<1> QED
  BY <1>2, <1>3, <1>4, <1>5, <1>7, <1>8, <1>9, <1>10, <1>11, <1>12, <1>13, <1>14 DEF Next

-----------------------------------------------------------------------------
(* Signatures: a step passes them on, or signs once more with the next     *)
(* nonce.                                                                  *)

LEMMA IssuedTyped ==
  ASSUME Types
  PROVE  \A a \in Issued : a.serial \in Serials /\ a.ts \in Nat
<1>1. \A a \in Held : a.serial \in Serials /\ a.ts \in Nat
  BY DEF Held, Signature, Types, RunSet
<1>2. \A a \in Underway : a.serial \in Serials /\ a.ts \in Nat
  BY DEF Underway, Signature, Types, RequestSet
<1>3. \A a \in Handled : a.serial \in Serials /\ a.ts \in Nat
  BY DEF Handled, Signature, Types, RequestSet, HandlerSet
<1> QED BY <1>1, <1>2, <1>3 DEF Issued

LEMMA SendsSigns ==
  ASSUME Types, NEW c \in Commands, NEW r \in RunSet, Sends(c, r), UNCHANGED handlers
  PROVE  Issued' \subseteq Issued \union {Signature(c, r)}
<1>1. run' = [run EXCEPT ![c] = r] /\ wire' = wire \union {Request(c, r)}
  BY DEF Sends
<1>2. Request(c, r).cmd = c /\ Signature(c, Request(c, r)) = Signature(c, r)
  BY DEF Request, Signature
<1>3. ASSUME NEW d \in Commands
      PROVE  run'[d] = IF d = c THEN r ELSE run[d]
  BY <1>1 DEF Types
<1>4. Held' \subseteq Held \union {Signature(c, r)}
  BY <1>3 DEF Held
<1>5. Underway' \subseteq Underway \union {Signature(c, r)}
  BY <1>1, <1>2 DEF Underway
<1>6. Handled' = Handled
  BY DEF Handled
<1> QED BY <1>4, <1>5, <1>6 DEF Issued

LEMMA HeldKept ==
  ASSUME Types, NEW r, NEW out \in {"refused", "ok"}, UNCHANGED run \/ Answers(r, out)
  PROVE  Held' \subseteq Held
<1>1. CASE UNCHANGED run
  BY <1>1 DEF Held
<1>2. CASE Answers(r, out)
  <2>1. \A c \in Commands : run'[c].serial = run[c].serial
    BY <1>2, AnswerKeeps
  <2>2. \A c \in Commands : run'[c].ts = run[c].ts
    BY <1>2, AnswerKeeps
  <2>3. \A c \in Commands : Signature(c, run'[c]) = Signature(c, run[c])
    BY <2>1, <2>2 DEF Signature
  <2> QED BY <2>1, <2>3 DEF Held
<1> QED BY <1>1, <1>2

LEMMA HandlerMoves ==
  ASSUME Types, NEW h \in handlers, NEW pc \in {"checked", "do"}, To(h, pc) \/ Ends(h)
  PROVE  Handled' \subseteq Handled
<1>1. CASE To(h, pc)
  <2>1. [h EXCEPT !.pc = pc].req = h.req
    BY DEF Types, HandlerSet
  <2> QED BY <1>1, <2>1 DEF To, Handled
<1>2. CASE Ends(h)
  BY <1>2 DEF Ends, Handled
<1> QED BY <1>1, <1>2

LEMMA IssuedStep ==
  ASSUME Types, [Next]_vars
  PROVE  \/ made' = made /\ Issued' \subseteq Issued
         \/ /\ made' = made + 1 /\ made < MaxSerial /\ UNCHANGED <<now, store, live, late>>
            /\ \E a : a.serial = made + 1 /\ Issued' \subseteq Issued \union {a}
         \/ Rotates /\ Issued' \subseteq Issued
<1> USE RequestsAssumption DEF history
<1>1. ASSUME NEW c \in Commands, Starts(c)
      PROVE  /\ made' = made + 1 /\ made < MaxSerial /\ UNCHANGED <<now, store, live, late>>
             /\ \E a : a.serial = made + 1 /\ Issued' \subseteq Issued \union {a}
  <2>1. PICK d \in Drift : Sends(c, [Signed(c, 1) EXCEPT !.ts = @ + d])
    BY <1>1 DEF Starts
  <2> DEFINE r == [Signed(c, 1) EXCEPT !.ts = @ + d]
  <2>2. r \in RunSet /\ r.serial = made + 1
    <3>1. now + d \in Nat /\ key \in Nat /\ made + 1 \in Serials
      BY <1>1 DEF Starts, Types, Serials
    <3> QED BY <3>1 DEF Signed, RunSet
  <2> HIDE DEF r
  <2>3. Signature(c, r).serial = made + 1
    BY <2>2 DEF Signature
  <2>4. Issued' \subseteq Issued \union {Signature(c, r)}
    BY <1>1, <2>1, <2>2, SendsSigns DEF Starts, r
  <2> QED BY <1>1, <2>3, <2>4 DEF Starts
<1>2. ASSUME NEW c \in Commands, Retries(c)
      PROVE  \/ made' = made /\ Issued' \subseteq Issued
             \/ /\ made' = made + 1 /\ made < MaxSerial /\ UNCHANGED <<now, store, live, late>>
                /\ \E a : a.serial = made + 1 /\ Issued' \subseteq Issued \union {a}
  <2>1. CASE Sends(c, [run[c] EXCEPT !.try = @ + 1]) /\ UNCHANGED made
    <3> DEFINE r == [run[c] EXCEPT !.try = @ + 1]
    <3>1. r \in RunSet /\ r.serial = run[c].serial /\ r.ts = run[c].ts
      BY DEF Types, RunSet
    <3> HIDE DEF r
    <3>2. Signature(c, r) \in Held
      <4>1. Signature(c, r) = Signature(c, run[c])
        BY <3>1 DEF Signature
      <4>2. run[c].serial # 0
        BY <1>2 DEF Retries, Types, NotRun
      <4> QED BY <4>1, <4>2 DEF Held
    <3>3. Issued' \subseteq Issued \union {Signature(c, r)}
      BY <1>2, <2>1, <3>1, SendsSigns DEF Retries, r
    <3> QED BY <2>1, <3>2, <3>3 DEF Issued
  <2>2. CASE made < MaxSerial /\ Sends(c, Signed(c, run[c].try + 1)) /\ made' = made + 1
    <3> DEFINE r == Signed(c, run[c].try + 1)
    <3>1. run[c].try + 1 \in Nat /\ made + 1 \in Serials /\ now \in Nat /\ key \in Nat
      BY <2>2 DEF Types, RunSet, Serials
    <3>2. r \in RunSet /\ r.serial = made + 1
      BY <3>1 DEF Signed, RunSet
    <3> HIDE DEF r
    <3>3. Issued' \subseteq Issued \union {Signature(c, r)}
      BY <1>2, <2>2, <3>2, SendsSigns DEF Retries, r
    <3>4. Signature(c, r).serial = made + 1
      BY <3>2 DEF Signature
    <3> QED BY <1>2, <2>2, <3>3, <3>4 DEF Retries
  <2> QED BY <1>2, <2>1, <2>2 DEF Retries
<1>3. ASSUME NEW c \in Commands, GivesUp(c) PROVE made' = made /\ Issued' \subseteq Issued
  <2>1. [run[c] EXCEPT !.pc = "unknown"].serial = run[c].serial
        /\ [run[c] EXCEPT !.pc = "unknown"].ts = run[c].ts
    BY DEF Types, RunSet
  <2>2. \A d \in Commands : run'[d] = IF d = c THEN [run[c] EXCEPT !.pc = "unknown"] ELSE run[d]
    BY <1>3 DEF GivesUp, Types
  <2>3. \A d \in Commands : run'[d].serial = run[d].serial
    BY <2>1, <2>2
  <2>4. \A d \in Commands : Signature(d, run'[d]) = Signature(d, run[d])
    BY <2>1, <2>2 DEF Signature
  <2>5. Held' \subseteq Held
    BY <2>3, <2>4 DEF Held
  <2>6. Underway' = Underway /\ Handled' = Handled
    BY <1>3 DEF GivesUp, Underway, Handled
  <2> QED BY <1>3, <2>5, <2>6 DEF GivesUp, Issued
<1>4. ASSUME NEW r \in wire, Arrives(r) PROVE made' = made /\ Issued' \subseteq Issued
  <2>1. UNCHANGED run \/ Answers(r, "refused")
    BY <1>4 DEF Arrives
  <2>2. Held' \subseteq Held
    BY <2>1, HeldKept
  <2>3. Underway' \subseteq Underway
    BY <1>4 DEF Arrives, Underway
  <2>4. Handled' \subseteq Handled \union {Signature(r.cmd, r)}
    BY <1>4 DEF Arrives, Handled
  <2>5. Signature(r.cmd, r) \in Underway
    BY DEF Underway
  <2> QED BY <1>4, <2>2, <2>3, <2>4, <2>5 DEF Arrives, Issued
<1>5. ASSUME NEW h \in handlers, Verifies(h) \/ Records(h) \/ Performs(h)
      PROVE  made' = made /\ Issued' \subseteq Issued
  <2>1. PICK out \in {"refused", "ok"} : UNCHANGED run \/ Answers(h.req, out)
    BY <1>5 DEF Verifies, Records, Performs
  <2>2. PICK pc \in {"checked", "do"} : To(h, pc) \/ Ends(h)
    BY <1>5 DEF Verifies, Records, Performs
  <2>3. Held' \subseteq Held
    BY <2>1, HeldKept
  <2>4. Handled' \subseteq Handled
    BY <2>2, HandlerMoves
  <2>5. Underway' = Underway /\ made' = made
    BY <1>5 DEF Verifies, Records, Performs, Underway
  <2> QED BY <2>3, <2>4, <2>5 DEF Issued
<1>6. CASE Rotates
  BY <1>6 DEF Rotates, Issued, Held, Underway, Handled
<1>7. CASE Sweeps \/ Tick \/ UNCHANGED vars
  BY <1>7 DEF Sweeps, Tick, vars, Issued, Held, Underway, Handled
<1>8. CASE Restarts
  BY <1>8 DEF Restarts, Issued, Held, Underway, Handled
<1> QED BY <1>1, <1>2, <1>3, <1>4, <1>5, <1>6, <1>7, <1>8 DEF Next

-----------------------------------------------------------------------------
(* Nonces: only a record and a key change use one, and only one that is    *)
(* new to the store.                                                       *)

LEMMA RowsLive ==
  ASSUME Types, [Next]_vars
  PROVE  now' >= now /\ \A n \in store : n.exp > now => n \in store'
<1>1. store' = store \/ store \ Expired \subseteq store'
  BY DEF Next, Starts, Retries, GivesUp, Arrives, Verifies, Records, Performs, Rotates,
         Sweeps, Restarts, Tick, vars
<1>2. now' = now \/ now' = now + 1
  BY DEF Next, Starts, Retries, GivesUp, Arrives, Verifies, Records, Performs, Rotates,
         Sweeps, Restarts, Tick, vars
<1>3. \A n \in store : n.exp > now => n \notin Expired
  BY DEF Expired, Types
<1> QED BY <1>1, <1>2, <1>3 DEF Types

LEMMA UsesStep ==
  ASSUME [Next]_vars
  PROVE  UNCHANGED <<live, late>> \/ (\E h \in handlers : Records(h)) \/ Rotates
BY DEF Next, Starts, Retries, GivesUp, Arrives, Verifies, Performs, Sweeps, Restarts, Tick,
       vars, history

LEMMA NonceStep ==
  ASSUME NonceInv, [Next]_vars
  PROVE  NonceInv'
<1> USE RequestsAssumption
<1>1. Types /\ Types'
  BY TypesStep DEF NonceInv
<1>2. NoncesAreOwn /\ Remembered /\ LiveNonceOnce
  BY DEF NonceInv
<1>3. \A a \in Issued : a.serial \in Serials /\ a.ts \in Nat
  BY <1>1, IssuedTyped
<1>4. made \in Nat /\ now \in Nat /\ now' \in Nat /\ Ttl \in Nat
  BY <1>1 DEF Types
<1>5. ASSUME NEW h \in handlers, Records(h)
      PROVE  (NoncesAreOwn /\ Remembered /\ LiveNonceOnce)'
  <2> DEFINE a == Signature(h.req.cmd, h.req)
             s == h.req.serial
  <2>1. a \in Issued /\ a.serial = s /\ a.ts = h.req.ts /\ s \in Serials
    BY <1>3 DEF Issued, Handled, Signature
  <2>2. made' = made /\ now' = now /\ Issued' \subseteq Issued
    <3>1. made' = made /\ now' = now
      BY <1>5 DEF Records
    <3>2. ~Rotates
      BY <1>4, <3>1 DEF Rotates
    <3> QED BY <1>1, <1>4, <3>1, <3>2, IssuedStep
  <2>3. \/ UNCHANGED <<live, late>>
        \/ /\ ~Seen(s) /\ Row(h.req) \in store'
           /\ \/ now < h.req.ts + Ttl /\ live' = [live EXCEPT ![s] = @ + 1] /\ late' = late
              \/ live' = live /\ late' = late \union {s}
    BY <1>5 DEF Records, history
  <2> HIDE DEF a, s
  <2>4. live \in [Serials -> Nat]
    BY <1>1 DEF Types
  <2>5. NoncesAreOwn'
    <3>1. s <= made /\ \A t \in Serials : t \in Nat
      BY <1>2, <2>1 DEF NoncesAreOwn, Serials
    <3>2. \A t \in Serials : t > made' => live'[t] = 0 /\ t \notin late'
      <4>1. \A t \in Serials : t > made => t # s
        BY <1>4, <2>1, <3>1
      <4>2. \A t \in Serials : t # s => live'[t] = live[t] /\ (t \in late' => t \in late)
        BY <2>3, <2>4
      <4> QED BY <1>2, <2>2, <4>1, <4>2 DEF NoncesAreOwn
    <3> QED BY <1>2, <2>2, <3>2 DEF NoncesAreOwn
  <2>6. ASSUME NEW b \in Issued', live'[b.serial] > 0, now' < b.ts + Ttl
        PROVE  [serial |-> b.serial, exp |-> b.ts + Ttl] \in store'
    <3>1. CASE b.serial = s /\ Row(h.req) \in store'
      BY <1>2, <2>1, <2>2, <3>1 DEF NoncesAreOwn, Row, s
    <3>2. CASE live'[b.serial] = live[b.serial]
      <4>1. [serial |-> b.serial, exp |-> b.ts + Ttl] \in store
        BY <1>2, <2>2, <2>6, <3>2 DEF Remembered
      <4> QED BY <1>1, <2>2, <2>6, <4>1, RowsLive
    <3>3. b.serial \in Serials
      BY <1>3, <2>2
    <3> QED BY <2>3, <2>4, <3>1, <3>2, <3>3
  <2>7. ASSUME ~Seen(s), now < h.req.ts + Ttl PROVE live[s] = 0
    <3>1. [serial |-> a.serial, exp |-> a.ts + Ttl] \notin store
      BY <2>1, <2>7 DEF Seen
    <3>2. ~(live[a.serial] > 0)
      BY <1>2, <2>1, <2>7, <3>1 DEF Remembered
    <3> QED BY <2>1, <2>4, <3>2
  <2>8. LiveNonceOnce'
    BY <1>2, <2>1, <2>3, <2>4, <2>7 DEF LiveNonceOnce
  <2> QED BY <2>5, <2>6, <2>8 DEF Remembered
<1>6. CASE Rotates
  <2>1. made' = made + 1 /\ now' = now /\ Issued' \subseteq Issued /\ made + 1 \in Serials
    <3>1. made' = made + 1 /\ now' = now /\ made + 1 \in Serials
      BY <1>1, <1>6 DEF Rotates, Types, Serials
    <3>2. Issued' \subseteq Issued
      BY <1>6 DEF Rotates, Issued, Held, Underway, Handled
    <3> QED BY <3>1, <3>2
  <2>2. live' = [live EXCEPT ![made + 1] = @ + 1] /\ late' = late /\ store \subseteq store'
    BY <1>6 DEF Rotates
  <2>3. live \in [Serials -> Nat]
    BY <1>1 DEF Types
  <2>4. \A t \in Serials : t \in Nat
    BY DEF Serials
  <2>5. NoncesAreOwn'
    <3>1. \A b \in Issued' : b.serial <= made'
      BY <1>2, <1>3, <1>4, <2>1, <2>4 DEF NoncesAreOwn
    <3>2. \A b, c \in Issued' : b.serial = c.serial => b = c
      BY <1>2, <2>1 DEF NoncesAreOwn
    <3>3. \A t \in Serials : t > made' => live'[t] = 0 /\ t \notin late'
      BY <1>2, <1>4, <2>1, <2>2, <2>3, <2>4 DEF NoncesAreOwn
    <3> QED BY <3>1, <3>2, <3>3 DEF NoncesAreOwn
  <2>6. Remembered'
    <3>1. \A b \in Issued' : live'[b.serial] = live[b.serial]
      BY <1>2, <1>3, <1>4, <2>1, <2>2, <2>3, <2>4 DEF NoncesAreOwn
    <3> QED BY <1>2, <2>1, <2>2, <3>1 DEF Remembered
  <2>7. LiveNonceOnce'
    <3>1. live[made + 1] = 0
      BY <1>2, <1>4, <2>1 DEF NoncesAreOwn
    <3> QED BY <1>2, <2>1, <2>2, <2>3, <3>1 DEF LiveNonceOnce
  <2> QED BY <1>1, <2>5, <2>6, <2>7 DEF NonceInv
<1>7. CASE UNCHANGED <<live, late>> /\ ~Rotates
  <2>1. PICK new :
          /\ Issued' \subseteq Issued \union {new}
          /\ \/ made' = made /\ new \in Issued
             \/ made' = made /\ Issued' \subseteq Issued
             \/ made' = made + 1 /\ new.serial = made + 1 /\ made + 1 \in Serials
    <3>1. made < MaxSerial => made + 1 \in Serials
      BY <1>1 DEF Types, Serials
    <3> QED BY <1>1, <1>7, <3>1, IssuedStep
  <2>2. \A t \in Serials : t \in Nat
    BY DEF Serials
  <2>3. NoncesAreOwn'
    <3>1. \A b \in Issued' : b.serial <= made'
      BY <1>2, <1>3, <1>4, <2>1, <2>2 DEF NoncesAreOwn
    <3>2. \A b, c \in Issued' : b.serial = c.serial => b = c
      BY <1>2, <1>3, <1>4, <2>1, <2>2 DEF NoncesAreOwn
    <3>3. \A t \in Serials : t > made' => live'[t] = 0 /\ t \notin late'
      BY <1>2, <1>4, <1>7, <2>1, <2>2 DEF NoncesAreOwn
    <3> QED BY <3>1, <3>2, <3>3 DEF NoncesAreOwn
  <2>4. ASSUME NEW b \in Issued', live'[b.serial] > 0, now' < b.ts + Ttl
        PROVE  [serial |-> b.serial, exp |-> b.ts + Ttl] \in store'
    <3>1. b \in Issued
      BY <1>2, <1>4, <1>7, <2>1, <2>2, <2>4 DEF NoncesAreOwn
    <3>2. now <= now'
      BY <1>1, <1>4, RowsLive
    <3>3. now < b.ts + Ttl
      BY <1>3, <1>4, <2>4, <3>1, <3>2
    <3>4. [serial |-> b.serial, exp |-> b.ts + Ttl] \in store
      BY <1>2, <1>7, <2>4, <3>1, <3>3 DEF Remembered
    <3> QED BY <1>1, <1>3, <1>4, <3>1, <3>3, <3>4, RowsLive
  <2>5. LiveNonceOnce'
    BY <1>2, <1>7 DEF LiveNonceOnce
  <2> QED BY <1>1, <2>3, <2>4, <2>5 DEF Remembered, NonceInv
<1> QED BY <1>1, <1>5, <1>6, <1>7, UsesStep DEF NonceInv

LEMMA NonceStart == Init => NonceInv
BY RequestsAssumption DEF Init, NonceInv, Types, NotRun, RunSet, Serials, NoncesAreOwn, Remembered,
   LiveNonceOnce, Issued, Held, Underway, Handled

(* Until it expires, no nonce is used a second time, whatever the cap, the *)
(* clocks and the number of threads, and through key changes and restarts. *)
THEOREM NonceOnce == Spec => []LiveNonceOnce
<1>1. Init => NonceInv
  BY NonceStart
<1>2. NonceInv /\ [Next]_vars => NonceInv'
  BY NonceStep
<1>3. NonceInv => LiveNonceOnce
  BY DEF NonceInv
<1> QED BY <1>1, <1>2, <1>3, PTL DEF Spec

-----------------------------------------------------------------------------
(* Effects.                                                                *)

LEMMA RunsStep ==
  ASSUME Types, [Next]_vars, NEW c \in Commands
  PROVE  \/ run'[c].serial = run[c].serial /\ (run'[c] = NotRun <=> run[c] = NotRun)
         \/ Starts(c)
         \/ Retries(c) /\ c.by = "lib"
<1>1. ASSUME NEW r, NEW out \in {"refused", "ok"}, Answers(r, out)
      PROVE  run'[c].serial = run[c].serial /\ (run'[c] = NotRun <=> run[c] = NotRun)
  BY <1>1, AnswerKeeps
<1>2. ASSUME NEW d \in Commands, d # c, NEW x, run' = [run EXCEPT ![d] = x]
      PROVE  run'[c] = run[c]
  BY <1>2 DEF Types
<1>3. ASSUME NEW d \in Commands, d # c, Starts(d) \/ Retries(d) \/ GivesUp(d)
      PROVE  run'[c] = run[c]
  BY <1>2, <1>3 DEF Starts, Retries, GivesUp, Sends
<1>4. ASSUME Retries(c), c.by # "lib"
      PROVE  run'[c].serial = run[c].serial /\ (run'[c] = NotRun <=> run[c] = NotRun)
  <2>1. run'[c] = [run[c] EXCEPT !.try = @ + 1] /\ run[c].pc = "waiting"
    BY <1>4 DEF Retries, Sends, Types
  <2>2. run[c].serial # 0 /\ run'[c].serial = run[c].serial
    BY <2>1 DEF Types, NotRun, RunSet
  <2> QED BY <2>2 DEF NotRun
<1>5. ASSUME GivesUp(c)
      PROVE  run'[c].serial = run[c].serial /\ (run'[c] = NotRun <=> run[c] = NotRun)
  <2>1. run'[c] = [run[c] EXCEPT !.pc = "unknown"] /\ run[c].pc = "waiting"
    BY <1>5 DEF GivesUp, Types
  <2>2. run[c].serial # 0 /\ run'[c].serial = run[c].serial
    BY <2>1 DEF Types, NotRun, RunSet
  <2> QED BY <2>2 DEF NotRun
<1>6. ASSUME NEW r \in wire, Arrives(r)
      PROVE  run' = run \/ \E out \in {"refused", "ok"} : Answers(r, out)
  BY <1>6 DEF Arrives
<1>7. ASSUME NEW h \in handlers, Verifies(h) \/ Records(h) \/ Performs(h)
      PROVE  run' = run \/ \E out \in {"refused", "ok"} : Answers(h.req, out)
  BY <1>7 DEF Verifies, Records, Performs
<1>8. ASSUME Rotates \/ Sweeps \/ Restarts \/ Tick \/ UNCHANGED vars
      PROVE  run' = run
  BY <1>8 DEF Rotates, Sweeps, Restarts, Tick, vars
<1> QED BY <1>1, <1>3, <1>4, <1>5, <1>6, <1>7, <1>8 DEF Next

(* What is under way was so before, or was sent just now.                  *)
LEMMA TrafficStep ==
  ASSUME Types, [Next]_vars
  PROVE  /\ \A r \in wire' : r \in wire \/ \E d \in Commands :
              (Starts(d) \/ Retries(d)) /\ r = Request(d, run'[d])
         /\ \A h \in handlers' : h.req \in wire \/ \E g \in handlers : h.req = g.req
<1>1. ASSUME NEW d \in Commands, Starts(d) \/ Retries(d), NEW r \in wire'
      PROVE  r \in wire \/ r = Request(d, run'[d])
  <2>1. PICK x : Sends(d, x)
    BY <1>1 DEF Starts, Retries
  <2> QED BY <1>1, <2>1 DEF Sends, Types
<1>2. ASSUME NEW h \in handlers, NEW pc, To(h, pc) \/ Ends(h), NEW g \in handlers'
      PROVE  \E f \in handlers : g.req = f.req
  <2>1. [h EXCEPT !.pc = pc].req = h.req
    BY DEF Types, HandlerSet
  <2> QED BY <1>2, <2>1 DEF To, Ends
<1>3. ASSUME NEW h \in handlers, Verifies(h) \/ Records(h) \/ Performs(h)
      PROVE  wire' = wire /\ \E pc : To(h, pc) \/ Ends(h)
  BY <1>3 DEF Verifies, Records, Performs
<1>4. ASSUME NEW r \in wire, Arrives(r)
      PROVE  wire' \subseteq wire /\ \A h \in handlers' : h \in handlers \/ h.req = r
  BY <1>4 DEF Arrives
<1>5. ASSUME NEW d \in Commands, Starts(d) \/ Retries(d) \/ GivesUp(d)
      PROVE  handlers' = handlers /\ (GivesUp(d) => wire' = wire)
  BY <1>5 DEF Starts, Retries, GivesUp
<1>6. ASSUME Rotates \/ Sweeps \/ Restarts \/ Tick \/ UNCHANGED vars
      PROVE  wire' = wire /\ handlers' \subseteq handlers
  BY <1>6 DEF Rotates, Sweeps, Restarts, Tick, vars
<1>7. \A r \in wire' : r \in wire \/ \E d \in Commands :
              (Starts(d) \/ Retries(d)) /\ r = Request(d, run'[d])
  BY <1>1, <1>3, <1>4, <1>5, <1>6 DEF Next
<1>8. \A h \in handlers' : h.req \in wire \/ \E g \in handlers : h.req = g.req
  BY <1>2, <1>3, <1>4, <1>5, <1>6 DEF Next
<1> QED BY <1>7, <1>8

LEMMA SignedOnceStep ==
  ASSUME Types, [Next]_vars, NEW c \in Commands, c.by = "cli", SignedOnce(c)
  PROVE  SignedOnce(c)'
<1>1. \A r \in wire : r.serial # 0
  BY DEF Types, RequestSet, Serials
<1>2. \A h \in handlers : h.req.serial # 0
  BY DEF Types, RequestSet, HandlerSet, Serials
<1>3. run'[c].serial = run[c].serial \/ Starts(c)
  BY RunsStep
<1>4. Starts(c) => run[c].serial = 0
  BY DEF Starts, NotRun
<1>5. \A r \in wire : r.cmd = c => r.serial = run'[c].serial
  BY <1>1, <1>3, <1>4 DEF SignedOnce
<1>6. \A h \in handlers : h.req.cmd = c => h.req.serial = run'[c].serial
  BY <1>2, <1>3, <1>4 DEF SignedOnce
<1>7. \A d \in Commands : Request(d, run'[d]).cmd = d /\ Request(d, run'[d]).serial = run'[d].serial
  BY DEF Request
<1>8. \A r \in wire' : r.cmd = c => r.serial = run'[c].serial
  BY <1>5, <1>7, TrafficStep
<1>9. \A h \in handlers' : h.req.cmd = c => h.req.serial = run'[c].serial
  BY <1>5, <1>6, TrafficStep
<1> QED BY <1>8, <1>9 DEF SignedOnce

LEMMA EffectsStep ==
  ASSUME Types, [Next]_vars, NEW c \in Commands
  PROVE  \/ effects'[c] = effects[c]
         \/ /\ effects'[c] = effects[c] + 1 /\ Applies(c)
            /\ \E h \in handlers : Performs(h) /\ h.req.cmd = c
<1>1. effects' = effects \/ \E h \in handlers : Performs(h)
  BY DEF Next, Starts, Retries, GivesUp, Arrives, Verifies, Records, Rotates, Sweeps, Restarts,
         Tick, vars
<1>2. ASSUME NEW h \in handlers, Performs(h)
      PROVE  \/ effects'[c] = effects[c]
             \/ effects'[c] = effects[c] + 1 /\ Applies(c) /\ h.req.cmd = c
  BY <1>2 DEF Performs, Types
<1> QED BY <1>1, <1>2

LEMMA StoredOnceStep ==
  ASSUME Types, [Next]_vars, NEW c \in Commands, c.op = "send", effects[c] <= 1
  PROVE  effects'[c] <= 1
BY EffectsStep DEF Applies, Types

(* A mint of the library is not repeated: its one request is under way,    *)
(* then handled, then done.                                                *)
LEMMA SentOnceStep ==
  ASSUME Types, [Next]_vars, NEW c \in Commands, c.op = "mint", c.by = "lib", SentOnce(c)
  PROVE  SentOnce(c)'
<1>1. effects[c] \in Nat
  BY DEF Types
<1>2. ~Retries(c)
  BY DEF Retries, Repeats
<1>3. CASE Starts(c)
  <2>1. PICK r : Sends(c, r)
    BY <1>3 DEF Starts
  <2>2. run[c] = NotRun /\ handlers' = handlers /\ effects' = effects /\ made < MaxSerial
    BY <1>3 DEF Starts
  <2>3. Sent(c) = {} /\ Taken(c) = {} /\ effects[c] = 0
    BY <2>2 DEF SentOnce
  <2>4. Sent(c)' \subseteq {Request(c, r)}
    BY <2>1, <2>3 DEF Sends, Sent
  <2>5. Taken(c)' = {}
    BY <2>2, <2>3 DEF Taken
  <2>6. run'[c] # NotRun
    <3>1. PICK d \in Drift : Sends(c, [Signed(c, 1) EXCEPT !.ts = @ + d])
      BY <1>3 DEF Starts
    <3>2. run'[c].serial = made + 1
      BY <3>1 DEF Sends, Types, Signed
    <3> QED BY <3>2 DEF NotRun, Types
  <2> QED BY <2>2, <2>3, <2>4, <2>5, <2>6 DEF SentOnce
<1>4. CASE ~Starts(c)
  <2>1. run'[c] = NotRun <=> run[c] = NotRun
    BY <1>2, <1>4, RunsStep
  <2>2. Sent(c)' \subseteq Sent(c)
    <3>1. \A d \in Commands : Request(d, run'[d]).cmd = d
      BY DEF Request
    <3> QED BY <1>2, <1>4, <3>1, TrafficStep DEF Sent
  <2>3. CASE \E h \in handlers : Performs(h) /\ h.req.cmd = c
    <3>1. PICK h \in handlers : Performs(h) /\ h.req.cmd = c
      BY <2>3
    <3>2. Taken(c) = {h} /\ Sent(c) = {}
      BY <3>1 DEF SentOnce, Taken
    <3>3. Taken(c)' = {} /\ Sent(c)' = {}
      BY <2>2, <3>1, <3>2 DEF Performs, Ends, Taken
    <3>4. run[c] # NotRun /\ ~(effects[c] > 0)
      BY <3>2 DEF SentOnce
    <3> QED BY <2>1, <3>3, <3>4 DEF SentOnce
  <2>4. CASE \E r \in wire : Arrives(r) /\ r.cmd = c
    <3>1. PICK r \in wire : Arrives(r) /\ r.cmd = c
      BY <2>4
    <3>2. Sent(c) = {r} /\ Taken(c) = {}
      BY <3>1 DEF SentOnce, Sent
    <3>3. Sent(c)' = {}
      BY <2>2, <3>1, <3>2 DEF Arrives, Sent
    <3>4. PICK h : handlers' \subseteq handlers \union {h}
      BY <3>1 DEF Arrives
    <3>5. Taken(c)' \subseteq {h}
      BY <3>2, <3>4 DEF Taken
    <3>6. run[c] # NotRun /\ ~(effects[c] > 0) /\ effects' = effects
      BY <3>1, <3>2 DEF SentOnce, Arrives
    <3> QED BY <2>1, <3>3, <3>5, <3>6 DEF SentOnce
  <2>5. CASE Taken(c)' \subseteq Taken(c) /\ effects'[c] = effects[c]
    BY <2>1, <2>2, <2>5 DEF SentOnce
  <2>6. ASSUME NEW h \in handlers, NEW pc, To(h, pc), effects'[c] = effects[c]
        PROVE  SentOnce(c)'
    <3>1. [h EXCEPT !.pc = pc].req = h.req
      BY DEF Types, HandlerSet
    <3>2. CASE h.req.cmd # c
      BY <2>5, <2>6, <3>1, <3>2 DEF To, Taken
    <3>3. CASE h.req.cmd = c
      <4>1. Taken(c) = {h} /\ Sent(c) = {}
        BY <3>3 DEF SentOnce, Taken
      <4>2. Taken(c)' \subseteq {[h EXCEPT !.pc = pc]}
        BY <2>6, <4>1 DEF To, Taken
      <4>3. run[c] # NotRun /\ ~(effects[c] > 0)
        BY <4>1 DEF SentOnce
      <4> QED BY <2>1, <2>2, <2>6, <4>1, <4>2, <4>3 DEF SentOnce
    <3> QED BY <3>2, <3>3
  <2>7. ASSUME NEW r \in wire, Arrives(r), r.cmd # c
        PROVE  Taken(c)' \subseteq Taken(c) /\ effects'[c] = effects[c]
    <3>1. \A h \in handlers' : h \in handlers \/ h.req = r
      BY <2>7 DEF Arrives
    <3> QED BY <2>7, <3>1 DEF Arrives, Taken
  <2>8. ASSUME NEW h \in handlers, Verifies(h) \/ Records(h)
        PROVE  effects'[c] = effects[c] /\ ((\E pc : To(h, pc)) \/ Taken(c)' \subseteq Taken(c))
    BY <2>8 DEF Verifies, Records, Ends, Taken
  <2>9. ASSUME NEW h \in handlers, Performs(h), h.req.cmd # c
        PROVE  Taken(c)' \subseteq Taken(c) /\ effects'[c] = effects[c]
    BY <2>9 DEF Performs, Ends, Taken, Types
  <2>10. ASSUME \/ \E d \in Commands : Starts(d) \/ Retries(d) \/ GivesUp(d)
                \/ Rotates \/ Sweeps \/ Restarts \/ Tick \/ UNCHANGED vars
         PROVE  handlers' \subseteq handlers /\ effects' = effects
    BY <2>10 DEF Starts, Retries, GivesUp, Rotates, Sweeps, Restarts, Tick, vars
  <2>11. handlers' \subseteq handlers => Taken(c)' \subseteq Taken(c)
    BY DEF Taken
  <2> QED BY <2>3, <2>4, <2>5, <2>6, <2>7, <2>8, <2>9, <2>10, <2>11 DEF Next
<1> QED BY <1>3, <1>4

(* Only the record of a request's nonce lets its operation be done: no     *)
(* mint of the command line comes from inside.                             *)
LEMMA DoingStep ==
  ASSUME Types, [Next]_vars, NEW c \in Commands, ~c.inside
  PROVE  \/ Doing(c)' \subseteq Doing(c)
         \/ \E h \in handlers : /\ Records(h) /\ h.req.cmd = c /\ To(h, "do")
                               /\ \/ live' = [live EXCEPT ![h.req.serial] = @ + 1]
                                  \/ late' = late \union {h.req.serial}
<1>1. ASSUME NEW r \in wire, Arrives(r) PROVE Doing(c)' \subseteq Doing(c)
  <2>1. \A h \in handlers' : h \in handlers \/ (h.req = r /\ (h.pc = "do" => r.cmd.inside))
    BY <1>1 DEF Arrives, Internal
  <2> QED BY <2>1 DEF Doing
<1>2. ASSUME NEW h \in handlers, Verifies(h) PROVE Doing(c)' \subseteq Doing(c)
  <2>1. [h EXCEPT !.pc = "checked"].pc # "do"
    BY DEF Types, HandlerSet
  <2> QED BY <1>2, <2>1 DEF Verifies, To, Ends, Doing
<1>3. ASSUME NEW h \in handlers, Records(h)
      PROVE  \/ Doing(c)' \subseteq Doing(c)
             \/ /\ h.req.cmd = c /\ To(h, "do")
                /\ \/ live' = [live EXCEPT ![h.req.serial] = @ + 1]
                   \/ late' = late \union {h.req.serial}
  <2>1. [h EXCEPT !.pc = "do"].req = h.req
    BY DEF Types, HandlerSet
  <2>2. CASE Ends(h)
    BY <2>2 DEF Ends, Doing
  <2>3. CASE /\ To(h, "do")
             /\ \/ live' = [live EXCEPT ![h.req.serial] = @ + 1]
                \/ late' = late \union {h.req.serial}
    BY <2>1, <2>3 DEF To, Doing
  <2> QED BY <1>3, <2>2, <2>3 DEF Records
<1>4. ASSUME \/ \E d \in Commands : Starts(d) \/ Retries(d) \/ GivesUp(d)
             \/ \E h \in handlers : Performs(h)
             \/ Rotates \/ Sweeps \/ Restarts \/ Tick \/ UNCHANGED vars
      PROVE  Doing(c)' \subseteq Doing(c)
  <2>1. handlers' \subseteq handlers
    BY <1>4 DEF Starts, Retries, GivesUp, Performs, Ends, Rotates, Sweeps, Restarts, Tick, vars
  <2> QED BY <2>1 DEF Doing
<1> QED BY <1>1, <1>2, <1>3, <1>4 DEF Next

(* One use of its nonce, one effect.                                       *)
LEMMA OneUseStep ==
  ASSUME NonceInv, [Next]_vars, NEW c \in Commands, c.by = "cli", c.op = "mint", ~c.inside,
         SignedOnce(c), OneUseOneEffect(c)
  PROVE  OneUseOneEffect(c)'
<1> DEFINE s == run[c].serial
<1>1. Types /\ NoncesAreOwn
  BY DEF NonceInv
<1>2. effects[c] \in Nat /\ live \in [Serials -> Nat] /\ s \in Serials \union {0}
      /\ late \subseteq Serials /\ 0 \notin Serials
  BY <1>1 DEF Types, RunSet, Serials
<1>3. s' = s \/ Starts(c)
  BY <1>1, RunsStep
<1>4. s # 0 => s <= made /\ s \in Serials
  <2>1. s # 0 => Signature(c, run[c]) \in Issued /\ Signature(c, run[c]).serial = s
    BY DEF Issued, Held, Signature
  <2> QED BY <1>1, <1>2, <2>1 DEF NoncesAreOwn
<1>5. ASSUME s' = s, effects'[c] = effects[c], Doing(c)' \subseteq Doing(c),
             s \in late => s \in late', s = 0 \/ live'[s] = live[s] \/ (s \in Serials /\ live'[s] > 0)
      PROVE  OneUseOneEffect(c)'
  BY <1>5 DEF OneUseOneEffect
<1>6. late \subseteq late' /\ (s # 0 => live'[s] = live[s] \/ live'[s] > 0)
  <2>1. ASSUME NEW t \in Serials, live' = [live EXCEPT ![t] = @ + 1]
        PROVE  s # 0 => live'[s] = live[s] \/ live'[s] > 0
    BY <1>2, <1>4, <2>1
  <2>2. Rotates => made + 1 \in Serials
    BY <1>1, RequestsAssumption DEF Rotates, Types, Serials
  <2>3. ASSUME NEW h \in handlers, Records(h)
        PROVE  /\ late \subseteq late'
               /\ live' = live \/ live' = [live EXCEPT ![h.req.serial] = @ + 1]
    BY <2>3 DEF Records, history
  <2>4. \A h \in handlers : h.req.serial \in Serials
    BY <1>1 DEF Types, HandlerSet, RequestSet
  <2> QED BY <2>1, <2>2, <2>3, <2>4, UsesStep DEF Rotates
<1>7. CASE Starts(c)
  <2>1. s = 0 /\ effects' = effects /\ live' = live /\ late' = late /\ handlers' = handlers
    BY <1>7 DEF Starts, NotRun, history
  <2>2. s' = made + 1 /\ made + 1 \in Serials
    <3>1. PICK d \in Drift : Sends(c, [Signed(c, 1) EXCEPT !.ts = @ + d])
      BY <1>7 DEF Starts
    <3>2. s' = made + 1
      BY <1>1, <3>1 DEF Sends, Types, Signed
    <3> QED BY <1>1, <1>7, <3>2, RequestsAssumption DEF Starts, Types, Serials
  <2>3. effects[c] = 0 /\ Doing(c) = {}
    BY <1>2, <2>1 DEF OneUseOneEffect
  <2>4. Doing(c)' = {}
    BY <2>1, <2>3 DEF Doing
  <2> QED BY <2>1, <2>3, <2>4 DEF OneUseOneEffect
<1>8. ASSUME NEW h \in handlers, Performs(h), h.req.cmd = c, effects'[c] = effects[c] + 1, s' = s
      PROVE  OneUseOneEffect(c)'
  <2>1. h \in Doing(c) /\ handlers' = handlers \ {h} /\ live' = live /\ late' = late
    BY <1>8 DEF Performs, Ends, Doing, history
  <2>2. s \notin late => effects[c] = 0 /\ Doing(c) = {h} /\ s # 0 /\ live[s] # 0
    BY <2>1 DEF OneUseOneEffect
  <2>3. s \notin late => Doing(c)' = {}
    BY <2>1, <2>2 DEF Doing
  <2> QED BY <1>8, <2>1, <2>2, <2>3 DEF OneUseOneEffect
<1>9. ASSUME NEW h \in handlers, Records(h), h.req.cmd = c, To(h, "do"), s' = s,
             \/ live' = [live EXCEPT ![h.req.serial] = @ + 1]
             \/ late' = late \union {h.req.serial}
      PROVE  OneUseOneEffect(c)'
  <2>1. h.req.serial = s /\ effects' = effects
    BY <1>9 DEF SignedOnce, Records
  <2>2. s \in Serials /\ live[s] \in Nat
    BY <1>1, <1>2, <2>1 DEF Types, HandlerSet, RequestSet
  <2>3. CASE s \in late'
    BY <1>9, <2>3 DEF OneUseOneEffect
  <2>4. CASE s \notin late' /\ live' = [live EXCEPT ![s] = @ + 1]
    <3>1. live'[s] = live[s] + 1
      BY <1>2, <2>2, <2>4
    <3>2. live'[s] <= 1
      BY <2>2, NonceStep DEF NonceInv, LiveNonceOnce
    <3>3. live[s] = 0
      BY <2>2, <3>1, <3>2
    <3>4. effects[c] = 0 /\ Doing(c) = {}
      BY <1>6, <2>4, <3>3 DEF OneUseOneEffect
    <3>5. Doing(c)' \subseteq {[h EXCEPT !.pc = "do"]}
      BY <1>9, <3>4 DEF To, Doing
    <3> QED BY <1>2, <1>9, <2>1, <2>2, <3>1, <3>3, <3>4, <3>5 DEF OneUseOneEffect
  <2> QED BY <1>9, <2>1, <2>3, <2>4
<1>10. CASE \E h \in handlers : Performs(h) /\ h.req.cmd = c /\ effects'[c] = effects[c] + 1
  <2>1. ~Starts(c)
    BY <1>10, <1>2 DEF Starts, Performs
  <2> QED BY <1>3, <1>8, <1>10, <2>1
<1>11. CASE \E h \in handlers :
              /\ Records(h) /\ h.req.cmd = c /\ To(h, "do")
              /\ \/ live' = [live EXCEPT ![h.req.serial] = @ + 1]
                 \/ late' = late \union {h.req.serial}
  <2>1. PICK h \in handlers :
              /\ Records(h) /\ h.req.cmd = c /\ To(h, "do")
              /\ \/ live' = [live EXCEPT ![h.req.serial] = @ + 1]
                 \/ late' = late \union {h.req.serial}
    BY <1>11
  <2>2. CASE Starts(c)
    BY <1>7, <2>2
  <2> QED BY <1>3, <1>9, <2>1, <2>2
<1>12. CASE Doing(c)' \subseteq Doing(c) /\ effects'[c] = effects[c] /\ s' = s
  BY <1>4, <1>5, <1>6, <1>12
<1> QED BY <1>1, <1>3, <1>7, <1>10, <1>11, <1>12, EffectsStep, DoingStep

LEMMA EffectStep ==
  ASSUME NonceInv, EffectInv, [Next]_vars,
         \A c \in Commands : c.op = "mint" /\ c.by = "cli" => ~c.inside
  PROVE  EffectInv'
<1>1. Types
  BY DEF NonceInv
<1>2. \A c \in Commands : c.by = "cli" => SignedOnce(c)'
  BY <1>1, SignedOnceStep DEF EffectInv
<1>3. \A c \in Commands : c.op = "send" => effects'[c] <= 1
  BY <1>1, StoredOnceStep DEF EffectInv
<1>4. \A c \in Commands : c.op = "mint" /\ c.by = "lib" => SentOnce(c)'
  BY <1>1, SentOnceStep DEF EffectInv
<1>5. \A c \in Commands : c.op = "mint" /\ c.by = "lib" => effects'[c] <= 1
  <2>1. ASSUME NEW c \in Commands, c.op = "mint", c.by = "lib", effects'[c] = effects[c] + 1
        PROVE  effects'[c] <= 1
    <3>1. PICK h \in handlers : Performs(h) /\ h.req.cmd = c
      BY <1>1, <2>1, EffectsStep DEF Types
    <3>2. ~(effects[c] > 0) /\ effects[c] \in Nat
      BY <1>1, <2>1, <3>1 DEF EffectInv, SentOnce, Taken, Types
    <3> QED BY <2>1, <3>2
  <2> QED BY <1>1, <2>1, EffectsStep DEF EffectInv
<1>6. \A c \in Commands : c.op = "mint" /\ c.by = "cli" => OneUseOneEffect(c)'
  BY OneUseStep DEF EffectInv
<1> QED BY <1>2, <1>3, <1>4, <1>5, <1>6 DEF EffectInv

(* However often a command's request is sent, it takes effect once, unless *)
(* a copy of it waited out the life of its nonce.  A message may be sent   *)
(* from an internal network or not; the command line mints from outside:   *)
(* inside, no nonce is looked at and a repeated mint does mint again.      *)
THEOREM EffectsOnce ==
  ASSUME \A c \in Commands : c.op = "mint" /\ c.by = "cli" => ~c.inside
  PROVE  Spec => []EffectOnce
<1>1. Init => NonceInv /\ EffectInv
  <2>1. Init => NonceInv
    BY NonceStart
  <2>2. Init => EffectInv
    BY DEF Init, EffectInv, SignedOnce, SentOnce, Sent, Taken, OneUseOneEffect, Doing, NotRun
  <2> QED BY <2>1, <2>2
<1>2. NonceInv /\ EffectInv /\ [Next]_vars => (NonceInv /\ EffectInv)'
  BY NonceStep, EffectStep
<1>3. NonceInv /\ EffectInv => EffectOnce
  <2> SUFFICES ASSUME NonceInv, EffectInv, NEW c \in Commands, effects[c] > 1
               PROVE  run[c].serial \in late
    BY DEF EffectOnce
  <2>1. ~(effects[c] <= 1)
    BY DEF NonceInv, Types
  <2> QED BY <2>1, RequestsAssumption DEF EffectInv, OneUseOneEffect
<1> QED BY <1>1, <1>2, <1>3, PTL DEF Spec

=============================================================================
