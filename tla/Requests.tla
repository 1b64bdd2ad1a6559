------------------------------ MODULE Requests ------------------------------
(***************************************************************************)
(* Signed requests, from the client that sends and repeats them to the     *)
(* effect they have at the relay: the nonce of a request, the store that   *)
(* remembers it, and the key it was signed with.                           *)
(* Two clients: the command line repeats the very bytes it signed, the     *)
(* Python library signs every attempt anew.                                *)
(*                                                                         *)
(* Answers may be lost, requests arrive late or not at all, every handler  *)
(* is a thread that waits for its body and for db_lock, and the relay      *)
(* restarts.  A command may also come from one of the internal networks,   *)
(* where the token alone counts.                                           *)
(***************************************************************************)
EXTENDS Naturals, FiniteSets

CONSTANTS Commands,    \* each run once: [op, by, inside]
          Ttl, Skew,   \* NONCE_TTL, NONCE_FUTURE_SKEW
          Cap,         \* NONCE_STORE_CAP
          Drift,       \* how far ahead a client's clock may be
          MaxTries, MaxTime, MaxSerial, MaxKeys, MaxThreads

ASSUME RequestsAssumption ==
  /\ \A c \in Commands : /\ c.op \in {"send", "mint"} /\ c.by \in {"cli", "lib"}
                         /\ c.inside \in BOOLEAN
  /\ {Ttl, Cap, MaxTries, MaxKeys, MaxThreads} \subseteq Nat \ {0}
  /\ MaxTime \in Nat /\ MaxSerial \in Nat
  /\ Skew \in Nat /\ Drift \subseteq Nat

VARIABLES
  now, key,          \* the peer's key, at the client and in the peers table
  run,               \* how far each command is
  wire, handlers,    \* requests under way, requests being handled
  store,             \* seen_nonces
  effects,           \* how often each command took effect
  made,              \* nonces handed out
  live, late         \* history: uses of a nonce before, and after, it expired

vars == <<now, key, run, wire, handlers, store, effects, made, live, late>>
history == <<live, late>>

Serials == 1..MaxSerial
NotRun == [pc |-> "idle", try |-> 0, serial |-> 0, ts |-> 0, key |-> 0]

(***************************************************************************)
(* The client                                                              *)
(***************************************************************************)

Signed(c, try) == [pc |-> "waiting", try |-> try, serial |-> made + 1,
                   ts |-> now, key |-> key]
Request(c, r) == [cmd |-> c, try |-> r.try, serial |-> r.serial, ts |-> r.ts,
                  key |-> r.key]
Sends(c, r) == run' = [run EXCEPT ![c] = r] /\ wire' = wire \union {Request(c, r)}

Starts(c) ==
  /\ run[c] = NotRun /\ made < MaxSerial
  /\ \E d \in Drift : Sends(c, [Signed(c, 1) EXCEPT !.ts = @ + d])
  /\ made' = made + 1
  /\ UNCHANGED <<now, key, handlers, store, effects, history>>

(* what a client repeats when no answer comes: the command line every      *)
(* request but those it knows to be sensitive, as it was signed; the       *)
(* library those that are idempotent, signed anew                          *)
Repeats(c) == run[c].try < MaxTries /\ (c.by = "cli" \/ c.op = "send")

Retries(c) ==
  /\ run[c].pc = "waiting" /\ Repeats(c)
  /\ \/ /\ c.by = "cli"
        /\ Sends(c, [run[c] EXCEPT !.try = @ + 1])
        /\ UNCHANGED made
     \/ /\ c.by = "lib" /\ made < MaxSerial
        /\ Sends(c, Signed(c, run[c].try + 1))
        /\ made' = made + 1
  /\ UNCHANGED <<now, key, handlers, store, effects, history>>

GivesUp(c) ==
  /\ run[c].pc = "waiting" /\ ~Repeats(c)
  /\ run' = [run EXCEPT ![c].pc = "unknown"]
  /\ UNCHANGED <<now, key, wire, handlers, store, effects, made, history>>

(* the answer to an attempt reaches the client that waits for it, or not *)
Answers(r, out) ==
  \/ UNCHANGED run
  \/ /\ r.cmd \in Commands
     /\ run[r.cmd].pc = "waiting" /\ run[r.cmd].try = r.try
     /\ run' = [run EXCEPT ![r.cmd].pc = out]

(***************************************************************************)
(* The relay                                                               *)
(***************************************************************************)

Fresh(ts) == now <= ts + Ttl /\ ts <= now + Skew

(* the budgets of the last minute: requests that are not modelled use them *)
(* too, so any request may find one used up                                *)
BudgetLeft == BOOLEAN

(* the address of the socket, never a forwarded one, may be internal: a    *)
(* client inside can also come by the front door                           *)
Internal(r) == r.cmd.inside

(* auth_peer, then the exemption of the internal networks, or the first    *)
(* checks of the signature, against the key read here                      *)
Arrives(r) ==
  /\ Cardinality(handlers) < MaxThreads
  /\ wire' = wire \ {r}
  /\ \/ /\ Internal(r)
        /\ \E left \in BudgetLeft :
             IF left
             THEN /\ handlers' = handlers \union {[pc |-> "do", req |-> r, key |-> 0]}
                  /\ UNCHANGED run
             ELSE Answers(r, "refused") /\ UNCHANGED handlers
     \/ /\ Fresh(r.ts)
        /\ handlers' = handlers \union {[pc |-> "body", req |-> r, key |-> key]}
        /\ UNCHANGED run
     \/ /\ ~Fresh(r.ts)
        /\ Answers(r, "refused") /\ UNCHANGED handlers
  /\ UNCHANGED <<now, key, store, effects, made, history>>

To(h, pc) == handlers' = (handlers \ {h}) \union {[h EXCEPT !.pc = pc]}
Ends(h) == handlers' = handlers \ {h}

(* the body is read, the signature verified, the time looked at again *)
Verifies(h) ==
  /\ h.pc = "body"
  /\ IF h.req.key = h.key /\ Fresh(h.req.ts)
     THEN To(h, "checked") /\ UNCHANGED run
     ELSE Ends(h) /\ Answers(h.req, "refused")
  /\ UNCHANGED <<now, key, wire, store, effects, made, history>>

(* _nonce_record, under db_lock, then rate_ok *)
(* mutant: at the cap the oldest nonces make room *)
ExpiredAtCap == {n \in store : n.exp <= now \/ Cardinality(store) >= Cap}
Expired == {n \in store : n.exp <= now}
Seen(serial) == \E n \in store : n.serial = serial
Row(r) == [serial |-> r.serial, exp |-> r.ts + Ttl]

Records(h) ==
  /\ h.pc = "checked"
  /\ \/ /\ Seen(h.req.serial)
        /\ Ends(h) /\ Answers(h.req, "refused")
        /\ UNCHANGED <<store, history>>
     \/ /\ ~Seen(h.req.serial) /\ Cardinality(store \ Expired) >= Cap
        /\ Ends(h) /\ Answers(h.req, "refused")
        /\ store' = store \ Expired
        /\ UNCHANGED history
     \/ /\ ~Seen(h.req.serial) /\ Cardinality(store \ Expired) < Cap
        /\ store' = (store \ Expired) \union {Row(h.req)}
        /\ \E left \in BudgetLeft :
             IF left THEN To(h, "do") /\ UNCHANGED run
             ELSE Ends(h) /\ Answers(h.req, "refused")
        /\ IF now < h.req.ts + Ttl
           THEN live' = [live EXCEPT ![h.req.serial] = @ + 1] /\ UNCHANGED late
           ELSE late' = late \union {h.req.serial} /\ UNCHANGED live
  /\ UNCHANGED <<now, key, wire, effects, made>>

(* the operation: a message id is stored once, an invite is minted anew *)
(* mutant: a message id is not looked up *)
AppliesAgain(c) == TRUE
Applies(c) == c.op = "mint" \/ effects[c] = 0

Performs(h) ==
  /\ h.pc = "do" /\ Ends(h)
  /\ effects' = [effects EXCEPT ![h.req.cmd] = IF Applies(h.req.cmd) THEN @ + 1 ELSE @]
  /\ Answers(h.req, "ok")
  /\ UNCHANGED <<now, key, wire, store, made, history>>

(* register-key with the current key: the nonce is reserved without        *)
(* pruning and only live ones count (a transaction that fails leaves       *)
(* nothing)                                                                *)
Rotates ==
  /\ key < MaxKeys /\ made < MaxSerial /\ Cardinality(store \ Expired) < Cap
  /\ made' = made + 1 /\ key' = key + 1
  /\ store' = store \union {[serial |-> made + 1, exp |-> now + Ttl]}
  /\ live' = [live EXCEPT ![made + 1] = @ + 1]
  /\ UNCHANGED <<now, run, wire, handlers, effects, late>>

Sweeps ==
  /\ Expired # {} /\ store' = store \ Expired
  /\ UNCHANGED <<now, key, run, wire, handlers, effects, made, history>>

Restarts ==
  /\ handlers # {} /\ handlers' = {}
  /\ UNCHANGED <<now, key, run, wire, store, effects, made, history>>

Tick ==
  /\ now < MaxTime /\ now' = now + 1
  /\ UNCHANGED <<key, run, wire, handlers, store, effects, made, history>>

Init ==
  /\ now = 0 /\ key = 1 /\ run = [c \in Commands |-> NotRun]
  /\ wire = {} /\ handlers = {} /\ store = {}
  /\ effects = [c \in Commands |-> 0] /\ made = 0
  /\ live = [s \in Serials |-> 0] /\ late = {}

Next ==
  \/ \E c \in Commands : Starts(c) \/ Retries(c) \/ GivesUp(c)
  \/ \E r \in wire : Arrives(r)
  \/ \E h \in handlers : Verifies(h) \/ Records(h) \/ Performs(h)
  \/ Rotates \/ Sweeps \/ Restarts \/ Tick

Spec == Init /\ [][Next]_vars

TypeOK ==
  /\ now \in 0..MaxTime /\ key \in 1..MaxKeys /\ made \in 0..MaxSerial
  /\ \A c \in Commands : run[c].pc \in {"idle", "waiting", "ok", "refused", "unknown"}
                         /\ run[c].try \in 0..MaxTries
  /\ \A h \in handlers : h.pc \in {"body", "checked", "do"}
  /\ \A n \in store : n.serial \in Serials
  /\ live \in [Serials -> Nat] /\ late \subseteq Serials

(* Until it expires, a nonce is used once: not again after a prune, at the *)
(* cap, through a key change, in another thread or across a restart.       *)
LiveNonceOnce == \A s \in Serials : live[s] <= 1

(* A command takes effect once, however often its request was sent again,  *)
(* unless a copy of it waited out the life of its nonce.                   *)
EffectOnce == \A c \in Commands : effects[c] > 1 => run[c].serial \in late

(* A nonce is used once, for ever: only what can never be replayed again   *)
(* is forgotten.                                                           *)
NonceUsedOnce == \A s \in Serials : live[s] + (IF s \in late THEN 1 ELSE 0) <= 1

=============================================================================
