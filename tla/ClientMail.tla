----------------------------- MODULE ClientMail -----------------------------
(***************************************************************************)
(* What the command line sends in the clear, what it encrypts, and what it *)
(* lets in: send looks the pair up and encrypts or not, poll looks the     *)
(* pair of every message up that came in the clear, and decrypts the rest. *)
(*                                                                         *)
(* Between the lookup and the send, and while a poll works through its     *)
(* messages, the pair may be connected, advertise encryption, be revoked   *)
(* or lose its identity to a key change.  One receiver; the senders and    *)
(* the receiver have configs of different kinds.  A relay that is not      *)
(* federated; the handshakes themselves are in Handshake, the mailbox in   *)
(* Mailbox.                                                                *)
(***************************************************************************)
EXTENDS Naturals, Sequences, FiniteSets

CONSTANTS Senders, Receiver,
          Commands,     \* sends, each run once: [from, forced, ...]
          Configs,      \* the kinds of config the peers may have
          RequireEncrypted,
          MaxKeys, MaxChanges

Kinds == {"identity", "broken", "legacy"}

ASSUME ClientMailAssumption ==
  /\ Receiver \notin Senders
  /\ Configs \subseteq [Senders \union {Receiver} -> Kinds]
  /\ \A c \in Commands : c.from \in Senders /\ c.forced \in BOOLEAN
  /\ RequireEncrypted \in BOOLEAN
  /\ MaxKeys \in Nat \ {0} /\ MaxChanges \in Nat

VARIABLES
  config,
  pair, key,        \* the relay: each sender's handshake, the receiver's key
  sends,            \* the send commands
  mail,             \* the receiver's messages rows at the relay, oldest first
  poll,             \* the receiver's poll command
  epoch,            \* history: how often a pair, or its key, changed
  saw               \* history: a pair's states while a command looks it up:
                    \* [send: of each send's pair, poll: of each sender's]

vars == <<config, pair, key, sends, mail, poll, epoch, saw>>

None == "none"
Pairs == [status : {None, "pending", "active", "revoked"}, capable : BOOLEAN]
States == {"capable", "incapable", "unknown"}
NoPair == [status |-> None, capable |-> FALSE]

(* what /v1/handshakes shows of the pair *)
Shown(p) == IF p.status # "active" THEN "unknown"
            ELSE IF p.capable THEN "capable" ELSE "incapable"

(* what the client makes of it; no answer, or a broken one, is unknown *)
Lookups(s) == {Shown(pair[s]), "unknown"}

(***************************************************************************)
(* send                                                                    *)
(***************************************************************************)

Idle == [pc |-> "idle", form |-> None, key |-> 0, at |-> 0]

(* history: what is looking at a pair has now also seen it in state st *)
Sees(changed, st) ==
  saw' = [send |-> [c \in Commands |->
                      IF c.from \in changed /\ sends[c].pc = "looking"
                      THEN saw.send[c] \union {st} ELSE saw.send[c]],
          poll |-> [s \in Senders |->
                      IF s \in changed /\ poll.pc = "busy"
                      THEN saw.poll[s] \union {st} ELSE saw.poll[s]]]

Plain == [pc |-> "ready", form |-> "plain", key |-> 0, at |-> 0]
Encrypted == [pc |-> "ready", form |-> "enc", key |-> key, at |-> 0]
Refused == [pc |-> "refused", form |-> None, key |-> 0, at |-> 0]

(* mutant: only a capable pair is told from the rest *)
ChoosesLoosely(st) == IF st = "capable" THEN Encrypted ELSE Plain
Chooses(st) == CASE st = "capable" -> Encrypted
                 [] st = "incapable" -> Plain
                 [] st = "unknown" -> Refused

(* _require_send_identity, then the flag, then the lookup *)
Prepares(c) ==
  /\ sends[c].pc = "idle"
  /\ IF config[c.from] = "broken"
     THEN sends' = [sends EXCEPT ![c] = Refused] /\ UNCHANGED saw
     ELSE /\ sends' = [sends EXCEPT ![c].pc = "looking"]
          /\ saw' = [saw EXCEPT !.send[c] = {Shown(pair[c.from])}]
  /\ UNCHANGED <<config, pair, key, mail, poll, epoch>>

Encrypts(c) ==
  /\ sends[c].pc = "looking"
  /\ \E r \in IF c.forced \/ config[c.from] = "legacy" THEN {Plain}
            ELSE {Chooses(st) : st \in Lookups(c.from)} :
       sends' = [sends EXCEPT ![c] = [r EXCEPT !.at = epoch[c.from]]]
  /\ UNCHANGED <<config, pair, key, mail, poll, epoch, saw>>

(* _derive_enc_version, and the gate of /v1/send *)
Accepted(c, r) ==
  /\ r.form = "plain" => ~RequireEncrypted
  /\ pair[c.from].status = "active"

Message(c, r) ==
  [cmd |-> c, form |-> r.form, key |-> r.key, at |-> r.at, queued |-> TRUE]

Posts(c) ==
  /\ sends[c].pc = "ready"
  /\ IF Accepted(c, sends[c])
     THEN /\ mail' = Append(mail, Message(c, sends[c]))
          /\ sends' = [sends EXCEPT ![c].pc = "sent"]
     ELSE /\ sends' = [sends EXCEPT ![c].pc = "refused"]
          /\ UNCHANGED mail
  /\ UNCHANGED <<config, pair, key, poll, epoch, saw>>

(***************************************************************************)
(* poll                                                                    *)
(***************************************************************************)

(* mutant: what an earlier poll found out is used again *)
CacheKept == poll.cache
NewCache == [s \in Senders |-> None]

Queued == {i \in DOMAIN mail : mail[i].queued}

(* the messages, and then the seed of the config *)
Fetches ==
  /\ poll.pc = "idle" /\ Queued # {}
  /\ poll' = [pc |-> "busy", todo |-> Queued, key |-> key, cache |-> NewCache,
              kept |-> {}, rejected |-> {}]
  /\ saw' = [saw EXCEPT !.poll = [s \in Senders |-> {Shown(pair[s])}]]
  /\ UNCHANGED <<config, pair, key, sends, mail, epoch>>

Keeps(i) == poll' = [poll EXCEPT !.todo = @ \ {i}, !.kept = @ \union {i}]
Rejects(i) == poll' = [poll EXCEPT !.todo = @ \ {i}, !.rejected = @ \union {i}]

(* in the clear: the pair of its sender, looked up once a poll *)
LooksUp(s, st) ==
  /\ poll.cache[s] = None
  /\ poll' = [poll EXCEPT !.cache[s] = st]

(* mutant: nothing in the clear comes in *)
LetsInNothing(st) == FALSE
LetsIn(st) == st = "incapable"

(* kid: the envelope was made for the key of this seed *)
Opens(m) == m.key = poll.key

Sender(i) == mail[i].cmd.from
(* the fetched messages in their order *)
Turn(i) == poll.pc = "busy" /\ \A j \in poll.todo : i <= j
Checking(i, form) ==
  Turn(i) /\ config[Receiver] = "identity" /\ mail[i].form = form
Untouched == UNCHANGED <<config, pair, key, sends, mail, epoch, saw>>

(* no identity, nothing to enforce; an identity without its seed reads     *)
(* nothing                                                                 *)
TakesAll(i) ==
  /\ Turn(i) /\ config[Receiver] # "identity"
  /\ IF config[Receiver] = "legacy" THEN Keeps(i) ELSE Rejects(i)
  /\ Untouched

Asks(i) ==
  Checking(i, "plain") /\ (\E st \in Lookups(Sender(i)) : LooksUp(Sender(i), st)) /\ Untouched

AdmitsPlain(i) ==
  /\ Checking(i, "plain") /\ poll.cache[Sender(i)] # None
  /\ IF LetsIn(poll.cache[Sender(i)]) THEN Keeps(i) ELSE Rejects(i)
  /\ Untouched

Decrypts(i) ==
  /\ Checking(i, "enc")
  /\ IF Opens(mail[i]) THEN Keeps(i) ELSE Rejects(i)
  /\ Untouched

(* the poll ends: what it kept and what it rejected is printed *)
Prints ==
  /\ poll.pc = "busy" /\ poll.todo = {}
  /\ poll' = [poll EXCEPT !.pc = "idle"]
  /\ Untouched

(* rows that leave the queue stay in the table *)
Leave(out) ==
  mail' = [i \in DOMAIN mail |-> [mail[i] EXCEPT !.queued = @ /\ i \notin out]]

(* ack, of what the last poll printed *)
Acks ==
  /\ poll.pc = "idle"
  /\ \E i \in poll.kept : mail[i].queued /\ Leave({i})
  /\ UNCHANGED <<config, pair, key, sends, poll, epoch, saw>>

(***************************************************************************)
(* The pair and the key                                                    *)
(***************************************************************************)

Becomes(s, p) ==
  /\ epoch[s] < MaxChanges
  /\ pair' = [pair EXCEPT ![s] = p] /\ epoch' = [epoch EXCEPT ![s] = @ + 1]
  /\ Sees({s}, Shown(p))
  /\ UNCHANGED <<config, key, sends, poll>>

(* minted and redeemed; accepted, with encryption or without; advertised   *)
(* or withdrawn on the active pair                                         *)
Connects(s) ==
  /\ pair[s].status \in {None, "revoked"}
  /\ Becomes(s, [status |-> "pending", capable |-> FALSE])
  /\ UNCHANGED mail
AcceptsPair(s) ==
  /\ pair[s].status = "pending"
  /\ \E cap \in BOOLEAN : Becomes(s, [status |-> "active", capable |-> cap])
  /\ UNCHANGED mail
Advertises(s) ==
  /\ pair[s].status = "active"
  /\ Becomes(s, [pair[s] EXCEPT !.capable = ~@])
  /\ UNCHANGED mail

(* by either: the mail of the pair is dead-lettered *)
Revokes(s) ==
  /\ pair[s].status \in {"pending", "active"}
  /\ Becomes(s, [status |-> "revoked", capable |-> FALSE])
  /\ Leave({i \in DOMAIN mail : Sender(i) = s})

(* register-key: the handshakes stay with the old identity *)
Rotates ==
  /\ key < MaxKeys /\ \A s \in Senders : epoch[s] < MaxChanges
  /\ key' = key + 1 /\ pair' = [s \in Senders |-> NoPair]
  /\ epoch' = [s \in Senders |-> epoch[s] + 1]
  /\ Sees(Senders, "unknown")
  /\ UNCHANGED <<config, sends, mail, poll>>

Init ==
  /\ config \in Configs
  /\ pair = [s \in Senders |-> NoPair] /\ key = 1
  /\ sends = [c \in Commands |-> Idle] /\ mail = <<>>
  /\ poll = [pc |-> "idle", todo |-> {}, key |-> 0, cache |-> [s \in Senders |-> None],
             kept |-> {}, rejected |-> {}]
  /\ epoch = [s \in Senders |-> 0]
  /\ saw = [send |-> [c \in Commands |-> {}], poll |-> [s \in Senders |-> {}]]

Checks == \E i \in poll.todo : TakesAll(i) \/ Asks(i) \/ AdmitsPlain(i) \/ Decrypts(i)

Next ==
  \/ \E c \in Commands : Prepares(c) \/ Encrypts(c) \/ Posts(c)
  \/ \E s \in Senders : Connects(s) \/ AcceptsPair(s) \/ Advertises(s) \/ Revokes(s)
  \/ Fetches \/ Checks \/ Prints \/ Acks \/ Rotates

(* the receiver polls for ever, and the relay does not fail every lookup   *)
Answered(s) ==
  /\ \E i \in poll.todo : Checking(i, "plain") /\ Sender(i) = s
  /\ LooksUp(s, Shown(pair[s])) /\ Untouched
Spec == Init /\ [][Next]_vars
FairSpec ==
  /\ Spec
  /\ WF_vars(Fetches \/ Checks \/ Prints)
  /\ \A s \in Senders : SF_vars(Answered(s))

Forms == {"plain", "enc"}
SendStates == {"idle", "looking", "ready", "sent", "refused"}
Choices == [pc : SendStates, form : Forms \union {None}, key : Nat, at : Nat]
Rows == [cmd : Commands, form : Forms, key : Nat, at : Nat, queued : BOOLEAN]

TypeOK ==
  /\ config \in Configs /\ key \in Nat
  /\ pair \in [Senders -> Pairs] /\ epoch \in [Senders -> Nat]
  /\ sends \in [Commands -> Choices]
  /\ \A c \in Commands : sends[c].pc = "ready" => sends[c].form \in Forms
  /\ mail \in Seq(Rows)
  /\ poll \in [pc : {"idle", "busy"}, todo : SUBSET DOMAIN mail, key : Nat,
              cache : [Senders -> States \union {None}],
              kept : SUBSET DOMAIN mail, rejected : SUBSET DOMAIN mail]
  /\ saw \in [send : [Commands -> SUBSET States], poll : [Senders -> SUBSET States]]

Agreed(m) == ~m.cmd.forced /\ config[m.cmd.from] = "identity"

(* What the caller is handed in the clear was in the clear by agreement:   *)
(* the pair was active and without encryption at a moment of the poll that *)
(* handed it over and, unless the sender insisted, at a moment of the      *)
(* lookup before it was sent.                                              *)
ClearByAgreement ==
  config[Receiver] = "identity" =>
    \A i \in poll.kept : mail[i].form = "plain" =>
      /\ "incapable" \in saw.poll[Sender(i)]
      /\ Agreed(mail[i]) => "incapable" \in saw.send[mail[i].cmd]

(* The two tables agree: what send let out by its own choice poll refuses  *)
(* only after the pair or the key changed, or when its lookup failed.      *)
RefusalHasACause ==
  config[Receiver] = "identity" =>
    \A i \in poll.rejected :
      \/ ~Agreed(mail[i]) \/ epoch[Sender(i)] > mail[i].at
      \/ mail[i].form = "plain" /\ poll.cache[Sender(i)] = "unknown"

(* Mail that was sent by agreement is read in the end, if the pair stays   *)
(* as it was: a failed lookup costs one poll, no more.                     *)
AgreedMailIsRead ==
  \A c \in Commands :
    (/\ config[Receiver] = "identity"
     /\ \E i \in Queued : mail[i].cmd = c /\ Agreed(mail[i]))
      ~> \/ \E i \in poll.kept : mail[i].cmd = c
         \/ epoch[c.from] > sends[c].at
=============================================================================
