# Clack: TLA+ models, model checking and proofs

Clack is a message relay for agents. One Python process (`src/relay.py`) serves
HTTP, keeps its state in one SQLite database and one JSON config file, and lets
two identities exchange mail only after both consented; relays forward mail to
each other, and a command line client (`src/relay-cli.py`), a client library and
a federation adapter use it. This directory holds TLA+ modules for the parts
whose correctness rests on several steps by several actors, the TLC
configurations that check them on small instances, and TLAPS proofs of theorems
about them for every instance.

Run, in this directory:

    tlc -workers 2 -config MCHandshake.cfg MCHandshake
    tlapm HandshakeProofs.tla

`PROJECT.json` lists the components, the runs, the source lines every definition
models, the mutations of the model each property is known to catch, the hazards
of the code and the theorems.

## 1. Inventory

Everything in the relay that touches the database runs under one process-wide
lock, `db_lock`, over one shared SQLite connection; requests run on threads of
their own, a sweep thread wakes every minute, and a forwarder thread serves the
federation outbox. A handler that needs several lock sections is therefore the
unit at which requests interleave, and a transaction is the unit of a crash. On
the client side the unit is a rename, a sync or a request.

| Part | State | Operations | What is hard | What makes it correct |
|---|---|---|---|---|
| Handshakes (`_handle_handshake_*`, `sweep`) | `invites`, `handshakes`, `link_revocations` | mint, revoke an invitation, redeem, accept, re-accept, advertise, revoke, lapse | redeem checks the invitation in one section and opens the pair in another; accepts name a handshake id learnt earlier; three kinds of invitation; four writers of two encryption slots | an active pair rests on a current consent of both; a revoked link stays revoked; uses and targets of invitations hold |
| Mailbox (`do_POST` send and ack, `do_GET` poll, fetch, receipts, `sweep`) | `messages` | send, poll, ack, fetch, receipts, dead letters, retention | send and revoke read identities before their transaction; poll fetches, marks and answers separately; the answer may be lost; caps and stores fill up | mail never outlives the consent that let it in; nothing vanishes silently; receipts advance |
| Register-key (`_handle_register_key`, `_store_registered_key*`, `_publish_identity_pubkey_config`, `init_db`) | `peers.identity_pubkey`, `seen_nonces`, the config file, the fail-stop latch | register, rotate, compensate, self-enroll, restart | two stores, no common transaction; every call may fail with its outcome unknown; crash between any two steps; the operator edits the same file | the stores agree; a refusal leaves no trace; an acknowledged key survives restarts |
| Enrollment and names (`_handle_invite_*`, `_handle_enroll*`, `_enroll_identity_locked`, `init_db`) | `peers`, `invites`, both challenge tables, `retired_names`, the set `peer_names` | mint, revoke, challenge, redeem, enroll, retire a name, rebuild from the config | a challenge is spent in a commit of its own, then a transaction that may fail; the name is published after both; a start rewrites the table from a file | one enrollment per challenge; uses match enrollments; one peer per key; a dead name and its mail stay dead |
| Request authentication (`_check_signature`, `_nonce_record`) and the clients' retries | `seen_nonces` | sign, send, repeat, verify, record, prune | the store at its limit, pruning against the time window, a key change between check and record, repeated requests | a nonce is accepted once while it lives; a command takes effect once |
| Federation between relays (`_federation_*`) | `federation_outbox`, `federation_grants`, `messages` of both homes | enqueue, claim, attempt, mark, deliver, expire | at-least-once attempts with unknown outcomes, restarts on both sides, expiry racing an answer, routes seen at different times | stored once at the destination; final states are final; pending rows end |
| Federation authority and adapter (`federation_authority.py`, `federation_adapter.py`) | grants, reservations, outbox, holds, non-delivery records, inbox | suspend, cap, recheck, revoke, queue, reserve, act, reconcile, receive | the transport call lies between two commits; generations move under live work; a process dies at any point | nothing leaves on stale authority; live work is carried, dead work stays dead; acknowledged mail is in the inbox |
| Route snapshots and the v2 adapter (`federation_cns.py`, `federation_e2ee_v2.py`) | high water, projected routes | load, resolve, gate, journal, act, receive | check before the transaction; routes rotate between journal and departure | a first departure passes a gate of its own call; only published contexts count |
| Client: register-key (`relay-cli.py` `cmd_register_key`) | config, key file, two stages, journal | begin, resume, post, stage, publish, roll back, quarantine, retire | crash, power loss and an operator's edit between any two renames; the answer unknown | no sent seed is lost; nothing is published before it was accepted; every journal settles |
| Client: onboarding (`cmd_enroll`, `cmd_redeem`, `_redeem_*`) | config with pin and token, key file | enroll, redeem, handshake and private invitations | late and lost answers, a changed relay key, a substitute name, a crash between key, config and token | the pin holds; no substitute name; the operator who repeats ends up enrolled |
| Client: mail (`send`, `poll`, `ack`, `_e2ee_*`) | none that lasts | choose clear or encrypted, admit, decrypt | two lookups of a pair that changes between and during them | clear text only by agreement; agreed mail is read |
| Nudge webhooks | `webhooks`, `_last_notify` | throttle, call, record | burst end against the throttle | best effort |
| Ed25519, X25519, AEAD, encodings | none | pure functions | field arithmetic | test vectors |
| Join pages, cool-downs, packaging, MCP server | in-memory counters | refuse, format, start, pass on | none that another part depends on | |

How they interact: redeem writes the pair that send, revoke and fetch consult;
revoke ends the pair and dead-letters its mail in one transaction; register-key
changes the identity of a name under both; enrollment and register-key share
`registration_lock`; a start rebuilds the peers that all others name; the sweep
works on every table; federation puts an outbox in front of another relay's
mailbox, and its ids share the id space of local mail; the v2 adapter gates what
the authority then reserves and sends; the clients see all of it only through
requests that may be late, lost or repeated.

`PROJECT.json` lists every hazard at its line, with the properties that guard it.

## 2. Modules

| Module | Models |
|---|---|
| `Consent` | what the relay promises about a pair: proposed over an invitation, activated, ended, lapsed; the abstract specification |
| `Handshake` | every handshake handler and the sweep's handshake rules; implements `Consent` |
| `Mailbox` | send, poll, ack, fetch, receipts, revoke and the sweep's message rules, on top of an instance of `Consent` |
| `KeyRegister` | what the relay promises about the key of a peer: held, asked about, taken, told; the abstract specification |
| `RegisterKey` | the relay's two-store publication of an identity key, with faults, crashes, edits and restart; implements `KeyRegister` |
| `Enrollment` | invites, challenges, the three routes of enrollment, names, the rebuild at a start |
| `Requests` | signed requests from the client that repeats them to the effect they have |
| `Outbox` | what cross-home forwarding promises about a message id; the abstract specification |
| `Federation` | two relays that forward; implements `Outbox` |
| `Authority` | grants, reservations, holds and the adapter that sends and receives under them |
| `Cns`, `AdapterV2` | signed route snapshots; the adapter for encrypted messages on top of them |
| `KeyClient` | the client's register-key transaction over files and one relay |
| `Onboard` | the client's onboarding commands and the trust pin |
| `ClientMail` | what the client sends in the clear, encrypts, and lets in |
| `HandshakeProofs`, `MailboxProofs`, `RegisterKeyProofs`, `RequestsProofs`, `FederationProofs`, `EnrollmentProofs`, `AuthorityProofs`, `AdapterV2Proofs` | theorems, section 5; `HandshakeProofs` also about `ClientMail`, `RegisterKeyProofs` about `KeyClient`, `EnrollmentProofs` about `Onboard` |
| `MC...` | constants, symmetry and bounds of the runs |

`Mailbox` composes with handshakes through `Consent`, which both it and
`Handshake` are shown to implement; `KeyClient` with `RegisterKey` through
`KeyRegister`; `AdapterV2` extends `Cns`; `Federation` is refined from `Outbox`.
The clients' modules carry the side of the relay they need as actions of their
own (`RelayRegisters`, `RelayEnrolls`, `Shown`), translated from the handlers.

In every module the variables said to be history are read by no guard of the
code's actions; they remember what a property speaks of. Operators marked
"mutant" are variants of the operator before or after them with a plausible
mistake; `PROJECT.json` names the property that catches each.

### Consent and Handshake

`Consent` has four variables, named after the columns: `status`, `gen`, `via`
and `barred` (the `link_revocations` table). `Propose` opens a ceremony over an
invitation, `Activate` is the accept, `End` is an explicit revocation, which
advances the generation and bars the invitation, and `Lapse` is hygiene, which
does neither.

`Handshake` has the rows of `invites` and `handshakes` as records. Each
handler's final transaction is one action:

| Code | Actions |
|---|---|
| `_handle_handshake_mint` (links, public requests, short invitations) | `Mint`: quota check and insert in one transaction |
| `_handle_invite_revoke` | `RevokeInvite` |
| `_handle_handshake_redeem` | `RedeemCheck` reads the invitation outside the transaction; `RedeemRepeat`, `RedeemOpen`, `RedeemRefuse` are the outcomes of the transaction |
| `_handle_handshake_accept` | `Accept`, `Reaccept` |
| `_handle_handshake_advertise` | `Advertise` |
| `_handle_handshake_revoke` | `Revoke` (the mail it dead-letters is in `Mailbox`) |
| `sweep` | `Sweep` |
| client and network | `Request` puts an accept or an advertisement with a handshake id the client was shown (`_handle_handshakes_list`, `_handle_handshake_revoke`) on its way; it may arrive late, repeatedly or never (`Drop`) |

The relay shows revoked pairs too, and because a revocation advances the
generation, the id of a revoked row is the one its next ceremony will have. An
accept sent for it answers the ceremony that comes next (`ShownRound`): to name a
ceremony before it is proposed counts as consent to it, to name one that ended
does not.

`round`, `ended`, `consent` and `ad` are history: they number the ceremonies of
a pair, and remember which were ended, which one an accept had been shown, and
what each party last advertised.

Abstracted: the text of ids, tokens and fragments (an invitation is a model
value and whoever redeems it presents the right capability, because every other
request is refused without a write); the enrollment a redeem may perform first
(`Enrollment`); rate limits; `max_handshakes_per_identity`, which is 0 by
default. Identities are numbers because the code orders them as strings
(`_hs_pair`).

### Mailbox

`Mailbox` instantiates `Consent` over the pairs of identity keys and adds names,
their current keys and the `messages` rows. A send is `SendRead` and
`SendReadTo`, the two identity lookups before the transaction, each under its own
hold of the lock, then `SendAccept` or `SendRefuse`. A revoke is `RevokeRead` and
`RevokeReadBy`, then `RevokeCommit` (which ends the pair and buries its mail in
one step) or `RevokeNothing`. A poll is `PollFetch`, `PollMark`, `PollAnswer`,
any of which the connection or a restart may cut short (`PollLost`, `Restart`).
`Ack` is the arrival of an ack for a message some answer brought. `Sweep` has
the three deletion rules in the code's order. `RotateKey` is register-key as the
mailbox sees it. The redeem and accept handlers are `ConsentStep`: an identity
that is in use now proposes or activates a pair whose other side may be an older
key, because an invitation keeps the key of its minter.

A deleted row keeps its last contents in the model with `stored` false, so that
properties can speak of what was deleted; no guard reads a deleted row except
to see that it is gone.

### KeyRegister and RegisterKey

`KeyRegister` has two variables per peer: `held`, the key that the relay, once
restarted, brings up, and `told`, the key the peer knows it has. `Ask` is a
request taken up (its peer is unsure from then on), `Take` the one instant at
which it takes effect, `Tell` a definite answer, `Join` a self-enrollment, and
`Forget` a host failure, which may bring back older keys of peers that are
unsure. `RegisterKey` defines the mapping as `HeldKey` and `ToldKey`.

One registration at a time holds `registration_lock`; its program counter `reg`
goes through the steps of `_store_registered_key_locked`. Each step that calls
the database or the file system has every outcome the code distinguishes: done,
failed cleanly, failed with the effect landed. A landed-but-raised commit is
`Commit`'s second disjunct; a landed-but-raised replace is classified by reading
the file, and with `ReadFaults` that read may fail too. A rollback that fails
leaves its transaction `open` on the shared connection, where the sweep's
`commit` finds it (`StrayCommit`). `Compensate` has the four outcomes of
`_registration_compensate_locked`: done; raised after it landed; raised and rolled
back; raised with the rollback failed too, which leaves the compensation open.
The last three stop all identity writes until a restart. `undurable` holds the older file contents a
host crash may bring back before the directory is synced. `EditConfig` is the
operator, who takes no lock. `Restart` is `init_db`: it writes the file's keys
over the managed rows in the file's order and refuses to start on a clash.

`before` (the stores when the lock was taken) and `promise` (what each client
was last definitely told) are history.

### Enrollment

A row of `peers` is key, token, gate and `born`, a serial that tells a row from
a later one of the same name. A request takes the steps of the code, each under
its own hold of the lock: `Begin` (the fast path and the gate), `Spend` (the
challenge, in a commit of its own), `Enroll` (the transaction that looks at the
invite again, counts the use and writes the row: `_enroll_identity_locked`) and
`Publish` (the name enters `peer_names`). The three routes differ in what they
look at and count (`RedeemBegins`, `EnrollBegins`, `HandshakeBegins`,
`CountsUse`, `Repeats`). A short invitation is bound to the first key that redeems
it (`Claims`), which costs its use even where the pair is live and nothing is
opened; its claimant may come back, for a challenge and for the live pair, with
the use gone (`Recovered`, `ClaimHolds`), and nobody else may. `Assignable` is the choice of the name: the wanted one,
its suffixed forms, a guest name, a reserved one for its key. `Start` is
`init_db`: removed config peers are retired with their mail, rows of the file
are rebuilt in order, and a clash keeps the relay down. `EditFile` is the
operator, `Stop` the end of the process at any moment, with requests under way.
Abstracted: proofs and secrets are right or the request ends (`GiveUp`); random
names are model values; `paired` says who minted and who redeemed for a pair that is
live, and not over which link (`Handshake` does), so that the claimant of a short
link is let in here also where the code refuses, because the pair pends over
another link. Redeems by enrolled peers enroll nobody and are left to `Handshake`.

### Requests

`Starts` signs a request under a nonce, `Retries` is the repetition: the command
line sends the bytes it signed again, the library signs anew and only what is
idempotent. On the relay a handler is a thread: `Arrives` (token, budget),
`Verifies` (the signature against the key of now, and the time window),
`Records` (the nonce: prune, cap, insert), `Performs`. Between any two of them
the key may be rotated, the store pruned, the relay restarted. `BudgetLeft`, the
answer of the rate limits, is a free choice. One command takes effect whenever
it is carried out (a mint), the other is stored once by its id (a send); the
latter may come from an internal network, where the token alone counts.

### Outbox and Federation

`Outbox` has a phase per message id and the set of ids the destination has ever
stored. In `Federation` the two homes have their tables, the copy of the routes
each sees, and a network between them: `net` holds requests under way, also
those the forwarder no longer waits for, `handling` those at the destination.

| Code | Actions |
|---|---|
| `_handle_federation_send` | `SendCheck` (routes, grant), `Enqueue` or `SendRefused` in the transaction |
| `federation_forward_pending` | `Claim` expires and claims what is due |
| `_federation_attempt` | `AttemptLapsed`, `Post` by the expiry of the row as it was claimed, then an outcome: `OutcomeUnknown`, `OutcomeAccepted`, `OutcomeFull`, `OutcomeRefused`, each with its `_federation_mark` |
| `_handle_federation_deliver` | `DeliverCheck`, `DeliverDenied`, then `DeliverDuplicate`, `DeliverCollides`, `DeliverFull`, `DeliverStores` |
| `sweep` on either side | `SweepOutbox`, `SweepBox` |
| the local lane, polling, ack | `LocalSend`, `LocalGone`, `ForeignUse`, `AckMail` |
| environment | `RequestLost`, `AnswerLost`, `RestartA`, `Move`, `RevokeGrant`, `Tick` |

`copies` counts how often a copy of an id was stored that could still be polled,
and `lasting` holds the ids that were queued at some time with a lifetime longer
than the retention; both are history. The refinement maps `queued` and `inflight` to pending and `rejected` to
refused. `Outbox` says what the code really keeps: an attempt that outlives the
row's expiry writes over `expired` (`_federation_mark` looks at no state), so
`Requeue` and a delivery out of `expired` are allowed, while delivered and
refused are final and delivered implies stored.

### Authority, Cns and AdapterV2

Every function of the authority is one lock section and one transaction, hence
one action named after it, except `action()`, which commits the handoff
(`HandOff`), calls the transport with the cross-process lock held (`busy`) and
commits the outcome (`TransportAccepted`, `TransportUnknown`,
`TransportRejected`). `Dies` releases the lock and leaves what was committed.
`Advance` is `_advance_live_generation`: which reservations, outbox rows and
holds a grant takes along to its next generation. `Receive` and `AckArrives` are
the adapter's poll loop. `ConfigAccepted` is what a valid configuration says
about routes. Abstracted: payload bytes, signatures (an evidence is a record
`SignEvidence` made), file permissions.

`Cns` loads snapshots: `CheckMeta` verifies one and compares it with the high
water, `CheckRows` compares it with the rows, which a second statement reads, and
`Project` opens its transaction only then, so two loaders may interleave.
`AdapterV2` is the life of a v2 message: `SendBegin` looks for the reservation
that proves an earlier gate, `GateSender` and `GateRecipient` resolve the two
routes one after the other, `Journal` stores the payload, `Act` reserves and
hands over; `ReceiveBegin` and `Persist` are the other way. `published` and
`served` (the routes that were active at some time since a call began) are
history.

### KeyClient

The directory `dir` maps the names config, key, two stages and the journal to
files, a file being an inode number and its content; `durable` is the set of
directory images a power loss may leave. `Moved` is a rename or unlink before
the directory is synced, `Synced` after. The program counter goes through
`_cmd_register_key_locked`: `Begins` or `Resumes`, `Marks`, `Posts`, the answer
(`Answered`, `OutcomeUnknown`), the read-only status (`StatusRead`), then
`Accepts` or `Quarantines`; staging (`StageFound`, `StageOpened`,
`StageWritten`), `Baselines` or `Adopts`; and five looks at config and key with
their exchanges, checks and inverses (`Looks`, `Swaps`, `Checks`, `Inverts`,
`Compensates`, `RollsBack`), as `_publish_accepted_register_key` orders them.
`Crash`, `PowerLoss`, `OperatorEdits`, `KeySetElsewhere` and a relay that
answers late, never or with a refusal come in between. `WellFormed` is the
journal validation: the command refuses any other journal.

The assumption says what the model values stand for and nothing of the code: no
file, token, journal, answer or seed is the value `None`, which stands for none
of them. `Onboard` has one like it.

### Onboard

One command at a time, over one config and one key file. `ChecksRelay` compares
the pins of link, config and relay before anything is sent, and every request does
so again (`Verdicts`: `_ensure_origin_verified`), which may write the pin of a first
contact (`_persist_tofu_pin`) also when the request then fails (`ChallengeFails`).
`Discovers` is the unauthenticated look at a private invitation, whose verdict on
the relay the later requests of the command reuse (`cached`); `Identifies`, `SavesKey` and `SavesConfig` make or reuse
the identity in that order on disk; `GetsChallenge`, `Sends`, `Applies` are the
signed enrollment and its answer; `Accepted` and `Greets` what follows it. A
private invitation refuses a `--name` other than the enrolled one before it asks
for a challenge (`RenameRefused`). A
request is in `late` until the relay serves, refuses or loses it, also after the
command gave up. `Aged` is the replacement of the stored token hash by a later
enrollment of the same key.

### ClientMail

`mail` is the table of the receiver's messages in the order they came; `queued`
says of a row that a poll still returns it, and `Leave` takes rows out, by an ack
or because the pair was revoked. `Prepares`, `Encrypts` and `Posts` are send: the
identity, the lookup of the pair with the choice it leads to, the request. `Fetches`, `Asks`, `AdmitsPlain`,
`Decrypts`, `Prints` are one poll, which takes its messages in their order
(`Turn`), with its cache of lookups; `Acks` is the ack of what it printed. A lookup may fail, which counts as unknown. The pair connects,
is accepted with or without encryption, advertises, is revoked, and the
receiver's key changes at any moment. `saw` and `epoch` are history.

## 3. Runs

| Run | Instance | What it shows | Distinct states |
|---|---|---|---|
| `handshake` | 3 identities, 2 invitations of any kind with up to 2 uses, one message under way, times 0..2, 2 ceremonies, 2 generations, hard expiry on; a duel or a race (below) | consent is of the current ceremony, live ceremonies are left alone, uses cover pairs, targets hold, `Consent` is implemented | 919,579 |
| `mailbox` | 2 peers, one with two keys, 1 letter, 1 dead letter kept, times 0..1, 2 requests at once | deliverable mail has consent, nothing is lost silently, receipts advance | 977,678 |
| `registerkey` | 1 managed and 1 enrolled peer, 2 keys, 2 nonces, 1 edit, process and host crashes | the stores agree with each other and with what was promised; the lock is released | 1,623,212 |
| `enrollment` | 2 requests, 2 keys, 1 single-use invite of any kind, 2 challenges, invite and open gates, a config with or without bob, bob reserved | uses match enrollments, challenges win once, one peer a key, a retired name is held again only as a suffixed draw, its mail stays dead, the cached names are rows | 1,419,635 |
| `requests` | 2 commands, 2 tries, 3 nonces, 2 threads, store cap 1, 2 keys, clocks apart, times 0..2 | a live nonce counts once; a command takes effect once | 4,369,801 |
| `federation` | 1 id used by either lane, ttl 0..3, retention 2, times 0..3 | stored once unless it is to outlive the retention, `Outbox` implemented, pending rows end | 368,704 |
| `authority` | 1 grant, 1 message out, 1 in, 4 generations, times 0..2, cap 1 | authority is fresh inside the fence, what left leaves again only by a scheduled retry, holds leave on their lineage, acked mail is kept | 451,696 |
| `cns` | 9 snapshots (rotation, rewrite, rollback, new owner, omission, forgery, staleness), 2 loaders, 1 message out, 1 in | first departures rest on routes in force during their call, only published contexts count | 1,553,234 |
| `keyclient` | 2 seeds, 7 inodes, 2 crashes or power losses, 1 edit | no sent seed lost, nothing published before accepted, journals settle | 275,866 |
| `onboard` | 5 commands, 2 seeds, 2 tries, 1 late request, 1 crash, 1 change of the relay key | the pin holds, no substitute name, the operator who repeats ends up enrolled | 251,154 |
| `clientmail` | 1 sender, 1 receiver, configs of every kind, 2 sends, 2 keys, 5 changes | clear text by agreement, refusals have a cause, agreed mail is read | 1,633,519 |
| `onboard_fullpin` | redeem of a link with a full pin, no faults | section 4 | 9 |

Why the bounds are enough for the cases that matter. The handshake run is two
instances in one, chosen by what is minted and sent (`DuelOrRace`, an
`ACTION_CONSTRAINT`: TLC explores no step that leaves both). In the duel two
identities mint an invitation of one use each: that suffices to replace one
ceremony by another and to issue links in both directions, and one message under way suffices
for an accept that outlives the ceremony it was shown, because the generation may
advance twice meanwhile; time 2 lets an invitation outlive a pending window of 1.
In the race the third identity joins and there is one invitation, minted by the
first: the other two redeem it at the same time, for its last use or for the claim
of a short one, and with one use there are more pairs that could open than uses.
Both at once, three identities with two invitations, is more than TLC explores in
minutes; the theorems have no such bound. In the mailbox run two requests at once are a send and a
revoke, or a send and a poll; one dead letter fills the store. Two keys and two
nonces let a rotation, a key clash and a replay happen; `MaxQueue` is 1 because
a waiting request is not looked at until it gets the lock. Two requests, two
keys and one use make both enrollment races, of two keys for a use and of one
key with itself; two serials let bob be dropped and put back. `Bounded`, an
`ACTION_CONSTRAINT`, mints the invite at time 0 and keeps a handshake link and a
challenge of the open gate out of one behaviour: where invites are a gate no
handshake redeem takes such a challenge, and the invites of the other routes still
race the open gate. A nonce store of
one is full at once, and three nonces let one expire while another lives. In
federation the expiry, the retention and a late answer all fall inside the four
times, the longest ttl exceeds the retention, and the attempt may be repeated
without bound inside them. Four
generations are a suspension, a recheck, a cap and another recheck. Seven inode
numbers are four linked files and the three a journal may still record. Two
crashes let one fall into the recovery of the other.

Every bound is a constant whose name starts with `Max`, except the bounds the
code itself has (`Quota`, `Cap`, `PendingCap`, `DeadCap`, ttls and windows);
generations in the code are bounded too (`generation_exhausted`), which `MaxGen`
in `Handshake` stands for.

The cfgs switch the deadlock check off: their clocks, generations, rounds,
serials or crashes are bounded, so an instance may come to its end, and in
`registerkey` a host crash can leave a file the relay refuses to start from. That
nothing waits for ever is said by the liveness properties instead:
`LockReleased`, `PendingEnds`, `Settles`, `ComesToHoldToken`, `AgreedMailIsRead`.

### Fairness

- `RegisterKey!FairSpec`: weak fairness of the step of the thread that holds the
  lock. Faults may happen at every step.
- `Federation!FairSpec`: weak fairness of the clock, of the forwarder's end of an
  attempt (its HTTP call has a timeout, its loop survives exceptions) and of the
  sweep. Nothing is assumed of the destination or the network.
- `KeyClient`: the client's process runs (weak fairness of the command's steps),
  the operator repeats a command whose message asks for it (`Resumes`), and a
  relay that is asked again and again answers now and then (strong fairness of an
  answer, of a status read, and of the relay's handler). `Settles` excuses an
  operator's edit and a stage whose write a crash cut short: such a stage is
  refused by every later run.
- `Onboard`: the command runs, a repeated command is retried, and of the retries'
  requests some are served (strong fairness). `ComesToHoldToken` excuses a relay
  whose key no longer matches the pin.
- `ClientMail!FairSpec`: the receiver polls for ever, and not every lookup fails
  (strong fairness of an answered lookup).
- `Handshake!FairSpec` and `Mailbox!FairSpec` state the fairness of sweep and
  clients for the liveness properties those modules also state; the listed runs
  of these two modules check safety.

### Also stated

Some properties are stated in the modules and in no listed run. Proved
(section 5): `QueueWithinCap` and `RevokedMailDies` in `Mailbox`,
`BarredLinkNeverCurrent` and `EndsOnlyByRevoke` in `Consent`, `DeliveredWasLodged` and `EndsAreFinal` in
`Outbox`, `ToldIsHeld`, `OneHolder` and `KeyStays` in `KeyRegister`, `KeysUnique`,
`StatusSurvivesRestart`, `ImplementsRegister` and `HeldKeyChangesSigned` in `RegisterKey`,
`LiveIsCurrent` and `SentIsTaken` in `Authority`, `EnrolledForGood`,
`ReservedHeld` and `InvitesWithinQuota` in `Enrollment`, `HighWaterKept`,
`RoutesAdvance` and `ServesLatest` for one loader at a time in `AdapterV2`,
`SlotsFollowActors` in `Handshake`, `ForeignKept` in `KeyClient`,
`EnrolledIdentityIsKept` in `Onboard`, and the type invariants of the modules with
proofs. Checked on instances of like size only: `PendingEnds` in `Handshake` and
`MailIsRetired` in `Mailbox` (liveness with a clock that stands still).

## 4. Where the code and its documents disagree

**A redeem with a full pin never works on a new config** (run
`onboard_fullpin`). `redeem` puts the full fingerprint of the link into the
config in memory (`relay-cli.py:4255`); its first request verifies the relay and
calls `_persist_tofu_pin`, which reads the config from disk, finds it unlike the
one in memory, and raises. Nothing is saved, so every repetition ends the same
way. A comment promises that such invites "authorize automated agent
enrollment" (`relay-cli.py:4221`).

The modules speak of ten more sentences of the repository that the code does not
keep. Each is an operator that TLC refutes on a small instance when it is added
to a cfg, or a trace one can follow in the module:

- `RegisterKey!EditsKept`: the operator's edit is lost when it falls between the
  last comparison of the config bytes and `os.replace` (`relay.py:363`).
- `Mailbox!NoMailAfterRevoke`: a send reads both identities, the recipient or the
  sender rotates its key, the new pair consents and is revoked, and the send is
  stored: the row of the old pair is still active (`relay.py:4089`).
- `Mailbox!HistoryClosed`: after a revocation one party rotates its key;
  `/v1/fetch` finds no row for the new pair and serves the history of the revoked
  one (`relay.py:3751`).
- `Requests!NonceUsedOnce`: a nonce is accepted again after its row was pruned at
  the end of its life, when the clock of the relay has passed the window between
  the check of the timestamp and the record (`relay.py:2583`).
- A comment of the outbox says that the destination dedupes by id "so this never
  duplicates the recipient mailbox" (`relay.py:1455`). The destination forgets an
  acked copy `RETENTION` (7 days, `relay.py:64`) after it was acked
  (`relay.py:1850`), and a message may live for `MAX_TTL` (30 days,
  `relay.py:62`). When the answer to the delivery is lost, the copy is read and
  acked, and the sender's home tries again after that week (it was down, or every
  attempt since was lost), the message is stored a second time. `StoredOnce`
  therefore leaves out the ids in `lasting`; without that (`\A m \in Msgs :
  copies[m] <= 1`) TLC finds the trace in the `federation` run, and with every
  lifetime within the retention the sentence is a theorem (section 5).
- A comment of the enrollment says that a retired name "is never handed out
  again" (`relay.py:2265`). That holds of the wanted names, of which the retired
  are refused, and not of the suffixed ones: `_enroll_identity_locked` looks a
  candidate `name-xxxx` up among the peers only (`relay.py:2279`), so a retired
  name of that form can be drawn. The mail of the retired peer is gone by then
  (`MailStaysWithItsOwner` is a theorem without exception). `DeadNamesStayDead`
  leaves the suffixed forms out.
- The snapshot state of the adapter "is monotonic" and cannot "silently rewind
  authority" (`docs/federation-candidate-679.md:87`). `_project` compares sequence,
  generation and owner with what it read before `BEGIN IMMEDIATE`
  (`federation_cns.py:400` to `450`); of two loaders that both pass the checks, the
  one with the older snapshot may write last. TLC refutes `HighWaterKept` in the
  `cns` run's instance after two checks and two projections. With one loader at a
  time it is a theorem.
- The sweep retires a pending pair by setting it to revoked. A party that revokes
  it afterwards is answered `revoked: true`, but no `link_revocations` entry is
  written, so the same invitation opens and activates the pair again
  (`relay.py:5992`; in `Handshake`, `Revoke` is not enabled then and `RedeemOpen`
  is).

- "No NEW fetch after revoke-commit can return the pair's mail", and what is not
  yet acked "is NEVER delivered after revoke-commit", says a comment of the revoke
  handler (`relay.py:5952` to `5960`). With `handshake_expiry_days` set, the sweep
  sets an active pair whose days are over to revoked and leaves its mail alone
  (`relay.py:1917`); a party that then revokes is answered `revoked: true` by the
  early return (`relay.py:5992`), nothing is buried, and the other party's next
  poll still brings the mail. TLC refutes `LiveMailHasConsent` under
  `MailboxProofs!OpenSpec`, the mailbox among any handshakes; with the setting at
  its default of 0 it is a theorem (`ConsentAmongHandshakes`, `ActiveEndsByRevoke`).
- A client whose registration was not answered, or was answered
  `registration_fail_stop`, is to wait for a restart and "reconcile with status
  rather than guessing which key won" (`CLIENT_CONTRACT.md:606`). When the process
  dies or stops between `os.replace` and the fsync of the directory
  (`relay.py:363` to `371`), a restart reads the new file without syncing its
  directory, status tells the new key, and a host failure after that brings the
  old file back. TLC refutes `RegisterKey!StatusIsFinal` in the `registerkey` run's
  instance. A restart of the process alone always agrees with status
  (`StatusOutlives`).

## 5. Proofs

TLAPS checks these theorems for every value of the constants that satisfies the
modules' assumptions (any number of identities, messages, requests, keys, any
clock and any cap). Each proof has the same form: an inductive invariant as a
conjunction of named parts, one lemma per action or group of actions, a temporal
step at the end. Each strengthening was checked by TLC on an instance of the module
before it was proved. The three modules of the client have no proof module of
their own: each is an instance in the proofs about the part of the relay it talks
to, over variables of its own, and its theorems have the module's assumption as
their hypothesis (`ASSUME Mail!ClientMailAssumption`), which the run evaluates.

**HandshakeProofs.** `Refinement`: `Spec => C!ConsentSpec`. Each action maps to
the abstract action of the same name or to a stutter; `Sweep` maps to `Lapse` of
all lapsed pairs. `NoResurrection` is a theorem about `C!ConsentSpec`, the abstract
specification: an invitation whose
pair was revoked never carries that pair again (`Propose` checks `barred` against
the invitation it writes, `End` bars the invitation of a pair that is current no
more). Through the refinement the code has it as `RevokedLinkStaysOut`.
`CurrentConsent`: `Spec => []ConsentIsCurrent` is not inductive. Its
strengthening is the conjunction of five named parts:

  - the types, and that every minted invitation has an inviter;
  - `RowsHaveInvitation`: a ceremony row names a minted invitation whose inviter is
    one of the pair, and while it is pending the other one is the redeemer;
  - `RoundsAhead`: ended ceremonies are numbered no higher than the current
    round, and the ceremony of a live row has not ended;
  - `MsgsKnowTheirCeremony`: a message under way carries no later generation than
    the row, and if it carries the same one it was shown a ceremony that has not
    been ended: this is what makes the generation in the handshake id enough;
  - `ConsentIsCurrent`.

`ActiveEndsByRevoke`: with `HsExpiry = 0`, the default, no step of `Handshake` ends
an active pair but a revocation by one of the two (`C!EndsOnlyByRevoke`).

`LiveCeremonyFrozen` is an action property proved from the types. `TargetKept`
(`InvitationKeepsItsTarget`) needs `ViaKnown`: the invitation behind a pair is
minted, is of one of the two, and a short one is already claimed; without the
last a repeated redeem by another identity could still bind the target.
`UsesCounted` (`UsesCoverPairs`) counts with cardinalities: opening a ceremony
adds at most one pair behind the invitation and takes exactly one use of it,
inside one transaction, and every other step adds none.

`SlotsAreTheActors` (`SlotsFollowActors`): the row of a pair has two encryption
slots, and four writers find a party's slot by the invitation, by the
provenance of the row, or by the order of the identities. The strengthening,
`SlotsInv`, says that a row came about by a ceremony over an invitation or was
attested without one (`Provenance`), that what is under way was sent by one of
the pair (`MsgsByParties`), and what the slots hold (`SlotsHold`). The step lemmas show
that the three ways name the same slot (`SlotIsFirst`), also when a link issued
in the other direction upgrades the pair.

`ClearIsAgreed` (`ClearByAgreement`) and `RefusalExplained` (`RefusalHasACause`)
are about `ClientMail`. The invariant says for each point of a command what the
state it looked up was at some moment since it began to look, and that a message
carries the number of changes (`epoch`) at which its sender chose; as long as the
pair has not changed since, it is what the sender found it to be.

**MailboxProofs.** `MailHasConsent`: `Spec => []LiveMailHasConsent`. The point is
that send and revoke read the pair outside their transactions, and that a
revocation buries mail by the names of the two peers while the gate looks at
their keys. The strengthening adds `KeysOwned` (a name's current key is one of
its own) and `PairsJoinNames` (the pair noted in a request under way, and the
pair a row was stored under, join keys of the two names beside it). With it, a
row whose pair ends is a row between the names the revocation names, because no
key belongs to two peers (`OnePairOfNames`, from the module's assumption).
`ReceiptsAdvance` goes through one lemma about all actions (`RowMove`): what any
step may do to a row. `NothingLost` (`NothingLostSilently`) needs that the
letters ever accepted are finitely many and that none is from the future: a dead
letter that is dropped was outlived by `DeadCap` letters at least as new, and
they stay its witnesses, because an id stored again only gets newer.
`QueueCapped`: a recipient's queue keeps to its cap though the senders race, since
the count is taken inside the transaction that inserts.

The last part composes the mailbox with the handshakes. `MailboxKeepsConsent`:
`Spec => C!ConsentSpec`, so what the mailbox does to pairs, and the environment it
assumes, is within what `Handshake` was shown to keep to. The other way round,
`OpenSpec` puts the mailbox among any `Propose`, `Activate` or `Lapse` that
`Consent` allows; only the revocation is the mailbox's own, because its commit
buries the mail. Under it `KeptAmongHandshakes` (`NothingLostSilently`,
`QueueWithinCap`, `ReceiptsOnlyAdvance`) and `RevocationTakesTheMail`
(`RevokedMailDies`: after the commit of a revocation nothing of the pair is
deliverable) hold without a condition. `LiveMailHasConsent` needs one, that an
active pair ends by revocation only (`ConsentAmongHandshakes`); it is the
conclusion of `ActiveEndsByRevoke`. For these proofs the lemma about
each step says by itself what it keeps (`Kept`), whoever takes the others.

**RegisterKeyProofs.** All theorems have the assumption that the read classifying
a raised rename does not fail (`~ReadFaults`); with that double fault
`RefusalLeavesNoTrace` and `ConfigNeverAhead` are false. `NoTrace` and
`NeverAhead` rest on `TypeOK /\ HandlerKnows /\ AgreeAtRest`: `HandlerKnows` says for each value of
the program counter what the stores hold relative to `before` and to the request,
and `AgreeAtRest` that without a handler or a fail-stop the file and the database
agree on managed peers. `PromiseDurable` (`PromiseSurvives`) adds `PromiseInv`:
what a peer was told holds in every file a restart may find unless its own
registration is under way (`PromiseKept`), and during one until the file is
replaced (`PromiseUnderWay`); a registration is answered 200 only with nothing
undurable left, and one that left a transaction open is answered 503.
`KeyChangesSigned` (`KeyChangesAuthorised`) adds that the request of the handler is
signed with the key it replaces and spends its nonce with the write.
`CrashIsRestartable` (`RestartPossible`) and `OneKeyOnePeer` rest on `UniqueInv`:
no key twice in the database, nor across file and database while the process
runs, and the key a transaction may still write is nobody's.

`StatusOutlives` (`StatusSurvivesRestart`) is what `AgreeAtRest` means for a client
that asks for the state after an unanswered request.

`RegisterImplemented`: `Spec => ImplementsRegister`, the third refinement. A
managed peer's key is taken at the replace of the file, a guest's at the commit;
a commit whose outcome the handler does not know counts as not taken while the
handler is about to undo it, and is taken at the moment the undoing fails or the
process dies. That a taken key is nobody else's is `UniqueInv`, that a refusal
tells the truth is `PromiseInv`, and that a host failure takes nothing back from
a peer that was told is `PromiseKept`. `ToldStands` and `HoldersStand` are
theorems about every register (the second on hosts that lose no write), and
`KeysAreKept` draws the conclusion for the relay. `HeldKeyIsItsHolders`
(`HeldKeyChangesSigned`) adds to the same invariant that an open transaction is
of a signed request (`OpenIsSigned`), and so covers the crash in the middle and
the stray commit. A key goes back to an older one in one way only (`TakenBack`),
which the property names: the registration landed, its compensation failed
half-way with its rollback, the relay stopped and left the peer unsure, and the
sweep commits the compensation later. `CandidateOnlyFirst` is what `KeyClient` assumes of its relay:
its requests are signed with the candidate they propose, and then the candidate
becomes the key of a peer that has none or has this one (`RelayRegisters`). The
other assumption there, that a registered key is not forgotten, is `KeyStays`: it
takes a host that loses no write. Without it `SeedNeverLost` would not hold of a
client that lets the old key go when it registers a new one.

`SentSeedsAreKept` (`SeedNeverLost`) and `ShownSeedsWereAccepted`
(`PublishedWasAccepted`) are about `KeyClient` and have no condition but the
module's. The invariant `DirInv` speaks of every directory image a power loss may
leave: all share the journal and the quarantine, because those are synced before
the command goes on, and what any file or a baseline of the journal names is
accepted (`FilesInv`). The client registers where there was no key, so the relay
accepts one seed at most (`RelayInv`); past the answer the journal's seed is that one
(`CommandInv`); and a seed that was sent is in quarantine, in the journal, or in the
key or its stage in every image (`SentInv`). That last part is why the
check of both files comes before the journal is unlinked: `PointInv` keeps for
each step of the publication what its predecessor verified.

`OperatorsFilesAreKept` (`ForeignKept`) adds `KeepInv`. In every image an inode
has one name (`Apart`), an operator's file is under a name or under its stage and
is not what the transaction started from (`Found`), and a stage holds one only
while its role is being published and was not found done at the baseline
(`Tidy`). `Hand` is what the command relies on point by point: the two stages may
be unlinked because each role's last look saw its stage empty or holding the
baseline by inode and bytes, and the operator cannot write into a stage. An
exchange therefore may move an operator's file into a stage, at a rename or at
the undoing of one, and then every later look refuses it: the transaction stops
short of the sweep and the file stays.

**RequestsProofs.** `NonceOnce`: `Spec => []LiveNonceOnce`. The strengthening says
that a nonce belongs to one signature (`NoncesAreOwn`) and that a nonce which was
used and lives is in the store (`Remembered`): neither the pruning, nor the cap,
nor a restart takes it out before its time. `EffectsOnce`: `Spec => []EffectOnce`,
under the assumption that the command line's mints come from outside the internal
networks (inside, no nonce is looked at, and a repeated mint does mint again). It
adds for each kind of command what there is of it under way: the command line
signs once, so everything bears one nonce; a mint of the library is sent once;
a send is stored once by its id.

**FederationProofs.** `OutboxImplemented`: `Spec => ImplementsOutbox`, the second
refinement. The mapping needs to know that nobody else settled what the forwarder
has in hand (`InHand`), and that an answer somebody waits for is of the current
attempt and true of the destination (`AnswersAreTrue`); with the two, each of the
steps maps to one of `Outbox` or to a stutter. `OneCopy`: `Spec => []StoredOnce`
for messages that are not to outlive the retention. A request that can still be
stored belongs to a row that is still there (`RequestsHaveRows`), and the copy
stored for that row is still known (`CopyIsKnown`), because it was acked no
earlier than the row was created and is kept as long as the row. The attempt to
prove it without the exception is how the disagreement in section 4 was found.
`DeliveredIsLodged` and `LastWordStands` are theorems about `Outbox`: what is shown
as delivered was stored, and delivered or refused stays so until the id is
forgotten. `ReceiptsAreTrue` has both for the two relays, through the refinement.

**EnrollmentProofs.** One invariant, `EnrollInv`, gives `UsesMatch`,
`ChallengeOnce`, `KeyIsOnePeer`, `RetiredStayRetired`, `MailKeepsItsOwner` and
`CacheFollowsTable`. Besides the shapes of the tables it says what a request
relies on between two of its sections: its invite was minted
(`InvitesAreThere`), the challenge it spent is used, has let nobody in and is no
other request's (`ChallengeInv`); and what the rows promise: mail is of the row
that holds the name (`MailIsOwned`), a written name is a row, nothing runs while
the relay is down (`CacheInv`). `EnrolledStays` is an action property, `QuotaKept`
is inductive together with `EnrollInv`. `ReservedStaysPinned` has the hypothesis that no suffixed or
guest name is reserved, because a draw is not looked up in the reserved names.

`NameIsTheOneAsked` (`NoSubstitutedName`) and `PinIsKept` (`PinHolds`) are about
`Onboard`. A command works on its own copy of the config and writes it back
whole, so what the file will hold is decided by the copy: `PinInv` says that a
config with a token is pinned, and that once the relay's key was seen both file
and copy are pinned to that key; `NameInv`, that the copy has the file's name
until the answer is applied and afterwards that one or the one asked for;
`TalkInv`, that a redemption on live credentials is answered without a token, so
that it leaves the name alone. `EnrolledIsOnDisk` (`EnrolledIdentityIsKept`) adds
`KeptInv`: a key file is written before the config that names it, nothing is
asked of the relay for an identity before both are on file, and a config that
holds an identity never gets another (`HandKept`, `OnDisk`).

**AuthorityProofs.** `Fence` (`FenceHolds`), `AckedKept` (`AckedIsKept`),
`SentAgainByRetry` (`DepartsAgainByRetry`), `HeldOnLineage` (`HeldLeavesOnLineage`)
and `ReservationsCurrent` (`LiveIsCurrent`, `SentIsTaken`) from one invariant. Its
parts: no row of a message is ahead of its grant (`Behind`); a row shown as held
at the current generation has its lineage there, unless its grant is capped or
revoked or its reservation dead (`HeldAuthorised`): this is what keeps a display
that was left behind from leaving at a reopening; a message the relay has or may still
get has a reservation that is neither missing nor fresh (`LeftIsRemembered`), and
of the states left to it only a scheduled retry passes the fence; and an
acknowledgement under way is of a message that is saved (`AckingIsSaved`).

**AdapterV2Proofs.** `DepartureGated` (`FirstDepartureIsGated`) and
`PublishedOnly` (`OnlyPublishedContexts`), for any number of loaders. The
invariant: what is active now has been served to every call under way
(`ActiveServed`), what was served was published (`ServedPublished`,
`RowsPublished`), and a call that could be the first to let its message go has
found both ends among the routes served to it (`Gated`). `OneLoaderKeepsHighWater` and
`OneLoaderServesLatest` have the hypothesis that there is one loader: then what a
loader checked still holds when it projects (`CheckedHolds`).

### Only model-checked

- The liveness properties `LockReleased`, `PendingEnds`, `Settles`,
  `ComesToHoldToken` and `AgreedMailIsRead`: fairness and `ENABLED` are outside the
  prover's reach.

Every safety and action property of a run is stated by a theorem, and so are the
safety properties the modules state besides.

No module declares a RECURSIVE operator, and nothing here needs induction over
data.

## 6. Not modelled, and why

- Ed25519, X25519, AEAD, the canonical encodings and the envelope formats: pure
  functions covered by test vectors; in the models a signature or an envelope is
  a record that only its maker writes.
- Nudge webhooks: best effort by design, in memory, nothing depends on them. The
  throttle can swallow the nudge for the last message of a burst; the next poll
  fetches the message all the same.
- Cool-downs and rate limits as counters: they refuse, and the models let any
  request be refused (`BudgetLeft`, `GiveUp`).
- In `Mailbox`: the guard against ids of the federation lane, which is in
  `Federation`. Hard expiry of pairs (`handshake_expiry_days`, off by default) is
  not a step of `Mailbox!Spec` and its run; the handshake side of it is in
  `Handshake`, and the mailbox under it in `MailboxProofs!OpenSpec`.
- In `KeyClient`: a relay that forgets a registered key, by a host failure or by
  its operator's hand (section 5).
- In `Handshake`: `max_handshakes_per_identity` (off by default), checked at mint
  only and therefore no bound on pairs.
- Of the client: hints from KNS, the backup command, Windows file primitives and
  permission checks, keygen and attach-key (they write one file each), commands
  that only list or show.
- Join pages, onboarding documents, the MCP server, the health report, packaging:
  formatting and start-up.

## 7. Plan

The safety properties stated here are proved; what stays with TLC is liveness. Two
of the compositions are proved, mail with handshakes and a client's registration
with the relay's. What is left to say more about is `Onboard` with `Enrollment`,
whose ends are modelled apart, each with the other as an environment.
