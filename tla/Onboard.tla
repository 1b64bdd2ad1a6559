------------------------------ MODULE Onboard ------------------------------
(***************************************************************************)
(* Onboarding with the command line client: `enroll`, `redeem` of an       *)
(* invite or a handshake link, and of a private invitation.  One config    *)
(* file and one key file on disk, one command at a time, one relay that    *)
(* answers late, twice or never, and the trust pin that must be in place   *)
(* before anything secret is sent.                                         *)
(*                                                                         *)
(* The relay keeps one row per identity key.  A token is written by how it *)
(* stands to the row: Cur, or Old once the row's token was replaced.       *)
(***************************************************************************)
EXTENDS Naturals, FiniteSets

CONSTANTS None, Guest,     \* nothing; the name the relay picks itself
          Commands,        \* what the operator may run: [kind, want, full]
          Retried,         \* what the operator runs again until it works
          MaxSeeds,        \* identities generated
          MaxTries,        \* transport attempts of a repeatable request
          MaxLate,         \* requests under way at once
          MaxCrashes, MaxRekeys

Seeds == 1..MaxSeeds
Cur == "cur"
Old == "old"
Tokens == {None, Cur, Old}
RelayKeys == {1, 2}
Pins == RelayKeys \union {None}
Kinds == {"enroll", "redeem", "handshake", "private"}
Points == {"idle", "check", "discover", "identity", "savekey", "saveconfig", "challenge", "post", "wait",
           "resavekey", "resaveconfig", "accept", "waitaccept", "hello", "done"}
Names == {c.want : c \in Commands} \union {Guest, None}

(* an identity config; what a request carries; what the relay answers *)
Configs == [seed : Seeds, token : Tokens, name : Names, pin : Pins, full : Pins]
Requests == [step : {"post", "accept"}, kind : Kinds, chal : 0..(MaxLate + 1),
             seed : Seeds, signer : Seeds \union {0}, token : Tokens, want : Names, try : Nat]
Outcomes == [ok : BOOLEAN, token : {None, Cur}, name : Names]

(* the redemption of an invite names nobody *)
ASSUME OnboardAssumption ==
  /\ Retried \subseteq Commands
  /\ \A c \in Commands : /\ c.kind \in Kinds /\ c.full \in Pins
                         /\ c.kind = "redeem" => c.want = None
  /\ None \notin Nat \union {Cur, Old} \union Configs \union Outcomes
  /\ {MaxSeeds, MaxTries, MaxLate} \subseteq Nat \ {0}
  /\ {MaxCrashes, MaxRekeys} \subseteq Nat

VARIABLES
  config, key,   \* the two files; key holds a seed
  proc,          \* the running command
  rows,          \* the relay's row of each identity: name and enrollment
  pair,          \* the handshake with the inviter
  challenges,    \* challenges the relay would still accept
  late,          \* requests that may still reach the relay
  relayKey,      \* the identity the relay presents, None when unavailable
  made, crashes, rekeys

vars == <<config, key, proc, rows, pair, challenges, late, relayKey, made,
          crashes, rekeys>>
files == <<config, key>>
relay == <<rows, pair, challenges, late>>
bounds == <<relayKey, made, crashes, rekeys>>

NoCommand == [kind |-> "none", want |-> None, full |-> None]
Idle == [pc |-> "idle", cmd |-> NoCommand, cfg |-> None, fp |-> None,
         cached |-> None, chal |-> 0, try |-> 0, answer |-> None]
At(pc) == proc' = [proc EXCEPT !.pc = pc]
Ends == proc' = Idle
Fresh(seed) == [seed |-> seed, token |-> None, name |-> None, pin |-> None,
                full |-> None]
Cfg == proc.cfg
Kind == proc.cmd.kind
Enrolled(cfg) == cfg.token # None /\ cfg.name # None

(* mutant: a name is only asked for, not insisted on *)
WantedNot == None

(* --name and the name prompt: an enrolled identity redeems under its name *)
Wanted == IF Kind = "redeem" \/ (Kind # "enroll" /\ Enrolled(Cfg)) THEN None
          ELSE proc.cmd.want

(***************************************************************************)
(* Relay identity                                                          *)
(***************************************************************************)

(* mutant: any identity the relay presents will do *)
PresentsAny(pin, full) == relayKey # None

(* fetch_relay_identity against both pins of a config *)
Presents(pin, full) == relayKey # None /\ pin \in {None, relayKey}
                       /\ full \in {None, relayKey}

(* _persist_tofu_pin: only onto the config the command holds *)
PinIsCurrent == config = Cfg

(* _ensure_origin_verified: what a request may go ahead with, as the new   *)
(* config of the command, its cached verdict and whether the pin is        *)
(* written; no outcome means the command aborts                            *)
Verdicts ==
  IF proc.cached # None /\ proc.cached = Cfg.pin
    THEN {[cfg |-> Cfg, cached |-> proc.cached, writes |-> FALSE]}
  ELSE IF relayKey = None
    THEN IF Cfg.pin = None /\ Cfg.token = None
         THEN {[cfg |-> Cfg, cached |-> None, writes |-> FALSE]} ELSE {}
  ELSE IF ~Presents(Cfg.pin, Cfg.full) THEN {}
  ELSE IF Cfg.pin # None
    THEN {[cfg |-> Cfg, cached |-> relayKey, writes |-> FALSE]}
  ELSE IF PinIsCurrent
    THEN {[cfg |-> [Cfg EXCEPT !.pin = relayKey], writes |-> TRUE,
           cached |-> IF Cfg.token # None THEN relayKey ELSE None]}
  ELSE {}

(* req(): the verdict comes before anything is sent *)
Verified(v, next) ==
  /\ config' = IF v.writes THEN v.cfg ELSE config
  /\ proc' = [next EXCEPT !.cfg = v.cfg, !.cached = v.cached]

Aborts ==
  /\ proc.pc \in {"challenge", "post", "accept", "hello"} /\ Verdicts = {}
  /\ Ends /\ UNCHANGED <<files, relay, bounds>>

(* check_relay_identity, at the start of every onboarding command; the    *)
(* trusted link's full pin is checked with the stored ones                 *)
ChecksRelay ==
  /\ proc.pc = "check"
  /\ LET stored == IF Cfg = None THEN Fresh(0) ELSE Cfg
         full == IF proc.cmd.full # None THEN proc.cmd.full ELSE stored.full
     IN IF Presents(stored.pin, full) /\ stored.full \in {None, full}
        THEN proc' = [proc EXCEPT !.fp = relayKey,
                        !.pc = IF Kind = "private" THEN "discover" ELSE "identity"]
        ELSE Ends
  /\ UNCHANGED <<files, relay, bounds>>

(* The private invitation is looked up without credentials first; the      *)
(* verdict on the relay stands for every later request of the command.     *)
Discovers ==
  /\ proc.pc = "discover"
  /\ \/ /\ Presents(proc.fp, IF Cfg = None THEN None ELSE Cfg.full)
        /\ proc' = [proc EXCEPT !.pc = "identity", !.cached = relayKey]
     \/ Ends   \* another key, no such invitation, or no consent to its inviter
  /\ UNCHANGED <<files, relay, bounds>>

(***************************************************************************)
(* The local identity                                                      *)
(***************************************************************************)

(* the private invitation refuses an enrolled identity without a pin *)
Begins(cmd) ==
  /\ proc = Idle
  /\ cmd.kind = "private" /\ config # None =>
       (config.token # None => config.pin # None)
  /\ proc' = [Idle EXCEPT !.pc = "check", !.cmd = cmd, !.cfg = config]
  /\ UNCHANGED <<files, relay, bounds>>

(* No config: a fresh key pair (a private invitation refuses an orphan     *)
(* key).  A config: its identity is reused, with the pins in memory.       *)
Identifies ==
  LET pinned == [Cfg EXCEPT !.full = IF proc.cmd.full = None THEN @ ELSE proc.cmd.full]
      private == [Cfg EXCEPT !.pin = proc.fp]
  IN /\ proc.pc = "identity"
     /\ \/ /\ Cfg = None /\ (Kind = "private" => key = None) /\ made < MaxSeeds
           /\ made' = made + 1
           /\ proc' = [proc EXCEPT !.pc = "savekey", !.cfg =
                [Fresh(made + 1) EXCEPT !.pin = IF Kind = "private" THEN proc.fp ELSE None]]
        \/ /\ Cfg # None /\ key # None
           /\ IF Kind = "private"
                THEN IF key = Cfg.seed
                     THEN proc' = [proc EXCEPT !.pc = "savekey", !.cfg = private]
                     ELSE Ends
                ELSE proc' = [proc EXCEPT !.pc = "challenge", !.cfg = pinned]
           /\ UNCHANGED made
        \/ /\ Cfg = None /\ Kind = "private" /\ key # None
           /\ Ends /\ UNCHANGED made
  /\ UNCHANGED <<files, relay, relayKey, crashes, rekeys>>

(* _save_identity_config: key first, then config, each durable on its own *)
SavesKey ==
  /\ proc.pc \in {"savekey", "resavekey"}
  /\ key' = Cfg.seed
  /\ At(IF proc.pc = "savekey" THEN "saveconfig" ELSE "resaveconfig")
  /\ UNCHANGED <<config, relay, bounds>>

(* mutant: a config that exists is not replaced *)
SavesConfigOnce ==
  /\ proc.pc \in {"saveconfig", "resaveconfig"}
  /\ config' = IF config = None THEN Cfg ELSE config
  /\ At(IF proc.pc = "saveconfig" THEN "challenge"
        ELSE IF Kind = "handshake" THEN "accept" ELSE "hello")
  /\ UNCHANGED <<key, relay, bounds>>

SavesConfig ==
  /\ proc.pc \in {"saveconfig", "resaveconfig"}
  /\ config' = Cfg
  /\ proc' = [proc EXCEPT
       !.pc = IF proc.pc = "saveconfig" THEN "challenge"
              ELSE CASE Kind = "handshake" -> "accept"
                     [] Kind = "private" -> "done"
                     [] OTHER -> "hello",
       !.cfg.full = IF proc.pc = "saveconfig" /\ proc.cmd.full # None
                    THEN proc.cmd.full ELSE @]
  /\ UNCHANGED <<key, relay, bounds>>

(***************************************************************************)
(* Challenge, enrollment, acceptance                                       *)
(***************************************************************************)

ByCredentials == Kind \in {"handshake", "private"} /\ Enrolled(Cfg)
(* a challenge that no command and no late request holds is forgotten *)
Held == {r.chal : r \in late}
NewChallenge == CHOOSE c \in 1..(MaxLate + 1) : c \notin Held

(* --name cannot rename an enrolled identity *)
Renames == Kind = "private" /\ Enrolled(Cfg) /\ proc.cmd.want \notin {None, Cfg.name}
RenameRefused ==
  /\ proc.pc = "challenge" /\ Renames
  /\ Ends /\ UNCHANGED <<files, relay, bounds>>

(* the challenge request; an enrolled identity redeems without one *)
GetsChallenge ==
  /\ proc.pc = "challenge" /\ ~Renames
  /\ \/ ByCredentials /\ At("post") /\ UNCHANGED <<config, challenges>>
     \/ /\ ~ByCredentials
        /\ challenges' = (challenges \intersect Held) \union {NewChallenge}
        /\ \E v \in Verdicts :
             Verified(v, [proc EXCEPT !.pc = "post", !.chal = NewChallenge])
  /\ UNCHANGED <<key, rows, pair, late, bounds>>

(* refused or unanswered; the pin of a first contact is on file by then    *)
ChallengeFails ==
  /\ proc.pc = "challenge" /\ ~ByCredentials
  /\ \E v \in Verdicts : config' = IF v.writes THEN v.cfg ELSE config
  /\ Ends /\ UNCHANGED <<key, relay, bounds>>

Request ==
  [step |-> proc.pc, kind |-> Kind, chal |-> IF ByCredentials THEN 0 ELSE proc.chal,
   seed |-> Cfg.seed, signer |-> IF key = None THEN 0 ELSE key,
   token |-> IF ByCredentials \/ proc.pc = "accept" THEN Cfg.token ELSE None,
   want |-> Wanted, try |-> proc.try]

(* req(): the request leaves; the command waits for its answer *)
Sends ==
  /\ proc.pc \in {"post", "accept"} /\ Cardinality(late) < MaxLate
  /\ \E v \in Verdicts :
       /\ Verified(v, [proc EXCEPT !.answer = None,
             !.pc = IF proc.pc = "post" THEN "wait" ELSE "waitaccept"])
       /\ late' = late \union {Request}
  /\ UNCHANGED <<key, rows, pair, challenges, bounds>>

(* no answer: /v1/enroll and /v1/invites/redeem are sent again as they     *)
(* are, the handshake calls are not                                        *)
GivesUp ==
  /\ proc.pc \in {"wait", "waitaccept"}
  /\ IF Kind \in {"enroll", "redeem"} /\ proc.try + 1 < MaxTries
     THEN proc' = [proc EXCEPT !.pc = "post", !.try = @ + 1, !.answer = None]
     ELSE Ends
  /\ UNCHANGED <<files, relay, bounds>>

(* _apply_enrollment_response, with the private invitation's rule that     *)
(* existing credentials stay                                               *)
Applies ==
  /\ proc.pc = "wait" /\ proc.answer # None
  /\ LET out == proc.answer
         token == IF Kind = "private" /\ ByCredentials THEN None ELSE out.token
         name == IF token = None THEN Cfg.name ELSE out.name
         good == /\ out.ok /\ (token # None \/ Enrolled(Cfg))
                 /\ Wanted \in {None, name}
     IN IF good
        THEN proc' = [proc EXCEPT !.pc = "resavekey", !.answer = None,
               !.cfg.token = IF token = None THEN @ ELSE token,
               !.cfg.name = name, !.cfg.pin = proc.fp]
        ELSE Ends
  /\ UNCHANGED <<files, relay, bounds>>

Accepted ==
  /\ proc.pc = "waitaccept" /\ proc.answer # None
  /\ IF proc.answer.ok THEN At("hello") ELSE Ends
  /\ UNCHANGED <<files, relay, bounds>>

(* the encrypted greeting, or the private invitation's summary *)
Greets ==
  /\ \/ proc.pc = "hello" /\ Verdicts # {}
     \/ proc.pc = "done"
  /\ Ends /\ UNCHANGED <<files, relay, bounds>>

(***************************************************************************)
(* The relay and the world                                                 *)
(***************************************************************************)

Answers(r) == proc.pc = IF r.step = "post" THEN "wait" ELSE "waitaccept"
Aged(cfg) == IF cfg # None /\ cfg.token = Cur THEN [cfg EXCEPT !.token = Old] ELSE cfg
IsOwn(r) == Answers(r) /\ r.kind = Kind /\ r.chal = proc.chal /\ r.try = proc.try
Reply(r, out) == IF IsOwn(r) THEN out ELSE proc.answer

(* a proof over a live challenge, by the key it names, enrolls the         *)
(* identity: a new row, or a new token for the row it has                  *)
RelayEnrolls(r) ==
  /\ r \in late /\ r.step = "post" /\ r.token = None
  /\ r.chal \in challenges /\ r.signer = r.seed
  /\ \E name \in IF rows[r.seed] # None THEN {rows[r.seed]} ELSE {r.want, Guest} \ {None} :
       /\ rows' = [rows EXCEPT ![r.seed] = name]
       /\ proc' = [proc EXCEPT !.cfg = Aged(@),
            !.answer = Reply(r, [ok |-> TRUE, token |-> Cur, name |-> name])]
  /\ config' = Aged(config)
  /\ challenges' = challenges \ {r.chal}
  /\ late' = {IF q.token = Cur THEN [q EXCEPT !.token = Old] ELSE q : q \in late \ {r}}
  /\ pair' = IF r.kind \in {"handshake", "private"} THEN "pending" ELSE pair
  /\ UNCHANGED <<key, bounds>>

(* redeem and accept on live credentials *)
RelayServes(r) ==
  /\ r \in late /\ r.token = Cur
  /\ r.step = "accept" => pair # "none"
  /\ pair' = IF r.step = "accept" THEN "active" ELSE "pending"
  /\ late' = late \ {r}
  /\ proc' = [proc EXCEPT !.answer =
                Reply(r, [ok |-> TRUE, token |-> None, name |-> rows[r.seed]])]
  /\ UNCHANGED <<files, rows, challenges, bounds>>

(* a stale token, a spent challenge, a wrong proof, a limit *)
RelayRefuses(r) ==
  /\ r \in late /\ late' = late \ {r}
  /\ proc' = [proc EXCEPT !.answer = Reply(r, [ok |-> FALSE, token |-> None, name |-> None])]
  /\ UNCHANGED <<files, rows, pair, challenges, bounds>>

RequestLost(r) ==
  /\ r \in late /\ late' = late \ {r}
  /\ UNCHANGED <<files, proc, rows, pair, challenges, bounds>>

(* a challenge outlives the first attempt it was fetched for *)
ChallengeExpires ==
  /\ \E c \in challenges : /\ c # proc.chal \/ proc.try > 0
                           /\ challenges' = challenges \ {c}
  /\ UNCHANGED <<files, proc, rows, pair, late, bounds>>

(* the relay's identity service goes away, comes back, or changes its key *)
RelayKeyChanges ==
  /\ rekeys < MaxRekeys /\ rekeys' = rekeys + 1
  /\ \E k \in Pins \ {relayKey} : relayKey' = k
  /\ UNCHANGED <<files, proc, relay, made, crashes>>

Crash ==
  /\ proc # Idle /\ crashes < MaxCrashes /\ crashes' = crashes + 1
  /\ Ends /\ UNCHANGED <<files, relay, relayKey, made, rekeys>>

Init ==
  /\ config = None /\ key = None /\ proc = Idle
  /\ rows = [s \in Seeds |-> None] /\ pair = "none"
  /\ challenges = {} /\ late = {} /\ relayKey = 1
  /\ made = 0 /\ crashes = 0 /\ rekeys = 0

Client ==
  \/ ChecksRelay \/ Discovers \/ Identifies \/ SavesKey \/ SavesConfig \/ RenameRefused \/ GetsChallenge
  \/ Sends \/ Applies \/ Accepted \/ Greets \/ Aborts

Served(r) == RelayEnrolls(r) \/ RelayServes(r)

Next ==
  \/ \E c \in Commands : Begins(c)
  \/ Client \/ ChallengeFails \/ GivesUp
  \/ \E r \in late : Served(r) \/ RelayRefuses(r) \/ RequestLost(r)
  \/ ChallengeExpires \/ RelayKeyChanges \/ Crash

(* The command runs on; the operator repeats what did not work; the relay  *)
(* serves a waiting command now and then; old challenges run out.          *)
Fairness ==
  /\ WF_vars(Client) /\ WF_vars(GivesUp) /\ WF_vars(ChallengeExpires)
  /\ \A c \in Retried : SF_vars(Begins(c) /\ ~(config # None /\ config.token = Cur))
  /\ SF_vars(GetsChallenge /\ proc.cmd \in Retried)
  /\ SF_vars(\E r \in late : IsOwn(r) /\ Served(r) /\ proc.cmd \in Retried)
  /\ SF_vars(Applies /\ proc.cmd \in Retried /\ proc.answer.ok)
  /\ WF_vars(\E r \in late : RelayRefuses(r) \/ RequestLost(r))

Spec == Init /\ [][Next]_vars /\ Fairness

Procs == [pc : Points, cmd : Commands \union {NoCommand}, cfg : Configs \union {None},
          fp : Pins, cached : Pins, chal : 0..(MaxLate + 1), try : Nat,
          answer : Outcomes \union {None}]

TypeOK ==
  /\ config \in Configs \union {None} /\ key \in Seeds \union {None}
  /\ proc \in Procs /\ (proc.pc # "idle" => proc.cmd \in Commands)
  /\ rows \in [Seeds -> Names] /\ pair \in {"none", "pending", "active"}
  /\ challenges \subseteq 1..(MaxLate + 1)
  /\ late \subseteq Requests /\ IsFiniteSet(late) /\ Cardinality(late) <= MaxLate
  /\ relayKey \in Pins /\ made \in 0..MaxSeeds

(* An identity the relay enrolled, or may still enroll, can always be used *)
(* again: its config and its key are on disk, whenever the process dies.   *)
EnrolledIdentityIsKept ==
  /\ \A r \in late : config # None /\ config.seed = r.seed /\ key = r.seed
  /\ \A s \in Seeds : rows[s] # None => config # None /\ config.seed = s /\ key = s

(* Where the operator asked for a name, no command stores another: it      *)
(* never settles for the substitute the relay assigned.                    *)
NameOf(cfg) == IF cfg = None THEN None ELSE cfg.name
NoSubstitutedName ==
  [][NameOf(config') # NameOf(config) => proc.cmd.want \in {None, NameOf(config')}]_vars

(* The pin of an enrolled config is replaced by no onboarding command,     *)
(* whatever key the relay presents meanwhile.                              *)
PinHolds ==
  [][config # None /\ config.token # None => config'.pin = config.pin]_vars

(* Whatever was lost on the way, the client comes back to hold the token   *)
(* the relay accepts; only a relay with another key than the pinned one    *)
(* keeps it out, or the end of the identities it may make.                 *)
ComesToHoldToken ==
  []<>(\/ config # None /\ config.token = Cur
       \/ relayKey = None \/ (config # None /\ config.pin \notin {None, relayKey})
       \/ config = None /\ made = MaxSeeds)
=============================================================================
