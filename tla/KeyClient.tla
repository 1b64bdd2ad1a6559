----------------------------- MODULE KeyClient -----------------------------
(***************************************************************************)
(* `register-key` of the command line client: a crash-tolerant transaction *)
(* over one directory (config, private key, two stages, the pending        *)
(* journal, quarantined journals) and one relay.  A file is an inode       *)
(* number with its content; a journal token is the inode number the        *)
(* transaction saw, so a name "matches" when inode and content agree.      *)
(* `durable` holds the directory images a power loss may leave behind:     *)
(* every image since the last directory fsync.  The operation lock makes   *)
(* one command run at a time; the operator edits files at any moment.      *)
(*                                                                         *)
(* Content of a config: Legacy (tokens only), Foreign (the operator's own  *)
(* version) or s, the identity config that names the key of seed s.        *)
(* Content of a key file: Legacy (an unrelated older key), Foreign or s.   *)
(* A stage whose write was cut short holds Torn.                           *)
(***************************************************************************)
EXTENDS Integers, FiniteSets

CONSTANTS None, Other,   \* no file / key; a key of another client
          MaxSeeds,      \* candidates this client may generate
          MaxInode,      \* inode numbers of the file system
          MaxCrashes,    \* process deaths and power losses
          MaxEdits       \* operator interventions

Seeds == 1..MaxSeeds
Legacy == 0
Foreign == -1
Torn == -2

(* what files and journals are; a token's `was` is 0 for an absent file *)
Contents == Seeds \union {Legacy, Foreign, Torn}
Files == [id : Nat \ {0}, data : Contents]
Tokens == [state : {"old", "new", "absent"}, stage : Nat, was : Nat]
Journals ==
  [phase : {"prepared", "requesting", "accepted", "publishing", "published"},
   seed : Seeds, base : Contents, prior : Contents \union {None},
   config : Tokens \union {None}, key : Tokens \union {None}]

(* where the command is: it asks the relay, stages, publishes, retires *)
Asking == {"mark", "post", "wait", "status", "verify", "quarantine"}
Staging == {"stagekey", "writekey", "stageconfig", "writeconfig", "baseline", "adopt"}
Moving == {"look", "compensate", "swap", "check", "inverse", "readback",
           "rollback", "rollswap"}
Verified == {"publish", "sweepkey", "sweepconfig", "retire"}
Steps == {"idle", "accept", "match"} \union Asking \union Staging \union Moving \union Verified
Answers == {"ok", "refused"}

ASSUME KeyClientAssumption ==
  /\ None \notin Int \union Answers \union Files \union Tokens \union Journals
  /\ Other \notin Int \union {None}
  /\ MaxSeeds \in Nat \ {0} /\ MaxInode \in Nat /\ MaxInode >= 5
  /\ MaxCrashes \in Nat /\ MaxEdits \in Nat

VARIABLES
  dir,        \* the directory as processes see it
  durable,    \* images a power loss may leave
  proc,       \* the running command: [pc, n, changed]
  relayKey,   \* the key the relay holds for the peer
  late,       \* seeds of POSTs that may still reach the relay
  accepted,   \* seeds the relay ever registered
  posted,     \* seeds ever sent
  answer,     \* the relay's answer to the waiting command
  discarded,  \* seeds of which the operator destroyed the copy that was to stay
  made,       \* candidates generated so far
  crashes, edits

vars == <<dir, durable, proc, relayKey, late, accepted, posted, answer,
          discarded, made, crashes, edits>>
remote == <<relayKey, late, accepted, posted, answer>>
ghosts == <<discarded, made, crashes, edits>>

File(id, data) == [id |-> id, data |-> data]
Data(file) == IF file = None THEN None ELSE file.data
Idle == [pc |-> "idle", n |-> 0, changed |-> FALSE]
At(pc) == proc' = [proc EXCEPT !.pc = pc]

(* _file_snapshot, _snapshot_matches_token: inode and bytes both agree *)
Matches(file, token, data) == file = File(token, data)

(* _atomic_publish_private, _fsync_parent: the image is made durable *)
Synced(d) == dir' = d /\ durable' = {d}
(* a rename or an unlink not yet followed by an fsync of the directory *)
Moved(d) == dir' = d /\ durable' = durable \union {d}
Reads == UNCHANGED <<dir, durable>>

(* The inode number of a new file: one not linked under any name.  The     *)
(* kernel reuses numbers, also one a journal token recorded; the others    *)
(* are alike, and the smallest stands for them.                            *)
FreeInodes ==
  LET linked == {f.id : f \in {dir.config, dir.key, dir.cstage, dir.kstage} \ {None}}
      tokens == {t \in {dir.pending.config, dir.pending.key} : t # None}
      noted == IF dir.pending = None THEN {}
               ELSE UNION {{t.was, t.stage} : t \in tokens}
      free == (1..MaxInode) \ linked
  IN {i \in free : i \in noted \/ \A j \in free \ noted : i <= j}

(* _rename_exchange, _rename_noreplace on a role's name and its stage *)
Exchanged(d, role) ==
  IF role = "config" THEN [d EXCEPT !.config = d.cstage, !.cstage = d.config]
                     ELSE [d EXCEPT !.key = d.kstage, !.kstage = d.key]

Journal == dir.pending
Seed == Journal.seed
Wrote(journal) == Synced([dir EXCEPT !.pending = journal])
Phased(phase) == Wrote([Journal EXCEPT !.phase = phase])

(* a refusal prints, keeps the journal and ends the command; when the *)
(* fourth look fails after a key transition, that one is undone first *)
Ends == proc' = Idle
Refuses == IF proc.n = 4 /\ proc.changed THEN At("rollback") ELSE Ends

(***************************************************************************)
(* The command                                                             *)
(***************************************************************************)

(* _RegisterKeyOperationLock: a second command is refused at once, and the *)
(* kernel frees the lock when its holder ends, however it ends             *)
LockFree == proc = Idle

(* _cmd_register_key_locked without a journal: an identity config must own *)
(* a key file with its seed; otherwise a fresh candidate is generated.     *)
Begins ==
  /\ LockFree /\ Journal = None /\ dir.config # None
  /\ \E s \in Seeds :
       /\ \/ s = Data(dir.config) /\ Data(dir.key) = s /\ made' = made
          \/ Data(dir.config) \notin Seeds /\ s = made + 1 /\ made' = s
       /\ Synced([dir EXCEPT !.theirs = {}, !.pending =
            [phase |-> "prepared", seed |-> s, base |-> Data(dir.config),
             prior |-> Data(dir.key), config |-> None, key |-> None]])
  /\ At("mark")
  /\ UNCHANGED <<remote, discarded, crashes, edits>>

(* _validate_register_key_journal: any other journal is refused, and stays *)
WellFormed(journal) ==
  /\ journal.seed \in Seeds
  /\ journal.phase \in
       {"prepared", "requesting", "accepted", "publishing", "published"}
  /\ journal.phase = "publishing" => journal.config # None
  /\ journal.config # None =>
       /\ journal.config.state \in {"old", "new"} /\ journal.config.was # 0
       /\ journal.key.state \in {"absent", "old", "new"}
       /\ (journal.key.was = 0) = (journal.key.state = "absent")

(* _resume_register_key: what the phase of a retained journal allows *)
Resumes ==
  /\ LockFree /\ Journal # None /\ WellFormed(Journal)
  /\ At(CASE Journal.phase = "prepared" -> "mark"
          [] Journal.phase = "published" -> "match"
          [] OTHER -> "status")
  /\ Reads /\ UNCHANGED <<remote, ghosts>>

(* _send_register_key_candidate: the mark is durable before the request *)
Marks ==
  /\ proc.pc = "mark" /\ Phased("requesting") /\ At("post")
  /\ UNCHANGED <<remote, ghosts>>

Posts ==
  /\ proc.pc = "post" /\ At("wait")
  /\ late' = late \union {Seed} /\ posted' = posted \union {Seed}
  /\ answer' = None
  /\ Reads /\ UNCHANGED <<relayKey, accepted, ghosts>>

(* the answer to the one attempt of req(): exact acceptance or a rejection *)
Answered ==
  /\ proc.pc = "wait" /\ answer # None
  /\ At(IF answer = "ok" THEN "accept" ELSE "verify")
  /\ answer' = None
  /\ Reads /\ UNCHANGED <<relayKey, late, accepted, posted, ghosts>>

(* UnknownMutationOutcome, an HTTP 5xx or an answer that does not bind the *)
(* candidate: the journal is kept and nothing is resent                    *)
OutcomeUnknown ==
  /\ proc.pc = "wait" /\ Ends /\ answer' = None
  /\ Reads /\ UNCHANGED <<relayKey, late, accepted, posted, ghosts>>

(* _register_key_status answers; "verify" follows a definite rejection *)
(* mutant: any answer but a different key counts as acceptance *)
StatusReadLoosely ==
  /\ proc.pc \in {"status", "verify"}
  /\ At(IF relayKey # Other THEN "accept" ELSE "quarantine")
  /\ Reads /\ UNCHANGED <<remote, ghosts>>
StatusRead ==
  /\ proc.pc \in {"status", "verify"}
  /\ At(CASE relayKey = Seed -> "accept"
          [] relayKey = None /\ proc.pc = "status" -> "mark"
          [] OTHER -> "quarantine")
  /\ Reads /\ UNCHANGED <<remote, ghosts>>

StatusUnavailable ==
  /\ proc.pc \in {"status", "verify"} /\ Ends
  /\ Reads /\ UNCHANGED <<remote, ghosts>>

(* mutant: the rejected journal is deleted *)
QuarantinesNothing ==
  /\ proc.pc = "quarantine" /\ Ends
  /\ Synced([dir EXCEPT !.pending = None])
  /\ UNCHANGED <<remote, ghosts>>
(* _quarantine_register_key_journal *)
Quarantines ==
  /\ proc.pc = "quarantine" /\ Ends
  /\ Synced([dir EXCEPT !.pending = None, !.rejected = @ \union {Seed}])
  /\ UNCHANGED <<remote, ghosts>>

(* _finish_accepted_register_key, and the entry of                        *)
(* _prepare_register_key_publication                                      *)
Accepts ==
  /\ proc.pc = "accept"
  /\ IF Journal.phase = "publishing"
       THEN At("adopt") /\ Reads
       ELSE At("stagekey") /\ Phased("accepted")
  /\ UNCHANGED <<remote, ghosts>>

(***************************************************************************)
(* Stages and baselines                                                    *)
(***************************************************************************)

StageSteps ==
  { [pc |-> "stagekey", write |-> "writekey", name |-> "kstage", next |-> "stageconfig"],
    [pc |-> "stageconfig", write |-> "writeconfig", name |-> "cstage", next |-> "baseline"] }

(* _stage_register_key_artifact: an existing stage is used when it holds   *)
(* exactly the bytes, and refused otherwise                                *)
(* mutant: every existing stage is foreign *)
StageFoundRefuses ==
  /\ \E st \in StageSteps : proc.pc = st.pc /\ dir[st.name] # None
  /\ Ends /\ Reads /\ UNCHANGED <<remote, ghosts>>
StageFound ==
  \E st \in StageSteps :
    /\ proc.pc = st.pc /\ dir[st.name] # None
    /\ IF Data(dir[st.name]) = Seed THEN At(st.next) ELSE Ends
    /\ Reads /\ UNCHANGED <<remote, ghosts>>

StageOpened ==
  \E st \in StageSteps, i \in FreeInodes :
    /\ proc.pc = st.pc /\ dir[st.name] = None /\ At(st.write)
    /\ Moved([dir EXCEPT ![st.name] = File(i, Torn)])
    /\ UNCHANGED <<remote, ghosts>>

StageWritten ==
  \E st \in StageSteps :
    /\ proc.pc = st.write /\ At(st.next)
    /\ Synced([dir EXCEPT ![st.name].data = Seed])
    /\ UNCHANGED <<remote, ghosts>>

ConfigState == IF Data(dir.config) = Journal.base THEN "old"
               ELSE IF Data(dir.config) = Seed THEN "new" ELSE "drift"
KeyState == IF dir.key = None THEN IF Journal.prior = None THEN "absent" ELSE "drift"
            ELSE IF Data(dir.key) = Seed THEN "new"
            ELSE IF Data(dir.key) = Journal.prior THEN "old" ELSE "drift"
Token(state, stage, was) ==
  [state |-> state, stage |-> stage.id, was |-> IF was = None THEN 0 ELSE was.id]

FirstLook == proc' = [pc |-> "look", n |-> 1, changed |-> FALSE]

(* _prepare_register_key_publication: what both names hold now *)
Baselines ==
  /\ proc.pc = "baseline"
  /\ IF "drift" \in {ConfigState, KeyState}
       THEN Ends /\ Reads
       ELSE /\ FirstLook
            /\ Wrote([Journal EXCEPT !.phase = "publishing",
                        !.config = Token(ConfigState, dir.cstage, dir.config),
                        !.key = Token(KeyState, dir.kstage, dir.key)])
  /\ UNCHANGED <<remote, ghosts>>

(* the token an operator's restored copy of the old bytes gets *)
Readopted(token, file, stage, old) ==
  IF /\ token.state = "old" /\ stage # None /\ Matches(stage, token.stage, Seed)
     /\ file # None /\ file.data = old
  THEN [token EXCEPT !.was = file.id] ELSE token

(* _adopt_restored_publication_baselines *)
Adopts ==
  LET updated == [Journal EXCEPT
        !.config = Readopted(@, dir.config, dir.cstage, Journal.base),
        !.key = Readopted(@, dir.key, dir.kstage, Journal.prior)]
  IN /\ proc.pc = "adopt" /\ FirstLook
     /\ IF updated = Journal THEN Reads ELSE Wrote(updated)
     /\ UNCHANGED <<remote, ghosts>>

(***************************************************************************)
(* Publication: config, config, key, config, key                           *)
(***************************************************************************)

Role == IF proc.n \in {3, 5} THEN "key" ELSE "config"
Tok == IF Role = "key" THEN Journal.key ELSE Journal.config
Old == IF Role = "key" THEN Journal.prior ELSE Journal.base
Dest == IF Role = "key" THEN dir.key ELSE dir.config
Stage == IF Role = "key" THEN dir.kstage ELSE dir.cstage

Installed == Matches(Dest, Tok.stage, Seed)
Holding == Matches(Stage, Tok.was, Old)
Already == Tok.state = "new" /\ Matches(Dest, Tok.was, Seed)
Completed == /\ Tok.state # "new" /\ Installed
             /\ IF Tok.state = "absent" THEN Stage = None ELSE Holding
Interrupted == /\ Tok.state = "old" /\ Installed /\ Stage # None /\ ~Holding
Ready == /\ Tok.state # "new" /\ ~Installed /\ Matches(Stage, Tok.stage, Seed)
         /\ IF Tok.state = "absent" THEN Dest = None
                                    ELSE Matches(Dest, Tok.was, Old)

Next5(changed) ==
  proc' = [pc |-> IF proc.n = 5 THEN "match" ELSE "look",
           n |-> IF proc.n = 5 THEN 0 ELSE proc.n + 1,
           changed |-> IF proc.n = 3 THEN changed ELSE proc.changed]

(* _transition_register_key_artifact up to its system call *)
Looks ==
  /\ proc.pc = "look"
  /\ CASE Already \/ Completed -> Next5(FALSE)
       [] Interrupted -> At("compensate")
       [] Ready -> At("swap")
       [] OTHER -> Refuses
  /\ Reads /\ UNCHANGED <<remote, ghosts>>

(* the crash-window compensation: the displaced file goes back *)
Compensates ==
  /\ proc.pc = "compensate" /\ Refuses
  /\ IF Dest = None THEN Reads
     ELSE IF Installed THEN Synced(Exchanged(dir, Role))
     ELSE Moved(Exchanged(dir, Role))
  /\ UNCHANGED <<remote, ghosts>>

(* the rename: whatever the names hold at that moment is exchanged; a      *)
(* destination that appeared (noreplace) or vanished (exchange) fails it   *)
Swaps ==
  /\ proc.pc = "swap"
  /\ IF (Dest = None) # (Tok.state = "absent")
       THEN Refuses /\ Reads
       ELSE At("check") /\ Moved(Exchanged(dir, Role))
  /\ UNCHANGED <<remote, ghosts>>

(* the readback: both names as planned, or the exact inverse *)
Checks ==
  /\ proc.pc = "check"
  /\ IF Installed /\ (Tok.state = "old" => Holding)
       THEN At("readback") /\ Synced(dir)
       ELSE /\ IF Tok.state = "old" /\ Dest # None THEN At("inverse") ELSE Refuses
            /\ Reads
  /\ UNCHANGED <<remote, ghosts>>

Inverts ==
  /\ proc.pc = "inverse" /\ Refuses
  /\ IF Dest = None THEN Reads ELSE Moved(Exchanged(dir, Role))
  /\ UNCHANGED <<remote, ghosts>>

ReadsBack ==
  /\ proc.pc = "readback"
  /\ IF Installed THEN Next5(TRUE) ELSE Refuses
  /\ Reads /\ UNCHANGED <<remote, ghosts>>

KeyRollable ==
  /\ Matches(dir.key, Journal.key.stage, Seed)
  /\ IF Journal.key.state = "absent" THEN dir.kstage = None
     ELSE Matches(dir.kstage, Journal.key.was, Journal.prior)

(* _rollback_register_key_transition of the key, when provable *)
RollbackLooks ==
  /\ proc.pc = "rollback"
  /\ IF KeyRollable THEN At("rollswap") ELSE Ends
  /\ Reads /\ UNCHANGED <<remote, ghosts>>

RollsBack ==
  /\ proc.pc = "rollswap" /\ Ends
  /\ IF dir.key = None THEN Reads
     ELSE IF KeyRollable THEN Synced(Exchanged(dir, "key"))
     ELSE Moved(Exchanged(dir, "key"))
  /\ UNCHANGED <<remote, ghosts>>

(* _pending_artifacts_match, on the way to or again in the published phase *)
MatchesAll ==
  /\ proc.pc = "match"
  /\ IF Data(dir.key) # Seed \/ Data(dir.config) # Seed THEN Ends
     ELSE At(IF Journal.phase = "published" THEN "sweepkey" ELSE "publish")
  /\ Reads /\ UNCHANGED <<remote, ghosts>>

Publishes ==
  /\ proc.pc = "publish" /\ Phased("published") /\ At("sweepkey")
  /\ UNCHANGED <<remote, ghosts>>

(* _cleanup_register_key_stages *)
SweepsKey ==
  /\ proc.pc = "sweepkey" /\ At("sweepconfig")
  /\ Synced([dir EXCEPT !.kstage = None])
  /\ UNCHANGED <<remote, ghosts>>

SweepsConfig ==
  /\ proc.pc = "sweepconfig" /\ At("retire")
  /\ Synced([dir EXCEPT !.cstage = None])
  /\ UNCHANGED <<remote, ghosts>>

(* _retire_register_key_journal *)
Retires ==
  /\ proc.pc = "retire" /\ Ends
  /\ Synced([dir EXCEPT !.pending = None])
  /\ UNCHANGED <<remote, ghosts>>

(***************************************************************************)
(* The relay, the operator and failures                                    *)
(***************************************************************************)

(* the relay's handler: a key is registered where there is none or the     *)
(* same one; it may refuse (limits) or its answer may be lost              *)
RelayRegisters(s) ==
  /\ s \in late /\ late' = late \ {s}
  /\ relayKey \in {None, s} /\ relayKey' = s
  /\ accepted' = accepted \union {s}
  /\ answer' = IF proc.pc = "wait" /\ Seed = s THEN "ok" ELSE answer
  /\ Reads /\ UNCHANGED <<posted, proc, ghosts>>

RelayRefuses(s) ==
  /\ s \in late /\ late' = late \ {s}
  /\ answer' = IF proc.pc = "wait" /\ Seed = s THEN "refused" ELSE answer
  /\ Reads /\ UNCHANGED <<relayKey, accepted, posted, proc, ghosts>>

RequestLost ==
  /\ \E s \in late : late' = late \ {s}
  /\ Reads /\ UNCHANGED <<relayKey, accepted, posted, answer, proc, ghosts>>

(* another client with the same token, or the relay's operator *)
KeySetElsewhere ==
  /\ relayKey # Other /\ relayKey' = Other
  /\ Reads /\ UNCHANGED <<late, accepted, posted, answer, proc, ghosts>>

Held(d) == {d.pending.seed : x \in {d.pending} \ {None}} \union d.rejected
           \union {Data(d.key), Data(d.kstage)}

(* the operator replaces a file by rename (a new inode), removes the key,  *)
(* or puts back the bytes a pending transaction started from               *)
Baseline(name) ==
  IF Journal = None THEN None
  ELSE IF name = "config" THEN Journal.base ELSE Journal.prior
Edited(name, file) ==
  LET Ids(f) == IF f = None THEN {} ELSE {f.id}
      own == Data(file) = Foreign /\ Baseline(name) # Foreign
      d == [dir EXCEPT ![name] = file,
              !.theirs = (@ \ Ids(dir[name])) \union (IF own THEN Ids(file) ELSE {})]
      lost == IF proc.pc \in Verified /\ name = "key" THEN {Data(dir.key)} ELSE Held(dir) \ Held(d)
  IN Moved(d) /\ discarded' = discarded \union (lost \intersect Seeds)

OperatorEdits ==
  /\ edits < MaxEdits /\ edits' = edits + 1
  /\ \E i \in FreeInodes :
       \/ Edited("config", File(i, Foreign))
       \/ Edited("key", File(i, Foreign))
       \/ dir.key # None /\ Edited("key", None)
       \/ Journal # None /\ Edited("config", File(i, Journal.base))
       \/ Journal # None /\ Journal.prior # None /\ Edited("key", File(i, Journal.prior))
  /\ UNCHANGED <<proc, remote, made, crashes>>

Crash ==
  /\ proc # Idle /\ crashes < MaxCrashes /\ crashes' = crashes + 1
  /\ Ends /\ answer' = None
  /\ Reads /\ UNCHANGED <<relayKey, late, accepted, posted, discarded, made, edits>>

PowerLoss ==
  /\ crashes < MaxCrashes /\ crashes' = crashes + 1
  /\ \E d \in durable : dir' = d /\ durable' = {d}
  /\ proc' = Idle /\ answer' = None
  /\ UNCHANGED <<relayKey, late, accepted, posted, discarded, made, edits>>

(***************************************************************************)
(* Specification                                                           *)
(***************************************************************************)

Init ==
  /\ \E key \in {None, File(2, Legacy)} :
       dir = [config |-> File(1, Legacy), key |-> key, cstage |-> None,
              kstage |-> None, pending |-> None, rejected |-> {}, theirs |-> {}]
  /\ durable = {dir}
  /\ proc = Idle /\ relayKey = None /\ late = {} /\ accepted = {}
  /\ posted = {} /\ answer = None /\ discarded = {} /\ made = 0
  /\ crashes = 0 /\ edits = 0

Command ==
  \/ Marks \/ Posts \/ Answered \/ StatusRead \/ Quarantines \/ Accepts
  \/ StageFound \/ StageOpened \/ StageWritten \/ Baselines \/ Adopts
  \/ Looks \/ Compensates \/ Swaps \/ Checks \/ Inverts \/ ReadsBack
  \/ RollbackLooks \/ RollsBack \/ MatchesAll \/ Publishes \/ SweepsKey \/ SweepsConfig
  \/ Retires

Next ==
  \/ Begins \/ Resumes \/ Command \/ OutcomeUnknown \/ StatusUnavailable
  \/ \E s \in Seeds : RelayRegisters(s) \/ RelayRefuses(s)
  \/ RequestLost \/ KeySetElsewhere \/ OperatorEdits \/ Crash \/ PowerLoss

(* The client process runs; the command is repeated while a journal is     *)
(* pending, as its messages ask, and gives up on an answer after its       *)
(* timeout; the relay answers now and then.                                *)
Fairness ==
  /\ WF_vars(Command) /\ WF_vars(Resumes) /\ WF_vars(OutcomeUnknown)
  /\ SF_vars(Answered)
  /\ \A pc \in {"status", "verify"} : SF_vars(StatusRead /\ proc.pc = pc)
  /\ \A s \in Seeds : SF_vars((RelayRegisters(s) \/ RelayRefuses(s)) /\ proc.pc = "wait")

Spec == Init /\ [][Next]_vars /\ Fairness

Images == durable \union {dir}

Dirs ==
  [config : Files \union {None}, key : Files \union {None}, cstage : Files \union {None},
   kstage : Files \union {None}, pending : Journals \union {None},
   rejected : SUBSET Seeds, theirs : SUBSET Nat]

TypeOK ==
  /\ dir \in durable /\ durable \subseteq Dirs
  /\ Journal # None => WellFormed(Journal)
  /\ proc \in [pc : Steps, n : 0..5, changed : BOOLEAN]
  /\ relayKey \in Seeds \union {None, Other}
  /\ late \subseteq posted /\ accepted \subseteq posted
  /\ posted \subseteq Seeds /\ \A s \in posted : s <= made
  /\ answer \in Answers \union {None}
  /\ made \in Nat /\ discarded \subseteq Seeds

(* A seed that was ever sent is on disk whatever the power loss leaves:    *)
(* in the journal, in a quarantined journal, in the key file or its stage; *)
(* only an operator who destroys the last copy, or the key file once it    *)
(* was verified and the journal is being retired, loses it.                *)
SeedNeverLost ==
  \A s \in posted \ discarded : \A d \in Images : s \in Held(d)

(* What the operator puts in place while a transaction is pending is never overwritten or unlinked   *)
(* by the transaction: it stays under one of the names.                    *)
ForeignKept ==
  \A d \in Images : \A i \in d.theirs :
    \E f \in {d.config, d.key, d.cstage, d.kstage} : f = File(i, Foreign)

(* No local name shows a candidate the relay never accepted.               *)
PublishedWasAccepted ==
  \A d \in Images : \A s \in Seeds :
    s \in {Data(d.config), Data(d.key)} => s \in accepted

(* A pending transaction ends, in a registration or in quarantine, however *)
(* often the process dies; what can keep it is an intervention of the      *)
(* operator or a stage whose write was cut short.                          *)
Settles ==
  (Journal # None) ~>
    \/ Journal = None \/ edits > 0
    \/ Torn \in {Data(dir.cstage), Data(dir.kstage)}
=============================================================================
