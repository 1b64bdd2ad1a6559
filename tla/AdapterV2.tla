----------------------------- MODULE AdapterV2 -----------------------------
(***************************************************************************)
(* The adapter for signed, encrypted messages (federation_e2ee_v2.py) on   *)
(* top of the route snapshots.  A first departure must pass the gate: the  *)
(* context the owner signed has to agree with the routes of both ends, and *)
(* the configured endpoint with the sender's.  A reservation is the proof  *)
(* that lets a retry skip it.  The adapter dies at any point; the          *)
(* authority's own life cycle is the module Authority.                     *)
(***************************************************************************)
EXTENDS Cns

CONSTANTS
    Sent, Received, \* ids of messages to send and to receive
    Ctx,            \* what the owner signed: the sender's and the recipient's route
    Me,             \* our peer name at the configured endpoint
    Configured      \* binding of the configured endpoint and its pin

VARIABLES
    call,       \* where send() or receive() stands with a message
    payloads,   \* runtime_payloads
    resv,       \* messages with a reservation, and its state
    inbox,      \* runtime_inbox
    published,  \* history: routes of the snapshots projected so far
    served      \* history: routes that were active at some time since the call began

adapterVars == <<call, payloads, resv, inbox>>
vars == <<cnsVars, adapterVars, published, served>>

Msgs == Sent \cup Received

Init ==
    /\ CnsInit
    /\ call = [m \in Msgs |-> "idle"]
    /\ served = [m \in Msgs |-> {}]
    /\ payloads = {} /\ inbox = {} /\ published = {}
    /\ resv = [m \in Sent |-> "none"]

\* Identity, home, generation and keys of the context are those of the route.
Agrees(signed, r) ==
    signed.identity = r.identity /\ signed.gen = r.gen /\ signed.binding = r.binding

\* Defect: a journaled payload counts as proof.
ProvenByPayload(m) == m \in payloads
\* A reservation exists only after a gate.
GateProven(m) == m \in payloads /\ resv[m] # "none"

At(m, from, to) == call[m] = from /\ call' = [call EXCEPT ![m] = to]

SendBegin(m) ==
    /\ At(m, "idle", IF GateProven(m) THEN "act" ELSE "sender")
    /\ served' = [served EXCEPT ![m] = Active]
    /\ UNCHANGED <<cnsVars, payloads, resv, inbox, published>>

\* The transport binding: configured endpoint and pin against the local route.
Bound(r) == r.binding = Configured

\* The gate resolves the two ends one after the other.
GateSender(m) ==
    /\ At(m, "sender", "recipient")
    /\ \E r \in Active : /\ Resolves(Ctx[m].from.peer, r) /\ Agrees(Ctx[m].from, r)
                         /\ m \in Sent => Bound(r)
    /\ UNCHANGED <<cnsVars, payloads, resv, inbox, published, served>>

\* Defect: the recipient's generation and keys are not compared.
GateRecipientByName(m) ==
    /\ At(m, "recipient", IF m \in Sent THEN "journal" ELSE "persist")
    /\ \E r \in Active : Resolves(Ctx[m].to.peer, r)
    /\ UNCHANGED <<cnsVars, payloads, resv, inbox, published, served>>
GateRecipient(m) ==
    /\ At(m, "recipient", IF m \in Sent THEN "journal" ELSE "persist")
    /\ \E r \in Active : Resolves(Ctx[m].to.peer, r) /\ Agrees(Ctx[m].to, r)
    /\ UNCHANGED <<cnsVars, payloads, resv, inbox, published, served>>

Journal(m) ==
    /\ At(m, "journal", "act")
    /\ payloads' = payloads \cup {m}
    /\ UNCHANGED <<cnsVars, resv, inbox, published, served>>

\* action(): held without a reservation, or reserved and handed to the transport
\* with any outcome.  A terminal reservation is only reported.
Act(m) ==
    /\ At(m, "act", "idle")
    /\ \/ UNCHANGED resv
       \/ /\ resv[m] \notin {"sent", "released"}
          /\ \E outcome \in {"sent", "failed-unknown", "released"} :
                 resv' = [resv EXCEPT ![m] = outcome]
    /\ UNCHANGED <<cnsVars, payloads, inbox, published, served>>

\* receive(): the endpoint is bound to our own route before it is polled; what is
\* in the inbox is acknowledged again without a gate.
ReceiveBegin(x) ==
    /\ At(x, "idle", IF x \in inbox THEN "persist" ELSE "sender")
    /\ \E r \in Active : Resolves(Me, r) /\ Bound(r)
    /\ served' = [served EXCEPT ![x] = Active]
    /\ UNCHANGED <<cnsVars, payloads, resv, inbox, published>>

Persist(x) ==
    /\ At(x, "persist", "idle")
    /\ inbox' = inbox \cup {x}
    /\ UNCHANGED <<cnsVars, payloads, resv, published, served>>

\* The gate refuses, the grant does, or the process dies.
Dies(m) ==
    /\ call[m] # "idle"
    /\ call' = [call EXCEPT ![m] = "idle"]
    /\ UNCHANGED <<cnsVars, payloads, resv, inbox, published, served>>

Routing ==
    /\ CnsNext
    /\ published' = IF meta' = None THEN published ELSE published \cup meta'.routes
    /\ served' = [m \in Msgs |-> served[m] \cup Active']
    /\ UNCHANGED adapterVars

Next ==
    \/ Routing
    \/ \E m \in Sent : SendBegin(m) \/ Journal(m) \/ Act(m)
    \/ \E x \in Received : ReceiveBegin(x) \/ Persist(x)
    \/ \E m \in Msgs : GateSender(m) \/ GateRecipient(m) \/ Dies(m)

Spec == Init /\ [][Next]_vars

-----------------------------------------------------------------------------
(* Properties.                                                             *)

\* Tables hold rows of their schema, calls stand where they can.
TypeOK ==
    /\ meta \in Snapshots \cup {None}
    /\ rows \in [Identities -> [route : Routes, disabled : BOOLEAN] \cup {None}]
    /\ now \in Nat
    /\ loading \in [Loaders -> Loads \cup {None}]
    /\ call \in [Msgs -> {"idle", "sender", "recipient", "journal", "act", "persist"}]
    /\ resv \in [Sent -> {"none", "sent", "failed-unknown", "released"}]
    /\ payloads \subseteq Sent /\ inbox \subseteq Received /\ published \subseteq Routes
    /\ served \in [Msgs -> SUBSET Routes]

\* With one loader at a time, what can be resolved is what the last snapshot lists, and
\* all of its identities.
ServesLatest ==
    meta # None =>
        /\ Active \subseteq meta.routes
        /\ Named(meta) = {r.identity : r \in Active}

\* A message leaves, or is stored, for the first time.
Departs(m) ==
    \/ m \in Sent /\ resv[m] = "none" /\ resv'[m] # "none"
    \/ m \in Received /\ m \notin inbox /\ m \in inbox'

\* A first departure rests on routes that were in force during this very call, its
\* sender's with the endpoint it leaves by: neither a payload journaled before a crash
\* nor a hold lets it go by routes that were rotated before the call.
FirstDepartureIsGated ==
    [][\A m \in Msgs : Departs(m) =>
        /\ \E r \in served[m] : /\ r.peer = Ctx[m].from.peer /\ Agrees(Ctx[m].from, r)
                                /\ m \in Sent => Bound(r)
        /\ \E r \in served[m] : r.peer = Ctx[m].to.peer /\ Agrees(Ctx[m].to, r)]_vars

\* What left or was stored was signed for routes that the authority published:
\* both ends were, each in some snapshot that was projected.
OnlyPublishedContexts ==
    \A m \in Msgs : (IF m \in Sent THEN resv[m] # "none" ELSE m \in inbox) =>
        \A end \in {Ctx[m].from, Ctx[m].to} :
            \E r \in published : r.peer = end.peer /\ Agrees(end, r)

=============================================================================
