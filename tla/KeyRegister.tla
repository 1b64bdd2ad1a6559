---------------------------- MODULE KeyRegister ----------------------------
(***************************************************************************)
(* What the relay promises about identity keys, without its two stores,    *)
(* its transactions and the steps between them: each peer has at most one  *)
(* key, a registration takes effect at one instant or not at all, and a    *)
(* peer that got a definite answer knows the key.  A registration that     *)
(* never answers leaves its peer unsure, and may still take effect.        *)
(* RegisterKey implements this module.                                     *)
(***************************************************************************)

CONSTANTS Peer,
          Key, NoKey,   \* identity keys; no (valid) key
          Unsure,       \* no answer, or one that leaves the outcome open
          HostFails     \* whether the host may lose writes already visible

VARIABLES held,         \* the key that the relay, once restarted, brings up
          told          \* the key that the peer knows it has, or Unsure

registerVars == <<held, told>>

RegisterTypeOK ==
  /\ held \in [Peer -> Key \union {NoKey}]
  /\ told \in [Peer -> Key \union {NoKey, Unsure}]

-----------------------------------------------------------------------------
RegisterInit == held = [x \in Peer |-> NoKey] /\ told = held

Free(x, k) == \A y \in Peer \ {x} : held[y] # k

(* A request is being worked on: until it is answered its peer is unsure.  *)
Ask(x) == told' = [told EXCEPT ![x] = Unsure] /\ UNCHANGED held

(* It takes effect, perhaps long after its peer gave up on it.             *)
Take(x, k) ==
  /\ told[x] = Unsure /\ Free(x, k)
  /\ held' = [held EXCEPT ![x] = k]
  /\ UNCHANGED told

(* Accepted or refused, the answer settles which key the peer has.         *)
Tell(x) == told' = [told EXCEPT ![x] = held[x]] /\ UNCHANGED held

(* A self-enrollment brings its key along.                                 *)
Join(x, k) ==
  /\ held[x] = NoKey /\ Free(x, k)
  /\ held' = [held EXCEPT ![x] = k]
  /\ told' = [told EXCEPT ![x] = k]

(* A host failure brings older keys back, never where the peer was told.   *)
Forget ==
  /\ HostFails
  /\ held' \in [Peer -> Key \union {NoKey}]
  /\ \A x \in Peer : told[x] # Unsure => held'[x] = held[x]
  /\ UNCHANGED told

RegisterNext ==
  \/ \E x \in Peer : Ask(x) \/ Tell(x)
  \/ \E x \in Peer, k \in Key : Take(x, k) \/ Join(x, k)
  \/ Forget

RegisterSpec == RegisterInit /\ [][RegisterNext]_registerVars

-----------------------------------------------------------------------------
(* What a peer was definitely told is what a restart brings up: a client   *)
(* may drop the key it replaced.                                           *)
ToldIsHeld == \A x \in Peer : told[x] # Unsure => told[x] = held[x]

(* No two peers hold one key, as long as the host loses no write.          *)
OneHolder ==
  \A x, y \in Peer : x # y /\ held[x] = held[y] => held[x] = NoKey

(* A registered key is replaced by a key and never lost, and only while    *)
(* its peer has a request outstanding or an answer that left it unsure.    *)
KeyStays ==
  [][\A x \in Peer :
       held[x] # NoKey => /\ held'[x] # NoKey
                          /\ told[x] # Unsure => held'[x] = held[x]]_registerVars
=============================================================================
