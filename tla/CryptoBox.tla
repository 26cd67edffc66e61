------------------------------ MODULE CryptoBox ------------------------------
(***************************************************************************)
(* One direction of an encrypted session: the CryptoBox of the sender, the *)
(* CryptoBox of the receiver (core/protocol/crypto.py), and a network that *)
(* loses, repeats and reorders what was sealed.                            *)
(*                                                                         *)
(* AES-GCM is external: a ciphertext opens exactly under the key that      *)
(* sealed it.  A nonce is the message counter, so the pair (key, counter)  *)
(* must never be used for two messages.  Bulk data takes its pair on the   *)
(* event loop (reserve) and is encrypted later in a worker thread, so a    *)
(* re-key can fall between the two: Reserve and Seal are separate steps.   *)
(***************************************************************************)
EXTENDS Integers, FiniteSets

CONSTANTS Keys,         \* session keys of this direction, one per handshake
          NoKey,        \* no handshake has completed on this box
          Msgs,         \* the messages sealed
          NoNonce,      \* a message that has not taken a nonce yet
          Window,       \* REPLAY_WINDOW
          MaxCounter    \* the counter limit (2^63 in the code)

ASSUME WindowAssumption == Window \in Nat \ {0}
ASSUME MaxCounterAssumption == MaxCounter \in Nat
ASSUME NoKeyAssumption == NoKey \notin Keys

Nonces == [key : Keys, counter : Nat]

ASSUME NoNonceAssumption == NoNonce \notin Nonces

VARIABLES
    sendKey,        \* _keys.send_key of the sender's box
    sendCounter,    \* _send_counter
    recvKey,        \* _keys.recv_key of the receiver's box
    recvHighest,    \* _recv_highest
    recvSeen,       \* _recv_seen
    sendInstalled,  \* keys the sender's handshakes have produced so far
    recvInstalled,  \* keys the receiver's handshakes have produced so far
    reserved,       \* the key and counter each message took, if any
    sealed,         \* messages encrypted: on the wire, for good
    accepted        \* how often decrypt returned each message

sendVars == <<sendKey, sendCounter, sendInstalled>>
recvVars == <<recvKey, recvHighest, recvSeen, recvInstalled>>
wireVars == <<reserved, sealed>>
vars == <<sendVars, recvVars, wireVars, accepted>>

TypeOK ==
    /\ sendKey \in Keys \cup {NoKey}
    /\ recvKey \in Keys \cup {NoKey}
    /\ sendCounter \in 0..MaxCounter
    /\ recvHighest \in Nat \cup {-1}
    /\ recvSeen \in SUBSET Nat
    /\ sendInstalled \in SUBSET Keys
    /\ recvInstalled \in SUBSET Keys
    /\ reserved \in [Msgs -> Nonces \cup {NoNonce}]
    /\ sealed \in SUBSET Msgs
    /\ accepted \in [Msgs -> Nat]

Init ==
    /\ sendKey = NoKey /\ sendCounter = 0 /\ sendInstalled = {}
    /\ recvKey = NoKey /\ recvHighest = -1 /\ recvSeen = {} /\ recvInstalled = {}
    /\ reserved = [m \in Msgs |-> NoNonce]
    /\ sealed = {}
    /\ accepted = [m \in Msgs |-> 0]

------------------------------------------------------------------------------
(* set_keys, one operator per box.  A handshake either repeats the keys the
   box already has (a repeated answer) or produces keys never used before:
   both ephemeral keys are fresh and an opening or answer is taken once.    *)

Fresh(k, current, installed) == k = current \/ k \notin installed

(* Mutated: the counter starts again for keys the box already has. *)
SendKeysAnew(k) ==
    /\ sendKey' = k
    /\ sendCounter' = 0
    /\ sendInstalled' = sendInstalled \cup {k}

SendKeys(k) ==
    IF k = sendKey
    THEN UNCHANGED sendVars
    ELSE /\ sendKey' = k
         /\ sendCounter' = 0
         /\ sendInstalled' = sendInstalled \cup {k}

(* Mutated: the window is forgotten for keys the box already has. *)
RecvKeysAnew(k) ==
    /\ recvKey' = k
    /\ recvHighest' = -1
    /\ recvSeen' = {}
    /\ recvInstalled' = recvInstalled \cup {k}

RecvKeys(k) ==
    IF k = recvKey
    THEN UNCHANGED recvVars
    ELSE /\ recvKey' = k
         /\ recvHighest' = -1
         /\ recvSeen' = {}
         /\ recvInstalled' = recvInstalled \cup {k}

SetSendKeys(k) == /\ Fresh(k, sendKey, sendInstalled)
                  /\ SendKeys(k)
                  /\ UNCHANGED <<recvVars, wireVars, accepted>>

SetRecvKeys(k) == /\ Fresh(k, recvKey, recvInstalled)
                  /\ RecvKeys(k)
                  /\ UNCHANGED <<sendVars, wireVars, accepted>>

(* A link is replaced (reconnect, path switch): its box starts without keys. *)
NewSendBox == /\ sendKey' = NoKey /\ sendCounter' = 0
              /\ UNCHANGED <<sendInstalled, recvVars, wireVars, accepted>>

NewRecvBox == /\ recvKey' = NoKey /\ recvHighest' = -1 /\ recvSeen' = {}
              /\ UNCHANGED <<recvInstalled, sendVars, wireVars, accepted>>

------------------------------------------------------------------------------
(* reserve: the next counter together with the key it belongs to.           *)
CanReserve == sendKey # NoKey /\ sendCounter < MaxCounter

(* Mutated: the counter is taken but not moved on. *)
ReserveSame(m) ==
    /\ reserved[m] = NoNonce
    /\ CanReserve
    /\ reserved' = [reserved EXCEPT ![m] = [key |-> sendKey, counter |-> sendCounter]]
    /\ UNCHANGED <<sendVars, recvVars, sealed, accepted>>

Reserve(m) ==
    /\ reserved[m] = NoNonce
    /\ CanReserve
    /\ reserved' = [reserved EXCEPT ![m] = [key |-> sendKey, counter |-> sendCounter]]
    /\ sendCounter' = sendCounter + 1
    /\ UNCHANGED <<sendKey, sendInstalled, recvVars, sealed, accepted>>

(* The worker thread encrypts with the pair it was given.                   *)
Seal(m) ==
    /\ reserved[m] # NoNonce
    /\ m \notin sealed
    /\ sealed' = sealed \cup {m}
    /\ UNCHANGED <<sendVars, recvVars, reserved, accepted>>

(* Mutated: everything below the highest counter counts as a replay. *)
ReplayedInOrder(c) == c <= recvHighest \/ c \in recvSeen

(* Mutated: a counter that was pruned is no longer refused. *)
ReplayedIfSeen(c) == c \in recvSeen

(* decrypt refuses a counter that was seen or fell out of the window.       *)
Replayed(c) == c <= recvHighest - Window \/ c \in recvSeen

(* What decrypt records once the ciphertext is authentic.                   *)
Record(c) ==
    LET seen == recvSeen \cup {c}
    IN  /\ recvHighest' = IF c > recvHighest THEN c ELSE recvHighest
        /\ recvSeen' = IF c > recvHighest /\ Cardinality(seen) > 2 * Window
                       THEN {x \in seen : x > c - Window}
                       ELSE seen

(* A copy of a sealed message arrives; one under other keys, or a replay,
   raises and changes nothing.                                              *)
Decrypt(m) ==
    /\ m \in sealed
    /\ recvKey # NoKey
    /\ ~Replayed(reserved[m].counter)
    /\ reserved[m].key = recvKey
    /\ Record(reserved[m].counter)
    /\ accepted' = [accepted EXCEPT ![m] = @ + 1]
    /\ UNCHANGED <<recvKey, recvInstalled, sendVars, wireVars>>

Next ==
    \/ \E k \in Keys : SetSendKeys(k) \/ SetRecvKeys(k)
    \/ NewSendBox
    \/ NewRecvBox
    \/ \E m \in Msgs : Reserve(m) \/ Seal(m) \/ Decrypt(m)

Spec == Init /\ [][Next]_vars

------------------------------------------------------------------------------
(* Properties                                                               *)

(* No two messages ever share a nonce under one key, across repeated
   handshake answers, re-keys that fall between reserve and the encryption
   in a worker thread, and replaced links (crypto.py, set_keys/reserve).    *)
NonceUnique ==
    \A m, n \in Msgs :
        m # n /\ reserved[m] # NoNonce => reserved[m] # reserved[n]

(* A message is returned by decrypt at most once, however often the network
   repeats it, also after its counter was pruned from the seen set and after
   the keys were set again (crypto.py, decrypt).                            *)
AtMostOnce == \A m \in Msgs : accepted[m] <= 1

(* Out-of-order delivery is accepted: a genuine message under the current
   keys that was not returned yet, and is within the window, is not taken
   for a replay (crypto.py, CryptoBox docstring).                           *)
InWindowAccepted ==
    \A m \in sealed :
        /\ reserved[m].key = recvKey
        /\ accepted[m] = 0
        /\ reserved[m].counter > recvHighest - Window
        => ~Replayed(reserved[m].counter)

(* The session direction is an at-most-once channel.                        *)
Channel == INSTANCE AtMostOnceChannel WITH sent <- sealed, delivered <- accepted
ChannelSpec == Channel!ChanSpec

------------------------------------------------------------------------------
(* The inductive invariant behind NonceUnique, AtMostOnce and
   InWindowAccepted.                                                        *)

(* Every key in use or used by a message was installed, and a message under
   the current send key has a counter below the next one.                   *)
SendInv ==
    /\ sendKey # NoKey => sendKey \in sendInstalled
    /\ \A m \in Msgs : reserved[m] # NoNonce =>
         /\ reserved[m].key \in sendInstalled
         /\ reserved[m].key = sendKey => reserved[m].counter < sendCounter

(* A message that was returned was sealed, under a key the receiver had; if
   that is the current key, its counter is refused from now on.             *)
RecvInv ==
    /\ recvKey # NoKey => recvKey \in recvInstalled
    /\ \A m \in sealed : reserved[m] # NoNonce
    /\ \A m \in Msgs : accepted[m] > 0 =>
         /\ m \in sealed
         /\ reserved[m].key \in recvInstalled
         /\ reserved[m].key = recvKey => Replayed(reserved[m].counter)

(* Only counters of returned messages are in the seen set.                  *)
SeenInv ==
    \A c \in recvSeen :
        \E m \in sealed : /\ reserved[m] = [key |-> recvKey, counter |-> c]
                          /\ accepted[m] > 0

IInv == TypeOK /\ SendInv /\ NonceUnique /\ RecvInv /\ SeenInv /\ AtMostOnce
==============================================================================
