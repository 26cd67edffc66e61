--------------------------- MODULE CryptoBoxProofs ---------------------------
(***************************************************************************)
(* Theorems about CryptoBox, for every set of keys and messages, every     *)
(* window and every counter limit.  The inductive invariant IInv is        *)
(* established once; the safety properties and the refinement of the       *)
(* at-most-once channel follow from it.                                    *)
(***************************************************************************)
EXTENDS CryptoBox, TLAPS

(* A window only moves forward: what fell out of it stays out.              *)
LEMMA WindowMoves ==
    ASSUME NEW h \in Int, NEW g \in Int, h <= g, NEW d \in Int, d <= h - Window
    PROVE  d <= g - Window
BY WindowAssumption

(* What decrypt records covers the counter it accepted, and forgets no
   counter that would still pass the window check.                          *)
LEMMA RecordKeepsReplayed ==
    ASSUME TypeOK, NEW c \in Nat, Record(c)
    PROVE  /\ recvHighest' \in Nat
           /\ recvSeen' \in SUBSET Nat
           /\ recvSeen' \subseteq recvSeen \cup {c}
           /\ Replayed(c)'
           /\ \A d \in Nat : Replayed(d) => Replayed(d)'
<1> USE WindowAssumption
<1> DEFINE seen == recvSeen \cup {c}
<1>0. recvHighest \in Nat \cup {-1} /\ recvSeen \in SUBSET Nat
  BY DEF TypeOK
<1>1. recvHighest' = IF c > recvHighest THEN c ELSE recvHighest
  BY DEF Record
<1>2. recvHighest' \in Nat /\ recvHighest <= recvHighest'
  BY <1>0, <1>1
<1>3. CASE recvSeen' = seen
  <2>1. recvSeen' \in SUBSET Nat /\ c \in recvSeen'
    BY <1>0, <1>3
  <2>2. ASSUME NEW d \in Nat, Replayed(d)
        PROVE  Replayed(d)'
    <3>1. ASSUME d <= recvHighest - Window
          PROVE  d <= recvHighest' - Window
      <4>1. recvHighest \in Int /\ recvHighest' \in Int /\ d \in Int
        BY <1>0, <1>2
      <4>2. QED
        BY <1>2, <3>1, <4>1, WindowMoves
    <3>2. QED
      BY <1>3, <2>2, <3>1 DEF Replayed
  <2>3. QED
    BY <1>2, <1>3, <2>1, <2>2 DEF Replayed
<1>4. CASE c > recvHighest /\ recvSeen' = {x \in seen : x > c - Window}
  <2>1. recvHighest' = c
    BY <1>1, <1>4
  <2>2. recvSeen' \in SUBSET Nat /\ recvSeen' \subseteq seen
    BY <1>0, <1>4
  <2>3. c \in recvSeen'
    BY <1>4
  <2>4. ASSUME NEW d \in Nat, Replayed(d)
        PROVE  Replayed(d)'
    <3>1. d <= recvHighest - Window => d <= c - Window
      BY <1>0, <1>4
    <3>2. d \in recvSeen => d \in recvSeen' \/ d <= c - Window
      BY <1>0, <1>4
    <3>3. QED
      BY <2>1, <2>4, <3>1, <3>2 DEF Replayed
  <2>5. QED
    BY <1>2, <2>2, <2>3, <2>4 DEF Replayed
<1>5. QED
  BY <1>3, <1>4 DEF Record

(* The invariant holds before any handshake.                                *)
LEMMA InitIInv == Init => IInv
BY WindowAssumption, MaxCounterAssumption, NoKeyAssumption, NoNonceAssumption
   DEF Init, IInv, TypeOK, SendInv, NonceUnique, RecvInv, SeenInv, AtMostOnce, Nonces

(* What the invariant says depends on these variables only.                 *)
LEMMA UnchangedInv ==
    ASSUME IInv, UNCHANGED vars
    PROVE  IInv'
<1> USE DEF IInv, vars, sendVars, recvVars, wireVars
<1>1. TypeOK'
  BY DEF TypeOK
<1>2. SendInv' /\ NonceUnique' /\ AtMostOnce'
  BY DEF SendInv, NonceUnique, AtMostOnce
<1>3. RecvInv' /\ SeenInv'
  BY DEF RecvInv, SeenInv, Replayed
<1>4. QED
  BY <1>1, <1>2, <1>3

------------------------------------------------------------------------------
(* One lemma per action that disturbs the invariant.                        *)

(* Setting the sender's keys keeps the invariant (set_keys).                *)
LEMMA SetSendKeysInv ==
    ASSUME IInv, NEW k \in Keys, SetSendKeys(k)
    PROVE  IInv'
<1> USE DEF IInv, SetSendKeys, recvVars, wireVars, Fresh
<1>1. CASE k = sendKey
  BY <1>1, UnchangedInv DEF SendKeys, vars
<1>2. CASE k # sendKey
  <2>1. sendKey' = k /\ sendCounter' = 0 /\ sendInstalled' = sendInstalled \cup {k}
    BY <1>2 DEF SendKeys
  <2>2. k \notin sendInstalled
    BY <1>2
  <2>3. TypeOK'
    BY <2>1, MaxCounterAssumption DEF TypeOK
  <2>4. SendInv'
    BY <2>1, <2>2 DEF SendInv
  <2>5. NonceUnique' /\ RecvInv' /\ SeenInv' /\ AtMostOnce'
    BY DEF NonceUnique, RecvInv, SeenInv, AtMostOnce, Replayed
  <2>6. QED
    BY <2>3, <2>4, <2>5
<1>3. QED
  BY <1>1, <1>2

(* Setting the receiver's keys keeps the invariant (set_keys).              *)
LEMMA SetRecvKeysInv ==
    ASSUME IInv, NEW k \in Keys, SetRecvKeys(k)
    PROVE  IInv'
<1> USE DEF IInv, SetRecvKeys, sendVars, wireVars, Fresh
<1>1. CASE k = recvKey
  BY <1>1, UnchangedInv DEF RecvKeys, vars
<1>2. CASE k # recvKey
  <2>1. /\ recvKey' = k /\ recvHighest' = -1 /\ recvSeen' = {}
        /\ recvInstalled' = recvInstalled \cup {k}
    BY <1>2 DEF RecvKeys
  <2>2. k \notin recvInstalled
    BY <1>2
  <2>3. TypeOK'
    BY <2>1 DEF TypeOK
  <2>4. RecvInv'
    BY <2>1, <2>2 DEF RecvInv
  <2>5. SendInv' /\ NonceUnique' /\ AtMostOnce'
    BY DEF SendInv, NonceUnique, AtMostOnce
  <2>6. SeenInv'
    BY <2>1 DEF SeenInv
  <2>7. QED
    BY <2>3, <2>4, <2>5, <2>6
<1>3. QED
  BY <1>1, <1>2

(* Replacing a link, and with it the box, keeps the invariant.              *)
LEMMA NewBoxInv ==
    ASSUME IInv, NewSendBox \/ NewRecvBox
    PROVE  IInv'
<1> USE MaxCounterAssumption, NoKeyAssumption, NoNonceAssumption DEF IInv
<1>1. CASE NewSendBox
  BY <1>1 DEF NewSendBox, recvVars, wireVars, TypeOK, SendInv, NonceUnique, RecvInv,
              SeenInv, AtMostOnce, Replayed, Nonces
<1>2. CASE NewRecvBox
  BY <1>2 DEF NewRecvBox, sendVars, wireVars, TypeOK, SendInv, NonceUnique, RecvInv,
              SeenInv, AtMostOnce, Replayed, Nonces
<1>3. QED
  BY <1>1, <1>2

(* Taking a counter keeps the invariant (reserve).                          *)
LEMMA ReserveInv ==
    ASSUME IInv, NEW m \in Msgs, Reserve(m)
    PROVE  IInv'
<1> USE DEF IInv, Reserve, CanReserve, recvVars
<1> DEFINE nonce == [key |-> sendKey, counter |-> sendCounter]
<1>1. /\ sendKey \in Keys /\ sendKey \in sendInstalled
      /\ sendCounter \in Nat /\ sendCounter + 1 \in 0..MaxCounter
  BY MaxCounterAssumption DEF TypeOK, SendInv
<1>2. nonce \in Nonces /\ nonce # NoNonce /\ nonce.key = sendKey /\ nonce.counter = sendCounter
  BY <1>1, NoNonceAssumption DEF Nonces
<1>3. /\ reserved'[m] = nonce
      /\ \A n \in Msgs \ {m} : reserved'[n] = reserved[n]
  BY DEF TypeOK
<1>4. TypeOK'
  BY <1>1, <1>2 DEF TypeOK
<1>5. \A n \in Msgs : reserved[n] # NoNonce => reserved[n] # nonce
  BY <1>1, <1>2 DEF SendInv, TypeOK
<1>6. SendInv'
  BY <1>1, <1>2, <1>3, MaxCounterAssumption DEF SendInv, TypeOK, Nonces
<1>7. NonceUnique'
  BY <1>2, <1>3, <1>5 DEF NonceUnique
<1>8. m \notin sealed
  BY DEF RecvInv
<1>9. RecvInv' /\ AtMostOnce'
  BY <1>3, <1>8 DEF RecvInv, AtMostOnce, Replayed, TypeOK
<1>10. SeenInv'
  BY <1>3, <1>8 DEF SeenInv, TypeOK
<1>11. QED
  BY <1>4, <1>6, <1>7, <1>9, <1>10

(* Encrypting later, in a worker thread, keeps the invariant.               *)
LEMMA SealInv ==
    ASSUME IInv, NEW m \in Msgs, Seal(m)
    PROVE  IInv'
BY DEF IInv, Seal, sendVars, recvVars, TypeOK, SendInv, NonceUnique, RecvInv, SeenInv,
       AtMostOnce, Replayed

(* Opening a message keeps the invariant (decrypt).                         *)
LEMMA DecryptInv ==
    ASSUME IInv, NEW m \in Msgs, Decrypt(m)
    PROVE  IInv' /\ accepted[m] = 0
<1> USE DEF IInv, Decrypt, sendVars, wireVars
<1> DEFINE c == reserved[m].counter
<1>1. reserved[m] \in Nonces /\ c \in Nat /\ reserved[m] = [key |-> recvKey, counter |-> c]
  BY DEF RecvInv, TypeOK, Nonces
<1>2. accepted[m] = 0
  BY DEF RecvInv, TypeOK
<1>3. /\ accepted'[m] = 1
      /\ \A n \in Msgs \ {m} : accepted'[n] = accepted[n]
      /\ accepted' \in [Msgs -> Nat]
  BY <1>2 DEF TypeOK
<1>4. Record(c)
  OBVIOUS
<1>5. /\ recvHighest' \in Nat
      /\ recvSeen' \in SUBSET Nat
      /\ recvSeen' \subseteq recvSeen \cup {c}
      /\ Replayed(c)'
      /\ \A d \in Nat : Replayed(d) => Replayed(d)'
  BY <1>1, <1>4, RecordKeepsReplayed
<1>6. TypeOK'
  BY <1>3, <1>5 DEF TypeOK, recvVars
<1>7. SendInv' /\ NonceUnique'
  BY DEF SendInv, NonceUnique
<1>8. AtMostOnce'
  BY <1>3 DEF AtMostOnce
<1>9. RecvInv'
  <2>1. ASSUME NEW n \in Msgs, accepted'[n] > 0
        PROVE  /\ n \in sealed
               /\ reserved[n].key \in recvInstalled
               /\ reserved[n].key = recvKey => Replayed(reserved[n].counter)'
    <3>1. CASE n = m
      BY <1>1, <1>5, <3>1 DEF RecvInv
    <3>2. CASE n # m
      <4>1. accepted[n] > 0 /\ n \in sealed /\ reserved[n] \in Nonces
        BY <1>3, <2>1, <3>2 DEF RecvInv, TypeOK
      <4>2. reserved[n].counter \in Nat
        BY <4>1 DEF Nonces
      <4>3. QED
        BY <1>5, <4>1, <4>2 DEF RecvInv
    <3>3. QED
      BY <3>1, <3>2
  <2>2. QED
    BY <2>1 DEF RecvInv, Replayed
<1>10. SeenInv'
  <2>1. ASSUME NEW d \in recvSeen'
        PROVE  \E n \in sealed : /\ reserved[n] = [key |-> recvKey, counter |-> d]
                                 /\ accepted'[n] > 0
    <3>1. CASE d = c
      BY <1>1, <1>3, <3>1
    <3>2. CASE d # c
      <4>1. d \in recvSeen
        BY <1>5, <2>1, <3>2
      <4>2. PICK n \in sealed : /\ reserved[n] = [key |-> recvKey, counter |-> d]
                                /\ accepted[n] > 0
        BY <4>1 DEF SeenInv
      <4>3. n \in Msgs /\ n # m
        BY <1>2, <4>2 DEF TypeOK
      <4>4. QED
        BY <1>3, <4>2, <4>3
    <3>3. QED
      BY <3>1, <3>2
  <2>2. QED
    BY <2>1 DEF SeenInv
<1>11. QED
  BY <1>2, <1>6, <1>7, <1>8, <1>9, <1>10

(* Every step keeps the invariant.                                          *)
LEMMA NextIInv == IInv /\ [Next]_vars => IInv'
<1> SUFFICES ASSUME IInv, [Next]_vars
             PROVE  IInv'
  OBVIOUS
<1>1. CASE UNCHANGED vars
  BY <1>1, UnchangedInv
<1>2. ASSUME NEW k \in Keys, SetSendKeys(k) \/ SetRecvKeys(k)
      PROVE  IInv'
  BY <1>2, SetSendKeysInv, SetRecvKeysInv
<1>3. CASE NewSendBox \/ NewRecvBox
  BY <1>3, NewBoxInv
<1>4. ASSUME NEW m \in Msgs, Reserve(m) \/ Seal(m) \/ Decrypt(m)
      PROVE  IInv'
  BY <1>4, ReserveInv, SealInv, DecryptInv
<1>5. QED
  BY <1>1, <1>2, <1>3, <1>4 DEF Next

------------------------------------------------------------------------------

(* The inductive invariant holds in every reachable state of the session,
   for every window and counter limit.                                      *)
THEOREM Inductive == Spec => []IInv
BY InitIInv, NextIInv, PTL DEF Spec

(* Type correctness of the two boxes and the wire between them.             *)
THEOREM TypeCorrect == Spec => []TypeOK
<1>1. IInv => TypeOK
  BY DEF IInv
<1>2. QED
  BY <1>1, Inductive, PTL

(* set_keys and reserve never let two messages share a nonce under one key. *)
THEOREM NoncesNeverRepeat == Spec => []NonceUnique
<1>1. IInv => NonceUnique
  BY DEF IInv
<1>2. QED
  BY <1>1, Inductive, PTL

(* decrypt returns no message twice, whatever the network repeats.          *)
THEOREM DeliveredAtMostOnce == Spec => []AtMostOnce
<1>1. IInv => AtMostOnce
  BY DEF IInv
<1>2. QED
  BY <1>1, Inductive, PTL

(* A genuine message inside the window is never refused as a replay.        *)
THEOREM LateButInWindow == Spec => []InWindowAccepted
<1>1. IInv => InWindowAccepted
  <2> SUFFICES ASSUME IInv, NEW m \in sealed,
                      reserved[m].key = recvKey, accepted[m] = 0,
                      reserved[m].counter > recvHighest - Window,
                      Replayed(reserved[m].counter)
               PROVE  FALSE
    BY DEF InWindowAccepted
  <2>1. m \in Msgs /\ reserved[m] \in Nonces
    BY DEF IInv, TypeOK, RecvInv
  <2>2. reserved[m].counter \in recvSeen
    BY <2>1, WindowAssumption DEF Replayed, IInv, TypeOK, Nonces
  <2>3. PICK n \in sealed :
          /\ reserved[n] = [key |-> recvKey, counter |-> reserved[m].counter]
          /\ accepted[n] > 0
    BY <2>2 DEF IInv, SeenInv
  <2>4. n \in Msgs /\ n # m /\ reserved[n] = reserved[m]
    BY <2>1, <2>3 DEF IInv, TypeOK, Nonces
  <2>5. QED
    BY <2>1, <2>4, NoNonceAssumption DEF IInv, NonceUnique
<1>2. QED
  BY <1>1, Inductive, PTL

(* The two boxes and the lossy, repeating, reordering network together
   implement the at-most-once channel the layers above rely on.             *)
THEOREM ImplementsChannel == Spec => ChannelSpec
<1>1. Init => Channel!ChanInit
  BY DEF Init, Channel!ChanInit
<1>2. IInv /\ [Next]_vars => [Channel!ChanNext]_(Channel!chanVars)
  <2> SUFFICES ASSUME IInv, [Next]_vars
               PROVE  Channel!ChanNext \/ UNCHANGED <<sealed, accepted>>
    BY DEF Channel!chanVars
  <2>1. CASE UNCHANGED vars
    BY <2>1 DEF vars, wireVars
  <2>2. ASSUME NEW k \in Keys, SetSendKeys(k) \/ SetRecvKeys(k)
        PROVE  UNCHANGED <<sealed, accepted>>
    BY <2>2 DEF SetSendKeys, SetRecvKeys, wireVars
  <2>3. CASE NewSendBox \/ NewRecvBox
    BY <2>3 DEF NewSendBox, NewRecvBox, wireVars
  <2>4. ASSUME NEW m \in Msgs, Reserve(m)
        PROVE  UNCHANGED <<sealed, accepted>>
    BY <2>4 DEF Reserve
  <2>5. ASSUME NEW m \in Msgs, Seal(m)
        PROVE  Channel!Send(m)
    BY <2>5 DEF Seal, Channel!Send
  <2>6. ASSUME NEW m \in Msgs, Decrypt(m)
        PROVE  Channel!Deliver(m)
    <3>1. accepted[m] = 0
      BY <2>6, DecryptInv
    <3>2. QED
      BY <2>6, <3>1 DEF Decrypt, wireVars, Channel!Deliver
  <2>7. QED
    BY <2>1, <2>2, <2>3, <2>4, <2>5, <2>6 DEF Next, Channel!ChanNext
<1>3. QED
  BY <1>1, <1>2, Inductive, PTL DEF Spec, ChannelSpec, Channel!ChanSpec
==============================================================================
