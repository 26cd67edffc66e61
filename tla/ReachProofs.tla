----------------------------- MODULE ReachProofs -------------------------------
(***************************************************************************)
(* Theorems about Reach.                                                   *)
(*                                                                         *)
(* A session on a punched connection has it at both ends, for any number   *)
(* of rounds, whatever is lost, late or cleared away: the connections of   *)
(* an end are a set that rounds add to, and that four different timers     *)
(* take from, and the proof goes through them one by one.                  *)
(*                                                                         *)
(* A radio session that works is not given up for what is still on the     *)
(* air: the proof keeps count of what may be on the air once it settled.   *)
(***************************************************************************)
EXTENDS Reach, FiniteSetTheorems, SequenceTheorems, TLAPS

(* The connections of each end: what EXCEPT says of them rests on this.     *)
ByEnd == conns = [d \in Ends |-> conns[d]]

PathInv == ByEnd /\ SessionKeepsItsConnection

(* The session stays as it is, and no end loses a held connection of it.    *)
KeepsHeld ==
    /\ session' = session /\ via' = via /\ ByEnd'
    /\ \A d \in Ends : \A c \in conns[d] :
          session = "direct" /\ c.key = via /\ c.st = "held" => c \in conns'[d]

LEMMA HeldStays == ASSUME PathInv, KeepsHeld PROVE PathInv'
<1>1. ASSUME session = "direct", NEW d \in Ends
      PROVE  \E c \in conns'[d] : c.key = via /\ c.st = "held"
  <2>1. PICK c \in Of(d, via) : c.st = "held"
    BY <1>1 DEF PathInv, SessionKeepsItsConnection, Held
  <2>2. c \in conns[d] /\ c.key = via
    BY DEF Of
  <2>3. QED
    BY <1>1, <2>1, <2>2 DEF KeepsHeld
<1>2. QED
  BY <1>1 DEF PathInv, KeepsHeld, SessionKeepsItsConnection, Held, Of

(* Steps that touch no connection.                                          *)
LEMMA NoConnection ==
    ASSUME PathInv, UNCHANGED <<session, via, conns>>
    PROVE  PathInv'
BY HeldStays DEF PathInv, ByEnd, KeepsHeld

(* A connection is added by joining a round,                                *)
LEMMA JoinsKeeps ==
    ASSUME PathInv, NEW d \in Ends, NEW c, Joins(d, c), UNCHANGED <<session, via>>
    PROVE  PathInv'
<1>1. KeepsHeld
  BY DEF Joins, KeepsHeld, PathInv, ByEnd
<1>2. QED
  BY <1>1, HeldStays

(* one that is not held yet goes on or is given up,                         *)
LEMMA RoundKeeps ==
    ASSUME PathInv, NEW d \in Ends, Opens(d) \/ GivesUp(d) \/ Adopts(d)
    PROVE  PathInv'
<1>1. PICK c \in Of(d, punching[d]) :
        /\ c.st \in {"probing", "open"}
        /\ conns' = [conns EXCEPT ![d] = @ \ {c}] \/ \E st : conns' = Became(d, c, st)
  BY DEF Opens, GivesUp, Adopts
<1>2. session' = session /\ via' = via
  BY DEF Opens, GivesUp, Adopts
<1>3. PICK more : conns' = [conns EXCEPT ![d] = (@ \ {c}) \cup more]
  <2>1. CASE conns' = [conns EXCEPT ![d] = @ \ {c}]
    <3>1. conns' = [conns EXCEPT ![d] = (@ \ {c}) \cup {}]
      BY <2>1
    <3>2. QED
      BY <3>1
  <2>2. ASSUME NEW st, conns' = Became(d, c, st)
        PROVE  \E m : conns' = [conns EXCEPT ![d] = (@ \ {c}) \cup m]
    BY <2>2 DEF Became
  <2>3. QED
    BY <1>1, <2>1, <2>2
<1>4. KeepsHeld
  BY <1>1, <1>2, <1>3 DEF KeepsHeld, PathInv, ByEnd
<1>5. QED
  BY <1>4, HeldStays

(* and one that no session uses expires.                                    *)
LEMMA ExpiryKeeps ==
    ASSUME PathInv, NEW d \in Ends, UpgradeExpires(d) \/ HeldExpires(d)
    PROVE  PathInv'
<1>1. CASE UpgradeExpires(d)
  <2>1. KeepsHeld
    BY <1>1 DEF UpgradeExpires, Unused, Of, KeepsHeld, PathInv, ByEnd
  <2>2. QED
    BY <2>1, HeldStays
<1>2. CASE HeldExpires(d)
  <2>1. PICK c \in conns[d] : c.key # via /\ conns' = [conns EXCEPT ![d] = @ \ {c}]
    BY <1>2 DEF HeldExpires
  <2>2. session' = session /\ via' = via
    BY <1>2 DEF HeldExpires
  <2>3. KeepsHeld
    BY <2>1, <2>2 DEF KeepsHeld, PathInv, ByEnd
  <2>4. QED
    BY <2>3, HeldStays
<1>3. QED
  BY <1>1, <1>2

(* A new session is on a connection that both ends hold, and clears away    *)
(* the connection of the one before only.                                   *)
LEMMA UpgradedKeeps ==
    ASSUME PathInv, NEW d \in Ends, Upgraded(d)
    PROVE  PathInv'
<1>1. via' = upgrade[d] /\ via' # via /\ conns' = [e \in Ends |-> conns[e] \ Of(e, via)]
  BY DEF Upgraded
<1>2. ASSUME NEW e \in Ends
      PROVE  \E c \in conns'[e] : c.key = via' /\ c.st = "held"
  <2>1. PICK c \in Of(e, via') : c.st = "held"
    BY <1>1 DEF Upgraded, Held
  <2>2. c \in conns[e] /\ c.key = via'
    BY DEF Of
  <2>3. c \in conns'[e]
    BY <1>1, <2>2 DEF Of
  <2>4. QED
    BY <2>1, <2>2, <2>3
<1>3. QED
  BY <1>1, <1>2 DEF PathInv, ByEnd, SessionKeepsItsConnection, Held, Of

LEMMA PunchKeeps == ASSUME PathInv, PunchNext PROVE PathInv'
<1>1. CASE LinkUpTor
  BY <1>1 DEF LinkUpTor, PathInv, ByEnd, SessionKeepsItsConnection
<1>2. CASE CutSession
  BY <1>2 DEF CutSession, PathInv, ByEnd, SessionKeepsItsConnection
<1>3. CASE Tick \/ HandleAsk \/ Offer \/ HandleOffer \/ TakesOver \/ NewAddresses
  BY <1>3, NoConnection DEF Tick, HandleAsk, Offer, HandleOffer, TakesOver, NewAddresses
<1>4. CASE Answer
  BY <1>4, JoinsKeeps, NoConnection DEF Answer, Ends
<1>5. CASE HandleAnswer
  BY <1>5, JoinsKeeps, NoConnection DEF HandleAnswer, Ends
<1>6. ASSUME NEW d \in Ends, Retry(d) \/ OtherRotates(d)
      PROVE  PathInv'
  BY <1>6, NoConnection DEF Retry, OtherRotates
<1>7. QED
  BY <1>1, <1>2, <1>3, <1>4, <1>5, <1>6, RoundKeeps, UpgradedKeeps, ExpiryKeeps
     DEF PunchNext, PunchProgress

(* A direct session keeps its connection at both ends, however the rounds,  *)
(* the upgrades and the timers of the two interleave (punch.py, paths.py).  *)
THEOREM SessionKeepsItsConnectionTheorem == Spec => []SessionKeepsItsConnection
<1>1. Init => PathInv
  BY DEF Init, InitPunch, PathInv, ByEnd, SessionKeepsItsConnection
<1>2. PathInv /\ [Next]_vars => PathInv'
  <2>1. ASSUME PathInv, UNCHANGED punchVars PROVE PathInv'
    BY <2>1, NoConnection DEF punchVars
  <2>2. QED
    BY <2>1, PunchKeeps DEF Next, OnlyPunch, OnlyDoor, OnlyRadio, OnlyLan, vars
<1>3. PathInv => SessionKeepsItsConnection
  BY DEF PathInv
<1>4. QED
  BY <1>1, <1>2, <1>3, PTL DEF Spec

------------------------------------------------------------------------------
(* A radio session that works.  What is on the air is a set of packets to   *)
(* each side, as their order plays no part.                                 *)

RKeys == [by : {"L", "H", "-"}, n : Nat, up : BOOLEAN]
RPackets == [k : {"beacon", "hello", "ack", "data"}, key : RKeys, old : BOOLEAN, reply : BOOLEAN]
RSess == [on : {"no", "air", "lan", "net"}, key : RKeys, sure : BOOLEAN, young : BOOLEAN]

In(q) == {q[i] : i \in 1..Len(q)}

Settled(s) == s.on = "air" /\ s.young = FALSE

RadioTypes ==
    /\ sess \in [Sides -> RSess] /\ air \in [Sides -> Seq(RPackets)]
    /\ kind \in {"lan", "net"} /\ radioFaults \in Nat

(* No handshake can give the other end the keys of a settled session anew,  *)
LateKeys ==
    \A d, e \in Sides : \A p \in In(air[e]) :
        Settled(sess[d]) /\ p.k \in {"hello", "ack"} => p.key.n # sess[d].key.n

(* and with these keys it is sure of them, so what it sends for a session   *)
(* that it lacks was sent before.                                           *)
LateBeacons ==
    \A d \in Sides :
        Settled(sess[d]) /\ sess[Other(d)].on = "air" /\ sess[Other(d)].key = sess[d].key =>
           /\ sess[Other(d)].sure = TRUE
           /\ \A p \in In(air[d]) : p.k = "beacon" => p.old = TRUE

RadioInv == RadioTypes /\ LateKeys /\ LateBeacons

LEMMA TwoSides == \A d \in Sides : Other(d) \in Sides /\ Other(Other(d)) = d /\ Other(d) # d
BY DEF Sides, Other

LEMMA Queues ==
    ASSUME NEW q \in Seq(RPackets)
    PROVE  /\ In(q) \subseteq RPackets
           /\ \A p \in RPackets : Append(q, p) \in Seq(RPackets) /\ In(Append(q, p)) = In(q) \cup {p}
           /\ q # <<>> => Tail(q) \in Seq(RPackets) /\ In(Tail(q)) \subseteq In(q)
                          /\ Head(q) \in In(q) /\ 1 \in DOMAIN q /\ Head(q) = q[1]
           /\ DOMAIN q = 1..Len(q)
<1>1. Len(q) \in Nat /\ DOMAIN q = 1..Len(q) /\ \A i \in 1..Len(q) : q[i] \in RPackets
  BY LenProperties, ElementOfSeq
<1>2. ASSUME NEW p \in RPackets
      PROVE  Append(q, p) \in Seq(RPackets) /\ In(Append(q, p)) = In(q) \cup {p}
  <2> DEFINE r == Append(q, p)
  <2>1. r \in Seq(RPackets) /\ Len(r) = Len(q) + 1 /\ r[Len(r)] = p /\ \A i \in 1..Len(q) : r[i] = q[i]
    BY <1>1, AppendProperties
  <2>2. \A i \in 1..Len(r) : i = Len(r) \/ i \in 1..Len(q)
    BY <1>1, <2>1
  <2>3. Len(r) \in 1..Len(r) /\ \A i \in 1..Len(q) : i \in 1..Len(r)
    BY <1>1, <2>1
  <2> HIDE DEF r
  <2>4. QED
    BY <2>1, <2>2, <2>3 DEF In, r
<1>3. ASSUME q # <<>>
      PROVE  Tail(q) \in Seq(RPackets) /\ In(Tail(q)) \subseteq In(q)
             /\ Head(q) \in In(q) /\ 1 \in DOMAIN q /\ Head(q) = q[1]
  <2>1. /\ Len(q) \in Nat \ {0} /\ Head(q) = q[1] /\ Tail(q) \in Seq(RPackets)
        /\ Len(Tail(q)) = Len(q) - 1 /\ \A i \in 1..Len(Tail(q)) : Tail(q)[i] = q[i + 1]
    BY <1>3, HeadTailProperties, LenProperties
  <2>2. \A i \in 1..Len(Tail(q)) : i + 1 \in 1..Len(q)
    BY <2>1
  <2>3. 1 \in 1..Len(q)
    BY <2>1
  <2>4. QED
    BY <1>1, <2>1, <2>2, <2>3 DEF In
<1>4. QED
  BY <1>1, <1>2, <1>3 DEF In

LEMMA Marked ==
    ASSUME NEW q \in Seq(RPackets), NEW d \in Sides
    PROVE  /\ Aged(q) \in Seq(RPackets) /\ Forgotten(d, q) \in Seq(RPackets)
           /\ \A p \in In(Aged(q)) \cup In(Forgotten(d, q)) :
                 \E r \in In(q) : p.k = r.k /\ p.key.n = r.key.n /\ (r.old = TRUE => p.old = TRUE)
<1>1. Len(q) \in Nat /\ DOMAIN q = 1..Len(q) /\ \A i \in 1..Len(q) : q[i] \in RPackets
  BY LenProperties, ElementOfSeq
<1> DEFINE a(p) == [p EXCEPT !.old = TRUE]
           f(p) == [p EXCEPT !.key.by = IF @ = d THEN "-" ELSE @]
<1>2. \A p \in RPackets : a(p) \in RPackets /\ a(p).k = p.k /\ a(p).key = p.key /\ a(p).old = TRUE
  BY DEF RPackets
<1>3. ASSUME NEW p \in RPackets
      PROVE  f(p) \in RPackets /\ f(p).k = p.k /\ f(p).key.n = p.key.n /\ f(p).old = p.old
  <2> DEFINE key == [p.key EXCEPT !.by = IF @ = d THEN "-" ELSE @]
  <2>1. key \in RKeys /\ key.n = p.key.n
    BY DEF RPackets, RKeys
  <2> HIDE DEF key
  <2>2. f(p) = [p EXCEPT !.key = key]
    BY DEF RPackets, key
  <2> HIDE DEF f
  <2>3. QED
    BY <2>1, <2>2 DEF RPackets
<1>4. Aged(q) = [i \in 1..Len(q) |-> a(q[i])] /\ Forgotten(d, q) = [i \in 1..Len(q) |-> f(q[i])]
  BY <1>1 DEF Aged, Forgotten
<1> HIDE DEF a, f
<1>5. Aged(q) \in [1..Len(q) -> RPackets] /\ Forgotten(d, q) \in [1..Len(q) -> RPackets]
  BY <1>1, <1>2, <1>3, <1>4
<1>6. /\ Aged(q) \in Seq(RPackets) /\ Len(Aged(q)) = Len(q)
      /\ Forgotten(d, q) \in Seq(RPackets) /\ Len(Forgotten(d, q)) = Len(q)
  BY <1>1, <1>5, SeqDef, LenProperties
<1>7. QED
  BY <1>1, <1>2, <1>3, <1>4, <1>6 DEF In

KeysSent(e) == {air[e][i].key : i \in DOMAIN air[e]}
KeysHeld(e) == {sess[e].key, try[e], checking[e]}

(* A new number is one that no key in use has.                              *)
LEMMA FreshFacts ==
    ASSUME RadioTypes, NEW d \in Sides, NEW up \in BOOLEAN
    PROVE  FreshKey(d, up) \in RKeys /\ \A e \in Sides : FreshKey(d, up).n # sess[e].key.n
<1> DEFINE used == {k.n : k \in KeysInUse}
<1>1. ASSUME NEW e \in Sides PROVE IsFiniteSet(KeysSent(e))
  <2>1. air[e] \in Seq(RPackets)
    BY DEF RadioTypes
  <2>2. Len(air[e]) \in Nat /\ DOMAIN air[e] = 1..Len(air[e])
    BY <2>1, LenProperties
  <2>3. IsFiniteSet(DOMAIN air[e])
    BY <2>2, FS_Interval
  <2> DEFINE g == [i \in DOMAIN air[e] |-> air[e][i].key]
  <2>4. g \in Surjection(DOMAIN air[e], KeysSent(e))
    BY DEF Surjection, KeysSent
  <2>5. QED
    BY <2>3, <2>4, FS_Surjection
<1>2. ASSUME NEW e \in Sides PROVE IsFiniteSet(KeysHeld(e))
  <2> DEFINE x == {sess[e].key}
             y == {try[e]}
             z == {checking[e]}
  <2>1. KeysHeld(e) = (x \cup y) \cup z
    BY DEF KeysHeld
  <2>2. IsFiniteSet(x) /\ IsFiniteSet(y) /\ IsFiniteSet(z)
    BY FS_Singleton
  <2> HIDE DEF x, y, z
  <2>3. IsFiniteSet(x \cup y)
    BY <2>2, FS_Union
  <2>4. IsFiniteSet((x \cup y) \cup z)
    BY <2>2, <2>3, FS_Union
  <2>5. QED
    BY <2>1, <2>4
<1>3. KeysInUse = (UNION {KeysHeld(e) : e \in Sides}) \cup (UNION {KeysSent(e) : e \in Sides})
  BY DEF KeysInUse, KeysHeld, KeysSent
<1>4. \A e \in Sides : sess[e].key \in KeysHeld(e)
  BY DEF KeysHeld
<1>5. IsFiniteSet(KeysInUse)
  <2>1. "L" \in Sides /\ "H" \in Sides
    BY DEF Sides
  <2>2. IsFiniteSet(KeysHeld("L") \cup KeysHeld("H")) /\ IsFiniteSet(KeysSent("L") \cup KeysSent("H"))
    BY <1>1, <1>2, <2>1, FS_Union
  <2>3. KeysInUse = (KeysHeld("L") \cup KeysHeld("H")) \cup (KeysSent("L") \cup KeysSent("H"))
    <3>1. UNION {KeysHeld(e) : e \in Sides} = KeysHeld("L") \cup KeysHeld("H")
      BY Zenon DEF Sides
    <3>2. UNION {KeysSent(e) : e \in Sides} = KeysSent("L") \cup KeysSent("H")
      BY Zenon DEF Sides
    <3>3. QED
      BY <1>3, <3>1, <3>2, Zenon
  <2>4. QED
    BY <2>2, <2>3, FS_Union
<1>6. IsFiniteSet(used)
  <2> DEFINE g == [k \in KeysInUse |-> k.n]
  <2>1. g \in Surjection(KeysInUse, used)
    BY DEF Surjection
  <2>2. QED
    BY <1>5, <2>1, FS_Surjection
<1> HIDE DEF used
<1> DEFINE c == Cardinality(used)
<1>7. c \in Nat
  BY <1>6, FS_CardinalityType
<1> HIDE DEF c
<1>8. IsFiniteSet(1..(c + 1)) /\ Cardinality(1..(c + 1)) = c + 1
  BY <1>7, FS_Interval
<1>9. \E n \in 1..(c + 1) : n \notin used
  <2> SUFFICES ASSUME 1..(c + 1) \subseteq used PROVE FALSE
    OBVIOUS
  <2>1. Cardinality(1..(c + 1)) <= c
    BY <1>6, FS_Subset DEF c
  <2>2. QED
    BY <1>7, <1>8, <2>1
<1> DEFINE n == CHOOSE m \in 1..(c + 1) : m \notin used
<1>10. n \in 1..(c + 1) /\ n \notin used
  BY <1>9
<1>11. n \in Nat
  BY <1>7, <1>10
<1>12. FreshKey(d, up) = [by |-> d, n |-> n, up |-> up]
  BY DEF FreshKey, used, c
<1>13. \A e \in Sides : sess[e].key.n \in used
  BY <1>3, <1>4 DEF used
<1> HIDE DEF n
<1>14. QED
  BY <1>10, <1>11, <1>12, <1>13 DEF RKeys, Sides

------------------------------------------------------------------------------
(* What a step may do to the packets and to a session.                      *)

Stems(p, q) == p.k = q.k /\ p.key.n = q.key.n /\ (q.old = TRUE => p.old = TRUE)

Allowed(p, e) ==
    \/ \E q \in In(air[e]) : Stems(p, q)
    \/ p.k = "data"
    \/ p.k = "beacon" /\ ~BeatsRadio(sess'[Other(e)])
    \/ p.k = "hello" /\ \A d \in Sides : p.key.n # sess[d].key.n
    \/ p.k = "ack" /\ \E d \in Sides : \E q \in In(air[d]) : q.k = "hello" /\ q.key.n = p.key.n

AirFits ==
    air' \in [Sides -> Seq(RPackets)] /\ \A e \in Sides : \A p \in In(air'[e]) : Allowed(p, e)

SessFits(s, t) ==
    \/ t = s \/ t.on # "air"
    \/ t.young = TRUE /\ \E d \in Sides : \E q \in In(air[d]) : q.k \in {"hello", "ack"} /\ q.key = t.key
    \/ t.on = s.on /\ t.key = s.key /\ t.young = s.young /\ (s.sure = TRUE => t.sure = TRUE)

RadioFits ==
    /\ sess' \in [Sides -> RSess] /\ \A d \in Sides : SessFits(sess[d], sess'[d])
    /\ AirFits /\ kind' = kind /\ radioFaults' \in Nat

LEMMA RadioKept == ASSUME RadioInv, RadioFits PROVE RadioInv'
<1>1. RadioTypes'
  BY DEF RadioInv, RadioTypes, RadioFits, AirFits
<1>2. ASSUME NEW d \in Sides, Settled(sess'[d])
      PROVE  /\ Settled(sess[d]) /\ sess'[d].key = sess[d].key
             /\ sess'[d].on = sess[d].on
  BY <1>2 DEF RadioFits, SessFits, Settled
<1>3. ASSUME NEW d \in Sides, Settled(sess[d]), NEW e \in Sides, NEW p \in In(air[e]), p.k \in {"hello", "ack"}
      PROVE  p.key.n # sess[d].key.n
  BY <1>3 DEF RadioInv, LateKeys
<1>4. LateKeys'
  <2> SUFFICES ASSUME NEW d \in Sides, NEW e \in Sides, NEW p \in In(air'[e]),
                      Settled(sess'[d]), p.k \in {"hello", "ack"}
               PROVE  p.key.n # sess'[d].key.n
    BY DEF LateKeys
  <2>1. Settled(sess[d]) /\ sess'[d].key = sess[d].key
    BY <1>2
  <2>2. Allowed(p, e)
    BY DEF RadioFits, AirFits
  <2>3. QED
    BY <1>3, <2>1, <2>2 DEF Allowed, Stems
<1>5. LateBeacons'
  <2> SUFFICES ASSUME NEW d \in Sides, Settled(sess'[d]), sess'[Other(d)].on = "air",
                      sess'[Other(d)].key = sess'[d].key
               PROVE  /\ sess'[Other(d)].sure = TRUE
                      /\ \A p \in In(air'[d]) : p.k = "beacon" => p.old = TRUE
    BY DEF LateBeacons
  <2> DEFINE e == Other(d)
  <2>1. Settled(sess[d]) /\ sess'[d].key = sess[d].key /\ e \in Sides
    BY <1>2, TwoSides
  <2>2. SessFits(sess[e], sess'[e])
    BY <2>1 DEF RadioFits
  <2>3. \A x \in Sides : \A q \in In(air[x]) : q.k \in {"hello", "ack"} => q.key # sess'[e].key
    BY <1>3, <2>1
  <2>4. sess'[e].on = sess[e].on /\ sess'[e].key = sess[e].key /\ (sess[e].sure = TRUE => sess'[e].sure = TRUE)
    BY <2>2, <2>3 DEF SessFits
  <2>5. sess[e].sure = TRUE /\ \A p \in In(air[d]) : p.k = "beacon" => p.old = TRUE
    BY <2>1, <2>4 DEF RadioInv, LateBeacons
  <2>6. BeatsRadio(sess'[e])
    BY <2>4, <2>5 DEF BeatsRadio, Up
  <2>7. ASSUME NEW p \in In(air'[d]), p.k = "beacon" PROVE p.old = TRUE
    <3>1. Allowed(p, d)
      BY DEF RadioFits, AirFits
    <3>2. QED
      BY <2>5, <2>6, <2>7, <3>1 DEF Allowed, Stems
  <2>8. QED
    BY <2>4, <2>5, <2>7
<1>6. QED
  BY <1>1, <1>4, <1>5 DEF RadioInv

(* The queues that the actions make.                                        *)
LEMMA AirSame == ASSUME RadioInv, air' = air PROVE AirFits
BY DEF AirFits, Allowed, Stems, RadioInv, RadioTypes

LEMMA AirSent ==
    ASSUME RadioInv, NEW d \in Sides, NEW p \in RPackets, NEW a \in [Sides -> Seq(RPackets)],
           Allowed(p, Other(d)), \A e \in Sides : \A x \in In(a[e]) : Allowed(x, e),
           air' = Send(a, d, p)
    PROVE  AirFits
<1>1. Other(d) \in Sides
  BY TwoSides
<1>2. a[Other(d)] \in Seq(RPackets)
  BY <1>1
<1>3. Append(a[Other(d)], p) \in Seq(RPackets) /\ In(Append(a[Other(d)], p)) = In(a[Other(d)]) \cup {p}
  BY <1>2, Queues
<1>4. QED
  BY <1>1, <1>3 DEF Send, AirFits

LEMMA TookFits ==
    ASSUME RadioInv, NEW d \in Sides, air[d] # <<>>
    PROVE  /\ Took(d) \in [Sides -> Seq(RPackets)]
           /\ \A e \in Sides : \A x \in In(Took(d)[e]) : Allowed(x, e)
           /\ Head(air[d]) \in In(air[d]) /\ Head(air[d]) \in RPackets
<1>1. \A e \in Sides : air[e] \in Seq(RPackets)
  BY DEF RadioInv, RadioTypes
<1>2. /\ Tail(air[d]) \in Seq(RPackets) /\ In(Tail(air[d])) \subseteq In(air[d])
      /\ Head(air[d]) \in In(air[d]) /\ Head(air[d]) \in RPackets
  BY <1>1, Queues
<1>3. Took(d) \in [Sides -> Seq(RPackets)]
      /\ \A e \in Sides : Took(d)[e] = IF e = d THEN Tail(air[d]) ELSE air[e]
  BY <1>2 DEF Took, RadioInv, RadioTypes
<1>4. QED
  BY <1>2, <1>3 DEF Allowed, Stems

LEMMA AgedFits ==
    ASSUME NEW a \in [Sides -> Seq(RPackets)], NEW d \in Sides, NEW e \in Sides,
           \A x \in In(a[d]) : Allowed(x, e)
    PROVE  Aged(a[d]) \in Seq(RPackets) /\ \A x \in In(Aged(a[d])) : Allowed(x, e)
<1>1. Aged(a[d]) \in Seq(RPackets)
  BY Marked
<1>2. ASSUME NEW p \in In(Aged(a[d])) PROVE Allowed(p, e)
  <2>1. PICK r \in In(a[d]) : p.k = r.k /\ p.key.n = r.key.n /\ (r.old = TRUE => p.old = TRUE)
    BY Marked
  <2>2. Allowed(r, e)
    OBVIOUS
  <2>3. QED
    BY <2>1, <2>2 DEF Allowed, Stems
<1>3. QED
  BY <1>1, <1>2

------------------------------------------------------------------------------
(* One lemma per group of actions.                                          *)

(* A session for d on the air: the other's on the network may end with it.  *)
LEMMA Moved ==
    ASSUME RadioInv, NEW d \in Sides, NEW s \in RSess, MovesToAir(d, s), SessFits(sess[d], s)
    PROVE  sess' \in [Sides -> RSess] /\ sess'[d] = s /\ \A e \in Sides : SessFits(sess[e], sess'[e])
<1>1. NoSess \in RSess /\ NoSess.on = "no"
  BY DEF NoSess, NoKey, RSess, RKeys
<1>2. /\ sess' \in [Sides -> RSess] /\ sess'[d] = s
      /\ sess'[Other(d)] = NoSess \/ sess'[Other(d)] = sess[Other(d)]
      /\ \A e \in Sides : e = d \/ e = Other(d)
  BY <1>1, TwoSides DEF MovesToAir, RadioInv, RadioTypes, Sides, Other
<1>3. QED
  BY <1>1, <1>2 DEF SessFits

LEMMA Dropped ==
    ASSUME RadioInv, NEW d \in Sides, MovesToAir(d, NoSess)
    PROVE  sess' \in [Sides -> RSess] /\ \A e \in Sides : SessFits(sess[e], sess'[e])
<1>1. NoSess \in RSess /\ NoSess.on = "no"
  BY DEF NoSess, NoKey, RSess, RKeys
<1>2. SessFits(sess[d], NoSess)
  BY <1>1 DEF SessFits
<1>3. QED
  BY <1>1, <1>2, Moved

LEMMA SessSame ==
    ASSUME RadioInv, sess' = sess
    PROVE  sess' \in [Sides -> RSess] /\ \A e \in Sides : SessFits(sess[e], sess'[e])
BY DEF SessFits, RadioInv, RadioTypes

LEMMA Counted ==
    ASSUME RadioInv, radioFaults' = radioFaults \/ \E f : RadioFault(f)
    PROVE  radioFaults' \in Nat
BY DEF RadioFault, RadioInv, RadioTypes

LEMMA PacketTypes ==
    /\ \A key \in RKeys : \A k \in {"beacon", "hello", "ack", "data"} :
          Packet(k, key) \in RPackets /\ Packet(k, key).k = k /\ Packet(k, key).key = key
    /\ \A b \in BOOLEAN : Beacon(b) \in RPackets /\ Beacon(b).k = "beacon"
    /\ \A on \in {"air", "lan", "net"} : \A key \in RKeys : \A b \in BOOLEAN :
          LET s == Over(on, key, b)
          IN  s \in RSess /\ s.on = on /\ s.key = key /\ s.sure = b /\ s.young = TRUE
<1>1. NoKey \in RKeys
  BY DEF NoKey, RKeys
<1>2. QED
  BY <1>1 DEF Packet, Beacon, Over, RPackets, RSess

LEMMA BeaconKeeps ==
    ASSUME RadioInv, NEW d \in Sides, BeaconTick(d) \/ HandleBeacon(d)
    PROVE  RadioFits
<1>1. CASE BeaconTick(d)
  <2>1. air \in [Sides -> Seq(RPackets)] /\ \A e \in Sides : \A x \in In(air[e]) : Allowed(x, e)
    BY DEF RadioInv, RadioTypes, Allowed, Stems
  <2>2. Allowed(Beacon(FALSE), Other(d))
    BY <1>1, PacketTypes, TwoSides DEF BeaconTick, MayBeacon, Wants, Allowed
  <2>3. AirFits
    BY <1>1, <2>1, <2>2, PacketTypes, AirSent DEF BeaconTick
  <2>4. QED
    BY <1>1, <2>3, SessSame, Counted DEF BeaconTick, RadioFits
<1>2. CASE HandleBeacon(d)
  <2>1. air[d] # <<>> /\ UNCHANGED <<kind, radioFaults>>
    BY <1>2 DEF HandleBeacon
  <2>2. /\ Took(d) \in [Sides -> Seq(RPackets)]
        /\ \A e \in Sides : \A x \in In(Took(d)[e]) : Allowed(x, e)
    BY <2>1, TookFits
  <2>3. air' = Took(d) \/ (air' = Send(Took(d), d, Beacon(TRUE)) /\ ~BeatsRadio(sess'[d]))
    BY <1>2 DEF HandleBeacon
  <2>4. AirFits
    <3>1. CASE air' = Took(d)
      BY <2>2, <3>1 DEF AirFits
    <3>2. CASE air' = Send(Took(d), d, Beacon(TRUE)) /\ ~BeatsRadio(sess'[d])
      <4>1. Allowed(Beacon(TRUE), Other(d))
        BY <3>2, PacketTypes, TwoSides DEF Allowed
      <4>2. QED
        BY <2>2, <3>2, <4>1, PacketTypes, AirSent
    <3>3. QED
      BY <2>3, <3>1, <3>2
  <2>5. sess' = sess \/ MovesToAir(d, NoSess)
    BY <1>2 DEF HandleBeacon, Drops
  <2>6. QED
    BY <2>1, <2>4, <2>5, SessSame, Dropped, Counted DEF RadioFits
<1>3. QED
  BY <1>1, <1>2

(* Actions that send nothing and keep the session, or end it.               *)
LEMMA OthersKeep ==
    ASSUME RadioInv, NEW d \in Sides,
           \/ GraceOver(d) \/ OutOfRange(d) \/ DialDone(d) \/ DialFails(d) \/ Reap(d) \/ Checked(d)
           \/ NetworkBack
    PROVE  RadioFits
<1>1. air' = air /\ kind' = kind /\ (radioFaults' = radioFaults \/ \E f : RadioFault(f))
  BY DEF GraceOver, OutOfRange, DialDone, DialFails, Reap, Checked, NetworkBack, callVars
<1>2. sess' = sess \/ MovesToAir(d, NoSess)
  BY DEF GraceOver, OutOfRange, DialDone, DialFails, Reap, Checked, NetworkBack, Drops
<1>3. QED
  BY <1>1, <1>2, AirSame, SessSame, Dropped, Counted DEF RadioFits

LEMMA DialKeeps ==
    ASSUME RadioInv, NEW d \in Sides, Dial(d)
    PROVE  RadioFits
<1> DEFINE key == FreshKey(d, Up(sess[d]))
<1>1. key \in RKeys /\ \A e \in Sides : key.n # sess[e].key.n
  BY FreshFacts DEF RadioInv, Up, RadioTypes, RSess
<1>2. /\ air' = Send(air, d, Packet("hello", key))
      /\ sess' = sess \/ sess' = [sess EXCEPT ![d] = NoSess]
      /\ kind' = kind /\ (radioFaults' = radioFaults \/ \E f : RadioFault(f))
  BY DEF Dial
<1> HIDE DEF key
<1>3. air \in [Sides -> Seq(RPackets)] /\ \A e \in Sides : \A x \in In(air[e]) : Allowed(x, e)
  BY DEF RadioInv, RadioTypes, Allowed, Stems
<1>4. Allowed(Packet("hello", key), Other(d))
  BY <1>1, PacketTypes DEF Allowed
<1>5. AirFits
  BY <1>1, <1>2, <1>3, <1>4, PacketTypes, AirSent
<1>6. NoSess \in RSess /\ NoSess.on = "no"
  BY DEF NoSess, NoKey, RSess, RKeys
<1>7. sess' \in [Sides -> RSess] /\ \A e \in Sides : SessFits(sess[e], sess'[e])
  BY <1>2, <1>6 DEF SessFits, RadioInv, RadioTypes
<1>8. QED
  BY <1>2, <1>5, <1>7, Counted DEF RadioFits

(* The answer to a packet: what is left in its queue gets older.            *)
LEMMA AnswerFits ==
    ASSUME RadioInv, NEW d \in Sides, air[d] # <<>>, NEW p \in RPackets, Allowed(p, Other(d)),
           air' = [Send(Took(d), d, p) EXCEPT ![d] = Aged(@)]
    PROVE  AirFits
<1> DEFINE a == Send(Took(d), d, p)
<1>1. /\ Took(d) \in [Sides -> Seq(RPackets)]
      /\ \A e \in Sides : \A x \in In(Took(d)[e]) : Allowed(x, e)
  BY TookFits
<1>2. Other(d) \in Sides
  BY TwoSides
<1>3. Took(d)[Other(d)] \in Seq(RPackets)
  BY <1>1, <1>2
<1>4. /\ Append(Took(d)[Other(d)], p) \in Seq(RPackets)
      /\ In(Append(Took(d)[Other(d)], p)) = In(Took(d)[Other(d)]) \cup {p}
  BY <1>3, Queues
<1>5. a \in [Sides -> Seq(RPackets)] /\ \A e \in Sides : \A x \in In(a[e]) : Allowed(x, e)
  BY <1>1, <1>2, <1>4 DEF Send
<1> HIDE DEF a
<1>6. Aged(a[d]) \in Seq(RPackets) /\ \A x \in In(Aged(a[d])) : Allowed(x, d)
  BY <1>5, AgedFits
<1>7. air' = [a EXCEPT ![d] = Aged(a[d])]
  BY DEF a
<1>8. QED
  BY <1>5, <1>6, <1>7 DEF AirFits

LEMMA TookAir == ASSUME RadioInv, NEW d \in Sides, air[d] # <<>>, air' = Took(d) PROVE AirFits
BY TookFits DEF AirFits

LEMMA HelloKeeps ==
    ASSUME RadioInv, NEW d \in Sides, HandleHello(d)
    PROVE  RadioFits
<1> DEFINE h == Head(air[d])
<1>1. air[d] # <<>> /\ h.k = "hello" /\ UNCHANGED <<kind, radioFaults>>
  BY DEF HandleHello, OnAir
<1>2. h \in In(air[d]) /\ h \in RPackets
  BY <1>1, TookFits
<1>3. h.key \in RKeys
  BY <1>2 DEF RPackets
<1>4. \/ air' = Took(d) /\ sess' = sess
      \/ /\ MovesToAir(d, Over("air", h.key, FALSE))
         /\ air' = [Send(Took(d), d, Packet("ack", h.key)) EXCEPT ![d] = Aged(@)]
  BY DEF HandleHello
<1> HIDE DEF h
<1>5. CASE air' = Took(d) /\ sess' = sess
  BY <1>1, <1>5, TookAir, SessSame, Counted DEF RadioFits
<1>6. CASE /\ MovesToAir(d, Over("air", h.key, FALSE))
           /\ air' = [Send(Took(d), d, Packet("ack", h.key)) EXCEPT ![d] = Aged(@)]
  <2>1. Allowed(Packet("ack", h.key), Other(d)) /\ Packet("ack", h.key) \in RPackets
    BY <1>1, <1>2, <1>3, PacketTypes DEF Allowed
  <2>2. AirFits
    BY <1>1, <1>6, <2>1, AnswerFits
  <2>3. /\ Over("air", h.key, FALSE) \in RSess
        /\ SessFits(sess[d], Over("air", h.key, FALSE))
    <3> DEFINE s == Over("air", h.key, FALSE)
    <3>1. s \in RSess /\ s.on = "air" /\ s.key = h.key /\ s.young = TRUE
      BY <1>3, PacketTypes
    <3> HIDE DEF s
    <3>2. SessFits(sess[d], s)
      BY <1>1, <1>2, <3>1 DEF SessFits
    <3>3. QED
      BY <3>1, <3>2 DEF s
  <2>4. QED
    BY <1>1, <1>6, <2>2, <2>3, Moved, Counted DEF RadioFits
<1>7. QED
  BY <1>4, <1>5, <1>6

LEMMA AckKeeps ==
    ASSUME RadioInv, NEW d \in Sides, HandleAck(d)
    PROVE  RadioFits
<1> DEFINE h == Head(air[d])
           sure == try[d].up \/ sess[d].on # "air" \/ sess[d].sure
<1>1. air[d] # <<>> /\ h.k = "ack" /\ UNCHANGED <<kind, radioFaults>>
  BY DEF HandleAck, OnAir
<1>2. h \in In(air[d]) /\ h \in RPackets
  BY <1>1, TookFits
<1>3. h.key \in RKeys
  BY <1>2 DEF RPackets
<1>4. \/ air' = Took(d) /\ sess' = sess
      \/ /\ MovesToAir(d, Over("air", h.key, sure))
         /\ air' = [Send(Took(d), d, Packet("data", h.key)) EXCEPT ![d] = Aged(@)]
  BY DEF HandleAck
<1>5. sure \in BOOLEAN
  OBVIOUS
<1> HIDE DEF h, sure
<1>6. CASE air' = Took(d) /\ sess' = sess
  BY <1>1, <1>6, TookAir, SessSame, Counted DEF RadioFits
<1>7. CASE /\ MovesToAir(d, Over("air", h.key, sure))
           /\ air' = [Send(Took(d), d, Packet("data", h.key)) EXCEPT ![d] = Aged(@)]
  <2>1. Allowed(Packet("data", h.key), Other(d)) /\ Packet("data", h.key) \in RPackets
    BY <1>3, PacketTypes DEF Allowed
  <2>2. AirFits
    BY <1>1, <1>7, <2>1, AnswerFits
  <2>3. /\ Over("air", h.key, sure) \in RSess
        /\ SessFits(sess[d], Over("air", h.key, sure))
    <3> DEFINE s == Over("air", h.key, sure)
    <3>1. s \in RSess /\ s.on = "air" /\ s.key = h.key /\ s.young = TRUE
      BY <1>3, <1>5, PacketTypes
    <3> HIDE DEF s
    <3>2. SessFits(sess[d], s)
      BY <1>1, <1>2, <3>1 DEF SessFits
    <3>3. QED
      BY <3>1, <3>2 DEF s
  <2>4. QED
    BY <1>1, <1>7, <2>2, <2>3, Moved, Counted DEF RadioFits
<1>8. QED
  BY <1>4, <1>6, <1>7

LEMMA DataKeeps ==
    ASSUME RadioInv, NEW d \in Sides, HandleData(d) \/ Ping(d) \/ Lose(d)
    PROVE  RadioFits
<1>1. CASE HandleData(d)
  <2>1. /\ air[d] # <<>> /\ air' = Took(d) /\ UNCHANGED <<kind, radioFaults>>
        /\ sess' = sess \/ sess' = [sess EXCEPT ![d].sure = TRUE]
    BY <1>1 DEF HandleData, OnAir
  <2>2. sess' \in [Sides -> RSess] /\ \A e \in Sides : SessFits(sess[e], sess'[e])
    <3> DEFINE t == [sess[d] EXCEPT !.sure = TRUE]
    <3>1. t \in RSess /\ t.on = sess[d].on /\ t.key = sess[d].key /\ t.young = sess[d].young /\ t.sure = TRUE
      BY DEF RadioInv, RadioTypes, RSess
    <3>2. sess' = sess \/ sess' = [sess EXCEPT ![d] = t]
      BY <2>1
    <3> HIDE DEF t
    <3>3. QED
      BY <3>1, <3>2 DEF SessFits, RadioInv, RadioTypes
  <2>3. QED
    BY <2>1, <2>2, TookAir, Counted DEF RadioFits
<1>2. CASE Ping(d)
  <2>1. sess[d].key \in RKeys
    BY DEF RadioInv, RadioTypes, RSess
  <2>2. air \in [Sides -> Seq(RPackets)] /\ \A e \in Sides : \A x \in In(air[e]) : Allowed(x, e)
    BY DEF RadioInv, RadioTypes, Allowed, Stems
  <2>3. Packet("data", sess[d].key) \in RPackets /\ Allowed(Packet("data", sess[d].key), Other(d))
    BY <2>1, PacketTypes DEF Allowed
  <2>4. AirFits
    BY <1>2, <2>2, <2>3, AirSent DEF Ping
  <2>5. QED
    BY <1>2, <2>4, SessSame, Counted DEF RadioFits, Ping
<1>3. CASE Lose(d)
  BY <1>3, TookAir, SessSame, Counted DEF Lose, RadioFits
<1>4. QED
  BY <1>1, <1>2, <1>3

LEMMA RestartKeeps ==
    ASSUME RadioInv, NEW d \in Sides, RadioRestart(d) \/ NetworkGone(d)
    PROVE  RadioFits
<1>1. CASE RadioRestart(d)
  <2>1. AirFits
    <3>1. \A e \in Sides : air[e] \in Seq(RPackets)
      BY DEF RadioInv, RadioTypes
    <3>2. ASSUME NEW e \in Sides
          PROVE  /\ Forgotten(d, air[e]) \in Seq(RPackets)
                 /\ \A p \in In(Forgotten(d, air[e])) : Allowed(p, e)
      BY <3>1, Marked DEF Allowed, Stems
    <3>3. air' = [e \in Sides |-> Forgotten(d, air[e])]
      BY <1>1 DEF RadioRestart
    <3>4. QED
      BY <3>2, <3>3 DEF AirFits
  <2>2. QED
    BY <1>1, <2>1, Dropped, Counted DEF RadioRestart, RadioFits
<1>2. CASE NetworkGone(d)
  <2>1. NoSess \in RSess /\ NoSess.on = "no"
    BY DEF NoSess, NoKey, RSess, RKeys
  <2>2. sess' = sess \/ sess' = [sess EXCEPT ![d] = NoSess]
    BY <1>2 DEF NetworkGone, RadioInv, RadioTypes
  <2>3. sess' \in [Sides -> RSess] /\ \A e \in Sides : SessFits(sess[e], sess'[e])
    BY <2>1, <2>2 DEF SessFits, RadioInv, RadioTypes
  <2>4. QED
    BY <1>2, <2>3, AirSame, Counted DEF NetworkGone, RadioFits
<1>3. QED
  BY <1>1, <1>2

(* A session on the network, at both ends at once.                          *)
LEMMA OnNetworkFacts ==
    ASSUME RadioInv, OnNetwork
    PROVE  /\ sess' \in [Sides -> RSess] /\ AirFits
           /\ \A e \in Sides : sess'[e].on = kind /\ sess'["L"] = sess'[e]
<1> DEFINE fresh == FreshKey("L", FALSE)
           key == [fresh EXCEPT !.by = "-"]
           s == [Over(kind, fresh, TRUE) EXCEPT !.key.by = "-"]
<1>1. fresh \in RKeys
  BY FreshFacts DEF RadioInv, Sides
<1>2. sess' = Both(s) /\ air' = [e \in Sides |-> Aged(air[e])]
  BY DEF OnNetwork
<1> HIDE DEF fresh
<1>3. key \in RKeys
  BY <1>1 DEF RKeys
<1>4. s \in RSess /\ s.on = kind
  <2> DEFINE o == Over(kind, fresh, TRUE)
  <2>1. o \in RSess /\ o.on = kind /\ o.key = fresh
    <3>1. kind \in {"lan", "net"}
      BY DEF RadioInv, RadioTypes
    <3>2. QED
      BY <1>1, <3>1 DEF Over, RSess
  <2>2. s = [o EXCEPT !.key = [o.key EXCEPT !.by = "-"]]
    OBVIOUS
  <2> HIDE DEF o
  <2>3. s = [o EXCEPT !.key = key]
    BY <2>1, <2>2
  <2> HIDE DEF s, key
  <2>4. QED
    BY <1>3, <2>1, <2>3 DEF RSess
<1> HIDE DEF key, s
<1>5. air \in [Sides -> Seq(RPackets)] /\ \A e \in Sides : \A x \in In(air[e]) : Allowed(x, e)
  BY DEF RadioInv, RadioTypes, Allowed, Stems
<1>6. ASSUME NEW e \in Sides
      PROVE  Aged(air[e]) \in Seq(RPackets) /\ \A x \in In(Aged(air[e])) : Allowed(x, e)
  BY <1>5, AgedFits
<1>7. AirFits
  BY <1>2, <1>6 DEF AirFits
<1>8. QED
  BY <1>2, <1>4, <1>7 DEF Both, Sides

LEMMA NetworkKeeps ==
    ASSUME RadioInv, NEW d \in Sides, NetworkDial(d) \/ ToLan
    PROVE  RadioFits
<1>1. kind' = kind /\ (radioFaults' = radioFaults \/ \E f : RadioFault(f))
  BY DEF NetworkDial, ToLan, WithRadio
<1>2. OnNetwork \/ UNCHANGED <<sess, air>>
  BY DEF NetworkDial, ToLan
<1>3. CASE OnNetwork
  BY <1>1, <1>3, OnNetworkFacts, Counted DEF RadioFits, SessFits, RadioInv, RadioTypes
<1>4. CASE UNCHANGED <<sess, air>>
  BY <1>1, <1>4, AirSame, SessSame, Counted DEF RadioFits
<1>5. QED
  BY <1>2, <1>3, <1>4

(* A session settles when nothing on the air could have come before it.     *)
LEMMA SettlesKeeps == ASSUME RadioInv, NEW d \in Sides, Settles(d) PROVE RadioInv'
<1>1. air' = air /\ kind' = kind /\ radioFaults' = radioFaults
  BY DEF Settles
<1>2. /\ sess' \in [Sides -> RSess]
      /\ \A e \in Sides : /\ sess'[e].on = sess[e].on /\ sess'[e].key = sess[e].key /\ sess'[e].sure = sess[e].sure
                          /\ e # d => sess'[e] = sess[e]
  <2> DEFINE t == [sess[d] EXCEPT !.young = FALSE]
  <2>1. t \in RSess /\ t.on = sess[d].on /\ t.key = sess[d].key /\ t.sure = sess[d].sure
    BY DEF RadioInv, RadioTypes, RSess
  <2>2. sess' = [sess EXCEPT ![d] = t]
    BY DEF Settles
  <2> HIDE DEF t
  <2>3. QED
    BY <2>1, <2>2 DEF RadioInv, RadioTypes
<1>3. RadioTypes'
  BY <1>1, <1>2 DEF RadioInv, RadioTypes
<1>4. \A e \in Sides : DOMAIN air[e] = 1..Len(air[e])
  BY Queues DEF RadioInv, RadioTypes
<1>5. LateKeys'
  BY <1>1, <1>4 DEF LateKeys, Settles, OnTheWay, In
<1>6. LateBeacons'
  <2> SUFFICES ASSUME NEW e \in Sides, Settled(sess'[e]), sess'[Other(e)].on = "air",
                      sess'[Other(e)].key = sess'[e].key
               PROVE  /\ sess'[Other(e)].sure = TRUE
                      /\ \A p \in In(air'[e]) : p.k = "beacon" => p.old = TRUE
    BY DEF LateBeacons
  <2>1. /\ sess[Other(e)].on = "air" /\ sess[Other(e)].key = sess[e].key
        /\ sess'[Other(e)].sure = sess[Other(e)].sure /\ sess[Other(e)].sure \in BOOLEAN
    BY <1>2, TwoSides DEF RadioInv, RadioTypes, RSess
  <2>2. CASE e = d
    <3>1. sess[Other(d)].sure
      BY <2>1, <2>2 DEF Settles
    <3>2. BeaconsTo(d) = {}
      BY <2>1, <2>2, <3>1 DEF Settles, Wants, BeatsRadio, Up
    <3>3. ASSUME NEW p \in In(air[d]) PROVE p.k # "beacon"
      BY <1>4, <3>2 DEF BeaconsTo, In
    <3>4. QED
      BY <1>1, <2>1, <2>2, <3>1, <3>3
  <2>3. CASE e # d
    BY <1>1, <1>2, <2>1, <2>3 DEF RadioInv, LateBeacons, Settled
  <2>4. QED
    BY <2>2, <2>3
<1>7. QED
  BY <1>3, <1>5, <1>6 DEF RadioInv

LEMMA RadioKeeps == ASSUME RadioInv, RadioNext PROVE RadioInv'
<1>1. ASSUME NEW d \in Sides, Settles(d) PROVE RadioInv'
  BY <1>1, SettlesKeeps
<1>2. ASSUME NEW d \in Sides, Receives(d) \/ BeaconTick(d) PROVE RadioFits
  BY <1>2, BeaconKeeps, HelloKeeps, AckKeeps, DataKeeps DEF Receives
<1>3. ASSUME NEW d \in Sides,
             \/ GraceOver(d) \/ OutOfRange(d) \/ Dial(d) \/ DialDone(d) \/ DialFails(d)
             \/ Ping(d) \/ Reap(d) \/ Checked(d) \/ NetworkDial(d)
      PROVE  RadioFits
  BY <1>3, OthersKeep, DialKeeps, DataKeeps, NetworkKeeps
<1>4. ASSUME ToLan \/ NetworkBack PROVE RadioFits
  BY <1>4, NetworkKeeps, OthersKeep DEF Sides
<1>5. ASSUME NEW d \in Sides, NetworkGone(d) \/ RadioRestart(d) \/ Lose(d) PROVE RadioFits
  BY <1>5, RestartKeeps, DataKeeps
<1>6. QED
  BY <1>1, <1>2, <1>3, <1>4, <1>5, RadioKept DEF RadioNext, RadioProgress, RadioActs

LEMMA RadioStarts == InitRadio => RadioInv
<1> SUFFICES ASSUME InitRadio PROVE RadioInv
  OBVIOUS
<1> DEFINE key == [NoKey EXCEPT !.n = 1]
<1>1. NoKey \in RKeys /\ key \in RKeys
  BY DEF NoKey, RKeys
<1> HIDE DEF key
<1>2. NoSess \in RSess /\ NoSess.on = "no"
  BY <1>1 DEF NoSess, RSess
<1>3. kind \in {"lan", "net"} /\ (sess = Both(NoSess) \/ sess = Both(Over(kind, key, TRUE)))
  BY DEF InitRadio, key
<1>4. Over(kind, key, TRUE) \in RSess /\ Over(kind, key, TRUE).on # "air"
  BY <1>1, <1>3 DEF Over, RSess
<1>5. sess \in [Sides -> RSess] /\ \A d \in Sides : sess[d].on # "air"
  BY <1>2, <1>3, <1>4 DEF Both
<1>6. air \in [Sides -> Seq(RPackets)] /\ radioFaults \in Nat
  <2>1. <<>> \in Seq(RPackets)
    BY EmptySeq
  <2>2. QED
    BY <2>1 DEF InitRadio, Both
<1>7. QED
  BY <1>3, <1>5, <1>6 DEF RadioInv, RadioTypes, LateKeys, LateBeacons, Settled

(* Nothing that is not a fault ends it: what it hears is older than it,     *)
(* pings are answered, and nothing dials.                                   *)
LEMMA WorkingKept ==
    ASSUME RadioInv, Works, RadioNext, radioFaults' = radioFaults
    PROVE  Shared("air")' \/ Shared("lan")'
<1>1. \A d \in Sides : /\ sess[d].on = "air" /\ sess[Other(d)].on = "air" /\ sess[Other(d)].key = sess[d].key
                       /\ sess[d].sure /\ dialing[d] = "no"
                       /\ \A i \in DOMAIN air[d] : air[d][i].k \notin {"hello", "ack"}
  BY DEF Works, Shared, Sides, Other
<1>2. ASSUME \A d \in Sides : sess'[d].on = sess[d].on /\ sess'[d].key = sess[d].key
      PROVE  Shared("air")'
  BY <1>2 DEF Works, Shared, Sides
<1>3. ASSUME NEW f, RadioFault(f) PROVE FALSE
  BY <1>3 DEF RadioFault, RadioInv, RadioTypes
<1>4. CASE ToLan
  <2>1. kind = "lan" /\ OnNetwork
    BY <1>4 DEF ToLan
  <2>2. \A e \in Sides : sess'[e].on = "lan" /\ sess'["L"] = sess'[e]
    BY <2>1, OnNetworkFacts
  <2>3. sess'["L"].on = "lan" /\ sess'["H"].on = "lan" /\ sess'["L"] = sess'["H"]
    BY <2>2 DEF Sides
  <2>4. QED
    BY <2>3 DEF Shared
<1>5. ASSUME NEW d \in Sides,
             GraceOver(d) \/ OutOfRange(d) \/ DialDone(d) \/ DialFails(d) \/ Ping(d) \/ BeaconTick(d)
      PROVE  Shared("air")'
  <2>1. sess' = sess
    BY <1>5 DEF GraceOver, OutOfRange, DialDone, DialFails, Ping, BeaconTick
  <2>2. QED
    BY <1>2, <2>1
<1>6. ASSUME NEW d \in Sides, Settles(d) \/ HandleData(d)
      PROVE  Shared("air")'
  <2>1. \/ sess' = sess \/ sess' = [sess EXCEPT ![d].young = FALSE]
        \/ sess' = [sess EXCEPT ![d].sure = TRUE]
    BY <1>6 DEF Settles, HandleData
  <2>2. \A e \in Sides : sess'[e].on = sess[e].on /\ sess'[e].key = sess[e].key
    BY <2>1 DEF RadioInv, RadioTypes, RSess
  <2>3. QED
    BY <1>2, <2>2
<1>7. ASSUME NEW d \in Sides, Dial(d) \/ NetworkDial(d) \/ Reap(d) PROVE FALSE
  <2>1. ~Dial(d)
    BY <1>1 DEF Dial
  <2>2. ~NetworkDial(d)
    BY <1>1 DEF NetworkDial, NoSess
  <2>3. ~Reap(d)
    BY <1>1 DEF Reap, AnswersPing
  <2>4. QED
    BY <1>7, <2>1, <2>2, <2>3
<1>8. ASSUME NEW d \in Sides, Checked(d) PROVE Shared("air")'
  <2>1. AnswersPing(d)
    BY <1>1 DEF AnswersPing
  <2>2. sess' = sess
    BY <1>8, <2>1 DEF Checked
  <2>3. QED
    BY <1>2, <2>2
<1>9. ASSUME NEW d \in Sides, HandleHello(d) \/ HandleAck(d) PROVE FALSE
  <2>1. air[d] # <<>> /\ Head(air[d]).k \in {"hello", "ack"}
    BY <1>9 DEF HandleHello, HandleAck, OnAir
  <2>2. 1 \in DOMAIN air[d] /\ Head(air[d]) = air[d][1]
    BY <2>1, Queues DEF RadioInv, RadioTypes
  <2>3. QED
    BY <1>1, <2>1, <2>2
<1>10. ASSUME NEW d \in Sides, HandleBeacon(d) PROVE Shared("air")'
  <2> DEFINE b == Head(air[d])
  <2>1. air[d] # <<>> /\ b.k = "beacon"
    BY <1>10 DEF HandleBeacon
  <2>2. b \in In(air[d])
    BY <2>1, Queues DEF RadioInv, RadioTypes
  <2>3. sess[d].young \in BOOLEAN
    BY DEF RadioInv, RadioTypes, RSess
  <2>4. Predates(sess[d], b)
    <3>1. CASE sess[d].young = TRUE
      BY <1>1, <3>1 DEF Predates
    <3>2. CASE sess[d].young = FALSE
      <4>1. b.old = TRUE
        BY <1>1, <2>1, <2>2, <3>2 DEF RadioInv, LateBeacons, Settled
      <4>2. QED
        BY <1>1, <4>1 DEF Predates
    <3>3. QED
      BY <2>3, <3>1, <3>2
  <2>5. sess' = sess
    BY <1>1, <1>10, <2>4 DEF HandleBeacon
  <2>6. QED
    BY <1>2, <2>5
<1>11. ASSUME NEW d \in Sides PROVE ~NetworkBack /\ ~NetworkGone(d) /\ ~RadioRestart(d) /\ ~Lose(d)
  BY <1>3 DEF NetworkBack, NetworkGone, RadioRestart, Lose
<1>12. "L" \in Sides
  BY DEF Sides
<1>13. QED
  BY <1>4, <1>5, <1>6, <1>7, <1>8, <1>9, <1>10, <1>11, <1>12
     DEF RadioNext, RadioProgress, RadioActs, Receives

(* A radio session that both ends are sure of, with nothing dialed, ends in *)
(* no step but a fault, however late the beacons and the confirmations that *)
(* are still on the air arrive (radio.py, backend.py); a shared network may *)
(* take its place at both ends at once.                                     *)
THEOREM WorkingStaysTheorem == Spec => WorkingStays
<1>1. Init => RadioInv
  BY RadioStarts DEF Init
<1>2. RadioInv /\ [Next]_vars => RadioInv'
  <2>1. ASSUME RadioInv, UNCHANGED radioVars PROVE RadioInv'
    <3>1. sess' = sess /\ air' = air /\ kind' = kind /\ radioFaults' = radioFaults
      BY <2>1 DEF radioVars
    <3>2. QED
      BY <2>1, <3>1 DEF RadioInv, RadioTypes, LateKeys, LateBeacons
  <2>2. QED
    BY <2>1, RadioKeeps DEF Next, OnlyPunch, OnlyDoor, OnlyRadio, OnlyLan, vars
<1>3. RadioInv /\ [Next]_vars =>
         [Works /\ radioFaults' = radioFaults => (\E on \in {"air", "lan"} : Shared(on)')]_radioVars
  <2>1. ASSUME RadioInv, Works, RadioNext, radioFaults' = radioFaults
        PROVE  \E on \in {"air", "lan"} : Shared(on)'
    <3>1. Shared("air")' \/ Shared("lan")'
      BY <2>1, WorkingKept
    <3>2. QED
      BY <3>1
  <2>2. QED
    BY <2>1 DEF Next, OnlyPunch, OnlyDoor, OnlyRadio, OnlyLan, vars
<1>4. QED
  BY <1>1, <1>2, <1>3, PTL DEF Spec, WorkingStays
==============================================================================
