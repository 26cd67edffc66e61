----------------------------- MODULE RadioContact -----------------------------
(***************************************************************************)
(* Two contacts with a serial radio (radio.py, the radio's part of         *)
(* connect.py and backend.py): beacons that name the other, who dials, a   *)
(* handshake whose answer may be lost, and the choice between the radio,   *)
(* a shared network ("lan") and the internet ("net").                      *)
(*                                                                         *)
(* Left out: more contacts in range, strangers, forged and repeated        *)
(* beacons, file transfers, handshakes on the network (module Session): a  *)
(* session there comes up at both ends at once.                            *)
(*                                                                         *)
(* Time: a handshake has 180 s, which is more than anything on the air     *)
(* takes; one that takes longer is a fault, "slow".  Clocks agree.         *)
(***************************************************************************)
EXTENDS Naturals, Sequences, FiniteSets

CONSTANTS RadioFaults, MaxRadioFaults

ASSUME RadioAssumption == MaxRadioFaults \in Nat

Sides == {"L", "H"}                  \* the lower and the higher hash
Other(d) == IF d = "L" THEN "H" ELSE "L"

VARIABLES
    kind,       \* what the network between them is, "lan" or "net"
    network,    \* it works
    sess,       \* the session of each: [on, key, sure, young]
    try,        \* an outstanding handshake on the air (_pending_handshakes, _upgrades)
    dialing,    \* the task that dials (_radio_dialing): "no", "due", "sent"
    waiting,    \* "no", "yes" (_radio_waiting) or "grace": for RADIO_DIAL_GRACE
    checking,   \* the session being checked with a ping (_radio_checking)
    air,        \* packets on the radio towards each
    radioFaults

callVars == <<try, dialing, waiting, checking>>
radioVars == <<kind, network, sess, callVars, air, radioFaults>>

Both(v) == [d \in Sides |-> v]
NoKey == [by |-> "-", n |-> 0, up |-> FALSE]
NoSess == [on |-> "no", key |-> NoKey, sure |-> FALSE, young |-> FALSE]
Over(on, key, sure) == [on |-> on, key |-> key, sure |-> sure, young |-> TRUE]

InitRadio ==
    /\ kind \in {"lan", "net"}
    /\ \/ network = FALSE /\ sess = Both(NoSess)
       \/ network = TRUE /\ sess = Both(Over(kind, [NoKey EXCEPT !.n = 1], TRUE))
    /\ try = Both(NoKey) /\ dialing = Both("no") /\ waiting = Both("no") /\ checking = Both(NoKey)
    /\ air = Both(<<>>)
    /\ radioFaults = 0

RadioFault(f) == f \in RadioFaults /\ radioFaults < MaxRadioFaults /\ radioFaults' = radioFaults + 1

------------------------------------------------------------------------------
(* Sessions                                                                *)

KeysInUse == (UNION {{sess[d].key, try[d], checking[d]} : d \in Sides})
             \cup (UNION {{air[d][i].key : i \in DOMAIN air[d]} : d \in Sides})
FreshKey(d, up) ==
    LET used == {k.n : k \in KeysInUse}
    IN  [by |-> d, n |-> CHOOSE n \in 1..(Cardinality(used) + 1) : n \notin used, up |-> up]

Up(s) == s.on # "no" /\ s.sure
BeatsRadio(s) == Up(s) /\ s.on \in {"air", "lan"}

Packet(k, key) == [k |-> k, key |-> key, old |-> FALSE, reply |-> FALSE]
Send(a, d, p) == [a EXCEPT ![Other(d)] = Append(@, p)]

(* What was sent before this side's session came up is older than it.       *)
Aged(q) == [i \in DOMAIN q |-> [q[i] EXCEPT !.old = TRUE]]

(* Session s for d, on the air: a connection on the network is closed, and  *)
(* with it the other end's session there.                                   *)
MovesToAir(d, s) ==
    sess' = [sess EXCEPT ![d] = s,
                         ![Other(d)] = IF sess[d].on \in {"lan", "net"} /\ network /\ @.on = sess[d].on THEN NoSess ELSE @]

(* _teardown_link                                                           *)
Drops(d) ==
    /\ MovesToAir(d, NoSess)
    /\ try' = [try EXCEPT ![d] = IF @.up THEN @ ELSE NoKey]

------------------------------------------------------------------------------
(* Beacons                                                                 *)

HandshakePending(d) == try[d] # NoKey /\ ~try[d].up

Wants(d) == ~BeatsRadio(sess[d])
MayBeacon(d) == Wants(d) /\ dialing[d] = "no" /\ ~HandshakePending(d)

Beacon(reply) == [Packet("beacon", NoKey) EXCEPT !.reply = reply]
BeaconsTo(d) == {i \in DOMAIN air[d] : air[d][i].k = "beacon"}

(* No more than beacons on the way to it.                                   *)
Quiet(d) == BeaconsTo(d) = DOMAIN air[d]

(* radio_tick: at most one beacon of ours is on the air.                    *)
BeaconTick(d) ==
    /\ MayBeacon(d) /\ BeaconsTo(Other(d)) = {}
    /\ air' = Send(air, d, Beacon(FALSE))
    /\ UNCHANGED <<kind, network, sess, callVars, radioFaults>>

(* _maybe_dial_radio, with the session and the wait as they are by then     *)
MaybeDial(d, s, w) ==
    IF BeatsRadio(s)
    THEN waiting' = [waiting EXCEPT ![d] = "no"] /\ UNCHANGED dialing
    ELSE /\ waiting' = [waiting EXCEPT ![d] = w]
         /\ dialing' = [dialing EXCEPT ![d] = IF @ = "no" /\ (d = "L" \/ w = "grace") THEN "due" ELSE @]

Waited(d) == IF waiting[d] = "no" THEN "yes" ELSE waiting[d]

(* Mutated: any beacon ends our radio session.                              *)
NeverPredates(s, b) == FALSE

(* Mutated: a session that was confirmed once is never given up for one.    *)
PredatesAlways(s, b) == s.sure

(* Sent before our session came up, or so soon after it that it may be.     *)
Predates(s, b) == s.sure /\ (s.young \/ b.old)

Took(d) == [air EXCEPT ![d] = Tail(@)]

HandleBeacon(d) ==
    /\ air[d] # <<>> /\ Head(air[d]).k = "beacon"
    /\ LET b == Head(air[d])
           s == sess[d]
           ours == s.on = "air"
       IN  /\ CASE ours /\ Predates(s, b) -> UNCHANGED <<sess, try, waiting, dialing, checking>>
                [] ours /\ ~Predates(s, b) ->
                      Drops(d) /\ MaybeDial(d, NoSess, Waited(d)) /\ UNCHANGED checking
                [] OTHER ->
                      /\ checking' = [checking EXCEPT ![d] = IF @ = NoKey /\ BeatsRadio(s) /\ ~b.old THEN s.key ELSE @]
                      /\ MaybeDial(d, s, Waited(d))
                      /\ UNCHANGED <<sess, try>>
           /\ air' = IF ~b.reply /\ ~BeatsRadio(sess'[d]) /\ dialing'[d] = "no" /\ (try'[d] = NoKey \/ try'[d].up)
                        /\ BeaconsTo(Other(d)) = {}
                     THEN Send(Took(d), d, Beacon(TRUE)) ELSE Took(d)
    /\ UNCHANGED <<kind, network, radioFaults>>

(* The higher hash has waited for RADIO_DIAL_GRACE.                         *)
GraceOver(d) ==
    /\ waiting[d] = "yes"
    /\ MaybeDial(d, sess[d], "grace")
    /\ UNCHANGED <<kind, network, sess, try, checking, air, radioFaults>>

(* No beacon for RADIO_NEAR_FOR.                                            *)
OutOfRange(d) ==
    /\ waiting[d] # "no" /\ ~Wants(Other(d)) /\ BeaconsTo(d) = {}
    /\ waiting' = [waiting EXCEPT ![d] = "no"]
    /\ UNCHANGED <<kind, network, sess, try, dialing, checking, air, radioFaults>>

OnTheWay == \E e \in Sides : \E i \in DOMAIN air[e] : air[e][i].k \in {"hello", "ack"}

(* RADIO_SESSION_SETTLE (120 s) is longer than what is on the way takes.    *)
Settles(d) ==
    /\ sess[d].on = "air" /\ sess[d].young /\ ~OnTheWay /\ \A i \in DOMAIN air[d] : ~air[d][i].old
    /\ \A e \in Sides : \A i \in DOMAIN air[e] : air[e][i].key # sess[d].key
    /\ sess[Other(d)].key = sess[d].key => sess[Other(d)].sure
    /\ BeaconsTo(d) # {} => Wants(Other(d))
    /\ sess' = [sess EXCEPT ![d].young = FALSE]
    /\ UNCHANGED <<kind, network, callVars, air, radioFaults>>

------------------------------------------------------------------------------
(* The handshake on the air                                                *)

NotOnAir(d) == \A e \in Sides : \A i \in DOMAIN air[e] : air[e][i].k \notin {"hello", "ack"} \/ air[e][i].key # try[d]

(* Two handshakes of which one is next to a session: there is no tie-break. *)
Crosses(d) ==
    \/ try[Other(d)].up
    \/ Up(sess[d]) /\ (try[Other(d)] # NoKey \/ \E i \in DOMAIN air[d] : air[d][i].k = "hello")

(* _dial_radio: next to a session that is up, instead of any other.  One    *)
(* that crosses the other's is a fault, "crossing".                         *)
Dial(d) ==
    /\ dialing[d] = "due" /\ ~BeatsRadio(sess[d])
    /\ IF Crosses(d) THEN RadioFault("crossing") ELSE UNCHANGED radioFaults
    /\ LET key == FreshKey(d, Up(sess[d]))
       IN  /\ IF Up(sess[d]) THEN UNCHANGED sess ELSE sess' = [sess EXCEPT ![d] = NoSess]
           /\ try' = [try EXCEPT ![d] = key]
           /\ air' = Send(air, d, Packet("hello", key))
    /\ dialing' = [dialing EXCEPT ![d] = "sent"]
    /\ UNCHANGED <<kind, network, waiting, checking>>

DialDone(d) ==
    /\ \/ dialing[d] = "sent" /\ sess[d].on = "air"
       \/ dialing[d] # "no" /\ BeatsRadio(sess[d])
    /\ dialing' = [dialing EXCEPT ![d] = "no"]
    /\ waiting' = [waiting EXCEPT ![d] = "no"]
    /\ UNCHANGED <<kind, network, sess, try, checking, air, radioFaults>>

(* 180 s without a session: the contact that waits is dialed again.         *)
DialFails(d) ==
    /\ (dialing[d] = "sent" /\ sess[d].on # "air") \/ try[d] # NoKey
    /\ \/ NotOnAir(d) /\ UNCHANGED radioFaults
       \/ ~NotOnAir(d) /\ RadioFault("slow")
    /\ try' = [try EXCEPT ![d] = NoKey]
    /\ dialing' = [dialing EXCEPT ![d] = "no"]
    /\ waiting' = [waiting EXCEPT ![d] = IF @ = "no" THEN @ ELSE "grace"]
    /\ UNCHANGED <<kind, network, sess, checking, air>>

(* Ours is still under way, and the lower hash keeps its own.               *)
KeepsOurs(d) == HandshakePending(d) /\ sess[d] = NoSess /\ d = "L"

OnAir(d, k) == air[d] # <<>> /\ Head(air[d]).k = k

HandleHello(d) ==
    /\ OnAir(d, "hello")
    /\ IF KeepsOurs(d)
       THEN air' = Took(d) /\ UNCHANGED <<sess, try>>
       ELSE LET key == Head(air[d]).key
            IN  /\ MovesToAir(d, Over("air", key, FALSE))
                /\ try' = [try EXCEPT ![d] = IF @.up THEN @ ELSE NoKey]
                /\ air' = [Send(Took(d), d, Packet("ack", key)) EXCEPT ![d] = Aged(@)]
    /\ UNCHANGED <<kind, network, dialing, waiting, checking, radioFaults>>

(* The answer to any of our tries, on a connection that is ours.            *)
AnswersTry(d, key) ==
    IF try[d].up THEN key = try[d]
    ELSE key.by = d /\ ~key.up /\ (sess[d].on = "air" \/ HandshakePending(d))

(* The session is completed, or moved on to the keys of this try, which     *)
(* does not make it confirmed; an encrypted message says so.                *)
HandleAck(d) ==
    /\ OnAir(d, "ack")
    /\ LET key == Head(air[d]).key
       IN  IF AnswersTry(d, key)
           THEN /\ MovesToAir(d, Over("air", key, try[d].up \/ sess[d].on # "air" \/ sess[d].sure))
                /\ try' = [try EXCEPT ![d] = NoKey]
                /\ waiting' = [waiting EXCEPT ![d] = "no"]
                /\ air' = [Send(Took(d), d, Packet("data", key)) EXCEPT ![d] = Aged(@)]
           ELSE air' = Took(d) /\ UNCHANGED <<sess, try, waiting>>
    /\ UNCHANGED <<kind, network, dialing, checking, radioFaults>>

Confirms(s, key) == s.on = "air" /\ s.key = key

HandleData(d) ==
    /\ OnAir(d, "data")
    /\ IF Confirms(sess[d], Head(air[d]).key)
       THEN /\ sess' = [sess EXCEPT ![d].sure = TRUE]
            /\ waiting' = [waiting EXCEPT ![d] = "no"]
       ELSE UNCHANGED <<sess, waiting>>
    /\ air' = Took(d)
    /\ UNCHANGED <<kind, network, try, dialing, checking, radioFaults>>

(* A ping; only those that still have to tell something.                    *)
Ping(d) ==
    /\ sess[d].on = "air" /\ Quiet(Other(d))
    /\ sess[Other(d)].key = sess[d].key /\ ~sess[Other(d)].sure
    /\ air' = Send(air, d, Packet("data", sess[d].key))
    /\ UNCHANGED <<kind, network, sess, callVars, radioFaults>>

------------------------------------------------------------------------------
(* Silence, checks and the network                                         *)

AnswersPing(d) ==
    /\ sess[Other(d)].on = sess[d].on /\ sess[Other(d)].key = sess[d].key
    /\ sess[d].on = "air" \/ network

(* reap_dead_links: on the radio only if nothing at all is heard.           *)
Reap(d) ==
    /\ sess[d].on # "no" /\ ~AnswersPing(d) /\ \A e \in Sides : Quiet(e)
    /\ sess[d].on = "air" => sess[Other(d)].on # "air" /\ ~Wants(Other(d))
    /\ Drops(d)
    /\ UNCHANGED <<kind, network, dialing, waiting, checking, air, radioFaults>>

(* _verify_or_radio and _check_radio_session: a ping, then drop and dial.   *)
Checked(d) ==
    /\ checking[d] # NoKey /\ Quiet(d)
    /\ checking' = [checking EXCEPT ![d] = NoKey]
    /\ IF sess[d].key # checking[d] \/ AnswersPing(d)
       THEN UNCHANGED <<sess, try, waiting, dialing>>
       ELSE /\ Drops(d)
            /\ IF sess[d].on = "air" THEN UNCHANGED <<waiting, dialing>> ELSE MaybeDial(d, NoSess, "grace")
    /\ UNCHANGED <<kind, network, air, radioFaults>>

NetworkGone(d) ==
    /\ network /\ RadioFault("network")
    /\ network' = FALSE
    /\ sess' = [sess EXCEPT ![d] = IF @.on \in {"lan", "net"} THEN NoSess ELSE @]
    /\ UNCHANGED <<kind, callVars, air>>

NetworkBack ==
    /\ ~network /\ RadioFault("network")
    /\ network' = TRUE
    /\ UNCHANGED <<kind, sess, callVars, air>>

RadioHolds(d) == sess[d].on = "air" /\ sess[d].sure

OnNetwork ==
    /\ sess' = Both([Over(kind, FreshKey("L", FALSE), TRUE) EXCEPT !.key.by = "-"])
    /\ try' = [d \in Sides |-> IF try[d].up THEN try[d] ELSE NoKey]
    /\ air' = [d \in Sides |-> Aged(air[d])]

(* A session on the network that comes up while a handshake is on the air,  *)
(* which then replaces it, is a fault, "both".                              *)
WithRadio == IF OnTheWay \/ dialing # Both("no") THEN RadioFault("both") ELSE UNCHANGED radioFaults

(* A dial over the network; the internet does not replace a working radio   *)
(* session, which is checked then.                                          *)
NetworkDial(d) ==
    /\ network /\ sess[d] = NoSess /\ ~HandshakePending(d) /\ WithRadio
    /\ IF kind = "net" /\ RadioHolds(Other(d))
       THEN /\ checking[Other(d)] = NoKey
            /\ checking' = [checking EXCEPT ![Other(d)] = sess[Other(d)].key] /\ UNCHANGED <<sess, try, air>>
       ELSE OnNetwork /\ UNCHANGED checking
    /\ UNCHANGED <<kind, network, dialing, waiting>>

(* maintain_paths: a shared network comes before the radio.                 *)
ToLan ==
    /\ network /\ kind = "lan" /\ RadioHolds("L") /\ WithRadio
    /\ OnNetwork
    /\ UNCHANGED <<kind, network, dialing, waiting, checking>>

(* Nobody can complete d's handshakes any more.                             *)
Forgotten(d, q) == [i \in DOMAIN q |-> [q[i] EXCEPT !.key.by = IF @ = d THEN "-" ELSE @]]

RadioRestart(d) ==
    /\ RadioFault("restart")
    /\ MovesToAir(d, NoSess)
    /\ try' = [try EXCEPT ![d] = NoKey]
    /\ dialing' = [dialing EXCEPT ![d] = "no"] /\ waiting' = [waiting EXCEPT ![d] = "no"]
    /\ checking' = [checking EXCEPT ![d] = NoKey]
    /\ air' = [e \in Sides |-> Forgotten(d, air[e])]
    /\ UNCHANGED <<kind, network>>

Lose(d) ==
    /\ air[d] # <<>> /\ RadioFault("loss")
    /\ air' = Took(d)
    /\ UNCHANGED <<kind, network, sess, callVars>>

Receives(d) == HandleBeacon(d) \/ HandleHello(d) \/ HandleAck(d) \/ HandleData(d)

RadioActs ==
    \/ ToLan
    \/ \E d \in Sides :
          \/ GraceOver(d) \/ OutOfRange(d) \/ Settles(d)
          \/ Dial(d) \/ DialDone(d) \/ DialFails(d)
          \/ Ping(d) \/ Reap(d) \/ Checked(d) \/ NetworkDial(d)

RadioProgress == RadioActs \/ \E d \in Sides : Receives(d) \/ BeaconTick(d)

RadioNext ==
    \/ RadioProgress \/ NetworkBack
    \/ \E d \in Sides : NetworkGone(d) \/ RadioRestart(d) \/ Lose(d)

------------------------------------------------------------------------------
Shared(on) == sess["L"].on = on /\ sess["H"].on = on /\ sess["L"].key = sess["H"].key

(* Sessions both ends are sure of have the same keys: nothing on the radio  *)
(* would ever end one where they differ.                                    *)
SureMeansShared ==
    (\A d \in Sides : sess[d].on = "air" /\ sess[d].sure) /\ air = Both(<<>>) => Shared("air")

(* A radio session that works is not given up for what was sent before it.  *)
Works == Shared("air") /\ \A d \in Sides : sess[d].sure /\ try[d] = NoKey /\ dialing[d] = "no"
                                           /\ \A i \in DOMAIN air[d] : air[d][i].k \notin {"hello", "ack"}
WorkingStays ==
    [][Works /\ radioFaults' = radioFaults => (\E on \in {"air", "lan"} : Shared(on)')]_radioVars

(* The two end up with the same session, on the radio or a shared network,  *)
(* never with one that shows "connected" and one that does not.             *)
Agree ==
    <>[](Shared("air") \/ Shared("lan")) /\ <>[](\A d \in Sides : sess[d].sure)
==============================================================================
