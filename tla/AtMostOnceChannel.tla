-------------------------- MODULE AtMostOnceChannel --------------------------
(***************************************************************************)
(* What one direction of an encrypted session promises to the layers above *)
(* it: a message that was sealed is handed over at most once, and nothing  *)
(* that was not sealed is ever handed over.  Messages may be lost, and may *)
(* arrive in any order.                                                    *)
(***************************************************************************)
EXTENDS Naturals

CONSTANT Msgs           \* the messages sealed on this direction

VARIABLES sent,         \* the messages put on the wire
          delivered     \* how often each message was handed to the receiver

chanVars == <<sent, delivered>>

ChanInit == /\ sent = {}
            /\ delivered = [m \in Msgs |-> 0]

Send(m) == /\ m \notin sent
           /\ sent' = sent \cup {m}
           /\ UNCHANGED delivered

Deliver(m) == /\ m \in sent
              /\ delivered[m] = 0
              /\ delivered' = [delivered EXCEPT ![m] = 1]
              /\ UNCHANGED sent

ChanNext == \E m \in Msgs : Send(m) \/ Deliver(m)

ChanSpec == ChanInit /\ [][ChanNext]_chanVars
==============================================================================
