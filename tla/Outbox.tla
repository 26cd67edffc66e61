------------------------------- MODULE Outbox --------------------------------
(***************************************************************************)
(* Chat messages from a to b (core/messaging/backend.py): queued, sent,    *)
(* resent on every link-up until the receipt is back, kept in a file that  *)
(* is written half a second late.                                          *)
(*                                                                         *)
(* The session below is one connection at a time, ordered until it is cut; *)
(* Session says how it comes up.  Texts, timers of disappearing messages,  *)
(* the retention limit and the chat of the other direction are left out.   *)
(***************************************************************************)
EXTENDS Integers, Sequences, SequencesExt

CONSTANTS
    N,                    \* messages a writes, 1..N in this order
    Faults, MaxFaults,    \* what may go wrong or be deleted, how much in all
    None

ASSUME OutboxAssumption == N \in Nat /\ MaxFaults \in Nat /\ None \notin 1..N

VARIABLES
    status,      \* a's _messages: the status of each
    onDiskA,     \* a's messages.json
    messages,    \* b's _messages, in the order they are shown
    onDiskB,     \* b's messages.json
    unsaved,     \* who has a write of it scheduled (_persist_handle)
    flush,       \* what flush_outbox at a still has to send, the oldest first
    handling,    \* the text b stores once its receipt is sent
    trusts,      \* a is a contact of b
    session,     \* the connection, who has a session on it, what is in flight
    had,         \* what b ever stored
    dropped,     \* texts whose handler b itself ended after their receipt
    faults       \* how many things went wrong

a_vars == <<status, onDiskA, flush>>
b_vars == <<messages, onDiskB, handling, trusts, had, dropped>>
vars == <<a_vars, b_vars, unsaved, session, faults>>

Msgs == 1..N
Sides == {"a", "b"}
(* flush_outbox takes these.                                                *)
Waiting == {"pending", "sent", "not_trusted"}

Fault(f) == f \in Faults /\ faults < MaxFaults /\ faults' = faults + 1

Init ==
    /\ status = [m \in Msgs |-> "new"] /\ onDiskA = status
    /\ messages = <<>> /\ onDiskB = <<>>
    /\ unsaved = {} /\ flush = {} /\ handling = None
    /\ trusts \in BOOLEAN
    /\ session = [alive |-> FALSE, direct |-> FALSE, up |-> {}, toA |-> <<>>, toB |-> <<>>]
    /\ had = {} /\ dropped = {}
    /\ faults = 0

------------------------------------------------------------------------------
(* The session.                                                             *)

(* A write to a connection that is gone may still seem to succeed.          *)
ToB(s, m) == IF s.alive THEN [s EXCEPT !.toB = Append(@, m)] ELSE s
ToA(s, r) == IF s.alive THEN [s EXCEPT !.toA = Append(@, r)] ELSE s
Receipt(m, what) == [id |-> m, status |-> what]
Accepted == Receipt(None, "accepted")

(* A new connection replaces what is left of the old one, and ends what its
   read loops were doing.                                                   *)
NewConnection(direct) ==
    /\ session' = [alive |-> TRUE, direct |-> direct, up |-> {}, toA |-> <<>>, toB |-> <<>>]
    /\ flush' = {} /\ handling' = None
    /\ UNCHANGED <<status, onDiskA, messages, onDiskB, trusts, had, dropped, unsaved>>

Connect ==
    /\ ~session.alive
    /\ \/ NewConnection(TRUE) /\ UNCHANGED faults
       \/ NewConnection(FALSE) /\ Fault("tor")

(* From the Tor doorbell to a direct connection.                            *)
GoDirect ==
    /\ session.alive /\ ~session.direct /\ session.up = Sides
    /\ NewConnection(TRUE)
    /\ UNCHANGED faults

(* Mutated: what was sent once is not sent again.                           *)
OwedUnsent == {m \in Msgs : status[m] \in Waiting \ {"sent"}}
Owed == {m \in Msgs : status[m] \in Waiting}

(* _complete_handshake: tell a contact that it is one, send what waits.     *)
LinkUp(n) ==
    /\ session.alive /\ n \notin session.up
    /\ session' = LET s == [session EXCEPT !.up = @ \cup {n}]
                  IN  IF n = "b" /\ trusts THEN ToA(s, Accepted) ELSE s
    /\ flush' = IF n = "a" THEN Owed ELSE flush
    /\ UNCHANGED <<status, onDiskA, b_vars, unsaved, faults>>

(* The receipt whose write still waits for room in b's buffer, as long as
   the text is not stored: a cannot have it.                                *)
Waits(q) == SelectLastInSeq(q, LAMBDA r : r = Receipt(handling, "delivered"))

(* The path dies: what was on the way arrives in part.                      *)
Cut ==
    /\ session.alive
    /\ Fault("cut")
    /\ \E k \in 0..Len(session.toB), l \in 0..Len(session.toA) :
         /\ Waits(session.toA) \in {0} \cup (l + 1)..Len(session.toA)
         /\ session' = [session EXCEPT !.alive = FALSE, !.toB = SubSeq(@, 1, k),
                                       !.toA = SubSeq(@, 1, l)]
    /\ UNCHANGED <<a_vars, b_vars, unsaved>>

(* It is noticed: the read loop ends, and what it was doing.                *)
Down(n) ==
    /\ ~session.alive /\ n \in session.up
    /\ session' = IF n = "a" THEN [session EXCEPT !.up = @ \ {n}, !.toA = <<>>]
                  ELSE [session EXCEPT !.up = @ \ {n}, !.toB = <<>>]
    /\ flush' = IF n = "a" THEN {} ELSE flush
    /\ handling' = IF n = "b" THEN None ELSE handling
    /\ UNCHANGED <<status, onDiskA, messages, onDiskB, trusts, had, dropped, unsaved, faults>>

HandlerEnds ==
    /\ handling' = None
    /\ dropped' = dropped \cup ({handling} \ {None})

(* b closes a connection that works, for a better one: the handler in its
   read loop is cancelled, what it wrote still goes out.                    *)
Close ==
    /\ session.alive /\ "b" \in session.up
    /\ Fault("close")
    /\ session' = [session EXCEPT !.alive = FALSE, !.up = @ \ {"b"}, !.toB = <<>>]
    /\ HandlerEnds
    /\ UNCHANGED <<a_vars, messages, onDiskB, trusts, had, unsaved>>

------------------------------------------------------------------------------
(* a: send_message, _transmit_text, flush_outbox, _handle_receipt.          *)

(* Not over Tor (data_link).                                                *)
DataLink == "a" \in session.up /\ session.direct

(* A message deleted meanwhile still goes out, and stays deleted.           *)
Transmitted(st, m) == IF st[m] = "gone" THEN st ELSE [st EXCEPT ![m] = "sent"]

(* _transmit_text(m), with the statuses st: it is written, or it fails.     *)
Transmit(st, m) ==
    /\ DataLink
    /\ session' = ToB(session, m)
    /\ status' = Transmitted(st, m)

CannotTransmit(st) ==
    /\ ~DataLink \/ ~session.alive
    /\ status' = st
    /\ UNCHANGED session

SendMessage(m) ==
    /\ status[m] = "new"
    /\ \A k \in 1..(m - 1) : status[k] # "new"
    /\ LET queued == [status EXCEPT ![m] = "pending"]
       IN  Transmit(queued, m) \/ CannotTransmit(queued)
    /\ unsaved' = unsaved \cup {"a"}
    /\ UNCHANGED <<onDiskA, flush, b_vars, faults>>

FlushNext ==
    /\ \E m \in flush :
          /\ \A k \in flush : m <= k
          /\ flush' = flush \ {m}
          /\ \/ Transmit(status, m) /\ unsaved' = unsaved \cup {"a"}
             \/ CannotTransmit(status) /\ UNCHANGED unsaved
    /\ UNCHANGED <<onDiskA, b_vars, faults>>

(* The read loop sends what waits itself: no receipt is handled meanwhile.  *)
AnyTime == TRUE    \* mutated
ReadLoopFree == flush = {}

HandleReceipt ==
    /\ "a" \in session.up /\ session.toA # <<>> /\ ReadLoopFree
    /\ session.alive => Waits(session.toA) # 1
    /\ session' = [session EXCEPT !.toA = Tail(@)]
    /\ LET r == Head(session.toA)
       IN  IF r = Accepted
           THEN flush' = Owed /\ UNCHANGED <<status, unsaved>>
           ELSE /\ IF status[r.id] \in {"gone", r.status}
                   THEN UNCHANGED <<status, unsaved>>
                   ELSE /\ status' = [status EXCEPT ![r.id] = r.status]
                        /\ unsaved' = unsaved \cup {"a"}
                /\ UNCHANGED flush
    /\ UNCHANGED <<onDiskA, b_vars, faults>>

------------------------------------------------------------------------------
(* b: _dispatch_session_message, _handle_text.                              *)

(* Somebody who is no contact is refused.  Mutated: not yet looked at.      *)
AnswerAlways == "delivered"
Answer == IF trusts THEN "delivered" ELSE "not_trusted"

(* The receipt goes first.                                                  *)
HandleText ==
    /\ "b" \in session.up /\ session.toB # <<>> /\ handling = None
    /\ LET m == Head(session.toB)
       IN  /\ session' = ToA([session EXCEPT !.toB = Tail(@)],
                             Receipt(m, Answer))
           /\ handling' = IF trusts THEN m ELSE None
    /\ UNCHANGED <<a_vars, messages, onDiskB, trusts, had, dropped, unsaved, faults>>

(* Mutated: compared with the latest only.                                  *)
KnownIfLatest(m) == messages # <<>> /\ Last(messages) = m
Known(m) == m \in ToSet(messages)

Store ==
    /\ handling # None
    /\ handling' = None
    /\ IF Known(handling) THEN UNCHANGED <<messages, had, unsaved>>
       ELSE /\ messages' = Append(messages, handling)
            /\ had' = had \cup {handling}
            /\ unsaved' = unsaved \cup {"b"}
    /\ UNCHANGED <<a_vars, onDiskB, trusts, dropped, session, faults>>

(* The user of b adds a (notify_contact_accepted).                          *)
Accept ==
    /\ ~trusts
    /\ trusts' = TRUE
    /\ session' = IF "b" \in session.up THEN ToA(session, Accepted) ELSE session
    /\ UNCHANGED <<a_vars, messages, onDiskB, handling, had, dropped, unsaved, faults>>

------------------------------------------------------------------------------
(* Deleting, saving, restarting.                                            *)

DeleteAtA(m) ==
    /\ status[m] \in Waiting \cup {"delivered"}
    /\ Fault("adelete")
    /\ status' = [status EXCEPT ![m] = "gone"]
    /\ unsaved' = unsaved \cup {"a"}
    /\ UNCHANGED <<onDiskA, flush, b_vars, session>>

(* The one entry of m: see ShownOnce.                                       *)
DeleteAtB(m) ==
    /\ Fault("bdelete")
    /\ \E i \in DOMAIN messages : messages[i] = m /\ messages' = RemoveAt(messages, i)
    /\ unsaved' = unsaved \cup {"b"}
    /\ UNCHANGED <<a_vars, onDiskB, handling, trusts, had, dropped, session>>

Save(n) ==
    /\ n \in unsaved
    /\ unsaved' = unsaved \ {n}
    /\ IF n = "a" THEN onDiskA' = status /\ UNCHANGED onDiskB
       ELSE onDiskB' = messages /\ UNCHANGED onDiskA
    /\ UNCHANGED <<status, flush, messages, handling, trusts, had, dropped, session, faults>>

(* What a wrote and did not save is forgotten.                              *)
Loaded(m) == IF onDiskA[m] = "new" /\ status[m] # "new" THEN "gone" ELSE onDiskA[m]
RestartA ==
    /\ Fault("arestart")
    /\ status' = [m \in Msgs |-> Loaded(m)]
    /\ flush' = {}
    /\ unsaved' = unsaved \ {"a"}
    /\ session' = [session EXCEPT !.alive = FALSE, !.up = @ \ {"a"}, !.toA = <<>>]
    /\ UNCHANGED <<onDiskA, b_vars>>

RestartB ==
    /\ Fault("brestart")
    /\ messages' = onDiskB
    /\ HandlerEnds
    /\ unsaved' = unsaved \ {"b"}
    /\ session' = [session EXCEPT !.alive = FALSE, !.up = @ \ {"b"}, !.toB = <<>>]
    /\ UNCHANGED <<a_vars, onDiskB, trusts, had>>

------------------------------------------------------------------------------
Next ==
    \/ Connect \/ GoDirect \/ Cut \/ Close
    \/ \E n \in Sides : LinkUp(n) \/ Down(n) \/ Save(n)
    \/ \E m \in Msgs : SendMessage(m) \/ DeleteAtA(m) \/ DeleteAtB(m)
    \/ FlushNext \/ HandleReceipt \/ HandleText \/ Store \/ Accept
    \/ RestartA \/ RestartB

Spec == Init /\ [][Next]_vars

(* What is in flight is handled, ends notice that a path is dead, contacts
   that can reach each other connect, and a Tor session becomes a direct one. *)
FairSpec ==
    /\ Spec
    /\ WF_vars(Connect) /\ WF_vars(GoDirect)
    /\ \A n \in Sides : WF_vars(LinkUp(n)) /\ WF_vars(Down(n))
    /\ WF_vars(FlushNext) /\ WF_vars(HandleReceipt) /\ WF_vars(HandleText) /\ WF_vars(Store)

------------------------------------------------------------------------------
(* Properties                                                               *)

(* b shows no message twice, however often it is resent after lost receipts
   and restarts (_handle_text).                                             *)
ShownOnce == IsInjective(messages)

(* A message that a shows as delivered is at b, or about to be stored there
   (the receipt goes first), unless b itself stopped or closed the connection
   just between the two (_handle_text, _handle_receipt).                    *)
DeliveredIsThere ==
    \A m \in Msgs : status[m] = "delivered" => m \in had \cup dropped \/ handling = m

(* A resend never takes back that a message was delivered: flush_outbox sets
   "sent" on messages it listed before it waited.  Only a restart does, from
   a file older than the receipt.                                           *)
DeliveredStays ==
    [][\A m \in Msgs : status[m] = "delivered" /\ status'[m] \in Waiting => RestartA]_vars

(* A message written to a contact that has a as a contact is confirmed in
   the end, unless a deletes or forgets it: whatever was cut, closed,
   restarted or refused before.                                             *)
EveryMessageArrives ==
    \A m \in Msgs : status[m] \in Waiting /\ trusts ~> status[m] \in {"delivered", "gone"}

(* README.md: nothing is lost.  What is shown as delivered is in b's chat.  *)
NothingIsLost ==
    \A m \in Msgs : status[m] = "delivered" => Known(m) \/ handling = m
==============================================================================
