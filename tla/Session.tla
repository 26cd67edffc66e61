------------------------------- MODULE Session -------------------------------
(***************************************************************************)
(* How two contacts get, keep and improve their session                    *)
(* (core/messaging/connect.py, with paths.py, links.py and the connection  *)
(* events of backend.py): dialing, the handshake, both dialing at once,    *)
(* new connections that replace old ones, the move from Tor to a direct    *)
(* connection, silence and reconnecting.                                   *)
(*                                                                         *)
(* Connections are ordered and reliable until they are cut.  Frames of one *)
(* connection are handled one after another; a handler is suspended while  *)
(* a worker thread computes or another connection closes.  Signatures,     *)
(* pinned keys and the limits per minute are left out: both ends are       *)
(* honest contacts.  The radio, where answers get lost, is left out too.   *)
(***************************************************************************)
EXTENDS Integers, Sequences, FiniteSets

CONSTANTS
    Conns,                \* connections that may exist at a time
    Tor,                  \* the ones among them that go through Tor
    MaxTries,             \* handshakes one end may open on one connection
    Faults, MaxFaults,    \* what may go wrong, how much of it in one run
    None

ASSUME ConnAssumption == Tor \subseteq Conns /\ None \notin Conns

VARIABLES
    conn,      \* the connections: who has it open, what is on the way
    link,      \* _links: the session each end has with the other
    pending,   \* _pending_handshakes: the latest opening not answered yet
    upgrade,   \* _upgrades: the opening on a better connection
    task,      \* the task in connect_to_peer (it holds the connect lock)
    climb,     \* the task in _try_direct_upgrade
    handler,   \* per connection, the frame being handled
    faults     \* faults so far

vars == <<conn, link, pending, upgrade, task, climb, handler, faults>>

Nodes == {"a", "b"}    \* a has the smaller hash: it wins ties and drives upgrades
Peer(n) == IF n = "a" THEN "b" ELSE "a"

(* What goes wrong, each at most once in a run.                             *)
Fault(f) ==
    /\ f \in Faults \ faults
    /\ Cardinality(faults) < MaxFaults
    /\ faults' = faults \cup {f}

------------------------------------------------------------------------------
(* Connections (transports/base.py, transports/tcp.py).                      *)

Nobody == [open |-> {}, dead |-> FALSE, check |-> {},
           to |-> [n \in Nodes |-> <<>>], made |-> [n \in Nodes |-> 0]]
Fresh == [Nobody EXCEPT !.open = Nodes, !.check = Nodes]
Has(n, c) == n \in conn[c].open

(* A send notices a cut at once, or not at all.                             *)
CannotSend(n, c) == ~Has(n, c) \/ conn[c].dead

Closed(C, n, c) == [C EXCEPT ![c].open = @ \ {n}, ![c].check = @ \ {n}, ![c].to[n] = <<>>]
Put(C, c, n, frame) ==
    IF C[c].dead \/ n \notin C[c].open THEN C ELSE [C EXCEPT ![c].to[n] = Append(@, frame)]
(* Closing ends the connection's read loop, and the handler in it.          *)
Stopped(H, n, c) == [H EXCEPT ![n][c] = None]

------------------------------------------------------------------------------
(* Sessions.  A key is known by the opening it came from: each opening is    *)
(* answered once.                                                           *)

NewLink(c) == [c |-> c, key |-> None, answering |-> FALSE]
Complete(n) == link[n] # None /\ link[n].key # None
On(n, c) == link[n] # None /\ link[n].c = c
Reachable(n) == link[n] # None /\ Has(n, link[n].c)

Opening(n, c, up) == [by |-> n, c |-> c, try |-> conn[c].made[n] + 1, up |-> up]

(* An opening not answered yet; old, when it waits longer than its limits.   *)
Sent(kx) == [kx |-> kx, old |-> FALSE]
IsPending(n, kx) == pending[n] # None /\ pending[n].kx = kx
InFlight(n) == pending[n] # None /\ ~pending[n].old

Mutual == /\ Complete("a") /\ Complete("b")
          /\ link["a"].c = link["b"].c /\ link["a"].key = link["b"].key
          /\ Nodes = conn[link["a"].c].open /\ ~conn[link["a"].c].dead

Idle == [pc |-> "idle"]
(* Nothing is under way: what the long timers wait out.                     *)
Calm ==
    /\ \A n \in Nodes, c \in Conns : handler[n][c] = None /\ conn[c].to[n] = <<>>
    /\ \A n \in Nodes : task[n].pc # "signing" /\ climb[n].pc # "signing"

(* Who waits 10 s or 15 s waits until nothing moves, or, a fault, not long
   enough.  Tasks that run every few seconds start when nothing else does,
   or, a coincidence, in the middle of something.                           *)
Waited == (Calm /\ UNCHANGED faults) \/ Fault("slow")
NobodyDials == \A n \in Nodes : task[n] = Idle /\ climb[n] = Idle
Started == (Calm /\ NobodyDials /\ UNCHANGED faults) \/ Fault("crossing")

Init ==
    /\ conn = [c \in Conns |-> Nobody]
    /\ link = [n \in Nodes |-> None]
    /\ pending = [n \in Nodes |-> None]
    /\ upgrade = [n \in Nodes |-> None]
    /\ task = [n \in Nodes |-> Idle] /\ climb = [n \in Nodes |-> Idle]
    /\ handler = [n \in Nodes |-> [c \in Conns |-> None]]
    /\ faults = {}

(* A connection that nobody holds any more can stand for a new one.         *)
Unused(c) ==
    /\ conn[c].open = {}
    /\ \A n \in Nodes : /\ ~On(n, c) /\ handler[n][c] = None
                        /\ upgrade[n] # None => upgrade[n].c # c
                        /\ task[n].pc = "signing" => task[n].kx.c # c
                        /\ climb[n].pc = "signing" => climb[n].kx.c # c

(* set_link_keys and _complete_handshake look the session up by the contact:
   it may be on another connection by now.  The first link-up cancels a
   reconnect that still dials (_cancel_reconnect), not other dials.         *)
KeysSet(l, kx) == IF l = None THEN None ELSE [l EXCEPT !.key = kx]
LinkUp(n, l, kx) ==
    /\ link' = [link EXCEPT ![n] = KeysSet(l, kx)]
    /\ \/ UNCHANGED task
       \/ l # None /\ l.key = None /\ task[n] # Idle /\ task' = [task EXCEPT ![n] = Idle]

------------------------------------------------------------------------------
(* connect_to_peer                                                          *)

(* _initiate_handshake up to the worker thread that signs.                   *)
Initiate(n, c) ==
    /\ pending' = [pending EXCEPT ![n] = Sent(Opening(n, c, FALSE))]
    /\ task' = [task EXCEPT ![n] = [pc |-> "signing", kx |-> Opening(n, c, FALSE)]]

(* No session, or one whose connection is gone: dial.                       *)
Dial(n) ==
    /\ task[n] = Idle
    /\ ~Reachable(n)
    /\ Started
    /\ task' = [task EXCEPT ![n] = [pc |-> "dialing"]]
    /\ link' = [link EXCEPT ![n] = None]
    /\ pending' = IF link[n] = None THEN pending ELSE [pending EXCEPT ![n] = None]
    /\ UNCHANGED <<conn, upgrade, climb, handler>>

(* The limits (10 s until another try, 15 s until an opening is given up for
   theirs; both 45 s over Tor) pass.         *)
GrowsOld(n) ==
    /\ InFlight(n)
    /\ Waited
    /\ pending' = [pending EXCEPT ![n].old = TRUE]
    /\ UNCHANGED <<conn, link, upgrade, task, climb, handler>>

(* A connection without a session: open the handshake on it again, unless
   one is in flight.                                                        *)
Retry(n) ==
    /\ task[n] = Idle
    /\ Reachable(n) /\ ~Complete(n) /\ ~link[n].answering
    /\ conn[link[n].c].made[n] < MaxTries
    /\ \/ NobodyDials /\ (\A c \in Conns : handler[n][c] = None) /\ UNCHANGED faults
       \/ Fault("crossing")
    /\ Initiate(n, link[n].c)
    /\ conn' = [conn EXCEPT ![link[n].c].made[n] = @ + 1]
    /\ UNCHANGED <<link, upgrade, climb, handler>>

(* The dial answers: whatever session came up meanwhile is replaced.        *)
DialDone(n) ==
    /\ task[n].pc = "dialing"
    /\ \E c \in Conns :
         /\ Unused(c)
         /\ conn' = [conn EXCEPT ![c] = [Fresh EXCEPT !.made[n] = 1]]
         /\ link' = [link EXCEPT ![n] = NewLink(c)]
         /\ LET kx == [by |-> n, c |-> c, try |-> 1, up |-> FALSE]
            IN  /\ pending' = [pending EXCEPT ![n] = Sent(kx)]
                /\ task' = [task EXCEPT ![n] = [pc |-> "signing", kx |-> kx]]
    /\ UNCHANGED <<upgrade, climb, handler, faults>>

DialFails(n) ==
    /\ task[n].pc = "dialing"
    /\ Fault("unreachable")
    /\ task' = [task EXCEPT ![n] = Idle]
    /\ UNCHANGED <<conn, link, pending, upgrade, climb, handler>>

(* The signed opening goes out, unless its session was replaced meanwhile.  *)
HelloSigned(n) ==
    /\ task[n].pc = "signing"
    /\ task' = [task EXCEPT ![n] = Idle]
    /\ LET kx == task[n].kx
       IN  \/ ~On(n, kx.c) /\ UNCHANGED <<conn, pending>>
           \/ /\ On(n, kx.c) /\ Has(n, kx.c)
              /\ conn' = Put(conn, kx.c, Peer(n), [t |-> "hello", kx |-> kx])
              /\ UNCHANGED pending
           \/ /\ On(n, kx.c) /\ CannotSend(n, kx.c)
              /\ pending' = IF IsPending(n, kx) THEN [pending EXCEPT ![n] = None] ELSE pending
              /\ UNCHANGED conn
    /\ UNCHANGED <<link, upgrade, climb, handler, faults>>

------------------------------------------------------------------------------
(* _handle_handshake                                                        *)

Frame(n, c, t) ==
    /\ Has(n, c) /\ handler[n][c] = None
    /\ conn[c].to[n] # <<>> /\ Head(conn[c].to[n]).t = t
Took(n, c) == [conn EXCEPT ![c].to[n] = Tail(@)]
Busy(n, c, pc, kx) == handler' = [handler EXCEPT ![n][c] = [pc |-> pc, kx |-> kx]]

(* An opening of our own is still waited for, on this connection.           *)
PendingIsLive(n) == InFlight(n) /\ Reachable(n) /\ ~Complete(n)
WinsTieBreak(n) == n = "a"

(* Over Tor nothing is opened while a direct session carries something.     *)
DirectAlive(n) == Reachable(n) /\ Complete(n) /\ link[n].c \notin Tor
RejectTor(n, c) ==
    /\ c \in Tor /\ Frame(n, c, "hello") /\ DirectAlive(n)
    /\ \/ Mutual /\ UNCHANGED faults
       \/ ~Mutual /\ Fault("early")      \* it went silent less than 15 s ago
    /\ conn' = Closed(conn, n, c)
    /\ UNCHANGED <<link, pending, upgrade, task, climb, handler>>

(* Both dialed at once: the smaller hash keeps its own opening.             *)
KeepOurs(n, c) ==
    /\ Frame(n, c, "hello")
    /\ ~(c \in Tor /\ DirectAlive(n))
    /\ PendingIsLive(n) /\ WinsTieBreak(n)
    /\ conn' = Took(n, c)
    /\ UNCHANGED <<link, pending, upgrade, task, climb, handler, faults>>

TakeTheirs(n, c) ==
    /\ Frame(n, c, "hello")
    /\ (c \in Tor /\ DirectAlive(n)) => ~Mutual       \* nothing heard lately
    /\ ~(PendingIsLive(n) /\ WinsTieBreak(n))
    /\ pending' = [pending EXCEPT ![n] = None]
    /\ Busy(n, c, "computing", Head(conn[c].to[n]).kx)
    /\ conn' = Took(n, c)
    /\ UNCHANGED <<link, upgrade, task, climb, faults>>

Answering(l) == [l EXCEPT !.answering = TRUE]
(* _bind_link: an earlier session on another connection ends first.         *)
Bind(n, c) ==
    /\ handler[n][c] # None /\ handler[n][c].pc = "computing"
    /\ IF link[n] # None /\ ~On(n, c)
       THEN /\ link' = [link EXCEPT ![n] = None]
            /\ pending' = [pending EXCEPT ![n] = None]
            /\ conn' = Closed(conn, n, link[n].c)
            /\ handler' = [Stopped(handler, n, link[n].c) EXCEPT ![n][c].pc = "binding"]
       ELSE /\ link' = [link EXCEPT ![n] = Answering(IF @ = None THEN NewLink(c) ELSE @)]
            /\ handler' = [handler EXCEPT ![n][c].pc = "answering"]
            /\ UNCHANGED <<conn, pending>>
    /\ UNCHANGED <<upgrade, task, climb, faults>>

(* The other connection is closed: the new session takes over.              *)
Bound(n, c) ==
    /\ handler[n][c] # None /\ handler[n][c].pc = "binding"
    /\ link' = [link EXCEPT ![n] = Answering(NewLink(c))]
    /\ handler' = [handler EXCEPT ![n][c].pc = "answering"]
    /\ UNCHANGED <<conn, pending, upgrade, task, climb, faults>>

NotAnswering(l, c) == IF l # None /\ l.c = c THEN [l EXCEPT !.answering = FALSE] ELSE l
(* The answer is signed: it goes out, then the keys are set.                *)
Answer(n, c) ==
    /\ handler[n][c] # None /\ handler[n][c].pc = "answering"
    /\ handler' = Stopped(handler, n, c)
    /\ LET kx == handler[n][c].kx
       IN  \/ /\ conn' = Put(conn, c, Peer(n), [t |-> "answer", kx |-> kx])
              /\ LinkUp(n, NotAnswering(link[n], c), kx)
           \/ /\ CannotSend(n, c)
              /\ link' = [link EXCEPT ![n] = NotAnswering(@, c)]
              /\ UNCHANGED <<conn, task>>
    /\ UNCHANGED <<pending, upgrade, climb, faults>>

------------------------------------------------------------------------------
(* _handle_handshake_ack                                                    *)

Climbing(n, c) == upgrade[n] # None /\ upgrade[n].c = c
(* Mutated: an answer is always for the latest. *)
LatestTry(n, kx) == IF pending[n] # None THEN pending[n].kx ELSE None
(* Which of our openings an answer is for: an earlier one counts too.       *)
AnsweredTry(n, kx) == IF kx.by = n /\ ~kx.up THEN kx ELSE None

TakeAnswer(n, c) ==
    /\ Frame(n, c, "answer")
    /\ conn' = Took(n, c)
    /\ LET kx == Head(conn[c].to[n]).kx
           own == AnsweredTry(n, kx)
       IN  IF Climbing(n, c)
           THEN Busy(n, c, "climbing", kx) /\ upgrade' = [upgrade EXCEPT ![n] = None]
           ELSE /\ IF On(n, c) /\ own # None THEN Busy(n, c, "verifying", own)
                   ELSE UNCHANGED handler
                /\ UNCHANGED upgrade
    /\ UNCHANGED <<link, pending, task, climb, faults>>

Verified(n, c) ==
    /\ handler[n][c] # None /\ handler[n][c].pc = "verifying"
    /\ handler' = Stopped(handler, n, c)
    /\ pending' = [pending EXCEPT ![n] = None]
    /\ LinkUp(n, link[n], handler[n][c].kx)
    /\ UNCHANGED <<conn, upgrade, climb, faults>>

(* _finish_upgrade: the better connection takes over, the old one closes.   *)
Climbed(n, c) ==
    /\ handler[n][c] # None /\ handler[n][c].pc = "climbing"
    /\ IF link[n] # None /\ ~On(n, c)
       THEN /\ link' = [link EXCEPT ![n] = NewLink(c)]
            /\ conn' = Closed(conn, n, link[n].c)
            /\ handler' = [Stopped(handler, n, link[n].c) EXCEPT ![n][c].pc = "switching"]
            /\ UNCHANGED task
       ELSE /\ LinkUp(n, NewLink(c), handler[n][c].kx)
            /\ handler' = Stopped(handler, n, c)
            /\ UNCHANGED conn
    /\ UNCHANGED <<pending, upgrade, climb, faults>>

Switched(n, c) ==
    /\ handler[n][c] # None /\ handler[n][c].pc = "switching"
    /\ handler' = Stopped(handler, n, c)
    /\ LinkUp(n, link[n], handler[n][c].kx)
    /\ UNCHANGED <<conn, pending, upgrade, climb, faults>>

------------------------------------------------------------------------------
(* From Tor to a direct connection (paths.py).                              *)

StartUpgrade(n) ==
    /\ n = "a" /\ Complete(n) /\ link[n].c \in Tor
    /\ climb[n] = Idle /\ upgrade[n] = None
    /\ Started
    /\ climb' = [climb EXCEPT ![n] = [pc |-> "dialing"]]
    /\ UNCHANGED <<conn, link, pending, upgrade, task, handler>>

UpgradeDialed(n) ==
    /\ climb[n].pc = "dialing"
    /\ \/ \E c \in Conns \ Tor :
            /\ Unused(c)
            /\ conn' = [conn EXCEPT ![c] = [Fresh EXCEPT !.made[n] = 1]]
            /\ climb' = [climb EXCEPT ![n] =
                  [pc |-> "signing", kx |-> [by |-> n, c |-> c, try |-> 1, up |-> TRUE]]]
       \/ UNCHANGED conn /\ climb' = [climb EXCEPT ![n] = Idle]    \* nobody answers
    /\ UNCHANGED <<link, pending, upgrade, task, handler, faults>>

UpgradeSigned(n) ==
    /\ climb[n].pc = "signing"
    /\ climb' = [climb EXCEPT ![n] = Idle]
    /\ LET kx == climb[n].kx
       IN  \/ /\ Has(n, kx.c)
              /\ upgrade' = [upgrade EXCEPT ![n] = kx]
              /\ conn' = Put(conn, kx.c, Peer(n), [t |-> "hello", kx |-> kx])
           \/ /\ CannotSend(n, kx.c)
              /\ upgrade' = [upgrade EXCEPT ![n] = None]
              /\ conn' = Closed(conn, n, kx.c)
    /\ UNCHANGED <<link, pending, task, handler, faults>>

(* No answer in time: the connection, never a session's yet, closes.        *)
UpgradeTimeout(n) ==
    /\ upgrade[n] # None
    /\ Waited
    /\ upgrade' = [upgrade EXCEPT ![n] = None]
    /\ conn' = Closed(conn, n, upgrade[n].c)
    /\ handler' = Stopped(handler, n, upgrade[n].c)
    /\ UNCHANGED <<link, pending, task, climb>>

------------------------------------------------------------------------------
(* Connections end.                                                         *)

Cut(c) ==
    /\ conn[c].open # {} /\ ~conn[c].dead
    /\ Fault("cut")
    /\ conn' = [conn EXCEPT ![c].dead = TRUE, ![c].to = [n \in Nodes |-> <<>>]]
    /\ UNCHANGED <<link, pending, upgrade, task, climb, handler>>

(* The session of a connection ends with it (_on_transport_event).          *)
Without(n, c) ==
    /\ link' = IF On(n, c) THEN [link EXCEPT ![n] = None] ELSE link
    /\ pending' = IF On(n, c) THEN [pending EXCEPT ![n] = None] ELSE pending

(* The read loop ends once it has handled what had arrived.                 *)
SeesClosed(n, c) ==
    /\ Has(n, c) /\ handler[n][c] = None /\ conn[c].to[n] = <<>>
    /\ conn[c].dead \/ conn[c].open = {n}
    /\ conn' = Closed(conn, n, c)
    /\ Without(n, c)
    /\ UNCHANGED <<upgrade, task, climb, handler, faults>>

(* reap_dead_links: nothing came from the other end for LINK_DEAD_AFTER.    *)
(* Mutated: only a connection known to be cut counts. *)
SilentIfCut(n) == Complete(n) /\ conn[link[n].c].dead
Silent(n) == Complete(n) /\ ~Mutual
Reap(n) ==
    /\ Silent(n) /\ Calm
    /\ link' = [link EXCEPT ![n] = None]
    /\ pending' = [pending EXCEPT ![n] = None]
    /\ conn' = Closed(conn, n, link[n].c)
    /\ UNCHANGED <<upgrade, task, climb, handler, faults>>

(* _expire_if_unauthenticated looks once, HANDSHAKE_DEADLINE after the start. *)
Expire(n, c) ==
    /\ n \in conn[c].check /\ Waited
    /\ IF (On(n, c) /\ Complete(n)) \/ Climbing(n, c)
       THEN /\ conn' = [conn EXCEPT ![c].check = @ \ {n}]
            /\ UNCHANGED handler
       ELSE /\ conn' = Closed(conn, n, c)
            /\ handler' = Stopped(handler, n, c)
    /\ UNCHANGED <<link, pending, upgrade, task, climb>>

(* The connection closed there is gone: the event ends its session.         *)
Gone(n, c) ==
    /\ On(n, c) /\ ~Has(n, c)
    /\ Without(n, c)
    /\ UNCHANGED <<conn, upgrade, task, climb, handler, faults>>

------------------------------------------------------------------------------
Handle(n, c) ==
    \/ RejectTor(n, c) \/ KeepOurs(n, c) \/ TakeTheirs(n, c)
    \/ Bind(n, c) \/ Bound(n, c) \/ Answer(n, c)
    \/ TakeAnswer(n, c) \/ Verified(n, c) \/ Climbed(n, c) \/ Switched(n, c)
Connect(n) == Dial(n) \/ Retry(n) \/ DialDone(n) \/ HelloSigned(n)
Climb(n) == UpgradeDialed(n) \/ UpgradeSigned(n)
Timers(n) == GrowsOld(n) \/ UpgradeTimeout(n) \/ Reap(n) \/ \E c \in Conns : Expire(n, c)

Next ==
    \/ \E n \in Nodes, c \in Conns : Handle(n, c) \/ SeesClosed(n, c) \/ Gone(n, c)
    \/ \E n \in Nodes : Connect(n) \/ DialFails(n) \/ StartUpgrade(n) \/ Climb(n) \/ Timers(n)
    \/ \E c \in Conns : Cut(c)

Spec == Init /\ [][Next]_vars

(* Tasks go on, what arrives is handled, timers run out; nobody has to move
   from Tor, and nothing has to go wrong.                                   *)
FairSpec ==
    /\ Spec
    /\ \A n \in Nodes :
         /\ WF_vars(Connect(n)) /\ WF_vars(Climb(n))
         /\ WF_vars(GrowsOld(n)) /\ WF_vars(UpgradeTimeout(n)) /\ WF_vars(Reap(n))
         /\ \A c \in Conns :
              /\ WF_vars(Handle(n, c)) /\ WF_vars(SeesClosed(n, c))
              /\ WF_vars(Gone(n, c)) /\ WF_vars(Expire(n, c))

------------------------------------------------------------------------------
(* Properties                                                               *)

(* As long as no two things started at once: when nothing is under way, two
   ends with a session on one connection have the same keys for it, whatever
   was retried and answered late ("re" in the answer, _answered_try).       *)
SameKeys ==
    /\ Calm /\ Complete("a") /\ Complete("b") /\ link["a"].c = link["b"].c
    /\ ~conn[link["a"].c].dead /\ "crossing" \notin faults
    => link["a"].key = link["b"].key

(* When both dial at once, one of them keeps its connection
   (test_simultaneous_dial_converges): the two are never each moved over to
   the other's, which the other has closed.                                 *)
MovedOver(n) == link[n] # None /\ link[n].answering
OneGivesWay == MovedOver("a") /\ MovedOver("b") => link["a"].c = link["b"].c

(* Whatever is dialed at the same time and cut, the contacts end up with one
   working session: the same connection, the same keys.                     *)
Settles == <>[]Mutual
==============================================================================
