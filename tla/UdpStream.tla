------------------------------ MODULE UdpStream -------------------------------
(***************************************************************************)
(* One direction of a UDP connection (transports/udp.py, UdpConnection):   *)
(* a sends a stream to b, in packets that are lost, repeated and           *)
(* reordered; b acknowledges them by number, in ranges, and says how far   *)
(* it has the stream and how far a may send.                               *)
(*                                                                         *)
(* A byte stands for as many as a piece can be cut by.  The rate (Bbr) is  *)
(* left out: a may send whenever Cwnd packets are not yet in flight.       *)
(* Only packets that ask for an acknowledgement are numbered here; the     *)
(* encryption drops what is not from the contact.                          *)
(***************************************************************************)
EXTENDS Integers, FiniteSets, SequencesExt, TLC

CONSTANTS
    Urgent, Bulk,             \* frames of send and of send_framed
    Size(_),                  \* bytes of each
    SmallRoom, BigRoom,       \* bytes of stream in a packet, at most
    Window,                   \* RECV_WINDOW
    SendHigh, SendMax,        \* SEND_HIGH, SEND_MAX
    Cwnd,                     \* packets in flight, at most
    Reorder,                  \* LOSS_REORDER
    AckRanges, RxRanges,      \* MAX_ACK_RANGES, the 64 of _record_pn
    MaxPieces,                \* MAX_OOO_PIECES
    Narrow,                   \* networks that drop packets of BigRoom
    Together                  \* the sets of things that may go wrong, each once

Frames == Urgent \cup Bulk
Networks == {1, 2}

ASSUME UdpAssumption ==
    /\ Urgent \cap Bulk = {}
    /\ \A f \in Frames : Size(f) \in Nat \ {0}
    /\ SmallRoom \in Nat \ {0} /\ BigRoom \in Nat /\ BigRoom >= SmallRoom
    /\ {Window, SendHigh, SendMax, Cwnd, Reorder, AckRanges, RxRanges} \subseteq Nat \ {0}
    /\ MaxPieces \in Nat /\ Narrow \subseteq Networks
    /\ {} \in Together

VARIABLES
    snd,       \* what a knows: see Init
    rcv,       \* what b knows
    stream,    \* every byte that ever got its place in the stream
    read,      \* what b's read loop handed to its frame reader
    toB, toA,  \* packets in flight, oldest first
    home,      \* the network a is on
    closed,    \* ends that have closed the connection
    faults     \* what went wrong so far, each at most once

vars == <<snd, rcv, stream, read, toB, toA, home, closed, faults>>

Bytes(f) == [i \in 1..Size(f) |-> <<f, i>>]

Init ==
    /\ snd = [urgent |-> <<>>, bulk |-> <<>>,    \* queued frames
              waiting |-> {}, writable |-> TRUE, \* writers that wait for room
              unwritten |-> Frames,
              next |-> 0,                        \* _snext
              cum |-> 0, limit |-> Window,       \* _peer_cum, _peer_max
              retx |-> <<>>,                     \* ranges <<offset, length>> to send again
              sent |-> <<>>,                     \* packet number -> its ranges
              pn |-> 0, skipped |-> {}, largest |-> -1,
              probe |-> -1, probed |-> FALSE, big |-> FALSE]
    /\ rcv = [seen |-> {},                       \* _rx_ranges, as numbers
              cum |-> 0, ooo |-> <<>>,           \* _rcum, _ooo: offset -> bytes
              app |-> <<>>, handling |-> 0,      \* _app, what the read loop has taken
              consumed |-> 0, offered |-> Window,\* _consumed, _max_sent
              ackDue |-> FALSE,
              remote |-> 1, fresh |-> TRUE, challenged |-> 0]
    /\ stream = <<>> /\ read = <<>>
    /\ toB = <<>> /\ toA = <<>>
    /\ home = 1
    /\ closed = {}
    /\ faults = {}

Fault(f) ==
    /\ f \notin faults /\ faults \cup {f} \in Together
    /\ faults' = faults \cup {f}

(* Nothing is under way that a timer could be too early for.                *)
Calm == toB = <<>> /\ toA = <<>> /\ ~rcv.ackDue

(* Nor is there a packet that the loss timer, mostly sooner than the probe  *)
(* timeout, would give up.                                                  *)
Silent == Calm /\ \A pn \in DOMAIN snd.sent : pn > snd.largest

Early == IF Calm THEN UNCHANGED faults ELSE Fault("early")

Open(e) == e \notin closed

(* A loop over seq, from x on.  Sets of one value: TLC computes each turn   *)
(* once.                                                                    *)
Folded(step(_, _), x, seq) ==
    LET turns[n \in 0..Len(seq)] ==
            IF n = 0 THEN {x} ELSE {step(y, seq[n]) : y \in turns[n - 1]}
    IN  CHOOSE y \in turns[Len(seq)] : TRUE

Times(n) == [i \in 1..n |-> i]

With(f, k, v) == [x \in DOMAIN f \cup {k} |-> IF x = k THEN v ELSE f[x]]

------------------------------------------------------------------------------
(* Writing (_queue, _room).                                                 *)

Total(q) == FoldSeq(LAMBDA f, n : n + Size(f), 0, q)
Queued(s) == Total(s.urgent) + Total(s.bulk)

(* What the buffer holds: segments are freed whole (_free_acked).           *)
Held(s, st) ==
    Len(st) - Max({0} \cup {n \in 1..s.cum : n = Len(st) \/ st[n][1] # st[n + 1][1]})

HasRoom(s, st, urgent) ==
    /\ Held(s, st) + Queued(s) < SendMax
    /\ urgent \/ Len(st) - s.next + Queued(s) < SendHigh

(* Mutated: room that opens wakes no writer.                                *)
WakesNever(s, st) == s

(* _maybe_writable: it asks as for bulk data.                               *)
Wakes(s, st) == [s EXCEPT !.writable = @ \/ HasRoom(s, st, FALSE)]

Write(f) ==
    /\ Open("a")
    /\ f \in snd.unwritten \/ (f \in snd.waiting /\ snd.writable)
    /\ LET urgent == f \in Urgent
       IN  IF HasRoom(snd, stream, urgent)
           THEN snd' = [snd EXCEPT !.urgent = IF urgent THEN Append(@, f) ELSE @,
                                   !.bulk = IF urgent THEN @ ELSE Append(@, f),
                                   !.waiting = @ \ {f}, !.unwritten = @ \ {f}]
           ELSE snd' = [snd EXCEPT !.waiting = @ \cup {f}, !.unwritten = @ \ {f},
                                   !.writable = FALSE]
    /\ UNCHANGED <<rcv, stream, read, toB, toA, home, closed, faults>>

------------------------------------------------------------------------------
(* Filling a packet (_next_range, _commit_next).  p is the packet so far:   *)
(* a's state s, the stream st, the room left and the pieces.                *)

Trim(range, cum) ==
    IF range[1] >= cum THEN range ELSE <<cum, range[1] + range[2] - cum>>

Unconfirmed(retx, cum) ==
    Folded(LAMBDA kept, r : IF r[1] + r[2] > cum THEN Append(kept, r) ELSE kept, <<>>, retx)

Again(p) ==
    LET range == Trim(p.s.retx[1], p.s.cum)
        take == Min({range[2], p.room})
        left == IF take = range[2] THEN Tail(p.s.retx)
                ELSE <<<<range[1] + take, range[2] - take>>>> \o Tail(p.s.retx)
    IN  [p EXCEPT !.s.retx = left, !.room = @ - take,
                  !.pieces = Append(@, <<range[1], take>>)]

(* The next queued frame gets its place in the stream, small ones first.    *)
Commit(p) ==
    IF p.s.next < Len(p.st) \/ p.s.urgent \o p.s.bulk = <<>> THEN p
    ELSE IF p.s.urgent # <<>>
    THEN [p EXCEPT !.st = @ \o Bytes(Head(p.s.urgent)), !.s.urgent = Tail(@)]
    ELSE [p EXCEPT !.st = @ \o Bytes(Head(p.s.bulk)), !.s.bulk = Tail(@)]

(* Mutated: sends what the other side has given no room for.               *)
NewUnasked(p) ==
    LET take == Min({p.room, Len(p.st) - p.s.next})
    IN  IF take <= 0 THEN p
        ELSE [p EXCEPT !.s = Wakes([p.s EXCEPT !.next = @ + take], p.st),
                       !.room = @ - take,
                       !.pieces = Append(@, <<p.s.next, take>>)]

New(p) ==
    LET take == Min({p.room, Len(p.st) - p.s.next, p.s.limit - p.s.next})
    IN  IF take <= 0 THEN p
        ELSE [p EXCEPT !.s = Wakes([p.s EXCEPT !.next = @ + take], p.st),
                       !.room = @ - take,
                       !.pieces = Append(@, <<p.s.next, take>>)]

NextRange(p) ==
    LET q == [p EXCEPT !.s.retx = Unconfirmed(@, p.s.cum)]
    IN  IF p.room = 0 THEN p
        ELSE IF q.s.retx # <<>> THEN Again(q)
        ELSE New(Commit(q))

Filled(s, room) ==
    Folded(LAMBDA p, i : NextRange(p),
           [s |-> s, st |-> stream, room |-> room, pieces |-> <<>>],
           Times(room))

(* _send_packet, and what happened to it meanwhile: its number may follow   *)
(* a skipped one, and an acknowledgement in it leaves less room.            *)
Packet(s, kind, pieces, st, skip) ==
    LET pn == s.pn + skip
        tooBig == home \in Narrow
                  /\ (kind = "probe" \/ FoldSeq(LAMBDA r, n : n + r[2], 0, pieces) > SmallRoom)
        data(r) == [at |-> r[1], bytes |-> SubSeq(st, r[1] + 1, r[1] + r[2])]
    IN  /\ snd' = [s EXCEPT !.pn = pn + 1,
                            !.skipped = IF skip = 1 THEN @ \cup {s.pn} ELSE @,
                            !.sent = With(@, pn, pieces),
                            !.probe = IF kind = "probe" THEN pn ELSE @]
        /\ toB' = IF tooBig THEN toB
                  ELSE Append(toB, [kind |-> kind, pn |-> pn, from |-> home,
                                    pieces |-> [i \in DOMAIN pieces |-> data(pieces[i])]])

(* _send_one.  Room in the stream may be found and nothing be sent, as b's  *)
(* window is full.                                                          *)
SendOne(s, events) ==
    \E event \in events :
        \E less \in (CASE event = "tight" -> {1} [] event = "early" -> {0, 1} [] OTHER -> {0}) :
        \E p \in {Filled(s, (IF s.big THEN BigRoom ELSE SmallRoom) - less)} :
            /\ IF event = "none" THEN UNCHANGED faults ELSE p.pieces # <<>> /\ Fault(event)
            /\ p.pieces # <<>> \/ p.st # stream \/ s # snd
            /\ stream' = p.st
            /\ IF p.pieces # <<>>
               THEN Packet(p.s, "data", p.pieces, p.st, IF event = "skip" THEN 1 ELSE 0)
               ELSE snd' = p.s /\ UNCHANGED toB

SendData ==
    /\ Open("a")
    /\ Cardinality(DOMAIN snd.sent) < Cwnd
    /\ SendOne(snd, {"none", "skip", "tight"})
    /\ UNCHANGED <<rcv, read, toA, home, closed>>

Ping == Packet(snd, "ping", <<>>, stream, 0) /\ UNCHANGED <<stream, faults>>

(* Once a round trip was measured, a big packet tries the path.             *)
ProbePath ==
    /\ Open("a") /\ ~snd.probed /\ snd.largest >= 0
    /\ Packet([snd EXCEPT !.probed = TRUE], "probe", <<>>, stream, 0)
    /\ UNCHANGED <<rcv, stream, read, toA, home, closed, faults>>

(* _probe_timeout: the oldest data goes out again, whatever the window.     *)
Insert(s, r) ==
    IF r[1] + r[2] <= s.cum \/ r \in Range(s.retx) THEN s
    ELSE [s EXCEPT !.retx = <<r>> \o @]

ProbeTimeout ==
    /\ Open("a") /\ DOMAIN snd.sent # {}
    /\ LET data == {pn \in DOMAIN snd.sent : snd.sent[pn] # <<>>}
       IN  IF data = {} THEN Silent /\ Ping
           ELSE SendOne(Folded(Insert, snd, snd.sent[Min(data)]),
                        IF Silent THEN {"none"} ELSE {"early"})
    /\ UNCHANGED <<rcv, read, toA, home, closed>>

(* A packet after KEEPALIVE of silence.  Bound: only those that matter, as  *)
(* a waits for a window update that was lost, or for the number of a packet *)
(* whose data is confirmed; the others change packet numbers only.          *)
KeepAlive ==
    /\ Open("a") /\ Silent
    /\ \/ /\ DOMAIN snd.sent # {}
          /\ \A pn \in DOMAIN snd.sent : Unconfirmed(snd.sent[pn], snd.cum) = <<>>
       \/ /\ snd.next = snd.limit /\ (snd.next < Len(stream) \/ Queued(snd) > 0)
          /\ snd.retx = <<>> /\ rcv.app = <<>> /\ rcv.handling = 0
    /\ Ping
    /\ UNCHANGED <<rcv, read, toA, home, closed>>

(* _detect_loss: of the packets sent before the newest one acknowledged,    *)
(* the oldest, up to the first that is neither Reorder numbers nor t behind.*)
Lost(s, t) ==
    {pn \in DOMAIN s.sent : pn < s.largest /\ (s.largest - pn >= Reorder \/ pn <= t)}

(* Mutated: of a lost packet one range is kept.                             *)
FirstRanges(s, lost) ==
    Folded(LAMBDA q, n : IF n - 1 \in lost THEN q \o SubSeq(s.sent[n - 1], 1, Min({1, Len(s.sent[n - 1])}))
                         ELSE q,
           <<>>, Times(s.pn))

(* The ranges of the lost packets, from number 0 on.                        *)
RangesOf(s, lost) ==
    Folded(LAMBDA q, n : IF n - 1 \in lost THEN q \o s.sent[n - 1] ELSE q, <<>>, Times(s.pn))

(* The list is kept in order: a range goes behind those that come before it.*)
Placed(q, r) ==
    LET upTo(x) == x[1] < r[1] \/ (x[1] = r[1] /\ x[2] <= r[2])
    IN  InsertAt(q, 1 + Cardinality({i \in DOMAIN q : upTo(q[i])}), r)

DetectLoss(s, t) ==
    LET ranges == RangesOf(s, Lost(s, t) \ {s.probe})
    IN  IF Lost(s, t) = {} THEN s
        ELSE [s EXCEPT !.sent = [pn \in DOMAIN @ \ Lost(s, t) |-> @[pn]],
                       !.retx = Folded(Placed, <<>>, @ \o Unconfirmed(ranges, s.cum))]

LossByTime ==
    /\ Open("a")
    /\ \E t \in DOMAIN snd.sent :
          /\ t < snd.largest
          /\ Early
          /\ snd' = DetectLoss(snd, t)
    /\ UNCHANGED <<rcv, stream, read, toB, toA, home, closed>>

------------------------------------------------------------------------------
(* b: packet numbers, in ranges, the newest first (_seen, _record_pn).      *)

Ranges(seen, pn) == Cardinality({t \in seen : t >= pn /\ t + 1 \notin seen})

Newest(seen, n) == {pn \in seen : Ranges(seen, pn) <= n}

TooOld(seen, pn) ==
    pn \in seen \/ (Ranges(seen, 0) = RxRanges /\ \A q \in seen : pn < q)

------------------------------------------------------------------------------
(* b: the stream (_on_stream).                                              *)

Deliver(r, bytes) == [r EXCEPT !.app = @ \o bytes, !.cum = @ + Len(bytes)]

Without(ooo, keys) == [k \in DOMAIN ooo \ keys |-> ooo[k]]

Reaches(r) == {k \in DOMAIN r.ooo : k < r.cum /\ k + Len(r.ooo[k]) > r.cum}

(* One turn of the loop: the piece that comes next, or, of those that start *)
(* behind, the part of the lowest that reaches further.                     *)
DrainStep(r) ==
    LET behind == {k \in DOMAIN r.ooo : k < r.cum}
        k == Min(Reaches(r))
    IN  IF r.cum \in DOMAIN r.ooo
        THEN Deliver([r EXCEPT !.ooo = Without(@, {r.cum})], r.ooo[r.cum])
        ELSE IF Reaches(r) = {} THEN [r EXCEPT !.ooo = Without(@, behind)]
        ELSE [r EXCEPT !.ooo = With(Without(@, behind), r.cum,
                                    SubSeq(@[k], r.cum - k + 1, Len(@[k])))]

Drain(r) ==
    Folded(LAMBDA q, i : DrainStep(q), r, Times(2 * Cardinality(DOMAIN r.ooo)))

(* The bytes that wait for a gap (_ooo_bytes).                              *)
Waiting(ooo) == Cardinality(UNION {{k} \X DOMAIN ooo[k] : k \in DOMAIN ooo})

HasPlace(r, piece) ==
    /\ piece.at \notin DOMAIN r.ooo
    /\ Waiting(r.ooo) + Len(piece.bytes) <= Window
    /\ Cardinality(DOMAIN r.ooo) < MaxPieces

(* Mutated: a piece that overlaps what was read is not cut.                 *)
OnStreamWhole(r, piece) ==
    LET end == piece.at + Len(piece.bytes)
    IN  IF end <= r.cum \/ end > r.offered THEN r
        ELSE IF piece.at > r.cum
        THEN IF HasPlace(r, piece)
             THEN [r EXCEPT !.ooo = With(@, piece.at, piece.bytes)] ELSE r
        ELSE Drain(Deliver(r, piece.bytes))

OnStream(r, piece) ==
    LET end == piece.at + Len(piece.bytes)
    IN  IF end <= r.cum \/ end > r.offered THEN r
        ELSE IF piece.at > r.cum
        THEN IF HasPlace(r, piece)
             THEN [r EXCEPT !.ooo = With(@, piece.at, piece.bytes)] ELSE r
        ELSE Drain(Deliver(r, SubSeq(piece.bytes, r.cum - piece.at + 1, Len(piece.bytes))))

(* on_datagram: the number is remembered, then the frames are handled.  A   *)
(* packet from elsewhere is answered by a challenge when the known address  *)
(* has been silent (MIGRATE_AFTER), at the latest the second time.          *)
OnPacket(p) ==
    IF TooOld(rcv.seen, p.pn) THEN UNCHANGED <<rcv, toA>>
    ELSE LET r == [Folded(OnStream, rcv, p.pieces) EXCEPT
                     !.seen = Newest(@ \cup {p.pn}, RxRanges),
                     !.ackDue = @ \/ p.kind # "response"]
         IN  IF p.from = rcv.remote THEN rcv' = [r EXCEPT !.fresh = TRUE] /\ UNCHANGED toA
             ELSE IF p.kind = "response" /\ p.from = rcv.challenged
             THEN /\ rcv' = [r EXCEPT !.remote = p.from, !.fresh = TRUE, !.challenged = 0]
                  /\ UNCHANGED toA
             ELSE \/ rcv.fresh /\ rcv' = [r EXCEPT !.fresh = FALSE] /\ UNCHANGED toA
                  \/ /\ rcv' = [r EXCEPT !.challenged = p.from]
                     /\ toA' = IF p.from = home THEN Append(toA, [kind |-> "challenge"])
                               ELSE toA

Receive(i) ==
    /\ Open("b") /\ i \in DOMAIN toB
    /\ IF i > 1 THEN Fault("reorder") ELSE UNCHANGED faults
    /\ OnPacket(toB[i])
    /\ toB' = RemoveAt(toB, i)
    /\ UNCHANGED <<snd, stream, read, home, closed>>

(* _ack_frame goes where a was last heard.                                  *)
SendAck ==
    /\ Open("b") /\ rcv.ackDue
    /\ LET max == Max({rcv.offered, rcv.consumed + Window})
       IN  /\ rcv' = [rcv EXCEPT !.ackDue = FALSE, !.offered = max]
           /\ toA' = IF rcv.remote = home
                     THEN Append(toA, [kind |-> "ack", cum |-> rcv.cum, max |-> max,
                                       ranges |-> Newest(rcv.seen, AckRanges)])
                     ELSE toA
    /\ UNCHANGED <<snd, stream, read, toB, home, closed, faults>>

(* _read_loop: the window moves on when the handlers of what was taken have *)
(* ended.                                                                   *)
Take ==
    /\ Open("b") /\ rcv.handling = 0 /\ rcv.app # <<>>
    /\ rcv' = [rcv EXCEPT !.handling = Len(rcv.app), !.app = <<>>]
    /\ read' = read \o rcv.app
    /\ UNCHANGED <<snd, stream, toB, toA, home, closed, faults>>

Handled ==
    /\ Open("b") /\ rcv.handling > 0
    /\ rcv' = [rcv EXCEPT !.consumed = @ + rcv.handling, !.handling = 0,
                          !.ackDue = @ \/ rcv.consumed + rcv.handling + Window - rcv.offered
                                            >= Window \div 4]
    /\ UNCHANGED <<snd, stream, read, toB, toA, home, closed, faults>>

------------------------------------------------------------------------------
(* a: acknowledgements (_on_ack).                                           *)

Acked(s, ack) == DOMAIN s.sent \cap ack.ranges

OnAck(s, ack) ==
    LET cum == Max({s.cum, Min({ack.cum, s.next})})
        t == [s EXCEPT !.cum = cum, !.limit = Max({@, ack.max}),
                       !.retx = Unconfirmed(@, cum),
                       !.largest = Max({@} \cup ack.ranges),
                       !.sent = [pn \in DOMAIN @ \ ack.ranges |-> @[pn]],
                       !.big = @ \/ s.probe \in Acked(s, ack)]
    IN  Wakes(DetectLoss(t, -1), stream)

(* A number that was never sent is acknowledged by a liar: a closes.        *)
HandleAck(ack) ==
    IF ack.ranges \cap snd.skipped # {}
    THEN closed' = closed \cup {"a"} /\ UNCHANGED <<snd, toB, faults>>
    ELSE snd' \in {OnAck(snd, ack)} /\ UNCHANGED <<closed, toB, faults>>

(* The response proves the address (_parse); it is not tracked.             *)
Respond ==
    /\ snd' = [snd EXCEPT !.pn = @ + 1]
    /\ toB' = Append(toB, [kind |-> "response", pn |-> snd.pn, from |-> home, pieces |-> <<>>])
    /\ UNCHANGED <<closed, faults>>

ReceiveAtA ==
    /\ Open("a") /\ toA # <<>>
    /\ toA' = Tail(toA)
    /\ IF Head(toA).kind = "ack" THEN HandleAck(Head(toA)) ELSE Respond
    /\ UNCHANGED <<rcv, stream, read, home>>

------------------------------------------------------------------------------
(* The network, and the ends of the connection.                             *)

Lose ==
    /\ \/ /\ Fault("lose") /\ UNCHANGED toA
          /\ \E i \in DOMAIN toB : toB' = RemoveAt(toB, i)
       \/ /\ Fault("lose ack") /\ UNCHANGED toB
          /\ \E i \in DOMAIN toA : toA' = RemoveAt(toA, i)
    /\ UNCHANGED <<snd, rcv, stream, read, home, closed>>

Repeat ==
    /\ Fault("repeat")
    /\ \E i \in DOMAIN toB : toB' = Append(toB, toB[i])
    /\ UNCHANGED <<snd, rcv, stream, read, toA, home, closed>>

(* a's device changes network: what was on its way back is lost.            *)
Move ==
    /\ Fault("move")
    /\ home' \in Networks \ {home}
    /\ toA' = <<>>
    /\ UNCHANGED <<snd, rcv, stream, read, toB, closed>>

(* close: what is queued, unconfirmed or unread is dropped with it.         *)
Close(e) ==
    /\ Open(e) /\ Fault("close")
    /\ closed' = closed \cup {e}
    /\ UNCHANGED <<snd, rcv, stream, read, toB, toA, home>>

(* The other end hears F_CLOSE, or nothing for IDLE_TIMEOUT (_on_timer).    *)
CloseToo(e) ==
    /\ Open(e) /\ closed # {}
    /\ closed' = closed \cup {e}
    /\ UNCHANGED <<snd, rcv, stream, read, toB, toA, home, faults>>

Progress ==
    \/ \E f \in Frames : Write(f)
    \/ SendData \/ ProbePath \/ ProbeTimeout \/ KeepAlive \/ LossByTime
    \/ \E i \in 1..Len(toB) : Receive(i)
    \/ SendAck \/ Take \/ Handled \/ ReceiveAtA
    \/ \E e \in {"a", "b"} : CloseToo(e)

Next == Progress \/ Lose \/ Repeat \/ Move \/ \E e \in {"a", "b"} : Close(e)

Spec == Init /\ [][Next]_vars

(* Timers fire, the event loop runs its callbacks, and what the network does*)
(* not lose arrives.                                                        *)
FairSpec == Spec /\ WF_vars(Progress)

------------------------------------------------------------------------------
(* Every byte given out by _next_range is somewhere it will be delivered    *)
(* from: confirmed, waiting for a gap at b, in a packet that is not         *)
(* acknowledged, or due to be sent again.  A piece that b acknowledges and  *)
(* drops, or that _detect_loss forgets, would never come again.             *)
Covers(ranges, n) == \E r \in ranges : r[1] <= n /\ n < r[1] + r[2]

NothingForgotten ==
    \A n \in rcv.cum..(snd.next - 1) :
        \/ Covers({<<k, Len(rcv.ooo[k])>> : k \in DOMAIN rcv.ooo}, n)
        \/ Covers(Range(snd.retx), n)
        \/ \E pn \in DOMAIN snd.sent : Covers(Range(snd.sent[pn]), n)

(* What b reads is what a wrote, whole frame after whole frame, whatever    *)
(* the packets went through (_read, _on_stream).                            *)
Promise == INSTANCE ByteStream WITH Frames <- {Bytes(f) : f \in Frames}
ReadsTheStream == Promise!StreamSpec

(* On a connection that stays open every frame is read and no writer is     *)
(* left waiting, on any network a moves to.                                 *)
EverythingArrives ==
    <>[](\/ closed = {"a", "b"}
         \/ Len(read) = Total(SetToSeq(Frames)) /\ snd.waiting = {})

(* What waits for a gap at b takes no more than a window, nor does what it  *)
(* has in order and not handled yet; and a sends no byte that b has given no*)
(* room for.                                                                *)
TypeOK ==
    /\ rcv.cum = Len(read) + Len(rcv.app)
    /\ Waiting(rcv.ooo) <= Window
    /\ rcv.consumed + rcv.handling = Len(read)
    /\ rcv.cum <= snd.next /\ snd.cum <= rcv.cum /\ snd.next <= snd.limit
    /\ snd.limit <= rcv.offered /\ rcv.offered <= rcv.consumed + Window
    /\ DOMAIN snd.sent \subseteq 0..(snd.pn - 1) \ snd.skipped
    /\ \A r \in Range(snd.retx) : r[1] \in Nat /\ r[2] > 0
    /\ faults \in Together
==============================================================================
