----------------------------- MODULE SerialLink ------------------------------
(***************************************************************************)
(* The reliable link over a serial radio (transports/serial_link.py), in   *)
(* one direction: one end's two lanes of reliable messages and broadcasts, *)
(* the other end's tables, and the answers that come back.                 *)
(*                                                                         *)
(* The line keeps the order of packets and loses some: corruption, a full  *)
(* radio buffer and two ends talking at once all end as a lost packet.     *)
(* Pacing, the round trip and listening before talking only decide when a  *)
(* step happens, and are left out.  A write holds Batch = 1 packet.  The   *)
(* datagrams of a call have no state to lose and are left out.             *)
(***************************************************************************)
EXTENDS Integers, Sequences, FiniteSets, SequencesExt

CONSTANTS
    Loads,                  \* what is given to send(), and what goes wrong then
    Broadcasts,             \* the urgent ones sent with reliable=False
    Tag,                    \* the tag of each bulk message
    Ids,                    \* message ids (65536)
    QueueMax,               \* QUEUE_MAX
    GroupMax,               \* TURN_MESSAGES
    TurnMax,                \* packets in a turn
    CastMax,                \* partial broadcasts kept: 4
    DoneMax,                \* delivered messages remembered: 512
    MaxFaults,              \* how often something goes wrong in all
    None

VARIABLES
    load,                                        \* of Loads: see below
    queue, asking, given, cancelledTo, nextId,   \* queues and ids of the sender
    lane, busy,                                  \* its two send loops, whose turn
    air, back,                                   \* packets there, answers back
    rx,                                          \* the receiver's tables
    up, ended, tagAcked,                         \* handed up, given up on, progress
    faults

sending == <<queue, asking, given, cancelledTo, nextId>>
vars == <<load, sending, lane, busy, air, back, rx, up, ended, tagAcked, faults>>

Lanes == {"urgent", "bulk"}
Frag == {"small", "big"}       \* FRAG, FRAG_BIG: by the losses when it is picked
(* A load: the messages of each lane, in this order, into how many packets  *)
(* each is cut, how many partial ones are kept, and what may go wrong.      *)
UrgentMsgs == load.urgent
BulkMsgs == load.bulk
Parts == load.parts                    \* Parts[m][frag]
PartialMax == load.kept                \* partial messages kept: 8
Faults == load.faults

Tags == {Tag[m] : m \in ToSet(BulkMsgs)}
Messages == ToSet(UrgentMsgs) \cup ToSet(BulkMsgs)

Idle == [pc |-> "idle", msgs |-> <<>>, turn |-> <<>>, put |-> 0,
         unanswered |-> FALSE, stuck |-> FALSE]
NoTables == [incoming |-> <<>>, casts |-> <<>>, done |-> <<>>, keys |-> <<>>, armed |-> FALSE]

Init ==
    /\ load \in Loads
    /\ queue = [l \in Lanes |-> <<>>]
    /\ asking = [t \in Tags |-> None]
    /\ given = [l \in Lanes |-> 0]
    /\ cancelledTo = [t \in Tags |-> 0]
    /\ nextId \in {0, Ids - 1}
    /\ lane = [l \in Lanes |-> Idle]
    /\ busy = None
    /\ air = <<>> /\ back = <<>>
    /\ rx = NoTables
    /\ up = <<>> /\ ended = [m \in Messages |-> "open"]
    /\ tagAcked = [t \in Tags |-> 0]
    /\ faults = 0

Fault(f) == f \in Faults /\ faults < MaxFaults /\ faults' = faults + 1

------------------------------------------------------------------------------
(* send(): urgent messages are queued; bulk ones wait for room first.       *)

Item(m, seq) == [m |-> m, seq |-> seq]
Asleep(seq) == [seq |-> seq, awake |-> FALSE]
WakeAll(a) == [t \in Tags |-> IF a[t] = None THEN None ELSE [a[t] EXCEPT !.awake = TRUE]]
Room == Len(queue["bulk"]) < QueueMax

(* Mutated: a piece that waited is numbered only when it is queued. *)
NumberedLate(seq) == Item(BulkMsgs[seq], given["bulk"] + 1)

Numbered(seq) == Item(BulkMsgs[seq], seq)

SendUrgent ==
    /\ given["urgent"] < Len(UrgentMsgs)
    /\ given' = [given EXCEPT !["urgent"] = @ + 1]
    /\ queue' = [queue EXCEPT !["urgent"] = Append(@, Item(UrgentMsgs[given'["urgent"]], 0))]
    /\ UNCHANGED <<load, asking, cancelledTo, nextId, lane, busy, air, back, rx, up, ended, tagAcked, faults>>

(* One task sends a file: it gives the next piece once this one is queued.  *)
SendBulk ==
    LET seq == given["bulk"] + 1
        t == Tag[BulkMsgs[seq]]
    IN  /\ given["bulk"] < Len(BulkMsgs)
        /\ asking[t] = None
        /\ given' = [given EXCEPT !["bulk"] = seq]
        /\ IF Room
           THEN /\ queue' = [queue EXCEPT !["bulk"] = Append(@, Numbered(seq))]
                /\ UNCHANGED asking
           ELSE /\ asking' = [asking EXCEPT ![t] = Asleep(seq)]
                /\ UNCHANGED queue
        /\ UNCHANGED <<load, cancelledTo, nextId, lane, busy, air, back, rx, up, ended, tagAcked, faults>>

(* The waiting send() looks again whenever the room event was set.          *)
LookAgain ==
    \E t \in Tags :
        /\ asking[t] # None /\ asking[t].awake
        /\ LET s == asking[t].seq
           IN  IF Room
               THEN /\ queue' = [queue EXCEPT !["bulk"] = Append(@, Numbered(s))]
                    /\ asking' = [asking EXCEPT ![t] = None]
               ELSE /\ asking' = [asking EXCEPT ![t] = Asleep(s)]
                    /\ UNCHANGED queue
        /\ UNCHANGED <<load, given, cancelledTo, nextId, lane, busy, air, back, rx, up, ended, tagAcked, faults>>

(* Mutated: a cancel drops the tag for good. *)
CancelledForGood(item) == item.m \in ToSet(BulkMsgs) /\ cancelledTo[Tag[item.m]] > 0

Cancelled(item) == item.m \in ToSet(BulkMsgs) /\ item.seq <= cancelledTo[Tag[item.m]]

CancelBulk ==
    \E t \in Tags :
        /\ Fault("cancel")
        /\ queue' = [queue EXCEPT !["bulk"] = SelectSeq(@, LAMBDA i : Tag[i.m] # t)]
        /\ asking' = WakeAll(asking)
        /\ cancelledTo' = [cancelledTo EXCEPT ![t] = given["bulk"]]
        /\ tagAcked' = [tagAcked EXCEPT ![t] = 0]
        /\ UNCHANGED <<load, given, nextId, lane, busy, air, back, rx, up, ended>>

------------------------------------------------------------------------------
(* The send loops.  A turn is a burst of packets and the wait for its       *)
(* answer; one lane at a time has it.                                       *)

Sending(item, id, count) ==
    [item |-> item, id |-> id, count |-> count, missing |-> 1..count, acked |-> {}, answer |-> FALSE]
Reliable(m) == m \notin Broadcasts
(* Mutated: the messages of a turn share an id. *)
StartedAlike(items, frag) ==
    [i \in DOMAIN items |-> Sending(items[i], nextId, Parts[items[i].m][frag])]

Started(items, frag) ==
    [i \in DOMAIN items |-> Sending(items[i], (nextId + i - 1) % Ids, Parts[items[i].m][frag])]

(* Small reliable messages that wait together share a turn, as many as fit. *)
PickUrgent ==
    /\ lane["urgent"].pc = "idle"
    /\ \E n \in 1..GroupMax, frag \in Frag :
         /\ n <= Len(queue["urgent"])
         /\ n > 1 => \A i \in 1..n : Reliable(queue["urgent"][i].m)
         /\ lane' = [lane EXCEPT !["urgent"] =
                [Idle EXCEPT !.pc = "head", !.msgs = Started(SubSeq(queue["urgent"], 1, n), frag)]]
         /\ queue' = [queue EXCEPT !["urgent"] = SubSeq(@, n + 1, Len(@))]
         /\ nextId' = (nextId + n) % Ids
    /\ UNCHANGED <<load, asking, given, cancelledTo, busy, air, back, rx, up, ended, tagAcked, faults>>

PickBulk ==
    /\ lane["bulk"].pc = "idle"
    /\ queue["bulk"] # <<>>
    /\ queue' = [queue EXCEPT !["bulk"] = Tail(@)]
    /\ asking' = WakeAll(asking)
    /\ IF Cancelled(Head(queue["bulk"]))
       THEN UNCHANGED <<load, lane, nextId>>
       ELSE /\ \E frag \in Frag : lane' = [lane EXCEPT !["bulk"] =
                   [Idle EXCEPT !.pc = "head", !.msgs = Started(<<Head(queue["bulk"])>>, frag)]]
            /\ nextId' = (nextId + 1) % Ids
    /\ UNCHANGED <<load, given, cancelledTo, busy, air, back, rx, up, ended, tagAcked, faults>>

Cast(l) == l.msgs # <<>> /\ ~Reliable(l.msgs[1].item.m)
AnyMissing(l) == \E i \in DOMAIN l.msgs : l.msgs[i].missing # {}

(* _send_items is over for this lane: what became of each message.          *)
Over(l, why) ==
    LET of(m) == {s \in ToSet(lane[l].msgs) : s.item.m = m}
    IN  /\ lane' = [lane EXCEPT ![l] = Idle]
        /\ ended' = [m \in Messages |->
                IF of(m) = {} THEN ended[m]
                ELSE IF \E s \in of(m) : s.missing = {} THEN "confirmed" ELSE why]

Complete(l) ==
    /\ lane[l].pc = "head" /\ ~AnyMissing(lane[l])
    /\ Over(l, "")
    /\ UNCHANGED <<load, sending, busy, air, back, rx, up, tagAcked, faults>>

(* No progress since the last turn, for GIVE_UP seconds.                    *)
GiveUp(l) ==
    /\ lane[l].pc = "head" /\ AnyMissing(lane[l]) /\ lane[l].stuck
    /\ Fault("giveup")
    /\ Over(l, "given up")
    /\ UNCHANGED <<load, sending, busy, air, back, rx, up, tagAcked>>

Dropped ==
    /\ lane["bulk"].pc = "head" /\ AnyMissing(lane["bulk"])
    /\ Cancelled(lane["bulk"].msgs[1].item)
    /\ Over("bulk", "cancelled")
    /\ UNCHANGED <<load, sending, busy, air, back, rx, up, tagAcked, faults>>

(* The loop's conditions hold; without an answer it first waits at random.  *)
WantTurn(l) ==
    /\ lane[l].pc = "head" /\ AnyMissing(lane[l])
    /\ l = "bulk" => ~Cancelled(lane[l].msgs[1].item)
    /\ lane' = [lane EXCEPT ![l].pc = "want"]
    /\ UNCHANGED <<load, sending, busy, air, back, rx, up, ended, tagAcked, faults>>

------------------------------------------------------------------------------
(* A turn.                                                                  *)

UrgentWaiting == lane["urgent"].pc = "want"
CeilDiv(a, b) == (a + b - 1) \div b

(* _turn_of: the missing packets, message by message, split evenly.         *)
Packets(msgs, i) == [k \in 1..Cardinality(msgs[i].missing) |->
                        [i |-> i, idx |-> SetToSortSeq(msgs[i].missing, <)[k]]]
TurnOf(msgs) ==
    LET waiting == FlattenSeq([i \in DOMAIN msgs |-> Packets(msgs, i)])
        turns == CeilDiv(Len(waiting), TurnMax)
    IN  SubSeq(waiting, 1, CeilDiv(Len(waiting), turns))

(* After a turn without an answer its last packet alone asks again.         *)
NextTurn(l) == IF l.unanswered THEN <<l.turn[Len(l.turn)]>> ELSE TurnOf(l.msgs)

Unanswered(msgs) == [i \in DOMAIN msgs |-> [msgs[i] EXCEPT !.answer = FALSE]]
TakeTurn(l) ==
    /\ lane[l].pc = "want" /\ busy = None
    /\ l = "bulk" => ~UrgentWaiting
    /\ busy' = l
    /\ lane' = [lane EXCEPT ![l] = [@ EXCEPT !.pc = "burst", !.put = 0,
                    !.turn = NextTurn(lane[l]), !.msgs = Unanswered(@)]]
    /\ UNCHANGED <<load, sending, air, back, rx, up, ended, tagAcked, faults>>

Packet(l, n, kind) ==
    LET s == lane[l].msgs[lane[l].turn[n].i]
    IN  [kind |-> kind, id |-> s.id, idx |-> lane[l].turn[n].idx, count |-> s.count,
         payload |-> <<s.item.m, lane[l].turn[n].idx, s.count>>]

PutOnAir(p) ==
    \/ air' = Append(air, p) /\ UNCHANGED faults
    \/ Fault("lose") /\ UNCHANGED air

Yields(l) == l = "bulk" /\ lane[l].put > 0 /\ UrgentWaiting

Kind(l, n) == IF Cast(lane[l]) THEN "noack"
              ELSE IF n = Len(lane[l].turn) THEN "last" ELSE "data"

Write(l) ==
    LET n == lane[l].put + 1
    IN  /\ lane[l].pc = "burst" /\ ~Yields(l)
        /\ PutOnAir(Packet(l, n, Kind(l, n)))
        /\ lane' = [lane EXCEPT ![l].put = n,
                                ![l].pc = IF n = Len(lane[l].turn) THEN "answer" ELSE "burst"]
        /\ UNCHANGED <<load, sending, busy, back, rx, up, ended, tagAcked>>

(* Cut short for an urgent message: the last packet once more, as the last. *)
CutShort ==
    /\ lane["bulk"].pc = "burst" /\ Yields("bulk")
    /\ PutOnAir(Packet("bulk", lane["bulk"].put, "last"))
    /\ lane' = [lane EXCEPT !["bulk"].turn = SubSeq(@, 1, lane["bulk"].put),
                            !["bulk"].pc = "answer"]
    /\ UNCHANGED <<load, sending, busy, back, rx, up, ended, tagAcked>>

(* The write fails (the port is gone): the lane drops what it was sending.  *)
WriteFails(l) ==
    /\ lane[l].pc = "burst"
    /\ Fault("port")
    /\ busy' = None
    /\ Over(l, "failed")
    /\ UNCHANGED <<load, sending, air, back, rx, up, tagAcked>>

CastOver ==
    /\ lane["urgent"].pc = "answer" /\ Cast(lane["urgent"])
    /\ busy' = None
    /\ lane' = [lane EXCEPT !["urgent"] = Idle]
    /\ UNCHANGED <<load, sending, air, back, rx, up, ended, tagAcked, faults>>

LastMsg(l) == l.msgs[l.turn[Len(l.turn)].i]
Left(s) == (1..s.count) \ s.acked
Counted(msgs) == [i \in DOMAIN msgs |-> [msgs[i] EXCEPT !.missing = Left(msgs[i])]]
Progress(msgs) ==
    \E s \in ToSet(msgs) : Cardinality(Left(s)) < Cardinality(s.missing)
EndTurn(l, answered) ==
    /\ lane[l].pc = "answer" /\ ~Cast(lane[l])
    /\ busy' = None
    /\ lane' = [lane EXCEPT ![l] = [@ EXCEPT !.pc = "head", !.unanswered = ~answered,
                    !.msgs = Counted(@), !.stuck = ~Progress(lane[l].msgs)]]
    /\ UNCHANGED <<load, sending, air, back, rx, up, ended, tagAcked>>

(* The answer for the last packet came; the others come in a moment, or not. *)
Answered(l) ==
    /\ lane[l].pc = "answer" /\ LastMsg(lane[l]).answer
    /\ EndTurn(l, TRUE)
    /\ UNCHANGED faults

(* It does not come in time: lost, or (a fault) only late.                  *)
NoAnswer(l) ==
    /\ lane[l].pc = "answer" /\ ~Cast(lane[l]) /\ ~LastMsg(lane[l]).answer
    /\ \/ air = <<>> /\ back = <<>> /\ ~rx.armed /\ UNCHANGED faults
       \/ Fault("late")
    /\ EndTurn(l, FALSE)

------------------------------------------------------------------------------
(* The receiver: feed() and _on_data().                                     *)

Key(p) == <<p.id, p.count>>
Find(table, key) == SelectSeq(table, LAMBDA e : e.key = key)
Without(table, key) == SelectSeq(table, LAMBDA e : e.key # key)
Newest(table, max) == IF Len(table) > max THEN Tail(table) ELSE table

(* A resend of a delivered message: its content too, as ids wrap.           *)
Resent(r, p) == \E e \in ToSet(r.done) : e.key = Key(p) /\ e.parts[p.idx] = p.payload

(* The partial message with this packet; the one touched last is at the end,
   the one at the front goes when there are too many.                       *)
Extended(table, p) ==
    LET old == Find(table, Key(p))
        parts == IF old = <<>> THEN [i \in {} |-> <<>>] ELSE old[1].parts
    IN  [key |-> Key(p), parts |-> (p.idx :> p.payload) @@ parts]
Whole(e, p) == DOMAIN e.parts = 1..p.count
Kept(table, e, p, max) ==
    LET room == Newest(Append(Without(table, Key(p)), e), max)
    IN  IF Whole(e, p) THEN Without(room, Key(p)) ELSE room

Stored(r, p) ==
    IF p.kind = "noack"
    THEN [r EXCEPT !.casts = Kept(@, Extended(@, p), p, CastMax)]
    ELSE LET e == Extended(r.incoming, p)
         IN  [r EXCEPT !.incoming = Kept(@, e, p, PartialMax),
                       !.done = IF Whole(e, p) THEN Newest(Append(Without(@, Key(p)), e), DoneMax)
                                ELSE Without(@, Key(p))]
Table(r, p) == IF p.kind = "noack" THEN r.casts ELSE r.incoming

Touched(r, p) == [r EXCEPT !.keys = IF Key(p) \in ToSet(@) THEN @ ELSE Append(@, Key(p))]

(* _answer_turn: one answer per message the turn touched.                   *)
Have(r, key) ==
    IF Find(r.done, key) # <<>> THEN {1..key[2]}
    ELSE IF Find(r.incoming, key) # <<>> THEN {DOMAIN Find(r.incoming, key)[1].parts}
    ELSE {}
Answers(r) == FlattenSeq([k \in DOMAIN r.keys |->
    SetToSeq({[id |-> r.keys[k][1], count |-> r.keys[k][2], have |-> h] : h \in Have(r, r.keys[k])})])

Answer(r) ==
    /\ rx' = [r EXCEPT !.keys = <<>>, !.armed = FALSE]
    /\ \/ back' = back \o Answers(r) /\ UNCHANGED faults
       \/ Fault("lose") /\ \E k \in DOMAIN Answers(r) : back' = back \o RemoveAt(Answers(r), k)

Receive ==
    /\ air # <<>>
    /\ air' = Tail(air)
    /\ LET p == Head(air)
           r == IF p.kind = "noack" THEN rx ELSE Touched(rx, p)
           new == p.kind = "noack" \/ ~Resent(r, p)
           e == Extended(Table(r, p), p)
           r2 == IF new THEN Stored(r, p) ELSE r
       IN  /\ up' = IF new /\ Whole(e, p) THEN Append(up, [i \in 1..p.count |-> e.parts[i]]) ELSE up
           /\ IF p.kind = "last" THEN Answer(r2)
              ELSE /\ rx' = [r2 EXCEPT !.armed = @ \/ p.kind = "data"]
                   /\ UNCHANGED <<load, back, faults>>
    /\ UNCHANGED <<load, sending, lane, busy, ended, tagAcked>>

(* _arm_answer: the sender has gone quiet (or, a fault, only seems to).      *)
AnswerTimer ==
    /\ rx.armed
    /\ air = <<>> \/ "late" \in Faults
    /\ Answer(rx)
    /\ UNCHANGED <<load, sending, lane, busy, air, up, ended, tagAcked>>

Meant(s, a) == s.id = a.id /\ s.count = a.count

(* Bytes (packets here) confirmed for the first time are a file's progress. *)
Pieces == ToSet(lane["bulk"].msgs)
Fresh(a, t) ==
    {k \in a.have : \E s \in Pieces : Meant(s, a) /\ Tag[s.item.m] = t /\ k \notin s.acked}

(* Mutated: whatever any answer claimed counts. *)
HeardEver(s, a) == IF Meant(s, a) /\ Reliable(s.item.m)
                   THEN [s EXCEPT !.acked = @ \cup a.have, !.answer = TRUE] ELSE s

(* An answer arrives: the latest picture counts.                            *)
Heard(s, a) == IF Meant(s, a) /\ Reliable(s.item.m)
               THEN [s EXCEPT !.acked = a.have, !.answer = TRUE] ELSE s

TakeAnswer ==
    /\ back # <<>>
    /\ back' = Tail(back)
    /\ LET a == Head(back)
       IN  /\ lane' = [l \in Lanes |-> [lane[l] EXCEPT !.msgs = [i \in DOMAIN @ |-> Heard(@[i], a)]]]
           /\ tagAcked' = [t \in Tags |-> tagAcked[t] + Cardinality(Fresh(a, t))]
    /\ UNCHANGED <<load, sending, busy, air, rx, up, ended, faults>>

------------------------------------------------------------------------------
LaneStep(l) ==
    \/ Complete(l) \/ WantTurn(l) \/ TakeTurn(l) \/ Write(l) \/ Answered(l) \/ NoAnswer(l)
Next ==
    \/ SendUrgent \/ SendBulk \/ LookAgain \/ CancelBulk
    \/ PickUrgent \/ PickBulk \/ Dropped \/ CutShort \/ CastOver
    \/ \E l \in Lanes : LaneStep(l) \/ GiveUp(l) \/ WriteFails(l)
    \/ Receive \/ AnswerTimer \/ TakeAnswer
Spec == Init /\ [][Next]_vars

(* As long as the loops, the line or the timer can do something, one of them
   does; nobody has to send or cancel, and nothing has to fail.             *)
GoesOn ==
    \/ \E l \in Lanes : LaneStep(l)
    \/ LookAgain \/ PickUrgent \/ PickBulk \/ Dropped \/ CutShort \/ CastOver
    \/ Receive \/ AnswerTimer \/ TakeAnswer
Fairness == WF_vars(GoesOn)
LiveSpec == Spec /\ Fairness

------------------------------------------------------------------------------
(* Properties                                                               *)

MsgOf(h) == h[1][1]
IsWhole(h) == \E m \in Messages : \A i \in DOMAIN h : h[i] = <<m, i, Len(h)>>

(* What is handed up is one message, whole: never parts of two of them or of
   two ways to cut one (_on_data: partial messages by id and part count).   *)
WholeMessages == \A k \in DOMAIN up : IsWhole(up[k])

(* No message is handed up twice, whatever answers are lost and however
   often it is resent (_on_data: _delivered).                               *)
AtMostOnce == \A j, k \in DOMAIN up : MsgOf(up[j]) = MsgOf(up[k]) => j = k

(* On the radio a message comes whole, and once.                            *)
OnceAndWhole == WholeMessages /\ AtMostOnce

(* What the sender counts as sent was handed up (_send_ack says what is there,
   _send_items takes the latest picture).                                   *)
ConfirmedArrived ==
    \A m \in Messages : ended[m] = "confirmed" => \E k \in DOMAIN up : MsgOf(up[k]) = m

(* A piece that a cancel found queued, or waiting for room, is never started
   afterwards, while pieces queued later are (cancel_bulk, _is_cancelled:
   send() numbers a piece before it waits).                                 *)
Place(m) == CHOOSE n \in DOMAIN BulkMsgs : BulkMsgs[n] = m
Unwanted(m) == m \in ToSet(BulkMsgs) /\ Place(m) <= cancelledTo[Tag[m]]
DroppedStaysDropped ==
    [][lane["bulk"].pc = "idle" /\ lane'["bulk"].pc # "idle"
         => ~Unwanted(lane'["bulk"].msgs[1].item.m)]_vars

(* Every reliable message that was queued is handed up, unless it was
   cancelled: the lanes never wait for each other for good, no lost answer
   stops a turn for good, and whoever waits for room gets it.               *)
Arrived(m) == \E k \in DOMAIN up : MsgOf(up[k]) = m
Sent(m) == \/ \E n \in 1..given["urgent"] : UrgentMsgs[n] = m
           \/ \E n \in 1..given["bulk"] : BulkMsgs[n] = m
EverythingArrives ==
    <>[](\A m \in Messages \ Broadcasts : Sent(m) => Arrived(m) \/ Unwanted(m) \/ ended[m] \in {"given up", "failed"})

==============================================================================
