---------------------------- MODULE UdpStreamProofs ----------------------------
(***************************************************************************)
(* Theorems about UdpStream, for any frames, windows, limits and faults:   *)
(* what is read at the other end is the stream that was written, in order  *)
(* and without gaps, neither end goes beyond the room it was given, and    *)
(* nothing a sent is forgotten unless b turns a piece away.                *)
(***************************************************************************)
EXTENDS UdpStream, ListFacts

(***************************************************************************)
(* The invariant.  Every piece of data, on its way or waiting for a gap, is*)
(* what the stream has at its place; every range a may send again is of    *)
(* what it sent before; b has the stream up to cum and no further.         *)
(***************************************************************************)
Byte == Frames \X Nat
Maps(S) == UNION {[K -> S] : K \in SUBSET Nat}

RangesTo(n) == {r \in Nat \X Nat : r[2] > 0 /\ r[1] + r[2] <= n}

PartsTo(st, n) ==
    {p \in [at : Nat, bytes : Seq(Byte)] :
        /\ Len(p.bytes) > 0 /\ p.at + Len(p.bytes) <= n
        /\ p.bytes = SubSeq(st, p.at + 1, p.at + Len(p.bytes))}

(* The fields that are of no interest here are as they are.                 *)
SndStates(s) ==
    [urgent : Seq(Frames), bulk : Seq(Frames), waiting : {s.waiting}, writable : {TRUE, FALSE},
     unwritten : {s.unwritten}, next : Nat, cum : Nat, limit : Nat, retx : Seq(Nat \X Nat),
     sent : Maps(Seq(Nat \X Nat)), pn : Nat, skipped : SUBSET Nat, largest : {s.largest},
     probe : {s.probe}, probed : {s.probed}, big : {s.big}]

RcvStates(r) ==
    [seen : SUBSET Nat, cum : Nat, ooo : Maps(Seq(Byte)), app : Seq(Byte), handling : Nat,
     consumed : Nat, offered : Nat, ackDue : {r.ackDue}, remote : {r.remote},
     fresh : {r.fresh}, challenged : {r.challenged}]

SndFits(s, st) ==
    /\ s \in SndStates(s)
    /\ s.cum <= s.next /\ s.next <= Len(st) /\ s.next <= s.limit
    /\ s.retx \in Seq(RangesTo(s.next))
    /\ \A pn \in DOMAIN s.sent : s.sent[pn] \in Seq(RangesTo(s.next))
    /\ DOMAIN s.sent \subseteq (0..(s.pn - 1)) \ s.skipped
    /\ s.skipped \subseteq 0..(s.pn - 1)

Spots(ooo) == UNION {{k} \X DOMAIN ooo[k] : k \in DOMAIN ooo}

(* Pieces that may wait, of what was sent and there was room for.           *)
Pieces(o, st, n, m) ==
    /\ o \in Maps(Seq(Byte))
    /\ \A k \in DOMAIN o : [at |-> k, bytes |-> o[k]] \in PartsTo(st, n) /\ k + Len(o[k]) <= m
    /\ IsFiniteSet(DOMAIN o) /\ IsFiniteSet(Spots(o)) /\ Waiting(o) <= Window

RcvFits(r, rd, st, n) ==
    /\ r \in RcvStates(r)
    /\ r.cum <= n /\ r.cum <= r.offered
    /\ rd \o r.app = SubSeq(st, 1, r.cum)
    /\ Pieces(r.ooo, st, n, r.offered)

Packets(st, n) ==
    [kind : {"data", "ping", "probe", "response"}, pn : Nat, from : Networks,
     pieces : Seq(PartsTo(st, n))]

Answers(c, o) ==
    [kind : {"challenge"}] \cup [kind : {"ack"}, cum : 0..c, max : 0..o, ranges : SUBSET Nat]

IInv ==
    /\ stream \in Seq(Byte) /\ read \in Seq(Byte)
    /\ SndFits(snd, stream) /\ RcvFits(rcv, read, stream, snd.next)
    /\ snd.cum <= rcv.cum /\ snd.limit <= rcv.offered
    /\ rcv.consumed + rcv.handling = Len(read) /\ rcv.offered <= rcv.consumed + Window
    /\ toB \in Seq(Packets(stream, snd.next)) /\ toA \in Seq(Answers(rcv.cum, rcv.offered))
    /\ home \in Networks /\ faults \in Together

------------------------------------------------------------------------------
(* Loops.  The provers cannot use a fact about every operator, so each loop *)
(* of the model has a lemma of its own; what they share is here.            *)

IsRun(t, x, L, H) == t = [n \in 0..L |-> IF n = 0 THEN x ELSE H[<<n, t[n - 1]>>]]
Within(t, L, P) == \A n \in 0..L : t[n] \in P
Turning(H, L, P) == H \in [(1..L) \X P -> P]

(* There is a value for each turn of a loop whose steps stay in P.          *)
LEMMA Loops ==
    ASSUME NEW P, NEW x \in P, NEW L \in Nat, NEW H, Turning(H, L, P)
    PROVE  \E t : IsRun(t, x, L, H) /\ Within(t, L, P)
<1>0. H \in [(1..L) \X P -> P]
  BY DEF Turning
<1> DEFINE Q == Nat \X P
           h == [p \in Q |-> <<p[1] + 1, IF p[1] + 1 \in 1..L THEN H[<<p[1] + 1, p[2]>>] ELSE p[2]>>]
<1>1. StaysIn(h, Q) /\ <<0, x>> \in Q
  <2>1. ASSUME NEW p \in Q PROVE h[p] \in Q
    <3>1. p[1] + 1 \in Nat /\ p[2] \in P
      OBVIOUS
    <3>2. p[1] + 1 \in 1..L => H[<<p[1] + 1, p[2]>>] \in P
      BY <1>0, <3>1
    <3>3. QED
      BY <3>1, <3>2
  <2>2. h \in [Q -> Q]
    BY <2>1
  <2>3. QED
    BY <2>2 DEF StaysIn
<1>2. PICK f : IsLoop(f, Q, h, <<0, x>>)
  <2> HIDE DEF Q, h
  <2>1. QED
    BY <1>1, Iterates
<1>3. f \in [Nat -> Q] /\ f[0] = <<0, x>> /\ \A n \in Nat : f[n + 1] = h[f[n]]
  BY <1>2 DEF IsLoop
<1>4. \A n \in Nat : f[n][1] = n
  <2> DEFINE A == {n \in Nat : f[n][1] = n}
  <2>1. 0 \in A
    BY <1>3
  <2>2. ASSUME NEW n \in Nat, n \in A PROVE n + 1 \in A
    <3>1. f[n] \in Q /\ f[n][1] = n /\ f[n + 1] = h[f[n]]
      BY <1>3, <2>2
    <3>2. h[f[n]][1] = n + 1
      BY <3>1
    <3>3. QED
      BY <3>1, <3>2
  <2>3. Nat \subseteq A
    <3> HIDE DEF A
    <3>1. QED
      BY <2>1, <2>2, Counting
  <2>4. QED
    BY <2>3
<1> DEFINE t == [n \in 0..L |-> f[n][2]]
<1>5. \A n \in 0..L : f[n][2] \in P /\ t[n] = f[n][2]
  BY <1>3
<1>6. ASSUME NEW n \in 0..L
      PROVE  t[n] = IF n = 0 THEN x ELSE H[<<n, t[n - 1]>>]
  <2>1. CASE n = 0
    BY <1>3, <1>5, <2>1
  <2>2. CASE n # 0
    <3>1. n - 1 \in Nat /\ n - 1 \in 0..L /\ (n - 1) + 1 = n /\ n \in 1..L
      BY <2>2
    <3>2. f[n - 1] \in Q /\ f[n - 1][1] = n - 1 /\ f[n] = h[f[n - 1]]
      BY <1>3, <1>4, <3>1
    <3>3. f[n][2] = H[<<n, f[n - 1][2]>>]
      BY <3>1, <3>2
    <3>4. t[n - 1] = f[n - 1][2] /\ t[n] = f[n][2]
      BY <1>5, <3>1
    <3> HIDE DEF t
    <3>5. QED
      BY <2>2, <3>3, <3>4
  <2>3. QED
    BY <2>1, <2>2
<1>7. t = [n \in 0..L |-> IF n = 0 THEN x ELSE H[<<n, t[n - 1]>>]]
  BY <1>6
<1>8. \A n \in 0..L : t[n] \in P
  BY <1>5
<1> HIDE DEF t
<1>9. QED
  BY <1>7, <1>8 DEF IsRun, Within

Singles(R) == {{y} : y \in R}

(* What is true before a loop, and after each turn if it was before it, is  *)
(* true in the end; B[n] is what is true after n turns.                     *)
LEMMA LastTurnOf ==
    ASSUME NEW B, NEW L \in Nat, NEW t, t[0] \in Singles(B[0]),
           \A n \in 1..L : t[n - 1] \in Singles(B[n - 1]) => t[n] \in Singles(B[n])
    PROVE  (CHOOSE y \in t[L] : TRUE) \in B[L]
<1> DEFINE A == {n \in Nat : n <= L => t[n] \in Singles(B[n])}
<1>1. 0 \in A
  OBVIOUS
<1>2. ASSUME NEW n \in Nat, n \in A PROVE n + 1 \in A
  <2>1. SUFFICES ASSUME n + 1 <= L PROVE t[n + 1] \in Singles(B[n + 1])
    OBVIOUS
  <2>2. n + 1 \in 1..L /\ (n + 1) - 1 = n /\ t[n] \in Singles(B[n])
    BY <1>2, <2>1
  <2>3. QED
    BY <2>2
<1>3. Nat \subseteq A
  <2> HIDE DEF A
  <2>1. QED
    BY <1>1, <1>2, Counting
<1>4. PICK y \in B[L] : t[L] = {y}
  BY <1>3 DEF Singles
<1>5. QED
  BY <1>4

LEMMA LastTurn ==
    ASSUME NEW R, NEW L \in Nat, NEW t, t[0] \in Singles(R),
           \A n \in 1..L : t[n - 1] \in Singles(R) => t[n] \in Singles(R)
    PROVE  (CHOOSE y \in t[L] : TRUE) \in R
<1> DEFINE B == [n \in 0..L |-> R]
<1>1. B[0] = R /\ B[L] = R /\ \A n \in 1..L : B[n - 1] = R /\ B[n] = R
  OBVIOUS
<1> HIDE DEF B
<1>2. QED
  BY <1>1, LastTurnOf

(* The loop over the ranges that are not confirmed.                         *)
LEMMA UnconfirmedLoop ==
    ASSUME NEW cum, NEW seq, NEW R, <<>> \in R, Len(seq) \in Nat,
           \A n \in 1..Len(seq) : \A y \in R :
              (IF seq[n][1] + seq[n][2] > cum THEN Append(y, seq[n]) ELSE y) \in R
    PROVE  /\ Unconfirmed(seq, cum) \in R
           /\ \A A :
                 <<>> \in A[0]
                 /\ (\A n \in 1..Len(seq) : \A y \in R \cap A[n - 1] :
                       (IF seq[n][1] + seq[n][2] > cum THEN Append(y, seq[n]) ELSE y) \in A[n])
                 => Unconfirmed(seq, cum) \in A[Len(seq)]
<1> DEFINE x == <<>>
           q == seq
           L == Len(q)
           P == Singles(R)
           turn(n, X) == {(IF q[n][1] + q[n][2] > cum THEN Append(y, q[n]) ELSE y) : y \in X}
           IsTurns(t) == t = [n \in 0..L |-> IF n = 0 THEN {x} ELSE turn(n, t[n - 1])]
           turns == CHOOSE t : IsTurns(t)
<1>1. Unconfirmed(seq, cum) = (CHOOSE y \in turns[L] : TRUE)
  BY Zenon DEF Unconfirmed, Folded
<1>2. ASSUME NEW n \in 1..L, NEW X \in P PROVE turn(n, X) \in P
  <2>1. PICK y \in R : X = {y}
    BY DEF Singles
  <2>2. turn(n, X) = {(IF q[n][1] + q[n][2] > cum THEN Append(y, q[n]) ELSE y)}
    BY <2>1
  <2>3. QED
    BY <2>2 DEF Singles
<1>3. {x} \in P /\ L \in Nat
  BY DEF Singles
<1> DEFINE H == [p \in (1..L) \X P |-> turn(p[1], p[2])]
<1> HIDE DEF turns, turn, x, L, P
<1>4. Turning(H, L, P)
  BY <1>2 DEF Turning
<1>5. PICK t : IsRun(t, {x}, L, H) /\ Within(t, L, P)
  <2> HIDE DEF H
  <2>1. QED
    BY <1>3, <1>4, Loops
<1>6. ASSUME NEW n \in 0..L, n # 0 PROVE n \in 1..L /\ n - 1 \in 0..L
  BY <1>3, <1>6
<1>7. \A n \in 0..L : n # 0 => H[<<n, t[n - 1]>>] = turn(n, t[n - 1])
  BY <1>5, <1>6 DEF Within
<1>8. IsTurns(t)
  <2> HIDE DEF H
  <2>1. QED
    BY <1>5, <1>7 DEF IsRun
<1>9. IsTurns(turns)
  BY <1>8 DEF turns
<1>10. turns[0] \in P
  BY <1>3, <1>9
<1>11. \A n \in 1..L : turns[n - 1] \in P => turns[n] \in P
  <2>1. \A n \in 1..L : n \in 0..L /\ n # 0
    BY <1>3
  <2>2. QED
    BY <1>2, <1>9, <2>1
<1>12. (CHOOSE y \in turns[L] : TRUE) \in R
  BY <1>3, <1>10, <1>11, LastTurn DEF P
<1>13. ASSUME NEW A, x \in A[0],
              \A n \in 1..L : \A y \in R \cap A[n - 1] : (IF q[n][1] + q[n][2] > cum THEN Append(y, q[n]) ELSE y) \in A[n]
       PROVE  (CHOOSE y \in turns[L] : TRUE) \in A[L]
  <2> DEFINE B == [n \in 0..L |-> R \cap A[n]]
  <2>1. \A n \in 0..L : B[n] = R \cap A[n]
    OBVIOUS
  <2>2. \A n \in 1..L : n \in 0..L /\ n - 1 \in 0..L /\ n # 0
    BY <1>3
  <2>3. turns[0] = {x} /\ x \in R
    BY <1>3, <1>9 DEF x
  <2> HIDE DEF B
  <2>4. 0 \in 0..L /\ L \in 0..L
    BY <1>3
  <2>5. turns[0] \in Singles(B[0])
    BY <1>13, <2>1, <2>3, <2>4 DEF Singles
  <2>6. ASSUME NEW n \in 1..L, turns[n - 1] \in Singles(B[n - 1])
        PROVE  turns[n] \in Singles(B[n])
    <3>1. PICK y \in R \cap A[n - 1] : turns[n - 1] = {y}
      BY <2>1, <2>2, <2>6 DEF Singles
    <3>2. turns[n] = {(IF q[n][1] + q[n][2] > cum THEN Append(y, q[n]) ELSE y)}
      <4>1. turns[n] = turn(n, turns[n - 1])
        BY <1>9, <2>2
      <4>2. QED
        BY <3>1, <4>1 DEF turn
    <3>3. turns[n] \in P
      BY <1>11, <3>1 DEF P, Singles
    <3>4. (IF q[n][1] + q[n][2] > cum THEN Append(y, q[n]) ELSE y) \in R
      BY <3>2, <3>3 DEF P, Singles
    <3>5. (IF q[n][1] + q[n][2] > cum THEN Append(y, q[n]) ELSE y) \in A[n]
      BY <1>13, <3>1
    <3>6. QED
      BY <2>1, <2>2, <3>2, <3>4, <3>5 DEF Singles
  <2>7. (CHOOSE y \in turns[L] : TRUE) \in B[L]
    BY <1>3, <2>5, <2>6, LastTurnOf
  <2>8. QED
    BY <2>1, <2>4, <2>7
<1>14. QED
  BY <1>1, <1>12, <1>13 DEF x, L

(* The loop of _send_one over the room of a packet.                         *)
LEMMA FillLoop ==
    ASSUME NEW s, NEW room, NEW R, [s |-> s, st |-> stream, room |-> room, pieces |-> <<>>] \in R, Len(Times(room)) \in Nat,
           \A n \in 1..Len(Times(room)) : \A y \in R :
              NextRange(y) \in R
    PROVE  Filled(s, room) \in R
<1> DEFINE x == [s |-> s, st |-> stream, room |-> room, pieces |-> <<>>]
           q == Times(room)
           L == Len(q)
           P == Singles(R)
           turn(n, X) == {NextRange(y) : y \in X}
           IsTurns(t) == t = [n \in 0..L |-> IF n = 0 THEN {x} ELSE turn(n, t[n - 1])]
           turns == CHOOSE t : IsTurns(t)
<1>1. Filled(s, room) = (CHOOSE y \in turns[L] : TRUE)
  BY Zenon DEF Filled, Folded
<1>2. ASSUME NEW n \in 1..L, NEW X \in P PROVE turn(n, X) \in P
  <2>1. PICK y \in R : X = {y}
    BY DEF Singles
  <2>2. turn(n, X) = {NextRange(y)}
    BY <2>1
  <2>3. QED
    BY <2>2 DEF Singles
<1>3. {x} \in P /\ L \in Nat
  BY DEF Singles
<1> DEFINE H == [p \in (1..L) \X P |-> turn(p[1], p[2])]
<1> HIDE DEF turns, turn, x, L, P
<1>4. Turning(H, L, P)
  BY <1>2 DEF Turning
<1>5. PICK t : IsRun(t, {x}, L, H) /\ Within(t, L, P)
  <2> HIDE DEF H
  <2>1. QED
    BY <1>3, <1>4, Loops
<1>6. ASSUME NEW n \in 0..L, n # 0 PROVE n \in 1..L /\ n - 1 \in 0..L
  BY <1>3, <1>6
<1>7. \A n \in 0..L : n # 0 => H[<<n, t[n - 1]>>] = turn(n, t[n - 1])
  BY <1>5, <1>6 DEF Within
<1>8. IsTurns(t)
  <2> HIDE DEF H
  <2>1. QED
    BY <1>5, <1>7 DEF IsRun
<1>9. IsTurns(turns)
  BY <1>8 DEF turns
<1>10. turns[0] \in P
  BY <1>3, <1>9
<1>11. \A n \in 1..L : turns[n - 1] \in P => turns[n] \in P
  <2>1. \A n \in 1..L : n \in 0..L /\ n # 0
    BY <1>3
  <2>2. QED
    BY <1>2, <1>9, <2>1
<1>12. (CHOOSE y \in turns[L] : TRUE) \in R
  BY <1>3, <1>10, <1>11, LastTurn DEF P
<1>13. QED
  BY <1>1, <1>12

(* The loop of _probe_timeout over the ranges of a packet.                  *)
LEMMA InsertLoop ==
    ASSUME NEW s, NEW seq, NEW R, s \in R, Len(seq) \in Nat,
           \A n \in 1..Len(seq) : \A y \in R :
              Insert(y, seq[n]) \in R
    PROVE  Folded(Insert, s, seq) \in R
<1> DEFINE x == s
           q == seq
           L == Len(q)
           P == Singles(R)
           turn(n, X) == {Insert(y, q[n]) : y \in X}
           IsTurns(t) == t = [n \in 0..L |-> IF n = 0 THEN {x} ELSE turn(n, t[n - 1])]
           turns == CHOOSE t : IsTurns(t)
<1>1. Folded(Insert, s, seq) = (CHOOSE y \in turns[L] : TRUE)
  BY Zenon DEF Folded
<1>2. ASSUME NEW n \in 1..L, NEW X \in P PROVE turn(n, X) \in P
  <2>1. PICK y \in R : X = {y}
    BY DEF Singles
  <2>2. turn(n, X) = {Insert(y, q[n])}
    BY <2>1
  <2>3. QED
    BY <2>2 DEF Singles
<1>3. {x} \in P /\ L \in Nat
  BY DEF Singles
<1> DEFINE H == [p \in (1..L) \X P |-> turn(p[1], p[2])]
<1> HIDE DEF turns, turn, x, L, P
<1>4. Turning(H, L, P)
  BY <1>2 DEF Turning
<1>5. PICK t : IsRun(t, {x}, L, H) /\ Within(t, L, P)
  <2> HIDE DEF H
  <2>1. QED
    BY <1>3, <1>4, Loops
<1>6. ASSUME NEW n \in 0..L, n # 0 PROVE n \in 1..L /\ n - 1 \in 0..L
  BY <1>3, <1>6
<1>7. \A n \in 0..L : n # 0 => H[<<n, t[n - 1]>>] = turn(n, t[n - 1])
  BY <1>5, <1>6 DEF Within
<1>8. IsTurns(t)
  <2> HIDE DEF H
  <2>1. QED
    BY <1>5, <1>7 DEF IsRun
<1>9. IsTurns(turns)
  BY <1>8 DEF turns
<1>10. turns[0] \in P
  BY <1>3, <1>9
<1>11. \A n \in 1..L : turns[n - 1] \in P => turns[n] \in P
  <2>1. \A n \in 1..L : n \in 0..L /\ n # 0
    BY <1>3
  <2>2. QED
    BY <1>2, <1>9, <2>1
<1>12. (CHOOSE y \in turns[L] : TRUE) \in R
  BY <1>3, <1>10, <1>11, LastTurn DEF P
<1>13. QED
  BY <1>1, <1>12

(* The loop of _detect_loss over the packets.                               *)
LEMMA RangesLoop ==
    ASSUME NEW s, NEW lost, NEW R, <<>> \in R, Len(Times(s.pn)) \in Nat,
           \A n \in 1..Len(Times(s.pn)) : \A y \in R :
              (IF Times(s.pn)[n] - 1 \in lost THEN y \o s.sent[Times(s.pn)[n] - 1] ELSE y) \in R
    PROVE  /\ RangesOf(s, lost) \in R
           /\ \A A :
                 <<>> \in A[0]
                 /\ (\A n \in 1..Len(Times(s.pn)) : \A y \in R \cap A[n - 1] :
                       (IF Times(s.pn)[n] - 1 \in lost THEN y \o s.sent[Times(s.pn)[n] - 1] ELSE y) \in A[n])
                 => RangesOf(s, lost) \in A[Len(Times(s.pn))]
<1> DEFINE x == <<>>
           q == Times(s.pn)
           L == Len(q)
           P == Singles(R)
           turn(n, X) == {(IF q[n] - 1 \in lost THEN y \o s.sent[q[n] - 1] ELSE y) : y \in X}
           IsTurns(t) == t = [n \in 0..L |-> IF n = 0 THEN {x} ELSE turn(n, t[n - 1])]
           turns == CHOOSE t : IsTurns(t)
<1>1. RangesOf(s, lost) = (CHOOSE y \in turns[L] : TRUE)
  BY Zenon DEF RangesOf, Folded
<1>2. ASSUME NEW n \in 1..L, NEW X \in P PROVE turn(n, X) \in P
  <2>1. PICK y \in R : X = {y}
    BY DEF Singles
  <2>2. turn(n, X) = {(IF q[n] - 1 \in lost THEN y \o s.sent[q[n] - 1] ELSE y)}
    BY <2>1
  <2>3. QED
    BY <2>2 DEF Singles
<1>3. {x} \in P /\ L \in Nat
  BY DEF Singles
<1> DEFINE H == [p \in (1..L) \X P |-> turn(p[1], p[2])]
<1> HIDE DEF turns, turn, x, L, P
<1>4. Turning(H, L, P)
  BY <1>2 DEF Turning
<1>5. PICK t : IsRun(t, {x}, L, H) /\ Within(t, L, P)
  <2> HIDE DEF H
  <2>1. QED
    BY <1>3, <1>4, Loops
<1>6. ASSUME NEW n \in 0..L, n # 0 PROVE n \in 1..L /\ n - 1 \in 0..L
  BY <1>3, <1>6
<1>7. \A n \in 0..L : n # 0 => H[<<n, t[n - 1]>>] = turn(n, t[n - 1])
  BY <1>5, <1>6 DEF Within
<1>8. IsTurns(t)
  <2> HIDE DEF H
  <2>1. QED
    BY <1>5, <1>7 DEF IsRun
<1>9. IsTurns(turns)
  BY <1>8 DEF turns
<1>10. turns[0] \in P
  BY <1>3, <1>9
<1>11. \A n \in 1..L : turns[n - 1] \in P => turns[n] \in P
  <2>1. \A n \in 1..L : n \in 0..L /\ n # 0
    BY <1>3
  <2>2. QED
    BY <1>2, <1>9, <2>1
<1>12. (CHOOSE y \in turns[L] : TRUE) \in R
  BY <1>3, <1>10, <1>11, LastTurn DEF P
<1>13. ASSUME NEW A, x \in A[0],
              \A n \in 1..L : \A y \in R \cap A[n - 1] : (IF q[n] - 1 \in lost THEN y \o s.sent[q[n] - 1] ELSE y) \in A[n]
       PROVE  (CHOOSE y \in turns[L] : TRUE) \in A[L]
  <2> DEFINE B == [n \in 0..L |-> R \cap A[n]]
  <2>1. \A n \in 0..L : B[n] = R \cap A[n]
    OBVIOUS
  <2>2. \A n \in 1..L : n \in 0..L /\ n - 1 \in 0..L /\ n # 0
    BY <1>3
  <2>3. turns[0] = {x} /\ x \in R
    BY <1>3, <1>9 DEF x
  <2> HIDE DEF B
  <2>4. 0 \in 0..L /\ L \in 0..L
    BY <1>3
  <2>5. turns[0] \in Singles(B[0])
    BY <1>13, <2>1, <2>3, <2>4 DEF Singles
  <2>6. ASSUME NEW n \in 1..L, turns[n - 1] \in Singles(B[n - 1])
        PROVE  turns[n] \in Singles(B[n])
    <3>1. PICK y \in R \cap A[n - 1] : turns[n - 1] = {y}
      BY <2>1, <2>2, <2>6 DEF Singles
    <3>2. turns[n] = {(IF q[n] - 1 \in lost THEN y \o s.sent[q[n] - 1] ELSE y)}
      <4>1. turns[n] = turn(n, turns[n - 1])
        BY <1>9, <2>2
      <4>2. QED
        BY <3>1, <4>1 DEF turn
    <3>3. turns[n] \in P
      BY <1>11, <3>1 DEF P, Singles
    <3>4. (IF q[n] - 1 \in lost THEN y \o s.sent[q[n] - 1] ELSE y) \in R
      BY <3>2, <3>3 DEF P, Singles
    <3>5. (IF q[n] - 1 \in lost THEN y \o s.sent[q[n] - 1] ELSE y) \in A[n]
      BY <1>13, <3>1
    <3>6. QED
      BY <2>1, <2>2, <3>2, <3>4, <3>5 DEF Singles
  <2>7. (CHOOSE y \in turns[L] : TRUE) \in B[L]
    BY <1>3, <2>5, <2>6, LastTurnOf
  <2>8. QED
    BY <2>1, <2>4, <2>7
<1>14. QED
  BY <1>1, <1>12, <1>13 DEF x, L

(* The sorting of _retx.                                                    *)
LEMMA PlacedLoop ==
    ASSUME NEW seq, NEW R, <<>> \in R, Len(seq) \in Nat,
           \A n \in 1..Len(seq) : \A y \in R :
              Placed(y, seq[n]) \in R
    PROVE  /\ Folded(Placed, <<>>, seq) \in R
           /\ \A A :
                 <<>> \in A[0]
                 /\ (\A n \in 1..Len(seq) : \A y \in R \cap A[n - 1] :
                       Placed(y, seq[n]) \in A[n])
                 => Folded(Placed, <<>>, seq) \in A[Len(seq)]
<1> DEFINE x == <<>>
           q == seq
           L == Len(q)
           P == Singles(R)
           turn(n, X) == {Placed(y, q[n]) : y \in X}
           IsTurns(t) == t = [n \in 0..L |-> IF n = 0 THEN {x} ELSE turn(n, t[n - 1])]
           turns == CHOOSE t : IsTurns(t)
<1>1. Folded(Placed, <<>>, seq) = (CHOOSE y \in turns[L] : TRUE)
  BY Zenon DEF Folded
<1>2. ASSUME NEW n \in 1..L, NEW X \in P PROVE turn(n, X) \in P
  <2>1. PICK y \in R : X = {y}
    BY DEF Singles
  <2>2. turn(n, X) = {Placed(y, q[n])}
    BY <2>1
  <2>3. QED
    BY <2>2 DEF Singles
<1>3. {x} \in P /\ L \in Nat
  BY DEF Singles
<1> DEFINE H == [p \in (1..L) \X P |-> turn(p[1], p[2])]
<1> HIDE DEF turns, turn, x, L, P
<1>4. Turning(H, L, P)
  BY <1>2 DEF Turning
<1>5. PICK t : IsRun(t, {x}, L, H) /\ Within(t, L, P)
  <2> HIDE DEF H
  <2>1. QED
    BY <1>3, <1>4, Loops
<1>6. ASSUME NEW n \in 0..L, n # 0 PROVE n \in 1..L /\ n - 1 \in 0..L
  BY <1>3, <1>6
<1>7. \A n \in 0..L : n # 0 => H[<<n, t[n - 1]>>] = turn(n, t[n - 1])
  BY <1>5, <1>6 DEF Within
<1>8. IsTurns(t)
  <2> HIDE DEF H
  <2>1. QED
    BY <1>5, <1>7 DEF IsRun
<1>9. IsTurns(turns)
  BY <1>8 DEF turns
<1>10. turns[0] \in P
  BY <1>3, <1>9
<1>11. \A n \in 1..L : turns[n - 1] \in P => turns[n] \in P
  <2>1. \A n \in 1..L : n \in 0..L /\ n # 0
    BY <1>3
  <2>2. QED
    BY <1>2, <1>9, <2>1
<1>12. (CHOOSE y \in turns[L] : TRUE) \in R
  BY <1>3, <1>10, <1>11, LastTurn DEF P
<1>13. ASSUME NEW A, x \in A[0],
              \A n \in 1..L : \A y \in R \cap A[n - 1] : Placed(y, q[n]) \in A[n]
       PROVE  (CHOOSE y \in turns[L] : TRUE) \in A[L]
  <2> DEFINE B == [n \in 0..L |-> R \cap A[n]]
  <2>1. \A n \in 0..L : B[n] = R \cap A[n]
    OBVIOUS
  <2>2. \A n \in 1..L : n \in 0..L /\ n - 1 \in 0..L /\ n # 0
    BY <1>3
  <2>3. turns[0] = {x} /\ x \in R
    BY <1>3, <1>9 DEF x
  <2> HIDE DEF B
  <2>4. 0 \in 0..L /\ L \in 0..L
    BY <1>3
  <2>5. turns[0] \in Singles(B[0])
    BY <1>13, <2>1, <2>3, <2>4 DEF Singles
  <2>6. ASSUME NEW n \in 1..L, turns[n - 1] \in Singles(B[n - 1])
        PROVE  turns[n] \in Singles(B[n])
    <3>1. PICK y \in R \cap A[n - 1] : turns[n - 1] = {y}
      BY <2>1, <2>2, <2>6 DEF Singles
    <3>2. turns[n] = {Placed(y, q[n])}
      <4>1. turns[n] = turn(n, turns[n - 1])
        BY <1>9, <2>2
      <4>2. QED
        BY <3>1, <4>1 DEF turn
    <3>3. turns[n] \in P
      BY <1>11, <3>1 DEF P, Singles
    <3>4. Placed(y, q[n]) \in R
      BY <3>2, <3>3 DEF P, Singles
    <3>5. Placed(y, q[n]) \in A[n]
      BY <1>13, <3>1
    <3>6. QED
      BY <2>1, <2>2, <3>2, <3>4, <3>5 DEF Singles
  <2>7. (CHOOSE y \in turns[L] : TRUE) \in B[L]
    BY <1>3, <2>5, <2>6, LastTurnOf
  <2>8. QED
    BY <2>1, <2>4, <2>7
<1>14. QED
  BY <1>1, <1>12, <1>13 DEF x, L

(* The loop of _on_stream over what waited.                                 *)
LEMMA DrainLoop ==
    ASSUME NEW r, NEW R, r \in R, Len(Times(2 * Cardinality(DOMAIN r.ooo))) \in Nat,
           \A n \in 1..Len(Times(2 * Cardinality(DOMAIN r.ooo))) : \A y \in R :
              DrainStep(y) \in R
    PROVE  Drain(r) \in R
<1> DEFINE x == r
           q == Times(2 * Cardinality(DOMAIN r.ooo))
           L == Len(q)
           P == Singles(R)
           turn(n, X) == {DrainStep(y) : y \in X}
           IsTurns(t) == t = [n \in 0..L |-> IF n = 0 THEN {x} ELSE turn(n, t[n - 1])]
           turns == CHOOSE t : IsTurns(t)
<1>1. Drain(r) = (CHOOSE y \in turns[L] : TRUE)
  BY Zenon DEF Drain, Folded
<1>2. ASSUME NEW n \in 1..L, NEW X \in P PROVE turn(n, X) \in P
  <2>1. PICK y \in R : X = {y}
    BY DEF Singles
  <2>2. turn(n, X) = {DrainStep(y)}
    BY <2>1
  <2>3. QED
    BY <2>2 DEF Singles
<1>3. {x} \in P /\ L \in Nat
  BY DEF Singles
<1> DEFINE H == [p \in (1..L) \X P |-> turn(p[1], p[2])]
<1> HIDE DEF turns, turn, x, L, P
<1>4. Turning(H, L, P)
  BY <1>2 DEF Turning
<1>5. PICK t : IsRun(t, {x}, L, H) /\ Within(t, L, P)
  <2> HIDE DEF H
  <2>1. QED
    BY <1>3, <1>4, Loops
<1>6. ASSUME NEW n \in 0..L, n # 0 PROVE n \in 1..L /\ n - 1 \in 0..L
  BY <1>3, <1>6
<1>7. \A n \in 0..L : n # 0 => H[<<n, t[n - 1]>>] = turn(n, t[n - 1])
  BY <1>5, <1>6 DEF Within
<1>8. IsTurns(t)
  <2> HIDE DEF H
  <2>1. QED
    BY <1>5, <1>7 DEF IsRun
<1>9. IsTurns(turns)
  BY <1>8 DEF turns
<1>10. turns[0] \in P
  BY <1>3, <1>9
<1>11. \A n \in 1..L : turns[n - 1] \in P => turns[n] \in P
  <2>1. \A n \in 1..L : n \in 0..L /\ n # 0
    BY <1>3
  <2>2. QED
    BY <1>2, <1>9, <2>1
<1>12. (CHOOSE y \in turns[L] : TRUE) \in R
  BY <1>3, <1>10, <1>11, LastTurn DEF P
<1>13. QED
  BY <1>1, <1>12

(* The loop over the pieces of a packet.                                    *)
LEMMA StreamTurns ==
    ASSUME NEW r, NEW seq, NEW R, r \in R, Len(seq) \in Nat,
           \A n \in 1..Len(seq) : \A y \in R :
              OnStream(y, seq[n]) \in R
    PROVE  \E t : /\ t[0] = {r} /\ Folded(OnStream, r, seq) = (CHOOSE y \in t[Len(seq)] : TRUE)
                  /\ \A n \in 1..Len(seq) :
                       t[n - 1] \in Singles(R) /\ t[n] = {OnStream(y, seq[n]) : y \in t[n - 1]}
                  /\ t[Len(seq)] \in Singles(R)
<1> DEFINE x == r
           q == seq
           L == Len(q)
           P == Singles(R)
           turn(n, X) == {OnStream(y, q[n]) : y \in X}
           IsTurns(t) == t = [n \in 0..L |-> IF n = 0 THEN {x} ELSE turn(n, t[n - 1])]
           turns == CHOOSE t : IsTurns(t)
<1>1. Folded(OnStream, r, seq) = (CHOOSE y \in turns[L] : TRUE)
  BY Zenon DEF Folded
<1>2. ASSUME NEW n \in 1..L, NEW X \in P PROVE turn(n, X) \in P
  <2>1. PICK y \in R : X = {y}
    BY DEF Singles
  <2>2. turn(n, X) = {OnStream(y, q[n])}
    BY <2>1
  <2>3. QED
    BY <2>2 DEF Singles
<1>3. {x} \in P /\ L \in Nat
  BY DEF Singles
<1> DEFINE H == [p \in (1..L) \X P |-> turn(p[1], p[2])]
<1> HIDE DEF turns, turn, x, L, P
<1>4. Turning(H, L, P)
  BY <1>2 DEF Turning
<1>5. PICK t : IsRun(t, {x}, L, H) /\ Within(t, L, P)
  <2> HIDE DEF H
  <2>1. QED
    BY <1>3, <1>4, Loops
<1>6. ASSUME NEW n \in 0..L, n # 0 PROVE n \in 1..L /\ n - 1 \in 0..L
  BY <1>3, <1>6
<1>7. \A n \in 0..L : n # 0 => H[<<n, t[n - 1]>>] = turn(n, t[n - 1])
  BY <1>5, <1>6 DEF Within
<1>8. IsTurns(t)
  <2> HIDE DEF H
  <2>1. QED
    BY <1>5, <1>7 DEF IsRun
<1>9. IsTurns(turns)
  BY <1>8 DEF turns
<1>10. turns[0] \in P
  BY <1>3, <1>9
<1>11. \A n \in 1..L : turns[n - 1] \in P => turns[n] \in P
  <2>1. \A n \in 1..L : n \in 0..L /\ n # 0
    BY <1>3
  <2>2. QED
    BY <1>2, <1>9, <2>1
<1>12. turns[0] = {x} /\ \A n \in 1..L : turns[n] = turn(n, turns[n - 1])
  <2>1. 0 \in 0..L /\ \A n \in 1..L : n \in 0..L /\ n # 0
    BY <1>3
  <2>2. QED
    BY <1>9, <2>1
<1>13. \A n \in 0..L : turns[n] \in P
  <2> DEFINE A == {n \in Nat : n <= L => turns[n] \in P}
  <2>1. 0 \in A
    BY <1>10
  <2>2. ASSUME NEW n \in Nat, n \in A PROVE n + 1 \in A
    <3>1. SUFFICES ASSUME n + 1 <= L PROVE turns[n + 1] \in P
      OBVIOUS
    <3>2. n + 1 \in 1..L /\ (n + 1) - 1 = n /\ turns[n] \in P
      BY <1>3, <2>2, <3>1
    <3>3. QED
      BY <1>11, <3>2
  <2>3. Nat \subseteq A
    <3> HIDE DEF A
    <3>1. QED
      BY <2>1, <2>2, Counting
  <2>4. QED
    BY <2>3
<1>14. \A n \in 1..L : n - 1 \in 0..L
  BY <1>3
<1>15. /\ turns[0] = {r} /\ Folded(OnStream, r, seq) = (CHOOSE y \in turns[Len(seq)] : TRUE)
       /\ turns[Len(seq)] \in Singles(R)
  <2>1. L \in 0..L
    BY <1>3
  <2>2. QED
    BY <1>1, <1>12, <1>13, <2>1 DEF x, L, P
<1>16. ASSUME NEW n \in 1..Len(seq)
       PROVE  turns[n - 1] \in Singles(R) /\ turns[n] = {OnStream(y, seq[n]) : y \in turns[n - 1]}
  <2>1. n \in 1..L
    BY DEF L
  <2>2. turns[n] = turn(n, turns[n - 1])
    BY <1>12, <2>1
  <2>3. QED
    BY <1>13, <1>14, <2>1, <2>2 DEF turn, P
<1>17. QED
  BY <1>15, <1>16

LEMMA StreamLoop ==
    ASSUME NEW r, NEW seq, NEW R, r \in R, Len(seq) \in Nat,
           \A n \in 1..Len(seq) : \A y \in R : OnStream(y, seq[n]) \in R
    PROVE  Folded(OnStream, r, seq) \in R
<1>1. PICK t : /\ Folded(OnStream, r, seq) = (CHOOSE y \in t[Len(seq)] : TRUE)
               /\ t[Len(seq)] \in Singles(R)
  BY StreamTurns
<1>2. QED
  BY <1>1 DEF Singles

(* The loop over n pieces is a turn more than the loop over n - 1.          *)
TurnOf(r, a, b, piece, R) ==
    Folded(OnStream, r, a) \in R /\ Folded(OnStream, r, b) = OnStream(Folded(OnStream, r, a), piece)

LEMMA StreamPrefix ==
    ASSUME NEW S, NEW seq \in Seq(S), NEW R, NEW r \in R,
           \A p \in S : \A y \in R : OnStream(y, p) \in R, NEW n \in 1..Len(seq)
    PROVE  TurnOf(r, SubSeq(seq, 1, n - 1), SubSeq(seq, 1, n), seq[n], R)
<1> DEFINE a == SubSeq(seq, 1, n - 1)
           b == SubSeq(seq, 1, n)
<1>1. n \in Nat /\ n - 1 \in Nat /\ n <= Len(seq) /\ n - 1 <= Len(seq) /\ Len(seq) \in Nat
  BY LenProperties
<1>2. /\ a \in Seq(S) /\ Len(a) = n - 1 /\ \A i \in 1..(n - 1) : a[i] = seq[i] /\ a[i] \in S
      /\ b \in Seq(S) /\ Len(b) = n /\ \A i \in 1..n : b[i] = seq[i] /\ b[i] \in S
  <2>1. ASSUME NEW m \in Nat, m <= Len(seq)
        PROVE  /\ SubSeq(seq, 1, m) \in Seq(S) /\ Len(SubSeq(seq, 1, m)) = m
               /\ \A i \in 1..m : SubSeq(seq, 1, m)[i] = seq[i] /\ SubSeq(seq, 1, m)[i] \in S
    <3>1. \A i \in 1..m : seq[i] \in S
      BY <1>1, <2>1, ElementOfSeq
    <3>2. /\ SubSeq(seq, 1, m) \in Seq(S)
          /\ Len(SubSeq(seq, 1, m)) = IF 1 <= m THEN m - 1 + 1 ELSE 0
          /\ \A i \in 1..(m - 1 + 1) : SubSeq(seq, 1, m)[i] = seq[1 + i - 1]
      BY <3>1, SubSeqProperties
    <3>3. QED
      BY <3>1, <3>2
  <2>2. QED
    BY <1>1, <2>1
<1> HIDE DEF a, b
<1>3. PICK t : /\ t[0] = {r} /\ Folded(OnStream, r, b) = (CHOOSE y \in t[n] : TRUE)
               /\ \A i \in 1..n :
                    t[i - 1] \in Singles(R) /\ t[i] = {OnStream(y, b[i]) : y \in t[i - 1]}
  <2>1. \A i \in 1..Len(b) : \A y \in R : OnStream(y, b[i]) \in R
    BY <1>2
  <2>2. Len(b) \in Nat /\ r \in R /\ Len(b) = n
    BY <1>1, <1>2
  <2>3. PICK t : /\ t[0] = {r} /\ Folded(OnStream, r, b) = (CHOOSE y \in t[Len(b)] : TRUE)
                 /\ \A i \in 1..Len(b) :
                      t[i - 1] \in Singles(R) /\ t[i] = {OnStream(y, b[i]) : y \in t[i - 1]}
                 /\ t[Len(b)] \in Singles(R)
    BY <2>1, <2>2, StreamTurns
  <2>4. Folded(OnStream, r, b) = (CHOOSE y \in t[n] : TRUE)
    BY <2>2, <2>3, Zenon
  <2>5. \A i \in 1..n : t[i - 1] \in Singles(R) /\ t[i] = {OnStream(y, b[i]) : y \in t[i - 1]}
    BY <2>2, <2>3, Zenon
  <2>6. QED
    BY <2>3, <2>4, <2>5, Zenon
<1>4. PICK u : /\ u[0] = {r} /\ Folded(OnStream, r, a) = (CHOOSE y \in u[n - 1] : TRUE)
               /\ \A i \in 1..(n - 1) :
                    u[i - 1] \in Singles(R) /\ u[i] = {OnStream(y, a[i]) : y \in u[i - 1]}
               /\ u[n - 1] \in Singles(R)
  <2>1. \A i \in 1..Len(a) : \A y \in R : OnStream(y, a[i]) \in R
    BY <1>2
  <2>2. Len(a) \in Nat /\ r \in R /\ Len(a) = n - 1
    BY <1>1, <1>2
  <2>3. PICK u : /\ u[0] = {r} /\ Folded(OnStream, r, a) = (CHOOSE y \in u[Len(a)] : TRUE)
                 /\ \A i \in 1..Len(a) :
                      u[i - 1] \in Singles(R) /\ u[i] = {OnStream(y, a[i]) : y \in u[i - 1]}
                 /\ u[Len(a)] \in Singles(R)
    BY <2>1, <2>2, StreamTurns
  <2>4. QED
    BY <2>2, <2>3, Zenon
<1>5. t[n - 1] = u[n - 1]
  <2> DEFINE A == {i \in Nat : i <= n - 1 => t[i] = u[i]}
  <2>1. 0 \in A
    BY <1>3, <1>4
  <2>2. ASSUME NEW i \in Nat, i \in A PROVE i + 1 \in A
    <3>1. SUFFICES ASSUME i + 1 <= n - 1 PROVE t[i + 1] = u[i + 1]
      OBVIOUS
    <3>2. i + 1 \in 1..(n - 1) /\ i + 1 \in 1..n /\ (i + 1) - 1 = i /\ t[i] = u[i]
      BY <1>1, <2>2, <3>1
    <3>3. a[i + 1] = b[i + 1]
      BY <1>2, <3>2
    <3>4. t[i + 1] = {OnStream(y, b[i + 1]) : y \in t[i]}
      BY <1>3, <3>2
    <3>5. u[i + 1] = {OnStream(y, a[i + 1]) : y \in u[i]}
      BY <1>4, <3>2
    <3>6. QED
      BY <3>2, <3>3, <3>4, <3>5
  <2>3. Nat \subseteq A
    <3> HIDE DEF A
    <3>1. QED
      BY <2>1, <2>2, Counting
  <2>4. QED
    BY <1>1, <2>3
<1>6. PICK z \in R : u[n - 1] = {z}
  BY <1>4 DEF Singles
<1>7. Folded(OnStream, r, a) = z
  BY <1>4, <1>6
<1>8. t[n] = {OnStream(z, seq[n])}
  <2>1. n \in 1..n /\ b[n] = seq[n]
    BY <1>1, <1>2
  <2>2. t[n] = {OnStream(y, b[n]) : y \in t[n - 1]}
    BY <1>3, <2>1
  <2>3. QED
    BY <1>5, <1>6, <2>1, <2>2
<1>9. QED
  <2>1. Folded(OnStream, r, b) = OnStream(z, seq[n])
    BY <1>3, <1>8
  <2>2. TurnOf(r, a, b, seq[n], R)
    BY <1>7, <2>1 DEF TurnOf
  <2>3. QED
    BY <2>2 DEF a, b

------------------------------------------------------------------------------
(* Lists of ranges.                                                         *)

LEMMA UnconfirmedFit ==
    ASSUME NEW S, NEW q \in Seq(S), NEW cum
    PROVE  Unconfirmed(q, cum) \in Seq({r \in S : r[1] + r[2] > cum})
<1> DEFINE R == Seq({r \in S : r[1] + r[2] > cum})
<1>1. <<>> \in R /\ Len(q) \in Nat
  BY LenProperties
<1>2. ASSUME NEW n \in 1..Len(q), NEW y \in R
      PROVE  (IF q[n][1] + q[n][2] > cum THEN Append(y, q[n]) ELSE y) \in R
  <2>1. q[n] \in S
    BY ElementOfSeq
  <2>2. CASE q[n][1] + q[n][2] > cum
    <3>1. q[n] \in {r \in S : r[1] + r[2] > cum}
      BY <2>1, <2>2
    <3>2. Append(y, q[n]) \in R
      BY <3>1, AppendProperties
    <3>3. QED
      BY <2>2, <3>2
  <2>3. QED
    BY <2>2
<1> HIDE DEF R
<1>3. Unconfirmed(q, cum) \in R
  BY <1>1, <1>2, UnconfirmedLoop
<1>4. QED
  BY <1>3 DEF R

LEMMA RangesOfFit ==
    ASSUME NEW S, NEW s, s.pn \in Nat, NEW lost, \A pn \in lost : s.sent[pn] \in Seq(S)
    PROVE  RangesOf(s, lost) \in Seq(S)
<1> DEFINE R == Seq(S)
           q == Times(s.pn)
<1>1. Len(q) \in Nat /\ Len(q) = s.pn /\ \A n \in 1..Len(q) : q[n] = n
  BY DEF Times
<1>2. <<>> \in R
  OBVIOUS
<1>3. ASSUME NEW n \in 1..Len(q), NEW y \in R
      PROVE  (IF q[n] - 1 \in lost THEN y \o s.sent[q[n] - 1] ELSE y) \in R
  <2>1. CASE q[n] - 1 \in lost
    <3>1. s.sent[q[n] - 1] \in R
      BY <2>1
    <3>2. QED
      BY <2>1, <3>1, ConcatProperties
  <2>2. QED
    BY <2>1
<1> HIDE DEF R
<1>4. RangesOf(s, lost) \in R
  BY <1>1, <1>2, <1>3, RangesLoop
<1>5. QED
  BY <1>4 DEF R

LEMMA PlacedFit ==
    ASSUME NEW S, NEW q \in Seq(S), NEW r \in S
    PROVE  Placed(q, r) \in Seq(S)
<1> DEFINE P == {i \in DOMAIN q : q[i][1] < r[1] \/ (q[i][1] = r[1] /\ q[i][2] <= r[2])}
           k == Cardinality(P)
<1>1. Len(q) \in Nat /\ DOMAIN q = 1..Len(q) /\ \A i \in 1..Len(q) : q[i] \in S
  BY LenProperties, ElementOfSeq
<1>2. k \in Nat /\ k <= Len(q)
  <2>1. P \in SUBSET (1..Len(q))
    BY <1>1
  <2> HIDE DEF P
  <2>2. QED
    BY <1>1, <2>1, Ranks
<1>3. Placed(q, r) = SubSeq(q, 1, (1 + k) - 1) \o <<r>> \o SubSeq(q, 1 + k, Len(q))
  BY Zenon DEF Placed, InsertAt
<1> HIDE DEF k
<1>4. SubSeq(q, 1, (1 + k) - 1) \in Seq(S) /\ SubSeq(q, 1 + k, Len(q)) \in Seq(S)
  <2>1. (1 + k) - 1 = k /\ 1 + k \in Int /\ k \in Int /\ Len(q) \in Int
    BY <1>1, <1>2
  <2>2. \A i \in 1..k : q[i] \in S
    BY <1>1, <1>2
  <2>3. \A i \in (1 + k)..Len(q) : q[i] \in S
    BY <1>1, <1>2
  <2>4. QED
    BY <2>1, <2>2, <2>3, SubSeqProperties
<1>5. <<r>> \in Seq(S)
  OBVIOUS
<1>6. QED
  BY <1>3, <1>4, <1>5, ConcatProperties

LEMMA SortedFit ==
    ASSUME NEW S, NEW q \in Seq(S)
    PROVE  Folded(Placed, <<>>, q) \in Seq(S)
<1> DEFINE R == Seq(S)
<1>1. <<>> \in R /\ Len(q) \in Nat
  BY LenProperties
<1>2. \A n \in 1..Len(q) : \A y \in R : Placed(y, q[n]) \in R
  BY ElementOfSeq, PlacedFit
<1> HIDE DEF R
<1>3. Folded(Placed, <<>>, q) \in R
  BY <1>1, <1>2, PlacedLoop
<1>4. QED
  BY <1>3 DEF R

------------------------------------------------------------------------------
(* Parts of the stream.                                                     *)

LEMMA PartFacts ==
    ASSUME NEW st \in Seq(Byte), NEW a \in Nat, NEW b \in Nat, a <= b, b <= Len(st)
    PROVE  /\ SubSeq(st, a + 1, b) \in Seq(Byte) /\ Len(SubSeq(st, a + 1, b)) = b - a
           /\ \A i \in 1..(b - a) : SubSeq(st, a + 1, b)[i] = st[a + i]
<1>1. /\ Len(st) \in Nat /\ a + 1 \in Int /\ b \in Int /\ (a + 1 <= b <=> a < b)
      /\ b - (a + 1) + 1 = b - a /\ (~(a < b) => b - a = 0)
  BY LenProperties
<1>2. \A i \in (a + 1)..b : st[i] \in Byte
  <2>1. \A i \in (a + 1)..b : i \in 1..Len(st)
    BY <1>1
  <2>2. QED
    BY <2>1, ElementOfSeq
<1>3. /\ SubSeq(st, a + 1, b) \in Seq(Byte)
      /\ Len(SubSeq(st, a + 1, b)) = IF a + 1 <= b THEN b - (a + 1) + 1 ELSE 0
      /\ \A i \in 1..(b - (a + 1) + 1) : SubSeq(st, a + 1, b)[i] = st[(a + 1) + i - 1]
  BY <1>1, <1>2, SubSeqProperties
<1>4. \A i \in 1..(b - a) : (a + 1) + i - 1 = a + i
  OBVIOUS
<1>5. QED
  BY <1>1, <1>3, <1>4

(* The stream up to a and the part from a to b are the stream up to b.      *)
LEMMA Joined ==
    ASSUME NEW st \in Seq(Byte), NEW a \in Nat, NEW b \in Nat, a <= b, b <= Len(st)
    PROVE  SubSeq(st, 1, a) \o SubSeq(st, a + 1, b) = SubSeq(st, 1, b)
<1>1. Len(st) \in Nat
  BY LenProperties
<1>2. 1 \in 1..(Len(st) + 1) /\ a \in (1 - 1)..Len(st) /\ b \in a..Len(st)
  BY <1>1
<1>3. QED
  BY <1>2, ConcatAdjacentSubSeq

LEMMA Associated ==
    ASSUME NEW x \in Seq(Byte), NEW y \in Seq(Byte), NEW z \in Seq(Byte)
    PROVE  (x \o y) \o z = x \o (y \o z)
BY ConcatAssociative

(* What is left of a part from c on.                                        *)
LEMMA RestOfPart ==
    ASSUME NEW st \in Seq(Byte), NEW a \in Nat, NEW b \in Nat, NEW c \in Nat,
           a <= c, c <= b, b <= Len(st)
    PROVE  SubSeq(SubSeq(st, a + 1, b), c - a + 1, b - a) = SubSeq(st, c + 1, b)
<1> DEFINE p == SubSeq(st, a + 1, b)
           x == SubSeq(p, c - a + 1, b - a)
           y == SubSeq(st, c + 1, b)
<1>1. p \in Seq(Byte) /\ Len(p) = b - a /\ \A i \in 1..(b - a) : p[i] = st[a + i]
  BY PartFacts
<1>2. y \in Seq(Byte) /\ Len(y) = b - c /\ \A i \in 1..(b - c) : y[i] = st[c + i]
  BY PartFacts
<1> HIDE DEF p, y
<1>3. /\ c - a \in Nat /\ b - a \in Nat /\ c - a <= b - a /\ b - a <= Len(p)
      /\ (c - a) + 1 = c - a + 1 /\ (b - a) - (c - a) = b - c
  BY <1>1
<1>4. x \in Seq(Byte) /\ Len(x) = b - c /\ \A i \in 1..(b - c) : x[i] = p[(c - a) + i]
  <2> DEFINE d == c - a
             e == b - a
  <2>1. d \in Nat /\ e \in Nat /\ d <= e /\ e <= Len(p) /\ e - d = b - c
    BY <1>3
  <2> HIDE DEF d, e
  <2>2. /\ SubSeq(p, d + 1, e) \in Seq(Byte) /\ Len(SubSeq(p, d + 1, e)) = e - d
        /\ \A i \in 1..(e - d) : SubSeq(p, d + 1, e)[i] = p[d + i]
    BY <1>1, <2>1, PartFacts
  <2>3. QED
    BY <2>1, <2>2 DEF d, e
<1> HIDE DEF x
<1>5. ASSUME NEW i \in 1..Len(x) PROVE x[i] = y[i]
  <2>1. i \in 1..(b - c) /\ (c - a) + i \in 1..(b - a) /\ a + ((c - a) + i) = c + i
    BY <1>3, <1>4
  <2>2. QED
    BY <1>1, <1>2, <1>4, <2>1
<1>6. x = y
  BY <1>2, <1>4, <1>5, SeqEqual
<1>7. QED
  BY <1>6 DEF x, y, p

(* A stream that has grown has the same parts.                              *)
Extends(st, old) == st \in Seq(Byte) /\ Len(old) <= Len(st) /\ SubSeq(st, 1, Len(old)) = old

LEMMA SamePart ==
    ASSUME NEW old \in Seq(Byte), NEW st, Extends(st, old),
           NEW a \in Nat, NEW b \in Nat, a <= b, b <= Len(old)
    PROVE  SubSeq(st, a + 1, b) = SubSeq(old, a + 1, b)
<1>1. st \in Seq(Byte) /\ Len(old) \in Nat /\ Len(st) \in Nat /\ b <= Len(st)
  BY LenProperties DEF Extends
<1>2. \A i \in 1..Len(old) : st[i] = old[i]
  <2>1. 0 + 1 = 1 /\ Len(old) - 0 = Len(old)
    BY <1>1
  <2>2. \A i \in 1..(Len(old) - 0) : SubSeq(st, 0 + 1, Len(old))[i] = st[0 + i]
    BY <1>1, PartFacts DEF Extends
  <2>3. \A i \in 1..Len(old) : 0 + i = i
    OBVIOUS
  <2>4. QED
    BY <2>1, <2>2, <2>3 DEF Extends
<1> DEFINE x == SubSeq(st, a + 1, b)
           y == SubSeq(old, a + 1, b)
<1>3. x \in Seq(Byte) /\ Len(x) = b - a /\ \A i \in 1..(b - a) : x[i] = st[a + i]
  BY <1>1, PartFacts
<1>4. y \in Seq(Byte) /\ Len(y) = b - a /\ \A i \in 1..(b - a) : y[i] = old[a + i]
  BY PartFacts
<1> HIDE DEF x, y
<1>5. ASSUME NEW i \in 1..Len(x) PROVE x[i] = y[i]
  <2>1. i \in 1..(b - a) /\ a + i \in 1..Len(old)
    BY <1>1, <1>3
  <2>2. QED
    BY <1>2, <1>3, <1>4, <2>1
<1>6. x = y
  BY <1>3, <1>4, <1>5, SeqEqual
<1>7. QED
  BY <1>6 DEF x, y

LEMMA PartsGrow ==
    ASSUME NEW old \in Seq(Byte), NEW st, Extends(st, old),
           NEW n \in Nat, NEW m \in Nat, n <= m, n <= Len(old)
    PROVE  PartsTo(old, n) \subseteq PartsTo(st, m)
<1>1. SUFFICES ASSUME NEW p \in PartsTo(old, n) PROVE p \in PartsTo(st, m)
  OBVIOUS
<1>2. /\ p \in [at : Nat, bytes : Seq(Byte)] /\ Len(p.bytes) > 0 /\ p.at + Len(p.bytes) <= n
      /\ p.bytes = SubSeq(old, p.at + 1, p.at + Len(p.bytes))
  BY DEF PartsTo
<1>3. p.at \in Nat /\ Len(p.bytes) \in Nat /\ Len(old) \in Nat
  BY <1>2, LenProperties
<1> DEFINE a == p.at
           b == p.at + Len(p.bytes)
<1>4. a \in Nat /\ b \in Nat /\ a <= b /\ b <= Len(old) /\ b <= m
  BY <1>2, <1>3
<1> HIDE DEF a, b
<1>5. SubSeq(st, a + 1, b) = SubSeq(old, a + 1, b)
  BY <1>4, SamePart
<1>6. QED
  BY <1>2, <1>4, <1>5 DEF PartsTo, a, b

------------------------------------------------------------------------------
(* Filling a packet.                                                        *)

(* Ranges up to n are ranges up to a larger number.                         *)
LEMMA RangesGrow ==
    ASSUME NEW n \in Nat, NEW m \in Nat, n <= m
    PROVE  RangesTo(n) \subseteq RangesTo(m) /\ Seq(RangesTo(n)) \subseteq Seq(RangesTo(m))
<1>1. RangesTo(n) \subseteq RangesTo(m)
  BY DEF RangesTo
<1>2. QED
  BY <1>1, SeqMonotonic

(* A range is given out in two parts.                                       *)
LEMMA SplitRange ==
    ASSUME NEW n \in Nat, NEW a \in Nat, NEW b \in Nat, NEW t \in Nat,
           t > 0, t <= b, a + b <= n
    PROVE  <<a, t>> \in RangesTo(n) /\ (t # b => <<a + t, b - t>> \in RangesTo(n))
<1>1. a + t <= n /\ a + t \in Nat /\ b - t \in Nat /\ (a + t) + (b - t) = a + b /\ (t # b => b - t > 0)
  OBVIOUS
<1>2. QED
  BY <1>1 DEF RangesTo

(* The types of what a knows.                                               *)
LEMMA SndTypes ==
    ASSUME NEW s, NEW st, SndFits(s, st)
    PROVE  /\ s.urgent \in Seq(Frames) /\ s.bulk \in Seq(Frames) /\ s.writable \in BOOLEAN
           /\ s.next \in Nat /\ s.cum \in Nat /\ s.limit \in Nat /\ s.pn \in Nat
           /\ s.skipped \in SUBSET Nat /\ s.sent \in Maps(Seq(Nat \X Nat))
           /\ s.retx \in Seq(Nat \X Nat)
BY DEF SndFits, SndStates

(* Other ranges to send again.                                              *)
LEMMA OtherRetx ==
    ASSUME NEW s, NEW st, SndFits(s, st), NEW q \in Seq(RangesTo(s.next))
    PROVE  /\ SndFits([s EXCEPT !.retx = q], st)
           /\ [s EXCEPT !.retx = q] \in SndStates(s)
           /\ [s EXCEPT !.retx = q].retx = q
           /\ \A f \in DOMAIN s : f # "retx" => [s EXCEPT !.retx = q][f] = s[f]
<1> DEFINE t == [s EXCEPT !.retx = q]
<1>1. s \in SndStates(s)
  BY DEF SndFits
<1>2. q \in Seq(Nat \X Nat)
  <2>1. RangesTo(s.next) \subseteq Nat \X Nat
    BY DEF RangesTo
  <2>2. QED
    BY <2>1, SeqMonotonic
<1>3. t \in SndStates(s)
  BY <1>1, <1>2 DEF SndStates
<1>4. /\ t.retx = q /\ t.next = s.next /\ t.cum = s.cum /\ t.limit = s.limit /\ t.sent = s.sent
      /\ t.pn = s.pn /\ t.skipped = s.skipped /\ t.waiting = s.waiting
      /\ t.unwritten = s.unwritten /\ t.largest = s.largest /\ t.probe = s.probe
      /\ t.probed = s.probed /\ t.big = s.big
  BY <1>1 DEF SndStates
<1>5. SndStates(t) = SndStates(s)
  BY <1>4 DEF SndStates
<1>6. SndFits(t, st)
  BY <1>3, <1>4, <1>5 DEF SndFits
<1>7. \A f \in DOMAIN s : f # "retx" => t[f] = s[f]
  BY <1>1 DEF SndStates
<1>8. QED
  BY <1>3, <1>4, <1>6, <1>7

(* A packet being filled, of what a knew (s0) and the stream there was.     *)
FillStates(s0) ==
    {p \in [s : SndStates(s0), st : Seq(Byte), room : Nat, pieces : Seq(Nat \X Nat)] :
        /\ SndFits(p.s, p.st) /\ Extends(p.st, stream) /\ Promise!Grows(stream, p.st)
        /\ p.pieces \in Seq(RangesTo(p.s.next))
        /\ s0.next <= p.s.next /\ p.s.cum = s0.cum /\ p.s.limit = s0.limit
        /\ p.s.pn = s0.pn /\ p.s.skipped = s0.skipped}

LEMMA AgainFits ==
    ASSUME NEW s0, NEW p \in FillStates(s0), p.room > 0, p.s.retx # <<>>,
           p.s.retx[1][1] + p.s.retx[1][2] > p.s.cum
    PROVE  Again(p) \in FillStates(s0)
<1> DEFINE s == p.s
           N == s.next
           first == s.retx[1]
           range == Trim(first, s.cum)
           take == Min({range[2], p.room})
           left == IF take = range[2] THEN Tail(s.retx)
                   ELSE <<<<range[1] + take, range[2] - take>>>> \o Tail(s.retx)
           piece == <<range[1], take>>
           t == [s EXCEPT !.retx = left]
           res == [p EXCEPT !.s = t, !.room = @ - take, !.pieces = Append(@, piece)]
<1>1. /\ p \in [s : SndStates(s0), st : Seq(Byte), room : Nat, pieces : Seq(Nat \X Nat)]
      /\ SndFits(s, p.st) /\ p.pieces \in Seq(RangesTo(N))
  BY DEF FillStates
<1>2. N \in Nat /\ s.cum \in Nat /\ p.room \in Nat /\ s.retx \in Seq(RangesTo(N))
  BY <1>1, SndTypes DEF SndFits
<1>3. first \in RangesTo(N) /\ Tail(s.retx) \in Seq(RangesTo(N))
  <2>1. Len(s.retx) \in Nat \ {0}
    BY <1>2, EmptySeq
  <2>2. 1 \in 1..Len(s.retx)
    BY <2>1
  <2>3. QED
    BY <1>2, <2>2, ElementOfSeq, HeadTailProperties
<1>4. range \in RangesTo(N)
  <2>1. first[1] \in Nat /\ first[2] \in Nat /\ first[2] > 0 /\ first[1] + first[2] <= N
    BY <1>3 DEF RangesTo
  <2> HIDE DEF first
  <2>2. CASE first[1] >= s.cum
    BY <1>3, <2>2 DEF Trim
  <2>3. CASE ~(first[1] >= s.cum)
    <3>1. range = <<s.cum, first[1] + first[2] - s.cum>>
      BY <2>3 DEF Trim
    <3>2. first[1] + first[2] > s.cum
      BY DEF first
    <3>3. /\ first[1] + first[2] - s.cum \in Nat /\ first[1] + first[2] - s.cum > 0
          /\ s.cum + (first[1] + first[2] - s.cum) <= N
      BY <1>2, <2>1, <3>2
    <3>4. QED
      BY <1>2, <3>1, <3>3 DEF RangesTo
  <2>4. QED
    BY <2>2, <2>3
<1> HIDE DEF range
<1>5. N \in Nat /\ range[1] \in Nat /\ range[2] \in Nat /\ range[2] > 0 /\ range[1] + range[2] <= N
  BY <1>2, <1>4 DEF RangesTo
<1>6. take \in Nat /\ take > 0 /\ take <= range[2] /\ take <= p.room
  <2>1. {range[2], p.room} \in SUBSET Nat /\ {range[2], p.room} # {}
    BY <1>2, <1>5
  <2>2. take \in {range[2], p.room} /\ \A y \in {range[2], p.room} : take <= y
    BY <2>1, MinOf
  <2>3. QED
    BY <1>2, <1>5, <2>2
<1> HIDE DEF take
<1>7. piece \in RangesTo(N)
  BY <1>5, <1>6, SplitRange
<1>8. left \in Seq(RangesTo(N))
  <2>1. CASE take = range[2]
    BY <1>3, <2>1
  <2>2. CASE take # range[2]
    <3>1. <<range[1] + take, range[2] - take>> \in RangesTo(N)
      BY <1>5, <1>6, <2>2, SplitRange
    <3>2. <<<<range[1] + take, range[2] - take>>>> \in Seq(RangesTo(N))
      BY <3>1
    <3>3. QED
      BY <1>3, <2>2, <3>2, ConcatProperties
  <2>3. QED
    BY <2>1, <2>2
<1> HIDE DEF left
<1>9. /\ SndFits(t, p.st) /\ t \in SndStates(s) /\ t.retx = left
      /\ \A f \in DOMAIN s : f # "retx" => t[f] = s[f]
  BY <1>1, <1>8, OtherRetx
<1>10. t \in SndStates(s0) /\ t.next = N /\ t.cum = s.cum /\ t.limit = s.limit
       /\ t.pn = s.pn /\ t.skipped = s.skipped
  <2>1. s \in SndStates(s0)
    BY <1>1
  <2>2. SndStates(s) = SndStates(s0)
    BY <2>1 DEF SndStates
  <2> HIDE DEF t
  <2>3. QED
    BY <1>9, <2>1, <2>2 DEF SndStates
<1> HIDE DEF t
<1>11. Append(p.pieces, piece) \in Seq(RangesTo(N)) /\ Append(p.pieces, piece) \in Seq(Nat \X Nat)
  <2>1. Append(p.pieces, piece) \in Seq(RangesTo(N))
    BY <1>1, <1>7, AppendProperties
  <2>2. RangesTo(N) \subseteq Nat \X Nat
    BY DEF RangesTo
  <2>3. QED
    BY <2>1, <2>2, SeqMonotonic
<1>12. res \in FillStates(s0)
  <2> HIDE DEF piece
  <2>1. p.room - take \in Nat
    BY <1>2, <1>6
  <2>2. res \in [s : SndStates(s0), st : Seq(Byte), room : Nat, pieces : Seq(Nat \X Nat)]
    BY <1>1, <1>10, <1>11, <2>1
  <2>3. res.s = t /\ res.st = p.st /\ res.pieces = Append(p.pieces, piece)
    BY <1>1
  <2> HIDE DEF res
  <2>4. QED
    BY <1>1, <1>9, <1>10, <1>11, <2>2, <2>3 DEF FillStates
<1>13. Again(p) = res
  BY <1>1 DEF Again, res, t, left, take, range, piece, s, first
<1>14. QED
  BY <1>12, <1>13

(* A stream grows by nothing, or by a frame more than before.               *)
LEMMA GrowsByNothing ==
    ASSUME NEW st \in Seq(Byte)
    PROVE  Promise!Grows(st, st) /\ Extends(st, st)
<1>1. Len(st) \in Nat /\ SubSeq(st, 1, Len(st)) = st
  BY LenProperties, SubSeqFull
<1> DEFINE ends == {Len(st)}
<1>2. ends \in SUBSET (Len(st)..Len(st)) /\ Len(st) \in ends /\ ends \ {Len(st)} = {}
  BY <1>1
<1> HIDE DEF ends
<1>3. Promise!Grows(st, st)
  BY <1>1, <1>2 DEF Promise!Grows
<1>4. QED
  BY <1>1, <1>3 DEF Extends

LEMMA FrameFacts ==
    ASSUME NEW f \in Frames
    PROVE  Bytes(f) \in Seq(Byte) /\ Len(Bytes(f)) = Size(f) /\ Size(f) \in Nat \ {0}
<1>1. Size(f) \in Nat \ {0}
  BY UdpAssumption
<1>2. Bytes(f) \in [1..Size(f) -> Byte]
  BY <1>1 DEF Bytes, Byte
<1>3. QED
  BY <1>1, <1>2, SeqDef, LenProperties

LEMMA GrowsByFrame ==
    ASSUME NEW old \in Seq(Byte), NEW st, Extends(st, old), Promise!Grows(old, st),
           NEW f \in Frames
    PROVE  LET new == st \o Bytes(f)
           IN  Extends(new, old) /\ Promise!Grows(old, new) /\ Len(st) <= Len(new)
<1> DEFINE b == Bytes(f)
           new == st \o b
           L == Len(st)
           M == Len(new)
<1>1. b \in Seq(Byte) /\ Len(b) \in Nat \ {0} /\ st \in Seq(Byte) /\ L \in Nat
      /\ Len(old) \in Nat /\ Len(old) <= L
  BY FrameFacts, LenProperties DEF Extends
<1>2. /\ new \in Seq(Byte) /\ M = L + Len(b)
      /\ \A i \in 1..M : new[i] = IF i <= L THEN st[i] ELSE b[i - L]
  BY <1>1, ConcatProperties
<1> HIDE DEF new
<1>3. Extends(new, st)
  <2>1. SubSeq(new, 1, L) = st
    <3>1. /\ SubSeq(new, 0 + 1, L) \in Seq(Byte) /\ Len(SubSeq(new, 0 + 1, L)) = L - 0
          /\ \A i \in 1..(L - 0) : SubSeq(new, 0 + 1, L)[i] = new[0 + i]
      BY <1>1, <1>2, PartFacts
    <3>2. 0 + 1 = 1 /\ L - 0 = L /\ \A i \in 1..L : 0 + i = i /\ i <= L /\ i \in 1..M
      BY <1>1, <1>2
    <3>3. \A i \in 1..L : SubSeq(new, 1, L)[i] = st[i]
      BY <1>2, <3>1, <3>2
    <3>4. QED
      BY <1>1, <3>1, <3>2, <3>3, SeqEqual
  <2>2. QED
    BY <1>1, <1>2, <2>1 DEF Extends
<1>4. ASSUME NEW x \in Nat, NEW y \in Nat, x <= y, y <= L
      PROVE  SubSeq(new, x + 1, y) = SubSeq(st, x + 1, y)
  <2> HIDE DEF b
  <2>1. st \in Seq(Byte)
    BY <1>1
  <2>2. QED
    BY <1>3, <1>4, <2>1, SamePart
<1>5. Extends(new, old)
  <2>1. PICK z \in Nat : z = 0
    OBVIOUS
  <2>2. SubSeq(new, z + 1, Len(old)) = SubSeq(st, z + 1, Len(old))
    <3>1. z <= Len(old)
      BY <1>1, <2>1
    <3>2. QED
      BY <1>1, <1>4, <3>1
  <2>3. z + 1 = 1
    BY <2>1
  <2>4. SubSeq(new, 1, Len(old)) = old
    BY <2>2, <2>3 DEF Extends
  <2>5. QED
    BY <1>1, <1>2, <2>4 DEF Extends
<1>6. SubSeq(new, L + 1, M) = b
  <2>1. /\ SubSeq(new, L + 1, M) \in Seq(Byte) /\ Len(SubSeq(new, L + 1, M)) = M - L
        /\ \A i \in 1..(M - L) : SubSeq(new, L + 1, M)[i] = new[L + i]
    BY <1>1, <1>2, PartFacts
  <2>2. M - L = Len(b) /\ \A i \in 1..Len(b) : L + i \in 1..M /\ ~(L + i <= L) /\ (L + i) - L = i
    BY <1>1, <1>2
  <2>3. \A i \in 1..Len(b) : SubSeq(new, L + 1, M)[i] = b[i]
    BY <1>2, <2>1, <2>2
  <2>4. QED
    BY <1>1, <2>1, <2>2, <2>3, SeqEqual
<1>7. PICK ends \in SUBSET (Len(old)..L) :
         /\ Len(old) \in ends
         /\ \A e \in ends \ {L} :
               \E g \in {Bytes(h) : h \in Frames} : e + Len(g) \in ends /\ SubSeq(st, e + 1, e + Len(g)) = g
  BY DEF Promise!Grows
<1> DEFINE all == ends \cup {M}
<1>8. all \in SUBSET (Len(old)..M) /\ Len(old) \in all
  <2>1. L <= M /\ M \in Nat
    BY <1>1, <1>2
  <2>2. \A e \in all : e \in Len(old)..M
    BY <1>1, <1>7, <2>1
  <2>3. QED
    BY <1>7, <2>2
<1>9. ASSUME NEW e \in all \ {M}
      PROVE  \E g \in {Bytes(h) : h \in Frames} : e + Len(g) \in all /\ SubSeq(new, e + 1, e + Len(g)) = g
  <2>1. CASE e = L
    <3>1. e + Len(b) \in all /\ SubSeq(new, e + 1, e + Len(b)) = b
      BY <1>2, <1>6, <2>1
    <3>2. QED
      BY <3>1
  <2>2. CASE e # L
    <3>1. e \in ends \ {L}
      BY <2>2
    <3>2. PICK g \in {Bytes(h) : h \in Frames} : e + Len(g) \in ends /\ SubSeq(st, e + 1, e + Len(g)) = g
      BY <1>7, <3>1
    <3>3. Len(g) \in Nat
      BY <3>2, FrameFacts
    <3>4. e \in Nat /\ e + Len(g) \in Nat /\ e <= e + Len(g) /\ e + Len(g) <= L
      BY <1>1, <1>7, <3>1, <3>2, <3>3
    <3>5. SubSeq(new, e + 1, e + Len(g)) = g
      BY <1>4, <3>2, <3>4
    <3>6. QED
      BY <3>2, <3>5
  <2>3. QED
    BY <2>1, <2>2
<1>10. Promise!Grows(old, new)
  <2> HIDE DEF all
  <2>1. SubSeq(new, 1, Len(old)) = old
    BY <1>5 DEF Extends
  <2>2. QED
    BY <1>8, <1>9, <2>1 DEF Promise!Grows
<1>11. QED
  BY <1>1, <1>2, <1>5, <1>10 DEF new

(* A longer stream is as good to a.                                         *)
LEMMA LongerStream ==
    ASSUME NEW s, NEW st, SndFits(s, st), NEW new, Len(st) \in Nat, Len(new) \in Nat,
           Len(st) <= Len(new)
    PROVE  SndFits(s, new)
<1>1. s.next \in Nat /\ s.next <= Len(st)
  BY SndTypes DEF SndFits
<1>2. s.next <= Len(new)
  BY <1>1
<1>3. QED
  BY <1>2 DEF SndFits

Put(p, f, u, b) == [p EXCEPT !.st = @ \o Bytes(f), !.s = [p.s EXCEPT !.urgent = u, !.bulk = b]]

LEMMA PutFits ==
    ASSUME stream \in Seq(Byte), NEW s0, NEW p \in FillStates(s0),
           NEW f \in Frames, NEW u \in Seq(Frames), NEW b \in Seq(Frames)
    PROVE  Put(p, f, u, b) \in FillStates(s0) /\ Put(p, f, u, b).room = p.room
<1> DEFINE s == p.s
           t == [s EXCEPT !.urgent = u, !.bulk = b]
           new == p.st \o Bytes(f)
           res == Put(p, f, u, b)
<1>1. /\ p \in [s : SndStates(s0), st : Seq(Byte), room : Nat, pieces : Seq(Nat \X Nat)]
      /\ SndFits(s, p.st) /\ p.pieces \in Seq(RangesTo(s.next))
      /\ Extends(p.st, stream) /\ Promise!Grows(stream, p.st)
      /\ s0.next <= s.next /\ s.cum = s0.cum /\ s.limit = s0.limit
      /\ s.pn = s0.pn /\ s.skipped = s0.skipped
  BY DEF FillStates
<1>2. Extends(new, stream) /\ Promise!Grows(stream, new) /\ Len(p.st) <= Len(new)
  BY <1>1, GrowsByFrame
<1>3. new \in Seq(Byte) /\ Len(new) \in Nat /\ Len(p.st) \in Nat
  BY <1>1, <1>2, LenProperties DEF Extends
<1>4. t \in SndStates(s0)
  BY <1>1 DEF SndStates
<1>5. /\ t.next = s.next /\ t.cum = s.cum /\ t.limit = s.limit /\ t.pn = s.pn
      /\ t.skipped = s.skipped /\ t.retx = s.retx /\ t.sent = s.sent
  BY <1>1 DEF SndStates
<1>6. SndStates(t) = SndStates(s0)
  BY <1>4 DEF SndStates
<1>7. SndFits(s, new)
  BY <1>1, <1>2, <1>3, LongerStream
<1>8. SndFits(t, new)
  <2> HIDE DEF t, new
  <2>1. QED
    BY <1>4, <1>5, <1>6, <1>7 DEF SndFits
<1>9. /\ res.s = t /\ res.st = new /\ res.pieces = p.pieces /\ res.room = p.room
      /\ res \in [s : SndStates(s0), st : Seq(Byte), room : Nat, pieces : Seq(Nat \X Nat)]
  <2> HIDE DEF t, new
  <2>1. res = [p EXCEPT !.st = new, !.s = t]
    BY <1>1 DEF Put, t, new
  <2>2. QED
    BY <1>1, <1>3, <1>4, <2>1
<1> HIDE DEF res, t, new
<1>10. QED
  BY <1>1, <1>2, <1>5, <1>8, <1>9 DEF FillStates, res

(* _commit_next.                                                            *)
LEMMA CommitFits ==
    ASSUME stream \in Seq(Byte), NEW s0, NEW p \in FillStates(s0)
    PROVE  Commit(p) \in FillStates(s0) /\ Commit(p).room = p.room
<1>1. p \in [s : SndStates(s0), st : Seq(Byte), room : Nat, pieces : Seq(Nat \X Nat)]
  BY DEF FillStates
<1>2. p.s.urgent \in Seq(Frames) /\ p.s.bulk \in Seq(Frames)
  BY SndTypes DEF FillStates
<1>3. CASE p.s.next < Len(p.st) \/ p.s.urgent \o p.s.bulk = <<>>
  BY <1>3 DEF Commit
<1>4. CASE ~(p.s.next < Len(p.st) \/ p.s.urgent \o p.s.bulk = <<>>) /\ p.s.urgent # <<>>
  <2>1. Commit(p) = [p EXCEPT !.st = @ \o Bytes(Head(p.s.urgent)), !.s.urgent = Tail(@)]
    BY <1>4, Zenon DEF Commit
  <2>2. Commit(p) = Put(p, Head(p.s.urgent), Tail(p.s.urgent), p.s.bulk)
    BY <1>1, <2>1 DEF Put, SndStates
  <2>3. Head(p.s.urgent) \in Frames /\ Tail(p.s.urgent) \in Seq(Frames)
    BY <1>2, <1>4, HeadTailProperties
  <2>4. PICK f \in Frames, u \in Seq(Frames), b \in Seq(Frames) : Commit(p) = Put(p, f, u, b)
    BY <1>2, <2>2, <2>3
  <2>5. Put(p, f, u, b) \in FillStates(s0) /\ Put(p, f, u, b).room = p.room
    BY PutFits
  <2>6. QED
    BY <2>4, <2>5
<1>5. CASE ~(p.s.next < Len(p.st) \/ p.s.urgent \o p.s.bulk = <<>>) /\ p.s.urgent = <<>>
  <2>1. Commit(p) = [p EXCEPT !.st = @ \o Bytes(Head(p.s.bulk)), !.s.bulk = Tail(@)]
    BY <1>5, Zenon DEF Commit
  <2>2. Commit(p) = Put(p, Head(p.s.bulk), p.s.urgent, Tail(p.s.bulk))
    BY <1>1, <2>1 DEF Put, SndStates
  <2>3. p.s.bulk # <<>>
    BY <1>2, <1>5, ConcatEmptySeq
  <2>4. Head(p.s.bulk) \in Frames /\ Tail(p.s.bulk) \in Seq(Frames)
    BY <1>2, <2>3, HeadTailProperties
  <2>5. PICK f \in Frames, u \in Seq(Frames), b \in Seq(Frames) : Commit(p) = Put(p, f, u, b)
    BY <1>2, <2>2, <2>4
  <2>6. Put(p, f, u, b) \in FillStates(s0) /\ Put(p, f, u, b).room = p.room
    BY PutFits
  <2>7. QED
    BY <2>5, <2>6
<1>6. QED
  BY <1>3, <1>4, <1>5

(* The room that is found for the writers changes nothing else.             *)
LEMMA WakesFits ==
    ASSUME NEW s, NEW st, SndFits(s, st)
    PROVE  /\ SndFits(Wakes(s, st), st) /\ Wakes(s, st) \in SndStates(s)
           /\ \A f \in DOMAIN s : f # "writable" => Wakes(s, st)[f] = s[f]
<1> DEFINE w == s.writable \/ HasRoom(s, st, FALSE)
           t == [s EXCEPT !.writable = w]
<1>1. s \in SndStates(s)
  BY DEF SndFits
<1>2. Wakes(s, st) = t
  BY DEF Wakes
<1>3. w \in {TRUE, FALSE}
  OBVIOUS
<1> HIDE DEF w
<1>4. t \in SndStates(s)
  BY <1>1, <1>3 DEF SndStates
<1>5. /\ t.next = s.next /\ t.cum = s.cum /\ t.limit = s.limit /\ t.pn = s.pn
      /\ t.skipped = s.skipped /\ t.retx = s.retx /\ t.sent = s.sent
  BY <1>1 DEF SndStates
<1>6. SndStates(t) = SndStates(s)
  BY <1>4 DEF SndStates
<1>7. SndFits(t, st)
  <2> HIDE DEF t
  <2>1. QED
    BY <1>4, <1>5, <1>6 DEF SndFits
<1>8. \A f \in DOMAIN s : f # "writable" => t[f] = s[f]
  BY <1>1 DEF SndStates
<1>9. QED
  BY <1>2, <1>4, <1>7, <1>8

(* More of the stream was given out.                                        *)
LEMMA NextMoves ==
    ASSUME NEW s, NEW st, SndFits(s, st), NEW n \in Nat,
           s.next <= n, n <= Len(st), n <= s.limit
    PROVE  LET t == [s EXCEPT !.next = n]
           IN  /\ SndFits(t, st) /\ t \in SndStates(s) /\ t.next = n
               /\ \A f \in DOMAIN s : f # "next" => t[f] = s[f]
<1> DEFINE t == [s EXCEPT !.next = n]
<1>1. s \in SndStates(s)
  BY DEF SndFits
<1>2. t \in SndStates(s)
  BY <1>1 DEF SndStates
<1>3. /\ t.next = n /\ t.cum = s.cum /\ t.limit = s.limit /\ t.pn = s.pn
      /\ t.skipped = s.skipped /\ t.retx = s.retx /\ t.sent = s.sent
  BY <1>1 DEF SndStates
<1>4. SndStates(t) = SndStates(s)
  BY <1>2 DEF SndStates
<1>5. Seq(RangesTo(s.next)) \subseteq Seq(RangesTo(n))
  BY SndTypes, RangesGrow
<1>6. s.cum \in Nat /\ s.next \in Nat /\ s.cum <= n
  <2>1. s.cum <= s.next
    BY DEF SndFits
  <2>2. s.cum \in Nat /\ s.next \in Nat
    BY SndTypes
  <2>3. QED
    BY <2>1, <2>2
<1>7. SndFits(t, st)
  <2> HIDE DEF t
  <2>1. QED
    BY <1>2, <1>3, <1>4, <1>5, <1>6 DEF SndFits
<1>8. \A f \in DOMAIN s : f # "next" => t[f] = s[f]
  BY <1>1 DEF SndStates
<1>9. QED
  BY <1>2, <1>3, <1>7, <1>8

LEMMA NewFits ==
    ASSUME stream \in Seq(Byte), NEW s0, s0.next \in Nat, NEW p \in FillStates(s0)
    PROVE  New(p) \in FillStates(s0)
<1> DEFINE s == p.s
           N == s.next
           opts == {p.room, Len(p.st) - N, s.limit - N}
           take == Min(opts)
           n == N + take
           q == [s EXCEPT !.next = n]
           t == Wakes(q, p.st)
           piece == <<N, take>>
           res == [p EXCEPT !.s = t, !.room = @ - take, !.pieces = Append(@, piece)]
<1>1. /\ p \in [s : SndStates(s0), st : Seq(Byte), room : Nat, pieces : Seq(Nat \X Nat)]
      /\ SndFits(s, p.st) /\ p.pieces \in Seq(RangesTo(N))
      /\ Extends(p.st, stream) /\ Promise!Grows(stream, p.st)
      /\ s0.next <= N /\ s.cum = s0.cum /\ s.limit = s0.limit
      /\ s.pn = s0.pn /\ s.skipped = s0.skipped
  BY DEF FillStates
<1>2. /\ N \in Nat /\ s.limit \in Nat /\ p.room \in Nat /\ Len(p.st) \in Nat
      /\ N <= Len(p.st) /\ N <= s.limit
  BY <1>1, SndTypes, LenProperties DEF SndFits
<1>3. take \in Nat /\ take <= p.room /\ take <= Len(p.st) - N /\ take <= s.limit - N
  <2>1. opts \in SUBSET Nat /\ opts # {}
    BY <1>2
  <2>2. take \in Nat /\ \A y \in opts : take <= y
    <3> HIDE DEF opts
    <3>1. QED
      BY <2>1, MinOf
  <2>3. QED
    BY <2>2
<1>4. New(p) = IF take <= 0 THEN p ELSE res
  BY DEF New
<1> HIDE DEF take
<1>5. CASE take <= 0
  BY <1>4, <1>5
<1>6. CASE ~(take <= 0)
  <2>1. n \in Nat /\ N <= n /\ n <= Len(p.st) /\ n <= s.limit /\ N + take <= n /\ take > 0
        /\ p.room - take \in Nat
    <3>1. \A a, b, c, d, e \in Nat :
             ~(e <= 0) /\ e <= b - a /\ e <= c - a /\ e <= d
             => /\ a + e \in Nat /\ a <= a + e /\ a + e <= b /\ a + e <= c
                /\ a + e <= a + e /\ e > 0 /\ d - e \in Nat
      OBVIOUS
    <3>2. QED
      BY <1>2, <1>3, <1>6, <3>1
  <2>2. /\ SndFits(q, p.st) /\ q \in SndStates(s) /\ q.next = n
        /\ \A f \in DOMAIN s : f # "next" => q[f] = s[f]
    BY <1>1, <2>1, NextMoves
  <2>3. SndStates(s) = SndStates(s0) /\ DOMAIN s = DOMAIN q
    BY <1>1, <2>2 DEF SndStates
  <2> HIDE DEF q
  <2>4. SndStates(q) = SndStates(s0)
    BY <2>2, <2>3 DEF SndStates
  <2>5. /\ SndFits(t, p.st) /\ t \in SndStates(s0)
        /\ \A f \in DOMAIN q : f # "writable" => t[f] = q[f]
    BY <2>2, <2>4, WakesFits
  <2> HIDE DEF t
  <2>6. /\ t.next = n /\ t.cum = s.cum /\ t.limit = s.limit /\ t.pn = s.pn
        /\ t.skipped = s.skipped
    <3>1. {"next", "cum", "limit", "pn", "skipped"} \subseteq DOMAIN s
      BY <1>1 DEF SndStates
    <3>2. /\ q.next = n /\ q.cum = s.cum /\ q.limit = s.limit /\ q.pn = s.pn
          /\ q.skipped = s.skipped
      BY <2>2, <3>1
    <3>3. /\ t.next = q.next /\ t.cum = q.cum /\ t.limit = q.limit /\ t.pn = q.pn
          /\ t.skipped = q.skipped
      BY <2>3, <2>5, <3>1
    <3>4. QED
      BY <3>2, <3>3
  <2>7. piece \in RangesTo(n)
    BY <1>2, <1>3, <2>1 DEF RangesTo
  <2>8. Append(p.pieces, piece) \in Seq(RangesTo(n)) /\ Append(p.pieces, piece) \in Seq(Nat \X Nat)
    <3>1. p.pieces \in Seq(RangesTo(n))
      BY <1>1, <1>2, <2>1, RangesGrow
    <3>2. Append(p.pieces, piece) \in Seq(RangesTo(n))
      BY <2>7, <3>1, AppendProperties
    <3>3. RangesTo(n) \subseteq Nat \X Nat
      BY DEF RangesTo
    <3>4. QED
      BY <3>2, <3>3, SeqMonotonic
  <2> HIDE DEF piece, n
  <2>9. res \in [s : SndStates(s0), st : Seq(Byte), room : Nat, pieces : Seq(Nat \X Nat)]
    BY <1>1, <2>1, <2>5, <2>8
  <2>10. res.s = t /\ res.st = p.st /\ res.pieces = Append(p.pieces, piece)
    BY <1>1
  <2> HIDE DEF res
  <2>11. s0.next <= n
    <3>1. s0.next <= N
      BY <1>1
    <3>2. SndStates(s) = SndStates(s0) /\ s \in SndStates(s0)
      BY <1>1, <2>3
    <3>3. QED
      BY <1>2, <2>1, <3>1 DEF n
  <2>12. QED
    BY <1>1, <1>4, <1>6, <2>5, <2>6, <2>8, <2>9, <2>10, <2>11 DEF FillStates
<1>7. QED
  BY <1>5, <1>6

(* _next_range, and the packet it fills.                                    *)
LEMMA NextRangeFits ==
    ASSUME stream \in Seq(Byte), NEW s0, s0.next \in Nat, NEW p \in FillStates(s0)
    PROVE  NextRange(p) \in FillStates(s0)
<1> DEFINE s == p.s
           keep == Unconfirmed(s.retx, s.cum)
           t == [s EXCEPT !.retx = keep]
           q == [p EXCEPT !.s = t]
           due == {r \in RangesTo(s.next) : r[1] + r[2] > s.cum}
<1>1. /\ p \in [s : SndStates(s0), st : Seq(Byte), room : Nat, pieces : Seq(Nat \X Nat)]
      /\ SndFits(s, p.st) /\ p.pieces \in Seq(RangesTo(s.next))
      /\ Extends(p.st, stream) /\ Promise!Grows(stream, p.st)
      /\ s0.next <= s.next /\ s.cum = s0.cum /\ s.limit = s0.limit
      /\ s.pn = s0.pn /\ s.skipped = s0.skipped
  BY DEF FillStates
<1>2. NextRange(p) = IF p.room = 0 THEN p ELSE IF q.s.retx # <<>> THEN Again(q) ELSE New(Commit(q))
  BY <1>1 DEF NextRange
<1>3. keep \in Seq(due) /\ keep \in Seq(RangesTo(s.next))
  <2>1. s.retx \in Seq(RangesTo(s.next))
    BY <1>1 DEF SndFits
  <2>2. keep \in Seq(due)
    BY <2>1, UnconfirmedFit
  <2>3. due \subseteq RangesTo(s.next)
    OBVIOUS
  <2>4. QED
    BY <2>2, <2>3, SeqMonotonic
<1> HIDE DEF keep
<1>4. /\ SndFits(t, p.st) /\ t \in SndStates(s) /\ t.retx = keep
      /\ \A f \in DOMAIN s : f # "retx" => t[f] = s[f]
  <2>1. SndFits(s, p.st) /\ keep \in Seq(RangesTo(s.next))
    BY <1>1, <1>3
  <2> HIDE DEF s
  <2>2. QED
    BY <2>1, OtherRetx
<1>5. t \in SndStates(s0) /\ t.next = s.next /\ t.cum = s.cum /\ t.limit = s.limit
      /\ t.pn = s.pn /\ t.skipped = s.skipped
  <2>1. s \in SndStates(s0)
    BY <1>1
  <2>2. SndStates(s) = SndStates(s0)
    BY <2>1 DEF SndStates
  <2> HIDE DEF t
  <2>3. QED
    BY <1>4, <2>1, <2>2 DEF SndStates
<1> HIDE DEF t
<1>6. q.s = t /\ q.st = p.st /\ q.room = p.room /\ q.pieces = p.pieces
  BY <1>1
<1>7. q \in [s : SndStates(s0), st : Seq(Byte), room : Nat, pieces : Seq(Nat \X Nat)]
  BY <1>1, <1>5
<1> HIDE DEF q
<1>8. q \in FillStates(s0)
  BY <1>1, <1>4, <1>5, <1>6, <1>7 DEF FillStates
<1>9. CASE p.room = 0
  BY <1>2, <1>9
<1>10. CASE p.room # 0 /\ q.s.retx # <<>>
  <2>1. Len(keep) \in Nat \ {0}
    BY <1>3, <1>4, <1>6, <1>10, EmptySeq
  <2>2. keep[1] \in due
    <3>1. 1 \in 1..Len(keep)
      BY <2>1
    <3> HIDE DEF due
    <3>2. QED
      BY <1>3, <3>1, ElementOfSeq
  <2>3. q.s.retx[1][1] + q.s.retx[1][2] > q.s.cum
    BY <1>4, <1>5, <1>6, <2>2
  <2>4. q.room > 0
    BY <1>1, <1>6, <1>10
  <2>5. Again(q) \in FillStates(s0)
    BY <1>8, <1>10, <2>3, <2>4, AgainFits
  <2>6. QED
    BY <1>2, <1>10, <2>5
<1>11. CASE p.room # 0 /\ q.s.retx = <<>>
  <2>1. Commit(q) \in FillStates(s0)
    BY <1>8, CommitFits
  <2>2. New(Commit(q)) \in FillStates(s0)
    BY <2>1, NewFits
  <2>3. QED
    BY <1>2, <1>11, <2>2
<1>12. QED
  BY <1>9, <1>10, <1>11

LEMMA TimesFacts ==
    ASSUME NEW n \in Nat
    PROVE  /\ Times(n) \in Seq(1..n) /\ Len(Times(n)) = n /\ Len(Times(n)) \in Nat
           /\ \A i \in 1..n : Times(n)[i] = i
<1>1. Times(n) \in [1..n -> 1..n]
  BY DEF Times
<1>2. QED
  BY <1>1, SeqDef, LenProperties DEF Times

LEMMA FilledFits ==
    ASSUME stream \in Seq(Byte), NEW s, SndFits(s, stream), NEW room \in Nat
    PROVE  Filled(s, room) \in FillStates(s)
<1> DEFINE x == [s |-> s, st |-> stream, room |-> room, pieces |-> <<>>]
<1>1. s \in SndStates(s) /\ s.next \in Nat
  BY SndTypes DEF SndFits
<1>2. x \in FillStates(s)
  <2>1. x \in [s : SndStates(s), st : Seq(Byte), room : Nat, pieces : Seq(Nat \X Nat)]
    BY <1>1
  <2>2. x.s = s /\ x.st = stream /\ x.pieces = <<>>
    OBVIOUS
  <2>3. <<>> \in Seq(RangesTo(s.next))
    OBVIOUS
  <2> HIDE DEF x
  <2>4. QED
    BY <1>1, <2>1, <2>2, <2>3, GrowsByNothing DEF FillStates
<1>3. Len(Times(room)) \in Nat
  BY TimesFacts
<1>4. \A n \in 1..Len(Times(room)) : \A y \in FillStates(s) : NextRange(y) \in FillStates(s)
  BY <1>1, NextRangeFits
<1>5. QED
  BY <1>2, <1>3, <1>4, FillLoop

(* Data in a packet is what the stream has there.                           *)
LEMMA DataFits ==
    ASSUME NEW st \in Seq(Byte), NEW n \in Nat, n <= Len(st), NEW r \in RangesTo(n)
    PROVE  [at |-> r[1], bytes |-> SubSeq(st, r[1] + 1, r[1] + r[2])] \in PartsTo(st, n)
<1> DEFINE b == SubSeq(st, r[1] + 1, r[1] + r[2])
           p == [at |-> r[1], bytes |-> b]
<1>1. /\ r[1] \in Nat /\ r[2] \in Nat /\ r[2] > 0 /\ r[1] + r[2] <= n /\ r[1] + r[2] \in Nat
      /\ r[1] <= r[1] + r[2] /\ r[1] + r[2] <= Len(st) /\ (r[1] + r[2]) - r[1] = r[2]
  BY LenProperties DEF RangesTo
<1>2. b \in Seq(Byte) /\ Len(b) = r[2]
  BY <1>1, PartFacts
<1>3. p \in [at : Nat, bytes : Seq(Byte)] /\ p.at = r[1] /\ p.bytes = b
  BY <1>1, <1>2
<1>4. b = SubSeq(st, r[1] + 1, r[1] + Len(b))
  BY <1>2
<1> HIDE DEF p, b
<1>5. p \in PartsTo(st, n)
  BY <1>1, <1>2, <1>3, <1>4 DEF PartsTo
<1>6. QED
  BY <1>5 DEF p, b

(* _send_packet.                                                            *)
LEMMA PacketFits ==
    ASSUME NEW s, NEW st \in Seq(Byte), SndFits(s, st), NEW kind \in {"data", "ping", "probe"},
           NEW pieces \in Seq(RangesTo(s.next)), NEW skip \in {0, 1}, home \in Networks,
           toB \in Seq(Packets(st, s.next)), Packet(s, kind, pieces, st, skip)
    PROVE  /\ SndFits(snd', st) /\ snd'.next = s.next /\ snd'.cum = s.cum /\ snd'.limit = s.limit
           /\ toB' \in Seq(Packets(st, s.next))
<1> DEFINE pn == s.pn + skip
           skipped == IF skip = 1 THEN s.skipped \cup {s.pn} ELSE s.skipped
           sent == With(s.sent, pn, pieces)
           probe == IF kind = "probe" THEN pn ELSE s.probe
           t == [s EXCEPT !.pn = pn + 1, !.skipped = skipped, !.sent = sent, !.probe = probe]
           N == s.next
           data(r) == [at |-> r[1], bytes |-> SubSeq(st, r[1] + 1, r[1] + r[2])]
           parts == [i \in DOMAIN pieces |-> data(pieces[i])]
           packet == [kind |-> kind, pn |-> pn, from |-> home, pieces |-> parts]
<1>1. /\ s \in SndStates(s) /\ N \in Nat /\ s.pn \in Nat /\ s.skipped \in SUBSET Nat
      /\ N <= Len(st) /\ s.sent \in Maps(Seq(Nat \X Nat))
      /\ DOMAIN s.sent \subseteq (0..(s.pn - 1)) \ s.skipped
      /\ s.skipped \subseteq 0..(s.pn - 1)
      /\ \A k \in DOMAIN s.sent : s.sent[k] \in Seq(RangesTo(N))
  BY SndTypes DEF SndFits
<1>2. snd' = t
  BY DEF Packet
<1>3. \/ toB' = toB
      \/ toB' = Append(toB, packet)
  BY DEF Packet
<1>4. /\ DOMAIN sent = DOMAIN s.sent \cup {pn} /\ sent[pn] = pieces
      /\ \A k \in DOMAIN s.sent : k # pn => sent[k] = s.sent[k]
      /\ sent = [k \in DOMAIN sent |-> sent[k]]
  BY DEF With
<1>5. /\ pn \in Nat /\ pn + 1 \in Nat /\ skipped \in SUBSET Nat
      /\ skipped \subseteq 0..((pn + 1) - 1) /\ pn \notin skipped
      /\ \A k \in (0..(s.pn - 1)) \ s.skipped : k \in (0..((pn + 1) - 1)) \ skipped
      /\ pn \in 0..((pn + 1) - 1)
  <2>1. CASE skip = 0
    <3>1. pn = s.pn /\ skipped = s.skipped
      BY <1>1, <2>1
    <3> HIDE DEF pn, skipped
    <3>2. QED
      BY <1>1, <3>1
  <2>2. CASE skip = 1
    <3>1. pn = s.pn + 1 /\ skipped = s.skipped \cup {s.pn}
      BY <1>1, <2>2
    <3> HIDE DEF pn, skipped
    <3>2. /\ pn \in Nat /\ pn + 1 \in Nat /\ s.pn \in 0..((pn + 1) - 1) /\ pn \in 0..((pn + 1) - 1)
          /\ 0..(s.pn - 1) \subseteq (0..((pn + 1) - 1)) \ {s.pn} /\ pn \notin (0..(s.pn - 1)) \cup {s.pn}
      BY <1>1, <3>1
    <3>3. QED
      BY <1>1, <3>1, <3>2
  <2>3. QED
    BY <2>1, <2>2
<1> HIDE DEF sent, pn, skipped, probe
<1>6. DOMAIN sent \subseteq (0..((pn + 1) - 1)) \ skipped
  BY <1>1, <1>4, <1>5
<1>7. \A k \in DOMAIN sent : sent[k] \in Seq(RangesTo(N))
  BY <1>1, <1>4
<1>8. sent \in Maps(Seq(Nat \X Nat))
  <2>1. Seq(RangesTo(N)) \subseteq Seq(Nat \X Nat)
    BY SeqMonotonic DEF RangesTo
  <2>2. DOMAIN sent \in SUBSET Nat
    BY <1>5, <1>6
  <2>3. sent \in [DOMAIN sent -> Seq(Nat \X Nat)]
    BY <1>4, <1>7, <2>1
  <2>4. QED
    BY <2>2, <2>3 DEF Maps
<1>9. /\ t.next = s.next /\ t.cum = s.cum /\ t.limit = s.limit /\ t.pn = pn + 1
      /\ t.skipped = skipped /\ t.retx = s.retx /\ t.sent = sent
  BY <1>1 DEF SndStates
<1>10. t \in SndStates(t)
  BY <1>1, <1>5, <1>8 DEF SndStates
<1>11. SndFits(t, st)
  <2> HIDE DEF t
  <2>1. QED
    BY <1>5, <1>6, <1>7, <1>9, <1>10 DEF SndFits
<1>12. parts \in Seq(PartsTo(st, N))
  <2>1. Len(pieces) \in Nat /\ DOMAIN pieces = 1..Len(pieces)
    BY LenProperties
  <2>2. \A i \in 1..Len(pieces) : pieces[i] \in RangesTo(N)
    BY ElementOfSeq
  <2>3. \A i \in 1..Len(pieces) : data(pieces[i]) \in PartsTo(st, N)
    BY <1>1, <2>2, DataFits
  <2> HIDE DEF data
  <2>4. parts \in [1..Len(pieces) -> PartsTo(st, N)]
    BY <2>1, <2>3
  <2>5. QED
    BY <2>1, <2>4, SeqDef
<1> HIDE DEF parts
<1>13. packet \in Packets(st, N)
  BY <1>5, <1>12 DEF Packets
<1> HIDE DEF packet
<1>14. toB' \in Seq(Packets(st, N))
  <2>1. Append(toB, packet) \in Seq(Packets(st, N))
    BY <1>13, AppendProperties
  <2>2. toB \in Seq(Packets(st, N))
    OBVIOUS
  <2>3. QED
    BY <1>3, <2>1, <2>2
<1> HIDE DEF t
<1>15. QED
  BY <1>2, <1>9, <1>11, <1>14

(* What b has, and what is on its way to it, is as good when the stream has *)
(* grown and more of it was given out.                                      *)
LEMMA PacketsGrow ==
    ASSUME NEW old \in Seq(Byte), NEW st, Extends(st, old),
           NEW n \in Nat, NEW m \in Nat, n <= m, n <= Len(old)
    PROVE  Seq(Packets(old, n)) \subseteq Seq(Packets(st, m))
<1>1. Seq(PartsTo(old, n)) \subseteq Seq(PartsTo(st, m))
  BY PartsGrow, SeqMonotonic
<1>2. Packets(old, n) \subseteq Packets(st, m)
  BY <1>1 DEF Packets
<1>3. QED
  BY <1>2, SeqMonotonic

LEMMA RcvFitsMore ==
    ASSUME NEW old \in Seq(Byte), NEW st, Extends(st, old),
           NEW n \in Nat, NEW m \in Nat, n <= m, n <= Len(old),
           NEW r, NEW rd, RcvFits(r, rd, old, n)
    PROVE  RcvFits(r, rd, st, m)
<1>1. r.cum \in Nat /\ r.cum <= n /\ Len(old) \in Nat
  BY LenProperties DEF RcvFits, RcvStates
<1>2. SubSeq(st, 1, r.cum) = SubSeq(old, 1, r.cum)
  <2>1. PICK z \in Nat : z = 0
    OBVIOUS
  <2>2. PICK c \in Nat : c = r.cum
    BY <1>1
  <2>3. z \in Nat /\ c \in Nat /\ z <= c /\ c <= Len(old)
    BY <1>1, <2>1, <2>2
  <2>4. SubSeq(st, z + 1, c) = SubSeq(old, z + 1, c)
    BY <2>3, SamePart
  <2>5. z + 1 = 1
    BY <2>1
  <2>6. QED
    BY <2>2, <2>4, <2>5
<1>3. PartsTo(old, n) \subseteq PartsTo(st, m)
  BY PartsGrow
<1>4. r.cum <= m
  BY <1>1
<1>5. QED
  BY <1>2, <1>3, <1>4 DEF RcvFits, Pieces

(* A step of a, and one of b, of which the other end sees nothing yet.      *)
LEMMA SenderStep ==
    ASSUME IInv, SndFits(snd', stream'), Extends(stream', stream), snd.next <= snd'.next,
           snd'.cum <= rcv.cum, snd'.limit <= rcv.offered,
           toB' \in Seq(Packets(stream', snd'.next)), toA' \in Seq(Answers(rcv.cum, rcv.offered)),
           home' \in Networks, faults' \in Together, rcv' = rcv, read' = read
    PROVE  IInv'
<1>1. snd.next \in Nat /\ snd'.next \in Nat /\ snd.next <= Len(stream) /\ stream \in Seq(Byte)
  BY SndTypes DEF IInv, SndFits
<1>2. RcvFits(rcv, read, stream, snd.next)
  BY DEF IInv
<1>3. RcvFits(rcv, read, stream', snd'.next)
  BY <1>1, <1>2, RcvFitsMore
<1>4. RcvFits(rcv', read', stream', snd'.next)
  BY <1>3
<1>5. stream' \in Seq(Byte)
  BY DEF Extends
<1>6. QED
  BY <1>4, <1>5 DEF IInv

LEMMA ReceiverStep ==
    ASSUME IInv, RcvFits(rcv', read', stream, snd.next), read' \in Seq(Byte),
           snd.cum <= rcv'.cum, snd.limit <= rcv'.offered,
           rcv'.consumed + rcv'.handling = Len(read'), rcv'.offered <= rcv'.consumed + Window,
           toB' \in Seq(Packets(stream, snd.next)), toA' \in Seq(Answers(rcv'.cum, rcv'.offered)),
           home' \in Networks, faults' \in Together, snd' = snd, stream' = stream
    PROVE  IInv'
<1>1. SndFits(snd', stream') /\ stream' \in Seq(Byte)
  BY DEF IInv
<1>2. RcvFits(rcv', read', stream', snd'.next) /\ toB' \in Seq(Packets(stream', snd'.next))
  OBVIOUS
<1>3. QED
  BY <1>1, <1>2 DEF IInv

(* _send_one.                                                               *)
LEMMA SendOneFits ==
    ASSUME IInv, NEW s, SndFits(s, stream), s.next = snd.next, s.cum = snd.cum,
           s.limit = snd.limit, NEW events, SendOne(s, events)
    PROVE  /\ SndFits(snd', stream') /\ Extends(stream', stream)
           /\ Promise!Grows(stream, stream')
           /\ snd.next <= snd'.next /\ snd'.cum = snd.cum /\ snd'.limit = snd.limit
           /\ toB' \in Seq(Packets(stream', snd'.next)) /\ faults' \in Together
<1> DEFINE packet(less) == Filled(s, (IF s.big THEN BigRoom ELSE SmallRoom) - less)
           Step(event, p) ==
             /\ IF event = "none" THEN UNCHANGED faults ELSE p.pieces # <<>> /\ Fault(event)
             /\ stream' = p.st
             /\ IF p.pieces # <<>>
                THEN Packet(p.s, "data", p.pieces, p.st, IF event = "skip" THEN 1 ELSE 0)
                ELSE snd' = p.s /\ UNCHANGED toB
<1>1. PICK event \in events, less \in {0, 1} : Step(event, packet(less))
  <2>1. PICK event \in events :
          \E less \in (CASE event = "tight" -> {1} [] event = "early" -> {0, 1} [] OTHER -> {0}) :
          \E p \in {packet(less)} : Step(event, p)
    BY Zenon DEF SendOne
  <2>2. (CASE event = "tight" -> {1} [] event = "early" -> {0, 1} [] OTHER -> {0}) \subseteq {0, 1}
    OBVIOUS
  <2> HIDE DEF Step, packet
  <2>3. QED
    BY <2>1, <2>2, Zenon
<1> DEFINE p == packet(less)
<1>2. stream \in Seq(Byte) /\ home \in Networks /\ toB \in Seq(Packets(stream, snd.next))
      /\ faults \in Together
  BY DEF IInv
<1>3. (IF s.big THEN BigRoom ELSE SmallRoom) - less \in Nat
  BY UdpAssumption
<1>4. p \in FillStates(s)
  BY <1>2, <1>3, FilledFits
<1> HIDE DEF p
<1>5. /\ SndFits(p.s, p.st) /\ Extends(p.st, stream) /\ Promise!Grows(stream, p.st)
      /\ p.pieces \in Seq(RangesTo(p.s.next)) /\ p.st \in Seq(Byte)
      /\ snd.next <= p.s.next /\ p.s.cum = snd.cum /\ p.s.limit = snd.limit
  BY <1>4 DEF FillStates
<1>6. toB \in Seq(Packets(p.st, p.s.next))
  <2>1. snd.next \in Nat /\ p.s.next \in Nat /\ snd.next <= Len(stream)
    BY <1>5, SndTypes DEF IInv, SndFits
  <2>2. Seq(Packets(stream, snd.next)) \subseteq Seq(Packets(p.st, p.s.next))
    BY <1>2, <1>5, <2>1, PacketsGrow
  <2>3. QED
    BY <1>2, <2>2
<1>7. faults' \in Together
  BY <1>1, <1>2 DEF Fault, p
<1>8. CASE p.pieces = <<>>
  <2>1. snd' = p.s /\ UNCHANGED toB /\ stream' = p.st
    BY <1>1, <1>8 DEF p
  <2>2. QED
    BY <1>5, <1>6, <1>7, <2>1
<1>9. CASE p.pieces # <<>>
  <2>1. PICK skip \in {0, 1} : stream' = p.st /\ Packet(p.s, "data", p.pieces, p.st, skip)
    BY <1>1, <1>9 DEF p
  <2>2. /\ SndFits(snd', p.st) /\ snd'.next = p.s.next /\ snd'.cum = p.s.cum
        /\ snd'.limit = p.s.limit /\ toB' \in Seq(Packets(p.st, p.s.next))
    BY <1>2, <1>5, <1>6, <2>1, PacketFits
  <2>3. QED
    BY <1>5, <1>7, <2>1, <2>2
<1>10. QED
  BY <1>8, <1>9

(* The other fields make no difference.                                     *)
LEMMA SameFits ==
    ASSUME NEW s, NEW st, SndFits(s, st), NEW t, t \in SndStates(t),
           t.next = s.next, t.cum = s.cum, t.limit = s.limit, t.pn = s.pn,
           t.skipped = s.skipped, t.retx = s.retx, t.sent = s.sent
    PROVE  SndFits(t, st)
BY DEF SndFits

(* What is to be sent again on a probe timeout was sent before.             *)
LEMMA InsertFits ==
    ASSUME NEW s, NEW st, SndFits(s, st), NEW q \in Seq(RangesTo(s.next))
    PROVE  LET t == Folded(Insert, s, q)
           IN  SndFits(t, st) /\ t.next = s.next /\ t.cum = s.cum /\ t.limit = s.limit
<1> DEFINE R == {t \in SndStates(s) : /\ SndFits(t, st) /\ t.next = s.next
                                      /\ t.cum = s.cum /\ t.limit = s.limit}
<1>1. s \in R
  BY DEF SndFits
<1>2. ASSUME NEW y \in R, NEW r \in RangesTo(s.next) PROVE Insert(y, r) \in R
  <2>1. y \in SndStates(s) /\ SndFits(y, st) /\ y.next = s.next /\ y.cum = s.cum /\ y.limit = s.limit
    OBVIOUS
  <2> DEFINE new == <<r>> \o y.retx
             t == [y EXCEPT !.retx = new]
  <2>2. Insert(y, r) = y \/ Insert(y, r) = t
    BY DEF Insert
  <2>3. new \in Seq(RangesTo(y.next))
    <3>1. <<r>> \in Seq(RangesTo(y.next)) /\ y.retx \in Seq(RangesTo(y.next))
      BY <2>1 DEF SndFits
    <3>2. QED
      BY <3>1, ConcatProperties
  <2> HIDE DEF new
  <2>4. /\ SndFits(t, st) /\ t \in SndStates(y)
        /\ \A f \in DOMAIN y : f # "retx" => t[f] = y[f]
    BY <2>1, <2>3, OtherRetx
  <2>5. SndStates(y) = SndStates(s)
    BY <2>1 DEF SndStates
  <2> HIDE DEF t
  <2>6. t \in SndStates(s) /\ t.next = s.next /\ t.cum = s.cum /\ t.limit = s.limit
    BY <2>1, <2>4, <2>5 DEF SndStates
  <2>7. QED
    BY <2>1, <2>2, <2>4, <2>6
<1> HIDE DEF R
<1>3. Len(q) \in Nat /\ \A n \in 1..Len(q) : q[n] \in RangesTo(s.next)
  BY LenProperties, ElementOfSeq
<1>4. Folded(Insert, s, q) \in R
  <2>1. \A n \in 1..Len(q) : \A y \in R : Insert(y, q[n]) \in R
    BY <1>2, <1>3
  <2>2. QED
    BY <1>1, <1>3, <2>1, InsertLoop
<1>5. QED
  BY <1>4 DEF R

(* _detect_loss: the ranges of what is lost are to be sent again.           *)
LEMMA DetectLossFits ==
    ASSUME NEW s, NEW st, SndFits(s, st), NEW n
    PROVE  LET t == DetectLoss(s, n)
           IN  SndFits(t, st) /\ t.next = s.next /\ t.cum = s.cum /\ t.limit = s.limit
<1> DEFINE lost == Lost(s, n)
           ranges == RangesOf(s, lost \ {s.probe})
           kept == [pn \in DOMAIN s.sent \ lost |-> s.sent[pn]]
           new == Folded(Placed, <<>>, s.retx \o Unconfirmed(ranges, s.cum))
           N == s.next
           u == [s EXCEPT !.sent = kept]
           t == [u EXCEPT !.retx = new]
<1>1. /\ s \in SndStates(s) /\ N \in Nat /\ s.pn \in Nat /\ s.retx \in Seq(RangesTo(N))
      /\ s.sent \in Maps(Seq(Nat \X Nat))
      /\ DOMAIN s.sent \subseteq (0..(s.pn - 1)) \ s.skipped
      /\ \A k \in DOMAIN s.sent : s.sent[k] \in Seq(RangesTo(N))
  BY SndTypes DEF SndFits
<1>2. DetectLoss(s, n) = IF lost = {} THEN s ELSE t
  BY <1>1 DEF DetectLoss, SndStates
<1>3. lost \subseteq DOMAIN s.sent
  BY DEF Lost
<1> HIDE DEF lost
<1>4. ranges \in Seq(RangesTo(N))
  BY <1>1, <1>3, RangesOfFit
<1> HIDE DEF ranges
<1>5. Unconfirmed(ranges, s.cum) \in Seq(RangesTo(N))
  <2>1. Unconfirmed(ranges, s.cum) \in Seq({r \in RangesTo(N) : r[1] + r[2] > s.cum})
    BY <1>4, UnconfirmedFit
  <2>2. QED
    BY <2>1, SeqMonotonic
<1>6. new \in Seq(RangesTo(N))
  <2>1. s.retx \o Unconfirmed(ranges, s.cum) \in Seq(RangesTo(N))
    BY <1>1, <1>5, ConcatProperties
  <2>2. QED
    BY <2>1, SortedFit
<1> HIDE DEF new
<1>7. /\ DOMAIN kept \subseteq (0..(s.pn - 1)) \ s.skipped /\ DOMAIN kept \subseteq DOMAIN s.sent
      /\ \A k \in DOMAIN kept : kept[k] \in Seq(RangesTo(N))
      /\ kept \in [DOMAIN kept -> Seq(Nat \X Nat)] /\ DOMAIN kept \in SUBSET Nat
  <2>1. DOMAIN kept \subseteq DOMAIN s.sent /\ \A k \in DOMAIN kept : kept[k] = s.sent[k]
    OBVIOUS
  <2>2. kept = [k \in DOMAIN kept |-> kept[k]]
    OBVIOUS
  <2> HIDE DEF kept
  <2>3. \A k \in DOMAIN kept : kept[k] \in Seq(RangesTo(N))
    BY <1>1, <2>1
  <2>4. Seq(RangesTo(N)) \subseteq Seq(Nat \X Nat)
    BY SeqMonotonic DEF RangesTo
  <2>5. kept \in [DOMAIN kept -> Seq(Nat \X Nat)]
    BY <2>2, <2>3, <2>4
  <2>6. QED
    BY <1>1, <2>1, <2>3, <2>5
<1>8. kept \in Maps(Seq(Nat \X Nat))
  BY <1>7 DEF Maps
<1> HIDE DEF kept
<1>9. u \in SndStates(s) /\ u.sent = kept
  BY <1>1, <1>8 DEF SndStates
<1>10. /\ u.next = N /\ u.cum = s.cum /\ u.limit = s.limit /\ u.pn = s.pn
       /\ u.skipped = s.skipped /\ u.retx = s.retx
  BY <1>1 DEF SndStates
<1>11. SndStates(u) = SndStates(s)
  BY <1>9 DEF SndStates
<1>12. SndFits(u, st)
  <2> HIDE DEF u
  <2>1. QED
    BY <1>7, <1>9, <1>10, <1>11 DEF SndFits
<1>13. /\ SndFits(t, st) /\ t \in SndStates(u)
       /\ \A f \in DOMAIN u : f # "retx" => t[f] = u[f]
  <2> HIDE DEF u
  <2>1. new \in Seq(RangesTo(u.next))
    BY <1>6, <1>10
  <2>2. QED
    BY <1>12, <2>1, OtherRetx
<1>14. t.next = N /\ t.cum = s.cum /\ t.limit = s.limit
  <2> HIDE DEF u, t
  <2>1. QED
    BY <1>9, <1>10, <1>13 DEF SndStates
<1> HIDE DEF t
<1>15. QED
  BY <1>2, <1>13, <1>14

(* _on_ack: a takes b's word for no more than b has and gives room for.     *)
(* First what an acknowledgement says itself, before the losses it shows.   *)
AfterAck(s, ack) ==
    LET cum == Max({s.cum, Min({ack.cum, s.next})})
    IN  [s EXCEPT !.cum = cum, !.limit = Max({@, ack.max}),
                  !.retx = Unconfirmed(@, cum),
                  !.largest = Max({@} \cup ack.ranges),
                  !.sent = [pn \in DOMAIN @ \ ack.ranges |-> @[pn]],
                  !.big = @ \/ s.probe \in Acked(s, ack)]

LEMMA AfterAckFits ==
    ASSUME NEW s, SndFits(s, stream), NEW c \in Nat, NEW o \in Nat, s.cum <= c, s.limit <= o,
           NEW ack, ack.cum \in 0..c, ack.max \in 0..o, NEW t0, t0 = AfterAck(s, ack)
    PROVE  /\ SndFits(t0, stream) /\ t0.next = s.next /\ t0.cum <= c /\ t0.limit <= o
           /\ t0.retx = Unconfirmed(s.retx, t0.cum) /\ t0.pn = s.pn /\ t0.probe = s.probe
           /\ DOMAIN t0.sent = DOMAIN s.sent \ ack.ranges
           /\ \A pn \in DOMAIN t0.sent : t0.sent[pn] = s.sent[pn]
<1> DEFINE least == Min({ack.cum, s.next})
           cum == Max({s.cum, least})
           limit == Max({s.limit, ack.max})
           retx == Unconfirmed(s.retx, cum)
           largest == Max({s.largest} \cup ack.ranges)
           sent == [pn \in DOMAIN s.sent \ ack.ranges |-> s.sent[pn]]
           big == s.big \/ s.probe \in Acked(s, ack)
           N == s.next
           t == [s EXCEPT !.cum = cum, !.limit = limit, !.retx = retx, !.largest = largest,
                          !.sent = sent, !.big = big]
<1>1. /\ s \in SndStates(s) /\ N \in Nat /\ s.pn \in Nat /\ s.retx \in Seq(RangesTo(N))
      /\ s.cum \in Nat /\ s.limit \in Nat /\ s.skipped \in SUBSET Nat
      /\ s.cum <= N /\ N <= Len(stream) /\ N <= s.limit
      /\ s.skipped \subseteq 0..(s.pn - 1)
      /\ s.sent \in Maps(Seq(Nat \X Nat))
      /\ DOMAIN s.sent \subseteq (0..(s.pn - 1)) \ s.skipped
      /\ \A k \in DOMAIN s.sent : s.sent[k] \in Seq(RangesTo(N))
  BY SndTypes DEF SndFits
<1>2. AfterAck(s, ack) = t
  BY <1>1 DEF AfterAck, SndStates
<1>3. least \in Nat /\ least <= ack.cum /\ least <= N
  <2>1. {ack.cum, N} \in SUBSET Nat /\ {ack.cum, N} # {}
    BY <1>1
  <2>2. least \in Nat /\ \A y \in {ack.cum, N} : least <= y
    BY <2>1, MinOf
  <2>3. QED
    BY <2>2
<1> HIDE DEF least
<1>4. cum \in Nat /\ cum <= N /\ cum <= c
  <2>1. cum \in Nat /\ (cum = s.cum \/ cum = least)
    BY <1>1, <1>3, MaxOfTwo
  <2> HIDE DEF cum
  <2>2. QED
    BY <1>1, <1>3, <2>1
<1>5. limit \in Nat /\ s.limit <= limit /\ N <= limit /\ limit <= o
  <2>1. limit \in Nat /\ s.limit <= limit /\ (limit = s.limit \/ limit = ack.max)
    BY <1>1, MaxOfTwo
  <2> HIDE DEF limit
  <2>2. QED
    BY <1>1, <2>1
<1> HIDE DEF cum, limit
<1>6. retx \in Seq(RangesTo(N)) /\ retx \in Seq(Nat \X Nat)
  <2>1. retx \in Seq({r \in RangesTo(N) : r[1] + r[2] > cum})
    BY <1>1, UnconfirmedFit
  <2>2. RangesTo(N) \subseteq Nat \X Nat
    BY DEF RangesTo
  <2>3. QED
    BY <2>1, <2>2, SeqMonotonic
<1>7. /\ DOMAIN sent \subseteq (0..(s.pn - 1)) \ s.skipped /\ DOMAIN sent \subseteq DOMAIN s.sent
      /\ \A k \in DOMAIN sent : sent[k] \in Seq(RangesTo(N))
      /\ sent \in [DOMAIN sent -> Seq(Nat \X Nat)] /\ DOMAIN sent \in SUBSET Nat
  <2>1. DOMAIN sent \subseteq DOMAIN s.sent /\ \A k \in DOMAIN sent : sent[k] = s.sent[k]
    OBVIOUS
  <2>2. sent = [k \in DOMAIN sent |-> sent[k]]
    OBVIOUS
  <2> HIDE DEF sent
  <2>3. \A k \in DOMAIN sent : sent[k] \in Seq(RangesTo(N))
    BY <1>1, <2>1
  <2>4. Seq(RangesTo(N)) \subseteq Seq(Nat \X Nat)
    BY SeqMonotonic DEF RangesTo
  <2>5. sent \in [DOMAIN sent -> Seq(Nat \X Nat)]
    BY <2>2, <2>3, <2>4
  <2>6. QED
    BY <1>1, <2>1, <2>3, <2>5
<1>8. sent \in Maps(Seq(Nat \X Nat))
  BY <1>7 DEF Maps
<1> HIDE DEF retx, sent, largest, big
<1>9. /\ t \in SndStates(t) /\ t.cum = cum /\ t.limit = limit /\ t.retx = retx /\ t.sent = sent
      /\ t.next = N /\ t.pn = s.pn /\ t.skipped = s.skipped /\ t.probe = s.probe
  BY <1>1, <1>4, <1>5, <1>6, <1>8 DEF SndStates
<1>10. SndFits(t, stream)
  <2> HIDE DEF t
  <2>1. QED
    BY <1>1, <1>4, <1>5, <1>6, <1>7, <1>9 DEF SndFits
<1> HIDE DEF t
<1>11. DOMAIN sent = DOMAIN s.sent \ ack.ranges /\ \A k \in DOMAIN sent : sent[k] = s.sent[k]
  BY DEF sent
<1>12. QED
  BY <1>2, <1>4, <1>5, <1>9, <1>10, <1>11 DEF retx

LEMMA OnAckFits ==
    ASSUME NEW s, SndFits(s, stream), NEW c \in Nat, NEW o \in Nat, s.cum <= c, s.limit <= o,
           NEW ack, ack.cum \in 0..c, ack.max \in 0..o
    PROVE  LET t == OnAck(s, ack)
           IN  /\ SndFits(t, stream) /\ t.next = s.next /\ t.cum <= c /\ t.limit <= o
<1> DEFINE t == AfterAck(s, ack)
           u == DetectLoss(t, -1)
<1>1. OnAck(s, ack) = Wakes(u, stream)
  BY DEF OnAck, AfterAck
<1>2. SndFits(t, stream) /\ t.next = s.next /\ t.cum <= c /\ t.limit <= o
  <2>1. PICK x : x = t
    OBVIOUS
  <2>2. SndFits(x, stream) /\ x.next = s.next /\ x.cum <= c /\ x.limit <= o
    BY <2>1, AfterAckFits
  <2>3. QED
    BY <2>1, <2>2
<1>3. SndFits(u, stream) /\ u.next = s.next /\ u.cum = t.cum /\ u.limit = t.limit
  <2> HIDE DEF t
  <2>1. QED
    BY <1>2, DetectLossFits
<1> HIDE DEF u
<1>4. /\ SndFits(Wakes(u, stream), stream)
      /\ \A f \in DOMAIN u : f # "writable" => Wakes(u, stream)[f] = u[f]
  BY <1>3, WakesFits
<1>5. "next" \in DOMAIN u /\ "cum" \in DOMAIN u /\ "limit" \in DOMAIN u
  BY <1>3 DEF SndFits, SndStates
<1>6. /\ Wakes(u, stream).next = u.next /\ Wakes(u, stream).cum = u.cum
      /\ Wakes(u, stream).limit = u.limit
  BY <1>4, <1>5
<1>7. QED
  BY <1>1, <1>2, <1>3, <1>4, <1>6

------------------------------------------------------------------------------
(* The steps of a.                                                          *)

Promised == Promise!Commit \/ Promise!Deliver \/ UNCHANGED <<stream, read>>

LEMMA SndKnown ==
    ASSUME IInv
    PROVE  /\ SndFits(snd, stream) /\ stream \in Seq(Byte) /\ Extends(stream, stream)
           /\ snd.next \in Nat /\ snd.cum \in Nat /\ snd.limit \in Nat /\ snd.pn \in Nat
           /\ rcv.cum \in Nat /\ rcv.offered \in Nat
           /\ snd.cum <= rcv.cum /\ snd.limit <= rcv.offered
           /\ toB \in Seq(Packets(stream, snd.next)) /\ toA \in Seq(Answers(rcv.cum, rcv.offered))
           /\ home \in Networks /\ faults \in Together /\ snd \in SndStates(snd)
           /\ snd.next <= snd.next
<1>1. rcv.cum \in Nat /\ rcv.offered \in Nat
  BY DEF IInv, RcvFits, RcvStates
<1>2. SndFits(snd, stream) /\ stream \in Seq(Byte)
  BY DEF IInv
<1>3. snd \in SndStates(snd) /\ Extends(stream, stream)
  BY <1>2, GrowsByNothing DEF SndFits
<1>4. snd.next \in Nat /\ snd.cum \in Nat /\ snd.limit \in Nat /\ snd.pn \in Nat
  BY <1>2, SndTypes
<1>5. QED
  BY <1>1, <1>2, <1>3, <1>4 DEF IInv

LEMMA WriteKeeps ==
    ASSUME IInv, NEW f \in Frames, Write(f)
    PROVE  IInv' /\ Promised
<1>1. /\ SndFits(snd, stream) /\ snd \in SndStates(snd)
      /\ snd.urgent \in Seq(Frames) /\ snd.bulk \in Seq(Frames)
  BY SndKnown, SndTypes
<1>2. PICK u \in Seq(Frames), b \in Seq(Frames), w \in {TRUE, FALSE}, x \in {snd'.waiting}, y \in {snd'.unwritten} :
         snd' = [snd EXCEPT !.urgent = u, !.bulk = b, !.writable = w, !.waiting = x, !.unwritten = y]
  <2> DEFINE urgent == f \in Urgent
             u == IF urgent THEN Append(snd.urgent, f) ELSE snd.urgent
             b == IF urgent THEN snd.bulk ELSE Append(snd.bulk, f)
  <2>1. u \in Seq(Frames) /\ b \in Seq(Frames)
    BY <1>1, AppendProperties
  <2>2. CASE HasRoom(snd, stream, urgent)
    <3>1. snd' = [snd EXCEPT !.urgent = u, !.bulk = b,
                             !.waiting = @ \ {f}, !.unwritten = @ \ {f}]
      BY <1>1, <2>2 DEF Write, SndStates
    <3> HIDE DEF u, b, urgent
    <3>2. snd' = [snd EXCEPT !.urgent = u, !.bulk = b, !.writable = snd.writable,
                             !.waiting = snd.waiting \ {f}, !.unwritten = snd.unwritten \ {f}]
      BY <1>1, <3>1 DEF SndStates
    <3>3. snd'.waiting = snd.waiting \ {f} /\ snd'.unwritten = snd.unwritten \ {f}
          /\ snd.writable \in {TRUE, FALSE}
      BY <1>1, <3>2 DEF SndStates
    <3>4. QED
      BY <2>1, <3>2, <3>3
  <2>3. CASE ~HasRoom(snd, stream, urgent)
    <3>1. snd' = [snd EXCEPT !.waiting = @ \cup {f}, !.unwritten = @ \ {f}, !.writable = FALSE]
      BY <2>3 DEF Write
    <3>2. snd' = [snd EXCEPT !.urgent = snd.urgent, !.bulk = snd.bulk, !.writable = FALSE,
                             !.waiting = snd.waiting \cup {f}, !.unwritten = snd.unwritten \ {f}]
      BY <1>1, <3>1 DEF SndStates
    <3>3. snd'.waiting = snd.waiting \cup {f} /\ snd'.unwritten = snd.unwritten \ {f}
      BY <1>1, <3>2 DEF SndStates
    <3>4. QED
      BY <1>1, <3>2, <3>3
  <2>4. QED
    BY <2>2, <2>3
<1>3. /\ snd' \in SndStates(snd')
      /\ snd'.next = snd.next /\ snd'.cum = snd.cum /\ snd'.limit = snd.limit
      /\ snd'.pn = snd.pn /\ snd'.skipped = snd.skipped /\ snd'.retx = snd.retx
      /\ snd'.sent = snd.sent
  BY <1>1, <1>2 DEF SndStates
<1>4. SndFits(snd', stream)
  BY <1>1, <1>3, SameFits
<1>5. UNCHANGED <<rcv, stream, read, toB, toA, home, closed, faults>>
  BY DEF Write
<1>6. IInv'
  BY <1>3, <1>4, <1>5, SndKnown, SenderStep
<1>7. QED
  BY <1>5, <1>6 DEF Promised

LEMMA SendOneKeeps ==
    ASSUME IInv, NEW s, SndFits(s, stream), s.next = snd.next, s.cum = snd.cum,
           s.limit = snd.limit, NEW events, SendOne(s, events),
           UNCHANGED <<rcv, read, toA, home, closed>>
    PROVE  IInv' /\ Promised
<1>1. /\ SndFits(snd', stream') /\ Extends(stream', stream)
      /\ Promise!Grows(stream, stream')
      /\ snd.next <= snd'.next /\ snd'.cum = snd.cum /\ snd'.limit = snd.limit
      /\ toB' \in Seq(Packets(stream', snd'.next)) /\ faults' \in Together
  BY SendOneFits
<1>2. IInv'
  BY <1>1, SndKnown, SenderStep
<1>3. Promise!Commit
  BY <1>1 DEF Promise!Commit
<1>4. QED
  BY <1>2, <1>3 DEF Promised

(* Packets without data.                                                    *)
LEMMA EmptyPacketKeeps ==
    ASSUME IInv, NEW s, SndFits(s, stream), s.next = snd.next, s.cum = snd.cum,
           s.limit = snd.limit, NEW kind \in {"ping", "probe"}, Packet(s, kind, <<>>, stream, 0),
           UNCHANGED <<rcv, stream, read, toA, home, closed, faults>>
    PROVE  IInv' /\ Promised
<1>1. toB \in Seq(Packets(stream, s.next)) /\ stream \in Seq(Byte) /\ home \in Networks
  BY SndKnown
<1>2. <<>> \in Seq(RangesTo(s.next))
  OBVIOUS
<1>3. /\ SndFits(snd', stream) /\ snd'.next = s.next /\ snd'.cum = s.cum /\ snd'.limit = s.limit
      /\ toB' \in Seq(Packets(stream, s.next))
  BY <1>1, <1>2, PacketFits
<1>4. IInv'
  BY <1>3, SndKnown, SenderStep
<1>5. QED
  BY <1>4 DEF Promised

LEMMA ProbeKeeps ==
    ASSUME IInv, ProbePath \/ ProbeTimeout \/ KeepAlive
    PROVE  IInv' /\ Promised
<1>1. SndFits(snd, stream) /\ snd \in SndStates(snd)
  BY SndKnown
<1>2. CASE ProbePath
  <2> DEFINE s == [snd EXCEPT !.probed = TRUE]
  <2>1. /\ s \in SndStates(s)
        /\ s.next = snd.next /\ s.cum = snd.cum /\ s.limit = snd.limit
        /\ s.pn = snd.pn /\ s.skipped = snd.skipped /\ s.retx = snd.retx /\ s.sent = snd.sent
    BY <1>1 DEF SndStates
  <2>2. /\ Packet(s, "probe", <<>>, stream, 0)
        /\ UNCHANGED <<rcv, stream, read, toA, home, closed, faults>>
    BY <1>2 DEF ProbePath
  <2> HIDE DEF s
  <2>3. SndFits(s, stream)
    BY <1>1, <2>1, SameFits
  <2>4. QED
    BY <2>1, <2>2, <2>3, EmptyPacketKeeps
<1>3. ASSUME Ping, UNCHANGED <<rcv, read, toA, home, closed>>
      PROVE  IInv' /\ Promised
  BY <1>1, <1>3, EmptyPacketKeeps DEF Ping
<1>4. CASE ProbeTimeout
  <2> DEFINE data == {pn \in DOMAIN snd.sent : snd.sent[pn] # <<>>}
             q == snd.sent[Min(data)]
             s == Folded(Insert, snd, q)
             events == IF Silent THEN {"none"} ELSE {"early"}
  <2>1. UNCHANGED <<rcv, read, toA, home, closed>>
    BY <1>4 DEF ProbeTimeout
  <2>2. CASE data = {}
    BY <1>3, <1>4, <2>1, <2>2 DEF ProbeTimeout
  <2>3. CASE data # {}
    <3>1. SendOne(s, events)
      BY <1>4, <2>3, Zenon DEF ProbeTimeout
    <3>2. data \in SUBSET Nat
      <4>1. DOMAIN snd.sent \subseteq 0..(snd.pn - 1) /\ snd.pn \in Nat
        BY <1>1, SndTypes DEF SndFits
      <4>2. QED
        BY <4>1
    <3>3. Min(data) \in DOMAIN snd.sent
      BY <2>3, <3>2, MinOf
    <3>4. q \in Seq(RangesTo(snd.next))
      BY <1>1, <3>3 DEF SndFits
    <3> HIDE DEF q
    <3>5. SndFits(s, stream) /\ s.next = snd.next /\ s.cum = snd.cum /\ s.limit = snd.limit
      BY <1>1, <3>4, InsertFits
    <3> HIDE DEF s, events
    <3>6. QED
      BY <2>1, <3>1, <3>5, SendOneKeeps
  <2>4. QED
    BY <2>2, <2>3
<1>5. CASE KeepAlive
  BY <1>3, <1>5 DEF KeepAlive
<1>6. QED
  BY <1>2, <1>4, <1>5

LEMMA SendDataKeeps ==
    ASSUME IInv, SendData
    PROVE  IInv' /\ Promised
<1>1. SendOne(snd, {"none", "skip", "tight"}) /\ UNCHANGED <<rcv, read, toA, home, closed>>
  BY DEF SendData
<1>2. SndFits(snd, stream)
  BY SndKnown
<1>3. QED
  BY <1>1, <1>2, SendOneKeeps

LEMMA LossByTimeKeeps ==
    ASSUME IInv, LossByTime
    PROVE  IInv' /\ Promised
<1>1. PICK t \in DOMAIN snd.sent : Early /\ snd' = DetectLoss(snd, t)
  BY DEF LossByTime
<1>2. SndFits(snd, stream) /\ faults \in Together
  BY SndKnown
<1>3. /\ SndFits(snd', stream) /\ snd'.next = snd.next /\ snd'.cum = snd.cum
      /\ snd'.limit = snd.limit
  BY <1>1, <1>2, DetectLossFits
<1>4. UNCHANGED <<rcv, stream, read, toB, toA, home, closed>>
  BY DEF LossByTime
<1>5. faults' \in Together
  BY <1>1, <1>2 DEF Early, Fault
<1>6. IInv'
  BY <1>3, <1>4, <1>5, SndKnown, SenderStep
<1>7. QED
  BY <1>4, <1>6 DEF Promised

LEMMA ReceiveAtAKeeps ==
    ASSUME IInv, ReceiveAtA
    PROVE  IInv' /\ Promised
<1> DEFINE ack == Head(toA)
<1>1. /\ SndFits(snd, stream) /\ snd \in SndStates(snd) /\ faults \in Together
      /\ toA \in Seq(Answers(rcv.cum, rcv.offered)) /\ toB \in Seq(Packets(stream, snd.next))
      /\ rcv.cum \in Nat /\ rcv.offered \in Nat /\ snd.cum <= rcv.cum /\ snd.limit <= rcv.offered
      /\ home \in Networks /\ snd.pn \in Nat /\ snd.next \in Nat
  BY SndKnown
<1>2. /\ toA # <<>> /\ toA' = Tail(toA) /\ UNCHANGED <<rcv, stream, read, home>>
      /\ IF ack.kind = "ack" THEN HandleAck(ack) ELSE Respond
  BY DEF ReceiveAtA
<1>3. ack \in Answers(rcv.cum, rcv.offered) /\ toA' \in Seq(Answers(rcv.cum, rcv.offered))
  BY <1>1, <1>2, HeadTailProperties
<1> HIDE DEF ack
<1>4. CASE ack.kind = "ack" /\ ack.ranges \cap snd.skipped # {}
  <2>1. UNCHANGED <<snd, toB, faults>>
    BY <1>2, <1>4 DEF HandleAck
  <2>2. IInv'
    BY <1>1, <1>2, <1>3, <2>1, SndKnown, SenderStep
  <2>3. QED
    BY <1>2, <2>2 DEF Promised
<1>5. CASE ack.kind = "ack" /\ ~(ack.ranges \cap snd.skipped # {})
  <2>1. snd' = OnAck(snd, ack) /\ UNCHANGED <<closed, toB, faults>>
    BY <1>2, <1>5 DEF HandleAck
  <2>2. ack.cum \in 0..rcv.cum /\ ack.max \in 0..rcv.offered
    BY <1>3, <1>5 DEF Answers
  <2>3. /\ SndFits(snd', stream) /\ snd'.next = snd.next /\ snd'.cum <= rcv.cum
        /\ snd'.limit <= rcv.offered
    BY <1>1, <2>1, <2>2, OnAckFits
  <2>4. IInv'
    BY <1>1, <1>2, <1>3, <2>1, <2>3, SndKnown, SenderStep
  <2>5. QED
    BY <1>2, <2>4 DEF Promised
<1>6. CASE ack.kind # "ack"
  <2> DEFINE packet == [kind |-> "response", pn |-> snd.pn, from |-> home, pieces |-> <<>>]
  <2>1. /\ snd' = [snd EXCEPT !.pn = @ + 1] /\ toB' = Append(toB, packet)
        /\ UNCHANGED <<closed, faults>>
    BY <1>2, <1>6 DEF Respond
  <2>2. /\ snd' \in SndStates(snd')
        /\ snd'.next = snd.next /\ snd'.cum = snd.cum /\ snd'.limit = snd.limit
        /\ snd'.pn = snd.pn + 1 /\ snd'.skipped = snd.skipped /\ snd'.retx = snd.retx
        /\ snd'.sent = snd.sent
    <3> DEFINE n == snd.pn + 1
               t == [snd EXCEPT !.pn = n]
    <3>1. snd' = t /\ n \in Nat
      BY <1>1, <2>1
    <3> HIDE DEF n
    <3>2. /\ t \in SndStates(t)
          /\ t.next = snd.next /\ t.cum = snd.cum /\ t.limit = snd.limit
          /\ t.pn = n /\ t.skipped = snd.skipped /\ t.retx = snd.retx /\ t.sent = snd.sent
      BY <1>1, <3>1 DEF SndStates
    <3> HIDE DEF t
    <3>3. QED
      BY <3>1, <3>2 DEF n
  <2>3. /\ (0..(snd.pn - 1)) \subseteq 0..((snd.pn + 1) - 1)
    BY <1>1
  <2>4. /\ DOMAIN snd.sent \subseteq (0..((snd.pn + 1) - 1)) \ snd.skipped
        /\ snd.skipped \subseteq 0..((snd.pn + 1) - 1)
    BY <1>1, <2>3 DEF SndFits
  <2>5. SndFits(snd', stream)
    BY <1>1, <2>2, <2>4 DEF SndFits
  <2>6. packet \in Packets(stream, snd.next)
    <3>1. <<>> \in Seq(PartsTo(stream, snd.next))
      OBVIOUS
    <3>2. QED
      BY <1>1, <3>1 DEF Packets
  <2> HIDE DEF packet
  <2>7. toB' \in Seq(Packets(stream, snd.next))
    <3>1. Append(toB, packet) \in Seq(Packets(stream, snd.next))
      BY <1>1, <2>6, AppendProperties
    <3>2. QED
      BY <2>1, <3>1
  <2>8. IInv'
    BY <1>1, <1>2, <1>3, <2>1, <2>2, <2>5, <2>7, SndKnown, SenderStep
  <2>9. QED
    BY <1>2, <2>8 DEF Promised
<1>7. QED
  BY <1>4, <1>5, <1>6

------------------------------------------------------------------------------
(* The stream at b.                                                         *)

(* The bytes of the pieces that wait, counted one by one.                   *)
LEMMA OneSpot ==
    ASSUME NEW k, NEW b \in Seq(Byte)
    PROVE  IsFiniteSet({k} \X DOMAIN b) /\ Cardinality({k} \X DOMAIN b) = Len(b)
<1>1. IsFiniteSet({k}) /\ Cardinality({k}) = 1
  BY FS_Singleton
<1>2. Len(b) \in Nat /\ DOMAIN b = 1..Len(b)
  BY LenProperties
<1>3. IsFiniteSet(1..Len(b)) /\ Cardinality(1..Len(b)) = Len(b)
  <2>1. 1 \in Int /\ Len(b) \in Int /\ (1 > Len(b) => Len(b) = 0) /\ Len(b) - 1 + 1 = Len(b)
    BY <1>2
  <2>2. Cardinality(1..Len(b)) = IF 1 > Len(b) THEN 0 ELSE Len(b) - 1 + 1
    BY <2>1, FS_Interval
  <2>3. QED
    BY <2>1, <2>2, FS_Interval
<1>4. /\ IsFiniteSet({k} \X DOMAIN b)
      /\ Cardinality({k} \X DOMAIN b) = Cardinality({k}) * Cardinality(DOMAIN b)
  BY <1>1, <1>2, <1>3, FS_Product
<1>5. \A x \in Nat : 1 * x = x
  OBVIOUS
<1>6. QED
  BY <1>1, <1>2, <1>3, <1>4, <1>5

LEMMA SpotsWithout ==
    ASSUME NEW o, NEW keys
    PROVE  /\ DOMAIN Without(o, keys) = DOMAIN o \ keys
           /\ \A k \in DOMAIN o \ keys : Without(o, keys)[k] = o[k]
           /\ Spots(Without(o, keys)) = UNION {{k} \X DOMAIN o[k] : k \in DOMAIN o \ keys}
           /\ Spots(Without(o, keys)) \subseteq Spots(o)
<1> DEFINE w == Without(o, keys)
<1>1. DOMAIN w = DOMAIN o \ keys /\ \A k \in DOMAIN o \ keys : w[k] = o[k]
  BY DEF Without
<1> HIDE DEF w
<1>2. Spots(w) = UNION {{k} \X DOMAIN o[k] : k \in DOMAIN o \ keys}
  BY <1>1 DEF Spots
<1>3. Spots(w) \subseteq Spots(o)
  BY <1>2 DEF Spots
<1>4. QED
  BY <1>1, <1>2, <1>3 DEF w

LEMMA SpotsWith ==
    ASSUME NEW o, NEW w, NEW k, NEW b, DOMAIN w = DOMAIN o \cup {k}, w[k] = b,
           \A j \in DOMAIN o : w[j] = o[j]
    PROVE  Spots(w) \subseteq Spots(o) \cup ({k} \X DOMAIN b)
<1>1. ASSUME NEW x \in Spots(w) PROVE x \in Spots(o) \cup ({k} \X DOMAIN b)
  <2>1. PICK j \in DOMAIN w : x \in {j} \X DOMAIN w[j]
    BY DEF Spots
  <2>2. QED
    BY <2>1 DEF Spots
<1>2. QED
  BY <1>1

LEMMA PartFields ==
    ASSUME NEW st, NEW n, NEW k, NEW b
    PROVE  [at |-> k, bytes |-> b] \in PartsTo(st, n) <=>
             /\ k \in Nat /\ b \in Seq(Byte) /\ Len(b) > 0 /\ k + Len(b) <= n
             /\ b = SubSeq(st, k + 1, k + Len(b))
BY DEF PartsTo

LEMMA MapFacts ==
    ASSUME NEW S, NEW o
    PROVE  o \in Maps(S) <=> /\ o = [k \in DOMAIN o |-> o[k]] /\ DOMAIN o \subseteq Nat
                             /\ \A k \in DOMAIN o : o[k] \in S
<1>1. ASSUME o \in Maps(S)
      PROVE  /\ o = [k \in DOMAIN o |-> o[k]] /\ DOMAIN o \subseteq Nat
             /\ \A k \in DOMAIN o : o[k] \in S
  <2>1. PICK K \in SUBSET Nat : o \in [K -> S]
    BY <1>1 DEF Maps
  <2>2. QED
    BY <2>1
<1>2. ASSUME o = [k \in DOMAIN o |-> o[k]], DOMAIN o \subseteq Nat,
             \A k \in DOMAIN o : o[k] \in S
      PROVE  o \in Maps(S)
  <2>1. o \in [DOMAIN o -> S]
    BY <1>2
  <2>2. QED
    BY <1>2, <2>1 DEF Maps
<1>3. QED
  BY <1>1, <1>2

LEMMA PieceFacts ==
    ASSUME NEW st, NEW n, NEW m, NEW o, Pieces(o, st, n, m), NEW k \in DOMAIN o
    PROVE  /\ k \in Nat /\ o[k] \in Seq(Byte) /\ Len(o[k]) \in Nat /\ Len(o[k]) > 0
           /\ k + Len(o[k]) <= n /\ o[k] = SubSeq(st, k + 1, k + Len(o[k]))
           /\ k + Len(o[k]) <= m
<1>1. [at |-> k, bytes |-> o[k]] \in PartsTo(st, n) /\ k + Len(o[k]) <= m
  BY DEF Pieces
<1> DEFINE b == o[k]
<1>2. [at |-> k, bytes |-> b] \in PartsTo(st, n) /\ k + Len(b) <= m
  BY <1>1
<1> HIDE DEF b
<1>3. /\ k \in Nat /\ b \in Seq(Byte) /\ Len(b) > 0 /\ k + Len(b) <= n
      /\ b = SubSeq(st, k + 1, k + Len(b))
  BY <1>2, PartFields
<1>4. QED
  BY <1>2, <1>3, LenProperties DEF b

(* Some pieces do not wait any longer.                                      *)
LEMMA WithoutFits ==
    ASSUME NEW st, NEW n, NEW m, NEW o, Pieces(o, st, n, m), Window \in Nat, NEW keys
    PROVE  Pieces(Without(o, keys), st, n, m)
<1> DEFINE w == Without(o, keys)
<1>1. /\ DOMAIN w = DOMAIN o \ keys /\ \A k \in DOMAIN w : w[k] = o[k]
      /\ Spots(w) \subseteq Spots(o)
  <2>1. /\ DOMAIN w = DOMAIN o \ keys /\ \A k \in DOMAIN o \ keys : w[k] = o[k]
        /\ Spots(w) \subseteq Spots(o)
    BY SpotsWithout, Zenon
  <2> HIDE DEF w
  <2>2. QED
    BY <2>1
<1>2. w = [k \in DOMAIN w |-> w[k]]
  BY DEF Without
<1> HIDE DEF w
<1>3. w \in Maps(Seq(Byte))
  BY <1>1, <1>2, MapFacts DEF Pieces
<1>4. IsFiniteSet(DOMAIN w)
  BY <1>1, FS_Subset DEF Pieces
<1>5. IsFiniteSet(Spots(w)) /\ Cardinality(Spots(w)) <= Cardinality(Spots(o))
  BY <1>1, FS_Subset DEF Pieces
<1>6. Waiting(w) <= Window
  <2>1. Cardinality(Spots(w)) \in Nat /\ Cardinality(Spots(o)) \in Nat
    BY <1>5, FS_CardinalityType DEF Pieces
  <2>2. Cardinality(Spots(o)) <= Window
    BY DEF Pieces, Waiting, Spots
  <2>3. Cardinality(Spots(w)) <= Window
    BY <1>5, <2>1, <2>2
  <2>4. QED
    BY <2>3 DEF Waiting, Spots
<1>7. \A k \in DOMAIN w : [at |-> k, bytes |-> w[k]] \in PartsTo(st, n) /\ k + Len(w[k]) <= m
  BY <1>1 DEF Pieces
<1>8. Pieces(w, st, n, m)
  BY <1>3, <1>4, <1>5, <1>6, <1>7 DEF Pieces
<1>9. QED
  BY <1>8 DEF w

(* One more waits.                                                          *)
LEMMA WithFits ==
    ASSUME NEW st, NEW n, NEW m, NEW o, Pieces(o, st, n, m), Window \in Nat,
           NEW k, k \notin DOMAIN o, NEW b, [at |-> k, bytes |-> b] \in PartsTo(st, n),
           k + Len(b) <= m, Waiting(o) + Len(b) <= Window
    PROVE  Pieces(With(o, k, b), st, n, m)
<1> DEFINE w == With(o, k, b)
<1>1. DOMAIN w = DOMAIN o \cup {k} /\ w[k] = b /\ \A j \in DOMAIN o : w[j] = o[j]
  BY DEF With
<1>2. w = [j \in DOMAIN w |-> w[j]]
  BY DEF With
<1>3. k \in Nat /\ b \in Seq(Byte) /\ Len(b) \in Nat
  BY PartFields, LenProperties
<1> HIDE DEF w
<1>4. w \in Maps(Seq(Byte))
  <2>1. DOMAIN o \subseteq Nat /\ \A j \in DOMAIN o : o[j] \in Seq(Byte)
    BY MapFacts DEF Pieces
  <2>2. DOMAIN w \subseteq Nat /\ \A j \in DOMAIN w : w[j] \in Seq(Byte)
    BY <1>1, <1>3, <2>1
  <2>3. QED
    BY <1>2, <2>2, MapFacts
<1>5. IsFiniteSet(DOMAIN w)
  BY <1>1, FS_AddElement DEF Pieces
<1>6. IsFiniteSet({k} \X DOMAIN b) /\ Cardinality({k} \X DOMAIN b) = Len(b)
  BY <1>3, OneSpot
<1>7. IsFiniteSet(Spots(w)) /\ Waiting(w) <= Window
  <2> DEFINE A == Spots(o)
             B == {k} \X DOMAIN b
             C == Spots(w)
  <2>0. C \subseteq A \cup B
    BY <1>1, SpotsWith
  <2>1. IsFiniteSet(A) /\ IsFiniteSet(B)
    BY <1>6 DEF Pieces
  <2>2. Cardinality(A) + Len(b) <= Window
    BY DEF Waiting, Spots
  <2> HIDE DEF A, B
  <2>3. /\ IsFiniteSet(A \cup B)
        /\ Cardinality(A \cup B) = Cardinality(A) + Cardinality(B) - Cardinality(A \cap B)
    BY <2>1, FS_Union
  <2>4. Cardinality(A) \in Nat /\ Cardinality(B) \in Nat /\ Cardinality(A \cap B) \in Nat
    <3>1. IsFiniteSet(A \cap B)
      BY <2>1, FS_Subset
    <3>2. QED
      BY <2>1, <3>1, FS_CardinalityType
  <2>5. Cardinality(B) = Len(b)
    BY <1>6 DEF B
  <2>6. Cardinality(A \cup B) <= Window /\ Cardinality(A \cup B) \in Nat
    BY <2>2, <2>3, <2>4, <2>5, FS_CardinalityType
  <2> HIDE DEF C
  <2>7. IsFiniteSet(C) /\ Cardinality(C) <= Cardinality(A \cup B) /\ Cardinality(C) \in Nat
    BY <2>0, <2>3, FS_Subset, FS_CardinalityType
  <2>8. Cardinality(C) <= Window
    BY <2>6, <2>7
  <2>9. QED
    BY <2>7, <2>8 DEF Waiting, Spots, C
<1>8. \A j \in DOMAIN w : [at |-> j, bytes |-> w[j]] \in PartsTo(st, n) /\ j + Len(w[j]) <= m
  BY <1>1 DEF Pieces
<1>9. Pieces(w, st, n, m)
  BY <1>4, <1>5, <1>7, <1>8 DEF Pieces
<1>10. QED
  BY <1>9 DEF w

(* What b knows while it handles a packet that came when it knew r0.        *)
RcvLike(r0, st, n) ==
    {r \in RcvStates(r0) :
        /\ RcvFits(r, read, st, n) /\ r0.cum <= r.cum
        /\ r.offered = r0.offered /\ r.consumed = r0.consumed /\ r.handling = r0.handling}

LEMMA RcvTypes ==
    ASSUME NEW r0, NEW st, NEW n, NEW r \in RcvLike(r0, st, n)
    PROVE  /\ r \in RcvStates(r0) /\ RcvStates(r) = RcvStates(r0)
           /\ r.cum \in Nat /\ r.offered \in Nat /\ r.app \in Seq(Byte)
           /\ r.cum <= n /\ r.cum <= r.offered /\ r0.cum <= r.cum
           /\ read \o r.app = SubSeq(st, 1, r.cum) /\ Pieces(r.ooo, st, n, r.offered)
           /\ r.offered = r0.offered /\ r.consumed = r0.consumed /\ r.handling = r0.handling
<1>1. r \in RcvStates(r0) /\ RcvFits(r, read, st, n)
  BY DEF RcvLike
<1>2. RcvStates(r) = RcvStates(r0)
  BY <1>1 DEF RcvStates
<1>3. r.cum \in Nat /\ r.offered \in Nat /\ r.app \in Seq(Byte)
  BY <1>1 DEF RcvStates
<1>4. QED
  BY <1>1, <1>2, <1>3 DEF RcvLike, RcvFits

(* Other pieces wait.                                                       *)
LEMMA OtherOoo ==
    ASSUME NEW r0, NEW st, NEW n, NEW r \in RcvLike(r0, st, n), NEW o,
           Pieces(o, st, n, r.offered)
    PROVE  /\ [r EXCEPT !.ooo = o] \in RcvLike(r0, st, n)
           /\ [r EXCEPT !.ooo = o].cum = r.cum /\ [r EXCEPT !.ooo = o].ooo = o
<1> DEFINE t == [r EXCEPT !.ooo = o]
<1>1. /\ r \in RcvStates(r0) /\ RcvStates(r) = RcvStates(r0)
      /\ r.cum <= n /\ r.cum <= r.offered /\ r0.cum <= r.cum
      /\ read \o r.app = SubSeq(st, 1, r.cum) /\ Pieces(r.ooo, st, n, r.offered)
      /\ r.offered = r0.offered /\ r.consumed = r0.consumed /\ r.handling = r0.handling
  BY RcvTypes
<1>2. o \in Maps(Seq(Byte))
  BY DEF Pieces
<1>3. /\ t \in RcvStates(r0) /\ t.cum = r.cum /\ t.ooo = o /\ t.offered = r.offered
      /\ t.app = r.app /\ t.consumed = r.consumed /\ t.handling = r.handling
  BY <1>1, <1>2 DEF RcvStates
<1> HIDE DEF t
<1>4. t \in RcvStates(t)
  BY <1>3 DEF RcvStates
<1>5. RcvFits(t, read, st, n)
  BY <1>1, <1>3, <1>4 DEF RcvFits
<1>6. t \in RcvLike(r0, st, n)
  BY <1>1, <1>3, <1>5 DEF RcvLike
<1>7. QED
  BY <1>3, <1>6 DEF t

(* The next part of the stream is handed on.                                *)
LEMMA DeliverFits ==
    ASSUME NEW r0, r0.cum \in Nat, NEW st \in Seq(Byte), NEW n \in Nat, n <= Len(st),
           NEW r \in RcvLike(r0, st, n), read \in Seq(Byte), NEW e \in Nat, r.cum <= e, e <= n, e <= r.offered
    PROVE  Deliver(r, SubSeq(st, r.cum + 1, e)) \in RcvLike(r0, st, n)
<1> DEFINE b == SubSeq(st, r.cum + 1, e)
           app == r.app \o b
           t == [r EXCEPT !.app = app, !.cum = e]
<1>1. /\ r \in RcvStates(r0) /\ RcvStates(r) = RcvStates(r0)
      /\ r.cum \in Nat /\ r.app \in Seq(Byte) /\ r0.cum <= r.cum
      /\ read \o r.app = SubSeq(st, 1, r.cum) /\ Pieces(r.ooo, st, n, r.offered)
      /\ r.offered = r0.offered /\ r.consumed = r0.consumed /\ r.handling = r0.handling
  BY RcvTypes
<1>2. e <= Len(st) /\ Len(st) \in Nat
  BY LenProperties
<1>3. b \in Seq(Byte) /\ Len(b) = e - r.cum
  <2>1. PICK c \in Nat : c = r.cum
    BY <1>1
  <2>2. c <= e /\ e <= Len(st)
    BY <1>2, <2>1
  <2>3. SubSeq(st, c + 1, e) \in Seq(Byte) /\ Len(SubSeq(st, c + 1, e)) = e - c
    BY <2>2, PartFacts
  <2>4. QED
    BY <2>1, <2>3
<1>4. read \o app = SubSeq(st, 1, e)
  <2>1. SubSeq(st, 1, r.cum) \o b = SubSeq(st, 1, e)
    BY <1>1, <1>2, Joined
  <2>2. (read \o r.app) \o b = read \o (r.app \o b)
    BY <1>1, <1>3, Associated
  <2>3. QED
    BY <1>1, <2>1, <2>2
<1>5. app \in Seq(Byte)
  BY <1>1, <1>3, ConcatProperties
<1>6. Deliver(r, b) = t
  <2>1. r.cum + Len(b) = e
    BY <1>1, <1>3
  <2>2. Deliver(r, b) = [r EXCEPT !.app = app, !.cum = r.cum + Len(b)]
    BY <1>1 DEF Deliver
  <2>3. QED
    BY <2>1, <2>2
<1> HIDE DEF app, b
<1>7. /\ t \in RcvStates(r0) /\ t.cum = e /\ t.ooo = r.ooo /\ t.offered = r.offered
      /\ t.app = app /\ t.consumed = r.consumed /\ t.handling = r.handling
  BY <1>1, <1>5 DEF RcvStates
<1> HIDE DEF t
<1>8. t \in RcvStates(t)
  BY <1>7 DEF RcvStates
<1>9. RcvFits(t, read, st, n)
  BY <1>1, <1>4, <1>7, <1>8 DEF RcvFits
<1>10. t \in RcvLike(r0, st, n)
  <2>1. r0.cum <= e
    BY <1>1
  <2>2. QED
    BY <1>1, <1>7, <1>9, <2>1 DEF RcvLike
<1>11. QED
  BY <1>6, <1>10 DEF b

(* What a piece took is free when it waits no longer.                       *)
LEMMA RoomOfOne ==
    ASSUME NEW st, NEW n, NEW m, NEW o, Pieces(o, st, n, m), Window \in Nat, NEW keys,
           NEW k \in DOMAIN o, k \in keys
    PROVE  Waiting(Without(o, keys)) + Len(o[k]) <= Window
<1> DEFINE w == Without(o, keys)
           A == Spots(w)
           B == {k} \X DOMAIN o[k]
           C == Spots(o)
<1>1. IsFiniteSet(C) /\ Cardinality(C) <= Window /\ o[k] \in Seq(Byte)
  BY MapFacts DEF Pieces, Waiting, Spots
<1>2. A \subseteq C /\ A = UNION {{j} \X DOMAIN o[j] : j \in DOMAIN o \ keys}
  BY SpotsWithout
<1>3. B \subseteq C
  BY DEF Spots
<1>4. A \cap B = {}
  BY <1>2
<1>5. IsFiniteSet(B) /\ Cardinality(B) = Len(o[k])
  BY <1>1, OneSpot
<1>6. Waiting(w) = Cardinality(A)
  BY DEF Waiting, Spots
<1> HIDE DEF A, B, C, w
<1>7. IsFiniteSet(A)
  BY <1>1, <1>2, FS_Subset
<1>8. /\ IsFiniteSet(A \cup B)
      /\ Cardinality(A \cup B) = Cardinality(A) + Cardinality(B) - Cardinality(A \cap B)
  BY <1>5, <1>7, FS_Union
<1>9. Cardinality(A \cap B) = 0
  BY <1>4, FS_EmptySet
<1>10. Cardinality(A \cup B) <= Cardinality(C)
  BY <1>1, <1>2, <1>3, FS_Subset
<1>11. /\ Cardinality(A) \in Nat /\ Cardinality(B) \in Nat /\ Cardinality(C) \in Nat
       /\ Cardinality(A \cup B) \in Nat
  BY <1>1, <1>5, <1>7, <1>8, FS_CardinalityType
<1>12. Cardinality(A) + Len(o[k]) <= Window
  BY <1>1, <1>5, <1>8, <1>9, <1>10, <1>11
<1>13. QED
  BY <1>6, <1>12 DEF w

(* The part of one that reaches further waits in its place.                 *)
LEMMA CutFits ==
    ASSUME NEW st \in Seq(Byte), NEW n \in Nat, n <= Len(st), NEW m \in Nat,
           NEW o, Pieces(o, st, n, m), NEW c \in Nat, c \notin DOMAIN o, NEW keys,
           NEW k \in Nat, k \in DOMAIN o, k \in keys, k < c, k + Len(o[k]) > c
    PROVE  Pieces(With(Without(o, keys), c, SubSeq(o[k], c - k + 1, Len(o[k]))), st, n, m)
<1> DEFINE p == o[k]
           L == Len(p)
           b == SubSeq(p, c - k + 1, L)
           w == Without(o, keys)
<1>1. /\ k \in Nat /\ p \in Seq(Byte) /\ L \in Nat /\ k + L <= n /\ k + L <= m
      /\ p = SubSeq(st, k + 1, k + L) /\ k + L > c
  <2>1. PICK j \in DOMAIN o : j = k
    OBVIOUS
  <2>2. /\ o[j] \in Seq(Byte) /\ Len(o[j]) \in Nat /\ j + Len(o[j]) <= n
        /\ o[j] = SubSeq(st, j + 1, j + Len(o[j])) /\ j + Len(o[j]) <= m
    BY PieceFacts
  <2>3. QED
    BY <2>1, <2>2
<1>2. Window \in Nat
  BY UdpAssumption
<1> HIDE DEF p, L
<1>3. k <= c /\ c <= k + L /\ k + L <= Len(st)
  <2>1. Len(st) \in Nat
    BY LenProperties
  <2>2. k <= c
    BY <1>1
  <2>3. c <= k + L
    BY <1>1
  <2>4. k + L <= Len(st)
    BY <1>1, <2>1
  <2>5. QED
    BY <2>2, <2>3, <2>4
<1>4. b = SubSeq(st, c + 1, k + L) /\ b \in Seq(Byte) /\ Len(b) = (k + L) - c
  <2> DEFINE e == k + L
  <2>1. /\ e \in Nat /\ e - k = L /\ k \in Nat /\ k <= c /\ c <= e /\ e <= Len(st)
        /\ p = SubSeq(st, k + 1, e)
    BY <1>1, <1>3
  <2> HIDE DEF e
  <2>2. SubSeq(SubSeq(st, k + 1, e), c - k + 1, e - k) = SubSeq(st, c + 1, e)
    BY <2>1, RestOfPart
  <2>3. SubSeq(st, c + 1, e) \in Seq(Byte) /\ Len(SubSeq(st, c + 1, e)) = e - c
    BY <2>1, PartFacts
  <2>4. b = SubSeq(st, c + 1, e)
    BY <2>1, <2>2
  <2> HIDE DEF b
  <2>5. QED
    BY <2>3, <2>4 DEF e
<1> HIDE DEF b
<1>5. Len(b) \in Nat /\ Len(b) > 0 /\ c + Len(b) = k + L /\ Len(b) <= L
  <2>1. \A x, y, z \in Nat : x < z /\ x + y > z
                           => /\ (x + y) - z \in Nat /\ (x + y) - z > 0
                              /\ z + ((x + y) - z) = x + y /\ (x + y) - z <= y
    OBVIOUS
  <2>2. k \in Nat /\ L \in Nat /\ c \in Nat /\ k < c /\ k + L > c
    BY <1>1
  <2>3. /\ (k + L) - c \in Nat /\ (k + L) - c > 0 /\ c + ((k + L) - c) = k + L
        /\ (k + L) - c <= L
    BY <2>1, <2>2
  <2>4. QED
    BY <1>4, <2>3
<1>6. [at |-> c, bytes |-> b] \in PartsTo(st, n)
  BY <1>1, <1>4, <1>5, PartFields
<1>7. c \notin DOMAIN w
  BY DEF Without
<1>8. Pieces(w, st, n, m)
  BY <1>2, WithoutFits
<1>9. Waiting(w) + Len(b) <= Window
  <2>1. Waiting(w) + L <= Window
    BY <1>2, RoomOfOne DEF p, L
  <2>2. Waiting(w) \in Nat
    <3>1. IsFiniteSet(Spots(w))
      BY <1>8 DEF Pieces
    <3>2. QED
      BY <3>1, FS_CardinalityType DEF Waiting, Spots
  <2> DEFINE x == Waiting(w)
             y == Len(b)
  <2>3. x + L <= Window /\ x \in Nat /\ y \in Nat /\ L \in Nat /\ y <= L
    BY <1>1, <1>5, <2>1, <2>2
  <2> HIDE DEF x, y
  <2>4. x + y <= Window
    BY <1>2, <2>3
  <2>5. QED
    BY <2>4 DEF x, y
<1> HIDE DEF w
<1>10. c + Len(b) <= m
  BY <1>1, <1>5
<1>11. Pieces(With(w, c, b), st, n, m)
  BY <1>2, <1>6, <1>7, <1>8, <1>9, <1>10, WithFits
<1>12. QED
  BY <1>11 DEF w, b, L, p

LEMMA DrainStepFits ==
    ASSUME NEW r0, r0.cum \in Nat, NEW st \in Seq(Byte), NEW n \in Nat, n <= Len(st),
           NEW r \in RcvLike(r0, st, n), read \in Seq(Byte)
    PROVE  DrainStep(r) \in RcvLike(r0, st, n)
<1> DEFINE c == r.cum
           o == r.ooo
           behind == {k \in DOMAIN o : k < c}
<1>1. /\ r \in RcvStates(r0) /\ RcvStates(r) = RcvStates(r0)
      /\ c \in Nat /\ r.offered \in Nat /\ Pieces(o, st, n, r.offered)
      /\ c <= n /\ c <= r.offered
  BY RcvTypes
<1>2. Window \in Nat
  BY UdpAssumption
<1>3. \A k \in DOMAIN o : /\ k \in Nat /\ o[k] \in Seq(Byte) /\ Len(o[k]) \in Nat
                          /\ Len(o[k]) > 0 /\ k + Len(o[k]) <= n
                          /\ o[k] = SubSeq(st, k + 1, k + Len(o[k]))
                          /\ k + Len(o[k]) <= r.offered
  <2>1. Pieces(o, st, n, r.offered)
    BY <1>1
  <2> HIDE DEF o
  <2>2. QED
    BY <2>1, PieceFacts
<1>4. CASE c \in DOMAIN o
  <2> DEFINE w == Without(o, {c})
             q == [r EXCEPT !.ooo = w]
             e == c + Len(o[c])
  <2>1. DrainStep(r) = Deliver(q, o[c])
    BY <1>4 DEF DrainStep
  <2>2. Pieces(w, st, n, r.offered)
    BY <1>1, <1>2, WithoutFits
  <2>3. e \in Nat /\ c <= e /\ e <= n /\ e <= r.offered /\ o[c] = SubSeq(st, c + 1, e)
    <3>1. c + Len(o[c]) <= n /\ o[c] = SubSeq(st, c + 1, c + Len(o[c])) /\ Len(o[c]) \in Nat
          /\ c + Len(o[c]) <= r.offered
      BY <1>3, <1>4
    <3>2. c + Len(o[c]) \in Nat /\ c <= c + Len(o[c])
      <4>1. c \in Nat
        BY <1>1
      <4> HIDE DEF c, o
      <4>2. QED
        BY <3>1, <4>1
    <3>3. QED
      BY <3>1, <3>2
  <2> HIDE DEF w, e
  <2>4. q \in RcvLike(r0, st, n)
    BY <2>2, OtherOoo
  <2>5. q.offered = r.offered /\ q.cum = r.cum
    BY <1>1 DEF RcvStates
  <2> HIDE DEF q
  <2>6. Deliver(q, SubSeq(st, q.cum + 1, e)) \in RcvLike(r0, st, n)
    BY <2>3, <2>4, <2>5, DeliverFits
  <2>7. QED
    BY <2>1, <2>3, <2>5, <2>6
<1>5. CASE c \notin DOMAIN o /\ Reaches(r) = {}
  <2>1. DrainStep(r) = [r EXCEPT !.ooo = Without(o, behind)]
    BY <1>5 DEF DrainStep
  <2>2. Pieces(Without(o, behind), st, n, r.offered)
    BY <1>1, <1>2, WithoutFits
  <2>3. QED
    BY <2>1, <2>2, OtherOoo
<1>6. CASE c \notin DOMAIN o /\ Reaches(r) # {}
  <2> DEFINE k == Min(Reaches(r))
             v == With(Without(o, behind), c, SubSeq(o[k], c - k + 1, Len(o[k])))
  <2>1. DrainStep(r) = [r EXCEPT !.ooo = v]
    BY <1>6 DEF DrainStep
  <2>2. k \in DOMAIN o /\ k \in Nat /\ k < c /\ k + Len(o[k]) > c
    <3>1. Reaches(r) \in SUBSET Nat
      BY <1>3 DEF Reaches
    <3>2. k \in Reaches(r)
      BY <1>6, <3>1, MinOf
    <3> HIDE DEF k
    <3>3. QED
      BY <1>3, <3>2 DEF Reaches
  <2> HIDE DEF k
  <2>3. k \in behind
    BY <2>2
  <2>4. Pieces(v, st, n, r.offered)
    <3> HIDE DEF behind, o, c
    <3>1. QED
      BY <1>1, <1>6, <2>2, <2>3, CutFits
  <2> HIDE DEF v
  <2>5. QED
    BY <2>1, <2>4, OtherOoo
<1>7. QED
  BY <1>4, <1>5, <1>6

LEMMA DrainFits ==
    ASSUME NEW r0, r0.cum \in Nat, NEW st \in Seq(Byte), NEW n \in Nat, n <= Len(st),
           NEW r \in RcvLike(r0, st, n), read \in Seq(Byte)
    PROVE  Drain(r) \in RcvLike(r0, st, n)
<1> DEFINE L == 2 * Cardinality(DOMAIN r.ooo)
<1>1. L \in Nat
  <2>1. IsFiniteSet(DOMAIN r.ooo)
    BY RcvTypes DEF Pieces
  <2>2. Cardinality(DOMAIN r.ooo) \in Nat
    BY <2>1, FS_CardinalityType
  <2>3. QED
    BY <2>2
<1>2. Len(Times(L)) \in Nat
  <2> HIDE DEF L
  <2>1. QED
    BY <1>1, TimesFacts
<1>3. \A q \in RcvLike(r0, st, n) : DrainStep(q) \in RcvLike(r0, st, n)
  BY DrainStepFits
<1> DEFINE R == RcvLike(r0, st, n)
<1>4. /\ r \in R /\ Len(Times(2 * Cardinality(DOMAIN r.ooo))) \in Nat
      /\ \A i \in 1..Len(Times(2 * Cardinality(DOMAIN r.ooo))) : \A y \in R : DrainStep(y) \in R
  BY <1>2, <1>3
<1> HIDE DEF R
<1>5. Drain(r) \in R
  BY <1>4, DrainLoop
<1>6. QED
  BY <1>5 DEF R

(* What waits and what is handed on change nothing in the numbers b has     *)
(* seen.                                                                    *)
LEMMA DrainStepSeen ==
    ASSUME NEW r0, NEW st, NEW n, NEW r \in RcvLike(r0, st, n)
    PROVE  DrainStep(r).seen = r.seen
<1>1. r \in RcvStates(r0)
  BY RcvTypes
<1>2. CASE r.cum \in DOMAIN r.ooo
  <2> DEFINE w == Without(r.ooo, {r.cum})
             b == r.ooo[r.cum]
  <2>1. DrainStep(r) = Deliver([r EXCEPT !.ooo = w], b)
    BY <1>2 DEF DrainStep
  <2> HIDE DEF w, b
  <2>2. QED
    BY <1>1, <2>1 DEF Deliver, RcvStates
<1>3. CASE r.cum \notin DOMAIN r.ooo
  <2>1. PICK w : DrainStep(r) = [r EXCEPT !.ooo = w]
    BY <1>3 DEF DrainStep
  <2>2. QED
    BY <1>1, <2>1 DEF RcvStates
<1>4. QED
  BY <1>2, <1>3

LEMMA DrainSeen ==
    ASSUME NEW r0, r0.cum \in Nat, NEW st \in Seq(Byte), NEW n \in Nat, n <= Len(st),
           NEW r \in RcvLike(r0, st, n), read \in Seq(Byte)
    PROVE  Drain(r).seen = r.seen
<1> DEFINE R == {y \in RcvLike(r0, st, n) : y.seen = r.seen}
           L == 2 * Cardinality(DOMAIN r.ooo)
<1>1. L \in Nat
  <2>1. IsFiniteSet(DOMAIN r.ooo)
    BY RcvTypes DEF Pieces
  <2>2. Cardinality(DOMAIN r.ooo) \in Nat
    BY <2>1, FS_CardinalityType
  <2>3. QED
    BY <2>2
<1>2. Len(Times(L)) \in Nat
  <2> HIDE DEF L
  <2>1. QED
    BY <1>1, TimesFacts
<1>3. \A q \in R : DrainStep(q) \in R
  BY DrainStepFits, DrainStepSeen
<1>4. /\ r \in R /\ Len(Times(2 * Cardinality(DOMAIN r.ooo))) \in Nat
      /\ \A i \in 1..Len(Times(2 * Cardinality(DOMAIN r.ooo))) : \A y \in R : DrainStep(y) \in R
  BY <1>2, <1>3
<1> HIDE DEF R
<1>5. Drain(r) \in R
  BY <1>4, DrainLoop
<1>6. QED
  BY <1>5 DEF R

(* _on_stream.                                                              *)
LEMMA OnStreamFits ==
    ASSUME NEW r0, r0.cum \in Nat, NEW st \in Seq(Byte), NEW n \in Nat, n <= Len(st),
           NEW r \in RcvLike(r0, st, n), read \in Seq(Byte), NEW piece \in PartsTo(st, n)
    PROVE  OnStream(r, piece) \in RcvLike(r0, st, n) /\ OnStream(r, piece).seen = r.seen
<1> DEFINE at == piece.at
           b == piece.bytes
           end == at + Len(b)
           c == r.cum
<1>1. /\ piece \in [at : Nat, bytes : Seq(Byte)] /\ Len(b) > 0 /\ end <= n
      /\ b = SubSeq(st, at + 1, end)
  BY DEF PartsTo
<1>2. /\ c \in Nat /\ r.offered \in Nat /\ Pieces(r.ooo, st, n, r.offered)
      /\ r \in RcvStates(r0)
  BY RcvTypes
<1>3. at \in Nat /\ b \in Seq(Byte) /\ Len(b) \in Nat /\ end \in Nat /\ end - at = Len(b)
  BY <1>1, LenProperties
<1>4. CASE end <= c \/ end > r.offered
  BY <1>4 DEF OnStream
<1>5. CASE ~(end <= c \/ end > r.offered) /\ at > c
  <2>1. CASE HasPlace(r, piece)
    <3> DEFINE o == r.ooo
               v == With(o, at, b)
    <3>1. OnStream(r, piece) = [r EXCEPT !.ooo = v]
      BY <1>5, <2>1 DEF OnStream
    <3>2. at \notin DOMAIN o /\ Waiting(o) + Len(b) <= Window
      BY <2>1 DEF HasPlace
    <3>3. end <= r.offered /\ Window \in Nat
      BY <1>2, <1>3, <1>5, UdpAssumption
    <3>4. [at |-> at, bytes |-> b] \in PartsTo(st, n)
      BY <1>1, <1>3, PartFields
    <3>5. Pieces(v, st, n, r.offered)
      <4> HIDE DEF at, b, o
      <4>1. Pieces(o, st, n, r.offered)
        BY <1>2 DEF o
      <4>2. QED
        BY <3>2, <3>3, <3>4, <4>1, WithFits
    <3> HIDE DEF v
    <3>6. [r EXCEPT !.ooo = v].seen = r.seen
      BY <1>2 DEF RcvStates
    <3>7. QED
      BY <3>1, <3>5, <3>6, OtherOoo
  <2>2. CASE ~HasPlace(r, piece)
    BY <1>5, <2>2 DEF OnStream
  <2>3. QED
    BY <2>1, <2>2
<1>6. CASE ~(end <= c \/ end > r.offered) /\ ~(at > c)
  <2> DEFINE cut == SubSeq(b, c - at + 1, Len(b))
             q == Deliver(r, cut)
  <2>1. OnStream(r, piece) = Drain(q)
    BY <1>6 DEF OnStream
  <2>2. at <= c /\ c <= end /\ end <= Len(st) /\ end <= r.offered
    <3>1. Len(st) \in Nat
      BY LenProperties
    <3>2. end <= n
      BY <1>1
    <3> HIDE DEF at, end, c
    <3>3. QED
      BY <1>2, <1>3, <1>6, <3>1, <3>2
  <2>3. cut = SubSeq(st, c + 1, end)
    <3>1. SubSeq(SubSeq(st, at + 1, end), c - at + 1, end - at) = SubSeq(st, c + 1, end)
      <4> HIDE DEF at, end, c
      <4>1. QED
        BY <1>2, <1>3, <2>2, RestOfPart
    <3>2. QED
      BY <1>1, <1>3, <3>1
  <2> HIDE DEF cut
  <2>4. q \in RcvLike(r0, st, n)
    <3>1. c \in Nat /\ end \in Nat /\ c <= end /\ end <= n /\ end <= r.offered
      BY <1>1, <1>2, <1>3, <2>2
    <3> HIDE DEF end
    <3>2. Deliver(r, SubSeq(st, r.cum + 1, end)) \in RcvLike(r0, st, n)
      BY <3>1, DeliverFits
    <3>3. QED
      BY <2>3, <3>2
  <2>5. q.seen = r.seen
    BY <1>2 DEF Deliver, RcvStates
  <2> HIDE DEF q
  <2>6. Drain(q) \in RcvLike(r0, st, n) /\ Drain(q).seen = q.seen
    BY <2>4, DrainFits, DrainSeen
  <2>7. QED
    BY <2>1, <2>5, <2>6
<1>7. QED
  BY <1>4, <1>5, <1>6

LEMMA StreamFits ==
    ASSUME NEW r0, r0.cum \in Nat, NEW st \in Seq(Byte), NEW n \in Nat, n <= Len(st),
           NEW r \in RcvLike(r0, st, n), read \in Seq(Byte), NEW pieces \in Seq(PartsTo(st, n))
    PROVE  Folded(OnStream, r, pieces) \in RcvLike(r0, st, n)
<1> DEFINE R == RcvLike(r0, st, n)
<1>1. Len(pieces) \in Nat /\ \A i \in 1..Len(pieces) : pieces[i] \in PartsTo(st, n)
  BY LenProperties, ElementOfSeq
<1>2. \A i \in 1..Len(pieces) : \A y \in R : OnStream(y, pieces[i]) \in R
  BY <1>1, OnStreamFits
<1>3. r \in R
  OBVIOUS
<1> HIDE DEF R
<1>4. Folded(OnStream, r, pieces) \in R
  BY <1>1, <1>2, <1>3, StreamLoop
<1>5. QED
  BY <1>4 DEF R

------------------------------------------------------------------------------
(* The steps of b.                                                          *)

LEMMA RcvKnown ==
    ASSUME IInv
    PROVE  /\ rcv \in RcvLike(rcv, stream, snd.next) /\ rcv \in RcvStates(rcv)
           /\ rcv.cum \in Nat /\ rcv.offered \in Nat /\ rcv.consumed \in Nat
           /\ rcv.handling \in Nat /\ rcv.app \in Seq(Byte) /\ read \in Seq(Byte)
           /\ rcv.seen \in SUBSET Nat /\ rcv.cum <= snd.next /\ rcv.cum <= rcv.offered
           /\ rcv.consumed + rcv.handling = Len(read) /\ rcv.offered <= rcv.consumed + Window
           /\ snd.next \in Nat /\ snd.next <= Len(stream) /\ stream \in Seq(Byte)
           /\ Len(read) \in Nat /\ Len(stream) \in Nat
<1>1. RcvFits(rcv, read, stream, snd.next) /\ read \in Seq(Byte) /\ stream \in Seq(Byte)
  BY DEF IInv
<1>2. rcv \in RcvStates(rcv) /\ rcv.cum <= snd.next /\ rcv.cum <= rcv.offered
  BY <1>1 DEF RcvFits
<1>3. /\ rcv.cum \in Nat /\ rcv.offered \in Nat /\ rcv.consumed \in Nat
      /\ rcv.handling \in Nat /\ rcv.app \in Seq(Byte) /\ rcv.seen \in SUBSET Nat
  BY <1>2 DEF RcvStates
<1>4. rcv.cum <= rcv.cum
  BY <1>3
<1>5. rcv \in RcvLike(rcv, stream, snd.next)
  BY <1>1, <1>2, <1>4 DEF RcvLike
<1>6. snd.next \in Nat /\ snd.next <= Len(stream)
  BY SndKnown DEF SndFits
<1>7. Len(read) \in Nat /\ Len(stream) \in Nat
  BY <1>1, LenProperties
<1>8. QED
  BY <1>1, <1>2, <1>3, <1>5, <1>6, <1>7 DEF IInv

(* The fields beside the stream make no difference.                         *)
LEMMA SameRcv ==
    ASSUME NEW r, NEW rd, NEW st, NEW n, RcvFits(r, rd, st, n), NEW t, t \in RcvStates(t),
           t.cum = r.cum, t.offered = r.offered, t.app = r.app, t.ooo = r.ooo
    PROVE  RcvFits(t, rd, st, n)
BY DEF RcvFits

(* on_datagram: what b knows after a packet, and what it may answer.        *)
LEMMA OnPacketFits ==
    ASSUME IInv, NEW p \in Packets(stream, snd.next), OnPacket(p)
    PROVE  /\ RcvFits(rcv', read, stream, snd.next) /\ rcv.cum <= rcv'.cum
           /\ rcv'.offered = rcv.offered /\ rcv'.consumed = rcv.consumed
           /\ rcv'.handling = rcv.handling
           /\ toA' \in Seq(Answers(rcv.cum, rcv.offered))
<1> DEFINE n == snd.next
           q == Folded(OnStream, rcv, p.pieces)
           seen == Newest(rcv.seen \cup {p.pn}, RxRanges)
           due == rcv.ackDue \/ p.kind # "response"
           r == [q EXCEPT !.seen = seen, !.ackDue = due]
           a == [kind |-> "challenge"]
<1>1. /\ rcv \in RcvLike(rcv, stream, n) /\ rcv \in RcvStates(rcv)
      /\ rcv.cum \in Nat /\ rcv.seen \in SUBSET Nat /\ read \in Seq(Byte)
      /\ n \in Nat /\ n <= Len(stream) /\ stream \in Seq(Byte)
  BY RcvKnown
<1>2. p.pieces \in Seq(PartsTo(stream, n)) /\ p.pn \in Nat
  BY DEF Packets
<1>3. q \in RcvLike(rcv, stream, n)
  BY <1>1, <1>2, StreamFits
<1>4. toA \in Seq(Answers(rcv.cum, rcv.offered))
  BY DEF IInv
<1>5. Append(toA, a) \in Seq(Answers(rcv.cum, rcv.offered))
  <2>1. a \in Answers(rcv.cum, rcv.offered)
    BY DEF Answers
  <2>2. QED
    BY <1>4, <2>1, AppendProperties
<1>6. CASE TooOld(rcv.seen, p.pn)
  <2>1. rcv' = rcv /\ toA' = toA
    BY <1>6 DEF OnPacket
  <2>2. rcv.cum <= rcv.cum /\ RcvFits(rcv, read, stream, n)
    BY <1>1 DEF RcvLike
  <2>3. QED
    BY <1>4, <2>1, <2>2
<1>7. CASE ~TooOld(rcv.seen, p.pn)
  <2>1. q.ackDue = rcv.ackDue /\ q.seen \in SUBSET Nat /\ q \in RcvStates(rcv)
        /\ RcvFits(q, read, stream, n) /\ rcv.cum <= q.cum /\ q.offered = rcv.offered
        /\ q.consumed = rcv.consumed /\ q.handling = rcv.handling
    BY <1>3 DEF RcvLike, RcvStates
  <2> DEFINE new == [Folded(OnStream, rcv, p.pieces) EXCEPT
                      !.seen = Newest(@ \cup {p.pn}, RxRanges),
                      !.ackDue = @ \/ p.kind # "response"]
             sn == Newest(q.seen \cup {p.pn}, RxRanges)
             ad == q.ackDue \/ p.kind # "response"
  <2>2. \/ rcv' = [new EXCEPT !.fresh = TRUE] /\ toA' = toA
        \/ rcv' = [new EXCEPT !.remote = p.from, !.fresh = TRUE, !.challenged = 0] /\ toA' = toA
        \/ rcv' = [new EXCEPT !.fresh = FALSE] /\ toA' = toA
        \/ rcv' = [new EXCEPT !.challenged = p.from] /\ (toA' = toA \/ toA' = Append(toA, a))
    BY <1>7, Zenon DEF OnPacket
  <2>3. sn \in SUBSET Nat
    BY <1>2, <2>1 DEF Newest
  <2>4. new = [q EXCEPT !.seen = sn, !.ackDue = ad]
    OBVIOUS
  <2> HIDE DEF q, new, sn, ad, a
  <2>5. /\ new \in RcvStates(new) /\ new.cum = q.cum /\ new.offered = q.offered
        /\ new.app = q.app /\ new.ooo = q.ooo /\ new.consumed = q.consumed
        /\ new.handling = q.handling
    BY <2>1, <2>3, <2>4 DEF RcvStates
  <2>6. /\ rcv' \in RcvStates(rcv') /\ rcv'.cum = new.cum /\ rcv'.offered = new.offered
        /\ rcv'.app = new.app /\ rcv'.ooo = new.ooo /\ rcv'.consumed = new.consumed
        /\ rcv'.handling = new.handling
    <3>1. CASE rcv' = [new EXCEPT !.fresh = TRUE]
      BY <2>5, <3>1 DEF RcvStates
    <3>2. CASE rcv' = [new EXCEPT !.remote = p.from, !.fresh = TRUE, !.challenged = 0]
      BY <2>5, <3>2 DEF RcvStates
    <3>3. CASE rcv' = [new EXCEPT !.fresh = FALSE]
      BY <2>5, <3>3 DEF RcvStates
    <3>4. CASE rcv' = [new EXCEPT !.challenged = p.from]
      BY <2>5, <3>4 DEF RcvStates
    <3>5. QED
      BY <2>2, <3>1, <3>2, <3>3, <3>4
  <2>7. RcvFits(rcv', read, stream, n)
    BY <2>1, <2>5, <2>6, SameRcv
  <2>8. toA' \in Seq(Answers(rcv.cum, rcv.offered))
    BY <1>4, <1>5, <2>2
  <2>9. QED
    BY <2>1, <2>5, <2>6, <2>7, <2>8
<1>8. QED
  BY <1>6, <1>7

(* A later acknowledgement may say more.                                    *)
LEMMA AnswersGrow ==
    ASSUME NEW c \in Nat, NEW d \in Nat, c <= d, NEW o \in Nat, NEW m \in Nat, o <= m
    PROVE  Seq(Answers(c, o)) \subseteq Seq(Answers(d, m))
<1>1. 0..c \subseteq 0..d /\ 0..o \subseteq 0..m
  OBVIOUS
<1>2. Answers(c, o) \subseteq Answers(d, m)
  BY <1>1 DEF Answers
<1>3. QED
  BY <1>2, SeqMonotonic

LEMMA ReceiveKeeps ==
    ASSUME IInv, NEW i \in 1..Len(toB), Receive(i)
    PROVE  IInv' /\ Promised
<1>1. toB \in Seq(Packets(stream, snd.next)) /\ home \in Networks /\ faults \in Together
      /\ snd.cum <= rcv.cum /\ snd.limit <= rcv.offered
      /\ rcv.consumed + rcv.handling = Len(read) /\ rcv.offered <= rcv.consumed + Window
      /\ read \in Seq(Byte) /\ snd.cum \in Nat /\ rcv.cum \in Nat /\ rcv.offered \in Nat
  BY SndKnown, RcvKnown
<1>2. /\ OnPacket(toB[i]) /\ toB' = RemoveAt(toB, i)
      /\ UNCHANGED <<snd, stream, read, home, closed>>
      /\ IF i > 1 THEN Fault("reorder") ELSE UNCHANGED faults
  BY DEF Receive
<1>3. toB[i] \in Packets(stream, snd.next)
  BY <1>1, ElementOfSeq
<1>4. /\ RcvFits(rcv', read, stream, snd.next) /\ rcv.cum <= rcv'.cum
      /\ rcv'.offered = rcv.offered /\ rcv'.consumed = rcv.consumed
      /\ rcv'.handling = rcv.handling
      /\ toA' \in Seq(Answers(rcv.cum, rcv.offered))
  BY <1>2, <1>3, OnPacketFits
<1>5. rcv'.cum \in Nat /\ snd.cum <= rcv'.cum
  <2>1. rcv'.cum \in Nat
    BY <1>4 DEF RcvFits, RcvStates
  <2>2. QED
    BY <1>1, <1>4, <2>1
<1>6. toA' \in Seq(Answers(rcv'.cum, rcv'.offered))
  <2>1. rcv.offered <= rcv.offered
    BY <1>1
  <2>2. Seq(Answers(rcv.cum, rcv.offered)) \subseteq Seq(Answers(rcv'.cum, rcv.offered))
    BY <1>1, <1>4, <1>5, <2>1, AnswersGrow
  <2>3. QED
    BY <1>4, <2>2
<1>7. toB' \in Seq(Packets(stream, snd.next))
  <2>1. i \in DOMAIN toB
    BY <1>1, LenProperties
  <2>2. QED
    BY <1>1, <1>2, <2>1, RemoveOne
<1>8. faults' \in Together
  BY <1>1, <1>2 DEF Fault
<1>9. IInv'
  BY <1>1, <1>2, <1>4, <1>5, <1>6, <1>7, <1>8, ReceiverStep
<1>10. QED
  BY <1>2, <1>9 DEF Promised

(* What is read or waits to be read is the stream up to cum.                *)
LEMMA ReadSoFar ==
    ASSUME IInv
    PROVE  rcv.cum = Len(read) + Len(rcv.app) /\ rcv.cum <= Len(stream) /\ Len(rcv.app) \in Nat
<1>1. /\ rcv.cum \in Nat /\ rcv.app \in Seq(Byte) /\ read \in Seq(Byte) /\ stream \in Seq(Byte)
      /\ snd.next \in Nat /\ rcv.cum <= snd.next /\ snd.next <= Len(stream)
      /\ Len(read) \in Nat /\ Len(stream) \in Nat
  BY RcvKnown
<1>2. read \o rcv.app = SubSeq(stream, 1, rcv.cum)
  BY RcvKnown, RcvTypes
<1>3. Len(read \o rcv.app) = Len(read) + Len(rcv.app)
  BY <1>1, ConcatProperties
<1>4. rcv.cum <= Len(stream)
  BY <1>1
<1>5. Len(SubSeq(stream, 1, rcv.cum)) = rcv.cum
  <2>1. PICK z \in Nat : z = 0
    OBVIOUS
  <2>2. z <= rcv.cum /\ z + 1 = 1 /\ rcv.cum - z = rcv.cum
    BY <1>1, <2>1
  <2>3. Len(SubSeq(stream, z + 1, rcv.cum)) = rcv.cum - z
    BY <1>1, <1>4, <2>2, PartFacts
  <2>4. QED
    BY <2>2, <2>3
<1>6. Len(rcv.app) \in Nat
  BY <1>1, LenProperties
<1>7. QED
  BY <1>2, <1>3, <1>4, <1>5, <1>6

LEMMA SendAckKeeps ==
    ASSUME IInv, SendAck
    PROVE  IInv' /\ Promised
<1> DEFINE max == Max({rcv.offered, rcv.consumed + Window})
           ack == [kind |-> "ack", cum |-> rcv.cum, max |-> max,
                   ranges |-> Newest(rcv.seen, AckRanges)]
           r == [rcv EXCEPT !.ackDue = FALSE, !.offered = max]
<1>1. /\ rcv' = r /\ (toA' = Append(toA, ack) \/ toA' = toA)
      /\ UNCHANGED <<snd, stream, read, toB, home, closed, faults>>
  BY DEF SendAck
<1>2. /\ toB \in Seq(Packets(stream, snd.next)) /\ home \in Networks /\ faults \in Together
      /\ snd.cum <= rcv.cum /\ snd.limit <= rcv.offered /\ snd.limit \in Nat
      /\ toA \in Seq(Answers(rcv.cum, rcv.offered))
  BY SndKnown
<1>3. /\ rcv \in RcvStates(rcv) /\ RcvFits(rcv, read, stream, snd.next)
      /\ rcv.cum \in Nat /\ rcv.offered \in Nat /\ rcv.consumed \in Nat /\ rcv.handling \in Nat
      /\ rcv.seen \in SUBSET Nat /\ rcv.cum <= rcv.offered /\ read \in Seq(Byte)
      /\ rcv.consumed + rcv.handling = Len(read) /\ rcv.offered <= rcv.consumed + Window
  BY RcvKnown DEF RcvLike
<1>4. Window \in Nat /\ rcv.consumed + Window \in Nat
  BY <1>3, UdpAssumption
<1>5. /\ max \in Nat /\ rcv.offered <= max
      /\ max = rcv.offered \/ max = rcv.consumed + Window
  BY <1>3, <1>4, MaxOfTwo
<1> HIDE DEF max
<1>6. max <= rcv.consumed + Window /\ rcv.cum <= max /\ snd.limit <= max
  BY <1>2, <1>3, <1>4, <1>5
<1>7. /\ r \in RcvStates(r) /\ r.cum = rcv.cum /\ r.offered = max /\ r.app = rcv.app
      /\ r.ooo = rcv.ooo /\ r.consumed = rcv.consumed /\ r.handling = rcv.handling
  BY <1>3, <1>5 DEF RcvStates
<1>8. Pieces(rcv.ooo, stream, snd.next, max)
  <2> DEFINE o == rcv.ooo
  <2>1. Pieces(o, stream, snd.next, rcv.offered)
    BY <1>3 DEF RcvFits
  <2> HIDE DEF o
  <2>2. \A k \in DOMAIN o : k + Len(o[k]) <= max
    <3> TAKE k \in DOMAIN o
    <3>1. k \in Nat /\ Len(o[k]) \in Nat /\ k + Len(o[k]) <= rcv.offered
      BY <2>1, PieceFacts
    <3> DEFINE x == k + Len(o[k])
    <3>2. x \in Nat /\ x <= rcv.offered
      BY <3>1
    <3> HIDE DEF x
    <3>3. x <= max
      BY <1>3, <1>5, <3>2
    <3>4. QED
      BY <3>3 DEF x
  <2>3. Pieces(o, stream, snd.next, max)
    BY <2>1, <2>2 DEF Pieces
  <2>4. QED
    BY <2>3 DEF o
<1> HIDE DEF r
<1>9. RcvFits(rcv', read, stream, snd.next)
  <2>1. RcvFits(r, read, stream, snd.next)
    BY <1>3, <1>6, <1>7, <1>8 DEF RcvFits
  <2>2. QED
    BY <1>1, <2>1
<1>10. toA' \in Seq(Answers(rcv.cum, max))
  <2>1. toA \in Seq(Answers(rcv.cum, max))
    <3>1. rcv.cum <= rcv.cum
      BY <1>3
    <3>2. QED
      BY <1>2, <1>3, <1>5, <3>1, AnswersGrow
  <2>2. ack \in Answers(rcv.cum, max)
    <3>1. Newest(rcv.seen, AckRanges) \in SUBSET Nat
      BY <1>3 DEF Newest
    <3>2. rcv.cum \in 0..rcv.cum /\ max \in 0..max
      BY <1>3, <1>5
    <3>3. QED
      BY <3>1, <3>2 DEF Answers
  <2> HIDE DEF ack
  <2>3. Append(toA, ack) \in Seq(Answers(rcv.cum, max))
    BY <2>1, <2>2, AppendProperties
  <2>4. QED
    BY <1>1, <2>1, <2>3
<1>11. /\ rcv'.cum = rcv.cum /\ rcv'.offered = max /\ rcv'.consumed = rcv.consumed
       /\ rcv'.handling = rcv.handling
  BY <1>1, <1>7
<1>12. IInv'
  BY <1>1, <1>2, <1>3, <1>6, <1>9, <1>10, <1>11, ReceiverStep
<1>13. QED
  BY <1>1, <1>12 DEF Promised

LEMMA TakeKeeps ==
    ASSUME IInv, Take
    PROVE  IInv' /\ Promised
<1> DEFINE r == [rcv EXCEPT !.handling = Len(rcv.app), !.app = <<>>]
<1>1. /\ rcv.handling = 0 /\ rcv.app # <<>> /\ rcv' = r /\ read' = read \o rcv.app
      /\ UNCHANGED <<snd, stream, toB, toA, home, closed, faults>>
  BY DEF Take
<1>2. /\ toB \in Seq(Packets(stream, snd.next)) /\ home \in Networks /\ faults \in Together
      /\ snd.cum <= rcv.cum /\ snd.limit <= rcv.offered
      /\ toA \in Seq(Answers(rcv.cum, rcv.offered))
  BY SndKnown
<1>3. /\ rcv \in RcvStates(rcv) /\ RcvFits(rcv, read, stream, snd.next)
      /\ rcv.cum \in Nat /\ rcv.consumed \in Nat /\ rcv.app \in Seq(Byte)
      /\ read \in Seq(Byte) /\ stream \in Seq(Byte) /\ Len(read) \in Nat /\ Len(stream) \in Nat
      /\ rcv.consumed + rcv.handling = Len(read) /\ rcv.offered <= rcv.consumed + Window
  BY RcvKnown DEF RcvLike
<1>4. /\ rcv.cum = Len(read) + Len(rcv.app) /\ rcv.cum <= Len(stream) /\ Len(rcv.app) \in Nat
  BY ReadSoFar
<1>5. read' = SubSeq(stream, 1, rcv.cum)
  BY <1>1, <1>3 DEF RcvFits
<1>6. read' \in Seq(Byte) /\ Len(read') = Len(read) + Len(rcv.app)
  BY <1>1, <1>3, ConcatProperties
<1>7. /\ r \in RcvStates(r) /\ r.cum = rcv.cum /\ r.offered = rcv.offered /\ r.app = <<>>
      /\ r.ooo = rcv.ooo /\ r.consumed = rcv.consumed /\ r.handling = Len(rcv.app)
  <2>1. <<>> \in Seq(Byte)
    OBVIOUS
  <2> DEFINE l == Len(rcv.app)
  <2>2. l \in Nat
    BY <1>4
  <2> HIDE DEF l
  <2>3. /\ [rcv EXCEPT !.handling = l, !.app = <<>>]
             \in RcvStates([rcv EXCEPT !.handling = l, !.app = <<>>])
        /\ [rcv EXCEPT !.handling = l, !.app = <<>>].handling = l
    BY <1>3, <2>1, <2>2 DEF RcvStates
  <2>4. /\ r.cum = rcv.cum /\ r.offered = rcv.offered /\ r.app = <<>>
        /\ r.ooo = rcv.ooo /\ r.consumed = rcv.consumed
    BY <1>3 DEF RcvStates
  <2>5. QED
    BY <2>3, <2>4 DEF l
<1> HIDE DEF r
<1>8. read' \o <<>> = read'
  BY <1>6, ConcatEmptySeq
<1>9. RcvFits(rcv', read', stream, snd.next)
  <2>1. RcvFits(r, read', stream, snd.next)
    BY <1>3, <1>5, <1>7, <1>8 DEF RcvFits
  <2>2. QED
    BY <1>1, <2>1
<1>10. /\ rcv'.cum = rcv.cum /\ rcv'.offered = rcv.offered /\ rcv'.consumed = rcv.consumed
       /\ rcv'.handling = Len(rcv.app)
  BY <1>1, <1>7
<1>11. rcv'.consumed + rcv'.handling = Len(read')
  <2>1. \A x, y, z \in Nat : x + 0 = y => x + z = y + z
    OBVIOUS
  <2>2. rcv.consumed + 0 = Len(read)
    BY <1>1, <1>3
  <2>3. rcv.consumed + Len(rcv.app) = Len(read) + Len(rcv.app)
    BY <1>3, <1>4, <2>1, <2>2
  <2>4. QED
    BY <1>6, <1>10, <2>3
<1>12. IInv'
  BY <1>1, <1>2, <1>3, <1>6, <1>9, <1>10, <1>11, ReceiverStep
<1>13. Promise!Deliver
  <2>1. Len(rcv.app) # 0
    BY <1>1, <1>3, EmptySeq
  <2>2. rcv.cum \in (Len(read) + 1)..Len(stream)
    BY <1>3, <1>4, <2>1
  <2>3. QED
    BY <1>1, <1>5, <2>2 DEF Promise!Deliver
<1>14. QED
  BY <1>12, <1>13 DEF Promised

LEMMA HandledKeeps ==
    ASSUME IInv, Handled
    PROVE  IInv' /\ Promised
<1> DEFINE h == rcv.consumed + rcv.handling
           due == rcv.ackDue \/ h + Window - rcv.offered >= Window \div 4
           r == [rcv EXCEPT !.consumed = h, !.handling = 0, !.ackDue = due]
<1>1. UNCHANGED <<snd, stream, read, toB, toA, home, closed, faults>>
  BY DEF Handled
<1>2. /\ toB \in Seq(Packets(stream, snd.next)) /\ home \in Networks /\ faults \in Together
      /\ snd.cum <= rcv.cum /\ snd.limit <= rcv.offered
      /\ toA \in Seq(Answers(rcv.cum, rcv.offered))
  BY SndKnown
<1>3. /\ rcv \in RcvStates(rcv) /\ RcvFits(rcv, read, stream, snd.next)
      /\ rcv.consumed \in Nat /\ rcv.handling \in Nat /\ rcv.offered \in Nat
      /\ read \in Seq(Byte)
      /\ h = Len(read) /\ rcv.offered <= rcv.consumed + Window
  BY RcvKnown DEF RcvLike
<1>4. h \in Nat /\ h + 0 = h /\ rcv.offered <= h + Window
  <2>1. Window \in Nat
    BY UdpAssumption
  <2>2. QED
    BY <1>3, <2>1
<1>5. rcv' = r
  BY <1>3 DEF Handled, RcvStates
<1> HIDE DEF h, due
<1>6. /\ r \in RcvStates(r) /\ r.cum = rcv.cum /\ r.offered = rcv.offered /\ r.app = rcv.app
      /\ r.ooo = rcv.ooo /\ r.consumed = h /\ r.handling = 0
  BY <1>3, <1>4 DEF RcvStates
<1> HIDE DEF r
<1>7. RcvFits(rcv', read, stream, snd.next)
  BY <1>3, <1>5, <1>6, SameRcv
<1>8. IInv'
  BY <1>1, <1>2, <1>3, <1>4, <1>5, <1>6, <1>7, ReceiverStep
<1>9. QED
  BY <1>1, <1>8 DEF Promised

------------------------------------------------------------------------------
(* The network and the ends.                                                *)

LEMMA NetworkKeeps ==
    ASSUME IInv, Lose \/ Repeat \/ Move \/ \E e \in {"a", "b"} : Close(e) \/ CloseToo(e)
    PROVE  IInv' /\ Promised
<1>1. /\ toB \in Seq(Packets(stream, snd.next)) /\ toA \in Seq(Answers(rcv.cum, rcv.offered))
      /\ home \in Networks /\ faults \in Together
  BY SndKnown
<1>2. UNCHANGED <<snd, rcv, stream, read>> /\ faults' \in Together
  BY <1>1 DEF Lose, Repeat, Move, Close, CloseToo, Fault
<1>3. toB' \in Seq(Packets(stream, snd.next))
  <2>1. CASE \E i \in DOMAIN toB : toB' = RemoveAt(toB, i)
    BY <1>1, <2>1, RemoveOne
  <2>2. CASE \E i \in DOMAIN toB : toB' = Append(toB, toB[i])
    <3>1. PICK i \in DOMAIN toB : toB' = Append(toB, toB[i])
      BY <2>2
    <3>2. toB[i] \in Packets(stream, snd.next)
      BY <1>1, ElementOfSeq, LenProperties
    <3>3. QED
      BY <1>1, <3>1, <3>2, AppendProperties
  <2>3. CASE toB' = toB
    BY <1>1, <2>3
  <2>4. QED
    BY <2>1, <2>2, <2>3 DEF Lose, Repeat, Move, Close, CloseToo
<1>4. toA' \in Seq(Answers(rcv.cum, rcv.offered))
  <2>1. CASE \E i \in DOMAIN toA : toA' = RemoveAt(toA, i)
    BY <1>1, <2>1, RemoveOne
  <2>2. CASE toA' = toA \/ toA' = <<>>
    <3>1. <<>> \in Seq(Answers(rcv.cum, rcv.offered))
      OBVIOUS
    <3>2. QED
      BY <1>1, <2>2, <3>1
  <2>3. QED
    BY <2>1, <2>2 DEF Lose, Repeat, Move, Close, CloseToo
<1>5. home' \in Networks
  BY <1>1 DEF Lose, Repeat, Move, Close, CloseToo
<1>6. IInv'
  BY <1>2, <1>3, <1>4, <1>5 DEF IInv
<1>7. QED
  BY <1>2, <1>6 DEF Promised

------------------------------------------------------------------------------
(* The theorems.                                                            *)

LEMMA InitIsKept == Init => IInv /\ Promise!SInit
<1> SUFFICES ASSUME Init PROVE IInv /\ Promise!SInit
  OBVIOUS
<1>1. /\ stream = <<>> /\ read = <<>> /\ toB = <<>> /\ toA = <<>> /\ home = 1 /\ faults = {}
      /\ snd.urgent = <<>> /\ snd.bulk = <<>> /\ snd.writable = TRUE
      /\ snd.next = 0 /\ snd.cum = 0 /\ snd.limit = Window /\ snd.retx = <<>>
      /\ snd.sent = <<>> /\ snd.pn = 0 /\ snd.skipped = {}
      /\ rcv.seen = {} /\ rcv.cum = 0 /\ rcv.ooo = <<>> /\ rcv.app = <<>> /\ rcv.handling = 0
      /\ rcv.consumed = 0 /\ rcv.offered = Window
  BY DEF Init
<1>2. Window \in Nat /\ {} \in Together
  BY UdpAssumption
<1>3. ASSUME NEW S PROVE <<>> \in Maps(S)
  <2>1. <<>> \in Seq(S) /\ Len(<<>>) = 0 /\ 1..0 = {}
    OBVIOUS
  <2>2. <<>> \in [1..Len(<<>>) -> S]
    BY <2>1, LenProperties
  <2>3. <<>> \in [{} -> S]
    BY <2>1, <2>2
  <2>4. {} \in SUBSET Nat
    OBVIOUS
  <2>5. QED
    BY <2>3, <2>4 DEF Maps
<1>4. snd \in SndStates(snd)
  BY <1>2, <1>3 DEF Init, SndStates
<1>5. rcv \in RcvStates(rcv)
  BY <1>2, <1>3 DEF Init, RcvStates
<1>6. Len(<<>>) = 0 /\ \A S : <<>> \in Seq(S)
  OBVIOUS
<1>7. SndFits(snd, <<>>)
  <2>1. 0..(0 - 1) = {} /\ 0 <= 0 /\ 0 <= Window
    BY <1>2
  <2>2. DOMAIN <<>> = {}
    OBVIOUS
  <2>3. QED
    BY <1>1, <1>4, <1>6, <2>1, <2>2 DEF SndFits
<1>8. Pieces(<<>>, <<>>, 0, Window)
  <2>1. DOMAIN <<>> = {} /\ Spots(<<>>) = {}
    BY DEF Spots
  <2>2. IsFiniteSet({}) /\ Cardinality({}) = 0
    BY FS_EmptySet
  <2>3. Waiting(<<>>) = 0
    BY <2>1, <2>2 DEF Waiting, Spots
  <2>4. <<>> \in Maps(Seq(Byte))
    BY <1>3
  <2>5. \A o : /\ DOMAIN o = {} /\ Spots(o) = {} /\ o \in Maps(Seq(Byte)) /\ Waiting(o) = 0
              => Pieces(o, <<>>, 0, Window)
    BY <1>2, <2>2 DEF Pieces
  <2>6. QED
    BY <2>1, <2>3, <2>4, <2>5
<1>9. RcvFits(rcv, <<>>, <<>>, 0)
  <2>1. <<>> \o <<>> = SubSeq(<<>>, 1, 0)
    OBVIOUS
  <2>2. 0 <= 0 /\ 0 <= Window
    BY <1>2
  <2>3. QED
    BY <1>1, <1>5, <1>8, <2>1, <2>2 DEF RcvFits
<1>10. IInv
  <2>1. 0 + 0 = 0 /\ 0 <= 0 /\ Window <= Window /\ Window <= 0 + Window
    BY <1>2
  <2>2. home \in Networks
    BY <1>1 DEF Networks
  <2>3. QED
    BY <1>1, <1>2, <1>6, <1>7, <1>9, <2>1, <2>2 DEF IInv
<1>11. QED
  BY <1>1, <1>10 DEF Promise!SInit

LEMMA EveryStep == IInv /\ [Next]_vars => IInv' /\ Promised
<1> SUFFICES ASSUME IInv, [Next]_vars PROVE IInv' /\ Promised
  OBVIOUS
<1>1. CASE \E f \in Frames : Write(f)
  BY <1>1, WriteKeeps
<1>2. CASE SendData
  BY <1>2, SendDataKeeps
<1>3. CASE ProbePath \/ ProbeTimeout \/ KeepAlive
  BY <1>3, ProbeKeeps
<1>4. CASE LossByTime
  BY <1>4, LossByTimeKeeps
<1>5. CASE \E i \in 1..Len(toB) : Receive(i)
  BY <1>5, ReceiveKeeps
<1>6. CASE SendAck
  BY <1>6, SendAckKeeps
<1>7. CASE Take
  BY <1>7, TakeKeeps
<1>8. CASE Handled
  BY <1>8, HandledKeeps
<1>9. CASE ReceiveAtA
  BY <1>9, ReceiveAtAKeeps
<1>10. CASE Lose \/ Repeat \/ Move \/ \E e \in {"a", "b"} : Close(e) \/ CloseToo(e)
  BY <1>10, NetworkKeeps
<1>11. CASE UNCHANGED vars
  BY <1>11 DEF IInv, Promised, vars
<1>12. QED
  BY <1>1, <1>2, <1>3, <1>4, <1>5, <1>6, <1>7, <1>8, <1>9, <1>10, <1>11 DEF Next, Progress

LEMMA Inductive == Spec => []IInv
<1>1. Init => IInv
  BY InitIsKept
<1>2. IInv /\ [Next]_vars => IInv'
  BY EveryStep
<1>3. QED
  BY <1>1, <1>2, PTL DEF Spec

(* Whatever is lost, repeated, delayed or moved, b counts what it reads     *)
(* (_consumed) and waits with no more than a window, and a sends nothing    *)
(* beyond the window b gave it (_peer_max).                                 *)
THEOREM TypesOfTheStream == Spec => []TypeOK
<1>1. IInv => TypeOK
  <2> SUFFICES ASSUME IInv PROVE TypeOK
    OBVIOUS
  <2>1. rcv.cum = Len(read) + Len(rcv.app)
    BY ReadSoFar
  <2>2. /\ rcv.consumed + rcv.handling = Len(read) /\ rcv.cum <= snd.next
        /\ snd.cum <= rcv.cum /\ snd.limit <= rcv.offered
        /\ rcv.offered <= rcv.consumed + Window /\ faults \in Together
    BY RcvKnown, SndKnown
  <2>3. Waiting(rcv.ooo) <= Window
    BY DEF IInv, RcvFits, Pieces
  <2>4. /\ snd.next <= snd.limit /\ snd.retx \in Seq(RangesTo(snd.next))
        /\ DOMAIN snd.sent \subseteq (0..(snd.pn - 1)) \ snd.skipped
    BY DEF IInv, SndFits
  <2>5. \A r \in Range(snd.retx) : r[1] \in Nat /\ r[2] > 0
    <3>1. \A i \in DOMAIN snd.retx : snd.retx[i] \in RangesTo(snd.next)
      BY <2>4, ElementOfSeq, LenProperties
    <3>2. \A r \in Range(snd.retx) : r \in RangesTo(snd.next)
      BY <3>1 DEF Range
    <3>3. QED
      BY <3>2 DEF RangesTo
  <2>6. QED
    BY <2>1, <2>2, <2>3, <2>4, <2>5 DEF TypeOK
<1>2. QED
  BY <1>1, Inductive, PTL

(* The connection keeps the promise of ByteStream: frames enter the stream  *)
(* whole, one after the other, and the read loop reads it from its start,   *)
(* in order and without gaps, whatever the network does to the packets.     *)
THEOREM TheStreamIsRead == Spec => ReadsTheStream
<1>1. Init => Promise!SInit
  BY InitIsKept
<1>2. IInv /\ [Next]_vars => [Promise!Commit \/ Promise!Deliver]_<<stream, read>>
  BY EveryStep DEF Promised
<1>3. QED
  BY <1>1, <1>2, Inductive, PTL DEF Spec, ReadsTheStream, Promise!StreamSpec

------------------------------------------------------------------------------
(* Nothing is forgotten.                                                    *)

(* What is said of the bytes from cum c to N, of which K is every range     *)
(* somebody has or is about to get, and V the ranges that are waiting or    *)
(* will be delivered: a byte is in one of V, and those behind the end of a  *)
(* range of K are in one of V that starts there or later.                   *)
End(r) == r[1] + r[2]
Holds(r, n) == r[1] <= n /\ n < r[1] + r[2]
Ahead(e, V, c, n) == \E r \in V : Holds(r, n) /\ (e <= c \/ e <= r[1])
Kept(K, V, c, N) ==
    \A n \in Nat : c <= n /\ n < N =>
        /\ Ahead(0, V, c, n)
        /\ \A r \in K : End(r) <= n => Ahead(End(r), V, c, n)

Spans == Nat \X (Nat \ {0})

LEMMA KeptMoves ==
    ASSUME NEW K \in SUBSET Spans, NEW V \in SUBSET Spans, NEW c \in Nat, NEW N \in Nat, Kept(K, V, c, N),
           NEW M \in SUBSET Spans, NEW W \in SUBSET Spans, NEW d \in Nat, c <= d,
           \A r \in V : \A n \in Nat : d <= n /\ n < N /\ Holds(r, n)
              => \E x \in W : Holds(x, n) /\ r[1] <= x[1],
           \A r \in M : \E x \in K : End(x) = End(r)
    PROVE  Kept(M, W, d, N)
<1>1. ASSUME NEW n \in Nat, d <= n, n < N, NEW e \in Nat, Ahead(e, V, c, n)
      PROVE  Ahead(e, W, d, n)
  <2>1. PICK r \in V : Holds(r, n) /\ (e <= c \/ e <= r[1])
    BY <1>1 DEF Ahead
  <2>2. PICK x \in W : Holds(x, n) /\ r[1] <= x[1]
    BY <1>1, <2>1
  <2>3. r[1] \in Nat /\ x[1] \in Nat
    BY DEF Spans
  <2>4. e <= d \/ e <= x[1]
    BY <2>1, <2>2, <2>3
  <2>5. QED
    BY <2>2, <2>4 DEF Ahead
<1>2. ASSUME NEW n \in Nat, d <= n, n < N PROVE Ahead(0, W, d, n)
  BY <1>1, <1>2 DEF Kept
<1>3. ASSUME NEW n \in Nat, d <= n, n < N, NEW r \in M, End(r) <= n
      PROVE  Ahead(End(r), W, d, n)
  <2>1. PICK x \in K : End(x) = End(r)
    OBVIOUS
  <2>2. c <= n /\ End(x) \in Nat
    BY <1>3 DEF End, Spans
  <2>3. Ahead(End(x), V, c, n)
    BY <1>3, <2>1, <2>2 DEF Kept
  <2>4. QED
    BY <1>1, <1>3, <2>1, <2>2, <2>3
<1>4. QED
  BY <1>2, <1>3 DEF Kept

(* Fewer ranges somebody has, and more that will be delivered.              *)
LEMMA KeptByMore ==
    ASSUME NEW K \in SUBSET Spans, NEW V \in SUBSET Spans, NEW c \in Nat, NEW N \in Nat, Kept(K, V, c, N),
           NEW M \in SUBSET K, NEW W \in SUBSET Spans,
           \A r \in V : r \in W \/ End(r) <= c
    PROVE  Kept(M, W, c, N)
<1>1. ASSUME NEW r \in V, NEW n \in Nat, c <= n, n < N, Holds(r, n)
      PROVE  \E x \in W : Holds(x, n) /\ r[1] <= x[1]
  <2>1. r[1] \in Nat /\ r[2] \in Nat
    BY DEF Spans
  <2>2. ~(End(r) <= c)
    BY <1>1, <2>1 DEF End, Holds
  <2>3. QED
    BY <1>1, <2>1, <2>2
<1>2. \A r \in M : \E x \in K : End(x) = End(r)
  OBVIOUS
<1>3. M \in SUBSET Spans /\ c <= c
  OBVIOUS
<1>4. QED
  BY <1>1, <1>2, <1>3, KeptMoves

(* A range is cut in two: the parts come again, the second behind the first.*)
LEMMA KeptCut ==
    ASSUME NEW K \in SUBSET Spans, NEW V \in SUBSET Spans, NEW c \in Nat, NEW N \in Nat,
           NEW r \in Spans, Kept(K \cup {r}, V \cup {r}, c, N),
           NEW a \in Spans, NEW P \in SUBSET Spans, a \in P,
           \A x \in P : r[1] <= x[1] /\ (End(x) = End(r) \/ x = a),
           \A n \in Nat : c <= n /\ Holds(r, n) => \E x \in P : Holds(x, n),
           \A n \in Nat : c <= n /\ Holds(r, n) /\ End(a) <= n => \E x \in P : Holds(x, n) /\ End(a) <= x[1],
           End(a) <= End(r)
    PROVE  Kept(K \cup P, V \cup P, c, N)
<1>1. ASSUME NEW n \in Nat, c <= n, n < N, NEW e \in Nat, Ahead(e, V \cup {r}, c, n)
      PROVE  Ahead(e, V \cup P, c, n)
  <2>1. PICK y \in V \cup {r} : Holds(y, n) /\ (e <= c \/ e <= y[1])
    BY <1>1 DEF Ahead
  <2>2. CASE y \in V
    BY <2>1, <2>2 DEF Ahead
  <2>3. CASE y = r
    <3>1. PICK x \in P : Holds(x, n)
      BY <1>1, <2>1, <2>3
    <3>2. r[1] <= x[1] /\ r[1] \in Nat /\ x[1] \in Nat
      BY DEF Spans
    <3>3. e <= c \/ e <= x[1]
      BY <2>1, <2>3, <3>2
    <3>4. QED
      BY <3>1, <3>3 DEF Ahead
  <2>4. QED
    BY <2>1, <2>2, <2>3
<1>2. ASSUME NEW n \in Nat, c <= n, n < N PROVE Ahead(0, V \cup P, c, n)
  BY <1>1, <1>2 DEF Kept
<1>3. ASSUME NEW n \in Nat, c <= n, n < N, NEW x \in K \cup {r}, End(x) <= n
      PROVE  Ahead(End(x), V \cup P, c, n)
  <2>1. Ahead(End(x), V \cup {r}, c, n)
    BY <1>3 DEF Kept
  <2>2. End(x) \in Nat
    BY DEF End, Spans
  <2>3. QED
    BY <1>1, <1>3, <2>1, <2>2
<1>4. ASSUME NEW n \in Nat, c <= n, n < N, End(a) <= n
      PROVE  Ahead(End(a), V \cup P, c, n)
  <2>1. CASE Holds(r, n)
    BY <1>4, <2>1 DEF Ahead
  <2>2. CASE ~Holds(r, n)
    <3>1. PICK y \in V \cup {r} : Holds(y, n) /\ (End(r) <= c \/ End(r) <= y[1])
      <4>1. /\ r[1] \in Nat /\ r[2] \in Nat /\ a[1] \in Nat /\ a[2] \in Nat /\ r[1] <= a[1]
        BY DEF Spans
      <4>2. End(r) <= n
        BY <1>4, <2>2, <4>1 DEF Holds, End
      <4>3. Ahead(End(r), V \cup {r}, c, n)
        BY <1>4, <4>2 DEF Kept
      <4>4. QED
        BY <4>3 DEF Ahead
    <3>2. y \in V
      BY <2>2, <3>1
    <3>3. y[1] \in Nat /\ End(r) \in Nat /\ End(a) \in Nat
      BY <3>2 DEF End, Spans
    <3>4. End(a) <= c \/ End(a) <= y[1]
      BY <3>1, <3>3
    <3>5. QED
      BY <3>1, <3>2, <3>4 DEF Ahead
  <2>3. QED
    BY <2>1, <2>2
<1>5. ASSUME NEW n \in Nat, c <= n, n < N, NEW x \in K \cup P, End(x) <= n
      PROVE  Ahead(End(x), V \cup P, c, n)
  <2>1. CASE x \in K
    BY <1>3, <1>5, <2>1
  <2>2. CASE x \in P /\ End(x) = End(r)
    BY <1>3, <1>5, <2>2
  <2>3. CASE x = a
    BY <1>4, <1>5, <2>3
  <2>4. QED
    BY <2>1, <2>2, <2>3
<1>6. QED
  BY <1>2, <1>5 DEF Kept

(* A new range at the end of what was given out.                            *)
LEMMA KeptNew ==
    ASSUME NEW N \in Nat, NEW K \in SUBSET Spans, NEW V \in SUBSET Spans, NEW c \in Nat, Kept(K, V, c, N),
           \A r \in K : End(r) <= N, NEW t \in Nat, t > 0
    PROVE  Kept(K \cup {<<N, t>>}, V \cup {<<N, t>>}, c, N + t)
<1> DEFINE z == <<N, t>>
           W == V \cup {z}
<1>1. End(z) = N + t /\ z[1] = N /\ \A n \in Nat : N <= n /\ n < N + t => Holds(z, n)
  BY DEF End, Holds
<1> HIDE DEF z
<1>2. ASSUME NEW n \in Nat, c <= n, n < N + t, NEW e \in Nat, e <= N, n < N => Ahead(e, V, c, n)
      PROVE  Ahead(e, W, c, n)
  <2>1. CASE n < N
    BY <1>2, <2>1 DEF Ahead
  <2>2. CASE ~(n < N)
    <3>1. Holds(z, n) /\ e <= z[1]
      BY <1>1, <1>2, <2>2
    <3>2. QED
      BY <3>1 DEF Ahead
  <2>3. QED
    BY <2>1, <2>2
<1>3. ASSUME NEW n \in Nat, c <= n, n < N + t PROVE Ahead(0, W, c, n)
  BY <1>2, <1>3 DEF Kept
<1>4. ASSUME NEW n \in Nat, c <= n, n < N + t, NEW r \in K \cup {z}, End(r) <= n
      PROVE  Ahead(End(r), W, c, n)
  <2>1. r \in K
    BY <1>1, <1>4
  <2>2. End(r) \in Nat /\ End(r) <= N
    BY <2>1 DEF End, Spans
  <2>3. n < N => Ahead(End(r), V, c, n)
    BY <1>4, <2>1 DEF Kept
  <2>4. QED
    BY <1>2, <1>4, <2>2, <2>3
<1>5. QED
  BY <1>3, <1>4 DEF Kept, z

(* A range that comes when one that starts there waits already: what it has *)
(* more is in one that starts later, so in another.                         *)
LEMMA KeptAway ==
    ASSUME NEW K \in SUBSET Spans, NEW V \in SUBSET Spans, NEW c \in Nat, NEW N \in Nat,
           NEW q \in Spans, Kept(K, V \cup {q}, c, N),
           NEW w \in K \cap V, w[1] = q[1], c < q[1]
    PROVE  Kept(K, V, c, N)
<1>0. w[1] \in Nat /\ w[2] \in Nat /\ q[1] \in Nat /\ q[2] \in Nat /\ w[2] > 0
  BY DEF Spans
<1>1. ASSUME NEW n \in Nat, c <= n, n < N, NEW e \in Nat, Ahead(e, V \cup {q}, c, n)
      PROVE  Ahead(e, V, c, n)
  <2>1. PICK y \in V \cup {q} : Holds(y, n) /\ (e <= c \/ e <= y[1])
    BY <1>1 DEF Ahead
  <2>2. CASE y \in V
    BY <2>1, <2>2 DEF Ahead
  <2>3. CASE y = q /\ n < End(w)
    <3>1. Holds(w, n)
      BY <1>0, <2>1, <2>3 DEF Holds, End
    <3>2. e <= c \/ e <= w[1]
      BY <2>1, <2>3
    <3>3. QED
      BY <3>1, <3>2 DEF Ahead
  <2>4. CASE y = q /\ ~(n < End(w))
    <3>1. End(w) \in Nat /\ End(w) <= n /\ c < End(w) /\ q[1] < End(w)
      BY <1>0, <2>4 DEF End
    <3>2. Ahead(End(w), V \cup {q}, c, n)
      BY <1>1, <3>1 DEF Kept
    <3>3. PICK x \in V \cup {q} : Holds(x, n) /\ (End(w) <= c \/ End(w) <= x[1])
      BY <3>2 DEF Ahead
    <3>4. x \in V /\ x[1] \in Nat /\ End(w) <= x[1]
      BY <1>0, <3>1, <3>3 DEF Spans
    <3>5. e <= c \/ e <= x[1]
      BY <1>0, <2>1, <2>4, <3>1, <3>4
    <3>6. QED
      BY <3>3, <3>4, <3>5 DEF Ahead
  <2>5. QED
    BY <2>2, <2>3, <2>4
<1>2. ASSUME NEW n \in Nat, c <= n, n < N PROVE Ahead(0, V, c, n)
  BY <1>1, <1>2 DEF Kept
<1>3. ASSUME NEW n \in Nat, c <= n, n < N, NEW r \in K, End(r) <= n
      PROVE  Ahead(End(r), V, c, n)
  <2>1. End(r) \in Nat /\ Ahead(End(r), V \cup {q}, c, n)
    BY <1>3 DEF Kept, End, Spans
  <2>2. QED
    BY <1>1, <1>3, <2>1
<1>4. QED
  BY <1>2, <1>3 DEF Kept

(* What starts behind c goes, but for what one of them has from c on.       *)
LEMMA KeptBehind ==
    ASSUME NEW K \in SUBSET Spans, NEW V \in SUBSET Spans, NEW c \in Nat, NEW N \in Nat, Kept(K, V, c, N),
           NEW w \in K, c < End(w), NEW z \in Spans, z[1] = c, End(z) = End(w),
           NEW M \in SUBSET Spans, M \subseteq K \cup {z},
           NEW W \in SUBSET Spans, z \in W, \A r \in V : r \in W \/ r[1] < c
    PROVE  Kept(M, W, c, N)
<1>0. /\ z[1] \in Nat /\ z[2] \in Nat /\ End(w) \in Nat /\ w[1] \in Nat
  BY DEF Spans, End
<1>1. ASSUME NEW n \in Nat, c <= n, n < N, NEW e \in Nat, Ahead(e, V, c, n)
      PROVE  Ahead(e, W, c, n)
  <2>1. PICK y \in V : Holds(y, n) /\ (e <= c \/ e <= y[1])
    BY <1>1 DEF Ahead
  <2>2. CASE y \in W
    BY <2>1, <2>2 DEF Ahead
  <2>3. CASE y \notin W /\ n < End(w)
    <3>1. y[1] < c /\ y[1] \in Nat
      BY <2>3 DEF Spans
    <3>2. e <= c
      BY <2>1, <3>1
    <3>3. Holds(z, n)
      BY <1>0, <1>1, <2>3 DEF Holds, End
    <3>4. QED
      BY <3>2, <3>3 DEF Ahead
  <2>4. CASE y \notin W /\ ~(n < End(w))
    <3>1. y[1] < c /\ y[1] \in Nat
      BY <2>4 DEF Spans
    <3>2. e <= c
      BY <2>1, <3>1
    <3>3. End(w) <= n
      BY <1>0, <2>4
    <3>4. Ahead(End(w), V, c, n)
      BY <1>1, <3>3 DEF Kept
    <3>5. PICK x \in V : Holds(x, n) /\ (End(w) <= c \/ End(w) <= x[1])
      BY <3>4 DEF Ahead
    <3>6. x[1] \in Nat /\ c < x[1]
      BY <1>0, <3>5 DEF Spans
    <3>7. x \in W
      BY <3>6
    <3>8. QED
      BY <3>2, <3>5, <3>7 DEF Ahead
  <2>5. QED
    BY <2>2, <2>3, <2>4
<1>2. ASSUME NEW n \in Nat, c <= n, n < N PROVE Ahead(0, W, c, n)
  BY <1>1, <1>2 DEF Kept
<1>3. ASSUME NEW n \in Nat, c <= n, n < N, NEW r \in M, End(r) <= n
      PROVE  Ahead(End(r), W, c, n)
  <2>1. PICK x \in K : End(x) = End(r)
    OBVIOUS
  <2>2. End(x) \in Nat /\ Ahead(End(x), V, c, n)
    BY <1>3, <2>1 DEF Kept, End, Spans
  <2>3. QED
    BY <1>1, <1>3, <2>1, <2>2
<1>4. QED
  BY <1>2, <1>3 DEF Kept

------------------------------------------------------------------------------
(* Lists as sets of ranges.                                                 *)

LEMMA RangeOfAppend ==
    ASSUME NEW S, NEW q \in Seq(S), NEW x \in S
    PROVE  Range(Append(q, x)) = Range(q) \cup {x}
<1>0. <<x>> \in Seq(S) /\ Range(<<x>>) = {x}
  BY DEF Range
<1>1. PICK y \in Seq(S) : y = <<x>> /\ Range(y) = {x}
  BY <1>0
<1>2. Append(q, x) = q \o y
  BY <1>1, AppendIsConcat
<1>3. Range(q \o y) = Range(q) \cup Range(y)
  BY RangeConcatenation
<1>4. QED
  BY <1>1, <1>2, <1>3, Zenon

LEMMA RangeOfCons ==
    ASSUME NEW S, NEW q \in Seq(S), NEW x \in S
    PROVE  Range(<<x>> \o q) = {x} \cup Range(q)
<1>0. <<x>> \in Seq(S) /\ Range(<<x>>) = {x}
  BY DEF Range
<1>1. PICK y \in Seq(S) : y = <<x>> /\ Range(y) = {x}
  BY <1>0
<1>2. Range(y \o q) = Range(y) \cup Range(q)
  BY RangeConcatenation
<1>3. QED
  BY <1>1, <1>2, Zenon

LEMMA RangeOfRest ==
    ASSUME NEW S, NEW q \in Seq(S), q # <<>>
    PROVE  Range(q) = {q[1]} \cup Range(Tail(q))
<1>1. q = <<Head(q)>> \o Tail(q) /\ Head(q) \in S /\ Tail(q) \in Seq(S) /\ Head(q) = q[1]
  BY HeadTailProperties
<1>2. PICK x \in S, t \in Seq(S) : x = Head(q) /\ t = Tail(q)
  BY <1>1
<1>3. Range(<<x>> \o t) = {x} \cup Range(t)
  BY RangeOfCons
<1>4. QED
  BY <1>1, <1>2, <1>3

LEMMA SpansTo ==
    ASSUME NEW n \in Nat
    PROVE  RangesTo(n) \subseteq Spans /\ \A r \in RangesTo(n) : End(r) <= n
BY DEF RangesTo, Spans, End

(* What of a range goes into a packet, and what stays.                      *)
Parts(range, take) ==
    {<<range[1], take>>} \cup
        (IF take = range[2] THEN {} ELSE {<<range[1] + take, range[2] - take>>})

LEMMA PartsOfRange ==
    ASSUME NEW r \in Spans, NEW cum \in Nat, NEW c \in Nat, cum <= c, End(r) > cum,
           NEW take \in Nat, take > 0, take <= Trim(r, cum)[2]
    PROVE  LET range == Trim(r, cum)
               a == <<range[1], take>>
               P == Parts(range, take)
           IN  /\ a \in Spans /\ P \in SUBSET Spans /\ a \in P
               /\ \A x \in P : r[1] <= x[1] /\ (End(x) = End(r) \/ x = a)
               /\ \A n \in Nat : c <= n /\ Holds(r, n) => \E x \in P : Holds(x, n)
               /\ \A n \in Nat : c <= n /\ Holds(r, n) /\ End(a) <= n
                    => \E x \in P : Holds(x, n) /\ End(a) <= x[1]
               /\ End(a) <= End(r)
<1> DEFINE range == Trim(r, cum)
           a == <<range[1], take>>
           b == <<range[1] + take, range[2] - take>>
           P == Parts(range, take)
<1>1. r[1] \in Nat /\ r[2] \in Nat /\ r[2] > 0
  BY DEF Spans
<1>2. /\ range[1] \in Nat /\ range[2] \in Nat /\ r[1] <= range[1]
      /\ range[1] + range[2] = r[1] + r[2]
      /\ range[1] = r[1] \/ range[1] = cum
  <2>1. CASE r[1] >= cum
    BY <1>1, <2>1 DEF Trim
  <2>2. CASE ~(r[1] >= cum)
    <3>1. range = <<cum, r[1] + r[2] - cum>>
      BY <2>2 DEF Trim
    <3>2. QED
      BY <1>1, <2>2, <3>1 DEF End
  <2>3. QED
    BY <2>1, <2>2
<1>3. take <= range[2]
  OBVIOUS
<1> HIDE DEF range
<1>4. PICK x \in Nat, l \in Nat : range[1] = x /\ range[2] = l
  BY <1>2
<1>5. /\ a[1] = x /\ a[2] = take /\ a \in Spans /\ End(a) = x + take
      /\ End(a) <= End(r) /\ End(r) = x + l /\ r[1] <= x
  BY <1>1, <1>2, <1>3, <1>4 DEF Spans, End
<1>6. take # l => /\ b[1] = x + take /\ b[2] = l - take /\ b \in Spans /\ End(b) = x + l
  BY <1>3, <1>4 DEF Spans, End
<1>7. P = IF take = l THEN {a} ELSE {a, b}
  BY <1>4 DEF Parts
<1> HIDE DEF a, b, P
<1>8. ASSUME NEW n \in Nat, c <= n, Holds(r, n)
      PROVE  x <= n /\ n < x + l
  BY <1>1, <1>2, <1>4, <1>8 DEF Holds
<1>9. ASSUME NEW n \in Nat, c <= n, Holds(r, n), End(a) <= n
      PROVE  take # l /\ Holds(b, n) /\ End(a) <= b[1]
  <2>1. x + take <= n /\ n < x + l
    BY <1>5, <1>8, <1>9
  <2>2. take # l
    BY <2>1
  <2>3. QED
    BY <1>5, <1>6, <2>1, <2>2 DEF Holds
<1>10. ASSUME NEW n \in Nat, c <= n, Holds(r, n), ~(End(a) <= n)
       PROVE  Holds(a, n)
  BY <1>5, <1>8, <1>10 DEF Holds
<1>11. \A y \in P : r[1] <= y[1] /\ (End(y) = End(r) \/ y = a)
  BY <1>1, <1>5, <1>6, <1>7
<1>12. a \in P /\ P \in SUBSET Spans
  BY <1>5, <1>6, <1>7
<1>13. \A n \in Nat : c <= n /\ Holds(r, n) /\ End(a) <= n
          => \E y \in P : Holds(y, n) /\ End(a) <= y[1]
  BY <1>7, <1>9
<1>14. \A n \in Nat : c <= n /\ Holds(r, n) => \E y \in P : Holds(y, n)
  BY <1>10, <1>12, <1>13
<1>15. QED
  BY <1>5, <1>11, <1>12, <1>13, <1>14 DEF a, P, range

------------------------------------------------------------------------------
(* Filling a packet loses nothing: K and V are the other ranges.            *)

Extra(p) == Range(p.s.retx) \cup Range(p.pieces)

FillKept(s0, K, V, c) ==
    {p \in FillStates(s0) :
        p.s.sent = s0.sent /\ Kept(K \cup Extra(p), V \cup Extra(p), c, p.s.next)}

LEMMA FillFields ==
    ASSUME NEW s0, s0.next \in Nat, NEW p \in FillStates(s0)
    PROVE  /\ p \in [s : SndStates(s0), st : Seq(Byte), room : Nat, pieces : Seq(Nat \X Nat)]
           /\ p.s \in SndStates(s0) /\ p.s.next \in Nat /\ p.s.cum \in Nat /\ p.s.cum = s0.cum
           /\ p.s.retx \in Seq(RangesTo(p.s.next)) /\ p.pieces \in Seq(RangesTo(p.s.next))
           /\ s0.next <= p.s.next /\ p.room \in Nat
           /\ Extra(p) \in SUBSET RangesTo(p.s.next) /\ Extra(p) \in SUBSET Spans
<1>1. /\ p \in [s : SndStates(s0), st : Seq(Byte), room : Nat, pieces : Seq(Nat \X Nat)]
      /\ SndFits(p.s, p.st) /\ p.s.cum = s0.cum /\ p.pieces \in Seq(RangesTo(p.s.next))
      /\ s0.next <= p.s.next
  BY DEF FillStates
<1>2. p.s \in SndStates(s0) /\ p.s.next \in Nat /\ p.s.cum \in Nat /\ p.room \in Nat
  BY <1>1 DEF SndStates
<1>3. p.s.retx \in Seq(RangesTo(p.s.next))
  BY <1>1 DEF SndFits
<1>4. Range(p.s.retx) \subseteq RangesTo(p.s.next) /\ Range(p.pieces) \subseteq RangesTo(p.s.next)
  BY <1>1, <1>3, RangeOfSeq
<1>5. Extra(p) \in SUBSET RangesTo(p.s.next)
  BY <1>4 DEF Extra
<1>6. RangesTo(p.s.next) \subseteq Spans
  BY <1>2, SpansTo
<1>7. QED
  BY <1>1, <1>2, <1>3, <1>5, <1>6

LEMMA AgainKept ==
    ASSUME NEW s0, s0.next \in Nat, NEW K \in SUBSET Spans, NEW V \in SUBSET Spans, NEW c \in Nat, s0.cum <= c,
           NEW p \in FillKept(s0, K, V, c), p.room > 0, p.s.retx # <<>>, End(p.s.retx[1]) > p.s.cum
    PROVE  Again(p) \in FillKept(s0, K, V, c)
<1> DEFINE s == p.s
           r == s.retx[1]
           range == Trim(r, s.cum)
           take == Min({range[2], p.room})
           left == IF take = range[2] THEN Tail(s.retx)
                   ELSE <<<<range[1] + take, range[2] - take>>>> \o Tail(s.retx)
           a == <<range[1], take>>
           res == Again(p)
           D == Range(Tail(s.retx)) \cup Range(p.pieces)
           P == Parts(range, take)
           N == s.next
<1>1. /\ p \in FillStates(s0) /\ s.sent = s0.sent
      /\ Kept(K \cup Extra(p), V \cup Extra(p), c, N)
  BY DEF FillKept
<1>2. /\ p \in [s : SndStates(s0), st : Seq(Byte), room : Nat, pieces : Seq(Nat \X Nat)]
      /\ s \in SndStates(s0) /\ N \in Nat /\ s.cum \in Nat /\ s.cum = s0.cum /\ p.room \in Nat
      /\ s.retx \in Seq(RangesTo(N)) /\ p.pieces \in Seq(RangesTo(N))
      /\ Extra(p) \in SUBSET Spans
  BY <1>1, FillFields
<1>3. res \in FillStates(s0)
  BY <1>1, AgainFits DEF End
<1>4. r \in RangesTo(N) /\ Tail(s.retx) \in Seq(RangesTo(N)) /\ r \in Spans
  <2>1. Len(s.retx) \in Nat \ {0}
    BY <1>2, EmptySeq
  <2>2. 1 \in 1..Len(s.retx)
    BY <2>1
  <2>3. r \in RangesTo(N) /\ Tail(s.retx) \in Seq(RangesTo(N))
    BY <1>2, <2>2, ElementOfSeq, HeadTailProperties
  <2>4. QED
    BY <1>2, <2>3, SpansTo
<1>5. /\ res.s.retx = left /\ res.pieces = Append(p.pieces, a)
      /\ res.s.next = N /\ res.s.sent = s.sent
  <2>1. res = [p EXCEPT !.s = [s EXCEPT !.retx = left], !.room = @ - take, !.pieces = Append(@, a)]
    BY <1>2 DEF Again
  <2> HIDE DEF left, a, take, res, s
  <2>2. res.s = [s EXCEPT !.retx = left] /\ res.pieces = Append(p.pieces, a)
    BY <1>2, <2>1
  <2>3. QED
    BY <1>2, <2>2 DEF SndStates
<1>6. take \in Nat /\ take > 0 /\ take <= range[2]
  <2>1. range[2] \in Nat /\ range[2] > 0
    <3>1. r[1] \in Nat /\ r[2] \in Nat /\ r[2] > 0 /\ r[1] + r[2] > s.cum
      BY <1>4 DEF Spans, End
    <3>2. PICK k \in Nat, l \in Nat, m \in Nat : k = r[1] /\ l = r[2] /\ m = s.cum
      BY <1>2, <3>1
    <3>3. range = r \/ (k < m /\ range = <<m, k + l - m>>)
      BY <3>2 DEF Trim
    <3>4. k + l - m \in Nat /\ k + l - m > 0
      <4>1. k + l > m
        BY <3>1, <3>2
      <4>2. QED
        BY <4>1
    <3>5. <<m, k + l - m>>[2] = k + l - m
      OBVIOUS
    <3> HIDE DEF range, r
    <3>6. QED
      BY <3>1, <3>2, <3>3, <3>4, <3>5
  <2> HIDE DEF range
  <2>2. {range[2], p.room} \in SUBSET Nat /\ {range[2], p.room} # {}
    BY <1>2, <2>1
  <2>3. take \in {range[2], p.room} /\ \A y \in {range[2], p.room} : take <= y
    BY <2>2, MinOf
  <2>4. QED
    BY <1>2, <2>1, <2>3
<1> HIDE DEF take
<1>7. /\ a \in Spans /\ P \in SUBSET Spans /\ a \in P
      /\ \A x \in P : r[1] <= x[1] /\ (End(x) = End(r) \/ x = a)
      /\ \A n \in Nat : c <= n /\ Holds(r, n) => \E x \in P : Holds(x, n)
      /\ \A n \in Nat : c <= n /\ Holds(r, n) /\ End(a) <= n
           => \E x \in P : Holds(x, n) /\ End(a) <= x[1]
      /\ End(a) <= End(r)
  <2>1. r \in Spans /\ s.cum \in Nat /\ s.cum <= c /\ End(r) > s.cum
    BY <1>2, <1>4
  <2> HIDE DEF r, s
  <2>2. QED
    BY <1>6, <2>1, PartsOfRange
<1>8. Extra(p) = D \cup {r}
  <2>1. Range(s.retx) = {r} \cup Range(Tail(s.retx))
    <3>1. PICK x \in RangesTo(N), q \in Seq(RangesTo(N)) : x = r /\ q = s.retx
      BY <1>2, <1>4
    <3>2. q # <<>> => Range(q) = {q[1]} \cup Range(Tail(q))
      BY RangeOfRest
    <3>3. QED
      BY <3>1, <3>2
  <2>2. QED
    BY <2>1 DEF Extra
<1>9. Extra(res) = D \cup P
  <2>1. /\ Range(Append(p.pieces, a)) = Range(p.pieces) \cup {a}
        /\ take # range[2] =>
             Range(<<<<range[1] + take, range[2] - take>>>> \o Tail(s.retx))
               = {<<range[1] + take, range[2] - take>>} \cup Range(Tail(s.retx))
    <3>1. p.pieces \in Seq(Spans) /\ Tail(s.retx) \in Seq(Spans)
      BY <1>2, <1>4, SpansTo, SeqMonotonic
    <3>2. take # range[2] => <<range[1] + take, range[2] - take>> \in Spans
      BY <1>7 DEF Parts
    <3> HIDE DEF a, range, s
    <3>3. Range(Append(p.pieces, a)) = Range(p.pieces) \cup {a}
      <4>1. PICK q \in Seq(Spans), x \in Spans : q = p.pieces /\ x = a
        BY <1>7, <3>1
      <4>2. Range(Append(q, x)) = Range(q) \cup {x}
        BY RangeOfAppend
      <4>3. QED
        BY <4>1, <4>2
    <3>4. ASSUME take # range[2]
          PROVE  Range(<<<<range[1] + take, range[2] - take>>>> \o Tail(s.retx))
                   = {<<range[1] + take, range[2] - take>>} \cup Range(Tail(s.retx))
      <4>1. PICK q \in Seq(Spans), x \in Spans :
              q = Tail(s.retx) /\ x = <<range[1] + take, range[2] - take>>
        BY <3>1, <3>2, <3>4
      <4>2. Range(<<x>> \o q) = {x} \cup Range(q)
        BY RangeOfCons
      <4>3. QED
        BY <4>1, <4>2
    <3>5. QED
      BY <3>3, <3>4
  <2>2. Extra(res) = Range(left) \cup Range(Append(p.pieces, a))
    BY <1>5 DEF Extra
  <2>3. P = {a} \cup (IF take = range[2] THEN {} ELSE {<<range[1] + take, range[2] - take>>})
    BY DEF Parts
  <2>4. CASE take = range[2]
    <3>1. left = Tail(s.retx) /\ P = {a}
      BY <2>3, <2>4
    <3> HIDE DEF left, P, a
    <3>2. QED
      BY <2>1, <2>2, <3>1
  <2>5. CASE take # range[2]
    <3>1. left = <<<<range[1] + take, range[2] - take>>>> \o Tail(s.retx)
          /\ P = {a} \cup {<<range[1] + take, range[2] - take>>}
      BY <2>3, <2>5
    <3> HIDE DEF left, P, a
    <3>2. QED
      BY <2>1, <2>2, <2>5, <3>1
  <2>6. QED
    BY <2>4, <2>5
<1>10. D \in SUBSET Spans
  BY <1>2, <1>8
<1> HIDE DEF r, a, P, D, res, s
<1>11. Kept((K \cup D) \cup P, (V \cup D) \cup P, c, N)
  <2>1. K \cup D \in SUBSET Spans /\ V \cup D \in SUBSET Spans
    BY <1>10
  <2>2. Kept((K \cup D) \cup {r}, (V \cup D) \cup {r}, c, N)
    <3>1. K \cup Extra(p) = (K \cup D) \cup {r} /\ V \cup Extra(p) = (V \cup D) \cup {r}
      BY <1>8
    <3>2. QED
      BY <1>1, <3>1
  <2>3. QED
    BY <1>2, <1>4, <1>7, <2>1, <2>2, KeptCut
<1>12. Kept(K \cup Extra(res), V \cup Extra(res), c, res.s.next)
  <2>1. K \cup Extra(res) = (K \cup D) \cup P /\ V \cup Extra(res) = (V \cup D) \cup P
    BY <1>9
  <2>2. QED
    BY <1>5, <1>11, <2>1
<1>13. res.s.sent = s0.sent
  BY <1>1, <1>5
<1>14. res \in FillKept(s0, K, V, c)
  BY <1>3, <1>12, <1>13 DEF FillKept
<1>15. QED
  BY <1>14 DEF res

LEMMA NewKept ==
    ASSUME stream \in Seq(Byte), NEW s0, s0.next \in Nat, NEW K \in SUBSET RangesTo(s0.next),
           NEW V \in SUBSET Spans, NEW c \in Nat, NEW p \in FillKept(s0, K, V, c)
    PROVE  New(p) \in FillKept(s0, K, V, c)
<1> DEFINE s == p.s
           N == s.next
           take == Min({p.room, Len(p.st) - N, s.limit - N})
           z == <<N, take>>
           res == New(p)
           E == Extra(p)
<1>1. /\ p \in FillStates(s0) /\ s.sent = s0.sent
      /\ Kept(K \cup E, V \cup E, c, N)
  BY DEF FillKept
<1>2. /\ p \in [s : SndStates(s0), st : Seq(Byte), room : Nat, pieces : Seq(Nat \X Nat)]
      /\ s \in SndStates(s0) /\ N \in Nat /\ s0.next <= N
      /\ p.pieces \in Seq(RangesTo(N)) /\ E \in SUBSET RangesTo(N) /\ E \in SUBSET Spans
  BY <1>1, FillFields
<1>3. res \in FillStates(s0)
  BY <1>1, NewFits
<1>4. take \in Nat
  <2>1. s.limit \in Nat /\ p.room \in Nat /\ Len(p.st) \in Nat /\ N <= Len(p.st) /\ N <= s.limit
    <3>1. SndFits(s, p.st)
      BY <1>1 DEF FillStates
    <3>2. QED
      BY <1>2, <3>1, SndTypes, LenProperties DEF SndFits
  <2>2. {p.room, Len(p.st) - N, s.limit - N} \in SUBSET Nat /\ {p.room, Len(p.st) - N, s.limit - N} # {}
    BY <1>2, <2>1
  <2> HIDE DEF s, N
  <2>3. QED
    BY <2>2, MinOf
<1>5. CASE take <= 0
  <2>1. res = p
    BY <1>5 DEF New
  <2>2. QED
    BY <2>1
<1>6. CASE ~(take <= 0)
  <2>1. res = [p EXCEPT !.s = Wakes([s EXCEPT !.next = N + take], p.st),
                        !.room = p.room - take, !.pieces = Append(p.pieces, z)]
    BY <1>2, <1>6 DEF New
  <2> HIDE DEF take, res
  <2>2. /\ res.s = Wakes([s EXCEPT !.next = N + take], p.st)
        /\ res.pieces = Append(p.pieces, z)
    BY <1>2, <2>1
  <2>3. res.s.next = N + take /\ res.s.retx = s.retx /\ res.s.sent = s.sent
    <3>1. s.next = N /\ s \in SndStates(s0)
      BY <1>2
    <3> HIDE DEF s, N
    <3>2. QED
      BY <2>2, <3>1 DEF Wakes, SndStates
  <2>4. Range(res.pieces) = Range(p.pieces) \cup {z}
    <3>1. z \in Nat \X Nat /\ p.pieces \in Seq(Nat \X Nat)
      BY <1>2, <1>4
    <3>2. PICK q \in Seq(Nat \X Nat), x \in Nat \X Nat : q = p.pieces /\ x = z
      BY <3>1
    <3>3. Range(Append(q, x)) = Range(q) \cup {x}
      BY RangeOfAppend
    <3>4. QED
      BY <2>2, <3>2, <3>3
  <2>5. Extra(res) = E \cup {z}
    BY <2>3, <2>4 DEF Extra
  <2>6. Kept((K \cup E) \cup {z}, (V \cup E) \cup {z}, c, N + take)
    <3>1. RangesTo(s0.next) \subseteq RangesTo(N) /\ RangesTo(N) \subseteq Spans
      BY <1>2, RangesGrow, SpansTo
    <3>2. K \cup E \in SUBSET RangesTo(N) /\ K \cup E \in SUBSET Spans /\ V \cup E \in SUBSET Spans
      BY <1>2, <3>1
    <3>3. \A r \in K \cup E : End(r) <= N
      BY <1>2, <3>2, SpansTo
    <3>4. take > 0
      BY <1>4, <1>6
    <3> HIDE DEF E, s, N
    <3>5. QED
      BY <1>1, <1>2, <1>4, <3>2, <3>3, <3>4, KeptNew DEF E, s, N
  <2>7. Kept(K \cup Extra(res), V \cup Extra(res), c, res.s.next)
    <3>1. /\ K \cup Extra(res) = (K \cup E) \cup {z} /\ V \cup Extra(res) = (V \cup E) \cup {z}
          /\ res.s.next = N + take
      BY <2>3, <2>5
    <3>2. QED
      BY <2>6, <3>1
  <2>8. res.s.sent = s0.sent
    BY <1>1, <2>3
  <2>9. QED
    BY <1>3, <2>7, <2>8 DEF FillKept, res
<1>7. QED
  BY <1>5, <1>6

(* A frame that gets its place, and ranges that are confirmed.              *)
LEMMA SameExtra ==
    ASSUME NEW s0, NEW K, NEW V, NEW c, NEW p \in FillKept(s0, K, V, c), NEW q \in FillStates(s0),
           q.s.sent = p.s.sent, q.s.next = p.s.next, q.s.retx = p.s.retx, q.pieces = p.pieces
    PROVE  q \in FillKept(s0, K, V, c)
<1>1. Extra(q) = Extra(p)
  BY DEF Extra
<1>2. QED
  BY <1>1 DEF FillKept

LEMMA CommitKept ==
    ASSUME stream \in Seq(Byte), NEW s0, s0.next \in Nat, NEW K, NEW V, NEW c, NEW p \in FillKept(s0, K, V, c)
    PROVE  Commit(p) \in FillKept(s0, K, V, c)
<1>1. p \in FillStates(s0)
  BY DEF FillKept
<1>2. /\ p \in [s : SndStates(s0), st : Seq(Byte), room : Nat, pieces : Seq(Nat \X Nat)]
      /\ p.s \in SndStates(s0)
  BY <1>1, FillFields
<1>3. Commit(p) \in FillStates(s0)
  BY <1>1, CommitFits
<1>4. /\ Commit(p).s.sent = p.s.sent /\ Commit(p).s.next = p.s.next
      /\ Commit(p).s.retx = p.s.retx /\ Commit(p).pieces = p.pieces
  <2>1. CASE p.s.next < Len(p.st) \/ p.s.urgent \o p.s.bulk = <<>>
    BY <2>1 DEF Commit
  <2>2. CASE ~(p.s.next < Len(p.st) \/ p.s.urgent \o p.s.bulk = <<>>) /\ p.s.urgent # <<>>
    <3>1. Commit(p) = [p EXCEPT !.st = @ \o Bytes(Head(p.s.urgent)), !.s.urgent = Tail(@)]
      BY <2>2, Zenon DEF Commit
    <3>2. QED
      BY <1>2, <3>1 DEF SndStates
  <2>3. CASE ~(p.s.next < Len(p.st) \/ p.s.urgent \o p.s.bulk = <<>>) /\ p.s.urgent = <<>>
    <3>1. Commit(p) = [p EXCEPT !.st = @ \o Bytes(Head(p.s.bulk)), !.s.bulk = Tail(@)]
      BY <2>3, Zenon DEF Commit
    <3>2. QED
      BY <1>2, <3>1 DEF SndStates
  <2>4. QED
    BY <2>1, <2>2, <2>3
<1>5. QED
  BY <1>3, <1>4, SameExtra

LEMMA RangeAt ==
    ASSUME NEW S, NEW q \in Seq(S)
    PROVE  Range(q) = {q[i] : i \in 1..Len(q)}
BY LenProperties DEF Range

(* What is confirmed is left out, and nothing else.                         *)
LEMMA UnconfirmedRanges ==
    ASSUME NEW S, NEW q \in Seq(S), NEW cum
    PROVE  /\ Range(Unconfirmed(q, cum)) \subseteq Range(q)
           /\ \A r \in Range(q) : r[1] + r[2] > cum => r \in Range(Unconfirmed(q, cum))
<1> DEFINE L == Len(q)
           T == Range(q)
           R == Seq(T)
           A == [n \in 0..L |-> {y \in R : \A i \in 1..n : q[i][1] + q[i][2] > cum => q[i] \in Range(y)}]
           turn(n, y) == IF q[n][1] + q[n][2] > cum THEN Append(y, q[n]) ELSE y
<1>1. L \in Nat /\ <<>> \in R /\ T = {q[i] : i \in 1..L}
  BY LenProperties, RangeAt
<1> HIDE DEF T
<1>2. ASSUME NEW n \in 1..L, NEW y \in R
      PROVE  /\ turn(n, y) \in R /\ Range(y) \subseteq Range(turn(n, y))
             /\ q[n][1] + q[n][2] > cum => q[n] \in Range(turn(n, y))
  <2>1. q[n] \in T
    BY <1>1
  <2>2. CASE q[n][1] + q[n][2] > cum
    <3>1. PICK z \in T : z = q[n]
      BY <2>1
    <3>2. Append(y, z) \in Seq(T)
      BY AppendProperties
    <3>3. Range(Append(y, z)) = Range(y) \cup {z}
      BY RangeOfAppend
    <3>4. turn(n, y) = Append(y, z)
      BY <2>2, <3>1
    <3>5. QED
      BY <3>1, <3>2, <3>3, <3>4
  <2>3. CASE ~(q[n][1] + q[n][2] > cum)
    BY <2>3
  <2>4. QED
    BY <2>2, <2>3
<1>3. \A n \in 0..L : A[n] = {y \in R : \A i \in 1..n : q[i][1] + q[i][2] > cum => q[i] \in Range(y)}
  OBVIOUS
<1> HIDE DEF A
<1>4. <<>> \in A[0] /\ 0 \in 0..L /\ L \in 0..L
  <2>1. 0 \in 0..L /\ L \in 0..L
    BY <1>1
  <2>2. 1..0 = {}
    OBVIOUS
  <2>3. A[0] = {y \in R : \A i \in 1..0 : q[i][1] + q[i][2] > cum => q[i] \in Range(y)}
    BY <1>3, <2>1
  <2> HIDE DEF R
  <2>4. QED
    BY <1>1, <2>1, <2>2, <2>3
<1>5. ASSUME NEW n \in 1..L, NEW y \in R \cap A[n - 1]
      PROVE  turn(n, y) \in A[n]
  <2>1. n \in 0..L /\ n - 1 \in 0..L
    BY <1>1
  <2>2. \A i \in 1..(n - 1) : q[i][1] + q[i][2] > cum => q[i] \in Range(y)
    BY <1>3, <1>5, <2>1
  <2>3. turn(n, y) \in R /\ Range(y) \subseteq Range(turn(n, y))
    BY <1>2
  <2>4. q[n][1] + q[n][2] > cum => q[n] \in Range(turn(n, y))
    BY <1>2
  <2> HIDE DEF turn
  <2>5. \A i \in 1..n : i \in 1..(n - 1) \/ i = n
    BY <2>1
  <2>6. \A i \in 1..n : q[i][1] + q[i][2] > cum => q[i] \in Range(turn(n, y))
    BY <2>2, <2>3, <2>4, <2>5
  <2>7. QED
    BY <1>3, <2>1, <2>3, <2>6
<1>6. Unconfirmed(q, cum) \in R /\ Unconfirmed(q, cum) \in A[L]
  <2> HIDE DEF R
  <2>1. \A n \in 1..Len(q) : \A y \in R :
          (IF q[n][1] + q[n][2] > cum THEN Append(y, q[n]) ELSE y) \in R
    BY <1>2
  <2>2. \A n \in 1..Len(q) : \A y \in R \cap A[n - 1] :
          (IF q[n][1] + q[n][2] > cum THEN Append(y, q[n]) ELSE y) \in A[n]
    BY <1>5
  <2>3. <<>> \in R /\ Len(q) \in Nat /\ <<>> \in A[0]
    BY <1>1, <1>4
  <2>4. QED
    BY <2>1, <2>2, <2>3, UnconfirmedLoop
<1>7. Range(Unconfirmed(q, cum)) \subseteq T
  BY <1>6, RangeOfSeq
<1>8. \A i \in 1..L : q[i][1] + q[i][2] > cum => q[i] \in Range(Unconfirmed(q, cum))
  BY <1>3, <1>4, <1>6
<1>9. QED
  BY <1>1, <1>7, <1>8 DEF T

LEMMA NextRangeKept ==
    ASSUME stream \in Seq(Byte), NEW s0, s0.next \in Nat, NEW K \in SUBSET RangesTo(s0.next),
           NEW V \in SUBSET Spans, NEW c \in Nat, s0.cum <= c, NEW p \in FillKept(s0, K, V, c)
    PROVE  NextRange(p) \in FillKept(s0, K, V, c)
<1> DEFINE s == p.s
           keep == Unconfirmed(s.retx, s.cum)
           t == [s EXCEPT !.retx = keep]
           q == [p EXCEPT !.s = t]
           N == s.next
<1>0. p \in FillStates(s0) /\ s.sent = s0.sent /\ Kept(K \cup Extra(p), V \cup Extra(p), c, N)
  BY DEF FillKept
<1>1. /\ p \in [s : SndStates(s0), st : Seq(Byte), room : Nat, pieces : Seq(Nat \X Nat)]
      /\ s \in SndStates(s0) /\ N \in Nat /\ s.cum \in Nat /\ s.cum = s0.cum
      /\ s.retx \in Seq(RangesTo(N)) /\ p.pieces \in Seq(RangesTo(N)) /\ s0.next <= N
      /\ p.room \in Nat /\ Extra(p) \in SUBSET Spans /\ SndFits(s, p.st)
  <2>1. SndFits(s, p.st)
    BY <1>0 DEF FillStates
  <2>2. QED
    BY <1>0, <2>1, FillFields
<1>2. NextRange(p) = IF p.room = 0 THEN p ELSE IF q.s.retx # <<>> THEN Again(q) ELSE New(Commit(q))
  BY <1>1 DEF NextRange
<1>3. /\ keep \in Seq({r \in RangesTo(N) : r[1] + r[2] > s.cum}) /\ keep \in Seq(RangesTo(N))
      /\ Range(keep) \subseteq Range(s.retx)
      /\ \A r \in Range(s.retx) : r[1] + r[2] > s.cum => r \in Range(keep)
  <2>1. keep \in Seq({r \in RangesTo(N) : r[1] + r[2] > s.cum})
    BY <1>1, UnconfirmedFit
  <2>2. keep \in Seq(RangesTo(N))
    BY <2>1, SeqMonotonic
  <2>3. QED
    BY <1>1, <2>1, <2>2, UnconfirmedRanges
<1> HIDE DEF keep
<1>4. /\ SndFits(t, p.st) /\ t \in SndStates(s) /\ t.retx = keep
      /\ \A f \in DOMAIN s : f # "retx" => t[f] = s[f]
  <2>1. SndFits(s, p.st) /\ keep \in Seq(RangesTo(s.next))
    BY <1>1, <1>3
  <2> HIDE DEF s
  <2>2. QED
    BY <2>1, OtherRetx
<1>5. t \in SndStates(s0) /\ t.next = N /\ t.cum = s.cum /\ t.limit = s.limit
      /\ t.pn = s.pn /\ t.skipped = s.skipped /\ t.sent = s.sent
  <2>1. s \in SndStates(s0)
    BY <1>1
  <2>2. SndStates(s) = SndStates(s0)
    BY <2>1 DEF SndStates
  <2> HIDE DEF t
  <2>3. QED
    BY <1>4, <2>1, <2>2 DEF SndStates
<1> HIDE DEF t
<1>6. q.s = t /\ q.st = p.st /\ q.room = p.room /\ q.pieces = p.pieces
  BY <1>1
<1>7. q \in [s : SndStates(s0), st : Seq(Byte), room : Nat, pieces : Seq(Nat \X Nat)]
  BY <1>1, <1>5
<1> HIDE DEF q
<1>8. q \in FillStates(s0)
  BY <1>0, <1>1, <1>4, <1>5, <1>6, <1>7 DEF FillStates
<1>9. Extra(q) \subseteq Extra(p) /\ \A r \in Extra(p) : r \in Extra(q) \/ End(r) <= c
  <2>1. Extra(q) = Range(keep) \cup Range(p.pieces)
    BY <1>4, <1>6 DEF Extra
  <2>2. Extra(p) = Range(s.retx) \cup Range(p.pieces)
    BY DEF Extra
  <2>3. ASSUME NEW r \in Extra(p), r \notin Extra(q)
        PROVE  End(r) <= c
    <3>1. r \in Range(s.retx) /\ ~(r[1] + r[2] > s.cum)
      BY <1>3, <2>1, <2>2, <2>3
    <3>2. r[1] \in Nat /\ r[2] \in Nat
      BY <1>1 DEF Spans
    <3>3. QED
      BY <1>1, <3>1, <3>2 DEF End
  <2>4. QED
    BY <1>3, <2>1, <2>2, <2>3
<1>10. Kept(K \cup Extra(q), V \cup Extra(q), c, N)
  <2> DEFINE A == K \cup Extra(p)
             B == V \cup Extra(p)
             C == K \cup Extra(q)
             D == V \cup Extra(q)
  <2>1. K \in SUBSET Spans
    BY SpansTo
  <2>2. /\ A \in SUBSET Spans /\ B \in SUBSET Spans /\ C \in SUBSET A /\ D \in SUBSET Spans
        /\ \A r \in B : r \in D \/ End(r) <= c
    BY <1>1, <1>9, <2>1
  <2>3. Kept(A, B, c, N)
    BY <1>0
  <2> HIDE DEF A, B, C, D
  <2>4. Kept(C, D, c, N)
    BY <1>1, <2>2, <2>3, KeptByMore
  <2>5. QED
    BY <2>4 DEF C, D
<1>11. q \in FillKept(s0, K, V, c)
  BY <1>0, <1>5, <1>6, <1>8, <1>10 DEF FillKept
<1>12. CASE p.room = 0
  BY <1>2, <1>12
<1>13. CASE p.room # 0 /\ q.s.retx # <<>>
  <2>1. Len(keep) \in Nat \ {0}
    BY <1>3, <1>4, <1>6, <1>13, EmptySeq
  <2>2. keep[1][1] + keep[1][2] > s.cum
    <3>1. 1 \in 1..Len(keep)
      BY <2>1
    <3>2. keep[1] \in {r \in RangesTo(N) : r[1] + r[2] > s.cum}
      BY <1>3, <3>1, ElementOfSeq
    <3>3. QED
      BY <3>2
  <2>3. End(q.s.retx[1]) > q.s.cum
    BY <1>4, <1>5, <1>6, <2>2 DEF End
  <2>4. q.room > 0
    BY <1>1, <1>6, <1>13
  <2>5. K \in SUBSET Spans
    BY SpansTo
  <2>6. Again(q) \in FillKept(s0, K, V, c)
    BY <1>11, <1>13, <2>3, <2>4, <2>5, AgainKept
  <2>7. QED
    BY <1>2, <1>13, <2>6
<1>14. CASE p.room # 0 /\ q.s.retx = <<>>
  <2>1. Commit(q) \in FillKept(s0, K, V, c)
    BY <1>11, CommitKept
  <2>2. New(Commit(q)) \in FillKept(s0, K, V, c)
    BY <2>1, NewKept
  <2>3. QED
    BY <1>2, <1>14, <2>2
<1>15. QED
  BY <1>12, <1>13, <1>14

LEMMA FilledKept ==
    ASSUME stream \in Seq(Byte), NEW s, SndFits(s, stream), NEW room \in Nat,
           NEW K \in SUBSET RangesTo(s.next), NEW V \in SUBSET Spans, NEW c \in Nat, s.cum <= c,
           Kept(K \cup Range(s.retx), V \cup Range(s.retx), c, s.next)
    PROVE  Filled(s, room) \in FillKept(s, K, V, c)
<1> DEFINE x == [s |-> s, st |-> stream, room |-> room, pieces |-> <<>>]
           R == FillKept(s, K, V, c)
<1>1. s \in SndStates(s) /\ s.next \in Nat
  BY SndTypes DEF SndFits
<1>2. x \in FillStates(s)
  <2>1. x \in [s : SndStates(s), st : Seq(Byte), room : Nat, pieces : Seq(Nat \X Nat)]
    BY <1>1
  <2>2. x.s = s /\ x.st = stream /\ x.pieces = <<>>
    OBVIOUS
  <2>3. <<>> \in Seq(RangesTo(s.next))
    OBVIOUS
  <2> HIDE DEF x
  <2>4. QED
    BY <1>1, <2>1, <2>2, <2>3, GrowsByNothing DEF FillStates
<1>3. x \in R
  <2>1. Extra(x) = Range(s.retx)
    BY DEF Extra, Range
  <2>2. x.s = s
    OBVIOUS
  <2> HIDE DEF x
  <2>3. QED
    BY <1>2, <2>1, <2>2 DEF FillKept
<1>4. Len(Times(room)) \in Nat
  BY TimesFacts
<1>5. \A n \in 1..Len(Times(room)) : \A y \in R : NextRange(y) \in R
  BY <1>1, NextRangeKept
<1> HIDE DEF R
<1>6. Filled(s, room) \in R
  BY <1>3, <1>4, <1>5, FillLoop
<1>7. QED
  BY <1>6 DEF R

------------------------------------------------------------------------------
(* Who has or is about to get which range, and what will be delivered yet:  *)
(* what waits, and what a sends again or has in packets that b has not      *)
(* heard of, as far as a knows or will be told.                             *)
SpanOf(p) == <<p.at, Len(p.bytes)>>
Spanned(ps) == [j \in DOMAIN ps |-> SpanOf(ps[j])]
OnWay(c) == UNION {Range(Spanned(c[i].pieces)) : i \in DOMAIN c}
Waits(o) == {<<k, Len(o[k])>> : k \in DOMAIN o}

Told(c) == UNION {c[i].ranges : i \in {j \in DOMAIN c : c[j].kind = "ack"}}
Heard == rcv.seen \cup Told(toA)

SentTo(s) == UNION {Range(s.sent[pn]) : pn \in DOMAIN s.sent}
Unheard(s, heard) == UNION {Range(s.sent[pn]) : pn \in DOMAIN s.sent \ heard}

Good(s, heard, K, V, c) ==
    Kept(K \cup Range(s.retx) \cup SentTo(s), V \cup Range(s.retx) \cup Unheard(s, heard), c, s.next)

(* A packet has the data that a remembers of its number, a number that is   *)
(* known was given out, and the probe of the path has no data.              *)
Numbered(s, heard) ==
    /\ heard \subseteq 0..(s.pn - 1)
    /\ s.probe \in Int /\ s.probe < s.pn
    /\ s.probe \in DOMAIN s.sent => s.sent[s.probe] = <<>>

Matches(s, c) ==
    \A i \in DOMAIN c :
        /\ c[i].pn < s.pn
        /\ c[i].pn \in DOMAIN s.sent => s.sent[c[i].pn] = Spanned(c[i].pieces)

CInv ==
    /\ Good(snd, Heard, Waits(rcv.ooo) \cup OnWay(toB), Waits(rcv.ooo), rcv.cum)
    /\ Numbered(snd, Heard) /\ Matches(snd, toB)

LEMMA PartSpan ==
    ASSUME NEW st, NEW n \in Nat, NEW p \in PartsTo(st, n)
    PROVE  SpanOf(p) \in RangesTo(n) /\ p.at \in Nat /\ Len(p.bytes) \in Nat /\ Len(p.bytes) > 0
<1>1. /\ p.at \in Nat /\ p.bytes \in Seq(Byte) /\ Len(p.bytes) > 0 /\ p.at + Len(p.bytes) <= n
  BY DEF PartsTo
<1>2. Len(p.bytes) \in Nat
  BY <1>1, LenProperties
<1>3. QED
  BY <1>1, <1>2 DEF SpanOf, RangesTo

LEMMA SpannedFits ==
    ASSUME NEW st, NEW n \in Nat, NEW q \in Seq(PartsTo(st, n))
    PROVE  /\ Spanned(q) \in Seq(RangesTo(n)) /\ Len(Spanned(q)) = Len(q)
           /\ \A j \in 1..Len(q) : Spanned(q)[j] = SpanOf(q[j])
           /\ Range(Spanned(q)) = {SpanOf(q[j]) : j \in 1..Len(q)}
<1>1. DOMAIN q = 1..Len(q) /\ Len(q) \in Nat
  BY LenProperties
<1>2. \A j \in 1..Len(q) : SpanOf(q[j]) \in RangesTo(n)
  BY ElementOfSeq, PartSpan
<1>3. Spanned(q) = [j \in 1..Len(q) |-> SpanOf(q[j])]
  BY <1>1 DEF Spanned
<1>4. Spanned(q) \in [1..Len(q) -> RangesTo(n)]
  BY <1>2, <1>3
<1>5. Spanned(q) \in Seq(RangesTo(n)) /\ Len(Spanned(q)) = Len(q)
  BY <1>1, <1>4, SeqDef, LenProperties
<1>6. Range(Spanned(q)) = {SpanOf(q[j]) : j \in 1..Len(q)}
  BY <1>3 DEF Range
<1>7. QED
  BY <1>3, <1>5, <1>6

LEMMA OnWayFits ==
    ASSUME NEW st, NEW n \in Nat, NEW c \in Seq(Packets(st, n))
    PROVE  /\ OnWay(c) \in SUBSET RangesTo(n) /\ OnWay(c) \in SUBSET Spans
           /\ OnWay(c) = UNION {Range(Spanned(c[i].pieces)) : i \in 1..Len(c)}
<1>1. DOMAIN c = 1..Len(c)
  BY LenProperties
<1>2. ASSUME NEW i \in 1..Len(c)
      PROVE  Range(Spanned(c[i].pieces)) \subseteq RangesTo(n)
  <2>1. c[i].pieces \in Seq(PartsTo(st, n))
    <3>1. c[i] \in Packets(st, n)
      BY ElementOfSeq
    <3>2. QED
      BY <3>1 DEF Packets
  <2>2. Spanned(c[i].pieces) \in Seq(RangesTo(n))
    BY <2>1, SpannedFits
  <2>3. QED
    BY <2>2, RangeOfSeq
<1>3. OnWay(c) = UNION {Range(Spanned(c[i].pieces)) : i \in 1..Len(c)}
  BY <1>1 DEF OnWay
<1>4. OnWay(c) \in SUBSET RangesTo(n)
  BY <1>2, <1>3
<1>5. QED
  BY <1>3, <1>4, SpansTo

LEMMA OnWayAppend ==
    ASSUME NEW st, NEW n \in Nat, NEW c \in Seq(Packets(st, n)), NEW p \in Packets(st, n)
    PROVE  OnWay(Append(c, p)) = OnWay(c) \cup Range(Spanned(p.pieces))
<1> DEFINE d == Append(c, p)
<1>1. /\ d \in Seq(Packets(st, n)) /\ Len(d) = Len(c) + 1 /\ d[Len(c) + 1] = p
      /\ \A i \in 1..Len(c) : d[i] = c[i]
  BY AppendProperties
<1>2. Len(c) \in Nat
  BY LenProperties
<1> HIDE DEF d
<1>3. /\ OnWay(d) = UNION {Range(Spanned(d[i].pieces)) : i \in 1..Len(d)}
      /\ OnWay(c) = UNION {Range(Spanned(c[i].pieces)) : i \in 1..Len(c)}
  BY <1>1, OnWayFits
<1>4. /\ Len(c) + 1 \in 1..Len(d) /\ 1..Len(c) \subseteq 1..Len(d)
      /\ \A i \in 1..Len(d) : i \in 1..Len(c) \/ i = Len(c) + 1
  BY <1>1, <1>2
<1>5. ASSUME NEW r \in OnWay(d) PROVE r \in OnWay(c) \cup Range(Spanned(p.pieces))
  <2>1. PICK i \in 1..Len(d) : r \in Range(Spanned(d[i].pieces))
    BY <1>3
  <2>2. QED
    BY <1>1, <1>3, <1>4, <2>1
<1>6. ASSUME NEW r \in OnWay(c) \cup Range(Spanned(p.pieces)) PROVE r \in OnWay(d)
  <2>1. CASE r \in OnWay(c)
    <3>1. PICK i \in 1..Len(c) : r \in Range(Spanned(c[i].pieces))
      BY <1>3, <2>1
    <3>2. QED
      BY <1>1, <1>3, <1>4, <3>1
  <2>2. CASE r \in Range(Spanned(p.pieces))
    BY <1>1, <1>3, <1>4, <2>2
  <2>3. QED
    BY <1>6, <2>1, <2>2
<1>7. QED
  BY <1>5, <1>6 DEF d

LEMMA WaitsFit ==
    ASSUME NEW o, NEW st, NEW n \in Nat, NEW m, Pieces(o, st, n, m)
    PROVE  Waits(o) \in SUBSET RangesTo(n) /\ Waits(o) \in SUBSET Spans
<1>1. ASSUME NEW k \in DOMAIN o PROVE <<k, Len(o[k])>> \in RangesTo(n)
  <2>1. k \in Nat /\ Len(o[k]) \in Nat /\ Len(o[k]) > 0 /\ k + Len(o[k]) <= n
    BY PieceFacts
  <2>2. QED
    BY <2>1 DEF RangesTo
<1>2. Waits(o) \in SUBSET RangesTo(n)
  BY <1>1 DEF Waits
<1>3. QED
  BY <1>2, SpansTo

LEMMA SentFits ==
    ASSUME NEW s, NEW st, SndFits(s, st), NEW heard
    PROVE  /\ Range(s.retx) \in SUBSET RangesTo(s.next) /\ SentTo(s) \in SUBSET RangesTo(s.next)
           /\ Range(s.retx) \in SUBSET Spans /\ SentTo(s) \in SUBSET Spans
           /\ Unheard(s, heard) \in SUBSET SentTo(s)
<1>1. /\ s.retx \in Seq(RangesTo(s.next)) /\ s.next \in Nat
      /\ \A pn \in DOMAIN s.sent : s.sent[pn] \in Seq(RangesTo(s.next))
  BY SndTypes DEF SndFits
<1>2. Range(s.retx) \in SUBSET RangesTo(s.next)
  BY <1>1, RangeOfSeq
<1>3. \A pn \in DOMAIN s.sent : Range(s.sent[pn]) \subseteq RangesTo(s.next)
  BY <1>1, RangeOfSeq
<1>4. SentTo(s) \in SUBSET RangesTo(s.next)
  BY <1>3 DEF SentTo
<1>5. Unheard(s, heard) \in SUBSET SentTo(s)
  BY DEF Unheard, SentTo
<1>6. QED
  BY <1>1, <1>2, <1>4, <1>5, SpansTo

------------------------------------------------------------------------------
(* The steps of a.                                                          *)

(* _send_packet: what a new packet has was given out before, and is to be   *)
(* delivered until b has heard of it.                                       *)
LEMMA PacketGood ==
    ASSUME NEW s, NEW st \in Seq(Byte), SndFits(s, st), NEW kind \in {"data", "ping", "probe"},
           NEW pieces \in Seq(RangesTo(s.next)), NEW skip \in {0, 1}, home \in Networks,
           kind = "probe" => pieces = <<>>,
           toB \in Seq(Packets(st, s.next)), Packet(s, kind, pieces, st, skip),
           NEW heard, Numbered(s, heard), Matches(s, toB),
           NEW K \in SUBSET Spans, NEW V \in SUBSET Spans, NEW c \in Nat,
           Kept((K \cup OnWay(toB)) \cup (Range(s.retx) \cup SentTo(s) \cup Range(pieces)),
                V \cup (Range(s.retx) \cup Unheard(s, heard) \cup Range(pieces)), c, s.next)
    PROVE  /\ Good(snd', heard, K \cup OnWay(toB'), V, c)
           /\ Numbered(snd', heard) /\ Matches(snd', toB')
<1> DEFINE pn == s.pn + skip
           skipped == IF skip = 1 THEN s.skipped \cup {s.pn} ELSE s.skipped
           sent == With(s.sent, pn, pieces)
           probe == IF kind = "probe" THEN pn ELSE s.probe
           t == [s EXCEPT !.pn = pn + 1, !.skipped = skipped, !.sent = sent, !.probe = probe]
           N == s.next
           data(r) == [at |-> r[1], bytes |-> SubSeq(st, r[1] + 1, r[1] + r[2])]
           parts == [i \in DOMAIN pieces |-> data(pieces[i])]
           packet == [kind |-> kind, pn |-> pn, from |-> home, pieces |-> parts]
<1>1. /\ s \in SndStates(s) /\ N \in Nat /\ s.pn \in Nat /\ N <= Len(st)
      /\ DOMAIN s.sent \subseteq 0..(s.pn - 1)
  BY SndTypes DEF SndFits
<1>2. /\ heard \subseteq 0..(s.pn - 1) /\ s.probe \in Int /\ s.probe < s.pn
      /\ s.probe \in DOMAIN s.sent => s.sent[s.probe] = <<>>
  BY DEF Numbered
<1>3. snd' = t
  BY DEF Packet
<1>4. \/ toB' = toB
      \/ toB' = Append(toB, packet)
  BY DEF Packet
<1>5. /\ DOMAIN sent = DOMAIN s.sent \cup {pn} /\ sent[pn] = pieces
      /\ \A k \in DOMAIN s.sent : k # pn => sent[k] = s.sent[k]
  BY DEF With
<1>6. /\ pn \in Nat /\ s.pn <= pn /\ s.pn < pn + 1 /\ pn < pn + 1
      /\ pn \notin DOMAIN s.sent /\ pn \notin heard /\ 0..(s.pn - 1) \subseteq 0..((pn + 1) - 1)
  BY <1>1, <1>2
<1>7. /\ t.next = N /\ t.pn = pn + 1 /\ t.retx = s.retx /\ t.sent = sent /\ t.probe = probe
  BY <1>1 DEF SndStates
<1>8. probe = pn \/ probe = s.probe
  OBVIOUS
<1>9. probe = pn => kind = "probe"
  BY <1>1, <1>2
<1>10. packet.pn = pn /\ packet.pieces = parts
  OBVIOUS
<1>11. /\ SndFits(t, st) /\ toB' \in Seq(Packets(st, N))
  BY <1>3, PacketFits
<1>12. Spanned(parts) = pieces
  <2>1. DOMAIN pieces = 1..Len(pieces) /\ DOMAIN parts = DOMAIN pieces
        /\ pieces = [i \in DOMAIN pieces |-> pieces[i]]
    BY LenProperties
  <2>2. ASSUME NEW i \in DOMAIN pieces
        PROVE  SpanOf(data(pieces[i])) = pieces[i]
    <3>1. PICK r \in RangesTo(N) : r = pieces[i]
      BY <2>1, ElementOfSeq
    <3>2. /\ r \in Nat \X Nat /\ r[1] \in Nat /\ r[2] \in Nat /\ r[1] + r[2] <= N
      BY DEF RangesTo
    <3>3. PICK k \in Nat, l \in Nat, e \in Nat : k = r[1] /\ l = r[2] /\ e = k + l
      BY <3>2
    <3>4. Len(SubSeq(st, k + 1, e)) = l
      <4>1. k <= e /\ e - k = l
        BY <3>3
      <4>2. Len(st) \in Nat /\ N \in Nat /\ N <= Len(st)
        BY <1>1, LenProperties
      <4>3. e <= Len(st)
        BY <3>2, <3>3, <4>2
      <4>4. Len(SubSeq(st, k + 1, e)) = e - k
        BY <1>1, <4>1, <4>3, PartFacts
      <4>5. QED
        BY <4>1, <4>4
    <3>5. Len(SubSeq(st, r[1] + 1, r[1] + r[2])) = r[2]
      BY <3>3, <3>4
    <3>6. SpanOf(data(r)) = <<r[1], r[2]>>
      BY <3>5 DEF SpanOf
    <3>7. <<r[1], r[2]>> = r
      BY <3>2
    <3>8. QED
      BY <3>1, <3>6, <3>7
  <2> HIDE DEF data
  <2>3. \A i \in DOMAIN parts : parts[i] = data(pieces[i])
    OBVIOUS
  <2> HIDE DEF parts
  <2>4. QED
    BY <2>1, <2>2, <2>3 DEF Spanned
<1> HIDE DEF parts, packet, sent, pn, probe, skipped
<1>13. SentTo(t) \subseteq SentTo(s) \cup Range(pieces)
  <2>1. \A k \in DOMAIN sent : Range(sent[k]) \subseteq SentTo(s) \cup Range(pieces)
    <3> TAKE k \in DOMAIN sent
    <3>1. CASE k = pn
      BY <1>5, <3>1
    <3>2. CASE k # pn
      <4>1. k \in DOMAIN s.sent /\ sent[k] = s.sent[k]
        BY <1>5, <3>2
      <4>2. QED
        BY <4>1 DEF SentTo
    <3>3. QED
      BY <3>1, <3>2
  <2>2. SentTo(t) = UNION {Range(sent[k]) : k \in DOMAIN sent}
    BY <1>7 DEF SentTo
  <2>3. QED
    BY <2>1, <2>2
<1>14. Unheard(s, heard) \cup Range(pieces) \subseteq Unheard(t, heard)
  <2>1. Unheard(t, heard) = UNION {Range(sent[k]) : k \in DOMAIN sent \ heard}
    BY <1>7 DEF Unheard
  <2>2. \A k \in DOMAIN s.sent \ heard : k \in DOMAIN sent \ heard /\ sent[k] = s.sent[k]
    BY <1>5, <1>6
  <2>3. pn \in DOMAIN sent \ heard /\ sent[pn] = pieces
    BY <1>5, <1>6
  <2>4. Range(pieces) \subseteq Unheard(t, heard)
    BY <2>1, <2>3
  <2>5. \A k \in DOMAIN s.sent \ heard : Range(s.sent[k]) \subseteq Unheard(t, heard)
    BY <2>1, <2>2
  <2>6. QED
    BY <2>4, <2>5 DEF Unheard
<1>15. OnWay(toB') \subseteq OnWay(toB) \cup Range(pieces)
  <2>1. CASE toB' = toB
    BY <2>1
  <2>2. CASE toB' = Append(toB, packet)
    <3>1. packet \in Packets(st, N)
      <4>1. toB' \in Seq(Packets(st, N)) /\ Len(toB) \in Nat
        BY <1>11, LenProperties
      <4>2. Len(Append(toB, packet)) = Len(toB) + 1 /\ Append(toB, packet)[Len(toB) + 1] = packet
        <5>1. PICK S : toB \in Seq(S) /\ packet \in S
          <6>1. toB \in Seq(Packets(st, N) \cup {packet})
            BY SeqMonotonic
          <6>2. QED
            BY <6>1
        <5>2. QED
          BY <5>1, AppendProperties
      <4>3. Len(toB) + 1 \in 1..Len(toB')
        BY <2>2, <4>1, <4>2
      <4>4. toB'[Len(toB) + 1] \in Packets(st, N)
        BY <4>1, <4>3, ElementOfSeq
      <4>5. QED
        BY <2>2, <4>2, <4>4
    <3>2. OnWay(Append(toB, packet)) = OnWay(toB) \cup Range(Spanned(packet.pieces))
      BY <1>1, <3>1, OnWayAppend
    <3>3. Range(Spanned(packet.pieces)) = Range(pieces)
      BY <1>10, <1>12
    <3>4. QED
      BY <2>2, <3>2, <3>3
  <2>3. QED
    BY <1>4, <2>1, <2>2
<1>16. Good(t, heard, K \cup OnWay(toB'), V, c)
  <2> DEFINE A == (K \cup OnWay(toB)) \cup (Range(s.retx) \cup SentTo(s) \cup Range(pieces))
             B == V \cup (Range(s.retx) \cup Unheard(s, heard) \cup Range(pieces))
             C == (K \cup OnWay(toB')) \cup Range(t.retx) \cup SentTo(t)
             D == V \cup Range(t.retx) \cup Unheard(t, heard)
  <2>1. /\ Range(s.retx) \in SUBSET Spans /\ SentTo(s) \in SUBSET Spans
        /\ Unheard(s, heard) \in SUBSET SentTo(s)
    BY SentFits
  <2>2. Range(t.retx) \in SUBSET Spans /\ SentTo(t) \in SUBSET Spans
        /\ Unheard(t, heard) \in SUBSET SentTo(t)
    BY <1>11, SentFits
  <2>3. Range(pieces) \in SUBSET Spans
    BY <1>1, RangeOfSeq, SpansTo
  <2>4. OnWay(toB) \in SUBSET Spans
    BY <1>1, OnWayFits
  <2>5. A \in SUBSET Spans /\ B \in SUBSET Spans /\ D \in SUBSET Spans
    BY <2>1, <2>2, <2>3, <2>4
  <2>6. C \in SUBSET A /\ B \subseteq D
    BY <1>7, <1>13, <1>14, <1>15
  <2>7. Kept(A, B, c, N)
    OBVIOUS
  <2> HIDE DEF A, B, C, D
  <2>8. Kept(C, D, c, N)
    BY <1>1, <2>5, <2>6, <2>7, KeptByMore
  <2>9. QED
    BY <1>7, <2>8 DEF Good, C, D
<1>17. Numbered(t, heard)
  <2>1. heard \subseteq 0..(t.pn - 1)
    BY <1>2, <1>6, <1>7
  <2>2. probe \in Int /\ probe < pn + 1
    BY <1>1, <1>2, <1>6, <1>8
  <2>3. probe \in DOMAIN sent => sent[probe] = <<>>
    <3>1. CASE probe = pn
      BY <1>5, <1>9, <3>1
    <3>2. CASE probe # pn
      BY <1>2, <1>5, <1>8, <3>2
    <3>3. QED
      BY <3>1, <3>2
  <2>4. QED
    BY <1>7, <2>1, <2>2, <2>3 DEF Numbered
<1>18. Matches(t, toB')
  <2>1. DOMAIN toB = 1..Len(toB) /\ Len(toB) \in Nat
    BY LenProperties
  <2>2. \A i \in DOMAIN toB :
          /\ toB[i].pn < pn + 1
          /\ toB[i].pn \in DOMAIN sent => sent[toB[i].pn] = Spanned(toB[i].pieces)
    <3> TAKE i \in DOMAIN toB
    <3>1. toB[i] \in Packets(st, N)
      BY <2>1, ElementOfSeq
    <3>2. PICK k \in Nat : k = toB[i].pn
      BY <3>1 DEF Packets
    <3>3. k < s.pn /\ (k \in DOMAIN s.sent => s.sent[k] = Spanned(toB[i].pieces))
      BY <3>2 DEF Matches
    <3>4. k < pn + 1 /\ k # pn
      BY <1>1, <1>6, <3>3
    <3>5. QED
      BY <1>5, <3>2, <3>3, <3>4
  <2>3. CASE toB' = toB
    BY <1>7, <2>2, <2>3 DEF Matches
  <2>4. CASE toB' = Append(toB, packet)
    <3>1. PICK S : toB \in Seq(S) /\ packet \in S
      <4>1. toB \in Seq(Packets(st, N) \cup {packet})
        BY SeqMonotonic
      <4>2. QED
        BY <4>1
    <3>2. /\ Len(Append(toB, packet)) = Len(toB) + 1 /\ Append(toB, packet)[Len(toB) + 1] = packet
          /\ \A i \in 1..Len(toB) : Append(toB, packet)[i] = toB[i]
          /\ Append(toB, packet) \in Seq(S)
      BY <3>1, AppendProperties
    <3>3. DOMAIN toB' = 1..(Len(toB) + 1)
      BY <2>4, <3>2, LenProperties
    <3>4. ASSUME NEW i \in DOMAIN toB'
          PROVE  /\ toB'[i].pn < pn + 1
                 /\ toB'[i].pn \in DOMAIN sent => sent[toB'[i].pn] = Spanned(toB'[i].pieces)
      <4>1. CASE i \in 1..Len(toB)
        <5>1. toB'[i] = toB[i] /\ i \in DOMAIN toB
          BY <2>1, <2>4, <3>2, <4>1
        <5>2. QED
          BY <2>2, <5>1
      <4>2. CASE i \notin 1..Len(toB)
        <5>1. i = Len(toB) + 1
          BY <2>1, <3>3, <4>2
        <5>2. toB'[i] = packet
          BY <2>4, <3>2, <5>1
        <5>3. toB'[i].pn = pn /\ Spanned(toB'[i].pieces) = pieces
          BY <1>10, <1>12, <5>2
        <5>4. QED
          BY <1>5, <1>6, <5>3
      <4>3. QED
        BY <4>1, <4>2
    <3>5. QED
      BY <1>7, <3>4 DEF Matches
  <2>5. QED
    BY <1>4, <2>3, <2>4
<1> HIDE DEF t
<1>19. QED
  BY <1>3, <1>16, <1>17, <1>18

(* _send_one.                                                               *)
LEMMA SendOneGood ==
    ASSUME IInv, NEW s, SndFits(s, stream), s.next = snd.next, s.cum = snd.cum,
           s.limit = snd.limit, NEW events, SendOne(s, events),
           NEW heard, Numbered(s, heard), Matches(s, toB),
           NEW K \in SUBSET RangesTo(snd.next), NEW V \in SUBSET Spans,
           Good(s, heard, K \cup OnWay(toB), V, rcv.cum)
    PROVE  /\ Good(snd', heard, K \cup OnWay(toB'), V, rcv.cum)
           /\ Numbered(snd', heard) /\ Matches(snd', toB')
<1> DEFINE packet(less) == Filled(s, (IF s.big THEN BigRoom ELSE SmallRoom) - less)
           Step(event, p) ==
             /\ stream' = p.st
             /\ IF p.pieces # <<>>
                THEN Packet(p.s, "data", p.pieces, p.st, IF event = "skip" THEN 1 ELSE 0)
                ELSE snd' = p.s /\ UNCHANGED toB
           c == rcv.cum
<1>1. PICK event \in events, less \in {0, 1} : Step(event, packet(less))
  <2>1. PICK event \in events :
          \E less \in (CASE event = "tight" -> {1} [] event = "early" -> {0, 1} [] OTHER -> {0}) :
          \E p \in {packet(less)} : Step(event, p)
    BY Zenon DEF SendOne
  <2>2. (CASE event = "tight" -> {1} [] event = "early" -> {0, 1} [] OTHER -> {0}) \subseteq {0, 1}
    OBVIOUS
  <2> HIDE DEF Step, packet
  <2>3. QED
    BY <2>1, <2>2, Zenon
<1> DEFINE p == packet(less)
           KK == (K \cup OnWay(toB)) \cup SentTo(s)
           VV == V \cup Unheard(s, heard)
<1>2. /\ stream \in Seq(Byte) /\ home \in Networks /\ toB \in Seq(Packets(stream, snd.next))
      /\ c \in Nat /\ s.cum <= c /\ snd.next \in Nat /\ snd.next <= Len(stream)
  BY SndKnown DEF SndFits
<1>3. (IF s.big THEN BigRoom ELSE SmallRoom) - less \in Nat
  BY UdpAssumption
<1>4. /\ Range(s.retx) \in SUBSET Spans /\ SentTo(s) \in SUBSET RangesTo(s.next)
      /\ SentTo(s) \in SUBSET Spans /\ Unheard(s, heard) \in SUBSET SentTo(s)
  BY SentFits
<1>5. OnWay(toB) \in SUBSET RangesTo(snd.next)
  BY <1>2, OnWayFits
<1>6. KK \in SUBSET RangesTo(s.next) /\ VV \in SUBSET Spans
  BY <1>4, <1>5
<1>7. Kept(KK \cup Range(s.retx), VV \cup Range(s.retx), c, s.next)
  <2>1. /\ KK \cup Range(s.retx) = K \cup OnWay(toB) \cup Range(s.retx) \cup SentTo(s)
        /\ VV \cup Range(s.retx) = V \cup Range(s.retx) \cup Unheard(s, heard)
    OBVIOUS
  <2> HIDE DEF KK, VV, c
  <2>2. QED
    BY <2>1 DEF Good, c
<1>8. p \in FillKept(s, KK, VV, c)
  <2> DEFINE room == (IF s.big THEN BigRoom ELSE SmallRoom) - less
  <2>1. room \in Nat
    BY <1>3
  <2> HIDE DEF room, KK, VV, c
  <2>2. Filled(s, room) \in FillKept(s, KK, VV, c)
    BY <1>2, <1>6, <1>7, <2>1, FilledKept
  <2>3. QED
    BY <2>2 DEF room
<1>9. Step(event, p)
  BY <1>1
<1> HIDE DEF p, packet
<1>10. p \in FillStates(s) /\ p.s.sent = s.sent /\ Kept(KK \cup Extra(p), VV \cup Extra(p), c, p.s.next)
  BY <1>8 DEF FillKept
<1>11. /\ SndFits(p.s, p.st) /\ Extends(p.st, stream) /\ p.pieces \in Seq(RangesTo(p.s.next))
       /\ p.st \in Seq(Byte) /\ s.next <= p.s.next /\ p.s.pn = s.pn /\ p.s \in SndStates(s)
  BY <1>10 DEF FillStates
<1>12. p.s.probe = s.probe /\ p.s.next \in Nat
  BY <1>11 DEF SndStates
<1>13. Numbered(p.s, heard) /\ Matches(p.s, toB)
  BY <1>10, <1>11, <1>12 DEF Numbered, Matches
<1>14. SentTo(p.s) = SentTo(s) /\ Unheard(p.s, heard) = Unheard(s, heard)
  BY <1>10 DEF SentTo, Unheard
<1>15. Extra(p) = Range(p.s.retx) \cup Range(p.pieces)
  BY DEF Extra
<1>16. CASE p.pieces = <<>>
  <2>1. snd' = p.s /\ toB' = toB
    BY <1>9, <1>16
  <2>2. Extra(p) = Range(p.s.retx)
    BY <1>15, <1>16 DEF Range
  <2>3. /\ KK \cup Extra(p) = (K \cup OnWay(toB)) \cup Range(p.s.retx) \cup SentTo(p.s)
        /\ VV \cup Extra(p) = V \cup Range(p.s.retx) \cup Unheard(p.s, heard)
    BY <1>14, <2>2
  <2> HIDE DEF c, KK, VV
  <2>4. Good(p.s, heard, K \cup OnWay(toB), V, c)
    BY <1>10, <2>3 DEF Good
  <2>5. QED
    BY <1>13, <2>1, <2>4 DEF c
<1>17. CASE p.pieces # <<>>
  <2>1. PICK skip \in {0, 1} : Packet(p.s, "data", p.pieces, p.st, skip)
    BY <1>9, <1>17
  <2>2. toB \in Seq(Packets(p.st, p.s.next))
    <3>1. Seq(Packets(stream, snd.next)) \subseteq Seq(Packets(p.st, p.s.next))
      BY <1>2, <1>11, <1>12, PacketsGrow
    <3>2. QED
      BY <1>2, <3>1
  <2>3. /\ KK \cup Extra(p) = (K \cup OnWay(toB)) \cup (Range(p.s.retx) \cup SentTo(p.s) \cup Range(p.pieces))
        /\ VV \cup Extra(p) = V \cup (Range(p.s.retx) \cup Unheard(p.s, heard) \cup Range(p.pieces))
    BY <1>14, <1>15
  <2> HIDE DEF KK, VV
  <2>4. Kept((K \cup OnWay(toB)) \cup (Range(p.s.retx) \cup SentTo(p.s) \cup Range(p.pieces)),
             V \cup (Range(p.s.retx) \cup Unheard(p.s, heard) \cup Range(p.pieces)), c, p.s.next)
    BY <1>10, <2>3
  <2>5. K \in SUBSET Spans
    BY <1>2, SpansTo
  <2>6. PICK u, st, q : u = p.s /\ st = p.st /\ q = p.pieces
    OBVIOUS
  <2>7. /\ st \in Seq(Byte) /\ SndFits(u, st) /\ q \in Seq(RangesTo(u.next))
        /\ toB \in Seq(Packets(st, u.next)) /\ Packet(u, "data", q, st, skip)
        /\ Numbered(u, heard) /\ Matches(u, toB)
        /\ Kept((K \cup OnWay(toB)) \cup (Range(u.retx) \cup SentTo(u) \cup Range(q)),
                V \cup (Range(u.retx) \cup Unheard(u, heard) \cup Range(q)), c, u.next)
    BY <1>11, <1>13, <2>1, <2>2, <2>4, <2>6
  <2>8. "data" \in {"data", "ping", "probe"} /\ "data" # "probe"
    OBVIOUS
  <2> HIDE DEF c
  <2>9. /\ Good(snd', heard, K \cup OnWay(toB'), V, c)
        /\ Numbered(snd', heard) /\ Matches(snd', toB')
    BY <1>2, <2>5, <2>7, <2>8, PacketGood
  <2>10. QED
    BY <2>9 DEF c
<1>18. QED
  BY <1>16, <1>17

(* The ranges of the packet that is sent again on a probe timeout.          *)
LEMMA InsertGood ==
    ASSUME NEW s, NEW st, SndFits(s, st), NEW heard, Numbered(s, heard), Matches(s, toB),
           NEW q \in Seq(SentTo(s)), NEW K \in SUBSET Spans, NEW V \in SUBSET Spans, NEW c \in Nat,
           Good(s, heard, K, V, c)
    PROVE  LET t == Folded(Insert, s, q)
           IN  Good(t, heard, K, V, c) /\ Numbered(t, heard) /\ Matches(t, toB)
<1> DEFINE R == {t \in SndStates(s) :
                   /\ SndFits(t, st) /\ t.next = s.next /\ t.pn = s.pn /\ t.probe = s.probe
                   /\ t.sent = s.sent
                   /\ Range(s.retx) \subseteq Range(t.retx)
                   /\ Range(t.retx) \subseteq Range(s.retx) \cup SentTo(s)}
<1>0. SentTo(s) \in SUBSET RangesTo(s.next)
  BY SentFits
<1>1. s \in R
  BY DEF SndFits
<1>2. ASSUME NEW y \in R, NEW r \in SentTo(s) PROVE Insert(y, r) \in R
  <2>1. /\ y \in SndStates(s) /\ SndFits(y, st) /\ y.next = s.next /\ y.pn = s.pn /\ y.probe = s.probe
        /\ y.sent = s.sent /\ Range(s.retx) \subseteq Range(y.retx)
        /\ Range(y.retx) \subseteq Range(s.retx) \cup SentTo(s)
    OBVIOUS
  <2> DEFINE new == <<r>> \o y.retx
             t == [y EXCEPT !.retx = new]
  <2>2. Insert(y, r) = y \/ Insert(y, r) = t
    BY DEF Insert
  <2>3. new \in Seq(RangesTo(y.next)) /\ Range(new) = {r} \cup Range(y.retx)
    <3>1. r \in RangesTo(y.next) /\ y.retx \in Seq(RangesTo(y.next))
      BY <1>0, <2>1 DEF SndFits
    <3>2. PICK x \in RangesTo(y.next), w \in Seq(RangesTo(y.next)) : x = r /\ w = y.retx
      BY <3>1
    <3>3. Range(<<x>> \o w) = {x} \cup Range(w)
      BY RangeOfCons
    <3>4. <<x>> \o w \in Seq(RangesTo(y.next))
      <4>1. <<x>> \in Seq(RangesTo(y.next))
        OBVIOUS
      <4>2. QED
        BY <4>1, ConcatProperties
    <3>5. QED
      BY <3>2, <3>3, <3>4
  <2> HIDE DEF new
  <2>4. /\ SndFits(t, st) /\ t \in SndStates(y) /\ t.retx = new
        /\ \A f \in DOMAIN y : f # "retx" => t[f] = y[f]
    BY <2>1, <2>3, OtherRetx
  <2>5. SndStates(y) = SndStates(s)
    BY <2>1 DEF SndStates
  <2> HIDE DEF t
  <2>6. t \in SndStates(s) /\ t.next = s.next /\ t.pn = s.pn /\ t.probe = s.probe /\ t.sent = s.sent
    BY <2>1, <2>4, <2>5 DEF SndStates
  <2>7. t \in R
    BY <2>1, <2>3, <2>4, <2>6
  <2>8. QED
    BY <2>2, <2>7
<1>3. Len(q) \in Nat /\ \A n \in 1..Len(q) : q[n] \in SentTo(s)
  BY LenProperties, ElementOfSeq
<1> DEFINE t == Folded(Insert, s, q)
<1>4. t \in R
  <2> HIDE DEF R
  <2>1. \A n \in 1..Len(q) : \A y \in R : Insert(y, q[n]) \in R
    BY <1>2, <1>3
  <2>2. QED
    BY <1>1, <1>3, <2>1, InsertLoop
<1> HIDE DEF t
<1>5. /\ SndFits(t, st) /\ t.next = s.next /\ t.pn = s.pn /\ t.probe = s.probe
      /\ t.sent = s.sent /\ Range(s.retx) \subseteq Range(t.retx)
      /\ Range(t.retx) \subseteq Range(s.retx) \cup SentTo(s)
  BY <1>4
<1>6. Numbered(t, heard) /\ Matches(t, toB)
  BY <1>5 DEF Numbered, Matches
<1>7. Good(t, heard, K, V, c)
  <2> DEFINE A == K \cup Range(s.retx) \cup SentTo(s)
             B == V \cup Range(s.retx) \cup Unheard(s, heard)
             C == K \cup Range(t.retx) \cup SentTo(t)
             D == V \cup Range(t.retx) \cup Unheard(t, heard)
  <2>1. /\ Range(s.retx) \in SUBSET Spans /\ SentTo(s) \in SUBSET Spans
        /\ Unheard(s, heard) \in SUBSET SentTo(s)
    BY SentFits
  <2>2. Range(t.retx) \in SUBSET Spans
    BY <1>5, SentFits
  <2>3. SentTo(t) = SentTo(s) /\ Unheard(t, heard) = Unheard(s, heard)
    BY <1>5 DEF SentTo, Unheard
  <2>4. A \in SUBSET Spans /\ B \in SUBSET Spans /\ D \in SUBSET Spans
    BY <2>1, <2>2, <2>3
  <2>5. C \in SUBSET A /\ B \subseteq D
    BY <1>5, <2>3
  <2>6. Kept(A, B, c, s.next) /\ s.next \in Nat
    BY SndTypes DEF Good
  <2> HIDE DEF A, B, C, D
  <2>7. Kept(C, D, c, s.next)
    BY <2>4, <2>5, <2>6, KeptByMore
  <2>8. QED
    BY <1>5, <2>7 DEF Good, C, D
<1>8. QED
  BY <1>6, <1>7 DEF t

LEMMA SeqInRange ==
    ASSUME NEW S, NEW q \in Seq(S), NEW T, Range(q) \subseteq T
    PROVE  q \in Seq(T)
<1>1. q \in Seq(Range(q))
  BY SeqOfRange
<1>2. QED
  BY <1>1, SeqMonotonic

(* The ranges of the lost packets, all of them.                             *)
LEMMA RangesOfAll ==
    ASSUME NEW S, NEW s, s.pn \in Nat, NEW lost \in SUBSET (0..(s.pn - 1)),
           \A pn \in lost : s.sent[pn] \in Seq(S)
    PROVE  Range(RangesOf(s, lost)) = UNION {Range(s.sent[pn]) : pn \in lost}
<1> DEFINE T == UNION {Range(s.sent[pn]) : pn \in lost}
           q == Times(s.pn)
           L == Len(q)
           R == Seq(T)
           A == [n \in 0..L |-> {y \in R : \A pn \in lost : pn < n => Range(s.sent[pn]) \subseteq Range(y)}]
           turn(n, y) == IF q[n] - 1 \in lost THEN y \o s.sent[q[n] - 1] ELSE y
<1>1. L = s.pn /\ L \in Nat /\ \A n \in 1..L : q[n] = n
  BY TimesFacts
<1>2. \A pn \in lost : s.sent[pn] \in R
  BY SeqInRange
<1> HIDE DEF T
<1>3. <<>> \in R
  OBVIOUS
<1>4. ASSUME NEW n \in 1..L, NEW y \in R
      PROVE  /\ turn(n, y) \in R /\ Range(y) \subseteq Range(turn(n, y))
             /\ n - 1 \in lost => Range(s.sent[n - 1]) \subseteq Range(turn(n, y))
  <2>1. q[n] = n
    BY <1>1
  <2>2. CASE n - 1 \in lost
    <3>1. PICK z \in Seq(T) : z = s.sent[n - 1]
      BY <1>2, <2>2
    <3>2. y \o z \in Seq(T)
      BY <3>1, ConcatProperties
    <3>3. Range(y \o z) = Range(y) \cup Range(z)
      BY RangeConcatenation
    <3>4. turn(n, y) = y \o z
      BY <2>1, <2>2, <3>1
    <3>5. QED
      BY <3>1, <3>2, <3>3, <3>4
  <2>3. CASE n - 1 \notin lost
    BY <2>1, <2>3
  <2>4. QED
    BY <2>2, <2>3
<1>5. \A n \in 0..L : A[n] = {y \in R : \A pn \in lost : pn < n => Range(s.sent[pn]) \subseteq Range(y)}
  OBVIOUS
<1> HIDE DEF A
<1>6. <<>> \in A[0] /\ 0 \in 0..L /\ L \in 0..L
  <2>1. 0 \in 0..L /\ L \in 0..L
    BY <1>1
  <2>2. \A pn \in lost : ~(pn < 0)
    BY <1>1
  <2>3. A[0] = {y \in R : \A pn \in lost : pn < 0 => Range(s.sent[pn]) \subseteq Range(y)}
    BY <1>5, <2>1
  <2> HIDE DEF R
  <2>4. QED
    BY <1>3, <2>1, <2>2, <2>3
<1>7. ASSUME NEW n \in 1..L, NEW y \in R \cap A[n - 1]
      PROVE  turn(n, y) \in A[n]
  <2>1. n \in 0..L /\ n - 1 \in 0..L
    BY <1>1
  <2>2. \A pn \in lost : pn < n - 1 => Range(s.sent[pn]) \subseteq Range(y)
    BY <1>5, <1>7, <2>1
  <2>3. turn(n, y) \in R /\ Range(y) \subseteq Range(turn(n, y))
    BY <1>4
  <2>4. n - 1 \in lost => Range(s.sent[n - 1]) \subseteq Range(turn(n, y))
    BY <1>4
  <2> HIDE DEF turn
  <2>5. \A pn \in lost : pn < n => pn < n - 1 \/ pn = n - 1
    BY <1>1, <2>1
  <2>6. \A pn \in lost : pn < n => Range(s.sent[pn]) \subseteq Range(turn(n, y))
    BY <2>2, <2>3, <2>4, <2>5
  <2>7. QED
    BY <1>5, <2>1, <2>3, <2>6
<1>8. RangesOf(s, lost) \in R /\ RangesOf(s, lost) \in A[L]
  <2> HIDE DEF R
  <2>1. \A n \in 1..Len(Times(s.pn)) : \A y \in R :
          (IF Times(s.pn)[n] - 1 \in lost THEN y \o s.sent[Times(s.pn)[n] - 1] ELSE y) \in R
    BY <1>4
  <2>2. \A n \in 1..Len(Times(s.pn)) : \A y \in R \cap A[n - 1] :
          (IF Times(s.pn)[n] - 1 \in lost THEN y \o s.sent[Times(s.pn)[n] - 1] ELSE y) \in A[n]
    BY <1>7
  <2>3. <<>> \in R /\ Len(Times(s.pn)) \in Nat /\ <<>> \in A[0]
    BY <1>1, <1>3, <1>6
  <2>4. QED
    BY <2>1, <2>2, <2>3, RangesLoop
<1>9. Range(RangesOf(s, lost)) \subseteq T
  BY <1>8, RangeOfSeq
<1>10. \A pn \in lost : Range(s.sent[pn]) \subseteq Range(RangesOf(s, lost))
  BY <1>1, <1>5, <1>6, <1>8
<1>11. QED
  BY <1>9, <1>10 DEF T

(* Sorting loses no range.                                                  *)
LEMMA PlacedRange ==
    ASSUME NEW S, NEW q \in Seq(S), NEW r \in S
    PROVE  Range(q) \cup {r} \subseteq Range(Placed(q, r))
<1> DEFINE P == {i \in DOMAIN q : q[i][1] < r[1] \/ (q[i][1] = r[1] /\ q[i][2] <= r[2])}
           k == Cardinality(P)
<1>1. Len(q) \in Nat /\ DOMAIN q = 1..Len(q) /\ \A i \in 1..Len(q) : q[i] \in S
  BY LenProperties, ElementOfSeq
<1>2. k \in Nat /\ k <= Len(q)
  <2>1. P \in SUBSET (1..Len(q))
    BY <1>1
  <2> HIDE DEF P
  <2>2. QED
    BY <1>1, <2>1, Ranks
<1>3. Placed(q, r) = SubSeq(q, 1, (1 + k) - 1) \o <<r>> \o SubSeq(q, 1 + k, Len(q))
  BY Zenon DEF Placed, InsertAt
<1> HIDE DEF k
<1>4. PICK a \in Seq(S), b \in Seq(S) :
        /\ a = SubSeq(q, 1, (1 + k) - 1) /\ b = SubSeq(q, 1 + k, Len(q))
        /\ Len(a) = k /\ \A i \in 1..k : a[i] = q[i]
        /\ Len(b) = Len(q) - k /\ \A i \in 1..(Len(q) - k) : b[i] = q[k + i]
  <2>1. (1 + k) - 1 = k /\ 1 + k \in Int /\ k \in Int /\ Len(q) \in Int
    BY <1>1, <1>2
  <2>2. \A i \in 1..k : q[i] \in S
    BY <1>1, <1>2
  <2>3. \A i \in (1 + k)..Len(q) : q[i] \in S
    BY <1>1, <1>2
  <2>4. /\ SubSeq(q, 1, k) \in Seq(S)
        /\ Len(SubSeq(q, 1, k)) = IF 1 <= k THEN k - 1 + 1 ELSE 0
        /\ \A i \in 1..(k - 1 + 1) : SubSeq(q, 1, k)[i] = q[1 + i - 1]
    BY <2>1, <2>2, SubSeqProperties
  <2>5. /\ SubSeq(q, 1 + k, Len(q)) \in Seq(S)
        /\ Len(SubSeq(q, 1 + k, Len(q))) = IF 1 + k <= Len(q) THEN Len(q) - (1 + k) + 1 ELSE 0
        /\ \A i \in 1..(Len(q) - (1 + k) + 1) : SubSeq(q, 1 + k, Len(q))[i] = q[(1 + k) + i - 1]
    BY <2>1, <2>3, SubSeqProperties
  <2>6. Len(SubSeq(q, 1, k)) = k /\ \A i \in 1..k : SubSeq(q, 1, k)[i] = q[i]
    BY <1>2, <2>4
  <2>7. /\ Len(SubSeq(q, 1 + k, Len(q))) = Len(q) - k
        /\ \A i \in 1..(Len(q) - k) : SubSeq(q, 1 + k, Len(q))[i] = q[k + i]
    <3>1. Len(q) - (1 + k) + 1 = Len(q) - k /\ Len(q) - k \in Nat
      BY <1>1, <1>2
    <3>2. \A i \in 1..(Len(q) - k) : (1 + k) + i - 1 = k + i
      BY <1>2
    <3>3. (IF 1 + k <= Len(q) THEN Len(q) - (1 + k) + 1 ELSE 0) = Len(q) - k
      <4>1. PICK l \in Nat : l = Len(q)
        BY <1>1
      <4>2. k \in Nat /\ k <= l
        BY <1>2, <4>1
      <4>3. (IF 1 + k <= l THEN l - (1 + k) + 1 ELSE 0) = l - k
        BY <4>2
      <4>4. QED
        BY <4>1, <4>3
    <3>4. QED
      BY <2>5, <3>1, <3>2, <3>3
  <2>8. QED
    BY <2>1, <2>4, <2>5, <2>6, <2>7
<1>5. Range(Placed(q, r)) = (Range(a) \cup {r}) \cup Range(b)
  <2>1. PICK m \in Seq(S) : m = <<r>> /\ Range(m) = {r}
    <3>1. <<r>> \in Seq(S) /\ Range(<<r>>) = {r}
      BY DEF Range
    <3>2. QED
      BY <3>1
  <2>2. Range(a \o m) = Range(a) \cup Range(m) /\ a \o m \in Seq(S)
    BY RangeConcatenation, ConcatProperties
  <2>3. PICK n \in Seq(S) : n = a \o m
    BY <2>2
  <2>4. Range(n \o b) = Range(n) \cup Range(b)
    BY RangeConcatenation
  <2>5. Placed(q, r) = n \o b
    BY <1>3, <1>4, <2>1, <2>3
  <2>6. QED
    BY <2>1, <2>2, <2>3, <2>4, <2>5
<1>6. ASSUME NEW i \in 1..Len(q) PROVE q[i] \in Range(a) \cup Range(b)
  <2>1. Range(a) = {a[j] : j \in 1..Len(a)} /\ Range(b) = {b[j] : j \in 1..Len(b)}
    BY RangeAt
  <2>2. CASE i <= k
    <3>1. i \in 1..k
      BY <1>2, <2>2
    <3>2. QED
      BY <1>4, <2>1, <3>1
  <2>3. CASE ~(i <= k)
    <3>1. i - k \in 1..(Len(q) - k) /\ k + (i - k) = i
      BY <1>1, <1>2, <2>3
    <3>2. b[i - k] = q[i] /\ i - k \in 1..Len(b)
      BY <1>4, <3>1
    <3>3. QED
      BY <2>1, <3>2
  <2>4. QED
    BY <2>2, <2>3
<1>7. Range(q) = {q[i] : i \in 1..Len(q)}
  BY RangeAt
<1>8. QED
  BY <1>5, <1>6, <1>7

LEMMA SortedRanges ==
    ASSUME NEW S, NEW q \in Seq(S)
    PROVE  Range(Folded(Placed, <<>>, q)) = Range(q)
<1> DEFINE T == Range(q)
           L == Len(q)
           R == Seq(T)
           A == [n \in 0..L |-> {y \in R : \A i \in 1..n : q[i] \in Range(y)}]
<1>1. L \in Nat /\ <<>> \in R /\ T = {q[i] : i \in 1..L} /\ q \in R
  BY LenProperties, RangeAt, SeqInRange
<1> HIDE DEF T
<1>2. ASSUME NEW n \in 1..L, NEW y \in R
      PROVE  /\ Placed(y, q[n]) \in R /\ Range(y) \subseteq Range(Placed(y, q[n]))
             /\ q[n] \in Range(Placed(y, q[n]))
  <2>1. PICK r \in T : r = q[n]
    BY <1>1
  <2>2. Placed(y, r) \in Seq(T)
    BY PlacedFit
  <2>3. Range(y) \cup {r} \subseteq Range(Placed(y, r))
    BY PlacedRange
  <2>4. QED
    BY <2>1, <2>2, <2>3
<1>3. \A n \in 0..L : A[n] = {y \in R : \A i \in 1..n : q[i] \in Range(y)}
  OBVIOUS
<1> HIDE DEF A
<1>4. <<>> \in A[0] /\ 0 \in 0..L /\ L \in 0..L
  <2>1. 0 \in 0..L /\ L \in 0..L
    BY <1>1
  <2>2. 1..0 = {}
    OBVIOUS
  <2>3. A[0] = {y \in R : \A i \in 1..0 : q[i] \in Range(y)}
    BY <1>3, <2>1
  <2> HIDE DEF R
  <2>4. QED
    BY <1>1, <2>1, <2>2, <2>3
<1>5. ASSUME NEW n \in 1..L, NEW y \in R \cap A[n - 1]
      PROVE  Placed(y, q[n]) \in A[n]
  <2>1. n \in 0..L /\ n - 1 \in 0..L
    BY <1>1
  <2>2. \A i \in 1..(n - 1) : q[i] \in Range(y)
    BY <1>3, <1>5, <2>1
  <2>3. /\ Placed(y, q[n]) \in R /\ Range(y) \subseteq Range(Placed(y, q[n]))
        /\ q[n] \in Range(Placed(y, q[n]))
    BY <1>2
  <2>4. \A i \in 1..n : i \in 1..(n - 1) \/ i = n
    BY <2>1
  <2>5. \A i \in 1..n : q[i] \in Range(Placed(y, q[n]))
    BY <2>2, <2>3, <2>4
  <2>6. QED
    BY <1>3, <2>1, <2>3, <2>5
<1>6. Folded(Placed, <<>>, q) \in R /\ Folded(Placed, <<>>, q) \in A[L]
  <2> HIDE DEF R
  <2>1. \A n \in 1..Len(q) : \A y \in R : Placed(y, q[n]) \in R
    BY <1>2
  <2>2. \A n \in 1..Len(q) : \A y \in R \cap A[n - 1] : Placed(y, q[n]) \in A[n]
    BY <1>5
  <2>3. <<>> \in R /\ Len(q) \in Nat /\ <<>> \in A[0]
    BY <1>1, <1>4
  <2>4. QED
    BY <2>1, <2>2, <2>3, PlacedLoop
<1>7. Range(Folded(Placed, <<>>, q)) \subseteq T
  BY <1>6, RangeOfSeq
<1>8. \A i \in 1..L : q[i] \in Range(Folded(Placed, <<>>, q))
  BY <1>3, <1>4, <1>6
<1>9. QED
  BY <1>1, <1>7, <1>8 DEF T

(* _detect_loss forgets no range that is not confirmed.                     *)
LEMMA DetectLossGood ==
    ASSUME NEW s, NEW st, SndFits(s, st), NEW n, NEW heard, Numbered(s, heard), Matches(s, toB),
           NEW K \in SUBSET Spans, NEW V \in SUBSET Spans, NEW c \in Nat, s.cum <= c,
           Good(s, heard, K, V, c)
    PROVE  LET t == DetectLoss(s, n)
           IN  Good(t, heard, K, V, c) /\ Numbered(t, heard) /\ Matches(t, toB)
<1> DEFINE lost == Lost(s, n)
           less == lost \ {s.probe}
           ranges == RangesOf(s, less)
           kept == [pn \in DOMAIN s.sent \ lost |-> s.sent[pn]]
           due == Unconfirmed(ranges, s.cum)
           new == Folded(Placed, <<>>, s.retx \o due)
           N == s.next
           t == [s EXCEPT !.sent = kept, !.retx = new]
           d == DetectLoss(s, n)
<1>1. /\ s \in SndStates(s) /\ N \in Nat /\ s.pn \in Nat /\ s.retx \in Seq(RangesTo(N))
      /\ s.cum \in Nat /\ DOMAIN s.sent \subseteq 0..(s.pn - 1)
      /\ \A k \in DOMAIN s.sent : s.sent[k] \in Seq(RangesTo(N))
  BY SndTypes DEF SndFits
<1>2. d = IF lost = {} THEN s ELSE t
  BY <1>1 DEF DetectLoss, SndStates
<1>3. lost \subseteq DOMAIN s.sent
  BY DEF Lost
<1> HIDE DEF lost
<1>4. less \in SUBSET (0..(s.pn - 1)) /\ \A pn \in less : s.sent[pn] \in Seq(RangesTo(N))
  BY <1>1, <1>3
<1> HIDE DEF less
<1>5. /\ ranges \in Seq(RangesTo(N))
      /\ Range(ranges) = UNION {Range(s.sent[pn]) : pn \in less}
  BY <1>1, <1>4, RangesOfFit, RangesOfAll
<1> HIDE DEF ranges
<1>6. /\ due \in Seq(RangesTo(N)) /\ Range(due) \subseteq Range(ranges)
      /\ \A r \in Range(ranges) : r[1] + r[2] > s.cum => r \in Range(due)
  <2>1. due \in Seq({r \in RangesTo(N) : r[1] + r[2] > s.cum})
    BY <1>5, UnconfirmedFit
  <2>2. due \in Seq(RangesTo(N))
    BY <2>1, SeqMonotonic
  <2>3. QED
    BY <1>5, <2>2, UnconfirmedRanges
<1> HIDE DEF due
<1>7. Range(new) = Range(s.retx) \cup Range(due)
  <2>1. PICK a \in Seq(RangesTo(N)), b \in Seq(RangesTo(N)) : a = s.retx /\ b = due
    BY <1>1, <1>6
  <2>2. a \o b \in Seq(RangesTo(N)) /\ Range(a \o b) = Range(a) \cup Range(b)
    BY RangeConcatenation, ConcatProperties
  <2>3. Range(Folded(Placed, <<>>, a \o b)) = Range(a \o b)
    BY <2>2, SortedRanges
  <2>4. QED
    BY <2>1, <2>2, <2>3
<1> HIDE DEF new
<1>8. CASE lost = {}
  BY <1>2, <1>8
<1>9. CASE lost # {}
  <2>1. DOMAIN kept = DOMAIN s.sent \ lost /\ \A k \in DOMAIN kept : kept[k] = s.sent[k]
    OBVIOUS
  <2> HIDE DEF kept
  <2>2. /\ t.sent = kept /\ t.retx = new /\ t.next = N /\ t.pn = s.pn /\ t.probe = s.probe
    BY <1>1 DEF SndStates
  <2>3. d = t
    BY <1>2, <1>9
  <2> HIDE DEF t, d
  <2>4. SndFits(d, st)
    BY DetectLossFits DEF d
  <2>5. Numbered(t, heard)
    BY <2>1, <2>2 DEF Numbered
  <2>6. Matches(t, toB)
    BY <2>1, <2>2 DEF Matches
  <2>7. SentTo(t) \subseteq SentTo(s)
    BY <2>1, <2>2 DEF SentTo
  <2>8. Range(t.retx) \subseteq Range(s.retx) \cup SentTo(s)
    <3>1. \A pn \in less : Range(s.sent[pn]) \subseteq SentTo(s)
      BY <1>3 DEF SentTo, less
    <3>2. QED
      BY <1>5, <1>6, <1>7, <2>2, <3>1
  <2>9. ASSUME NEW r \in Unheard(s, heard)
        PROVE  r \in Range(t.retx) \cup Unheard(t, heard) \/ End(r) <= c
    <3>1. PICK pn \in DOMAIN s.sent \ heard : r \in Range(s.sent[pn])
      BY DEF Unheard
    <3>2. CASE pn \notin lost
      <4>1. pn \in DOMAIN t.sent \ heard /\ t.sent[pn] = s.sent[pn]
        BY <2>1, <2>2, <3>1, <3>2
      <4>2. QED
        BY <3>1, <4>1 DEF Unheard
    <3>3. CASE pn \in lost
      <4>1. pn # s.probe
        <5>1. Range(<<>>) = {}
          BY DEF Range
        <5>2. QED
          BY <3>1, <5>1 DEF Numbered
      <4>2. r \in Range(ranges)
        BY <1>5, <3>1, <3>3, <4>1 DEF less
      <4>3. CASE r[1] + r[2] > s.cum
        BY <1>6, <1>7, <2>2, <4>2, <4>3
      <4>4. CASE ~(r[1] + r[2] > s.cum)
        <5>1. r[1] \in Nat /\ r[2] \in Nat
          <6>1. Range(ranges) \subseteq RangesTo(N)
            BY <1>5, RangeOfSeq
          <6>2. QED
            BY <4>2, <6>1 DEF RangesTo
        <5>2. QED
          BY <1>1, <4>4, <5>1 DEF End
      <4>5. QED
        BY <4>3, <4>4
    <3>4. QED
      BY <3>2, <3>3
  <2>10. Good(t, heard, K, V, c)
    <3> DEFINE A == K \cup Range(s.retx) \cup SentTo(s)
               B == V \cup Range(s.retx) \cup Unheard(s, heard)
               C == K \cup Range(t.retx) \cup SentTo(t)
               D == V \cup Range(t.retx) \cup Unheard(t, heard)
    <3>1. /\ Range(s.retx) \in SUBSET Spans /\ SentTo(s) \in SUBSET Spans
          /\ Unheard(s, heard) \in SUBSET SentTo(s)
      BY SentFits
    <3>2. /\ Range(t.retx) \in SUBSET Spans /\ SentTo(t) \in SUBSET Spans
          /\ Unheard(t, heard) \in SUBSET SentTo(t)
      BY <2>3, <2>4, SentFits
    <3>3. A \in SUBSET Spans /\ B \in SUBSET Spans /\ D \in SUBSET Spans
      BY <3>1, <3>2
    <3>4. C \in SUBSET A
      BY <2>7, <2>8
    <3>5. \A r \in B : r \in D \/ End(r) <= c
      BY <1>7, <2>2, <2>9
    <3>6. Kept(A, B, c, N)
      BY DEF Good
    <3> HIDE DEF A, B, C, D
    <3>7. Kept(C, D, c, N)
      BY <1>1, <3>3, <3>4, <3>5, <3>6, KeptByMore
    <3>8. QED
      BY <2>2, <3>7 DEF Good, C, D
  <2>11. QED
    BY <2>3, <2>5, <2>6, <2>10 DEF d
<1>10. QED
  BY <1>8, <1>9

(* _on_ack: a forgets the packets that b has heard of, and the ranges that  *)
(* b confirms.                                                              *)
LEMMA OnAckGood ==
    ASSUME NEW s, SndFits(s, stream), NEW c \in Nat, NEW o \in Nat, s.cum <= c, s.limit <= o,
           NEW ack, ack.cum \in 0..c, ack.max \in 0..o,
           NEW heard, ack.ranges \subseteq heard, Numbered(s, heard), Matches(s, toB),
           NEW K \in SUBSET Spans, NEW V \in SUBSET Spans, Good(s, heard, K, V, c),
           NEW d, d = OnAck(s, ack)
    PROVE  Good(d, heard, K, V, c) /\ Numbered(d, heard) /\ Matches(d, toB)
<1>1. PICK t : t = AfterAck(s, ack)
  OBVIOUS
<1>2. /\ SndFits(t, stream) /\ t.next = s.next /\ t.cum <= c /\ t.limit <= o
      /\ t.retx = Unconfirmed(s.retx, t.cum) /\ t.pn = s.pn /\ t.probe = s.probe
      /\ DOMAIN t.sent = DOMAIN s.sent \ ack.ranges
      /\ \A pn \in DOMAIN t.sent : t.sent[pn] = s.sent[pn]
  BY <1>1, AfterAckFits
<1>3. PICK u : u = DetectLoss(t, -1)
  OBVIOUS
<1>4. d = Wakes(u, stream)
  BY <1>1, <1>3 DEF OnAck, AfterAck
<1>5. Numbered(t, heard) /\ Matches(t, toB)
  <2>1. t.probe \in DOMAIN t.sent => t.sent[t.probe] = <<>>
    BY <1>2 DEF Numbered
  <2>2. Numbered(t, heard)
    BY <1>2, <2>1 DEF Numbered
  <2>3. \A i \in DOMAIN toB : toB[i].pn \in DOMAIN t.sent => t.sent[toB[i].pn] = s.sent[toB[i].pn]
    BY <1>2
  <2>4. QED
    BY <1>2, <2>2, <2>3 DEF Matches
<1>6. /\ s.next \in Nat /\ s.retx \in Seq(RangesTo(s.next)) /\ t.cum \in Nat
  BY <1>2, SndTypes DEF SndFits
<1>7. /\ Range(t.retx) \subseteq Range(s.retx)
      /\ \A r \in Range(s.retx) : r[1] + r[2] > t.cum => r \in Range(t.retx)
  BY <1>2, <1>6, UnconfirmedRanges
<1>8. SentTo(t) \subseteq SentTo(s)
  BY <1>2 DEF SentTo
<1>9. Unheard(t, heard) = Unheard(s, heard)
  <2>1. DOMAIN t.sent \ heard = DOMAIN s.sent \ heard
    BY <1>2
  <2>2. \A pn \in DOMAIN t.sent \ heard : t.sent[pn] = s.sent[pn]
    BY <1>2
  <2>3. QED
    BY <2>1, <2>2 DEF Unheard
<1>10. Good(t, heard, K, V, c)
  <2> DEFINE A == K \cup Range(s.retx) \cup SentTo(s)
             B == V \cup Range(s.retx) \cup Unheard(s, heard)
             C == K \cup Range(t.retx) \cup SentTo(t)
             D == V \cup Range(t.retx) \cup Unheard(t, heard)
  <2>1. /\ Range(s.retx) \in SUBSET Spans /\ SentTo(s) \in SUBSET Spans
        /\ Unheard(s, heard) \in SUBSET SentTo(s)
    BY SentFits
  <2>2. A \in SUBSET Spans /\ B \in SUBSET Spans /\ C \in SUBSET A /\ D \in SUBSET Spans
    BY <1>7, <1>8, <1>9, <2>1
  <2>3. ASSUME NEW r \in Range(s.retx) PROVE r \in Range(t.retx) \/ End(r) <= c
    <3>1. r[1] \in Nat /\ r[2] \in Nat
      BY <2>1 DEF Spans
    <3>2. r \in Range(t.retx) \/ ~(r[1] + r[2] > t.cum)
      BY <1>7
    <3>3. QED
      BY <1>2, <1>6, <3>1, <3>2 DEF End
  <2>4. \A r \in B : r \in D \/ End(r) <= c
    BY <1>9, <2>3
  <2>5. Kept(A, B, c, s.next)
    BY DEF Good
  <2> HIDE DEF A, B, C, D
  <2>6. Kept(C, D, c, s.next)
    BY <1>6, <2>2, <2>4, <2>5, KeptByMore
  <2>7. QED
    BY <1>2, <2>6 DEF Good, C, D
<1>11. /\ Good(u, heard, K, V, c) /\ Numbered(u, heard) /\ Matches(u, toB)
  BY <1>2, <1>3, <1>5, <1>10, DetectLossGood
<1>12. SndFits(u, stream)
  BY <1>2, <1>3, DetectLossFits
<1>13. \A f \in DOMAIN u : f # "writable" => d[f] = u[f]
  BY <1>4, <1>12, WakesFits
<1>14. /\ "next" \in DOMAIN u /\ "retx" \in DOMAIN u /\ "sent" \in DOMAIN u
       /\ "pn" \in DOMAIN u /\ "probe" \in DOMAIN u
  BY <1>12 DEF SndFits, SndStates
<1>15. d.next = u.next /\ d.retx = u.retx /\ d.sent = u.sent /\ d.pn = u.pn /\ d.probe = u.probe
  BY <1>13, <1>14
<1>16. QED
  BY <1>11, <1>15 DEF Good, Numbered, Matches, SentTo, Unheard

------------------------------------------------------------------------------
(* The steps of a cover what they did, and those of the network.            *)

(* Packets that are lost or come again add none that is new.                *)
Among(d, c) == \A i \in DOMAIN d : \E j \in DOMAIN c : d[i] = c[j]

LEMMA FewerPackets ==
    ASSUME NEW c, NEW d, Among(d, c)
    PROVE  /\ OnWay(d) \subseteq OnWay(c) /\ Told(d) \subseteq Told(c)
           /\ \A s : Matches(s, c) => Matches(s, d)
<1>1. ASSUME NEW r \in OnWay(d) PROVE r \in OnWay(c)
  <2>1. PICK i \in DOMAIN d : r \in Range(Spanned(d[i].pieces))
    BY DEF OnWay
  <2>2. PICK j \in DOMAIN c : d[i] = c[j]
    BY DEF Among
  <2>3. QED
    BY <2>1, <2>2 DEF OnWay
<1>2. ASSUME NEW n \in Told(d) PROVE n \in Told(c)
  <2>1. PICK i \in DOMAIN d : d[i].kind = "ack" /\ n \in d[i].ranges
    BY DEF Told
  <2>2. PICK j \in DOMAIN c : d[i] = c[j]
    BY DEF Among
  <2>3. QED
    BY <2>1, <2>2 DEF Told
<1>3. ASSUME NEW s, Matches(s, c) PROVE Matches(s, d)
  BY <1>3 DEF Matches, Among
<1>4. QED
  BY <1>1, <1>2, <1>3

LEMMA RemoveIsAmong ==
    ASSUME NEW S, NEW q \in Seq(S), NEW i \in DOMAIN q
    PROVE  Among(RemoveAt(q, i), q)
<1>1. PICK d \in Seq(S) : d = RemoveAt(q, i) /\ Len(d) = Len(q) - 1
        /\ \A j \in 1..(Len(q) - 1) : d[j] = IF j < i THEN q[j] ELSE q[j + 1]
  BY RemoveOne
<1>2. DOMAIN d = 1..(Len(q) - 1) /\ DOMAIN q = 1..Len(q) /\ Len(q) \in Nat
  BY <1>1, LenProperties
<1>3. \A j \in DOMAIN d : j \in DOMAIN q /\ j + 1 \in DOMAIN q
  BY <1>2
<1>4. \A j \in DOMAIN d : d[j] = q[j] \/ d[j] = q[j + 1]
  BY <1>1, <1>2
<1>5. QED
  BY <1>1, <1>3, <1>4 DEF Among

LEMMA TailIsAmong ==
    ASSUME NEW S, NEW q \in Seq(S), q # <<>>
    PROVE  Among(Tail(q), q) /\ 1 \in DOMAIN q /\ Head(q) = q[1]
<1>1. PICK d \in Seq(S) : d = Tail(q) /\ Len(d) = Len(q) - 1 /\ \A j \in 1..Len(d) : d[j] = q[j + 1]
  BY HeadTailProperties
<1>2. DOMAIN d = 1..(Len(q) - 1) /\ DOMAIN q = 1..Len(q) /\ Len(q) \in Nat
  BY <1>1, LenProperties
<1>3. \A j \in DOMAIN d : j + 1 \in DOMAIN q /\ d[j] = q[j + 1]
  BY <1>1, <1>2
<1>4. Len(q) # 0
  BY EmptySeq
<1>5. QED
  BY <1>1, <1>2, <1>3, <1>4 DEF Among

LEMMA AgainIsAmong ==
    ASSUME NEW S, NEW q \in Seq(S), NEW i \in DOMAIN q
    PROVE  Among(Append(q, q[i]), q)
<1>1. DOMAIN q = 1..Len(q) /\ Len(q) \in Nat /\ q[i] \in S
  BY LenProperties, ElementOfSeq
<1>2. PICK x \in S : x = q[i]
  BY <1>1
<1>3. PICK d \in Seq(S) : d = Append(q, x) /\ Len(d) = Len(q) + 1 /\ d[Len(q) + 1] = x
        /\ \A j \in 1..Len(q) : d[j] = q[j]
  <2>1. /\ Append(q, x) \in Seq(S) /\ Len(Append(q, x)) = Len(q) + 1
        /\ Append(q, x)[Len(q) + 1] = x /\ \A j \in 1..Len(q) : Append(q, x)[j] = q[j]
    BY AppendProperties
  <2>2. QED
    BY <2>1
<1>4. DOMAIN d = 1..(Len(q) + 1)
  BY <1>3, LenProperties
<1>5. \A j \in DOMAIN d : j \in 1..Len(q) \/ j = Len(q) + 1
  BY <1>1, <1>4
<1>6. QED
  BY <1>1, <1>2, <1>3, <1>5 DEF Among

(* What b is not known to have heard of may only be more.                   *)
LEMMA HeardLess ==
    ASSUME NEW s, NEW st, SndFits(s, st), NEW heard, Numbered(s, heard), NEW less \in SUBSET heard,
           NEW K \in SUBSET Spans, NEW V \in SUBSET Spans, NEW c \in Nat, Good(s, heard, K, V, c)
    PROVE  Good(s, less, K, V, c) /\ Numbered(s, less)
<1> DEFINE A == K \cup Range(s.retx) \cup SentTo(s)
           B == V \cup Range(s.retx) \cup Unheard(s, heard)
           D == V \cup Range(s.retx) \cup Unheard(s, less)
<1>1. /\ Range(s.retx) \in SUBSET Spans /\ SentTo(s) \in SUBSET Spans
      /\ Unheard(s, heard) \in SUBSET SentTo(s) /\ Unheard(s, less) \in SUBSET SentTo(s)
  BY SentFits
<1>2. Unheard(s, heard) \subseteq Unheard(s, less)
  BY DEF Unheard
<1>3. A \in SUBSET Spans /\ B \in SUBSET Spans /\ D \in SUBSET Spans /\ \A r \in B : r \in D
  BY <1>1, <1>2
<1>4. Kept(A, B, c, s.next) /\ s.next \in Nat
  BY SndTypes DEF Good
<1> HIDE DEF A, B, D
<1>5. Kept(A, D, c, s.next)
  BY <1>3, <1>4, KeptByMore
<1>6. Good(s, less, K, V, c)
  BY <1>5 DEF Good, A, D
<1>7. Numbered(s, less)
  BY DEF Numbered
<1>8. QED
  BY <1>6, <1>7

(* Fewer packets on their way.                                              *)
LEMMA FewerOnWay ==
    ASSUME NEW s, NEW st, SndFits(s, st), NEW heard, NEW K \in SUBSET Spans, NEW V \in SUBSET Spans,
           NEW c \in Nat, Good(s, heard, K, V, c), NEW M \in SUBSET K
    PROVE  Good(s, heard, M, V, c)
<1> DEFINE A == K \cup Range(s.retx) \cup SentTo(s)
           B == V \cup Range(s.retx) \cup Unheard(s, heard)
           C == M \cup Range(s.retx) \cup SentTo(s)
<1>1. /\ Range(s.retx) \in SUBSET Spans /\ SentTo(s) \in SUBSET Spans
      /\ Unheard(s, heard) \in SUBSET SentTo(s)
  BY SentFits
<1>2. A \in SUBSET Spans /\ B \in SUBSET Spans /\ C \in SUBSET A
  BY <1>1
<1>3. Kept(A, B, c, s.next) /\ s.next \in Nat
  BY SndTypes DEF Good
<1> HIDE DEF A, B, C
<1>4. Kept(C, B, c, s.next)
  BY <1>2, <1>3, KeptByMore
<1>5. QED
  BY <1>4 DEF Good, B, C

LEMMA CoverKnown ==
    ASSUME IInv, CInv
    PROVE  /\ Waits(rcv.ooo) \in SUBSET RangesTo(snd.next) /\ Waits(rcv.ooo) \in SUBSET Spans
           /\ OnWay(toB) \in SUBSET Spans
           /\ Good(snd, Heard, Waits(rcv.ooo) \cup OnWay(toB), Waits(rcv.ooo), rcv.cum)
           /\ Numbered(snd, Heard) /\ Matches(snd, toB)
<1>1. /\ toB \in Seq(Packets(stream, snd.next)) /\ snd.next \in Nat
      /\ Pieces(rcv.ooo, stream, snd.next, rcv.offered)
  BY SndKnown DEF IInv, RcvFits
<1>2. OnWay(toB) \in SUBSET Spans
  BY <1>1, OnWayFits
<1>3. Waits(rcv.ooo) \in SUBSET RangesTo(snd.next) /\ Waits(rcv.ooo) \in SUBSET Spans
  BY <1>1, WaitsFit
<1>4. QED
  BY <1>2, <1>3 DEF CInv

(* A step of a that leaves b as it is.                                      *)
LEMMA SenderGood ==
    ASSUME IInv, CInv, IInv', rcv' = rcv, Told(toA') \subseteq Told(toA),
           Good(snd', Heard, Waits(rcv.ooo) \cup OnWay(toB'), Waits(rcv.ooo), rcv.cum),
           Numbered(snd', Heard), Matches(snd', toB')
    PROVE  CInv'
<1>1. SndFits(snd', stream') /\ toB' \in Seq(Packets(stream', snd'.next)) /\ snd'.next \in Nat
  <2>1. SndFits(snd', stream') /\ toB' \in Seq(Packets(stream', snd'.next))
    BY DEF IInv
  <2>2. QED
    BY <2>1, SndTypes
<1>2. OnWay(toB') \in SUBSET Spans
  BY <1>1, OnWayFits
<1>3. Waits(rcv.ooo) \in SUBSET Spans /\ rcv.cum \in Nat
  BY CoverKnown, SndKnown
<1>4. PICK less : less = rcv'.seen \cup Told(toA')
  OBVIOUS
<1>5. less \in SUBSET Heard
  BY <1>4 DEF Heard
<1> DEFINE K == Waits(rcv.ooo) \cup OnWay(toB')
<1>6. K \in SUBSET Spans
  BY <1>2, <1>3
<1> HIDE DEF K
<1>7. Good(snd', less, K, Waits(rcv.ooo), rcv.cum) /\ Numbered(snd', less)
  BY <1>1, <1>3, <1>5, <1>6, HeardLess DEF K
<1>8. QED
  BY <1>4, <1>7 DEF CInv, Heard, K

LEMMA SenderSame ==
    ASSUME IInv, CInv, IInv', rcv' = rcv, Told(toA') \subseteq Told(toA),
           snd'.next = snd.next, snd'.retx = snd.retx, snd'.sent = snd.sent,
           snd'.probe = snd.probe, snd.pn <= snd'.pn,
           OnWay(toB') \subseteq OnWay(toB), Matches(snd', toB')
    PROVE  CInv'
<1> DEFINE K == Waits(rcv.ooo) \cup OnWay(toB)
           M == Waits(rcv.ooo) \cup OnWay(toB')
           V == Waits(rcv.ooo)
           c == rcv.cum
<1>1. SndFits(snd, stream) /\ c \in Nat /\ snd.pn \in Nat /\ snd'.pn \in Nat
  <2>1. SndFits(snd', stream')
    BY DEF IInv
  <2>2. snd'.pn \in Nat
    BY <2>1, SndTypes
  <2>3. QED
    BY <2>2, SndKnown
<1>2. /\ K \in SUBSET Spans /\ V \in SUBSET Spans /\ M \in SUBSET K
      /\ Good(snd, Heard, K, V, c) /\ Numbered(snd, Heard)
  BY CoverKnown
<1> HIDE DEF K, M, V, c
<1>3. Good(snd, Heard, M, V, c)
  BY <1>1, <1>2, FewerOnWay
<1>4. Good(snd', Heard, M, V, c)
  BY <1>3 DEF Good, SentTo, Unheard
<1>5. Numbered(snd', Heard)
  <2>1. 0..(snd.pn - 1) \subseteq 0..(snd'.pn - 1)
    BY <1>1
  <2>2. Heard \subseteq 0..(snd'.pn - 1) /\ snd'.probe \in Int /\ snd'.probe < snd'.pn
    BY <1>1, <1>2, <2>1 DEF Numbered
  <2>3. QED
    BY <1>2, <2>2 DEF Numbered
<1>6. QED
  BY <1>4, <1>5, SenderGood DEF K, M, V, c

LEMMA WriteCovers ==
    ASSUME IInv, CInv, IInv', NEW f \in Frames, Write(f)
    PROVE  CInv'
<1>1. snd \in SndStates(snd) /\ snd.pn \in Nat
  BY SndKnown
<1>2. /\ snd'.next = snd.next /\ snd'.retx = snd.retx /\ snd'.sent = snd.sent
      /\ snd'.probe = snd.probe /\ snd'.pn = snd.pn
  <2> DEFINE urgent == f \in Urgent
             u == IF urgent THEN Append(snd.urgent, f) ELSE snd.urgent
             b == IF urgent THEN snd.bulk ELSE Append(snd.bulk, f)
  <2>1. \/ snd' = [snd EXCEPT !.urgent = u, !.bulk = b,
                              !.waiting = @ \ {f}, !.unwritten = @ \ {f}]
        \/ snd' = [snd EXCEPT !.waiting = @ \cup {f}, !.unwritten = @ \ {f}, !.writable = FALSE]
    BY <1>1 DEF Write, SndStates
  <2> HIDE DEF u, b, urgent
  <2>2. QED
    BY <1>1, <2>1 DEF SndStates
<1>3. rcv' = rcv /\ toA' = toA /\ toB' = toB
  BY DEF Write
<1>4. Matches(snd', toB')
  BY <1>2, <1>3, CoverKnown DEF Matches
<1>5. snd.pn <= snd'.pn
  BY <1>1, <1>2
<1>6. QED
  BY <1>2, <1>3, <1>4, <1>5, SenderSame

LEMMA SendOneCovers ==
    ASSUME IInv, CInv, IInv', NEW s, SndFits(s, stream), s.next = snd.next, s.cum = snd.cum,
           s.limit = snd.limit, NEW events, SendOne(s, events), rcv' = rcv, toA' = toA,
           Numbered(s, Heard), Matches(s, toB),
           Good(s, Heard, Waits(rcv.ooo) \cup OnWay(toB), Waits(rcv.ooo), rcv.cum)
    PROVE  CInv'
<1>1. Waits(rcv.ooo) \in SUBSET RangesTo(snd.next) /\ Waits(rcv.ooo) \in SUBSET Spans
  BY CoverKnown
<1>2. PICK heard \in {Heard}, K \in SUBSET RangesTo(snd.next) : K = Waits(rcv.ooo)
  BY <1>1
<1>3. K \in SUBSET Spans
  BY <1>1, <1>2
<1>4. Numbered(s, heard) /\ Good(s, heard, K \cup OnWay(toB), K, rcv.cum)
  BY <1>2
<1>5. /\ Good(snd', heard, K \cup OnWay(toB'), K, rcv.cum)
      /\ Numbered(snd', heard) /\ Matches(snd', toB')
  BY <1>3, <1>4, SendOneGood
<1>6. QED
  BY <1>2, <1>5, SenderGood

(* Packets without data.                                                    *)
LEMMA EmptyCovers ==
    ASSUME IInv, CInv, IInv', NEW s, SndFits(s, stream), s.next = snd.next,
           s.retx = snd.retx, s.sent = snd.sent, s.probe = snd.probe, s.pn = snd.pn,
           NEW kind \in {"ping", "probe"}, Packet(s, kind, <<>>, stream, 0),
           rcv' = rcv, toA' = toA
    PROVE  CInv'
<1>1. /\ toB \in Seq(Packets(stream, s.next)) /\ stream \in Seq(Byte) /\ home \in Networks
      /\ rcv.cum \in Nat
  BY SndKnown
<1>2. PICK K, heard : K = Waits(rcv.ooo) /\ heard = Heard
  OBVIOUS
<1>3. /\ K \in SUBSET Spans /\ Good(snd, heard, K \cup OnWay(toB), K, rcv.cum)
      /\ Numbered(snd, heard) /\ Matches(snd, toB)
  BY <1>2, CoverKnown
<1>4. Good(s, heard, K \cup OnWay(toB), K, rcv.cum) /\ Numbered(s, heard) /\ Matches(s, toB)
  BY <1>3 DEF Good, SentTo, Unheard, Numbered, Matches
<1>5. PICK q \in Seq(RangesTo(s.next)), c \in Nat : q = <<>> /\ Range(q) = {} /\ c = rcv.cum
  <2>1. <<>> \in Seq(RangesTo(s.next)) /\ Range(<<>>) = {}
    BY DEF Range
  <2>2. QED
    BY <1>1, <2>1
<1>6. Packet(s, kind, q, stream, 0) /\ kind \in {"data", "ping", "probe"} /\ 0 \in {0, 1}
  BY <1>5
<1>7. Kept((K \cup OnWay(toB)) \cup (Range(s.retx) \cup SentTo(s) \cup Range(q)),
           K \cup (Range(s.retx) \cup Unheard(s, heard) \cup Range(q)), c, s.next)
  <2>1. /\ (K \cup OnWay(toB)) \cup (Range(s.retx) \cup SentTo(s) \cup Range(q))
             = (K \cup OnWay(toB)) \cup Range(s.retx) \cup SentTo(s)
        /\ K \cup (Range(s.retx) \cup Unheard(s, heard) \cup Range(q))
             = K \cup Range(s.retx) \cup Unheard(s, heard)
    BY <1>5
  <2>2. QED
    BY <1>4, <1>5, <2>1 DEF Good
<1>8. /\ Good(snd', heard, K \cup OnWay(toB'), K, c)
      /\ Numbered(snd', heard) /\ Matches(snd', toB')
  BY <1>1, <1>3, <1>4, <1>5, <1>6, <1>7, PacketGood
<1>9. QED
  BY <1>2, <1>5, <1>8, SenderGood

LEMMA ProbeCovers ==
    ASSUME IInv, CInv, IInv', ProbePath \/ ProbeTimeout \/ KeepAlive
    PROVE  CInv'
<1>1. SndFits(snd, stream) /\ snd \in SndStates(snd)
  BY SndKnown
<1>2. CASE ProbePath
  <2> DEFINE s == [snd EXCEPT !.probed = TRUE]
  <2>1. /\ s \in SndStates(s)
        /\ s.next = snd.next /\ s.cum = snd.cum /\ s.limit = snd.limit
        /\ s.pn = snd.pn /\ s.skipped = snd.skipped /\ s.retx = snd.retx /\ s.sent = snd.sent
        /\ s.probe = snd.probe
    BY <1>1 DEF SndStates
  <2>2. Packet(s, "probe", <<>>, stream, 0) /\ rcv' = rcv /\ toA' = toA
    BY <1>2 DEF ProbePath
  <2> HIDE DEF s
  <2>3. SndFits(s, stream)
    BY <1>1, <2>1, SameFits
  <2>4. QED
    BY <2>1, <2>2, <2>3, EmptyCovers
<1>3. ASSUME Ping, rcv' = rcv, toA' = toA
      PROVE  CInv'
  BY <1>1, <1>3, EmptyCovers DEF Ping
<1>4. CASE ProbeTimeout
  <2> DEFINE data == {pn \in DOMAIN snd.sent : snd.sent[pn] # <<>>}
             q == snd.sent[Min(data)]
             s == Folded(Insert, snd, q)
             events == IF Silent THEN {"none"} ELSE {"early"}
  <2>1. rcv' = rcv /\ toA' = toA
    BY <1>4 DEF ProbeTimeout
  <2>2. CASE data = {}
    BY <1>3, <1>4, <2>1, <2>2 DEF ProbeTimeout
  <2>3. CASE data # {}
    <3>1. SendOne(s, events)
      BY <1>4, <2>3, Zenon DEF ProbeTimeout
    <3>2. data \in SUBSET Nat
      <4>1. DOMAIN snd.sent \subseteq 0..(snd.pn - 1) /\ snd.pn \in Nat
        BY <1>1, SndTypes DEF SndFits
      <4>2. QED
        BY <4>1
    <3>3. PICK pn \in DOMAIN snd.sent : pn = Min(data)
      BY <2>3, <3>2, MinOf
    <3>4. q \in Seq(RangesTo(snd.next)) /\ q = snd.sent[pn]
      BY <1>1, <3>3 DEF SndFits
    <3> HIDE DEF q
    <3>5. q \in Seq(SentTo(snd))
      <4>1. Range(q) \subseteq SentTo(snd)
        BY <3>4 DEF SentTo
      <4>2. q \in Seq(Range(q))
        BY <3>4, SeqInRange
      <4>3. QED
        BY <4>1, <4>2, SeqMonotonic
    <3>6. SndFits(s, stream) /\ s.next = snd.next /\ s.cum = snd.cum /\ s.limit = snd.limit
      BY <1>1, <3>4, InsertFits
    <3>7. PICK c \in Nat, K \in SUBSET Spans, V \in SUBSET Spans, heard \in {Heard} :
        c = rcv.cum /\ K = Waits(rcv.ooo) \cup OnWay(toB) /\ V = Waits(rcv.ooo)
      BY SndKnown, CoverKnown
    <3>8. /\ K \in SUBSET Spans /\ V \in SUBSET Spans /\ Good(snd, heard, K, V, c)
          /\ Numbered(snd, heard) /\ Matches(snd, toB)
      BY <3>7, CoverKnown
    <3>9. Good(s, heard, K, V, c) /\ Numbered(s, heard) /\ Matches(s, toB)
      BY <1>1, <3>5, <3>8, InsertGood
    <3> HIDE DEF s, events
    <3>10. QED
      BY <2>1, <3>1, <3>6, <3>7, <3>9, SendOneCovers
  <2>4. QED
    BY <2>2, <2>3
<1>5. CASE KeepAlive
  BY <1>3, <1>5 DEF KeepAlive
<1>6. QED
  BY <1>2, <1>4, <1>5

LEMMA SendDataCovers ==
    ASSUME IInv, CInv, IInv', SendData
    PROVE  CInv'
<1>1. SendOne(snd, {"none", "skip", "tight"}) /\ rcv' = rcv /\ toA' = toA
  BY DEF SendData
<1>2. SndFits(snd, stream)
  BY SndKnown
<1>3. QED
  BY <1>1, <1>2, CoverKnown, SendOneCovers

LEMMA LossByTimeCovers ==
    ASSUME IInv, CInv, IInv', LossByTime
    PROVE  CInv'
<1>1. PICK t \in DOMAIN snd.sent : snd' = DetectLoss(snd, t)
  BY DEF LossByTime
<1>2. rcv' = rcv /\ toA' = toA /\ toB' = toB
  BY DEF LossByTime
<1>3. PICK c \in Nat, K \in SUBSET Spans, V \in SUBSET Spans, heard \in {Heard} :
        c = rcv.cum /\ K = Waits(rcv.ooo) \cup OnWay(toB) /\ V = Waits(rcv.ooo)
  BY SndKnown, CoverKnown
<1>4. /\ K \in SUBSET Spans /\ V \in SUBSET Spans /\ Good(snd, heard, K, V, c)
      /\ Numbered(snd, heard) /\ Matches(snd, toB)
  BY <1>3, CoverKnown
<1>5. SndFits(snd, stream) /\ snd.cum <= c
  BY <1>3, SndKnown
<1>6. Good(snd', heard, K, V, c) /\ Numbered(snd', heard) /\ Matches(snd', toB)
  BY <1>1, <1>4, <1>5, DetectLossGood
<1>7. QED
  BY <1>2, <1>3, <1>6, SenderGood

LEMMA ReceiveAtACovers ==
    ASSUME IInv, CInv, IInv', ReceiveAtA
    PROVE  CInv'
<1> DEFINE ack == Head(toA)
<1>1. /\ SndFits(snd, stream) /\ snd \in SndStates(snd)
      /\ toA \in Seq(Answers(rcv.cum, rcv.offered)) /\ toB \in Seq(Packets(stream, snd.next))
      /\ rcv.cum \in Nat /\ rcv.offered \in Nat /\ snd.cum <= rcv.cum /\ snd.limit <= rcv.offered
      /\ home \in Networks /\ snd.pn \in Nat /\ snd.next \in Nat
  BY SndKnown
<1>2. /\ toA # <<>> /\ toA' = Tail(toA) /\ rcv' = rcv
      /\ IF ack.kind = "ack" THEN HandleAck(ack) ELSE Respond
  BY DEF ReceiveAtA
<1>3. /\ ack \in Answers(rcv.cum, rcv.offered)
      /\ Among(Tail(toA), toA) /\ 1 \in DOMAIN toA /\ Head(toA) = toA[1]
  BY <1>1, <1>2, HeadTailProperties, TailIsAmong
<1>4. Told(toA') \subseteq Told(toA) /\ (ack.kind = "ack" => ack.ranges \subseteq Told(toA))
  <2>1. Told(toA') \subseteq Told(toA)
    BY <1>2, <1>3, FewerPackets
  <2>2. ack = toA[1]
    BY <1>3
  <2> HIDE DEF ack
  <2>3. QED
    BY <1>3, <2>1, <2>2 DEF Told
<1> HIDE DEF ack
<1>5. CASE ack.kind = "ack" /\ ack.ranges \cap snd.skipped # {}
  <2>1. snd' = snd /\ toB' = toB
    BY <1>2, <1>5 DEF HandleAck
  <2>2. Matches(snd', toB') /\ snd.pn <= snd'.pn
    BY <1>1, <2>1, CoverKnown
  <2>3. QED
    BY <1>2, <1>4, <2>1, <2>2, SenderSame
<1>6. CASE ack.kind = "ack" /\ ~(ack.ranges \cap snd.skipped # {})
  <2>1. snd' = OnAck(snd, ack) /\ toB' = toB
    BY <1>2, <1>6 DEF HandleAck
  <2>2. PICK c \in Nat, o \in Nat, K \in SUBSET Spans, V \in SUBSET Spans, heard \in {Heard} :
          c = rcv.cum /\ o = rcv.offered /\ K = Waits(rcv.ooo) \cup OnWay(toB) /\ V = Waits(rcv.ooo)
    BY <1>1, CoverKnown
  <2>3. ack.cum \in 0..c /\ ack.max \in 0..o
    BY <1>3, <1>6, <2>2 DEF Answers
  <2>4. ack.ranges \subseteq heard
    BY <1>4, <1>6, <2>2 DEF Heard
  <2>5. Good(snd, heard, K, V, c) /\ Numbered(snd, heard) /\ Matches(snd, toB)
    BY <2>2, CoverKnown
  <2>6. snd.cum <= c /\ snd.limit <= o
    BY <1>1, <2>2
  <2>7. Good(snd', heard, K, V, c) /\ Numbered(snd', heard) /\ Matches(snd', toB)
    BY <1>1, <2>1, <2>3, <2>4, <2>5, <2>6, OnAckGood
  <2>8. QED
    BY <1>2, <1>4, <2>1, <2>2, <2>7, SenderGood
<1>7. CASE ack.kind # "ack"
  <2> DEFINE packet == [kind |-> "response", pn |-> snd.pn, from |-> home, pieces |-> <<>>]
  <2>1. snd' = [snd EXCEPT !.pn = @ + 1] /\ toB' = Append(toB, packet)
    BY <1>2, <1>7 DEF Respond
  <2>2. /\ snd'.next = snd.next /\ snd'.retx = snd.retx /\ snd'.sent = snd.sent
        /\ snd'.probe = snd.probe /\ snd'.pn = snd.pn + 1
    <3> DEFINE n == snd.pn + 1
    <3>1. snd' = [snd EXCEPT !.pn = n]
      BY <2>1
    <3> HIDE DEF n
    <3>2. QED
      BY <1>1, <3>1 DEF SndStates, n
  <2>3. packet \in Packets(stream, snd.next)
    <3>1. <<>> \in Seq(PartsTo(stream, snd.next))
      OBVIOUS
    <3>2. QED
      BY <1>1, <3>1 DEF Packets
  <2>4. packet.pn = snd.pn /\ packet.pieces = <<>>
    OBVIOUS
  <2> HIDE DEF packet
  <2>5. OnWay(toB') \subseteq OnWay(toB)
    <3>1. OnWay(Append(toB, packet)) = OnWay(toB) \cup Range(Spanned(packet.pieces))
      BY <1>1, <2>3, OnWayAppend
    <3>2. Range(Spanned(packet.pieces)) = {}
      <4>1. DOMAIN packet.pieces = {}
        BY <2>4
      <4>2. QED
        BY <4>1 DEF Spanned, Range
    <3>3. QED
      BY <2>1, <3>1, <3>2
  <2>6. Matches(snd', toB')
    <3>1. /\ Append(toB, packet) \in Seq(Packets(stream, snd.next))
          /\ Len(Append(toB, packet)) = Len(toB) + 1 /\ Append(toB, packet)[Len(toB) + 1] = packet
          /\ \A i \in 1..Len(toB) : Append(toB, packet)[i] = toB[i]
      BY <1>1, <2>3, AppendProperties
    <3>2. DOMAIN toB' = 1..(Len(toB) + 1) /\ DOMAIN toB = 1..Len(toB) /\ Len(toB) \in Nat
      BY <1>1, <2>1, <3>1, LenProperties
    <3>3. snd.pn \notin DOMAIN snd.sent /\ snd.pn < snd.pn + 1
      <4>1. DOMAIN snd.sent \subseteq 0..(snd.pn - 1)
        BY <1>1 DEF SndFits
      <4>2. QED
        BY <1>1, <4>1
    <3>4. ASSUME NEW i \in DOMAIN toB'
          PROVE  /\ toB'[i].pn < snd.pn + 1
                 /\ toB'[i].pn \in DOMAIN snd.sent => snd.sent[toB'[i].pn] = Spanned(toB'[i].pieces)
      <4>1. CASE i \in DOMAIN toB
        <5>1. toB'[i] = toB[i]
          BY <2>1, <3>1, <3>2, <4>1
        <5>2. PICK n \in Nat : n = toB[i].pn
          <6>1. toB[i] \in Packets(stream, snd.next)
            BY <1>1, <3>2, <4>1, ElementOfSeq
          <6>2. QED
            BY <6>1 DEF Packets
        <5>3. n < snd.pn /\ (n \in DOMAIN snd.sent => snd.sent[n] = Spanned(toB[i].pieces))
          BY <4>1, <5>2, CoverKnown DEF Matches
        <5>4. n < snd.pn + 1
          BY <1>1, <5>3
        <5>5. QED
          BY <5>1, <5>2, <5>3, <5>4
      <4>2. CASE i \notin DOMAIN toB
        <5>1. i = Len(toB) + 1
          BY <3>2, <4>2
        <5>2. toB'[i] = packet
          BY <2>1, <3>1, <5>1
        <5>3. QED
          BY <2>4, <3>3, <5>2
      <4>3. QED
        BY <4>1, <4>2
    <3>5. QED
      BY <2>2, <3>4 DEF Matches
  <2>7. snd.pn <= snd'.pn
    BY <1>1, <2>2
  <2>8. QED
    BY <1>2, <1>4, <2>2, <2>5, <2>6, <2>7, SenderSame
<1>8. QED
  BY <1>5, <1>6, <1>7

(* Steps of b that take nothing from a packet, and those of the network.    *)
LEMMA ReceiverSame ==
    ASSUME IInv, CInv, snd' = snd, rcv'.cum = rcv.cum, rcv'.ooo = rcv.ooo,
           rcv'.seen \cup Told(toA') \subseteq Heard, Among(toB', toB)
    PROVE  CInv'
<1>1. PICK c \in Nat, K \in SUBSET Spans, V \in SUBSET Spans, heard \in {Heard} :
        c = rcv.cum /\ K = Waits(rcv.ooo) \cup OnWay(toB) /\ V = Waits(rcv.ooo)
  BY SndKnown, CoverKnown
<1>2. Good(snd, heard, K, V, c) /\ Numbered(snd, heard) /\ Matches(snd, toB)
  BY <1>1, CoverKnown
<1>3. OnWay(toB') \subseteq OnWay(toB) /\ Matches(snd, toB')
  BY <1>2, FewerPackets
<1>4. PICK M \in SUBSET K, less \in SUBSET heard :
        M = Waits(rcv.ooo) \cup OnWay(toB') /\ less = rcv'.seen \cup Told(toA')
  BY <1>1, <1>3
<1>5. SndFits(snd, stream)
  BY SndKnown
<1>6. Good(snd, less, K, V, c) /\ Numbered(snd, less)
  BY <1>2, <1>5, HeardLess
<1>7. Good(snd, less, M, V, c)
  BY <1>5, <1>6, FewerOnWay
<1>8. QED
  BY <1>1, <1>3, <1>4, <1>6, <1>7 DEF CInv, Heard

LEMMA SameIsAmong == \A c : Among(c, c)
BY DEF Among

LEMMA QuietCovers ==
    ASSUME IInv, CInv, SendAck \/ Take \/ Handled
    PROVE  CInv'
<1>1. /\ rcv \in RcvStates(rcv)
      /\ toA \in Seq(Answers(rcv.cum, rcv.offered))
  BY SndKnown DEF IInv, RcvFits
<1>2. /\ snd' = snd /\ toB' = toB
      /\ rcv'.cum = rcv.cum /\ rcv'.ooo = rcv.ooo /\ rcv'.seen = rcv.seen
  <2>1. CASE SendAck
    BY <1>1, <2>1 DEF SendAck, RcvStates
  <2>2. CASE Take
    BY <1>1, <2>2 DEF Take, RcvStates
  <2>3. CASE Handled
    BY <1>1, <2>3 DEF Handled, RcvStates
  <2>4. QED
    BY <2>1, <2>2, <2>3
<1>3. Told(toA') \subseteq Heard
  <2>1. CASE toA' = toA
    BY <2>1 DEF Heard
  <2>2. CASE toA' # toA
    <3>1. PICK x : toA' = Append(toA, x) /\ x.ranges = Newest(rcv.seen, AckRanges)
      BY <2>2 DEF SendAck, Take, Handled
    <3>2. PICK S : toA \in Seq(S) /\ x \in S
      <4>1. toA \in Seq(Answers(rcv.cum, rcv.offered) \cup {x})
        BY <1>1, SeqMonotonic
      <4>2. QED
        BY <4>1
    <3>3. /\ Append(toA, x) \in Seq(S)
          /\ Len(Append(toA, x)) = Len(toA) + 1 /\ Append(toA, x)[Len(toA) + 1] = x
          /\ \A i \in 1..Len(toA) : Append(toA, x)[i] = toA[i]
      BY <3>2, AppendProperties
    <3>4. DOMAIN toA' = 1..(Len(toA) + 1) /\ DOMAIN toA = 1..Len(toA) /\ Len(toA) \in Nat
      BY <3>1, <3>2, <3>3, LenProperties
    <3>5. ASSUME NEW i \in DOMAIN toA', toA'[i].kind = "ack" PROVE toA'[i].ranges \subseteq Heard
      <4>1. CASE i \in DOMAIN toA
        <5>1. toA'[i] = toA[i]
          BY <3>1, <3>3, <3>4, <4>1
        <5>2. toA[i].ranges \subseteq Told(toA)
          BY <3>5, <4>1, <5>1 DEF Told
        <5>3. QED
          BY <5>1, <5>2 DEF Heard
      <4>2. CASE i \notin DOMAIN toA
        <5>1. toA'[i] = x
          BY <3>1, <3>3, <3>4, <4>2
        <5>2. QED
          BY <3>1, <5>1 DEF Newest, Heard
      <4>3. QED
        BY <4>1, <4>2
    <3>6. QED
      BY <3>5 DEF Told
  <2>3. QED
    BY <2>1, <2>2
<1>4. rcv'.seen \cup Told(toA') \subseteq Heard
  BY <1>2, <1>3 DEF Heard
<1>5. QED
  BY <1>2, <1>4, SameIsAmong, ReceiverSame

LEMMA NetworkCovers ==
    ASSUME IInv, CInv, Lose \/ Repeat \/ Move \/ \E e \in {"a", "b"} : Close(e) \/ CloseToo(e)
    PROVE  CInv'
<1>1. /\ toB \in Seq(Packets(stream, snd.next)) /\ toA \in Seq(Answers(rcv.cum, rcv.offered))
  BY SndKnown
<1>2. UNCHANGED <<snd, rcv>>
  BY DEF Lose, Repeat, Move, Close, CloseToo
<1>3. Among(toB', toB)
  <2>1. CASE \E i \in DOMAIN toB : toB' = RemoveAt(toB, i)
    BY <1>1, <2>1, RemoveIsAmong
  <2>2. CASE \E i \in DOMAIN toB : toB' = Append(toB, toB[i])
    BY <1>1, <2>2, AgainIsAmong
  <2>3. CASE toB' = toB
    BY <2>3, SameIsAmong
  <2>4. QED
    BY <2>1, <2>2, <2>3 DEF Lose, Repeat, Move, Close, CloseToo
<1>4. Among(toA', toA)
  <2>1. CASE \E i \in DOMAIN toA : toA' = RemoveAt(toA, i)
    BY <1>1, <2>1, RemoveIsAmong
  <2>2. CASE toA' = <<>>
    BY <2>2 DEF Among
  <2>3. CASE toA' = toA
    BY <2>3, SameIsAmong
  <2>4. QED
    BY <2>1, <2>2, <2>3 DEF Lose, Repeat, Move, Close, CloseToo
<1>5. Told(toA') \subseteq Told(toA)
  BY <1>4, FewerPackets
<1>6. rcv'.seen \cup Told(toA') \subseteq Heard
  BY <1>2, <1>5 DEF Heard
<1>7. QED
  BY <1>2, <1>3, <1>6, ReceiverSame

------------------------------------------------------------------------------
(* What b does with the pieces of a packet.                                 *)

(* What b has not got, when the ranges V will come yet.                     *)
KeptAt(r, K, V, N) == Kept(K \cup Waits(r.ooo), V \cup Waits(r.ooo), r.cum, N)

LEMMA WaitsWithout ==
    ASSUME NEW o, NEW keys
    PROVE  /\ Waits(Without(o, keys)) = {<<k, Len(o[k])>> : k \in DOMAIN o \ keys}
           /\ Waits(Without(o, keys)) \subseteq Waits(o)
<1> DEFINE w == Without(o, keys)
<1>1. DOMAIN w = DOMAIN o \ keys /\ \A k \in DOMAIN o \ keys : w[k] = o[k]
  BY DEF Without
<1> HIDE DEF w
<1>2. Waits(w) = {<<k, Len(o[k])>> : k \in DOMAIN o \ keys}
  BY <1>1 DEF Waits
<1>3. QED
  BY <1>2 DEF w, Waits

LEMMA WaitsWith ==
    ASSUME NEW o, NEW k, k \notin DOMAIN o, NEW b
    PROVE  Waits(With(o, k, b)) = Waits(o) \cup {<<k, Len(b)>>}
<1> DEFINE w == With(o, k, b)
<1>1. DOMAIN w = DOMAIN o \cup {k} /\ w[k] = b /\ \A j \in DOMAIN o : w[j] = o[j]
  BY DEF With
<1> HIDE DEF w
<1>2. ASSUME NEW x \in Waits(w) PROVE x \in Waits(o) \cup {<<k, Len(b)>>}
  <2>1. PICK j \in DOMAIN w : x = <<j, Len(w[j])>>
    BY DEF Waits
  <2>2. QED
    BY <1>1, <2>1 DEF Waits
<1>3. ASSUME NEW x \in Waits(o) \cup {<<k, Len(b)>>} PROVE x \in Waits(w)
  <2>1. CASE x \in Waits(o)
    <3>1. PICK j \in DOMAIN o : x = <<j, Len(o[j])>>
      BY <2>1 DEF Waits
    <3>2. j \in DOMAIN w /\ w[j] = o[j]
      BY <1>1
    <3>3. QED
      BY <3>1, <3>2 DEF Waits
  <2>2. CASE x = <<k, Len(b)>>
    BY <1>1, <2>2 DEF Waits
  <2>3. QED
    BY <1>3, <2>1, <2>2
<1>4. QED
  BY <1>2, <1>3 DEF w

(* A turn of the loop that hands on what waits, or drops what is read.      *)
LEMMA DrainStepKept ==
    ASSUME NEW r0, r0.cum \in Nat, NEW st \in Seq(Byte), NEW n \in Nat, n <= Len(st),
           NEW r \in RcvLike(r0, st, n), NEW K \in SUBSET Spans, NEW V \in SUBSET Spans,
           NEW N \in Nat, KeptAt(r, K, V, N)
    PROVE  KeptAt(DrainStep(r), K, V, N)
<1> DEFINE c == r.cum
           o == r.ooo
           behind == {k \in DOMAIN o : k < c}
           O == Waits(o)
<1>1. /\ r \in RcvStates(r0) /\ c \in Nat /\ Pieces(o, st, n, r.offered)
  BY RcvTypes
<1>2. O \in SUBSET Spans /\ Kept(K \cup O, V \cup O, c, N)
  <2>1. O \in SUBSET Spans
    BY <1>1, WaitsFit
  <2>2. QED
    BY <2>1 DEF KeptAt
<1>3. \A k \in DOMAIN o : /\ k \in Nat /\ o[k] \in Seq(Byte) /\ Len(o[k]) \in Nat
                          /\ Len(o[k]) > 0
  <2>1. Pieces(o, st, n, r.offered)
    BY <1>1
  <2> HIDE DEF o
  <2>2. QED
    BY <2>1, PieceFacts
<1>4. \A k \in DOMAIN o : /\ <<k, Len(o[k])>> \in O /\ End(<<k, Len(o[k])>>) = k + Len(o[k])
                          /\ <<k, Len(o[k])>>[1] = k
  BY DEF Waits, End
<1>5. CASE c \in DOMAIN o
  <2> DEFINE w == Without(o, {c})
             q == [r EXCEPT !.ooo = w]
             l == Len(o[c])
             d == c + l
             P == Waits(w)
  <2>1. DrainStep(r) = Deliver(q, o[c])
    BY <1>5 DEF DrainStep
  <2>2. P \subseteq O /\ \A x \in O : x \in P \/ x = <<c, l>>
    <3>1. P = {<<k, Len(o[k])>> : k \in DOMAIN o \ {c}} /\ P \subseteq O
      BY WaitsWithout
    <3> HIDE DEF P
    <3>2. QED
      BY <3>1 DEF Waits
  <2>3. l \in Nat /\ d \in Nat /\ c <= d
    <3>1. l \in Nat
      BY <1>3, <1>5
    <3> HIDE DEF l, c
    <3>2. QED
      BY <1>1, <3>1
  <2>4. DrainStep(r).cum = d /\ DrainStep(r).ooo = w
    <3> HIDE DEF w
    <3>1. q.cum = c /\ q.ooo = w /\ "cum" \in DOMAIN q /\ "ooo" \in DOMAIN q
          /\ "app" \in DOMAIN q
      BY <1>1 DEF RcvStates
    <3> HIDE DEF q, c, o
    <3>2. QED
      BY <2>1, <3>1 DEF Deliver
  <2>5. ASSUME NEW x \in V \cup O, NEW m \in Nat, d <= m, m < N, Holds(x, m)
        PROVE  \E y \in V \cup P : Holds(y, m) /\ x[1] <= y[1]
    <3>1. x \in Spans
      BY <1>2
    <3>2. x[1] <= x[1]
      BY <3>1 DEF Spans
    <3>3. x # <<c, l>>
      <4>1. d = c + l
        OBVIOUS
      <4> HIDE DEF d, c, l
      <4>2. QED
        BY <1>1, <2>3, <2>5, <4>1 DEF Holds
    <3>4. x \in V \cup P
      BY <2>2, <3>3
    <3>5. QED
      BY <2>5, <3>2, <3>4
  <2>6. /\ K \cup O \in SUBSET Spans /\ V \cup O \in SUBSET Spans
        /\ K \cup P \in SUBSET Spans /\ V \cup P \in SUBSET Spans
        /\ \A x \in K \cup P : \E y \in K \cup O : End(y) = End(x)
    BY <1>2, <2>2
  <2> HIDE DEF P, O, d, c
  <2>7. Kept(K \cup P, V \cup P, d, N)
    <3>1. PICK A \in SUBSET Spans, B \in SUBSET Spans, C \in SUBSET Spans, D \in SUBSET Spans :
            A = K \cup O /\ B = V \cup O /\ C = K \cup P /\ D = V \cup P
      BY <2>6
    <3>2. PICK e \in Nat, f \in Nat : e = c /\ f = d /\ e <= f
      BY <1>1, <2>3
    <3>3. /\ Kept(A, B, e, N) /\ \A x \in C : \E y \in A : End(y) = End(x)
          /\ \A x \in B : \A m \in Nat : f <= m /\ m < N /\ Holds(x, m)
               => \E y \in D : Holds(y, m) /\ x[1] <= y[1]
      BY <1>2, <2>5, <2>6, <3>1, <3>2
    <3>4. Kept(C, D, f, N)
      BY <3>2, <3>3, KeptMoves
    <3>5. QED
      BY <3>1, <3>2, <3>4
  <2>8. QED
    BY <2>4, <2>7 DEF KeptAt, P
<1>6. CASE c \notin DOMAIN o /\ Reaches(r) = {}
  <2> DEFINE w == Without(o, behind)
             P == Waits(w)
  <2>1. DrainStep(r) = [r EXCEPT !.ooo = w]
    BY <1>6 DEF DrainStep
  <2>2. DrainStep(r).cum = c /\ DrainStep(r).ooo = w
    <3> HIDE DEF w
    <3>1. QED
      BY <1>1, <2>1 DEF RcvStates
  <2>3. P = {<<k, Len(o[k])>> : k \in DOMAIN o \ behind} /\ P \subseteq O
    BY WaitsWithout
  <2> HIDE DEF P
  <2>4. ASSUME NEW x \in O, x \notin P PROVE End(x) <= c
    <3>1. PICK k \in DOMAIN o : x = <<k, Len(o[k])>>
      BY DEF Waits
    <3>2. k \in behind
      BY <2>3, <2>4, <3>1
    <3>3. k < c /\ k \notin Reaches(r) /\ k \in DOMAIN o
      BY <1>6, <3>2
    <3>4. ~(k + Len(o[k]) > c)
      BY <3>3 DEF Reaches
    <3>5. k + Len(o[k]) \in Nat
      BY <1>3
    <3>6. End(x) = k + Len(o[k])
      BY <1>4, <3>1
    <3> HIDE DEF c, o
    <3>7. QED
      BY <1>1, <3>4, <3>5, <3>6
  <2>5. /\ K \cup O \in SUBSET Spans /\ V \cup O \in SUBSET Spans
        /\ K \cup P \in SUBSET (K \cup O) /\ V \cup P \in SUBSET Spans
        /\ \A x \in V \cup O : x \in V \cup P \/ End(x) <= c
    BY <1>2, <2>3, <2>4
  <2> HIDE DEF O, c
  <2>6. Kept(K \cup P, V \cup P, c, N)
    BY <1>1, <1>2, <2>5, KeptByMore
  <2>7. QED
    BY <2>2, <2>6 DEF KeptAt, P
<1>7. CASE c \notin DOMAIN o /\ Reaches(r) # {}
  <2> DEFINE k == Min(Reaches(r))
             w == Without(o, behind)
             b == SubSeq(o[k], c - k + 1, Len(o[k]))
             v == With(w, c, b)
             P == Waits(v)
             a == <<k, Len(o[k])>>
             z == <<c, Len(b)>>
  <2>1. DrainStep(r) = [r EXCEPT !.ooo = v]
    BY <1>7 DEF DrainStep
  <2>2. k \in DOMAIN o /\ k \in Nat /\ k < c /\ k + Len(o[k]) > c
    <3>1. Reaches(r) \in SUBSET Nat
      BY <1>3 DEF Reaches
    <3>2. k \in Reaches(r)
      BY <1>7, <3>1, MinOf
    <3> HIDE DEF k
    <3>3. QED
      BY <1>3, <3>2 DEF Reaches
  <2> HIDE DEF k
  <2>3. Len(b) = Len(o[k]) - (c - k) /\ Len(b) \in Nat \ {0}
    <3>1. o[k] \in Seq(Byte) /\ Len(o[k]) \in Nat
      BY <1>3, <2>2
    <3>2. c - k \in Nat /\ c - k <= Len(o[k]) /\ Len(o[k]) <= Len(o[k])
      <4> HIDE DEF c, o
      <4>1. QED
        BY <1>1, <2>2, <3>1
    <3>3. Len(SubSeq(o[k], (c - k) + 1, Len(o[k]))) = Len(o[k]) - (c - k)
      <4>1. PICK all \in Seq(Byte), l \in Nat, m \in Nat :
              all = o[k] /\ l = Len(all) /\ m = c - k /\ m <= l /\ l <= Len(all)
        BY <3>1, <3>2
      <4> HIDE DEF c, o
      <4>2. Len(SubSeq(all, m + 1, l)) = l - m
        BY <4>1, PartFacts
      <4>3. QED
        BY <4>1, <4>2
    <3>4. Len(o[k]) - (c - k) \in Nat \ {0}
      <4> HIDE DEF c, o
      <4>1. QED
        BY <1>1, <2>2, <3>1
    <3>5. QED
      BY <3>3, <3>4
  <2>4. DrainStep(r).cum = c /\ DrainStep(r).ooo = v
    <3> HIDE DEF v
    <3>1. QED
      BY <1>1, <2>1 DEF RcvStates
  <2>5. P = Waits(w) \cup {z}
    <3>1. c \notin DOMAIN w
      BY <1>7 DEF Without
    <3> HIDE DEF w, c, b
    <3>2. QED
      BY <3>1, WaitsWith
  <2>6. Waits(w) = {<<j, Len(o[j])>> : j \in DOMAIN o \ behind} /\ Waits(w) \subseteq O
    BY WaitsWithout
  <2>7. ASSUME NEW x \in O, x \notin Waits(w) PROVE x[1] < c
    <3>1. PICK j \in DOMAIN o : x = <<j, Len(o[j])>>
      BY DEF Waits
    <3>2. j \in behind
      BY <2>6, <2>7, <3>1
    <3>3. x[1] = j
      BY <3>1
    <3>4. QED
      BY <3>2, <3>3
  <2>8. /\ a \in O /\ End(a) = k + Len(o[k]) /\ c < End(a)
        /\ z \in Spans /\ z[1] = c /\ End(z) = End(a)
    <3>1. a \in O /\ End(a) = k + Len(o[k])
      BY <1>4, <2>2
    <3>2. z[1] = c /\ End(z) = c + Len(b)
      BY DEF End
    <3>3. Len(o[k]) \in Nat
      BY <1>3, <2>2
    <3>4. c + Len(b) = k + Len(o[k]) /\ c < k + Len(o[k])
      <4> HIDE DEF c, o, b
      <4>1. QED
        BY <1>1, <2>2, <2>3, <3>3
    <3>5. z \in Spans
      <4> HIDE DEF c, b
      <4>1. QED
        BY <1>1, <2>3 DEF Spans
    <3>6. QED
      BY <3>1, <3>2, <3>4, <3>5
  <2> HIDE DEF P, w, v, b, z, a
  <2>9. /\ K \cup O \in SUBSET Spans /\ V \cup O \in SUBSET Spans
        /\ K \cup P \in SUBSET Spans /\ V \cup P \in SUBSET Spans
        /\ K \cup P \subseteq (K \cup O) \cup {z} /\ z \in V \cup P /\ a \in K \cup O
        /\ \A x \in V \cup O : x \in V \cup P \/ x[1] < c
    BY <1>2, <2>5, <2>6, <2>7, <2>8
  <2> HIDE DEF O, c
  <2>10. Kept(K \cup P, V \cup P, c, N)
    <3>1. PICK A \in SUBSET Spans, B \in SUBSET Spans, C \in SUBSET Spans, D \in SUBSET Spans :
            A = K \cup O /\ B = V \cup O /\ C = K \cup P /\ D = V \cup P
      BY <2>9
    <3>2. /\ C \subseteq A \cup {z} /\ z \in D /\ a \in A /\ \A x \in B : x \in D \/ x[1] < c
          /\ Kept(A, B, c, N)
      BY <1>2, <2>9, <3>1
    <3>3. Kept(C, D, c, N)
      BY <1>1, <2>8, <3>2, KeptBehind
    <3>4. QED
      BY <3>1, <3>3
  <2>11. QED
    BY <2>4, <2>10 DEF KeptAt, P
<1>8. QED
  BY <1>5, <1>6, <1>7

LEMMA DrainKept ==
    ASSUME NEW r0, r0.cum \in Nat, NEW st \in Seq(Byte), NEW n \in Nat, n <= Len(st),
           NEW r \in RcvLike(r0, st, n), read \in Seq(Byte), NEW K \in SUBSET Spans,
           NEW V \in SUBSET Spans, NEW N \in Nat, KeptAt(r, K, V, N)
    PROVE  KeptAt(Drain(r), K, V, N)
<1> DEFINE R == {y \in RcvLike(r0, st, n) : KeptAt(y, K, V, N)}
           L == 2 * Cardinality(DOMAIN r.ooo)
<1>1. L \in Nat
  <2>1. IsFiniteSet(DOMAIN r.ooo)
    BY RcvTypes DEF Pieces
  <2>2. Cardinality(DOMAIN r.ooo) \in Nat
    BY <2>1, FS_CardinalityType
  <2>3. QED
    BY <2>2
<1>2. Len(Times(L)) \in Nat
  <2> HIDE DEF L
  <2>1. QED
    BY <1>1, TimesFacts
<1>3. \A q \in R : DrainStep(q) \in R
  BY DrainStepFits, DrainStepKept
<1>4. /\ r \in R /\ Len(Times(2 * Cardinality(DOMAIN r.ooo))) \in Nat
      /\ \A i \in 1..Len(Times(2 * Cardinality(DOMAIN r.ooo))) : \A y \in R : DrainStep(y) \in R
  BY <1>2, <1>3
<1> HIDE DEF R
<1>5. Drain(r) \in R
  BY <1>4, DrainLoop
<1>6. QED
  BY <1>5 DEF R

(* A piece that is ahead, with more data waiting than b has room for or more*)
(* pieces (MAX_OOO_PIECES), is not kept, and its packet is acknowledged.    *)
NoRoomFor(r, piece) ==
    piece.at > r.cum /\ piece.at \notin DOMAIN r.ooo /\ ~HasPlace(r, piece)

LEMMA OnStreamKept ==
    ASSUME NEW r0, r0.cum \in Nat, NEW st \in Seq(Byte), NEW n \in Nat, n <= Len(st), n <= r0.offered,
           NEW r \in RcvLike(r0, st, n), read \in Seq(Byte), NEW piece \in PartsTo(st, n),
           ~NoRoomFor(r, piece),
           NEW K \in SUBSET Spans, SpanOf(piece) \in K, NEW V \in SUBSET Spans,
           NEW N \in Nat, KeptAt(r, K, V \cup {SpanOf(piece)}, N)
    PROVE  KeptAt(OnStream(r, piece), K, V, N)
<1> DEFINE at == piece.at
           b == piece.bytes
           end == at + Len(b)
           c == r.cum
           o == r.ooo
           O == Waits(o)
           p == SpanOf(piece)
<1>1. /\ piece \in [at : Nat, bytes : Seq(Byte)] /\ Len(b) > 0 /\ end <= n
      /\ b = SubSeq(st, at + 1, end)
  BY DEF PartsTo
<1>2. /\ c \in Nat /\ r.offered \in Nat /\ Pieces(o, st, n, r.offered)
      /\ r \in RcvStates(r0) /\ r.offered = r0.offered
  BY RcvTypes
<1>3. at \in Nat /\ b \in Seq(Byte) /\ Len(b) \in Nat /\ end \in Nat /\ end - at = Len(b)
  BY <1>1, LenProperties
<1>4. end <= r.offered
  <2> HIDE DEF end
  <2>1. QED
    BY <1>1, <1>2, <1>3
<1>5. p \in Spans /\ p[1] = at /\ End(p) = end /\ p = <<at, Len(b)>>
  BY <1>1, <1>3 DEF SpanOf, Spans, End
<1>6. /\ O \in SUBSET Spans /\ K \cup O \in SUBSET Spans /\ V \cup O \in SUBSET Spans
      /\ (V \cup O) \cup {p} \in SUBSET Spans
      /\ Kept(K \cup O, (V \cup O) \cup {p}, c, N)
  <2>1. O \in SUBSET Spans
    BY <1>2, WaitsFit
  <2>2. (V \cup {p}) \cup O = (V \cup O) \cup {p}
    OBVIOUS
  <2> HIDE DEF p, O
  <2>3. Kept(K \cup O, (V \cup {p}) \cup O, c, N)
    BY DEF KeptAt, p, O
  <2>4. QED
    BY <1>5, <2>1, <2>2, <2>3
<1>7. PICK A \in SUBSET Spans, B \in SUBSET Spans, D \in SUBSET Spans :
        A = K \cup O /\ B = V \cup O /\ D = B \cup {p} /\ Kept(A, D, c, N)
  BY <1>6
<1>8. CASE end <= c
  <2>1. OnStream(r, piece) = r
    BY <1>8 DEF OnStream
  <2>2. \A x \in D : x \in B \/ End(x) <= c
    BY <1>5, <1>7, <1>8
  <2> HIDE DEF c
  <2>3. Kept(A, B, c, N)
    BY <1>2, <1>7, <2>2, KeptByMore
  <2>4. QED
    BY <1>7, <2>1, <2>3 DEF KeptAt, c
<1>9. CASE ~(end <= c) /\ at > c /\ HasPlace(r, piece)
  <2> DEFINE v == With(o, at, b)
  <2>1. OnStream(r, piece) = [r EXCEPT !.ooo = v]
    <3>1. ~(end > r.offered)
      <4> HIDE DEF end
      <4>1. QED
        BY <1>2, <1>3, <1>4
    <3>2. QED
      BY <1>9, <3>1 DEF OnStream
  <2>2. at \notin DOMAIN o
    BY <1>9 DEF HasPlace
  <2>3. Waits(v) = O \cup {p}
    <3> HIDE DEF at, b, o
    <3>1. Waits(v) = Waits(o) \cup {<<at, Len(b)>>}
      BY <2>2, WaitsWith
    <3>2. QED
      BY <1>5, <3>1
  <2> HIDE DEF v
  <2>4. [r EXCEPT !.ooo = v].ooo = v /\ [r EXCEPT !.ooo = v].cum = c
    BY <1>2 DEF RcvStates
  <2>5. K \cup Waits(v) = A /\ V \cup Waits(v) = D
    BY <1>7, <2>3
  <2>6. QED
    BY <1>7, <2>1, <2>4, <2>5 DEF KeptAt
<1>10. CASE ~(end <= c) /\ at > c /\ ~HasPlace(r, piece)
  <2>1. OnStream(r, piece) = r
    BY <1>10 DEF OnStream
  <2>2. at \in DOMAIN o
    BY <1>10 DEF NoRoomFor
  <2> DEFINE w == <<at, Len(o[at])>>
  <2>3. w \in A /\ w \in B /\ w[1] = p[1]
    BY <1>5, <1>7, <2>2 DEF Waits
  <2>4. c < p[1]
    <3> HIDE DEF c, at
    <3>1. QED
      BY <1>2, <1>3, <1>5, <1>10
  <2> HIDE DEF w, p, c
  <2>5. w \in A \cap B /\ Kept(A, B \cup {p}, c, N)
    BY <1>7, <2>3
  <2>6. Kept(A, B, c, N)
    BY <1>2, <1>5, <2>3, <2>4, <2>5, KeptAway
  <2>7. QED
    BY <1>7, <2>1, <2>6 DEF KeptAt, c
<1>11. CASE ~(end <= c) /\ ~(at > c)
  <2> DEFINE cut == SubSeq(b, c - at + 1, Len(b))
             q == Deliver(r, cut)
  <2>1. OnStream(r, piece) = Drain(q)
    <3>1. ~(end > r.offered)
      <4> HIDE DEF end
      <4>1. QED
        BY <1>2, <1>3, <1>4
    <3>2. QED
      BY <1>11, <3>1 DEF OnStream
  <2>2. at <= c /\ c <= end /\ end <= Len(st)
    <3>1. Len(st) \in Nat
      BY LenProperties
    <3>2. end <= n
      BY <1>1
    <3> HIDE DEF at, end, c
    <3>3. QED
      BY <1>2, <1>3, <1>11, <3>1, <3>2
  <2>3. cut = SubSeq(st, c + 1, end)
    <3>1. SubSeq(SubSeq(st, at + 1, end), c - at + 1, end - at) = SubSeq(st, c + 1, end)
      <4> HIDE DEF at, end, c
      <4>1. QED
        BY <1>2, <1>3, <2>2, RestOfPart
    <3>2. QED
      BY <1>1, <1>3, <3>1
  <2>4. Len(cut) = end - c
    <3> HIDE DEF end, c
    <3>1. Len(SubSeq(st, c + 1, end)) = end - c
      BY <1>2, <1>3, <2>2, PartFacts
    <3>2. QED
      BY <2>3, <3>1
  <2> HIDE DEF cut
  <2>5. q \in RcvLike(r0, st, n)
    <3>1. c \in Nat /\ end \in Nat /\ c <= end /\ end <= n /\ end <= r.offered
      BY <1>1, <1>2, <1>3, <1>4, <2>2
    <3> HIDE DEF end
    <3>2. Deliver(r, SubSeq(st, r.cum + 1, end)) \in RcvLike(r0, st, n)
      BY <3>1, DeliverFits
    <3>3. QED
      BY <2>3, <3>2
  <2>6. q.cum = end /\ q.ooo = o
    <3>1. c + Len(cut) = end
      <4> HIDE DEF c, end
      <4>1. QED
        BY <1>2, <1>3, <2>4
    <3>2. q.cum = c + Len(cut) /\ q.ooo = o
      BY <1>2 DEF Deliver, RcvStates
    <3>3. QED
      BY <3>1, <3>2
  <2>7. ASSUME NEW x \in D, NEW m \in Nat, end <= m, m < N, Holds(x, m)
        PROVE  \E y \in B : Holds(y, m) /\ x[1] <= y[1]
    <3>1. x[1] \in Nat /\ x[2] \in Nat
      BY DEF Spans
    <3>2. x # p
      <4>1. SUFFICES ASSUME x = p PROVE FALSE
        OBVIOUS
      <4>2. m < End(x)
        BY <2>7 DEF Holds, End
      <4>3. m < end
        BY <1>5, <4>1, <4>2
      <4> HIDE DEF end, p
      <4>4. QED
        BY <1>3, <2>7, <4>3
    <3>3. x \in B
      BY <1>7, <3>2
    <3>4. x[1] <= x[1]
      BY <3>1
    <3>5. QED
      BY <2>7, <3>3, <3>4
  <2>8. \A x \in A : \E y \in A : End(y) = End(x)
    OBVIOUS
  <2>9. Kept(A, B, end, N)
    <3>1. PICK e \in Nat, f \in Nat : e = c /\ f = end /\ e <= f
      BY <1>2, <1>3, <2>2
    <3> HIDE DEF c, end
    <3>2. /\ Kept(A, D, e, N)
          /\ \A x \in D : \A m \in Nat : f <= m /\ m < N /\ Holds(x, m)
               => \E y \in B : Holds(y, m) /\ x[1] <= y[1]
      BY <1>7, <2>7, <3>1
    <3>3. Kept(A, B, f, N)
      BY <2>8, <3>1, <3>2, KeptMoves
    <3>4. QED
      BY <3>1, <3>3
  <2> HIDE DEF q
  <2>10. KeptAt(q, K, V, N)
    BY <1>7, <2>6, <2>9 DEF KeptAt
  <2>11. KeptAt(Drain(q), K, V, N)
    BY <2>5, <2>10, DrainKept
  <2>12. QED
    BY <2>1, <2>11
<1>12. QED
  BY <1>8, <1>9, <1>10, <1>11

(* The pieces from the kth on.                                              *)
From(pieces, k) == {SpanOf(pieces[j]) : j \in {i \in DOMAIN pieces : k <= i}}

(* b has room for each of the pieces when it comes to it.                   *)
RoomForAll(r, pieces) ==
    \A j \in 1..Len(pieces) :
        ~NoRoomFor(Folded(OnStream, r, SubSeq(pieces, 1, j - 1)), pieces[j])

LEMMA PacketKept ==
    ASSUME NEW r0, r0.cum \in Nat, NEW st \in Seq(Byte), NEW n \in Nat, n <= Len(st), n <= r0.offered,
           NEW r \in RcvLike(r0, st, n), read \in Seq(Byte), NEW pieces \in Seq(PartsTo(st, n)),
           RoomForAll(r, pieces),
           NEW K \in SUBSET Spans, \A j \in 1..Len(pieces) : SpanOf(pieces[j]) \in K,
           NEW V \in SUBSET Spans, NEW N \in Nat, KeptAt(r, K, V \cup From(pieces, 1), N)
    PROVE  KeptAt(Folded(OnStream, r, pieces), K, V, N)
<1> DEFINE R == RcvLike(r0, st, n)
           L == Len(pieces)
           F(m) == Folded(OnStream, r, SubSeq(pieces, 1, m))
           W(m) == V \cup From(pieces, m + 1)
           A == {m \in Nat : m <= L => F(m) \in R /\ KeptAt(F(m), K, W(m), N)}
<1>1. L \in Nat /\ DOMAIN pieces = 1..L /\ \A j \in 1..L : pieces[j] \in PartsTo(st, n)
  BY LenProperties, ElementOfSeq
<1>2. \A p \in PartsTo(st, n) : \A y \in R : OnStream(y, p) \in R
  BY OnStreamFits
<1>2a. \A k \in 1..Len(pieces) :
         /\ Folded(OnStream, r, SubSeq(pieces, 1, k - 1)) \in R
         /\ Folded(OnStream, r, SubSeq(pieces, 1, k))
              = OnStream(Folded(OnStream, r, SubSeq(pieces, 1, k - 1)), pieces[k])
  <2>1. PICK Q : Q = R
    OBVIOUS
  <2>2. PICK T : T = PartsTo(st, n)
    OBVIOUS
  <2>3. r \in Q /\ pieces \in Seq(T) /\ \A p \in T : \A y \in Q : OnStream(y, p) \in Q
    BY <1>2, <2>1, <2>2
  <2> HIDE DEF R
  <2>5. ASSUME NEW k \in 1..Len(pieces)
        PROVE  /\ Folded(OnStream, r, SubSeq(pieces, 1, k - 1)) \in Q
               /\ Folded(OnStream, r, SubSeq(pieces, 1, k))
                    = OnStream(Folded(OnStream, r, SubSeq(pieces, 1, k - 1)), pieces[k])
    <3>1. TurnOf(r, SubSeq(pieces, 1, k - 1), SubSeq(pieces, 1, k), pieces[k], Q)
      BY <2>3, StreamPrefix
    <3>2. QED
      BY <3>1 DEF TurnOf
  <2>6. QED
    BY <2>1, <2>5
<1>3. \A m \in Nat : From(pieces, m) \in SUBSET Spans
  BY <1>1 DEF From
<1>4. SubSeq(pieces, 1, 0) = <<>> /\ SubSeq(pieces, 1, L) = pieces
  <2>1. pieces \in Seq(PartsTo(st, n))
    OBVIOUS
  <2>2. SubSeq(pieces, 1, 0) = <<>>
    BY <2>1, SubSeqEmpty
  <2>3. SubSeq(pieces, 1, L) = pieces
    BY <2>1, SubSeqFull
  <2>4. QED
    BY <2>2, <2>3
<1>5. F(0) = r
  <2>1. 1..0 = {}
    OBVIOUS
  <2>2. Len(<<>>) = 0
    OBVIOUS
  <2>3. Folded(OnStream, r, <<>>) \in {r}
    <3>1. \A i \in 1..Len(<<>>) : \A y \in {r} : OnStream(y, <<>>[i]) \in {r}
      BY <2>1, <2>2
    <3>2. r \in {r} /\ Len(<<>>) \in Nat
      BY <2>2
    <3>3. QED
      BY <3>1, <3>2, StreamLoop
  <2>4. QED
    BY <1>4, <2>3
<1>6. 0 \in A
  <2>1. F(0) \in R /\ KeptAt(F(0), K, V \cup From(pieces, 1), N)
    BY <1>5
  <2> HIDE DEF F, R
  <2>2. QED
    BY <2>1
<1>7. ASSUME NEW m \in Nat, m \in A PROVE m + 1 \in A
  <2>1. SUFFICES ASSUME m + 1 <= L PROVE F(m + 1) \in R /\ KeptAt(F(m + 1), K, W(m + 1), N)
    OBVIOUS
  <2> DEFINE k == m + 1
  <2>2. k \in 1..L /\ k - 1 = m /\ m <= L
    BY <1>1, <2>1
  <2>3. F(m) \in R /\ KeptAt(F(m), K, W(m), N)
    BY <1>7, <2>2
  <2>4. F(m) \in R /\ F(k) = OnStream(F(m), pieces[k])
    <3>1. /\ Folded(OnStream, r, SubSeq(pieces, 1, k - 1)) \in R
          /\ Folded(OnStream, r, SubSeq(pieces, 1, k))
               = OnStream(Folded(OnStream, r, SubSeq(pieces, 1, k - 1)), pieces[k])
      BY <1>2, <2>2, <1>2a
    <3>2. QED
      BY <2>2, <3>1
  <2>5. ~NoRoomFor(F(m), pieces[k])
    BY <2>2 DEF RoomForAll
  <2>6. W(m) = W(k) \cup {SpanOf(pieces[k])}
    <3>1. From(pieces, k) = From(pieces, k + 1) \cup {SpanOf(pieces[k])}
      <4>1. {i \in DOMAIN pieces : k <= i} = {i \in DOMAIN pieces : k + 1 <= i} \cup {k}
        BY <1>1, <2>2
      <4> HIDE DEF k
      <4>2. QED
        BY <4>1 DEF From
    <3>2. QED
      BY <3>1
  <2>7. W(k) \in SUBSET Spans /\ pieces[k] \in PartsTo(st, n) /\ SpanOf(pieces[k]) \in K
    BY <1>1, <1>3, <2>2
  <2>8. PICK y \in R : y = F(m)
    BY <2>4
  <2>9. PICK D \in SUBSET Spans, p \in PartsTo(st, n) : D = W(k) /\ p = pieces[k]
    BY <2>7
  <2>10. ~NoRoomFor(y, p) /\ SpanOf(p) \in K /\ KeptAt(y, K, D \cup {SpanOf(p)}, N)
    BY <2>3, <2>5, <2>6, <2>7, <2>8, <2>9
  <2>11. KeptAt(OnStream(y, p), K, D, N)
    <3>1. y \in RcvLike(r0, st, n)
      BY <2>8
    <3> HIDE DEF R, F, W
    <3>2. QED
      BY <2>10, <3>1, OnStreamKept
  <2>12. F(k) \in R /\ F(k) = OnStream(y, p)
    BY <1>2, <2>4, <2>8, <2>9
  <2> HIDE DEF F, R, W
  <2>13. QED
    BY <2>9, <2>11, <2>12
<1>8. Nat \subseteq A
  <2> HIDE DEF A
  <2>1. QED
    BY <1>6, <1>7, Counting
<1>9. KeptAt(F(L), K, W(L), N)
  <2> HIDE DEF F, R, W
  <2>1. QED
    BY <1>1, <1>8
<1>10. W(L) = V
  <2>1. {i \in DOMAIN pieces : L + 1 <= i} = {}
    BY <1>1
  <2>2. QED
    BY <2>1 DEF From
<1>11. QED
  BY <1>4, <1>9, <1>10

LEMMA StreamSeen ==
    ASSUME NEW r0, r0.cum \in Nat, NEW st \in Seq(Byte), NEW n \in Nat, n <= Len(st),
           NEW r \in RcvLike(r0, st, n), read \in Seq(Byte), NEW pieces \in Seq(PartsTo(st, n))
    PROVE  Folded(OnStream, r, pieces) \in {y \in RcvLike(r0, st, n) : y.seen = r.seen}
<1> DEFINE R == {y \in RcvLike(r0, st, n) : y.seen = r.seen}
<1>1. Len(pieces) \in Nat /\ \A i \in 1..Len(pieces) : pieces[i] \in PartsTo(st, n)
  BY LenProperties, ElementOfSeq
<1>2. \A i \in 1..Len(pieces) : \A y \in R : OnStream(y, pieces[i]) \in R
  BY <1>1, OnStreamFits
<1>3. r \in R
  OBVIOUS
<1> HIDE DEF R
<1>4. Folded(OnStream, r, pieces) \in R
  BY <1>1, <1>2, <1>3, StreamLoop
<1>5. QED
  BY <1>4 DEF R

(* What b knows after a packet it takes.                                    *)
LEMMA PacketTaken ==
    ASSUME IInv, NEW p \in Packets(stream, snd.next), OnPacket(p), ~TooOld(rcv.seen, p.pn),
           NEW q, q = Folded(OnStream, rcv, p.pieces)
    PROVE  /\ rcv'.cum = q.cum /\ rcv'.ooo = q.ooo /\ rcv'.seen \subseteq rcv.seen \cup {p.pn}
           /\ Told(toA') \subseteq Told(toA) /\ q \in RcvLike(rcv, stream, snd.next)
<1> DEFINE n == snd.next
           a == [kind |-> "challenge"]
           F == Folded(OnStream, rcv, p.pieces)
<1>1. /\ rcv \in RcvLike(rcv, stream, n) /\ rcv.cum \in Nat /\ read \in Seq(Byte)
      /\ n \in Nat /\ n <= Len(stream) /\ stream \in Seq(Byte)
  BY RcvKnown
<1>2. p.pieces \in Seq(PartsTo(stream, n)) /\ p.pn \in Nat
  BY DEF Packets
<1>3. F \in {y \in RcvLike(rcv, stream, n) : y.seen = rcv.seen}
  BY <1>1, <1>2, StreamSeen
<1> DEFINE new == [F EXCEPT !.seen = Newest(@ \cup {p.pn}, RxRanges),
                            !.ackDue = @ \/ p.kind # "response"]
           sn == Newest(F.seen \cup {p.pn}, RxRanges)
           ad == F.ackDue \/ p.kind # "response"
<1>4. \/ rcv' = [new EXCEPT !.fresh = TRUE] /\ toA' = toA
      \/ rcv' = [new EXCEPT !.remote = p.from, !.fresh = TRUE, !.challenged = 0] /\ toA' = toA
      \/ rcv' = [new EXCEPT !.fresh = FALSE] /\ toA' = toA
      \/ rcv' = [new EXCEPT !.challenged = p.from] /\ (toA' = toA \/ toA' = Append(toA, a))
  BY Zenon DEF OnPacket
<1>5. new = [F EXCEPT !.seen = sn, !.ackDue = ad]
  OBVIOUS
<1>6. F = q
  OBVIOUS
<1> HIDE DEF F, new, sn, ad, a
<1>7. F \in RcvStates(rcv) /\ F.seen = rcv.seen
  BY <1>3, RcvTypes
<1>8. new.cum = F.cum /\ new.ooo = F.ooo /\ new.seen = sn
      /\ "cum" \in DOMAIN new /\ "ooo" \in DOMAIN new /\ "seen" \in DOMAIN new
      /\ DOMAIN new = DOMAIN F
  BY <1>5, <1>7 DEF RcvStates
<1>9. rcv'.cum = F.cum /\ rcv'.ooo = F.ooo /\ rcv'.seen = sn
  <2>1. CASE rcv' = [new EXCEPT !.fresh = TRUE]
    BY <1>8, <2>1
  <2>2. CASE rcv' = [new EXCEPT !.remote = p.from, !.fresh = TRUE, !.challenged = 0]
    BY <1>8, <2>2
  <2>3. CASE rcv' = [new EXCEPT !.fresh = FALSE]
    BY <1>8, <2>3
  <2>4. CASE rcv' = [new EXCEPT !.challenged = p.from]
    BY <1>8, <2>4
  <2>5. QED
    BY <1>4, <2>1, <2>2, <2>3, <2>4
<1>10. sn \subseteq rcv.seen \cup {p.pn}
  BY <1>7 DEF sn, Newest
<1>11. Told(toA') \subseteq Told(toA)
  <2>1. CASE toA' = toA
    BY <2>1
  <2>2. CASE toA' = Append(toA, a)
    <3>1. toA \in Seq(Answers(rcv.cum, rcv.offered))
      BY DEF IInv
    <3>2. a \in Answers(rcv.cum, rcv.offered) /\ a.kind = "challenge"
      BY DEF Answers, a
    <3>3. /\ Append(toA, a) \in Seq(Answers(rcv.cum, rcv.offered))
          /\ Len(Append(toA, a)) = Len(toA) + 1 /\ Append(toA, a)[Len(toA) + 1] = a
          /\ \A j \in 1..Len(toA) : Append(toA, a)[j] = toA[j]
      BY <3>1, <3>2, AppendProperties
    <3>4. DOMAIN toA' = 1..(Len(toA) + 1) /\ DOMAIN toA = 1..Len(toA) /\ Len(toA) \in Nat
      BY <2>2, <3>1, <3>3, LenProperties
    <3>5. \A j \in DOMAIN toA' : toA'[j].kind = "ack" => j \in DOMAIN toA /\ toA'[j] = toA[j]
      BY <2>2, <3>2, <3>3, <3>4
    <3>6. QED
      BY <3>5 DEF Told
  <2>3. QED
    BY <1>4, <2>1, <2>2
<1>12. QED
  BY <1>3, <1>6, <1>9, <1>10, <1>11

(* b takes the packet and turns a piece of it away.                         *)
Refused(p) == ~TooOld(rcv.seen, p.pn) /\ ~RoomForAll(rcv, p.pieces)
Refuses == \E i \in DOMAIN toB : Receive(i) /\ Refused(toB[i])

LEMMA TakenCovers ==
    ASSUME IInv, CInv, snd' = snd, NEW i \in DOMAIN toB, toB' = RemoveAt(toB, i), OnPacket(toB[i]),
           ~TooOld(rcv.seen, toB[i].pn), RoomForAll(rcv, toB[i].pieces)
    PROVE  CInv'
<1> DEFINE P == toB[i]
<1>1. /\ SndFits(snd, stream) /\ toB \in Seq(Packets(stream, snd.next)) /\ snd.pn \in Nat
      /\ snd.next \in Nat /\ rcv \in RcvLike(rcv, stream, snd.next) /\ rcv.cum \in Nat
      /\ rcv.offered \in Nat /\ read \in Seq(Byte) /\ stream \in Seq(Byte)
      /\ snd.next <= Len(stream) /\ snd.next <= rcv.offered
  <2>1. snd.limit \in Nat /\ snd.limit <= rcv.offered /\ snd.next <= snd.limit
    BY SndKnown DEF SndFits
  <2>2. /\ SndFits(snd, stream) /\ toB \in Seq(Packets(stream, snd.next)) /\ snd.pn \in Nat
        /\ snd.next \in Nat /\ rcv \in RcvLike(rcv, stream, snd.next) /\ rcv.cum \in Nat
        /\ rcv.offered \in Nat /\ read \in Seq(Byte) /\ stream \in Seq(Byte)
        /\ snd.next <= Len(stream)
    BY SndKnown, RcvKnown
  <2>3. snd.next <= rcv.offered
    BY <2>1, <2>2
  <2>4. QED
    BY <2>2, <2>3
<1>2. PICK p \in Packets(stream, snd.next) : p = P
  BY <1>1, ElementOfSeq, LenProperties
<1>3. PICK pieces \in Seq(PartsTo(stream, snd.next)), pn \in Nat : pieces = p.pieces /\ pn = p.pn
  BY DEF Packets
<1>4. PICK q \in RcvLike(rcv, stream, snd.next) :
         /\ q = Folded(OnStream, rcv, pieces)
         /\ rcv'.cum = q.cum /\ rcv'.ooo = q.ooo /\ rcv'.seen \subseteq rcv.seen \cup {pn}
         /\ Told(toA') \subseteq Told(toA)
  <2>1. PICK q : q = Folded(OnStream, rcv, p.pieces)
    OBVIOUS
  <2>2. OnPacket(p) /\ ~TooOld(rcv.seen, p.pn)
    BY <1>2
  <2>3. /\ rcv'.cum = q.cum /\ rcv'.ooo = q.ooo /\ rcv'.seen \subseteq rcv.seen \cup {p.pn}
        /\ Told(toA') \subseteq Told(toA) /\ q \in RcvLike(rcv, stream, snd.next)
    BY <2>1, <2>2, PacketTaken
  <2>4. QED
    BY <1>3, <2>1, <2>3
<1> DEFINE W == Waits(rcv.ooo)
           O == OnWay(toB)
           X == Range(snd.retx)
           S == SentTo(snd)
           G == From(pieces, 1)
           K == O \cup X \cup S
           heard == Heard \cup {pn}
           V == X \cup Unheard(snd, heard)
           N == snd.next
<1>5. /\ W \in SUBSET Spans /\ O \in SUBSET Spans /\ X \in SUBSET Spans /\ S \in SUBSET Spans
      /\ Unheard(snd, heard) \in SUBSET S /\ Unheard(snd, Heard) \in SUBSET S
  <2>1. W \in SUBSET Spans /\ O \in SUBSET Spans
    BY CoverKnown
  <2>2. PICK h : h = heard
    OBVIOUS
  <2>3. \A g : X \in SUBSET Spans /\ S \in SUBSET Spans /\ Unheard(snd, g) \in SUBSET S
    <3>1. PICK s, st : s = snd /\ st = stream
      OBVIOUS
    <3>2. SndFits(s, st)
      BY <1>1, <3>1
    <3>3. \A g : Range(s.retx) \in SUBSET Spans /\ SentTo(s) \in SUBSET Spans
                 /\ Unheard(s, g) \in SUBSET SentTo(s)
      BY <3>2, SentFits
    <3>4. QED
      BY <3>1, <3>3
  <2>4. QED
    BY <2>1, <2>3
<1>6. /\ Kept(W \cup O \cup X \cup S, W \cup X \cup Unheard(snd, Heard), rcv.cum, N)
      /\ Numbered(snd, Heard) /\ Matches(snd, toB)
  BY CoverKnown DEF Good
<1>7. /\ G \in SUBSET Spans /\ G \in SUBSET K
      /\ \A j \in 1..Len(pieces) : SpanOf(pieces[j]) \in K
      /\ G = Range(Spanned(pieces))
  <2>1. Len(pieces) \in Nat /\ DOMAIN pieces = 1..Len(pieces)
    BY LenProperties
  <2>2. Range(Spanned(pieces)) = {SpanOf(pieces[j]) : j \in 1..Len(pieces)}
    BY <1>1, SpannedFits
  <2>3. G = {SpanOf(pieces[j]) : j \in 1..Len(pieces)}
    <3>1. {k \in DOMAIN pieces : 1 <= k} = 1..Len(pieces)
      BY <2>1
    <3>2. QED
      BY <3>1 DEF From
  <2>4. Range(Spanned(pieces)) \subseteq O
    BY <1>2, <1>3 DEF OnWay
  <2>5. QED
    BY <1>5, <2>2, <2>3, <2>4
<1>8. Unheard(snd, Heard) \subseteq Unheard(snd, heard) \cup G
  <2>1. ASSUME NEW x \in Unheard(snd, Heard), x \notin Unheard(snd, heard) PROVE x \in G
    <3>1. PICK m \in DOMAIN snd.sent \ Heard : x \in Range(snd.sent[m])
      BY <2>1 DEF Unheard
    <3>2. m = pn
      BY <2>1, <3>1 DEF Unheard
    <3>3. snd.sent[pn] = Spanned(pieces)
      BY <1>2, <1>3, <1>6, <3>1, <3>2 DEF Matches
    <3>4. QED
      BY <1>7, <3>1, <3>2, <3>3
  <2>2. QED
    BY <2>1
<1>9. KeptAt(rcv, K, V \cup G, N)
  <2>1. PICK A \in SUBSET Spans, B \in SUBSET Spans, D \in SUBSET Spans, c \in Nat, n \in Nat :
          /\ A = W \cup O \cup X \cup S /\ B = W \cup X \cup Unheard(snd, Heard)
          /\ D = (V \cup G) \cup W /\ c = rcv.cum /\ n = N
    BY <1>1, <1>5, <1>7
  <2>2. Kept(A, B, c, n) /\ \A x \in B : x \in D
    BY <1>6, <1>8, <2>1
  <2>3. Kept(A, D, c, n)
    BY <2>2, KeptByMore
  <2>4. K \cup W = A
    BY <2>1
  <2>5. QED
    BY <2>1, <2>3, <2>4 DEF KeptAt
<1>10. KeptAt(q, K, V, N)
  <2>1. K \in SUBSET Spans /\ V \in SUBSET Spans
    BY <1>5
  <2>2. RoomForAll(rcv, pieces)
    BY <1>2, <1>3
  <2>3. PICK r0 \in RcvLike(rcv, stream, snd.next) : r0 = rcv
    BY <1>1
  <2> HIDE DEF K, V
  <2>4. KeptAt(Folded(OnStream, rcv, pieces), K, V, N)
    BY <1>1, <1>7, <1>9, <2>1, <2>2, PacketKept
  <2>5. QED
    BY <1>4, <2>4
<1>11. SndFits(snd, stream) /\ Among(toB', toB)
  BY <1>1, RemoveIsAmong
<1>12. PICK c \in Nat, T \in SUBSET Spans, M \in SUBSET Spans, g \in {heard} :
         c = rcv'.cum /\ T = Waits(rcv'.ooo) /\ M = T \cup O
  <2>1. q.cum \in Nat /\ Pieces(q.ooo, stream, snd.next, q.offered)
    BY RcvTypes
  <2>2. Waits(q.ooo) \in SUBSET Spans
    BY <1>1, <2>1, WaitsFit
  <2>3. QED
    BY <1>4, <1>5, <2>1, <2>2
<1>13. Good(snd, g, M, T, c)
  <2>1. Kept(K \cup Waits(q.ooo), V \cup Waits(q.ooo), q.cum, N)
    BY <1>10 DEF KeptAt
  <2>2. K \cup Waits(q.ooo) = M \cup X \cup S /\ V \cup Waits(q.ooo) = T \cup X \cup Unheard(snd, g)
    BY <1>4, <1>12
  <2>3. q.cum = c
    BY <1>4, <1>12
  <2>4. QED
    BY <2>1, <2>2, <2>3 DEF Good
<1>14. Numbered(snd, g)
  <2>1. pn < snd.pn
    BY <1>2, <1>3, <1>6 DEF Matches
  <2>2. pn \in 0..(snd.pn - 1)
    BY <1>1, <2>1
  <2>3. QED
    BY <1>6, <1>12, <2>2 DEF Numbered
<1>15. PICK less \in SUBSET g, B \in SUBSET M :
         less = rcv'.seen \cup Told(toA') /\ B = Waits(rcv'.ooo) \cup OnWay(toB')
  <2>1. OnWay(toB') \subseteq O
    BY <1>11, FewerPackets
  <2>2. rcv'.seen \cup Told(toA') \subseteq heard
    BY <1>4 DEF Heard
  <2>3. QED
    BY <1>12, <2>1, <2>2
<1>16. Matches(snd, toB')
  BY <1>6, <1>11, FewerPackets
<1> HIDE DEF W, O, X, S, G, K, heard, V, N, P
<1>17. Good(snd, less, M, T, c) /\ Numbered(snd, less)
  BY <1>11, <1>13, <1>14, HeardLess
<1>18. Good(snd, less, B, T, c)
  BY <1>11, <1>17, FewerOnWay
<1>19. QED
  BY <1>12, <1>15, <1>16, <1>17, <1>18 DEF CInv, Heard

LEMMA ReceiveCovers ==
    ASSUME IInv, CInv, NEW i \in DOMAIN toB, Receive(i), ~Refused(toB[i])
    PROVE  CInv'
<1>1. snd' = snd /\ toB' = RemoveAt(toB, i) /\ OnPacket(toB[i])
  BY DEF Receive
<1>2. CASE TooOld(rcv.seen, toB[i].pn)
  <2>1. rcv' = rcv /\ toA' = toA
    BY <1>1, <1>2 DEF OnPacket
  <2>2. toB \in Seq(Packets(stream, snd.next))
    BY SndKnown
  <2>3. Among(toB', toB)
    BY <1>1, <2>2, RemoveIsAmong
  <2>4. rcv'.seen \cup Told(toA') \subseteq Heard
    BY <2>1 DEF Heard
  <2>5. QED
    BY <1>1, <2>1, <2>3, <2>4, ReceiverSame
<1>3. CASE ~TooOld(rcv.seen, toB[i].pn)
  <2>1. RoomForAll(rcv, toB[i].pieces)
    BY <1>3 DEF Refused
  <2>2. QED
    BY <1>1, <1>3, <2>1, TakenCovers
<1>4. QED
  BY <1>2, <1>3

------------------------------------------------------------------------------
(* Nothing is forgotten unless b turns a piece away.                        *)

LEMMA InitCovers == Init => CInv
<1> SUFFICES ASSUME Init PROVE CInv
  OBVIOUS
<1>1. /\ toB = <<>> /\ toA = <<>> /\ snd.next = 0 /\ snd.retx = <<>> /\ snd.sent = <<>>
      /\ snd.pn = 0 /\ snd.probe = -1 /\ rcv.seen = {} /\ rcv.cum = 0
  BY DEF Init
<1>2. DOMAIN <<>> = {}
  OBVIOUS
<1>3. Heard = {}
  BY <1>1, <1>2 DEF Heard, Told
<1>4. Numbered(snd, Heard) /\ Matches(snd, toB)
  BY <1>1, <1>2, <1>3 DEF Numbered, Matches
<1>5. \A K, V, c : c = 0 => Good(snd, Heard, K, V, c)
  <2>1. \A K, V, c : c = 0 => Kept(K, V, c, 0)
    BY DEF Kept
  <2>2. QED
    BY <1>1, <2>1 DEF Good
<1>6. QED
  BY <1>1, <1>4, <1>5 DEF CInv

LEMMA EachStepCovers == IInv /\ CInv /\ [Next /\ ~Refuses]_vars => CInv'
<1> SUFFICES ASSUME IInv, CInv, [Next /\ ~Refuses]_vars PROVE CInv'
  OBVIOUS
<1>0. IInv'
  BY EveryStep
<1>1. CASE \E f \in Frames : Write(f)
  BY <1>0, <1>1, WriteCovers
<1>2. CASE SendData
  BY <1>0, <1>2, SendDataCovers
<1>3. CASE ProbePath \/ ProbeTimeout \/ KeepAlive
  BY <1>0, <1>3, ProbeCovers
<1>4. CASE LossByTime
  BY <1>0, <1>4, LossByTimeCovers
<1>5. CASE (\E i \in 1..Len(toB) : Receive(i)) /\ ~Refuses
  <2>1. PICK i \in DOMAIN toB : Receive(i)
    BY <1>5 DEF Receive
  <2>2. ~Refused(toB[i])
    BY <1>5, <2>1 DEF Refuses
  <2>3. QED
    BY <2>1, <2>2, ReceiveCovers
<1>6. CASE SendAck \/ Take \/ Handled
  BY <1>6, QuietCovers
<1>7. CASE ReceiveAtA
  BY <1>0, <1>7, ReceiveAtACovers
<1>8. CASE Lose \/ Repeat \/ Move \/ \E e \in {"a", "b"} : Close(e) \/ CloseToo(e)
  BY <1>8, NetworkCovers
<1>9. CASE UNCHANGED vars
  BY <1>9 DEF vars, CInv, Heard
<1>10. QED
  BY <1>1, <1>2, <1>3, <1>4, <1>5, <1>6, <1>7, <1>8, <1>9 DEF Next, Progress

LEMMA CoveredIsNotForgotten == IInv /\ CInv => NothingForgotten
<1> SUFFICES ASSUME IInv, CInv, NEW n \in rcv.cum..(snd.next - 1)
             PROVE  \/ Covers({<<k, Len(rcv.ooo[k])>> : k \in DOMAIN rcv.ooo}, n)
                    \/ Covers(Range(snd.retx), n)
                    \/ \E pn \in DOMAIN snd.sent : Covers(Range(snd.sent[pn]), n)
  BY DEF NothingForgotten
<1>1. n \in Nat /\ rcv.cum <= n /\ n < snd.next
  BY SndKnown
<1>2. PICK r \in Waits(rcv.ooo) \cup Range(snd.retx) \cup Unheard(snd, Heard) : Holds(r, n)
  <2>1. Good(snd, Heard, Waits(rcv.ooo) \cup OnWay(toB), Waits(rcv.ooo), rcv.cum)
    BY DEF CInv
  <2>2. Ahead(0, Waits(rcv.ooo) \cup Range(snd.retx) \cup Unheard(snd, Heard), rcv.cum, n)
    BY <1>1, <2>1 DEF Good, Kept
  <2>3. QED
    BY <2>2 DEF Ahead
<1>3. CASE r \in Waits(rcv.ooo)
  BY <1>2, <1>3 DEF Waits, Covers, Holds
<1>4. CASE r \in Range(snd.retx)
  BY <1>2, <1>4 DEF Covers, Holds
<1>5. CASE r \in Unheard(snd, Heard)
  BY <1>2, <1>5 DEF Unheard, Covers, Holds
<1>6. QED
  BY <1>2, <1>3, <1>4, <1>5

(* A byte that a gave out (_next_range) is read, waits at b, is due to be   *)
(* sent again or is in a packet a remembers (_sent), whatever is lost,      *)
(* repeated, delayed or moved, as long as b keeps every piece of a packet it*)
(* acknowledges: _on_stream turns a piece away when MAX_OOO_PIECES wait, and*)
(* on_datagram acknowledges its packet nevertheless.                        *)
THEOREM NothingIsForgotten == Spec /\ [][~Refuses]_vars => []NothingForgotten
<1>1. Init => CInv
  BY InitCovers
<1>2. IInv /\ CInv /\ [Next /\ ~Refuses]_vars => CInv'
  BY EachStepCovers
<1>3. IInv /\ CInv => NothingForgotten
  BY CoveredIsNotForgotten
<1>4. [Next]_vars /\ [~Refuses]_vars => [Next /\ ~Refuses]_vars
  OBVIOUS
<1>5. QED
  BY <1>1, <1>2, <1>3, <1>4, Inductive, PTL DEF Spec
===============================================================================
