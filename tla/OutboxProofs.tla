----------------------------- MODULE OutboxProofs ------------------------------
(***************************************************************************)
(* Theorems about Outbox, for any number of messages, lost connections,    *)
(* restarts and deletions.                                                 *)
(*                                                                         *)
(* What a takes for delivered was stored at b, or b itself ended the       *)
(* handler that was about to.  For that the receipts on their way have to  *)
(* be right too: all but the one whose handler still has to store what it  *)
(* confirms; and a has that one only once the handler is done.             *)
(*                                                                         *)
(* That no resend takes a delivery back rests on two orders: a handles no  *)
(* receipt while it resends, and a refusal never follows a receipt on the  *)
(* same connection, as b never stops to trust a.                           *)
(***************************************************************************)
EXTENDS Outbox, ListFacts, SequenceTheorems, TLAPS

Statuses == {"new", "gone", "delivered"} \cup Waiting

Receipts == {Accepted} \cup {Receipt(m, what) : m \in Msgs, what \in {"delivered", "not_trusted"}}

Sessions == [alive : BOOLEAN, direct : BOOLEAN, up : SUBSET Sides,
             toA : Seq(Receipts), toB : Seq(Msgs)]

TypeInv ==
    /\ status \in [Msgs -> Statuses] /\ onDiskA \in [Msgs -> Statuses]
    /\ messages \in Seq(Msgs) /\ onDiskB \in Seq(Msgs)
    /\ flush \subseteq Msgs /\ handling \in Msgs \cup {None}
    /\ session \in Sessions

Held == had \cup dropped

(* b has what it shows, or will show after a start, and each once.          *)
ShownInv ==
    /\ IsInjective(messages) /\ IsInjective(onDiskB)
    /\ \A i \in DOMAIN messages : messages[i] \in had
    /\ \A i \in DOMAIN onDiskB : onDiskB[i] \in had

(* Right for the statuses a has, and for those a may get from its file.     *)
StatusInv ==
    \A m \in Msgs : "delivered" \in {status[m], onDiskA[m]} => m \in Held

(* And for the receipts on their way: q is the way to a, on a connection    *)
(* that works or not; of what b handles, the last receipt may be early.     *)
Right(q, works, handled, held) ==
    \A i \in 1..Len(q), m \in Msgs :
        q[i] = Receipt(m, "delivered") =>
            \/ m \in held
            \/ works /\ m = handled /\ \A j \in (i + 1)..Len(q) : q[j] # q[i]

ReceiptInv == Right(session.toA, session.alive, handling, Held)

TrustInv == Held # {} \/ handling # None => trusts

(* No refusal follows a receipt, and what is resent is not delivered.       *)
Refuses(q) == \E j \in 1..Len(q) : q[j].status = "not_trusted"

InOrder(q) ==
    \A i, j \in 1..Len(q) :
        i < j /\ q[i].status = "delivered" => q[j].status # "not_trusted"

OrderInv ==
    /\ InOrder(session.toA)
    /\ (\E m \in Msgs : status[m] = "delivered") => ~Refuses(session.toA)
    /\ \A m \in flush : status[m] # "delivered"

IInv == TypeInv /\ ShownInv /\ StatusInv /\ ReceiptInv /\ TrustInv /\ OrderInv

------------------------------------------------------------------------------
(* Sequences.                                                               *)

(* An entry that is last of its kind is where Waits finds it.               *)
LEMMA WaitsAtLast ==
    ASSUME NEW q, Len(q) \in Nat, NEW i \in 1..Len(q),
           q[i] = Receipt(handling, "delivered"),
           \A j \in (i + 1)..Len(q) : q[j] # q[i]
    PROVE  Waits(q) = i
<1> DEFINE I == {j \in 1..Len(q) : q[j] = Receipt(handling, "delivered")}
<1>1. i \in I /\ \A j \in I : i >= j
  OBVIOUS
<1>2. Max(I) = i
  <2>1. \A x \in I : (\A j \in I : x >= j) => x = i
    BY <1>1
  <2>2. QED
    BY <1>1, <2>1 DEF Max
<1>3. Waits(q) = Max(I)
  BY <1>1 DEF Waits, SelectLastInSeq
<1>4. QED
  BY <1>2, <1>3

------------------------------------------------------------------------------
(* The session.                                                             *)

LEMMA KindsOfReceipt ==
    /\ Accepted \in Receipts /\ Accepted.status = "accepted"
    /\ \A m, what : Receipt(m, what).status = what /\ Receipt(m, what).id = m
    /\ \A m \in Msgs : Receipt(m, "delivered") \in Receipts /\ Receipt(m, "not_trusted") \in Receipts
    /\ \A r \in Receipts :
          \/ r = Accepted
          \/ r.id \in Msgs /\ r.status \in {"delivered", "not_trusted"} /\ r = Receipt(r.id, r.status)
<1>1. \A m, what : Receipt(m, what).status = what /\ Receipt(m, what).id = m
  BY DEF Receipt
<1>2. Accepted \in Receipts /\ Accepted.status = "accepted"
  BY <1>1 DEF Receipts, Accepted
<1>3. \A m \in Msgs : Receipt(m, "delivered") \in Receipts /\ Receipt(m, "not_trusted") \in Receipts
  BY DEF Receipts
<1>4. ASSUME NEW r \in Receipts, r # Accepted
      PROVE  r.id \in Msgs /\ r.status \in {"delivered", "not_trusted"} /\ r = Receipt(r.id, r.status)
  BY <1>1, <1>4 DEF Receipts
<1>5. QED
  BY <1>1, <1>2, <1>3, <1>4

LEMMA SessionParts ==
    ASSUME NEW s \in Sessions
    PROVE  /\ s.alive \in BOOLEAN /\ s.up \subseteq Sides
           /\ s.toA \in Seq(Receipts) /\ s.toB \in Seq(Msgs)
           /\ Len(s.toA) \in Nat /\ DOMAIN s.toA = 1..Len(s.toA)
           /\ \A i \in 1..Len(s.toA) : s.toA[i] \in Receipts
           /\ s = [alive |-> s.alive, direct |-> s.direct, up |-> s.up, toA |-> s.toA, toB |-> s.toB]
BY DEF Sessions

LEMMA ChangedToA ==
    ASSUME NEW s \in Sessions, NEW toA \in Seq(Receipts)
    PROVE  /\ [s EXCEPT !.toA = toA] \in Sessions /\ [s EXCEPT !.toA = toA].toA = toA
           /\ [s EXCEPT !.toA = toA].alive = s.alive
BY DEF Sessions

LEMMA ChangedToB ==
    ASSUME NEW s \in Sessions, NEW toB \in Seq(Msgs)
    PROVE  /\ [s EXCEPT !.toB = toB] \in Sessions /\ [s EXCEPT !.toB = toB].toA = s.toA
           /\ [s EXCEPT !.toB = toB].alive = s.alive
BY DEF Sessions

LEMMA EndedSession ==
    ASSUME NEW s \in Sessions, NEW n
    PROVE  /\ LET e == [s EXCEPT !.up = @ \ {n}, !.toA = <<>>]
              IN  e \in Sessions /\ e.alive = s.alive /\ e.toA = <<>>
           /\ LET e == [s EXCEPT !.up = @ \ {n}, !.toB = <<>>]
              IN  e \in Sessions /\ e.alive = s.alive /\ e.toA = s.toA
           /\ LET e == [s EXCEPT !.alive = FALSE, !.up = @ \ {n}, !.toA = <<>>]
              IN  e \in Sessions /\ ~e.alive /\ e.toA = <<>>
           /\ LET e == [s EXCEPT !.alive = FALSE, !.up = @ \ {n}, !.toB = <<>>]
              IN  e \in Sessions /\ ~e.alive /\ e.toA = s.toA
<1> DEFINE nothing == <<>>
<1>1. nothing \in Seq(Receipts) /\ nothing \in Seq(Msgs)
  OBVIOUS
<1> HIDE DEF nothing
<1>2. /\ LET e == [s EXCEPT !.up = @ \ {n}, !.toA = nothing]
         IN  e \in Sessions /\ e.alive = s.alive /\ e.toA = nothing
      /\ LET e == [s EXCEPT !.up = @ \ {n}, !.toB = nothing]
         IN  e \in Sessions /\ e.alive = s.alive /\ e.toA = s.toA
  BY <1>1 DEF Sessions
<1>3. /\ LET e == [s EXCEPT !.alive = FALSE, !.up = @ \ {n}, !.toA = nothing]
         IN  e \in Sessions /\ ~e.alive /\ e.toA = nothing
      /\ LET e == [s EXCEPT !.alive = FALSE, !.up = @ \ {n}, !.toB = nothing]
         IN  e \in Sessions /\ ~e.alive /\ e.toA = s.toA
  BY <1>1 DEF Sessions
<1>4. QED
  BY <1>2, <1>3 DEF nothing

LEMMA WriteToA ==
    ASSUME NEW s \in Sessions, NEW r \in Receipts
    PROVE  /\ ToA(s, r) \in Sessions
           /\ ToA(s, r).alive = s.alive /\ ToA(s, r).up = s.up /\ ToA(s, r).toB = s.toB
           /\ ToA(s, r).toA = IF s.alive THEN Append(s.toA, r) ELSE s.toA
<1> DEFINE q == Append(s.toA, r)
<1>1. q \in Seq(Receipts)
  BY SessionParts
<1> HIDE DEF q
<1>2. CASE s.alive
  <2>1. ToA(s, r) = [s EXCEPT !.toA = q]
    BY <1>2 DEF ToA, q
  <2>2. [s EXCEPT !.toA = q] \in Sessions
    BY <1>1 DEF Sessions
  <2>3. QED
    BY <1>2, <2>1, <2>2 DEF q, Sessions
<1>3. CASE ~s.alive
  BY <1>3 DEF ToA
<1>4. QED
  BY <1>2, <1>3

LEMMA WriteToB ==
    ASSUME NEW s \in Sessions, NEW m \in Msgs
    PROVE  ToB(s, m) \in Sessions /\ ToB(s, m).alive = s.alive /\ ToB(s, m).toA = s.toA
<1> DEFINE q == Append(s.toB, m)
<1>1. q \in Seq(Msgs)
  BY SessionParts
<1> HIDE DEF q
<1>2. CASE s.alive
  <2>1. ToB(s, m) = [s EXCEPT !.toB = q]
    BY <1>2 DEF ToB, q
  <2>2. [s EXCEPT !.toB = q] \in Sessions
    BY <1>1 DEF Sessions
  <2>3. QED
    BY <1>2, <2>1, <2>2 DEF Sessions
<1>3. CASE ~s.alive
  BY <1>3 DEF ToB
<1>4. QED
  BY <1>2, <1>3

(* A receipt is added.                                                      *)
LEMMA AppendRight ==
    ASSUME NEW q \in Seq(Receipts), NEW works, NEW h, NEW held, Right(q, works, h, held)
    PROVE  /\ Right(Append(q, Accepted), works, h, held)
           /\ \A m \in Msgs : Right(Append(q, Receipt(m, "not_trusted")), works, h, held)
           /\ \A m \in Msgs : h = None => Right(Append(q, Receipt(m, "delivered")), TRUE, m, held)
<1> None \notin Msgs
  BY OutboxAssumption DEF Msgs
<1>1. ASSUME NEW r, r.status # "delivered"
      PROVE  Right(Append(q, r), works, h, held)
  <2> DEFINE q2 == Append(q, r)
  <2>1. /\ Len(q) \in Nat /\ Len(q2) = Len(q) + 1 /\ q2[Len(q2)] = r
        /\ \A i \in 1..Len(q) : q2[i] = q[i]
    OBVIOUS
  <2> HIDE DEF q2
  <2>2. ASSUME NEW i \in 1..Len(q2), NEW m \in Msgs, q2[i] = Receipt(m, "delivered"), m \notin held
        PROVE  works /\ m = h /\ \A j \in (i + 1)..Len(q2) : q2[j] # q2[i]
    <3>1. q2[i].status = "delivered"
      BY <2>2, KindsOfReceipt
    <3>2. i # Len(q2) /\ i \in 1..Len(q) /\ q[i] = q2[i]
      BY <1>1, <2>1, <3>1
    <3>3. works /\ m = h /\ \A j \in (i + 1)..Len(q) : q[j] # q[i]
      BY <2>2, <3>2 DEF Right
    <3>4. \A j \in (i + 1)..Len(q2) : q2[j] # q2[i]
      BY <1>1, <2>1, <3>1, <3>2, <3>3
    <3>5. QED
      BY <3>3, <3>4
  <2>3. QED
    BY <2>2 DEF Right, q2
<1>2. ASSUME NEW m \in Msgs, h = None
      PROVE  Right(Append(q, Receipt(m, "delivered")), TRUE, m, held)
  <2> DEFINE q2 == Append(q, Receipt(m, "delivered"))
  <2>1. /\ Len(q) \in Nat /\ Len(q2) = Len(q) + 1 /\ q2[Len(q2)] = Receipt(m, "delivered")
        /\ \A i \in 1..Len(q) : q2[i] = q[i]
    OBVIOUS
  <2> HIDE DEF q2
  <2>2. ASSUME NEW i \in 1..Len(q2), NEW k \in Msgs, q2[i] = Receipt(k, "delivered"), k \notin held
        PROVE  k = m /\ \A j \in (i + 1)..Len(q2) : q2[j] # q2[i]
    <3>1. i = Len(q2)
      BY <1>2, <2>1, <2>2 DEF Right
    <3>2. Receipt(k, "delivered").id = k /\ Receipt(m, "delivered").id = m
      BY KindsOfReceipt
    <3>3. QED
      BY <2>1, <2>2, <3>1, <3>2
  <2>3. QED
    BY <2>2 DEF Right, q2
<1>3. Right(Append(q, Accepted), works, h, held)
  BY <1>1, KindsOfReceipt
<1>4. \A m \in Msgs : Right(Append(q, Receipt(m, "not_trusted")), works, h, held)
  BY <1>1, KindsOfReceipt
<1>5. QED
  BY <1>2, <1>3, <1>4

(* A part of what is on its way, once every receipt in it is right.         *)
Settled(q, held) ==
    \A i \in 1..Len(q), m \in Msgs : q[i] = Receipt(m, "delivered") => m \in held

LEMMA SettledRight ==
    ASSUME NEW q, NEW held, Settled(q, held)
    PROVE  \A works, h : Right(q, works, h, held)
BY DEF Settled, Right

LEMMA AppendOrder ==
    ASSUME NEW q \in Seq(Receipts), InOrder(q), NEW r \in Receipts,
           r.status = "not_trusted" => \A i \in 1..Len(q) : q[i].status # "delivered"
    PROVE  /\ InOrder(Append(q, r))
           /\ Refuses(Append(q, r)) => Refuses(q) \/ r.status = "not_trusted"
<1> DEFINE q2 == Append(q, r)
<1>1. /\ Len(q) \in Nat /\ Len(q2) = Len(q) + 1 /\ q2[Len(q2)] = r
      /\ \A i \in 1..Len(q) : q2[i] = q[i]
  OBVIOUS
<1> HIDE DEF q2
<1>2. InOrder(q2)
  BY <1>1 DEF InOrder
<1>3. Refuses(q2) => Refuses(q) \/ r.status = "not_trusted"
  BY <1>1 DEF Refuses
<1>4. QED
  BY <1>2, <1>3 DEF q2

LEMMA NothingOnItsWay ==
    \A works, h, held : Right(<<>>, works, h, held) /\ InOrder(<<>>) /\ ~Refuses(<<>>)
BY DEF Right, InOrder, Refuses

(* The first receipt is taken.                                              *)
LEMMA TakeRight ==
    ASSUME NEW q \in Seq(Receipts), q # <<>>, NEW works, NEW h, NEW held,
           Right(q, works, h, held), InOrder(q)
    PROVE  /\ Right(Tail(q), works, h, held) /\ InOrder(Tail(q))
           /\ Refuses(Tail(q)) => Refuses(q) /\ Head(q).status # "delivered"
           /\ Head(q).status = "not_trusted" => Refuses(q)
<1> DEFINE q2 == Tail(q)
<1>1. /\ Len(q) \in Nat \ {0} /\ Len(q2) = Len(q) - 1 /\ Head(q) = q[1]
      /\ \A i \in 1..Len(q2) : q2[i] = q[i + 1] /\ i + 1 \in 1..Len(q)
  OBVIOUS
<1> HIDE DEF q2
<1>2. ASSUME NEW i \in 1..Len(q2), NEW m \in Msgs, q2[i] = Receipt(m, "delivered"), m \notin held
      PROVE  works /\ m = h /\ \A j \in (i + 1)..Len(q2) : q2[j] # q2[i]
  <2>1. i + 1 \in 1..Len(q) /\ q[i + 1] = q2[i]
    BY <1>1
  <2>2. works /\ m = h /\ \A j \in (i + 2)..Len(q) : q[j] # q[i + 1]
    BY <1>2, <2>1 DEF Right
  <2>3. ASSUME NEW j \in (i + 1)..Len(q2)
        PROVE  q2[j] # q2[i]
    BY <1>1, <2>1, <2>2
  <2>4. QED
    BY <2>2, <2>3
<1>3. InOrder(q2)
  <2>1. SUFFICES ASSUME NEW i \in 1..Len(q2), NEW j \in 1..Len(q2), i < j, q2[i].status = "delivered"
                 PROVE  q2[j].status # "not_trusted"
    BY DEF InOrder
  <2>2. i + 1 \in 1..Len(q) /\ j + 1 \in 1..Len(q) /\ i + 1 < j + 1
    BY <1>1, <2>1
  <2>3. q[i + 1] = q2[i] /\ q[j + 1] = q2[j]
    BY <1>1
  <2>4. QED
    BY <2>1, <2>2, <2>3 DEF InOrder
<1>4. /\ Refuses(q2) => Refuses(q) /\ Head(q).status # "delivered"
      /\ Head(q).status = "not_trusted" => Refuses(q)
  BY <1>1 DEF Refuses, InOrder
<1>5. QED
  BY <1>2, <1>3, <1>4 DEF Right, q2

(* The path breaks, but not in the middle of what b confirms.               *)
LEMMA CutRight ==
    ASSUME NEW q \in Seq(Receipts), NEW l \in 0..Len(q), NEW works, NEW held,
           Right(q, works, handling, held), InOrder(q),
           Waits(q) \in {0} \cup (l + 1)..Len(q)
    PROVE  /\ SubSeq(q, 1, l) \in Seq(Receipts)
           /\ Settled(SubSeq(q, 1, l), held) /\ InOrder(SubSeq(q, 1, l))
           /\ Refuses(SubSeq(q, 1, l)) => Refuses(q)
<1> DEFINE q2 == SubSeq(q, 1, l)
<1>1. /\ Len(q) \in Nat /\ q2 \in Seq(Receipts) /\ Len(q2) = l
      /\ \A i \in 1..l : q2[i] = q[i] /\ i \in 1..Len(q)
  <2>1. Len(q) \in Nat /\ \A i \in 1..l : q[i] \in Receipts
    OBVIOUS
  <2>2. QED
    BY <2>1, SubSeqProperties
<1> HIDE DEF q2
<1>2. ASSUME NEW i \in 1..l, NEW m \in Msgs, q[i] = Receipt(m, "delivered"), m \notin held
      PROVE  FALSE
  <2>1. m = handling /\ \A j \in (i + 1)..Len(q) : q[j] # q[i]
    BY <1>1, <1>2 DEF Right
  <2>2. Waits(q) = i
    BY <1>1, <1>2, <2>1, WaitsAtLast
  <2>3. QED
    BY <1>1, <2>2
<1>3. Settled(q2, held)
  BY <1>1, <1>2 DEF Settled
<1>4. InOrder(q2) /\ (Refuses(q2) => Refuses(q))
  BY <1>1 DEF InOrder, Refuses
<1>5. QED
  BY <1>1, <1>3, <1>4 DEF q2

------------------------------------------------------------------------------
(* The steps.                                                               *)

LEMMA InitIInv == Init => IInv
<1> SUFFICES ASSUME Init PROVE IInv
  OBVIOUS
<1>1. TypeInv
  BY DEF Init, TypeInv, Statuses, Sessions
<1>2. ShownInv /\ StatusInv /\ TrustInv
  BY DEF Init, ShownInv, StatusInv, TrustInv, Held, IsInjective
<1>3. ReceiptInv /\ OrderInv
  BY NothingOnItsWay DEF Init, ReceiptInv, OrderInv
<1>4. QED
  BY <1>1, <1>2, <1>3 DEF IInv

(* A step of the session alone, which adds no receipt of a text.            *)
LEMMA SessionStep ==
    ASSUME IInv, session' \in Sessions, handling' = handling, UNCHANGED <<messages, onDiskB, had, dropped>>,
           status' = status, onDiskA' = onDiskA, trusts => trusts',
           flush' \subseteq Msgs, \A m \in flush' : status[m] # "delivered",
           \/ session'.alive = session.alive /\ session'.toA \in {session.toA, Append(session.toA, Accepted)}
           \/ session'.toA = <<>>
    PROVE  IInv'
<1> USE DEF IInv
<1>1. TypeInv'
  BY DEF TypeInv
<1>2. ShownInv' /\ StatusInv' /\ TrustInv'
  BY DEF ShownInv, StatusInv, TrustInv, Held
<1>3. ReceiptInv' /\ OrderInv'
  <2>1. /\ InOrder(session.toA) /\ Right(session.toA, session.alive, handling, Held)
        /\ session.toA \in Seq(Receipts)
    BY SessionParts DEF ReceiptInv, OrderInv, TypeInv
  <2>2. CASE session'.toA = <<>>
    BY <2>2, NothingOnItsWay DEF ReceiptInv, OrderInv
  <2>3. CASE session'.alive = session.alive /\ session'.toA = session.toA
    BY <2>3 DEF ReceiptInv, OrderInv, Held
  <2>4. CASE session'.alive = session.alive /\ session'.toA = Append(session.toA, Accepted)
    <3>1. Right(session'.toA, session'.alive, handling, Held)
      BY <2>1, <2>4, AppendRight
    <3>2. InOrder(session'.toA) /\ (Refuses(session'.toA) => Refuses(session.toA))
      BY <2>1, <2>4, AppendOrder, KindsOfReceipt
    <3>3. QED
      BY <3>1, <3>2 DEF ReceiptInv, OrderInv, Held
  <2>5. QED
    BY <2>2, <2>3, <2>4
<1>4. QED
  BY <1>1, <1>2, <1>3

LEMMA ConnectionStep ==
    ASSUME IInv, NEW direct \in BOOLEAN, NewConnection(direct)
    PROVE  IInv'
<1> USE DEF IInv
<1>1. /\ session' = [alive |-> TRUE, direct |-> direct, up |-> {}, toA |-> <<>>, toB |-> <<>>]
      /\ flush' = {} /\ handling' = None
      /\ UNCHANGED <<status, onDiskA, messages, onDiskB, trusts, had, dropped>>
  BY DEF NewConnection
<1>2. TypeInv'
  BY <1>1 DEF TypeInv, Sessions
<1>3. ShownInv' /\ StatusInv' /\ TrustInv'
  BY <1>1 DEF ShownInv, StatusInv, TrustInv, Held
<1>4. ReceiptInv' /\ OrderInv'
  BY <1>1, NothingOnItsWay DEF ReceiptInv, OrderInv
<1>5. QED
  BY <1>2, <1>3, <1>4

(* A connection ends and b stops what it was handling, which counts as      *)
(* dropped if the receipt is on its way.                                    *)
LEMMA EndStep ==
    ASSUME IInv, session' \in Sessions, ~session'.alive, session'.toA = session.toA,
           handling' = None, UNCHANGED <<status, onDiskA, flush, onDiskB, trusts, had>>,
           messages' \in {messages, onDiskB},
           session.alive \/ dropped' # dropped => dropped' = dropped \cup ({handling} \ {None}),
           dropped \subseteq dropped'
    PROVE  IInv'
<1> USE DEF IInv
<1>1. TypeInv'
  BY DEF TypeInv
<1>2. ShownInv' /\ StatusInv' /\ TrustInv'
  BY DEF ShownInv, StatusInv, TrustInv, Held
<1>3. Settled(session.toA, Held')
  <2>1. ASSUME NEW i \in 1..Len(session.toA), NEW m \in Msgs,
               session.toA[i] = Receipt(m, "delivered"), m \notin Held
        PROVE  m \in Held'
    <3>1. session.alive /\ m = handling
      BY <2>1 DEF ReceiptInv, Right
    <3>2. m # None
      BY OutboxAssumption DEF Msgs
    <3>3. QED
      BY <3>1, <3>2 DEF Held
  <2>2. Held \subseteq Held'
    BY DEF Held
  <2>3. QED
    BY <2>1, <2>2 DEF Settled
<1>4. ReceiptInv'
  BY <1>3, SettledRight DEF ReceiptInv
<1>5. OrderInv'
  BY DEF OrderInv
<1>6. QED
  BY <1>1, <1>2, <1>4, <1>5

(* Statuses change, none to delivered.                                      *)
LEMMA StatusStep ==
    ASSUME IInv, session' \in Sessions, session'.alive = session.alive, session'.toA = session.toA,
           status' \in [Msgs -> Statuses], flush' \subseteq flush,
           \A m \in Msgs : status'[m] = "delivered" => status[m] = "delivered",
           UNCHANGED <<onDiskA, messages, onDiskB, handling, trusts, had, dropped>>
    PROVE  IInv'
<1> USE DEF IInv
<1>1. TypeInv'
  BY DEF TypeInv
<1>2. ShownInv' /\ StatusInv' /\ TrustInv'
  BY DEF ShownInv, StatusInv, TrustInv, Held
<1>3. ReceiptInv'
  BY DEF ReceiptInv, Held
<1>4. OrderInv'
  BY DEF OrderInv, TypeInv
<1>5. QED
  BY <1>1, <1>2, <1>3, <1>4

LEMMA TransmitStep ==
    ASSUME TypeInv, NEW st \in [Msgs -> Statuses], NEW m \in Msgs, Transmit(st, m) \/ CannotTransmit(st)
    PROVE  /\ session' \in Sessions /\ session'.alive = session.alive /\ session'.toA = session.toA
           /\ status' \in [Msgs -> Statuses]
           /\ \A k \in Msgs : status'[k] = "delivered" => st[k] = "delivered"
           /\ \A k \in Msgs : k # m => status'[k] = st[k]
<1>1. CASE Transmit(st, m)
  <2>1. status' = st \/ status' = [st EXCEPT ![m] = "sent"]
    BY <1>1 DEF Transmit, Transmitted
  <2>2. session' = ToB(session, m)
    BY <1>1 DEF Transmit
  <2>3. QED
    BY <2>1, <2>2, WriteToB DEF TypeInv, Statuses, Waiting
<1>2. CASE CannotTransmit(st)
  BY <1>2 DEF CannotTransmit, TypeInv
<1>3. QED
  BY <1>1, <1>2

LEMMA SendStep ==
    ASSUME IInv, NEW m \in Msgs, SendMessage(m)
    PROVE  IInv' /\ \A k \in Msgs : status[k] = "delivered" => status'[k] = "delivered"
<1> DEFINE st == [status EXCEPT ![m] = "pending"]
<1>1. st \in [Msgs -> Statuses] /\ status[m] = "new" /\ \A k \in Msgs : k # m => st[k] = status[k]
  BY DEF IInv, TypeInv, Statuses, Waiting, SendMessage
<1>2. st[m] = "pending"
  BY DEF IInv, TypeInv
<1>3. Transmit(st, m) \/ CannotTransmit(st)
  BY DEF SendMessage
<1> HIDE DEF st
<1>4. /\ session' \in Sessions /\ session'.alive = session.alive /\ session'.toA = session.toA
      /\ status' \in [Msgs -> Statuses]
      /\ \A k \in Msgs : status'[k] = "delivered" => st[k] = "delivered"
      /\ \A k \in Msgs : k # m => status'[k] = st[k]
  BY <1>1, <1>3, TransmitStep DEF IInv
<1>5. IInv'
  BY <1>1, <1>2, <1>4, StatusStep DEF SendMessage, b_vars
<1>6. QED
  BY <1>1, <1>4, <1>5

LEMMA FlushStep ==
    ASSUME IInv, FlushNext
    PROVE  IInv' /\ \A k \in Msgs : status[k] = "delivered" => status'[k] = "delivered"
<1>1. PICK m \in flush : flush' = flush \ {m} /\ (Transmit(status, m) \/ CannotTransmit(status))
  BY DEF FlushNext
<1>2. m \in Msgs /\ status[m] # "delivered" /\ status \in [Msgs -> Statuses]
  BY DEF IInv, TypeInv, OrderInv
<1>3. /\ session' \in Sessions /\ session'.alive = session.alive /\ session'.toA = session.toA
      /\ status' \in [Msgs -> Statuses]
      /\ \A k \in Msgs : status'[k] = "delivered" => status[k] = "delivered"
      /\ \A k \in Msgs : k # m => status'[k] = status[k]
  BY <1>1, <1>2, TransmitStep DEF IInv
<1>4. IInv'
  BY <1>1, <1>3, StatusStep DEF FlushNext, b_vars
<1>5. QED
  BY <1>2, <1>3, <1>4

(* A receipt of a text: what it says holds, and no refusal is behind it.    *)
LEMMA ReceiptStep ==
    ASSUME IInv, HandleReceipt
    PROVE  IInv' /\ \A k \in Msgs : status[k] = "delivered" => status'[k] = "delivered"
<1> USE DEF IInv
<1> DEFINE q == session.toA
           r == Head(q)
<1>1. /\ q \in Seq(Receipts) /\ q # <<>> /\ flush = {}
      /\ session.alive => Waits(q) # 1
      /\ session' = [session EXCEPT !.toA = Tail(q)] /\ session \in Sessions
      /\ UNCHANGED <<onDiskA, messages, onDiskB, handling, trusts, had, dropped>>
  BY DEF HandleReceipt, ReadLoopFree, TypeInv, Sessions, b_vars
<1>2. session' \in Sessions /\ session'.alive = session.alive /\ session'.toA = Tail(q)
  <2>1. Tail(q) \in Seq(Receipts)
    BY <1>1
  <2>2. QED
    BY <1>1, <2>1, ChangedToA
<1>3. r \in Receipts
  BY <1>1
<1>4. /\ Right(Tail(q), session.alive, handling, Held) /\ InOrder(Tail(q))
      /\ Refuses(Tail(q)) => Refuses(q) /\ r.status # "delivered"
      /\ r.status = "not_trusted" => Refuses(q)
  BY <1>1, TakeRight DEF ReceiptInv, OrderInv
<1>5. ReceiptInv' /\ InOrder(session'.toA)
  BY <1>1, <1>2, <1>4 DEF ReceiptInv, Held
<1>6. ShownInv' /\ TrustInv'
  BY <1>1 DEF ShownInv, TrustInv, Held
<1>7. CASE r = Accepted
  <2>1. status' = status /\ flush' = Owed
    BY <1>7 DEF HandleReceipt
  <2>2. TypeInv'
    BY <1>1, <1>2, <2>1 DEF TypeInv, Owed
  <2>3. StatusInv'
    BY <1>1, <2>1 DEF StatusInv, Held
  <2>4. OrderInv'
    BY <1>2, <1>4, <1>5, <2>1 DEF OrderInv, Owed, Waiting
  <2>5. QED
    BY <1>5, <1>6, <2>1, <2>2, <2>3, <2>4
<1>8. CASE r # Accepted
  <2>1. /\ r.id \in Msgs /\ r.status \in {"delivered", "not_trusted"} /\ r = Receipt(r.id, r.status)
    BY <1>3, <1>8, KindsOfReceipt
  <2>2. flush' = {} /\ status' \in {status, [status EXCEPT ![r.id] = r.status]}
    BY <1>1, <1>8 DEF HandleReceipt
  <2>3. TypeInv'
    BY <1>1, <1>2, <2>1, <2>2 DEF TypeInv, Statuses, Waiting
  <2>4. r.status = "delivered" => r.id \in Held
    <3>1. SUFFICES ASSUME r.status = "delivered", r.id \notin Held PROVE FALSE
      OBVIOUS
    <3>2. 1 \in 1..Len(q) /\ q[1] = r /\ Len(q) \in Nat
      BY <1>1
    <3>3. session.alive /\ r.id = handling /\ \A j \in 2..Len(q) : q[j] # q[1]
      BY <2>1, <3>1, <3>2 DEF ReceiptInv, Right
    <3>4. Waits(q) = 1
      BY <2>1, <3>1, <3>2, <3>3, WaitsAtLast
    <3>5. QED
      BY <1>1, <3>3, <3>4
  <2>5. StatusInv'
    BY <1>1, <2>1, <2>2, <2>4 DEF StatusInv, Held, TypeInv
  <2>6. (\E m \in Msgs : status[m] = "delivered") => r.status # "not_trusted"
    BY <1>4 DEF OrderInv
  <2>7. OrderInv'
    BY <1>2, <1>4, <1>5, <2>1, <2>2 DEF OrderInv, TypeInv
  <2>8. \A k \in Msgs : status[k] = "delivered" => status'[k] = "delivered"
    BY <2>1, <2>2, <2>6 DEF TypeInv
  <2>9. QED
    BY <1>5, <1>6, <2>3, <2>5, <2>7, <2>8
<1>9. QED
  BY <1>7, <1>8

(* b answers.  Nothing else is handled meanwhile, so that all receipts on   *)
(* their way are right already.                                             *)
LEMMA TextStep ==
    ASSUME IInv, HandleText
    PROVE  IInv'
<1> USE DEF IInv
<1> DEFINE m == Head(session.toB)
           s == [session EXCEPT !.toB = Tail(session.toB)]
           r == Receipt(m, Answer)
<1>1. /\ session.toB \in Seq(Msgs) /\ session.toB # <<>> /\ handling = None
      /\ session' = ToA(s, r) /\ handling' = IF trusts THEN m ELSE None
      /\ session \in Sessions
      /\ UNCHANGED <<status, onDiskA, flush, messages, onDiskB, trusts, had, dropped>>
  BY DEF HandleText, TypeInv, Sessions, a_vars
<1>2. m \in Msgs /\ Tail(session.toB) \in Seq(Msgs)
  BY <1>1
<1>3. r \in Receipts /\ r.status = Answer
  BY <1>2, KindsOfReceipt DEF Answer
<1>4. s \in Sessions /\ s.alive = session.alive /\ s.toA = session.toA
  BY <1>1, <1>2, ChangedToB
<1>5. /\ session' \in Sessions /\ session'.alive = session.alive
      /\ session'.toA = IF session.alive THEN Append(session.toA, r) ELSE session.toA
  <2> HIDE DEF s, r
  <2>1. QED
    BY <1>1, <1>3, <1>4, WriteToA
<1>6. TypeInv'
  BY <1>1, <1>2, <1>5 DEF TypeInv
<1>7. ShownInv' /\ StatusInv'
  BY <1>1 DEF ShownInv, StatusInv, Held
<1>8. TrustInv'
  BY <1>1 DEF TrustInv, Held
<1>9. session.toA \in Seq(Receipts) /\ Right(session.toA, session.alive, None, Held) /\ InOrder(session.toA)
  BY <1>1 DEF ReceiptInv, OrderInv, Sessions
<1>10. ReceiptInv'
  <2>1. CASE ~session.alive
    <3>1. Settled(session.toA, Held)
      BY <1>9, <2>1 DEF Right, Settled
    <3>2. QED
      BY <1>1, <1>5, <2>1, <3>1, SettledRight DEF ReceiptInv, Held
  <2>2. CASE session.alive /\ trusts
    <3>1. Right(Append(session.toA, Receipt(m, "delivered")), TRUE, m, Held)
      BY <1>2, <1>9, AppendRight
    <3>2. QED
      BY <1>1, <1>5, <2>2, <3>1 DEF ReceiptInv, Held, Answer
  <2>3. CASE session.alive /\ ~trusts
    <3>1. Right(Append(session.toA, Receipt(m, "not_trusted")), session.alive, None, Held)
      BY <1>2, <1>9, AppendRight
    <3>2. QED
      BY <1>1, <1>5, <2>3, <3>1 DEF ReceiptInv, Held, Answer
  <2>4. QED
    BY <2>1, <2>2, <2>3
<1>11. OrderInv'
  <2>1. CASE ~session.alive
    BY <1>1, <1>5, <2>1 DEF OrderInv
  <2>2. CASE session.alive /\ trusts
    <3>1. InOrder(session'.toA) /\ (Refuses(session'.toA) => Refuses(session.toA))
      BY <1>3, <1>5, <1>9, <2>2, AppendOrder DEF Answer
    <3>2. QED
      BY <1>1, <3>1 DEF OrderInv
  <2>3. CASE session.alive /\ ~trusts
    <3>1. Held = {}
      BY <2>3 DEF TrustInv
    <3>2. \A k \in Msgs : status[k] # "delivered"
      BY <3>1 DEF StatusInv
    <3>3. \A i \in 1..Len(session.toA) : session.toA[i].status # "delivered"
      <4>1. ASSUME NEW i \in 1..Len(session.toA), session.toA[i].status = "delivered"
            PROVE  FALSE
        <5>1. session.toA[i] \in Receipts
          BY <1>9
        <5>2. PICK k \in Msgs : session.toA[i] = Receipt(k, "delivered")
          BY <4>1, <5>1, KindsOfReceipt
        <5>3. k = None
          BY <1>9, <3>1, <5>2 DEF Right
        <5>4. QED
          BY <5>3, OutboxAssumption DEF Msgs
      <4>2. QED
        BY <4>1
    <3>4. InOrder(session'.toA)
      BY <1>3, <1>5, <1>9, <2>3, <3>3, AppendOrder
    <3>5. QED
      BY <1>1, <3>2, <3>4 DEF OrderInv
  <2>4. QED
    BY <2>1, <2>2, <2>3
<1>12. QED
  BY <1>6, <1>7, <1>8, <1>10, <1>11

LEMMA LinkUpStep ==
    ASSUME IInv, NEW n \in Sides, LinkUp(n)
    PROVE  IInv'
<1> DEFINE s == [session EXCEPT !.up = @ \cup {n}]
<1>1. s \in Sessions /\ s.alive = session.alive /\ s.toA = session.toA
  BY DEF IInv, TypeInv, Sessions
<1>2. session' \in {s, ToA(s, Accepted)}
  BY DEF LinkUp
<1> HIDE DEF s
<1>3. /\ session' \in Sessions /\ session'.alive = session.alive
      /\ session'.toA \in {session.toA, Append(session.toA, Accepted)}
  <2>1. CASE session' = s
    BY <1>1, <2>1
  <2>2. CASE session' = ToA(s, Accepted)
    <3>1. /\ ToA(s, Accepted) \in Sessions /\ ToA(s, Accepted).alive = s.alive
          /\ ToA(s, Accepted).toA = IF s.alive THEN Append(s.toA, Accepted) ELSE s.toA
      BY <1>1, WriteToA, KindsOfReceipt
    <3>2. QED
      BY <1>1, <2>2, <3>1
  <2>3. QED
    BY <1>2, <2>1, <2>2
<1>4. flush' \subseteq Msgs /\ \A m \in flush' : status[m] # "delivered"
  BY DEF LinkUp, Owed, Waiting, IInv, TypeInv, OrderInv
<1>5. QED
  BY <1>3, <1>4, SessionStep DEF LinkUp, b_vars

LEMMA AcceptStep ==
    ASSUME IInv, Accept
    PROVE  IInv'
<1>1. /\ session' \in Sessions /\ session'.alive = session.alive
      /\ session'.toA \in {session.toA, Append(session.toA, Accepted)}
  BY WriteToA, KindsOfReceipt DEF Accept, IInv, TypeInv
<1>2. flush' = flush /\ flush \subseteq Msgs /\ \A m \in flush : status[m] # "delivered"
  BY DEF Accept, a_vars, IInv, TypeInv, OrderInv
<1>3. QED
  BY <1>1, <1>2, SessionStep DEF Accept, a_vars

LEMMA CutStep ==
    ASSUME IInv, Cut
    PROVE  IInv'
<1> USE DEF IInv
<1>1. PICK k \in 0..Len(session.toB), l \in 0..Len(session.toA) :
         /\ Waits(session.toA) \in {0} \cup (l + 1)..Len(session.toA)
         /\ session' = [session EXCEPT !.alive = FALSE, !.toB = SubSeq(session.toB, 1, k),
                                       !.toA = SubSeq(session.toA, 1, l)]
  BY DEF Cut
<1> DEFINE qa == SubSeq(session.toA, 1, l)
           qb == SubSeq(session.toB, 1, k)
<1>2. session \in Sessions /\ session.toA \in Seq(Receipts) /\ session.toB \in Seq(Msgs)
  BY SessionParts DEF TypeInv
<1>3. qb \in Seq(Msgs)
  <2>1. Len(session.toB) \in Nat /\ \A i \in 1..k : session.toB[i] \in Msgs
    BY <1>2
  <2>2. QED
    BY <1>2, <2>1, SubSeqProperties
<1>4. /\ qa \in Seq(Receipts) /\ Settled(qa, Held) /\ InOrder(qa) /\ (Refuses(qa) => Refuses(session.toA))
  BY <1>1, <1>2, CutRight DEF ReceiptInv, OrderInv
<1>5. session' = [session EXCEPT !.alive = FALSE, !.toB = qb, !.toA = qa]
  BY <1>1
<1>6. UNCHANGED <<status, onDiskA, flush, messages, onDiskB, handling, trusts, had, dropped>>
  BY DEF Cut, a_vars, b_vars
<1> HIDE DEF qa, qb
<1>7. session' \in Sessions /\ session'.toA = qa
  BY <1>2, <1>3, <1>4, <1>5 DEF Sessions
<1>8. TypeInv' /\ ShownInv' /\ StatusInv' /\ TrustInv'
  BY <1>6, <1>7 DEF TypeInv, ShownInv, StatusInv, TrustInv, Held
<1>9. ReceiptInv'
  BY <1>4, <1>6, <1>7, SettledRight DEF ReceiptInv, Held
<1>10. OrderInv'
  BY <1>4, <1>6, <1>7 DEF OrderInv
<1>11. QED
  BY <1>8, <1>9, <1>10

LEMMA DownStep ==
    ASSUME IInv, NEW n \in Sides, Down(n)
    PROVE  IInv'
<1>1. session \in Sessions /\ ~session.alive
  BY DEF Down, IInv, TypeInv
<1>2. CASE n = "a"
  <2>0. session' = [session EXCEPT !.up = @ \ {n}, !.toA = <<>>]
    BY <1>2 DEF Down
  <2>1. session' \in Sessions /\ session'.toA = <<>>
    BY <1>1, <2>0, EndedSession
  <2>2. QED
    BY <1>2, <2>1, SessionStep DEF Down
<1>3. CASE n = "b"
  <2>0. session' = [session EXCEPT !.up = @ \ {n}, !.toB = <<>>]
    BY <1>3 DEF Down
  <2>1. session' \in Sessions /\ ~session'.alive /\ session'.toA = session.toA
    BY <1>1, <2>0, EndedSession
  <2>2. flush' = flush /\ handling' = None
    BY <1>3 DEF Down
  <2>3. QED
    BY <1>1, <2>1, <2>2, EndStep DEF Down
<1>4. QED
  BY <1>2, <1>3 DEF Sides

LEMMA CloseStep ==
    ASSUME IInv, Close
    PROVE  IInv'
<1>1. session' \in Sessions /\ ~session'.alive /\ session'.toA = session.toA
  BY EndedSession DEF Close, IInv, TypeInv
<1>2. QED
  BY <1>1, EndStep DEF Close, HandlerEnds, a_vars

LEMMA RestartBStep ==
    ASSUME IInv, RestartB
    PROVE  IInv'
<1>1. session' \in Sessions /\ ~session'.alive /\ session'.toA = session.toA
  BY EndedSession DEF RestartB, IInv, TypeInv
<1>2. QED
  BY <1>1, EndStep DEF RestartB, HandlerEnds, a_vars

(* a forgets what it wrote, and holds for delivered what its file says.     *)
LEMMA RestartAStep ==
    ASSUME IInv, RestartA
    PROVE  IInv'
<1> USE DEF IInv
<1>1. session' \in Sessions /\ session'.toA = <<>>
  BY EndedSession DEF RestartA, TypeInv
<1>2. /\ status' \in [Msgs -> Statuses] /\ flush' = {}
      /\ \A m \in Msgs : status'[m] = "delivered" => onDiskA[m] = "delivered"
  BY DEF RestartA, Loaded, TypeInv, Statuses
<1>3. UNCHANGED <<onDiskA, messages, onDiskB, handling, trusts, had, dropped>>
  BY DEF RestartA, b_vars
<1>4. TypeInv' /\ ShownInv' /\ StatusInv' /\ TrustInv'
  BY <1>1, <1>2, <1>3 DEF TypeInv, ShownInv, StatusInv, TrustInv, Held
<1>5. ReceiptInv' /\ OrderInv'
  BY <1>1, <1>2, NothingOnItsWay DEF ReceiptInv, OrderInv
<1>6. QED
  BY <1>4, <1>5

LEMMA SaveStep ==
    ASSUME IInv, NEW n \in Sides, Save(n)
    PROVE  IInv'
<1> USE DEF IInv
<1>1. UNCHANGED <<status, flush, messages, handling, trusts, had, dropped, session>>
  BY DEF Save
<1>2. onDiskA' \in {onDiskA, status} /\ onDiskB' \in {onDiskB, messages}
  BY DEF Save
<1>3. TypeInv'
  BY <1>1, <1>2 DEF TypeInv
<1>4. ShownInv' /\ StatusInv' /\ TrustInv'
  BY <1>1, <1>2 DEF ShownInv, StatusInv, TrustInv, Held
<1>5. ReceiptInv' /\ OrderInv'
  BY <1>1 DEF ReceiptInv, OrderInv, Held
<1>6. QED
  BY <1>3, <1>4, <1>5

LEMMA DeleteAtAStep ==
    ASSUME IInv, NEW m \in Msgs, DeleteAtA(m)
    PROVE  IInv' /\ status' = [status EXCEPT ![m] = "gone"]
<1>1. /\ status' \in [Msgs -> Statuses] /\ status' = [status EXCEPT ![m] = "gone"]
      /\ \A k \in Msgs : status'[k] = "delivered" => status[k] = "delivered"
  BY DEF DeleteAtA, IInv, TypeInv, Statuses
<1>2. session' = session /\ session \in Sessions /\ flush' = flush
  BY DEF DeleteAtA, a_vars, b_vars, IInv, TypeInv
<1>3. QED
  BY <1>1, <1>2, StatusStep DEF DeleteAtA, b_vars

LEMMA DeleteAtBStep ==
    ASSUME IInv, NEW m \in Msgs, DeleteAtB(m)
    PROVE  IInv'
<1> USE DEF IInv
<1>1. PICK i \in DOMAIN messages : messages' = RemoveAt(messages, i)
  BY DEF DeleteAtB
<1>2. UNCHANGED <<status, onDiskA, flush, onDiskB, handling, trusts, had, dropped, session>>
  BY DEF DeleteAtB, a_vars
<1>3. messages \in Seq(Msgs) /\ Len(messages) \in Nat /\ DOMAIN messages = 1..Len(messages)
  BY DEF TypeInv
<1>4. /\ messages' \in Seq(Msgs) /\ Len(messages') = Len(messages) - 1
      /\ \A j \in 1..(Len(messages) - 1) : messages'[j] = IF j < i THEN messages[j] ELSE messages[j + 1]
  BY <1>1, <1>3, RemoveOne
<1>5. DOMAIN messages' = 1..(Len(messages) - 1)
  BY <1>4
<1>6. IsInjective(messages')
  <2>1. SUFFICES ASSUME NEW j \in 1..(Len(messages) - 1), NEW k \in 1..(Len(messages) - 1),
                        messages'[j] = messages'[k]
                 PROVE  j = k
    BY <1>5 DEF IsInjective
  <2> DEFINE from(x) == IF x < i THEN x ELSE x + 1
  <2>2. /\ from(j) \in DOMAIN messages /\ from(k) \in DOMAIN messages
        /\ messages'[j] = messages[from(j)] /\ messages'[k] = messages[from(k)]
    BY <1>3, <1>4
  <2>3. from(j) = from(k)
    BY <2>1, <2>2 DEF ShownInv, IsInjective
  <2>4. QED
    BY <1>3, <2>3
<1>7. \A j \in DOMAIN messages' : messages'[j] \in had
  BY <1>3, <1>4, <1>5 DEF ShownInv
<1>8. ShownInv'
  BY <1>2, <1>6, <1>7 DEF ShownInv
<1>9. TypeInv' /\ StatusInv' /\ ReceiptInv' /\ TrustInv' /\ OrderInv'
  BY <1>2, <1>4 DEF TypeInv, StatusInv, ReceiptInv, TrustInv, OrderInv, Held
<1>10. QED
  BY <1>8, <1>9

(* What b handled it has from now on: every receipt on its way is right.    *)
LEMMA StoreStep ==
    ASSUME IInv, Store
    PROVE  IInv'
<1> USE DEF IInv
<1>1. /\ handling \in Msgs /\ handling' = None
      /\ UNCHANGED <<status, onDiskA, flush, onDiskB, trusts, dropped, session>>
  BY DEF Store, TypeInv, a_vars
<1>2. messages \in Seq(Msgs) /\ DOMAIN messages = 1..Len(messages) /\ Len(messages) \in Nat
  BY DEF TypeInv
<1>3. ASSUME Known(handling)
      PROVE  TypeInv' /\ ShownInv' /\ handling \in Held' /\ Held \subseteq Held'
  <2>1. messages' = messages /\ had' = had
    BY <1>3 DEF Store
  <2>2. handling \in had
    BY <1>2, <1>3 DEF Known, ToSet, ShownInv
  <2>3. TypeInv' /\ ShownInv'
    BY <1>1, <2>1 DEF TypeInv, ShownInv
  <2>4. handling \in Held' /\ Held \subseteq Held'
    BY <1>1, <2>1, <2>2 DEF Held
  <2>5. QED
    BY <2>3, <2>4
<1>4. ASSUME ~Known(handling)
      PROVE  TypeInv' /\ ShownInv' /\ handling \in Held' /\ Held \subseteq Held'
  <2>1. messages' = Append(messages, handling) /\ had' = had \cup {handling}
    BY <1>4 DEF Store
  <2>2. handling \in Held' /\ Held \subseteq Held'
    BY <1>1, <2>1 DEF Held
  <2>3. TypeInv'
    BY <1>1, <2>1 DEF TypeInv
  <2>4. \A i \in 1..Len(messages) : messages[i] # handling
    BY <1>2, <1>4 DEF Known, ToSet
  <2>5. /\ DOMAIN messages' = 1..(Len(messages) + 1) /\ messages'[Len(messages) + 1] = handling
        /\ \A i \in 1..Len(messages) : messages'[i] = messages[i]
    BY <1>1, <1>2, <2>1
  <2>6. ShownInv'
    BY <1>1, <1>2, <2>1, <2>4, <2>5 DEF ShownInv, IsInjective
  <2>7. QED
    BY <2>2, <2>3, <2>6
<1>5. TypeInv' /\ ShownInv' /\ handling \in Held' /\ Held \subseteq Held'
  BY <1>3, <1>4
<1>6. StatusInv' /\ OrderInv'
  BY <1>1, <1>5 DEF StatusInv, OrderInv
<1>7. TrustInv'
  BY <1>1, OutboxAssumption DEF TrustInv, Msgs
<1>8. Settled(session.toA, Held')
  BY <1>5 DEF ReceiptInv, Right, Settled
<1>9. ReceiptInv'
  BY <1>1, <1>8, SettledRight DEF ReceiptInv
<1>10. QED
  BY <1>5, <1>6, <1>7, <1>9

LEMMA NextStep ==
    ASSUME IInv, [Next]_vars
    PROVE  IInv'
<1>1. CASE Connect \/ GoDirect
  BY <1>1, ConnectionStep DEF Connect, GoDirect
<1>2. CASE Cut \/ Close
  BY <1>2, CutStep, CloseStep
<1>3. CASE \E n \in Sides : LinkUp(n) \/ Down(n) \/ Save(n)
  BY <1>3, LinkUpStep, DownStep, SaveStep
<1>4. CASE \E m \in Msgs : SendMessage(m) \/ DeleteAtA(m) \/ DeleteAtB(m)
  BY <1>4, SendStep, DeleteAtAStep, DeleteAtBStep
<1>5. CASE FlushNext \/ HandleReceipt \/ HandleText \/ Store \/ Accept
  BY <1>5, FlushStep, ReceiptStep, TextStep, StoreStep, AcceptStep
<1>6. CASE RestartA \/ RestartB
  BY <1>6, RestartAStep, RestartBStep
<1>7. CASE UNCHANGED vars
  BY <1>7 DEF vars, a_vars, b_vars, IInv, TypeInv, ShownInv, StatusInv, ReceiptInv, TrustInv, OrderInv, Held
<1>8. QED
  BY <1>1, <1>2, <1>3, <1>4, <1>5, <1>6, <1>7 DEF Next

LEMMA Invariant == Spec => []IInv
BY InitIInv, NextStep, PTL DEF Spec

------------------------------------------------------------------------------
(* However often a message is resent, after lost receipts, cut connections  *)
(* and restarts of b from its file, b shows it once (_handle_text).         *)
THEOREM ShownOnceTheorem == Spec => []ShownOnce
<1>1. IInv => ShownOnce
  BY DEF IInv, ShownInv, ShownOnce
<1>2. QED
  BY <1>1, Invariant, PTL

(* What a shows as delivered was stored at b, or its handler at b was ended *)
(* by b itself after the receipt (_handle_text, _handle_receipt).           *)
THEOREM DeliveredIsThereTheorem == Spec => []DeliveredIsThere
<1>1. IInv => DeliveredIsThere
  BY DEF IInv, StatusInv, Held, DeliveredIsThere
<1>2. QED
  BY <1>1, Invariant, PTL

(* No resend, refusal or deletion turns a delivered message back into a     *)
(* waiting one (flush_outbox, _transmit_text, _handle_receipt).             *)
THEOREM DeliveredStaysTheorem == Spec => DeliveredStays
<1>1. ASSUME IInv, [Next]_vars, NEW m \in Msgs, status[m] = "delivered", status'[m] \in Waiting
      PROVE  RestartA
  <2>1. status'[m] # "delivered"
    BY <1>1 DEF Waiting
  <2>2. status' # status
    BY <1>1, <2>1
  <2>3. CASE \E k \in Msgs : SendMessage(k) \/ DeleteAtA(k)
    <3>1. \A k \in Msgs : ~SendMessage(k)
      BY <1>1, <2>1, SendStep
    <3>2. PICK k \in Msgs : status' = [status EXCEPT ![k] = "gone"]
      BY <1>1, <2>3, <3>1, DeleteAtAStep
    <3>3. QED
      BY <1>1, <3>2 DEF IInv, TypeInv, Waiting
  <2>4. CASE FlushNext \/ HandleReceipt
    BY <1>1, <2>1, <2>4, FlushStep, ReceiptStep
  <2>5. QED
    BY <1>1, <2>2, <2>3, <2>4
    DEF Next, Connect, GoDirect, NewConnection, Cut, Close, LinkUp, Down, Save, DeleteAtB, HandleText,
        Store, Accept, RestartB, vars, a_vars
<1>2. IInv /\ [Next]_vars => [\A m \in Msgs : status[m] = "delivered" /\ status'[m] \in Waiting => RestartA]_vars
  BY <1>1
<1>3. QED
  BY <1>2, Invariant, PTL DEF Spec, DeliveredStays
==============================================================================
