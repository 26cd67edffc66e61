-------------------------- MODULE FileTransferProofs ---------------------------
(***************************************************************************)
(* Theorems about FileTransfer, for files of any length, any chunk lengths *)
(* and windows, any sessions and any number of faults.                     *)
(*                                                                         *)
(* What is on its way, in memory and on disk are pieces of the file: runs  *)
(* of its blocks, each where it belongs.  A chunk is one wherever it comes *)
(* from; the receiver puts them together without a gap, and each of the    *)
(* two running hashes has seen the piece from the start of the file.       *)
(*                                                                         *)
(* What the receiver confirmed it has: Bound, which its messages and what  *)
(* the sender counts as confirmed stay below.  And what was said to be     *)
(* complete is in place: Done.                                             *)
(***************************************************************************)
EXTENDS FileTransfer, ListFacts

------------------------------------------------------------------------------
(* How the receiver of a file puts it together.  A piece is a run of the    *)
(* file's blocks, each where it belongs.  Chunks come in any order and      *)
(* overlap; what the receiver queues, writes and keeps for later are pieces *)
(* nevertheless, and the ones it queues follow on from what is on disk      *)
(* without a gap.                                                           *)

(* The blocks after the first a, up to b.                                   *)
Piece(a, b) == SubSeq(Source, a + 1, b)

IsPiece(data, off) == \E n \in 0..Size : n >= off /\ data = Piece(off, n)

LEMMA SourceFile ==
    Source \in Seq(Blocks) /\ Len(Source) = Size /\ \A i \in 1..Size : Source[i] = i
<1>1. Size \in Nat
  BY SizeAssumption
<1>2. Source \in [1..Size -> Blocks]
  BY DEF Source, Blocks
<1>3. Source \in Seq(Blocks) /\ Len(Source) = Size
  BY <1>1, <1>2, SeqDef, LenProperties
<1>4. QED
  BY <1>3 DEF Source, Blocks

LEMMA PieceFacts ==
    ASSUME NEW a \in 0..Size, NEW b \in 0..Size, a <= b
    PROVE  /\ Piece(a, b) \in Seq(Blocks) /\ Piece(a, b) \in Data
           /\ Len(Piece(a, b)) = b - a
           /\ \A i \in 1..(b - a) : Piece(a, b)[i] = a + i
<1>1. /\ Size \in Nat /\ a \in Int /\ b \in Int /\ b - a \in 0..Size /\ (a + 1 <= b <=> a < b)
      /\ b - (a + 1) + 1 = b - a
  BY SizeAssumption
<1>2. \A i \in (a + 1)..b : i \in 1..Size /\ Source[i] \in Blocks
  BY <1>1, SourceFile DEF Blocks
<1>3. /\ Piece(a, b) \in Seq(Blocks)
      /\ Len(Piece(a, b)) = b - a
      /\ \A i \in 1..(b - a) : Piece(a, b)[i] = Source[a + i]
  BY <1>1, <1>2, SubSeqProperties DEF Piece
<1>4. \A i \in 1..(b - a) : a + i \in 1..Size
  BY <1>1
<1>5. Piece(a, b) \in [1..(b - a) -> Blocks]
  BY <1>3, LenProperties
<1>6. QED
  BY <1>1, <1>3, <1>4, <1>5, SourceFile DEF Data

LEMMA WholePiece ==
    Piece(0, Size) = Source /\ \A a \in 0..Size : Piece(a, a) = <<>>
<1>1. Piece(0, Size) = Source
  BY SourceFile, SubSeqFull, SizeAssumption DEF Piece
<1>2. ASSUME NEW a \in 0..Size PROVE Piece(a, a) = <<>>
  BY SubSeqEmpty, SizeAssumption DEF Piece
<1>3. QED
  BY <1>1, <1>2

LEMMA JoinPieces ==
    ASSUME NEW a \in 0..Size, NEW b \in 0..Size, NEW c \in 0..Size, a <= b, b <= c
    PROVE  Piece(a, b) \o Piece(b, c) = Piece(a, c)
BY SourceFile, SizeAssumption, ConcatAdjacentSubSeq DEF Piece

LEMMA PieceOfPiece ==
    ASSUME NEW a \in 0..Size, NEW b \in 0..Size, NEW i \in Nat \ {0}, NEW j \in Nat,
           a <= b, i <= j + 1, j <= b - a
    PROVE  SubSeq(Piece(a, b), i, j) = Piece(a + i - 1, a + j)
<1>1. a + i - 1 \in 0..Size /\ a + j \in 0..Size /\ a + i - 1 <= a + j
      /\ (a + j) - (a + i - 1) = j - i + 1 /\ (i <= j \/ j - i + 1 = 0)
  BY SizeAssumption
<1>2. /\ Piece(a, b) \in Seq(Blocks) /\ Len(Piece(a, b)) = b - a
      /\ \A k \in 1..(b - a) : Piece(a, b)[k] = a + k
  BY PieceFacts
<1>3. /\ Piece(a + i - 1, a + j) \in Seq(Blocks) /\ Len(Piece(a + i - 1, a + j)) = j - i + 1
      /\ \A k \in 1..(j - i + 1) : Piece(a + i - 1, a + j)[k] = a + i - 1 + k
  <2>1. PICK x \in 0..Size, y \in 0..Size : x = a + i - 1 /\ y = a + j /\ x <= y /\ y - x = j - i + 1
    BY <1>1
  <2>2. /\ Piece(x, y) \in Seq(Blocks) /\ Len(Piece(x, y)) = y - x
        /\ \A k \in 1..(y - x) : Piece(x, y)[k] = x + k
    BY <2>1, PieceFacts
  <2>3. QED
    BY <2>1, <2>2
<1>4. \A k \in i..j : k \in 1..(b - a) /\ Piece(a, b)[k] \in Blocks
  BY <1>2, ElementOfSeq
<1>5. /\ SubSeq(Piece(a, b), i, j) \in Seq(Blocks)
      /\ Len(SubSeq(Piece(a, b), i, j)) = j - i + 1
      /\ \A k \in 1..(j - i + 1) : SubSeq(Piece(a, b), i, j)[k] = Piece(a, b)[i + k - 1]
  BY <1>1, <1>4, SubSeqProperties
<1>6. \A k \in 1..(j - i + 1) : i + k - 1 \in 1..(b - a) /\ a + (i + k - 1) = a + i - 1 + k
  OBVIOUS
<1>7. \A k \in 1..(j - i + 1) : SubSeq(Piece(a, b), i, j)[k] = Piece(a + i - 1, a + j)[k]
  BY <1>2, <1>3, <1>5, <1>6
<1>8. QED
  BY <1>3, <1>5, <1>7, SeqEqual

(* What a piece has from x on.                                              *)
LEMMA RestOfPiece ==
    ASSUME NEW a \in 0..Size, NEW l \in 0..Size, NEW x \in 0..Size,
           a + l <= Size, a <= x, x <= a + l
    PROVE  SubSeq(Piece(a, a + l), x - a + 1, l) = Piece(x, a + l)
<1>1. x - a + 1 \in Nat \ {0} /\ l \in Nat /\ a <= a + l /\ x - a + 1 <= l + 1 /\ l <= (a + l) - a
      /\ a + (x - a + 1) - 1 = x /\ a + l \in 0..Size
  BY SizeAssumption
<1>2. SubSeq(Piece(a, a + l), x - a + 1, l) = Piece(a + (x - a + 1) - 1, a + l)
  BY <1>1, PieceOfPiece
<1>3. QED
  BY <1>1, <1>2

(* A piece is known by its place and length.                                *)
LEMMA PieceLength ==
    ASSUME NEW off \in 0..Size, NEW data, IsPiece(data, off)
    PROVE  /\ data \in Data /\ data \in Seq(Blocks) /\ Len(data) \in 0..Size
           /\ off + Len(data) \in 0..Size /\ data = Piece(off, off + Len(data))
<1>1. PICK n \in 0..Size : n >= off /\ data = Piece(off, n)
  BY DEF IsPiece
<1>2. off <= n
  BY <1>1, SizeAssumption
<1>3. Len(data) = n - off /\ data \in Data /\ data \in Seq(Blocks)
  BY <1>1, <1>2, PieceFacts
<1>4. off + Len(data) = n /\ Len(data) \in 0..Size
  BY <1>2, <1>3, SizeAssumption
<1>5. QED
  BY <1>1, <1>3, <1>4

LEMMA ThatIsAPiece ==
    ASSUME NEW a \in 0..Size, NEW b \in 0..Size, a <= b
    PROVE  IsPiece(Piece(a, b), a)
BY SizeAssumption DEF IsPiece

------------------------------------------------------------------------------
(* What the receiver keeps.                                                 *)

Entries == [off : 0..Size, data : Data]

RxStates ==
    [expected : 0..Size, queue : Data, writing : Data, ahead : Seq(Entries),
     hashed : Data, prehash : 0..Size, sha : {None, Source}, acked : -1..Size,
     ackDue : BOOLEAN, recent : BOOLEAN]

(* The early chunks: pieces, no two of them of the same place.              *)
AheadFits(q) ==
    /\ q \in Seq(Entries)
    /\ \A i \in DOMAIN q : IsPiece(q[i].data, q[i].off)
    /\ \A i, j \in DOMAIN q : q[i].off = q[j].off => i = j

(* r's blocks follow on from the first n, which are on disk.                *)
FollowsOn(r, n) ==
    \E k \in 0..Size : /\ n <= k /\ k <= r.expected
                       /\ r.writing = Piece(n, k) /\ r.queue = Piece(k, r.expected)

InPlace(r, n) ==
    /\ r \in RxStates /\ n \in 0..Size
    /\ r.prehash <= n /\ r.hashed = Piece(r.prehash, n)
    /\ FollowsOn(r, n)
    /\ AheadFits(r.ahead)

(* No early chunk is behind or follows on.                                  *)
AllEarly(r) == \A i \in DOMAIN r.ahead : r.ahead[i].off > r.expected

(* A chosen few of the entries of a list are entries of it, each once.      *)
LEMMA EntriesKept ==
    ASSUME NEW S, NEW q \in Seq(S), NEW P \in SUBSET DOMAIN q
    PROVE  /\ EntriesAt(q, P) \in Seq(S) /\ Cardinality(P) \in Nat
           /\ Len(EntriesAt(q, P)) = Cardinality(P)
           /\ \E at \in [1..Cardinality(P) -> P] :
                 /\ \A n \in 1..Cardinality(P) : EntriesAt(q, P)[n] = q[at[n]]
                 /\ \A m, n \in 1..Cardinality(P) : at[m] = at[n] => m = n
<1> DEFINE rank(i) == Cardinality({j \in P : j <= i})
           Card == Cardinality(P)
           at == [n \in 1..Card |-> CHOOSE i \in P : rank(i) = n]
           list == EntriesAt(q, P)
<1>1. Len(q) \in Nat /\ DOMAIN q = 1..Len(q) /\ \A i \in P : q[i] \in S
  BY LenProperties, ElementOfSeq
<1>2. Card \in Nat /\ \A n \in 1..Card : \E i \in P : rank(i) = n
  BY <1>1, Ranks
<1>3. list = [n \in 1..Card |-> q[at[n]]]
  BY DEF EntriesAt
<1> HIDE DEF rank
<1>4. \A n \in 1..Card : at[n] \in P /\ rank(at[n]) = n
  BY <1>2
<1> HIDE DEF Card, list
<1>5. at \in [1..Card -> P] /\ \A m, n \in 1..Card : at[m] = at[n] => m = n
  BY <1>4
<1> HIDE DEF at
<1>6. list \in [1..Card -> S]
  BY <1>1, <1>3, <1>4
<1>7. list \in Seq(S) /\ Len(list) = Card
  BY <1>2, <1>6, SeqDef, LenProperties
<1>8. \A n \in 1..Card : list[n] = q[at[n]]
  BY <1>3
<1>9. QED
  BY <1>2, <1>5, <1>7, <1>8 DEF Card, list

LEMMA PieceFits ==
    ASSUME NEW e \in Entries, IsPiece(e.data, e.off)
    PROVE  /\ e.off \in 0..Size /\ e.off + Len(e.data) \in 0..Size /\ Len(e.data) \in 0..Size
           /\ e.data = Piece(e.off, e.off + Len(e.data))
<1>1. e.off \in 0..Size
  BY DEF Entries
<1>2. QED
  BY <1>1, PieceLength

LEMMA AheadEntry ==
    ASSUME NEW q, AheadFits(q)
    PROVE  /\ Len(q) \in Nat /\ DOMAIN q = 1..Len(q)
           /\ \A i \in DOMAIN q : q[i] \in Entries /\ q[i].off \in 0..Size /\ q[i].off \in Int
<1>1. q \in Seq(Entries)
  BY DEF AheadFits
<1>2. Len(q) \in Nat /\ DOMAIN q = 1..Len(q)
  BY <1>1, LenProperties
<1>3. \A i \in DOMAIN q : q[i] \in Entries
  BY <1>1, <1>2, ElementOfSeq
<1>4. \A e \in Entries : e.off \in 0..Size /\ e.off \in Int
  BY SizeAssumption DEF Entries
<1>5. QED
  BY <1>2, <1>3, <1>4

(* One more entry, of a place of its own.                                   *)
LEMMA AheadAppend ==
    ASSUME NEW q, AheadFits(q), NEW e \in Entries, IsPiece(e.data, e.off),
           \A i \in DOMAIN q : q[i].off # e.off
    PROVE  AheadFits(Append(q, e)) /\ Len(Append(q, e)) = Len(q) + 1
<1> DEFINE a == Append(q, e)
<1>1. q \in Seq(Entries) /\ Len(q) \in Nat /\ DOMAIN q = 1..Len(q)
  BY LenProperties DEF AheadFits
<1>2. /\ a \in Seq(Entries) /\ Len(a) = Len(q) + 1
      /\ \A i \in 1..Len(q) : a[i] = q[i]
      /\ a[Len(q) + 1] = e
  BY <1>1, AppendProperties
<1>3. DOMAIN a = 1..(Len(q) + 1)
  BY <1>2, LenProperties
<1> HIDE DEF a
<1>4. \A i \in DOMAIN a : i \in DOMAIN q \/ (i = Len(q) + 1 /\ i \notin DOMAIN q)
  BY <1>1, <1>3
<1>5. \A i \in DOMAIN a : IsPiece(a[i].data, a[i].off)
  BY <1>1, <1>2, <1>4 DEF AheadFits
<1>6. \A i, j \in DOMAIN a : a[i].off = a[j].off => i = j
  BY <1>1, <1>2, <1>4 DEF AheadFits
<1>7. QED
  BY <1>2, <1>5, <1>6 DEF AheadFits, a

LEMMA AheadRemove ==
    ASSUME NEW q, AheadFits(q), NEW i \in DOMAIN q
    PROVE  AheadFits(RemoveAt(q, i)) /\ Len(RemoveAt(q, i)) = Len(q) - 1
<1> DEFINE a == RemoveAt(q, i)
<1>1. q \in Seq(Entries) /\ Len(q) \in Nat /\ DOMAIN q = 1..Len(q)
  BY LenProperties DEF AheadFits
<1>2. /\ a \in Seq(Entries) /\ Len(a) = Len(q) - 1
      /\ \A j \in 1..(Len(q) - 1) : a[j] = IF j < i THEN q[j] ELSE q[j + 1]
  BY <1>1, RemoveOne
<1>3. DOMAIN a = 1..(Len(q) - 1)
  BY <1>2, LenProperties
<1> HIDE DEF a
<1>4. \A j \in DOMAIN a : j \in DOMAIN q /\ j + 1 \in DOMAIN q
  BY <1>1, <1>3
<1>5. \A j \in DOMAIN a : IsPiece(a[j].data, a[j].off)
  BY <1>1, <1>2, <1>3, <1>4 DEF AheadFits
<1>6. ASSUME NEW j \in DOMAIN a, NEW k \in DOMAIN a, a[j].off = a[k].off PROVE j = k
  <2> DEFINE old(m) == IF m < i THEN m ELSE m + 1
  <2>1. a[j] = q[old(j)] /\ a[k] = q[old(k)] /\ old(j) \in DOMAIN q /\ old(k) \in DOMAIN q
    BY <1>2, <1>3, <1>4
  <2> HIDE DEF old
  <2>2. old(j) = old(k)
    BY <1>6, <2>1 DEF AheadFits
  <2>3. QED
    BY <1>1, <1>3, <2>2 DEF old
<1>7. QED
  BY <1>2, <1>5, <1>6 DEF AheadFits, a

LEMMA AheadKept ==
    ASSUME NEW q, AheadFits(q), NEW P \in SUBSET DOMAIN q
    PROVE  /\ AheadFits(EntriesAt(q, P)) /\ Len(EntriesAt(q, P)) = Cardinality(P)
           /\ \A i \in DOMAIN EntriesAt(q, P) : \E j \in P : EntriesAt(q, P)[i] = q[j]
<1> DEFINE a == EntriesAt(q, P)
<1>0. q \in Seq(Entries)
  BY DEF AheadFits
<1>1. /\ a \in Seq(Entries) /\ Cardinality(P) \in Nat /\ Len(a) = Cardinality(P)
      /\ \E at \in [1..Cardinality(P) -> P] :
            /\ \A n \in 1..Cardinality(P) : a[n] = q[at[n]]
            /\ \A m, n \in 1..Cardinality(P) : at[m] = at[n] => m = n
  BY <1>0, EntriesKept
<1>2. DOMAIN a = 1..Cardinality(P)
  BY <1>1, LenProperties
<1> HIDE DEF a
<1>3. PICK at \in [1..Cardinality(P) -> P] :
            /\ \A n \in DOMAIN a : a[n] = q[at[n]]
            /\ \A m, n \in DOMAIN a : at[m] = at[n] => m = n
  BY <1>1, <1>2
<1>4. \A n \in DOMAIN a : at[n] \in P /\ at[n] \in DOMAIN q
  BY <1>2
<1>5. AheadFits(a)
  BY <1>1, <1>3, <1>4 DEF AheadFits
<1>6. QED
  BY <1>1, <1>3, <1>4, <1>5 DEF a

(* r with other early chunks.                                               *)
LEMMA OtherAhead ==
    ASSUME NEW r, NEW n, InPlace(r, n), NEW q, AheadFits(q)
    PROVE  /\ InPlace([r EXCEPT !.ahead = q], n)
           /\ [r EXCEPT !.ahead = q].expected = r.expected
           /\ [r EXCEPT !.ahead = q].ahead = q
<1> DEFINE s == [r EXCEPT !.ahead = q]
<1>1. r \in RxStates /\ q \in Seq(Entries)
  BY DEF InPlace, AheadFits
<1>2. s \in RxStates
  BY <1>1 DEF RxStates
<1>3. /\ s.expected = r.expected /\ s.prehash = r.prehash /\ s.hashed = r.hashed
      /\ s.writing = r.writing /\ s.queue = r.queue /\ s.ahead = q
  BY <1>1 DEF RxStates
<1> HIDE DEF s
<1>4. FollowsOn(s, n)
  BY <1>3 DEF FollowsOn, InPlace
<1>5. InPlace(s, n)
  BY <1>2, <1>3, <1>4 DEF InPlace
<1>6. QED
  BY <1>3, <1>5 DEF s

(* The blocks up to c, queued next, follow on.                              *)
LEMMA QueuedFollows ==
    ASSUME NEW r, NEW n, InPlace(r, n), NEW c \in 0..Size, r.expected <= c
    PROVE  LET s == Queued(r, Piece(r.expected, c))
           IN  InPlace(s, n) /\ s.expected = c /\ s.ahead = r.ahead /\ s.writing = r.writing
<1> DEFINE d == Piece(r.expected, c)
           s == Queued(r, d)
<1>1. r \in RxStates /\ r.expected \in 0..Size /\ r.queue \in Data
  BY DEF InPlace, RxStates
<1>2. Len(d) = c - r.expected /\ r.expected + Len(d) = c
  <2>1. Len(Piece(r.expected, c)) = c - r.expected
    BY <1>1, PieceFacts
  <2>2. QED
    BY <1>1, <2>1, SizeAssumption
<1>3. PICK k \in 0..Size : /\ n <= k /\ k <= r.expected
                           /\ r.writing = Piece(n, k) /\ r.queue = Piece(k, r.expected)
  BY DEF InPlace, FollowsOn
<1>4. r.queue \o d = Piece(k, c)
  BY <1>1, <1>3, JoinPieces
<1>5. k <= c
  BY <1>1, <1>3, SizeAssumption
<1>6. Piece(k, c) \in Data
  BY <1>5, PieceFacts
<1>7. s = [r EXCEPT !.queue = Piece(k, c), !.expected = c]
  BY <1>1, <1>2, <1>4 DEF Queued, RxStates
<1> DEFINE q == Piece(k, c)
<1> HIDE DEF q
<1>8. s \in RxStates
  BY <1>1, <1>6, <1>7 DEF RxStates, q
<1>9. /\ s.expected = c /\ s.prehash = r.prehash /\ s.hashed = r.hashed
      /\ s.writing = r.writing /\ s.queue = Piece(k, c) /\ s.ahead = r.ahead
  BY <1>1, <1>7 DEF RxStates
<1> HIDE DEF s
<1>10. FollowsOn(s, n)
  BY <1>3, <1>5, <1>9 DEF FollowsOn
<1>11. InPlace(s, n)
  BY <1>8, <1>9, <1>10 DEF InPlace
<1>12. QED
  BY <1>9, <1>11 DEF s

(* An early chunk that now follows on is queued.                            *)
LEMMA TakeNextFits ==
    ASSUME NEW r, NEW n, InPlace(r, n), \E i \in DOMAIN r.ahead : Follows(r, r.ahead[i])
    PROVE  /\ InPlace(TakeNext(r), n) /\ r.expected <= TakeNext(r).expected
           /\ Len(TakeNext(r).ahead) = Len(r.ahead) - 1
<1> DEFINE i == CHOOSE i \in DOMAIN r.ahead : Follows(r, r.ahead[i])
           e == r.ahead[i]
           s == [r EXCEPT !.ahead = RemoveAt(@, i)]
<1>1. i \in DOMAIN r.ahead /\ Follows(r, e)
  OBVIOUS
<1>2. TakeNext(r) = Queued(s, e.data)
  BY DEF TakeNext
<1> HIDE DEF i
<1>3. AheadFits(r.ahead) /\ r \in RxStates
  BY DEF InPlace
<1>4. e \in Entries /\ IsPiece(e.data, e.off) /\ e.off = r.expected
  BY <1>1, <1>3, ElementOfSeq, LenProperties DEF AheadFits, Follows
<1> DEFINE c == r.expected + Len(e.data)
<1>5. c \in 0..Size /\ r.expected <= c /\ e.data = Piece(r.expected, c)
  BY <1>4, PieceFits
<1>6. AheadFits(RemoveAt(r.ahead, i)) /\ Len(RemoveAt(r.ahead, i)) = Len(r.ahead) - 1
  BY <1>1, <1>3, AheadRemove
<1>7. s = [r EXCEPT !.ahead = RemoveAt(r.ahead, i)]
  BY <1>3 DEF RxStates
<1>8. InPlace(s, n) /\ s.expected = r.expected /\ s.ahead = RemoveAt(r.ahead, i)
  BY <1>6, <1>7, OtherAhead
<1> HIDE DEF s, e, c
<1>9. InPlace(Queued(s, Piece(s.expected, c)), n) /\ Queued(s, Piece(s.expected, c)).expected = c
      /\ Queued(s, Piece(s.expected, c)).ahead = s.ahead
  BY <1>5, <1>8, QueuedFollows
<1>10. QED
  BY <1>2, <1>5, <1>6, <1>8, <1>9

(* What is left of an overtaken chunk follows on.                           *)
LEMMA EndIsPiece ==
    ASSUME NEW r, NEW n, InPlace(r, n), NEW e \in Entries, IsPiece(e.data, e.off), Ends(r, e)
    PROVE  /\ EndOf(r, e) \in Entries /\ EndOf(r, e).off = r.expected
           /\ IsPiece(EndOf(r, e).data, EndOf(r, e).off)
<1> DEFINE a == e.off
           l == Len(e.data)
           x == r.expected
<1>1. x \in 0..Size
  BY DEF InPlace, RxStates
<1>2. /\ a \in 0..Size /\ a + l \in 0..Size /\ l \in 0..Size /\ e.data = Piece(a, a + l)
      /\ a < x /\ a + l > x
  BY PieceFits DEF Ends, Behind
<1> DEFINE d == e.data
<1>3. EndOf(r, e) = [off |-> x, data |-> SubSeq(d, x - a + 1, l)]
  BY DEF EndOf
<1> HIDE DEF a, l, x, d
<1>4. a + l <= Size /\ a <= x /\ x <= a + l
  BY <1>1, <1>2, SizeAssumption
<1>5. SubSeq(Piece(a, a + l), x - a + 1, l) = Piece(x, a + l)
  BY <1>1, <1>2, <1>4, RestOfPiece
<1>6. EndOf(r, e) = [off |-> x, data |-> Piece(x, a + l)]
  BY <1>2, <1>3, <1>5 DEF d
<1>7. Piece(x, a + l) \in Data /\ IsPiece(Piece(x, a + l), x)
  BY <1>1, <1>2, <1>4, PieceFacts, ThatIsAPiece
<1>8. QED
  BY <1>1, <1>6, <1>7 DEF Entries, x

(* Chunks that were overtaken go; one of them may leave its end.            *)
LEMMA DropBehindFits ==
    ASSUME NEW r, NEW n, InPlace(r, n),
           ~ \E i \in DOMAIN r.ahead : Follows(r, r.ahead[i]),
           \E i \in DOMAIN r.ahead : Behind(r, r.ahead[i])
    PROVE  /\ InPlace(DropBehind(r), n) /\ DropBehind(r).expected = r.expected
           /\ Len(DropBehind(r).ahead) \in Nat /\ Len(DropBehind(r).ahead) <= Len(r.ahead)
           /\ ~ \E i \in DOMAIN DropBehind(r).ahead : Behind(r, DropBehind(r).ahead[i])
<1> DEFINE D == DOMAIN r.ahead
           behind == {i \in D : Behind(r, r.ahead[i])}
           ends == {i \in behind : Ends(r, r.ahead[i])}
           later == EntriesAt(r.ahead, D \ behind)
           new == EndOf(r, r.ahead[Min(ends)])
           q == IF ends = {} THEN later ELSE Append(later, new)
<1>1. DropBehind(r) = [r EXCEPT !.ahead = q]
  BY DEF DropBehind
<1>2. AheadFits(r.ahead) /\ r \in RxStates /\ r.expected \in 0..Size
  BY DEF InPlace, RxStates
<1>3. Len(r.ahead) \in Nat /\ D = 1..Len(r.ahead)
  BY <1>2, AheadEntry
<1>4. \A i \in D : r.ahead[i] \in Entries /\ r.ahead[i].off \in 0..Size
  BY <1>2, AheadEntry
<1>5. \A i \in D \ behind : r.ahead[i].off > r.expected
  BY <1>2, <1>4, SizeAssumption DEF Follows, Behind
<1>6. /\ AheadFits(later) /\ Len(later) = Cardinality(D \ behind)
      /\ \A i \in DOMAIN later : \E j \in D \ behind : later[i] = r.ahead[j]
  <2>1. PICK a : a = r.ahead
    OBVIOUS
  <2>2. PICK P : P = D \ behind
    OBVIOUS
  <2>3. AheadFits(a) /\ P \in SUBSET DOMAIN a
    BY <1>2, <2>1, <2>2
  <2> HIDE DEF D, behind
  <2>4. /\ AheadFits(EntriesAt(a, P)) /\ Len(EntriesAt(a, P)) = Cardinality(P)
        /\ \A i \in DOMAIN EntriesAt(a, P) : \E j \in P : EntriesAt(a, P)[i] = a[j]
    BY <2>3, AheadKept
  <2>5. QED
    BY <2>1, <2>2, <2>4
<1>7. Cardinality(D \ behind) \in Nat /\ Cardinality(D \ behind) < Len(r.ahead)
  <2>1. IsFiniteSet(D) /\ Cardinality(D) = Len(r.ahead)
    BY <1>3, FS_Interval
  <2>2. D \ behind # D /\ D \ behind \in SUBSET D
    OBVIOUS
  <2>3. /\ Cardinality(D \ behind) <= Cardinality(D) /\ Cardinality(D \ behind) \in Nat
        /\ Cardinality(D \ behind) # Cardinality(D)
    BY <2>1, <2>2, FS_Subset, FS_CardinalityType
  <2>4. QED
    BY <1>3, <2>1, <2>3
<1> HIDE DEF later, behind
<1>8. \A i \in DOMAIN later : later[i].off > r.expected
  BY <1>5, <1>6
<1>9. /\ AheadFits(q) /\ Len(q) \in Nat /\ Len(q) <= Len(r.ahead)
      /\ \A i \in DOMAIN q : q[i].off >= r.expected
  <2>1. CASE ends = {}
    <3>0. q = later
      BY <2>1
    <3>1. \A i \in DOMAIN later : later[i].off >= r.expected
      <4>1. \A i \in DOMAIN later : later[i].off \in Int
        BY <1>4, <1>6 DEF Entries
      <4>2. QED
        BY <1>2, <1>8, <4>1
    <3>2. Len(later) \in Nat /\ Len(later) <= Len(r.ahead)
      BY <1>3, <1>6, <1>7
    <3> HIDE DEF q
    <3>3. QED
      BY <1>6, <3>0, <3>1, <3>2
  <2>2. CASE ends # {}
    <3>1. ends \in SUBSET Nat
      BY <1>3 DEF behind
    <3>2. Min(ends) \in ends
      BY <2>2, <3>1, Least DEF Min
    <3> DEFINE e == r.ahead[Min(ends)]
    <3>3. Min(ends) \in D /\ Ends(r, e)
      BY <3>2 DEF behind
    <3> HIDE DEF ends
    <3>4. e \in Entries /\ IsPiece(e.data, e.off)
      BY <1>2, <1>4, <3>3 DEF AheadFits
    <3> HIDE DEF e
    <3>5. new = EndOf(r, e)
      BY DEF e
    <3>6. new \in Entries /\ new.off = r.expected /\ IsPiece(new.data, new.off)
      BY <3>3, <3>4, <3>5, EndIsPiece
    <3> HIDE DEF new
    <3>7. \A i \in DOMAIN later : later[i].off # new.off /\ later[i].off >= r.expected
      <4>1. \A i \in DOMAIN later : later[i].off \in Int
        BY <1>4, <1>6 DEF Entries
      <4>2. QED
        BY <1>2, <1>8, <3>6, <4>1
    <3>8. AheadFits(Append(later, new)) /\ Len(Append(later, new)) = Len(later) + 1
      BY <1>6, <3>6, <3>7, AheadAppend
    <3>9. \A i \in DOMAIN Append(later, new) : Append(later, new)[i].off >= r.expected
      <4>1. later \in Seq(Entries)
        BY <1>6 DEF AheadFits
      <4>2. /\ DOMAIN later = 1..Len(later) /\ Len(later) \in Nat
            /\ DOMAIN Append(later, new) = 1..(Len(later) + 1)
            /\ \A i \in 1..Len(later) : Append(later, new)[i] = later[i]
            /\ Append(later, new)[Len(later) + 1] = new
        BY <3>6, <4>1, AppendProperties, LenProperties
      <4>3. \A i \in DOMAIN Append(later, new) : i \in DOMAIN later \/ i = Len(later) + 1
        BY <4>2
      <4>4. new.off >= r.expected
        BY <1>2, <3>6
      <4>5. QED
        BY <3>7, <4>2, <4>3, <4>4
    <3>10. q = Append(later, new)
      BY <2>2
    <3>11. Len(later) + 1 \in Nat /\ Len(later) + 1 <= Len(r.ahead)
      BY <1>3, <1>6, <1>7
    <3> HIDE DEF q
    <3>12. QED
      BY <3>8, <3>9, <3>10, <3>11
  <2>3. QED
    BY <2>1, <2>2
<1> HIDE DEF q
<1>10. /\ InPlace(DropBehind(r), n) /\ DropBehind(r).expected = r.expected
       /\ DropBehind(r).ahead = q
  BY <1>1, <1>9, OtherAhead
<1>11. \A i \in DOMAIN q : ~Behind(r, q[i])
  <2>1. \A i \in DOMAIN q : q[i].off \in Int
    BY <1>9, AheadEntry
  <2>2. QED
    BY <1>2, <1>9, <2>1 DEF Behind
<1>12. QED
  BY <1>9, <1>10, <1>11

(* How many turns are left.                                                 *)
Turns(r) == IF \E i \in DOMAIN r.ahead : Behind(r, r.ahead[i])
            THEN 2 * Len(r.ahead) ELSE 2 * Len(r.ahead) - 1

LEMMA TurnFits ==
    ASSUME NEW r, NEW n, InPlace(r, n)
    PROVE  /\ InPlace(TakeTurn(r), n) /\ r.expected <= TakeTurn(r).expected
           /\ AllEarly(r) => TakeTurn(r) = r
           /\ ~AllEarly(r) => Turns(TakeTurn(r)) < Turns(r)
           /\ Turns(r) <= 2 * Len(r.ahead) /\ Turns(r) \in Int
           /\ Turns(r) <= 0 => AllEarly(r)
<1>1. AheadFits(r.ahead) /\ r \in RxStates /\ r.expected \in 0..Size /\ r.expected <= r.expected
  BY SizeAssumption DEF InPlace, RxStates
<1>2. Len(r.ahead) \in Nat /\ DOMAIN r.ahead = 1..Len(r.ahead)
  BY <1>1, AheadEntry
<1>3. \A i \in DOMAIN r.ahead : r.ahead[i].off \in 0..Size
  BY <1>1, AheadEntry
<1>4. AllEarly(r) <=> ~ \E i \in DOMAIN r.ahead : Follows(r, r.ahead[i]) \/ Behind(r, r.ahead[i])
  <2>1. \A i \in DOMAIN r.ahead : r.ahead[i].off > r.expected
                                  <=> r.ahead[i].off # r.expected /\ ~(r.ahead[i].off < r.expected)
    BY <1>1, <1>3, SizeAssumption
  <2>2. QED
    BY <2>1 DEF AllEarly, Follows, Behind
<1>5. Turns(r) <= 2 * Len(r.ahead) /\ Turns(r) >= 2 * Len(r.ahead) - 1 /\ Turns(r) \in Int
  BY <1>2 DEF Turns
<1>6. ASSUME Turns(r) <= 0 PROVE AllEarly(r)
  <2>1. Len(r.ahead) = 0
    BY <1>2, <1>5, <1>6
  <2>2. QED
    BY <1>2, <2>1 DEF AllEarly
<1>7. CASE \E i \in DOMAIN r.ahead : Follows(r, r.ahead[i])
  <2> DEFINE s == TakeNext(r)
  <2>1. /\ TakeTurn(r) = s /\ InPlace(s, n) /\ r.expected <= s.expected
        /\ Len(s.ahead) = Len(r.ahead) - 1
    BY <1>7, TakeNextFits DEF TakeTurn
  <2> HIDE DEF s
  <2>2. Turns(s) < Turns(r)
    <3>1. Turns(s) <= 2 * (Len(r.ahead) - 1)
      BY <1>2, <2>1 DEF Turns
    <3>2. Turns(s) \in Int
      BY <1>2, <2>1 DEF Turns
    <3>3. QED
      BY <1>2, <1>5, <3>1, <3>2
  <2>3. QED
    BY <1>4, <1>5, <1>6, <1>7, <2>1, <2>2
<1>8. CASE /\ ~ \E i \in DOMAIN r.ahead : Follows(r, r.ahead[i])
           /\ \E i \in DOMAIN r.ahead : Behind(r, r.ahead[i])
  <2> DEFINE s == DropBehind(r)
  <2>1. /\ TakeTurn(r) = s /\ InPlace(s, n) /\ s.expected = r.expected
        /\ Len(s.ahead) \in Nat /\ Len(s.ahead) <= Len(r.ahead)
        /\ ~ \E i \in DOMAIN s.ahead : Behind(r, s.ahead[i])
    BY <1>8, DropBehindFits DEF TakeTurn
  <2> HIDE DEF s
  <2>2. ~ \E i \in DOMAIN s.ahead : Behind(s, s.ahead[i])
    BY <2>1 DEF Behind
  <2>3. Turns(s) = 2 * Len(s.ahead) - 1 /\ Turns(r) = 2 * Len(r.ahead)
    BY <1>8, <2>2 DEF Turns
  <2>4. Turns(s) < Turns(r)
    BY <1>2, <2>1, <2>3
  <2>5. QED
    BY <1>1, <1>4, <1>5, <1>6, <1>8, <2>1, <2>4
<1>9. CASE AllEarly(r)
  <2>1. TakeTurn(r) = r
    BY <1>4, <1>9 DEF TakeTurn
  <2>2. QED
    BY <1>1, <1>5, <1>9, <2>1
<1>10. QED
  BY <1>4, <1>7, <1>8, <1>9

(* Twice per early chunk is enough: then no early chunk follows on or is
   behind any more.                                                         *)
LEMMA TakeAheadFits ==
    ASSUME NEW r, NEW n, InPlace(r, n)
    PROVE  /\ InPlace(TakeAhead(r), n) /\ AllEarly(TakeAhead(r))
           /\ r.expected <= TakeAhead(r).expected
<1> DEFINE R == {s \in RxStates : InPlace(s, n) /\ r.expected <= s.expected}
           g == [s \in R |-> TakeTurn(s)]
           IsTurns(f) == f = [m \in Nat |-> IF m = 0 THEN r ELSE TakeTurn(f[m - 1])]
           turns == CHOOSE f : IsTurns(f)
           L == Len(r.ahead)
<1>1. L \in Nat /\ r \in R
  BY LenProperties, SizeAssumption DEF InPlace, RxStates, AheadFits
<1>2. ASSUME NEW s \in R PROVE TakeTurn(s) \in R
  <2> DEFINE t == TakeTurn(s)
  <2>1. InPlace(s, n) /\ r.expected <= s.expected
    OBVIOUS
  <2>2. InPlace(t, n) /\ s.expected <= t.expected
    BY <2>1, TurnFits
  <2> HIDE DEF t
  <2>3. t \in RxStates /\ r.expected \in Int /\ s.expected \in Int /\ t.expected \in Int
    BY <1>1, <2>2 DEF InPlace, RxStates
  <2>4. r.expected <= t.expected
    BY <2>1, <2>2, <2>3
  <2>5. QED
    BY <2>2, <2>3, <2>4 DEF t
<1>3. g \in [R -> R]
  BY <1>2
<1>4. PICK f : f \in [Nat -> R] /\ f[0] = r /\ \A m \in Nat : f[m + 1] = g[f[m]]
  <2> HIDE DEF g, R
  <2>1. StaysIn(g, R) /\ r \in R
    BY <1>1, <1>3 DEF StaysIn
  <2>2. PICK f : IsLoop(f, R, g, r)
    BY <2>1, Iterates
  <2>3. QED
    BY <2>2 DEF IsLoop
<1> HIDE DEF R
<1>5. IsTurns(f)
  <2>1. \A m \in Nat : m # 0 => m - 1 \in Nat /\ f[m - 1] \in R /\ m = (m - 1) + 1
    BY <1>4
  <2>2. \A m \in Nat : f[m] = IF m = 0 THEN r ELSE g[f[m - 1]]
    BY <1>4, <2>1
  <2>3. \A m \in Nat : f[m] = IF m = 0 THEN r ELSE TakeTurn(f[m - 1])
    BY <2>1, <2>2
  <2>4. QED
    BY <1>4, <2>3
<1>6. IsTurns(turns)
  BY <1>5
<1>7. TakeAhead(r) = turns[2 * L]
  BY Zenon DEF TakeAhead
<1> HIDE DEF turns
<1>8. turns[0] = r /\ \A m \in Nat : turns[m + 1] = TakeTurn(turns[m])
  BY <1>6
<1> DEFINE B == {m \in Nat : /\ turns[m] \in R
                             /\ AllEarly(turns[m]) \/ Turns(turns[m]) <= 2 * L - m}
<1>9. 0 \in B
  <2>1. Turns(r) <= 2 * L - 0
    BY <1>1, TurnFits
  <2>2. QED
    BY <1>1, <1>8, <2>1
<1>10. ASSUME NEW m \in Nat, m \in B PROVE m + 1 \in B
  <2> DEFINE s == turns[m]
             t == turns[m + 1]
  <2>1. s \in R /\ (AllEarly(s) \/ Turns(s) <= 2 * L - m)
    BY <1>10
  <2>2. t = TakeTurn(s)
    BY <1>8
  <2> HIDE DEF s, t
  <2>3. InPlace(s, n)
    BY <2>1 DEF R
  <2>4. t \in R
    BY <1>2, <2>1, <2>2
  <2>5. InPlace(t, n)
    BY <2>4 DEF R
  <2>6. CASE AllEarly(s)
    <3>1. t = s
      BY <2>2, <2>3, <2>6, TurnFits
    <3>2. QED
      BY <2>4, <2>6, <3>1 DEF t
  <2>7. CASE ~AllEarly(s)
    <3>1. Turns(t) < Turns(s) /\ Turns(s) \in Int
      BY <2>2, <2>3, <2>7, TurnFits
    <3>2. Turns(t) \in Int
      BY <2>5, TurnFits
    <3>3. Turns(t) <= 2 * L - (m + 1)
      BY <1>1, <2>1, <2>7, <3>1, <3>2
    <3>4. QED
      BY <2>4, <3>3 DEF t
  <2>8. QED
    BY <2>6, <2>7
<1>11. Nat \subseteq B
  <2> HIDE DEF B
  <2>1. QED
    BY <1>9, <1>10, Counting
<1>12. 2 * L \in B
  BY <1>1, <1>11
<1> DEFINE s == turns[2 * L]
<1>13. s \in R /\ (AllEarly(s) \/ Turns(s) <= 2 * L - 2 * L)
  BY <1>12
<1> HIDE DEF s
<1>14. InPlace(s, n) /\ r.expected <= s.expected
  BY <1>13 DEF R
<1>15. AllEarly(s)
  <2>1. AllEarly(s) \/ Turns(s) <= 0
    BY <1>1, <1>13
  <2>2. QED
    BY <1>14, <2>1, TurnFits
<1>16. QED
  BY <1>7, <1>14, <1>15 DEF s

(* What is about confirmations and the digest leaves the blocks alone.      *)
SameBlocks(r, s) ==
    /\ s \in RxStates
    /\ s.expected = r.expected /\ s.queue = r.queue /\ s.writing = r.writing
    /\ s.ahead = r.ahead /\ s.hashed = r.hashed /\ s.prehash = r.prehash

LEMMA SameBlocksFit ==
    ASSUME NEW r, NEW n, InPlace(r, n), NEW s, SameBlocks(r, s)
    PROVE  InPlace(s, n) /\ (AllEarly(r) => AllEarly(s))
<1>1. FollowsOn(s, n)
  BY DEF InPlace, FollowsOn, SameBlocks
<1>2. QED
  BY <1>1 DEF InPlace, SameBlocks, AllEarly

LEMMA StartWriterFits ==
    ASSUME NEW r, NEW n, InPlace(r, n)
    PROVE  /\ InPlace(StartWriter(r), n) /\ StartWriter(r).expected = r.expected
           /\ AllEarly(r) => AllEarly(StartWriter(r))
<1>1. r \in RxStates /\ r.expected \in 0..Size /\ n \in 0..Size /\ r.queue \in Data
  BY DEF InPlace, RxStates
<1>2. CASE r.writing # <<>>
  BY <1>2 DEF StartWriter
<1>3. CASE r.writing = <<>>
  <2> DEFINE s == [r EXCEPT !.writing = r.queue, !.queue = <<>>]
  <2>1. StartWriter(r) = s
    BY <1>3 DEF StartWriter
  <2>2. PICK k \in 0..Size : /\ n <= k /\ k <= r.expected
                             /\ r.writing = Piece(n, k) /\ r.queue = Piece(k, r.expected)
    BY DEF InPlace, FollowsOn
  <2>3. k = n
    <3>1. Len(Piece(n, k)) = k - n
      BY <1>1, <2>2, PieceFacts
    <3>2. Len(Piece(n, k)) = 0
      BY <1>3, <2>2, EmptySeq
    <3>3. QED
      BY <1>1, <3>1, <3>2, SizeAssumption
  <2>4. Piece(r.expected, r.expected) = <<>> /\ r.expected <= r.expected
    BY <1>1, WholePiece, SizeAssumption
  <2>5. <<>> \in Data
    BY <1>1, <2>4, PieceFacts
  <2>6. s \in RxStates
    BY <1>1, <2>5 DEF RxStates
  <2>7. /\ s.expected = r.expected /\ s.prehash = r.prehash /\ s.hashed = r.hashed
        /\ s.writing = r.queue /\ s.queue = <<>> /\ s.ahead = r.ahead
    BY <1>1 DEF RxStates
  <2> HIDE DEF s
  <2>8. /\ n <= r.expected /\ s.writing = Piece(n, r.expected)
        /\ s.queue = Piece(r.expected, r.expected)
    BY <2>2, <2>3, <2>4, <2>7
  <2>9. FollowsOn(s, n)
    BY <1>1, <2>4, <2>7, <2>8 DEF FollowsOn
  <2>10. InPlace(s, n)
    BY <2>6, <2>7, <2>9 DEF InPlace
  <2>11. AllEarly(r) => AllEarly(s)
    BY <2>7 DEF AllEarly
  <2>12. QED
    BY <2>1, <2>7, <2>10, <2>11
<1>4. QED
  BY <1>2, <1>3

(* What a chunk, early or late, adds.                                       *)
LEMMA ReceiveFits ==
    ASSUME NEW r, NEW n, InPlace(r, n), AllEarly(r),
           NEW m, m.off \in 0..Size, m.data \in Data, IsPiece(m.data, m.off),
           ~Known(r, m.off, Len(m.data))
    PROVE  /\ InPlace(Receive(r, m), n) /\ AllEarly(Receive(r, m))
           /\ r.expected <= Receive(r, m).expected
<1> DEFINE a == m.off
           l == Len(m.data)
           x == r.expected
<1>1. x \in 0..Size /\ AheadFits(r.ahead) /\ r \in RxStates /\ x <= x
  BY SizeAssumption DEF InPlace, RxStates
<1>2. l \in 0..Size /\ a + l \in 0..Size /\ m.data = Piece(a, a + l)
  BY PieceLength
<1>3. a + l > x /\ \A i \in DOMAIN r.ahead : r.ahead[i].off # a
  <2>1. ~(a + l <= x)
    BY DEF Known
  <2>2. a + l > x
    BY <1>1, <1>2, <2>1, SizeAssumption
  <2>3. QED
    BY <2>2 DEF Known
<1>4. CASE a <= x
  <2> DEFINE s == Queued(r, Piece(x, a + l))
             t == TakeAhead(s)
  <2>1. NewData(r, m) = Piece(x, a + l)
    <3>1. CASE a < x
      <4>1. NewData(r, m) = SubSeq(Piece(a, a + l), x - a + 1, l)
        BY <1>2, <3>1 DEF NewData
      <4>2. a + l <= Size /\ x <= a + l
        BY <1>1, <1>2, <1>3, SizeAssumption
      <4>3. QED
        BY <1>1, <1>2, <1>4, <4>1, <4>2, RestOfPiece
    <3>2. CASE ~(a < x)
      <4>1. a = x
        BY <1>1, <1>4, <3>2, SizeAssumption
      <4>2. QED
        BY <1>2, <3>2, <4>1 DEF NewData
    <3>3. QED
      BY <3>1, <3>2
  <2>2. x <= a + l
    BY <1>1, <1>2, <1>3, SizeAssumption
  <2>3. InPlace(s, n) /\ s.expected = a + l
    BY <1>2, <2>2, QueuedFollows
  <2> HIDE DEF s
  <2>4. InPlace(t, n) /\ AllEarly(t) /\ s.expected <= t.expected
    BY <2>3, TakeAheadFits
  <2> HIDE DEF t
  <2>5. /\ InPlace(StartWriter(t), n) /\ AllEarly(StartWriter(t))
        /\ StartWriter(t).expected = t.expected
    BY <2>4, StartWriterFits
  <2>6. Receive(r, m) = StartWriter(t)
    BY <1>4, <2>1 DEF Receive, s, t
  <2>7. x <= t.expected
    <3>1. t.expected \in 0..Size
      BY <2>4 DEF InPlace, RxStates
    <3>2. QED
      BY <1>1, <1>2, <2>2, <2>3, <2>4, <3>1, SizeAssumption
  <2>8. QED
    BY <2>5, <2>6, <2>7
<1>5. CASE ~(a <= x) /\ Receive(r, m) = r
  BY <1>1, <1>5
<1>6. CASE ~(a <= x) /\ Receive(r, m) # r
  <2> DEFINE e == [off |-> a, data |-> m.data]
  <2>1. Receive(r, m) = [r EXCEPT !.ahead = Append(r.ahead, e)]
    BY <1>1, <1>6 DEF Receive, RxStates
  <2>2. e \in Entries /\ e.off = a /\ e.data = m.data
    BY DEF Entries
  <2> HIDE DEF e
  <2>3. AheadFits(Append(r.ahead, e))
    BY <1>1, <1>3, <2>2, AheadAppend
  <2> DEFINE q == Append(r.ahead, e)
  <2>4. \A i \in DOMAIN q : q[i].off > x
    <3>1. r.ahead \in Seq(Entries)
      BY <1>1 DEF AheadFits
    <3>2. /\ DOMAIN r.ahead = 1..Len(r.ahead) /\ Len(r.ahead) \in Nat
          /\ DOMAIN q = 1..(Len(r.ahead) + 1)
          /\ \A i \in 1..Len(r.ahead) : q[i] = r.ahead[i]
          /\ q[Len(r.ahead) + 1] = e
      BY <2>2, <3>1, AppendProperties, LenProperties
    <3>3. \A i \in DOMAIN q : i \in DOMAIN r.ahead \/ i = Len(r.ahead) + 1
      BY <3>2
    <3>4. e.off > x
      BY <1>1, <1>6, <2>2, SizeAssumption
    <3>5. QED
      BY <3>2, <3>3, <3>4 DEF AllEarly
  <2> HIDE DEF q
  <2> DEFINE s == [r EXCEPT !.ahead = q]
  <2>5. InPlace(s, n) /\ s.expected = x /\ s.ahead = q
    BY <2>3, OtherAhead DEF q
  <2>6. Receive(r, m) = s
    BY <2>1 DEF q
  <2> HIDE DEF s
  <2>7. QED
    BY <1>1, <2>4, <2>5, <2>6 DEF AllEarly
<1>7. QED
  BY <1>4, <1>5, <1>6

(* The hash has caught up with the disk.                                    *)
LEMMA CaughtUpIs ==
    ASSUME NEW r, IsPiece(part, 0), InPlace(r, Len(part))
    PROVE  CaughtUp(r) = Piece(0, Len(part)) /\ part = Piece(0, Len(part)) /\ Len(part) \in 0..Size
<1> DEFINE n == Len(part)
<1>1. /\ n \in 0..Size /\ r.prehash \in 0..Size /\ r.prehash <= n
      /\ r.hashed = Piece(r.prehash, n)
  BY DEF InPlace, RxStates
<1>2. 0 \in 0..Size
  BY SizeAssumption
<1>3. 0 + n = n
  BY <1>1, SizeAssumption
<1>4. part = Piece(0, n)
  <2>1. part = Piece(0, 0 + n)
    BY <1>2, PieceLength
  <2>2. QED
    BY <1>3, <2>1
<1> DEFINE h == r.prehash
<1> HIDE DEF n, h
<1>5. SubSeq(Piece(0, n), 1, h) = Piece(0, h)
  <2>1. 1 \in Nat \ {0} /\ h \in Nat /\ 0 <= n /\ 1 <= h + 1 /\ h <= n - 0 /\ 0 + 1 - 1 = 0 /\ 0 + h = h
    BY <1>1, SizeAssumption DEF h
  <2>2. SubSeq(Piece(0, n), 1, h) = Piece(0 + 1 - 1, 0 + h)
    BY <1>1, <1>2, <2>1, PieceOfPiece
  <2>3. QED
    BY <2>1, <2>2
<1>6. Piece(0, h) \o Piece(h, n) = Piece(0, n)
  <2>1. n \in 0..Size /\ h \in 0..Size /\ 0 <= h /\ h <= n
    BY <1>1, SizeAssumption DEF h
  <2>2. QED
    BY <1>2, <2>1, JoinPieces
<1>7. CaughtUp(r) = SubSeq(part, 1, h) \o r.hashed
  BY DEF CaughtUp, h
<1>8. QED
  BY <1>1, <1>4, <1>5, <1>6, <1>7 DEF n, h

(* The blocks of one write are on disk, and hashed.                         *)
LEMMA WrittenFits ==
    ASSUME NEW r, IsPiece(part, 0), InPlace(r, Len(part))
    PROVE  LET c == Len(part \o r.writing)
               s == [r EXCEPT !.hashed = CaughtUp(r) \o r.writing, !.prehash = 0,
                              !.writing = <<>>]
           IN  /\ c \in 0..Size /\ part \o r.writing = Piece(0, c)
               /\ InPlace(s, c) /\ s.expected = r.expected /\ s.ahead = r.ahead
               /\ s.hashed = Piece(0, c) /\ s.sha = r.sha
<1> DEFINE n == Len(part)
<1>1. PICK c \in 0..Size : /\ n <= c /\ c <= r.expected
                           /\ r.writing = Piece(n, c) /\ r.queue = Piece(c, r.expected)
  BY DEF InPlace, FollowsOn
<1>2. CaughtUp(r) = Piece(0, n) /\ part = Piece(0, n) /\ n \in 0..Size
  BY CaughtUpIs
<1>3. 0 \in 0..Size /\ 0 <= n /\ c - 0 = c /\ 0 <= c /\ c <= c
  BY <1>1, <1>2, SizeAssumption
<1>4. Piece(0, n) \o Piece(n, c) = Piece(0, c)
  BY <1>1, <1>2, <1>3, JoinPieces
<1>5. Len(Piece(0, c)) = c /\ Piece(0, c) \in Data
  BY <1>3, PieceFacts
<1>6. part \o r.writing = Piece(0, c) /\ CaughtUp(r) \o r.writing = Piece(0, c)
      /\ Len(part \o r.writing) = c
  BY <1>1, <1>2, <1>4, <1>5
<1> DEFINE h == Piece(0, c)
           s == [r EXCEPT !.hashed = h, !.prehash = 0, !.writing = <<>>]
<1> HIDE DEF h
<1>7. <<>> \in Data /\ Piece(c, c) = <<>>
  BY <1>3, WholePiece, PieceFacts
<1>8. r \in RxStates /\ h \in Data
  BY <1>5 DEF InPlace, h
<1>9. s \in RxStates
  BY <1>3, <1>7, <1>8 DEF RxStates
<1>10. /\ s.expected = r.expected /\ s.prehash = 0 /\ s.hashed = h /\ s.sha = r.sha
       /\ s.writing = <<>> /\ s.queue = r.queue /\ s.ahead = r.ahead
  BY <1>8 DEF RxStates
<1>11. s = [r EXCEPT !.hashed = CaughtUp(r) \o r.writing, !.prehash = 0, !.writing = <<>>]
  BY <1>6 DEF h
<1> HIDE DEF s
<1>12. FollowsOn(s, c)
  BY <1>1, <1>3, <1>7, <1>10 DEF FollowsOn
<1>13. InPlace(s, c)
  BY <1>3, <1>9, <1>10, <1>12 DEF InPlace, h
<1>14. QED
  BY <1>6, <1>10, <1>11, <1>13 DEF h

------------------------------------------------------------------------------
(* What is on its way.                                                      *)

RMessages ==
    [t : {"offer"}] \cup {[t |-> "complete", sha |-> Source]}
      \cup {m \in [t : {"chunk"}, off : 0..Size, data : Data] : IsPiece(m.data, m.off)}
      \cup [t : {"reject"}, reason : {"cancelled", "failed"}]

SMessages ==
    [t : {"accept", "resume"}, off : 0..Size] \cup [t : {"ack"}, off : 0..Size, ok : BOOLEAN \cup {None}]
      \cup [t : {"waiting"}] \cup [t : {"reject"}, reason : {"cancelled", "failed"}]

Honest(bound, done) ==
    {m \in SMessages : /\ m.t \in {"accept", "resume", "ack"} => m.off <= bound
                       /\ m.t = "ack" => m.ok # TRUE \/ done}

Forgets == "rrestart" \in Faults

(* What the receiver has for good; nothing is for good where it may crash.  *)
Reached(inc, r) ==
    IF r # None THEN r.expected
    ELSE IF inc.state = "none" \/ inc.ask THEN 0 ELSE Size

BoundBy(inc, r) == IF Forgets THEN Size ELSE Reached(inc, r)
Bound == BoundBy(incoming, rx)

DoneBy(inc, pl) == pl = Source /\ (Forgets \/ inc.state = "complete")
Done == DoneBy(incoming, placed)

LinkInv ==
    /\ line \in DOMAIN LineFaults
    /\ {session, sUp, rUp} \subseteq Sessions \cup {0} /\ alive \in BOOLEAN
    /\ told \subseteq Sides /\ faults \in 0..MaxFaults
    /\ toR \in Seq(RMessages)

AnswersInv == toS \in Seq(Honest(Bound, Done))

------------------------------------------------------------------------------
(* The sender.                                                              *)

OutStates ==
    [acked : 0..Size, next : Nat, hashed : Data, result : BOOLEAN \cup {None}, done : BOOLEAN,
     stalls : 0..MaxStalls, rewind : BOOLEAN, wake : BOOLEAN, late : BOOLEAN]

OutRight(o, bound, done) ==
    /\ o \in OutStates
    /\ IsPiece(o.hashed, 0)
    /\ o.acked <= bound
    /\ o.result = TRUE => done

Jobs == {j \in [off : 0..Size, sess : Sessions \cup {0}, len : 0..Size] : j.off + j.len <= Size}

TaskStates ==
    [pc : {"none", "loop", "linkwait", "prep", "sending", "hash", "complete",
           "wait", "giveup", "stalled"},
     path : Sessions \cup {0}, job : Jobs \cup BOOLEAN \cup {None}]

TaskRight(tk) ==
    /\ tk \in TaskStates
    /\ tk.pc \in {"prep", "sending"} => tk.job \in Jobs
    /\ tk.pc = "complete" => tk.job \in BOOLEAN

OutgoingStates ==
    [state : Terminal \cup Unknown \cup {"offered", "transferring", "paused"},
     tries : 0..2, waiting : BOOLEAN, unsent : BOOLEAN]

Works(tk) == tk.pc \notin {"none", "giveup", "stalled"}

ShownRight(og, done) ==
    /\ og \in OutgoingStates
    /\ og.state \in {"new", "paused", "transferring"} => og.tries = 0
    /\ og.state = "complete" => done

(* The transfer og, the state o and the task tk of the sender.              *)
SenderRight(og, o, tk, bound, done) ==
    /\ ShownRight(og, done)
    /\ TaskRight(tk)
    /\ o = None \/ OutRight(o, bound, done)
    /\ tk.pc # "none" => OutRight(o, bound, done)
    /\ Works(tk) => o.stalls < MaxStalls /\ og.state = "transferring"

JournalRight(j, done) == j \in {None, "live"} \cup Terminal /\ (j = "complete" => done)

SenderInv == SenderRight(outgoing, out, task, Bound, Done) /\ JournalRight(sJournal, Done)

------------------------------------------------------------------------------
(* The receiver.                                                            *)

(* inc, r, p, f, pl and j: the transfer, its state while data comes in, the
   partial file, the finalizer, the file in its place, and the journal.     *)
RxRight(inc, r, p, f) ==
    r = None \/ /\ IsPiece(p, 0) /\ InPlace(r, Len(p)) /\ AllEarly(r)
                /\ f = None
                /\ inc.state \notin Ended \cup {"none"} /\ ~inc.ask

FinRight(inc, r, p, f, pl) ==
    f = None \/ /\ r = None
                /\ f \in [phase : {"verify", "place", "moved", "unmoved"}, ok : {TRUE}]
                /\ f.phase \in {"verify", "place"} => p \in {None, Source}
                /\ f.phase = "moved" => pl = Source
                /\ inc.state \notin {"complete", "none"} /\ ~inc.ask

DiskRight(inc, p, pl, j) ==
    /\ p = None \/ IsPiece(p, 0)
    /\ pl \in {None, Source}
    /\ "complete" \in {inc.state, j} => pl = Source
    /\ inc.state \in {"cancelled", "failed"} => p = None

IncomingStates ==
    [state : Ended \cup {"none", "offered", "accepted", "transferring", "paused"},
     ask : BOOLEAN, unsent : BOOLEAN]

IncomingRight(inc, j) ==
    /\ inc \in IncomingStates
    /\ inc.ask => inc.state = "offered"
    /\ j \in {None, "ask", "live"} \cup Ended

ReceiverRight(inc, r, p, f, pl, j) ==
    /\ RxRight(inc, r, p, f) /\ FinRight(inc, r, p, f, pl)
    /\ DiskRight(inc, p, pl, j) /\ IncomingRight(inc, j)

ReceiverInv == ReceiverRight(incoming, rx, part, fin, placed, rJournal)

IInv == LinkInv /\ AnswersInv /\ SenderInv /\ ReceiverInv

------------------------------------------------------------------------------
(* Lists of messages.                                                       *)

LEMMA PutIn ==
    ASSUME NEW S, NEW q \in Seq(S), NEW m \in S, NEW up
    PROVE  Put(q, up, m) \in Seq(S)
BY AppendProperties DEF Put

LEMMA ArrivedFrom ==
    ASSUME NEW S, NEW q \in Seq(S), NEW up, NEW i \in Arriving(q, up)
    PROVE  i \in DOMAIN q /\ q[i] \in S /\ RemoveAt(q, i) \in Seq(S)
<1>1. i \in DOMAIN q
  BY DEF Arriving
<1>2. QED
  BY <1>1, LenProperties, ElementOfSeq, RemoveOne

LEMMA StillHonest ==
    ASSUME NEW b1, NEW b2 \in Int, NEW d1, NEW d2, NEW q \in Seq(Honest(b1, d1)),
           b1 \in Int, b1 <= b2, d1 => d2
    PROVE  q \in Seq(Honest(b2, d2))
<1>1. ASSUME NEW m \in Honest(b1, d1) PROVE m \in Honest(b2, d2)
  <2>1. m \in SMessages
    BY DEF Honest
  <2>2. ASSUME m.t \in {"accept", "resume", "ack"} PROVE m.off <= b2
    <3>1. m.off \in 0..Size
      BY <2>1, <2>2 DEF SMessages
    <3>2. m.off <= b1
      BY <2>2 DEF Honest
    <3>3. QED
      BY <3>1, <3>2, SizeAssumption
  <2>3. QED
    BY <2>1, <2>2 DEF Honest
<1>2. QED
  BY <1>1, SeqMonotonic

(* What the sender is told is so.                                           *)
LEMMA HonestMessage ==
    ASSUME NEW bound, NEW done, NEW m \in Honest(bound, done)
    PROVE  /\ m.t \in {"accept", "resume", "ack"} => m.off \in 0..Size /\ m.off <= bound
           /\ m.t = "ack" => m.ok \in BOOLEAN \cup {None} /\ (m.ok = TRUE => done)
<1>1. m \in SMessages
  BY DEF Honest
<1>2. m.t \in {"accept", "resume", "ack"} => m.off \in 0..Size
  BY <1>1 DEF SMessages
<1>3. m.t = "ack" => m.ok \in BOOLEAN \cup {None}
  BY <1>1 DEF SMessages
<1>4. QED
  BY <1>2, <1>3 DEF Honest

LEMMA SenderSays ==
    /\ Offer \in RMessages
    /\ \A state : Reject(Reason(state)) \in RMessages
    /\ Reject("failed") \in RMessages /\ Reject("cancelled") \in RMessages
    /\ [t |-> "complete", sha |-> Source] \in RMessages
    /\ \A a \in 0..Size, b \in 0..Size :
          a <= b => [t |-> "chunk", off |-> a, data |-> Piece(a, b)] \in RMessages
<1>1. Offer \in RMessages
  BY DEF RMessages, Offer
<1>2. \A reason \in {"failed", "cancelled"} : Reject(reason) \in RMessages
  BY DEF RMessages, Reject
<1>3. \A state : Reject(Reason(state)) \in RMessages
  BY <1>2 DEF Reason
<1>4. [t |-> "complete", sha |-> Source] \in RMessages
  BY DEF RMessages
<1>5. ASSUME NEW a \in 0..Size, NEW b \in 0..Size, a <= b
      PROVE  [t |-> "chunk", off |-> a, data |-> Piece(a, b)] \in RMessages
  <2> DEFINE d == Piece(a, b)
             m == [t |-> "chunk", off |-> a, data |-> d]
  <2>1. d \in Data /\ IsPiece(d, a)
    BY <1>5, PieceFacts, ThatIsAPiece
  <2> HIDE DEF d
  <2>2. m \in [t : {"chunk"}, off : 0..Size, data : Data] /\ m.data = d /\ m.off = a
    BY <2>1
  <2> HIDE DEF m
  <2>3. m \in RMessages
    BY <2>1, <2>2 DEF RMessages
  <2>4. QED
    BY <2>3 DEF m, d
<1>6. QED
  BY <1>1, <1>2, <1>3, <1>4, <1>5

(* The link, with other things in flight.                                   *)
LEMMA FaultsLeft ==
    ASSUME faults \in 0..MaxFaults
    PROVE  /\ \A f : Happens(f) => faults' \in 0..MaxFaults
           /\ \A busy : Timeout(busy) => faults' \in 0..MaxFaults
BY FaultAssumption DEF Happens, Timeout

LEMMA Sent == \A up : SendResults(up) \subseteq BOOLEAN
BY DEF SendResults

------------------------------------------------------------------------------
(* The sender's state, a field at a time.                                   *)

LEMMA OutHolds ==
    ASSUME NEW o, NEW bound, NEW done, OutRight(o, bound, done)
    PROVE  /\ o \in OutStates /\ IsPiece(o.hashed, 0) /\ o.hashed \in Data
           /\ o.acked \in 0..Size /\ o.acked \in Nat /\ o.next \in Nat /\ o.acked <= bound
           /\ o.result \in BOOLEAN \cup {None} /\ o.stalls \in 0..MaxStalls /\ {o.done, o.rewind, o.wake, o.late} \subseteq BOOLEAN
BY SizeAssumption DEF OutRight, OutStates

(* The task goes on to pc, with nothing in hand.                            *)
LEMMA TaskGoesOn ==
    ASSUME NEW tk, TaskRight(tk), NEW pc \in {"loop", "linkwait", "hash", "wait", "giveup", "stalled"}
    PROVE  /\ TaskRight([tk EXCEPT !.pc = pc]) /\ [tk EXCEPT !.pc = pc].pc = pc
           /\ TaskRight([tk EXCEPT !.pc = pc, !.job = None])
           /\ [tk EXCEPT !.pc = pc, !.job = None].pc = pc
BY DEF TaskRight, TaskStates

LEMMA Idle ==
    /\ TaskRight(NoTask) /\ NoTask.pc = "none" /\ ~Works(NoTask)
    /\ TaskRight(NewTask) /\ NewTask.pc = "loop"
<1>1. NoTask = [pc |-> "none", path |-> 0, job |-> None] /\ NewTask = [pc |-> "loop", path |-> 0, job |-> None]
  BY DEF NoTask, NewTask
<1>2. QED
  BY <1>1 DEF TaskRight, TaskStates, Works

(* Without a task, and with nothing to send.                                *)
LEMMA EndedRight ==
    ASSUME NEW og, NEW bound, NEW done, ShownRight(og, done)
    PROVE  SenderRight(og, None, NoTask, bound, done)
BY Idle DEF SenderRight

LEMMA ShownPaused ==
    ASSUME NEW og, NEW done, ShownRight(og, done), og.tries = 0
    PROVE  ShownRight([og EXCEPT !.state = "paused"], done)
BY DEF ShownRight, OutgoingStates

LEMMA FileEnds ==
    ASSUME NEW state \in {"cancelled", "failed"}, NEW unsent \in BOOLEAN, NEW bound, NEW done,
           EndOutgoing(state, unsent)
    PROVE  SenderRight(outgoing', out', task', bound, done)
<1>1. ShownRight(outgoing', done)
  BY DEF EndOutgoing, ShownRight, OutgoingStates, Terminal
<1>2. QED
  BY <1>1, EndedRight DEF EndOutgoing

------------------------------------------------------------------------------
(* The send loop, from one await to the next.                               *)

LEMMA SettleRight ==
    ASSUME NEW o, NEW tk, NEW bound, NEW done, OutRight(o, bound, done), TaskRight(tk),
           ShownRight(outgoing, done), outgoing.state = "transferring", o.stalls < MaxStalls,
           Settle(o, tk)
    PROVE  SenderRight(outgoing', out', task', bound, done)
<1>1. /\ o \in OutStates /\ o.acked \in Nat /\ o.next \in Nat /\ o.stalls \in 0..MaxStalls
      /\ {o.done, o.rewind, o.wake, o.late} \subseteq BOOLEAN
  BY OutHolds
<1>2. CASE ~o.late
  <2>1. /\ out' = [o EXCEPT !.wake = FALSE]
        /\ task' = [tk EXCEPT !.pc = "wait", !.job = None]
        /\ outgoing' = outgoing
    BY <1>2 DEF Settle
  <2>2. TaskRight(task') /\ task'.pc = "wait"
    BY <2>1, TaskGoesOn
  <2>3. OutRight(out', bound, done) /\ out'.stalls = o.stalls
    BY <2>1 DEF OutRight, OutStates
  <2>4. QED
    BY <2>1, <2>2, <2>3 DEF SenderRight
<1>3. CASE o.late
  <2> DEFINE back == [o EXCEPT !.stalls = @ + 1, !.next = o.acked,
                               !.done = FALSE, !.wake = FALSE, !.late = FALSE]
  <2>1. /\ out' = back
        /\ IF back.stalls < MaxStalls
           THEN task' = [tk EXCEPT !.pc = "loop", !.job = None] /\ outgoing' = outgoing
           ELSE /\ task' = [tk EXCEPT !.pc = "stalled", !.job = None]
                /\ outgoing' = [outgoing EXCEPT !.state = "paused"]
    BY <1>3 DEF Settle
  <2>2. OutRight(back, bound, done)
    <3> DEFINE stalls == o.stalls + 1
               next == o.acked
    <3>1. stalls \in 0..MaxStalls /\ next \in Nat
      BY <1>1 DEF MaxStalls
    <3>2. back = [o EXCEPT !.stalls = stalls, !.next = next, !.done = FALSE,
                           !.wake = FALSE, !.late = FALSE]
      BY <1>1 DEF OutStates
    <3> HIDE DEF stalls, next
    <3>3. QED
      BY <3>1, <3>2 DEF OutRight, OutStates
  <2> HIDE DEF back
  <2>3. CASE back.stalls < MaxStalls
    <3>1. task' = [tk EXCEPT !.pc = "loop", !.job = None] /\ outgoing' = outgoing
      BY <2>1, <2>3
    <3>2. TaskRight(task') /\ task'.pc = "loop"
      BY <3>1, TaskGoesOn
    <3>3. QED
      BY <2>1, <2>2, <2>3, <3>1, <3>2 DEF SenderRight
  <2>4. CASE ~(back.stalls < MaxStalls)
    <3>1. /\ task' = [tk EXCEPT !.pc = "stalled", !.job = None]
          /\ outgoing' = [outgoing EXCEPT !.state = "paused"]
      BY <2>1, <2>4
    <3>2. TaskRight(task') /\ task'.pc = "stalled"
      BY <3>1, TaskGoesOn
    <3>3. ShownRight(outgoing', done)
      BY <3>1, ShownPaused DEF ShownRight
    <3>4. QED
      BY <2>1, <2>2, <3>2, <3>3 DEF SenderRight, Works
  <2>5. QED
    BY <2>3, <2>4
<1>4. QED
  BY <1>2, <1>3

LEMMA AnnounceRight ==
    ASSUME NEW o, NEW tk, NEW bound, NEW done, OutRight(o, bound, done), TaskRight(tk),
           ShownRight(outgoing, done), outgoing.state = "transferring", o.stalls < MaxStalls,
           toR \in Seq(RMessages), Announce(o, tk)
    PROVE  SenderRight(outgoing', out', task', bound, done) /\ toR' \in Seq(RMessages)
<1>1. CASE o.next >= Size /\ Len(o.hashed) >= Size /\ ~o.done
  <2>1. PICK ok \in SendResults(sUp) :
          /\ toR' = IF ok THEN Put(toR, sUp, [t |-> "complete", sha |-> o.hashed]) ELSE toR
          /\ out' = o
          /\ task' = [tk EXCEPT !.pc = "complete", !.job = ok]
          /\ outgoing' = outgoing
    BY <1>1 DEF Announce
  <2>2. ok \in BOOLEAN
    BY Sent
  <2>3. o.hashed = Source
    <3>1. 0 \in 0..Size /\ IsPiece(o.hashed, 0)
      BY OutHolds, SizeAssumption
    <3>2. Len(o.hashed) \in 0..Size /\ o.hashed = Piece(0, 0 + Len(o.hashed))
      BY <3>1, PieceLength
    <3>3. 0 + Len(o.hashed) = Size
      BY <1>1, <3>2, SizeAssumption
    <3>4. QED
      BY <3>2, <3>3, WholePiece
  <2>4. toR' \in Seq(RMessages)
    <3>1. Put(toR, sUp, [t |-> "complete", sha |-> Source]) \in Seq(RMessages)
      BY SenderSays, PutIn
    <3>2. QED
      BY <2>1, <2>3, <3>1
  <2>5. TaskRight(task') /\ task'.pc = "complete"
    BY <2>1, <2>2 DEF TaskRight, TaskStates
  <2>6. QED
    BY <2>1, <2>4, <2>5 DEF SenderRight
<1>2. CASE ~(o.next >= Size /\ Len(o.hashed) >= Size /\ ~o.done)
  <2>1. Settle(o, tk) /\ toR' = toR
    BY <1>2 DEF Announce
  <2>2. QED
    BY <2>1, SettleRight
<1>3. QED
  BY <1>1, <1>2

(* A pass of the loop starts: the state, from which place to send.          *)
LEMMA RewoundRight ==
    ASSUME NEW bound, NEW done, OutRight(out, bound, done)
    PROVE  OutRight(Rewound, bound, done) /\ Rewound.stalls = out.stalls
<1>1. PICK next, dn : /\ Rewound = [out EXCEPT !.next = next, !.done = dn, !.rewind = FALSE]
                      /\ next \in Nat /\ dn \in BOOLEAN
  <2>1. /\ out \in OutStates /\ out.acked \in Nat /\ out.next \in Nat /\ out.done \in BOOLEAN
    BY OutHolds
  <2> DEFINE moved == task.path # 0 /\ task.path # sUp
             next == IF moved \/ out.rewind THEN out.acked ELSE out.next
             dn == IF moved THEN FALSE ELSE out.done
  <2>2. Rewound = [out EXCEPT !.next = next, !.done = dn, !.rewind = FALSE]
    BY <2>1 DEF Rewound, OutStates
  <2>3. next \in Nat /\ dn \in BOOLEAN
    BY <2>1
  <2>4. QED
    BY <2>2, <2>3
<1>2. QED
  BY <1>1 DEF OutRight, OutStates

(* A chunk to send next lies in the file.                                   *)
LEMMA JobRight ==
    ASSUME NEW next \in Nat, next < Size, sUp \in Sessions, NEW c \in Chunks[sUp]
    PROVE  [off |-> next, sess |-> sUp, len |-> Shorter(c, Size - next)] \in Jobs
<1>1. c \in Nat \ {0}
  BY ChunkAssumption
<1> DEFINE l == Shorter(c, Size - next)
<1>2. l \in 0..Size /\ next + l <= Size /\ next \in 0..Size
  BY <1>1, SizeAssumption DEF Shorter
<1> HIDE DEF l
<1>3. QED
  BY <1>2 DEF Jobs, l

LEMMA GoRight ==
    ASSUME NEW bound, NEW done, SenderRight(outgoing, out, task, bound, done),
           Works(task), toR \in Seq(RMessages), sUp \in Sessions, Go
    PROVE  SenderRight(outgoing', out', task', bound, done) /\ toR' \in Seq(RMessages)
<1> DEFINE o == Rewound
           tk == [task EXCEPT !.path = sUp]
<1>1. /\ OutRight(out, bound, done) /\ TaskRight(task) /\ ShownRight(outgoing, done)
      /\ out.stalls < MaxStalls /\ outgoing.state = "transferring"
  BY DEF SenderRight, Works
<1>2. OutRight(o, bound, done) /\ o.stalls < MaxStalls
  BY <1>1, RewoundRight
<1>3. TaskRight(tk)
  BY <1>1 DEF TaskRight, TaskStates
<1>4. Go <=> IF WindowOpen(o)
             THEN \E c \in Chunks[sUp] :
                    /\ out' = o
                    /\ task' = [tk EXCEPT !.pc = "prep",
                                          !.job = [off |-> o.next, sess |-> sUp,
                                                   len |-> Shorter(c, Size - o.next)]]
                    /\ UNCHANGED <<outgoing, toR>>
             ELSE IF o.next >= Size /\ Len(o.hashed) < Size
             THEN out' = o /\ task' = [tk EXCEPT !.pc = "hash"] /\ UNCHANGED <<outgoing, toR>>
             ELSE Announce(o, tk)
  BY DEF Go
<1>5. o.next \in Nat
  BY <1>2, OutHolds
<1> HIDE DEF o, tk
<1>6. CASE WindowOpen(o)
  <2>1. PICK c \in Chunks[sUp] :
                 /\ out' = o
                 /\ task' = [tk EXCEPT !.pc = "prep",
                                       !.job = [off |-> o.next, sess |-> sUp,
                                                len |-> Shorter(c, Size - o.next)]]
                 /\ outgoing' = outgoing /\ toR' = toR
    BY <1>4, <1>6
  <2> DEFINE job == [off |-> o.next, sess |-> sUp, len |-> Shorter(c, Size - o.next)]
  <2>2. job \in Jobs
    BY <1>5, <1>6, JobRight DEF WindowOpen
  <2>3. task' = [tk EXCEPT !.pc = "prep", !.job = job]
    BY <2>1
  <2> HIDE DEF job
  <2>4. TaskRight(task') /\ task'.pc = "prep"
    BY <1>3, <2>2, <2>3 DEF TaskRight, TaskStates
  <2>5. QED
    BY <1>1, <1>2, <2>1, <2>4 DEF SenderRight
<1>7. CASE ~WindowOpen(o) /\ o.next >= Size /\ Len(o.hashed) < Size
  <2>1. out' = o /\ task' = [tk EXCEPT !.pc = "hash"] /\ outgoing' = outgoing /\ toR' = toR
    BY <1>4, <1>7
  <2>2. TaskRight(task') /\ task'.pc = "hash"
    BY <1>3, <2>1, TaskGoesOn
  <2>3. QED
    BY <1>1, <1>2, <2>1, <2>2 DEF SenderRight
<1>8. CASE ~WindowOpen(o) /\ ~(o.next >= Size /\ Len(o.hashed) < Size)
  <2>1. Announce(o, tk)
    BY <1>4, <1>8
  <2>2. QED
    BY <1>1, <1>2, <1>3, <2>1, AnnounceRight
<1>9. QED
  BY <1>6, <1>7, <1>8

LEMMA TaskLoopRight ==
    ASSUME NEW bound, NEW done, SenderRight(outgoing, out, task, bound, done),
           toR \in Seq(RMessages), sUp \in Sessions \cup {0}, TaskLoop
    PROVE  SenderRight(outgoing', out', task', bound, done) /\ toR' \in Seq(RMessages)
<1>1. /\ OutRight(out, bound, done) /\ TaskRight(task) /\ ShownRight(outgoing, done)
      /\ out.stalls < MaxStalls /\ outgoing.state = "transferring" /\ Works(task)
  BY DEF SenderRight, Works, TaskLoop
<1>2. CASE out.result # None
  <2>1. /\ outgoing' = [outgoing EXCEPT !.state = IF out.result THEN "complete" ELSE "failed"]
        /\ out' = None /\ task' = NoTask /\ toR' = toR
    BY <1>2 DEF TaskLoop
  <2>2. out.result \in BOOLEAN
    BY <1>1, <1>2, OutHolds
  <2>3. ShownRight(outgoing', done)
    <3>1. CASE out.result = TRUE
      <4>1. outgoing' = [outgoing EXCEPT !.state = "complete"]
        BY <2>1, <3>1
      <4>2. done
        BY <1>1, <3>1 DEF OutRight
      <4>3. QED
        BY <1>1, <4>1, <4>2 DEF ShownRight, OutgoingStates, Terminal
    <3>2. CASE out.result = FALSE
      <4>1. outgoing' = [outgoing EXCEPT !.state = "failed"]
        BY <2>1, <3>2
      <4>2. QED
        BY <1>1, <4>1 DEF ShownRight, OutgoingStates, Terminal
    <3>3. QED
      BY <2>2, <3>1, <3>2
  <2>4. QED
    BY <2>1, <2>3, EndedRight
<1>3. CASE out.result = None /\ sUp = 0
  <2>1. task' = [task EXCEPT !.pc = "linkwait"] /\ outgoing' = outgoing /\ out' = out /\ toR' = toR
    BY <1>3 DEF TaskLoop
  <2>2. TaskRight(task') /\ task'.pc = "linkwait"
    BY <1>1, <2>1, TaskGoesOn
  <2>3. QED
    BY <1>1, <2>1, <2>2 DEF SenderRight
<1>4. CASE out.result = None /\ sUp # 0
  <2>1. Go /\ sUp \in Sessions
    BY <1>4 DEF TaskLoop
  <2>2. QED
    BY <1>1, <2>1, GoRight
<1>5. QED
  BY <1>2, <1>3, <1>4

(* The digest grows by what comes next.                                     *)
LEMMA HashChunkRight ==
    ASSUME NEW hashed, IsPiece(hashed, 0), NEW off \in 0..Size, NEW len \in 0..Size, off + len <= Size
    PROVE  IsPiece(HashChunk(hashed, off, len), 0) /\ HashChunk(hashed, off, len) \in Data
<1> DEFINE upTo == IF Len(hashed) < off THEN SubSeq(Source, 1, off) ELSE hashed
<1>1. 0 \in 0..Size /\ off + len \in 0..Size /\ 0 + 1 = 1 /\ 0 <= off
  BY SizeAssumption
<1>2. IsPiece(upTo, 0)
  BY <1>1, ThatIsAPiece DEF Piece
<1>3. HashChunk(hashed, off, len) = IF off <= Len(upTo) /\ Len(upTo) < off + len
                                    THEN upTo \o SubSeq(Source, Len(upTo) + 1, off + len)
                                    ELSE upTo
  BY DEF HashChunk
<1> HIDE DEF upTo
<1>4. upTo \in Data /\ Len(upTo) \in 0..Size /\ 0 + Len(upTo) = Len(upTo) /\ 0 <= Len(upTo)
      /\ upTo = Piece(0, 0 + Len(upTo))
  BY <1>1, <1>2, PieceLength, SizeAssumption
<1>5. CASE off <= Len(upTo) /\ Len(upTo) < off + len
  <2>1. HashChunk(hashed, off, len) = Piece(0, Len(upTo)) \o Piece(Len(upTo), off + len)
    BY <1>3, <1>4, <1>5 DEF Piece
  <2>2. Len(upTo) <= off + len /\ 0 <= off + len
    BY <1>1, <1>4, <1>5, SizeAssumption
  <2>3. HashChunk(hashed, off, len) = Piece(0, off + len)
    BY <1>1, <1>4, <2>1, <2>2, JoinPieces
  <2>4. QED
    BY <1>1, <2>2, <2>3, ThatIsAPiece, PieceFacts
<1>6. CASE ~(off <= Len(upTo) /\ Len(upTo) < off + len)
  BY <1>2, <1>3, <1>4, <1>6
<1>7. QED
  BY <1>5, <1>6

LEMMA PrepDoneRight ==
    ASSUME NEW bound, NEW done, SenderRight(outgoing, out, task, bound, done),
           toR \in Seq(RMessages), PrepDone
    PROVE  SenderRight(outgoing', out', task', bound, done) /\ toR' \in Seq(RMessages)
<1> DEFINE job == task.job
           hashed == HashChunk(out.hashed, job.off, job.len)
           m == [t |-> "chunk", off |-> job.off, data |-> SubSeq(Source, job.off + 1, job.off + job.len)]
<1>1. /\ OutRight(out, bound, done) /\ TaskRight(task) /\ ShownRight(outgoing, done)
      /\ out.stalls < MaxStalls /\ outgoing.state = "transferring" /\ task.pc = "prep"
      /\ outgoing' = outgoing
  BY DEF SenderRight, Works, PrepDone
<1>2. job.off \in 0..Size /\ job.len \in 0..Size /\ job.off + job.len <= Size
  BY <1>1 DEF TaskRight, Jobs
<1>3. out \in OutStates /\ IsPiece(out.hashed, 0) /\ out.acked \in Nat
  BY <1>1, OutHolds
<1>4. IsPiece(hashed, 0) /\ hashed \in Data
  BY <1>2, <1>3, HashChunkRight
<1>5. m \in RMessages
  <2>1. /\ job.off + job.len \in 0..Size /\ job.off <= job.off + job.len
        /\ m = [t |-> "chunk", off |-> job.off, data |-> Piece(job.off, job.off + job.len)]
    BY <1>2, SizeAssumption DEF Piece
  <2>2. QED
    BY <1>2, <2>1, SenderSays
<1>6. \/ /\ toR' = Put(toR, job.sess, m)
         /\ out' = [out EXCEPT !.hashed = hashed]
         /\ task' = [task EXCEPT !.pc = "sending"]
      \/ /\ out' = [out EXCEPT !.hashed = hashed, !.next = out.acked]
         /\ task' = [task EXCEPT !.pc = "loop", !.job = None]
         /\ toR' = toR
  BY DEF PrepDone
<1> HIDE DEF hashed, m
<1>7. CASE /\ toR' = Put(toR, job.sess, m)
           /\ out' = [out EXCEPT !.hashed = hashed]
           /\ task' = [task EXCEPT !.pc = "sending"]
  <2>1. OutRight(out', bound, done) /\ out'.stalls = out.stalls
    BY <1>1, <1>4, <1>7 DEF OutRight, OutStates
  <2>2. TaskRight(task') /\ task'.pc = "sending"
    BY <1>1, <1>7 DEF TaskRight, TaskStates
  <2>3. toR' \in Seq(RMessages)
    BY <1>5, <1>7, PutIn
  <2>4. QED
    BY <1>1, <2>1, <2>2, <2>3 DEF SenderRight
<1>8. CASE /\ out' = [out EXCEPT !.hashed = hashed, !.next = out.acked]
           /\ task' = [task EXCEPT !.pc = "loop", !.job = None]
           /\ toR' = toR
  <2>1. OutRight(out', bound, done) /\ out'.stalls = out.stalls
    BY <1>1, <1>3, <1>4, <1>8 DEF OutRight, OutStates
  <2>2. TaskRight(task') /\ task'.pc = "loop"
    BY <1>1, <1>8, TaskGoesOn
  <2>3. QED
    BY <1>1, <1>8, <2>1, <2>2 DEF SenderRight
<1>9. QED
  BY <1>6, <1>7, <1>8

LEMMA LoopStepRight ==
    ASSUME NEW bound, NEW done, SenderRight(outgoing, out, task, bound, done),
           toR \in Seq(RMessages), sUp \in Sessions \cup {0},
           LinkBack \/ ChunkSent \/ HashDone \/ CompleteSent \/ Wake \/ StallTimer(Busy)
    PROVE  SenderRight(outgoing', out', task', bound, done) /\ toR' \in Seq(RMessages)
<1>0. Works(task)
  BY DEF Works, LinkBack, ChunkSent, HashDone, CompleteSent, Wake, StallTimer
<1>1. /\ OutRight(out, bound, done) /\ TaskRight(task) /\ ShownRight(outgoing, done)
      /\ out.stalls < MaxStalls /\ outgoing.state = "transferring"
  BY <1>0 DEF SenderRight, Works
<1>2. /\ out \in OutStates /\ out.acked \in Nat /\ out.next \in Nat
  BY <1>1, OutHolds
<1>3. CASE LinkBack
  <2>1. Go /\ sUp \in Sessions
    BY <1>3 DEF LinkBack
  <2>2. QED
    BY <1>0, <2>1, GoRight
<1>4. CASE ChunkSent
  <2> DEFINE next == out.next + task.job.len
  <2>1. /\ task.pc = "sending" /\ out' = [out EXCEPT !.next = next]
        /\ task' = [task EXCEPT !.pc = "loop", !.job = None]
        /\ outgoing' = outgoing /\ toR' = toR
    BY <1>2, <1>4 DEF ChunkSent, OutStates, linkVars, flightVars
  <2>2. next \in Nat
    <3>1. task.job.len \in 0..Size
      BY <1>1, <2>1 DEF TaskRight, Jobs
    <3>2. QED
      BY <1>2, <3>1, SizeAssumption
  <2> HIDE DEF next
  <2>3. OutRight(out', bound, done) /\ out'.stalls = out.stalls
    BY <1>1, <2>1, <2>2 DEF OutRight, OutStates
  <2>4. TaskRight(task') /\ task'.pc = "loop"
    BY <1>1, <2>1, TaskGoesOn
  <2>5. QED
    BY <1>1, <2>1, <2>3, <2>4 DEF SenderRight
<1>5. CASE HashDone
  <2> DEFINE o == [out EXCEPT !.hashed = Source]
  <2>1. Announce(o, task)
    BY <1>5 DEF HashDone
  <2>2. Source \in Data /\ IsPiece(Source, 0)
    <3>1. 0 \in 0..Size /\ Size \in 0..Size /\ 0 <= Size
      BY SizeAssumption
    <3>2. QED
      BY <3>1, WholePiece, PieceFacts, ThatIsAPiece
  <2>3. OutRight(o, bound, done) /\ o.stalls = out.stalls
    BY <1>1, <2>2 DEF OutRight, OutStates
  <2> HIDE DEF o
  <2>4. QED
    BY <1>1, <2>1, <2>3, AnnounceRight
<1>6. CASE CompleteSent
  <2> DEFINE o == [out EXCEPT !.done = task.job]
  <2>1. Settle(o, task) /\ toR' = toR /\ task.pc = "complete"
    BY <1>6 DEF CompleteSent, linkVars, flightVars
  <2>2. task.job \in BOOLEAN
    BY <1>1, <2>1 DEF TaskRight
  <2>3. OutRight(o, bound, done) /\ o.stalls = out.stalls
    BY <1>1, <2>2 DEF OutRight, OutStates
  <2> HIDE DEF o
  <2>4. QED
    BY <1>1, <2>1, <2>3, SettleRight
<1>7. CASE Wake
  <2>1. /\ task' = [task EXCEPT !.pc = "loop"] /\ outgoing' = outgoing /\ out' = out /\ toR' = toR
    BY <1>7 DEF Wake, linkVars, flightVars
  <2>2. TaskRight(task') /\ task'.pc = "loop"
    BY <1>1, <2>1, TaskGoesOn
  <2>3. QED
    BY <1>1, <2>1, <2>2 DEF SenderRight
<1>8. CASE StallTimer(Busy)
  <2>1. out' = [out EXCEPT !.late = TRUE] /\ outgoing' = outgoing /\ task' = task /\ toR' = toR
    BY <1>8 DEF StallTimer, flightVars
  <2>2. OutRight(out', bound, done) /\ out'.stalls = out.stalls
    BY <1>1, <2>1 DEF OutRight, OutStates
  <2>3. QED
    BY <1>1, <2>1, <2>2 DEF SenderRight
<1>9. QED
  BY <1>3, <1>4, <1>5, <1>6, <1>7, <1>8

------------------------------------------------------------------------------
(* What the sender makes of an answer.                                      *)

LEMMA NothingYet ==
    ASSUME NEW bound \in Nat
    PROVE  0 \in 0..Size /\ 0 <= bound /\ None # TRUE
<1>1. None # TRUE
  BY NoneAssumption
<1>2. 0 \in 0..Size /\ 0 <= bound
  BY SizeAssumption
<1>3. QED
  BY <1>1, <1>2, Zenon

LEMMA ShownAnswered ==
    ASSUME NEW og, NEW done, ShownRight(og, done)
    PROVE  /\ ShownRight([og EXCEPT !.state = "transferring", !.tries = 0, !.waiting = FALSE], done)
           /\ [og EXCEPT !.state = "transferring", !.tries = 0, !.waiting = FALSE].state = "transferring"
           /\ ShownRight([og EXCEPT !.tries = 0, !.waiting = TRUE], done)
           /\ [og EXCEPT !.tries = 0, !.waiting = TRUE].state = og.state
<1>1. og \in OutgoingStates /\ 0 \in 0..2
  BY DEF ShownRight
<1>2. ASSUME NEW waiting \in BOOLEAN, NEW tries \in 0..2
      PROVE  /\ [og EXCEPT !.state = "transferring", !.tries = tries, !.waiting = waiting] \in OutgoingStates
             /\ [og EXCEPT !.tries = tries, !.waiting = waiting] \in OutgoingStates
             /\ [og EXCEPT !.tries = tries, !.waiting = waiting].state = og.state
             /\ [og EXCEPT !.tries = tries, !.waiting = waiting].tries = tries
  BY <1>1 DEF OutgoingStates
<1> DEFINE a == [og EXCEPT !.state = "transferring", !.tries = 0, !.waiting = FALSE]
           b == [og EXCEPT !.tries = 0, !.waiting = TRUE]
<1>3. a \in OutgoingStates /\ b \in OutgoingStates /\ b.state = og.state /\ b.tries = 0
  BY <1>1, <1>2, Zenon
<1>4. a.state = "transferring" /\ a.tries = 0
  BY <1>1 DEF OutgoingStates
<1> HIDE DEF a, b
<1>5. ShownRight(a, done) /\ ShownRight(b, done)
  BY <1>3, <1>4 DEF ShownRight
<1>6. QED
  BY <1>3, <1>4, <1>5 DEF a, b

LEMMA NewOutRight ==
    ASSUME NEW bound \in Nat, NEW done
    PROVE  OutRight(NewOut, bound, done)
<1>1. <<>> \in Data /\ IsPiece(<<>>, 0) /\ 0 \in 0..Size
  <2>1. 0 \in 0..Size /\ 0 <= 0
    BY SizeAssumption
  <2>2. Piece(0, 0) = <<>>
    BY <2>1, WholePiece
  <2>3. QED
    BY <2>1, <2>2, PieceFacts, ThatIsAPiece
<1>2. None # TRUE /\ 0 <= bound
  BY NothingYet
<1>3. NewOut \in OutStates
  BY <1>1 DEF NewOut, OutStates, MaxStalls
<1>4. NewOut.hashed = <<>> /\ NewOut.acked = 0 /\ NewOut.result = None
  BY DEF NewOut
<1>5. QED
  BY <1>1, <1>2, <1>3, <1>4 DEF OutRight

LEMMA RepeatRejectRight ==
    ASSUME NEW bound, NEW done, SenderRight(outgoing, out, task, bound, done),
           toR \in Seq(RMessages), told \subseteq Sides, RepeatReject
    PROVE  /\ SenderRight(outgoing', out', task', bound, done) /\ toR' \in Seq(RMessages)
           /\ told' \subseteq Sides
<1>1. outgoing' = outgoing /\ out' = out /\ task' = task
  BY DEF RepeatReject
<1>2. toR' \in Seq(RMessages)
  BY SenderSays, PutIn DEF RepeatReject
<1>3. told' \subseteq Sides
  BY DEF RepeatReject, Sides
<1>4. QED
  BY <1>1, <1>2, <1>3

LEMMA IgnoreRight ==
    ASSUME NEW bound, NEW done, SenderRight(outgoing, out, task, bound, done),
           toR \in Seq(RMessages), told \subseteq Sides, Ignore
    PROVE  /\ SenderRight(outgoing', out', task', bound, done) /\ toR' \in Seq(RMessages)
           /\ told' \subseteq Sides
BY DEF Ignore

LEMMA HandleAcceptRight ==
    ASSUME NEW bound \in Nat, NEW done, SenderRight(outgoing, out, task, bound, done),
           toR \in Seq(RMessages), told \subseteq Sides,
           NEW off \in 0..Size, off <= bound, HandleAccept(off)
    PROVE  /\ SenderRight(outgoing', out', task', bound, done) /\ toR' \in Seq(RMessages)
           /\ told' \subseteq Sides
<1>0. TaskRight(task) /\ ShownRight(outgoing, done) /\ (out = None \/ OutRight(out, bound, done))
  BY DEF SenderRight
<1>1. CASE outgoing.state \in {"cancelled", "failed"}
  <2>1. RepeatReject
    BY <1>1 DEF HandleAccept, Unknown
  <2>2. QED
    BY <2>1, RepeatRejectRight
<1>2. CASE outgoing.state \in Unknown \cup {"complete"}
  <2>1. Ignore
    BY <1>2 DEF HandleAccept, Unknown
  <2>2. QED
    BY <2>1, IgnoreRight
<1>3. CASE outgoing.state \notin Unknown \cup {"complete", "cancelled", "failed"}
  <2> DEFINE o == IF out = None THEN NewOut ELSE out
  <2>1. /\ out' = Accepted(o, off)
        /\ outgoing' = [outgoing EXCEPT !.state = "transferring", !.tries = 0, !.waiting = FALSE]
        /\ task' = IF TaskRuns THEN task ELSE NewTask
        /\ toR' = toR /\ told' = told
    BY <1>3 DEF HandleAccept
  <2>2. OutRight(o, bound, done)
    BY <1>0, NewOutRight
  <2> HIDE DEF o
  <2>3. OutRight(out', bound, done) /\ out'.stalls = 0
    <3>1. PICK wake \in BOOLEAN : out' = [o EXCEPT !.acked = off, !.next = off, !.stalls = 0,
                                                   !.done = FALSE, !.late = FALSE, !.wake = wake]
      <4>1. o \in OutStates /\ o.wake \in BOOLEAN
        BY <2>2, OutHolds
      <4> DEFINE wake == IF TaskRuns THEN TRUE ELSE o.wake
      <4>2. out' = [o EXCEPT !.acked = off, !.next = off, !.stalls = 0,
                             !.done = FALSE, !.late = FALSE, !.wake = wake]
        BY <2>1, <4>1 DEF Accepted, OutStates
      <4>3. wake \in BOOLEAN
        BY <4>1
      <4>4. QED
        BY <4>2, <4>3
    <3>2. off \in Nat /\ 0 \in 0..MaxStalls
      BY SizeAssumption DEF MaxStalls
    <3>3. QED
      BY <2>2, <3>1, <3>2 DEF OutRight, OutStates
  <2>4. ShownRight(outgoing', done) /\ outgoing'.state = "transferring"
    BY <1>0, <2>1, ShownAnswered
  <2>5. TaskRight(task') /\ 0 < MaxStalls
    BY <1>0, <2>1, Idle DEF MaxStalls
  <2>6. QED
    BY <2>1, <2>3, <2>4, <2>5 DEF SenderRight
<1>4. QED
  BY <1>1, <1>2, <1>3

LEMMA ConfirmedRight ==
    ASSUME NEW bound \in Nat, NEW done, OutRight(out, bound, done),
           NEW off \in 0..Size, off <= bound, NEW ok \in BOOLEAN \cup {None}, ok # TRUE \/ done
    PROVE  /\ OutRight(Confirmed(off, ok), bound, done)
           /\ out.stalls < MaxStalls => Confirmed(off, ok).stalls < MaxStalls
<1>1. /\ out \in OutStates /\ out.acked \in Nat /\ out.next \in Nat /\ out.acked \in 0..Size
      /\ out.acked <= bound /\ out.result \in BOOLEAN \cup {None} /\ out.stalls \in 0..MaxStalls
      /\ out.late \in BOOLEAN
  BY OutHolds
<1> DEFINE more == off > out.acked
           acked == IF more THEN off ELSE out.acked
           stalls == IF more THEN 0 ELSE out.stalls
           late == IF more THEN FALSE ELSE out.late
           next == IF out.next < acked THEN acked ELSE out.next
           result == IF ok # None /\ off >= Size THEN ok ELSE out.result
           n == [out EXCEPT !.acked = acked, !.stalls = stalls, !.late = late, !.next = next,
                            !.result = result, !.wake = TRUE]
<1>2. Confirmed(off, ok) = n
  BY <1>1 DEF Confirmed, OutStates
<1>3. acked \in 0..Size /\ acked <= bound /\ acked \in Nat
  BY <1>1, SizeAssumption
<1>4. stalls \in 0..MaxStalls /\ late \in BOOLEAN /\ (out.stalls < MaxStalls => stalls < MaxStalls)
  <2>1. CASE more
    <3>1. stalls = 0 /\ late = FALSE
      BY <2>1
    <3>2. 0 \in 0..MaxStalls /\ 0 < MaxStalls
      BY DEF MaxStalls
    <3>3. QED
      BY <3>1, <3>2, Zenon
  <2>2. CASE ~more
    BY <1>1, <2>2
  <2>3. QED
    BY <2>1, <2>2
<1>5. result \in BOOLEAN \cup {None}
  BY <1>1
<1>6. result # TRUE \/ done
  BY DEF OutRight
<1> HIDE DEF acked
<1>7. next \in Nat
  BY <1>1, <1>3
<1> HIDE DEF stalls, late, next, result
<1>8. OutRight(n, bound, done) /\ n.stalls = stalls
  BY <1>3, <1>4, <1>5, <1>6, <1>7 DEF OutRight, OutStates
<1> HIDE DEF n
<1>9. QED
  BY <1>2, <1>4, <1>8

(* The answers, one at a time.                                              *)
LEMMA SenderHandlesRight ==
    ASSUME NEW bound \in Nat, NEW done, SenderRight(outgoing, out, task, bound, done),
           toR \in Seq(RMessages), toS \in Seq(Honest(bound, done)), told \subseteq Sides,
           SenderHandles
    PROVE  /\ SenderRight(outgoing', out', task', bound, done) /\ toR' \in Seq(RMessages)
           /\ told' \subseteq Sides /\ toS' \in Seq(Honest(bound, done))
           /\ UNCHANGED <<sJournal, pathVars, faults>>
<1>0. TaskRight(task) /\ ShownRight(outgoing, done) /\ (out = None \/ OutRight(out, bound, done))
      /\ (task.pc # "none" => OutRight(out, bound, done))
  BY DEF SenderRight
<1>1. PICK i \in DOMAIN toS : OnAccept(i) \/ OnResume(i) \/ OnAck(i) \/ OnWaiting(i) \/ OnReject(i)
  BY DEF SenderHandles
<1> DEFINE m == toS[i]
<1>2. UNCHANGED <<sJournal, pathVars, faults>>
  BY <1>1 DEF OnAccept, OnResume, OnAck, OnWaiting, OnReject
<1>3. i \in Arriving(toS, sUp) /\ toS' = RemoveAt(toS, i)
  BY <1>1 DEF OnAccept, OnResume, OnAck, OnWaiting, OnReject, Taken
<1>4. m \in Honest(bound, done) /\ toS' \in Seq(Honest(bound, done))
  BY <1>3, ArrivedFrom
<1>5. ASSUME m.t \in {"accept", "resume", "ack"} PROVE m.off \in 0..Size /\ m.off <= bound
  BY <1>4, <1>5 DEF Honest, SMessages
<1>6. ASSUME m.t = "ack" PROVE m.ok \in BOOLEAN \cup {None} /\ (m.ok # TRUE \/ done)
  BY <1>4, <1>6 DEF Honest, SMessages
<1>7. CASE OnAccept(i)
  <2>1. HandleAccept(m.off) /\ m.t = "accept"
    BY <1>7 DEF OnAccept, Taken
  <2>2. QED
    BY <1>2, <1>4, <1>5, <2>1, HandleAcceptRight
<1>8. CASE OnResume(i)
  <2>1. m.t = "resume"
    BY <1>8 DEF OnResume, Taken
  <2>2. CASE outgoing.state \in Unknown
    <3>1. /\ toR' = Put(toR, sUp, Reject("failed"))
          /\ outgoing' = outgoing /\ out' = out /\ task' = task /\ told' = told
      BY <1>8, <2>2 DEF OnResume
    <3>2. toR' \in Seq(RMessages)
      BY <3>1, SenderSays, PutIn
    <3>3. QED
      BY <1>2, <1>4, <3>1, <3>2
  <2>3. CASE outgoing.state \notin Unknown
    <3>1. HandleAccept(m.off)
      BY <1>8, <2>3 DEF OnResume
    <3>2. QED
      BY <1>2, <1>4, <1>5, <2>1, <3>1, HandleAcceptRight
  <2>4. QED
    BY <2>2, <2>3
<1>9. CASE OnAck(i)
  <2>1. m.t = "ack"
    BY <1>9 DEF OnAck, Taken
  <2>2. CASE RepeatReject
    BY <1>2, <1>4, <2>2, RepeatRejectRight
  <2>3. CASE Ignore
    BY <1>2, <1>4, <2>3, IgnoreRight
  <2>4. CASE /\ out # None /\ out' = Confirmed(m.off, m.ok)
             /\ UNCHANGED <<outgoing, task, toR, told>>
    <3>1. OutRight(out, bound, done)
      BY <1>0, <2>4
    <3>2. /\ OutRight(out', bound, done)
          /\ out.stalls < MaxStalls => out'.stalls < MaxStalls
      BY <1>5, <1>6, <2>1, <2>4, <3>1, ConfirmedRight
    <3>3. SenderRight(outgoing', out', task', bound, done)
      BY <2>4, <3>2 DEF SenderRight
    <3>4. QED
      BY <1>2, <1>4, <2>4, <3>3
  <2>5. QED
    BY <1>9, <2>2, <2>3, <2>4 DEF OnAck
<1>10. CASE OnWaiting(i)
  <2>1. CASE RepeatReject
    BY <1>2, <1>4, <2>1, RepeatRejectRight
  <2>2. CASE /\ outgoing.state = "offered"
             /\ outgoing' = [outgoing EXCEPT !.tries = 0, !.waiting = TRUE]
             /\ UNCHANGED <<out, task, toR, told>>
    <3>1. ShownRight(outgoing', done) /\ outgoing'.state = outgoing.state
      BY <1>0, <2>2, ShownAnswered
    <3>2. SenderRight(outgoing', out', task', bound, done)
      BY <2>2, <3>1 DEF SenderRight
    <3>3. QED
      BY <1>2, <1>4, <2>2, <3>2
  <2>3. CASE /\ out # None /\ out' = Confirmed(0, None)
             /\ UNCHANGED <<outgoing, task, toR, told>>
    <3>1. OutRight(out, bound, done)
      BY <1>0, <2>3
    <3>2. 0 \in 0..Size /\ 0 <= bound /\ None # TRUE
      BY NothingYet
    <3>3. /\ OutRight(out', bound, done)
          /\ out.stalls < MaxStalls => out'.stalls < MaxStalls
      BY <2>3, <3>1, <3>2, ConfirmedRight
    <3>4. SenderRight(outgoing', out', task', bound, done)
      BY <2>3, <3>3 DEF SenderRight
    <3>5. QED
      BY <1>2, <1>4, <2>3, <3>4
  <2>4. CASE UNCHANGED <<outgoing, out, task, toR, told>>
    BY <1>2, <1>4, <2>4
  <2>5. QED
    BY <1>10, <2>1, <2>2, <2>3, <2>4 DEF OnWaiting
<1>11. CASE OnReject(i)
  <2>1. CASE Ignore
    BY <1>2, <1>4, <2>1, IgnoreRight
  <2>2. CASE ~Ignore
    <3> DEFINE state == IF m.reason = "failed" THEN "failed" ELSE "cancelled"
    <3>1. EndOutgoing(state, FALSE) /\ told' = told \cup {"sender"} /\ toR' = toR
      BY <1>11, <2>2 DEF OnReject
    <3>2. state \in {"cancelled", "failed"}
      OBVIOUS
    <3> HIDE DEF state
    <3>3. SenderRight(outgoing', out', task', bound, done)
      BY <3>1, <3>2, FileEnds
    <3>4. QED
      BY <1>2, <1>4, <3>1, <3>3 DEF Sides
  <2>3. QED
    BY <2>1, <2>2
<1>12. QED
  BY <1>1, <1>7, <1>8, <1>9, <1>10, <1>11

------------------------------------------------------------------------------
(* The rest of what the sender does.                                        *)

LEMMA OnlyShown ==
    ASSUME NEW bound, NEW done, SenderRight(outgoing, out, task, bound, done),
           ShownRight(outgoing', done), UNCHANGED <<out, task>>,
           outgoing.state # "transferring"
    PROVE  SenderRight(outgoing', out', task', bound, done)
BY DEF SenderRight

(* A transfer that is offered, and one that waits for a session.            *)
LEMMA ShownOffered ==
    ASSUME NEW og, NEW done, ShownRight(og, done), NEW tries \in 0..2
    PROVE  /\ ShownRight([og EXCEPT !.state = "offered", !.tries = tries], done)
           /\ \A w \in BOOLEAN :
                ShownRight([og EXCEPT !.state = "offered", !.waiting = w, !.tries = tries], done)
           /\ tries = 0 => ShownRight([og EXCEPT !.state = "paused", !.tries = tries], done)
           /\ \A u \in BOOLEAN : ShownRight([og EXCEPT !.unsent = u], done)
                                 /\ [og EXCEPT !.unsent = u].state = og.state
BY DEF ShownRight, OutgoingStates

LEMMA OfferRight ==
    ASSUME NEW bound, NEW done, SenderRight(outgoing, out, task, bound, done),
           toR \in Seq(RMessages), OfferFile \/ QueueFile \/ StaleOffer(Busy)
    PROVE  SenderRight(outgoing', out', task', bound, done) /\ toR' \in Seq(RMessages)
<1>0. ShownRight(outgoing, done) /\ outgoing.tries \in 0..2 /\ 0 \in 0..2 /\ 1 \in 0..2
  BY DEF SenderRight, ShownRight, OutgoingStates
<1>1. Put(toR, sUp, Offer) \in Seq(RMessages)
  BY SenderSays, PutIn
<1>2. CASE OfferFile
  <2>1. /\ outgoing.state = "new"
        /\ outgoing' = [outgoing EXCEPT !.state = "offered", !.tries = 1]
        /\ toR' = Put(toR, sUp, Offer) /\ UNCHANGED <<out, task>>
    BY <1>2 DEF OfferFile
  <2>2. ShownRight(outgoing', done)
    BY <1>0, <2>1, ShownOffered
  <2>3. QED
    BY <1>1, <2>1, <2>2, OnlyShown
<1>3. CASE QueueFile
  <2>1. /\ outgoing.state = "new" /\ outgoing' = [outgoing EXCEPT !.state = "paused"]
        /\ toR' = toR /\ UNCHANGED <<out, task>>
    BY <1>3 DEF QueueFile, linkVars, flightVars
  <2>2. ShownRight(outgoing', done)
    BY <1>0, <2>1, ShownPaused DEF ShownRight
  <2>3. QED
    BY <2>1, <2>2, OnlyShown
<1>4. CASE StaleOffer(Busy) /\ outgoing.tries < 2 /\ sUp # 0
  <2> DEFINE tries == outgoing.tries + 1
  <2>1. /\ outgoing.state = "offered"
        /\ outgoing' = [outgoing EXCEPT !.tries = tries]
        /\ toR' = Put(toR, sUp, Offer) /\ UNCHANGED <<out, task>>
    BY <1>0, <1>4 DEF StaleOffer, ShownRight, OutgoingStates
  <2>2. tries \in 0..2
    BY <1>0, <1>4
  <2> HIDE DEF tries
  <2>3. outgoing' = [outgoing EXCEPT !.state = "offered", !.tries = tries]
    BY <1>0, <2>1 DEF ShownRight, OutgoingStates
  <2>4. ShownRight(outgoing', done)
    BY <1>0, <2>2, <2>3, ShownOffered
  <2>5. QED
    BY <1>1, <2>1, <2>4, OnlyShown
<1>5. CASE StaleOffer(Busy) /\ ~(outgoing.tries < 2 /\ sUp # 0)
  <2>1. /\ outgoing.state = "offered"
        /\ outgoing' = [outgoing EXCEPT !.state = "paused", !.tries = 0]
        /\ toR' = toR /\ UNCHANGED <<out, task>>
    BY <1>5 DEF StaleOffer
  <2>2. ShownRight(outgoing', done)
    BY <1>0, <2>1, ShownOffered
  <2>3. QED
    BY <2>1, <2>2, OnlyShown
<1>6. QED
  BY <1>2, <1>3, <1>4, <1>5

LEMMA SResumeRight ==
    ASSUME NEW bound, NEW done, SenderRight(outgoing, out, task, bound, done),
           toR \in Seq(RMessages), told \subseteq Sides, NEW up, SResume(up), task' = task
    PROVE  /\ SenderRight(outgoing', out', task', bound, done) /\ toR' \in Seq(RMessages)
           /\ told' \subseteq Sides
<1>0. ShownRight(outgoing, done) /\ outgoing.tries \in 0..2
  BY DEF SenderRight, ShownRight, OutgoingStates
<1>1. CASE outgoing.state \in Terminal /\ outgoing.unsent
  <2>1. /\ outgoing' = [outgoing EXCEPT !.unsent = FALSE]
        /\ toR' = Put(toR, up, Reject(Reason(outgoing.state)))
        /\ told' = told \cup {"sender"} /\ UNCHANGED <<out, task>>
    BY <1>1 DEF SResume, Terminal
  <2>2. ShownRight(outgoing', done) /\ outgoing.state # "transferring"
    BY <1>0, <1>1, <2>1, ShownOffered DEF Terminal
  <2>3. toR' \in Seq(RMessages) /\ told' \subseteq Sides
    BY <2>1, SenderSays, PutIn DEF Sides
  <2>4. QED
    BY <2>1, <2>2, <2>3, OnlyShown
<1>2. CASE outgoing.state = "transferring"
  <2>1. /\ out' = IF out = None THEN out
                  ELSE [out EXCEPT !.rewind = TRUE, !.late = FALSE, !.wake = TRUE]
        /\ UNCHANGED <<outgoing, toR, told, task>>
    BY <1>2 DEF SResume, Terminal
  <2>2. CASE out = None
    BY <2>1, <2>2
  <2>3. CASE out # None
    <3>1. out' = [out EXCEPT !.rewind = TRUE, !.late = FALSE, !.wake = TRUE]
      BY <2>1, <2>3
    <3>2. OutRight(out, bound, done)
      BY <2>3 DEF SenderRight
    <3>3. OutRight(out', bound, done) /\ out'.stalls = out.stalls
      BY <3>1, <3>2 DEF OutRight, OutStates
    <3>4. QED
      BY <2>1, <3>3 DEF SenderRight
  <2>4. QED
    BY <2>2, <2>3
<1>3. CASE outgoing.state = "paused"
  <2> DEFINE tries == outgoing.tries + 1
  <2>1. /\ outgoing' = [outgoing EXCEPT !.state = "offered", !.waiting = FALSE, !.tries = tries]
        /\ toR' = Put(toR, up, Offer) /\ UNCHANGED <<out, told, task>>
    BY <1>0, <1>3 DEF SResume, Terminal, ShownRight, OutgoingStates
  <2>2. tries \in 0..2
    <3>1. outgoing.tries = 0
      BY <1>0, <1>3 DEF ShownRight
    <3>2. QED
      BY <3>1
  <2> HIDE DEF tries
  <2>3. ShownRight(outgoing', done)
    BY <1>0, <2>1, <2>2, ShownOffered
  <2>4. toR' \in Seq(RMessages)
    BY <2>1, SenderSays, PutIn
  <2>5. QED
    BY <1>3, <2>1, <2>3, <2>4, OnlyShown
<1>4. CASE UNCHANGED <<outgoing, out, toR, told>>
  BY <1>4
<1>5. QED
  BY <1>1, <1>2, <1>3, <1>4 DEF SResume

LEMMA PauseRight ==
    ASSUME NEW bound, NEW done, SenderRight(outgoing, out, task, bound, done),
           PauseOutgoing, UNCHANGED <<out, task>>
    PROVE  SenderRight(outgoing', out', task', bound, done)
<1>0. ShownRight(outgoing, done) /\ 0 \in 0..2
  BY DEF SenderRight
<1>1. CASE outgoing.state = "offered"
  <2>1. outgoing' = [outgoing EXCEPT !.state = "paused", !.tries = 0]
    BY <1>1 DEF PauseOutgoing
  <2>2. ShownRight(outgoing', done)
    BY <1>0, <2>1, ShownOffered
  <2>3. QED
    BY <1>1, <2>2, OnlyShown
<1>2. CASE outgoing.state # "offered"
  BY <1>2 DEF PauseOutgoing
<1>3. QED
  BY <1>1, <1>2

LEMMA StopRight ==
    ASSUME NEW bound, NEW done, SenderRight(outgoing, out, task, bound, done),
           LinkGiveUp \/ PauseEmitted
    PROVE  SenderRight(outgoing', out', task', bound, done)
<1>0. ShownRight(outgoing, done) /\ TaskRight(task)
  BY DEF SenderRight
<1>1. CASE LinkGiveUp
  <2>1. /\ task.pc = "linkwait" /\ outgoing' = [outgoing EXCEPT !.state = "paused"]
        /\ task' = [task EXCEPT !.pc = "giveup"] /\ out' = out
    BY <1>1 DEF LinkGiveUp
  <2>2. outgoing.state = "transferring" /\ OutRight(out, bound, done)
    BY <2>1 DEF SenderRight, Works
  <2>3. ShownRight(outgoing', done)
    BY <1>0, <2>1, <2>2, ShownPaused DEF ShownRight
  <2>4. TaskRight(task') /\ task'.pc = "giveup"
    BY <1>0, <2>1, TaskGoesOn
  <2>5. QED
    BY <2>1, <2>2, <2>3, <2>4 DEF SenderRight, Works
<1>2. CASE PauseEmitted
  <2>1. task' = NoTask /\ outgoing' = outgoing /\ out' = out
    BY <1>2 DEF PauseEmitted
  <2>2. QED
    BY <2>1, Idle DEF SenderRight
<1>3. QED
  BY <1>1, <1>2

(* The journal, and what a restart makes of it.                             *)
LEMMA SEntryRight ==
    ASSUME NEW done, ShownRight(outgoing, done)
    PROVE  JournalRight(SEntry, done)
<1>1. None # "complete"
  BY NoneAssumption
<1>2. outgoing.state \in Terminal \cup Unknown \cup {"offered", "transferring", "paused"}
  BY DEF ShownRight, OutgoingStates
<1>3. SEntry \in {None, "live"} \cup Terminal /\ (SEntry = "complete" => outgoing.state = "complete")
  BY <1>1, <1>2 DEF SEntry, Terminal, Unknown
<1>4. QED
  BY <1>3 DEF JournalRight, ShownRight

LEMMA RestoredRight ==
    ASSUME NEW journal, NEW done, JournalRight(journal, done), NEW changed \in BOOLEAN
    PROVE  ShownRight(Restored(journal, changed), done)
<1> DEFINE state == CASE journal = None -> "forgotten"
                      [] journal = "live" -> IF changed THEN "failed" ELSE "paused"
                      [] OTHER -> journal
           unsent == journal # None /\ (journal # "live" \/ changed)
<1>1. None # "complete" /\ None # "live" /\ None # "failed" /\ None # "cancelled"
  BY NoneAssumption
<1>2. journal \in {None, "live", "complete", "failed", "cancelled"}
  BY DEF JournalRight, Terminal
<1>3. /\ state \in {"complete", "failed", "cancelled", "forgotten", "paused"}
      /\ state = "complete" => journal = "complete"
  BY <1>1, <1>2
<1>4. unsent \in BOOLEAN
  OBVIOUS
<1>5. Restored(journal, changed) = [state |-> state, tries |-> 0, waiting |-> FALSE, unsent |-> unsent]
  BY DEF Restored
<1> HIDE DEF state, unsent
<1>6. ASSUME NEW w \in BOOLEAN, NEW n \in 0..2
      PROVE  [state |-> state, tries |-> n, waiting |-> w, unsent |-> unsent] \in OutgoingStates
  BY <1>3, <1>4 DEF OutgoingStates, Terminal, Unknown
<1>7. 0 \in 0..2
  OBVIOUS
<1>8. Restored(journal, changed) \in OutgoingStates
  BY <1>5, <1>6, <1>7, Zenon
<1>9. Restored(journal, changed).state = state /\ Restored(journal, changed).tries = 0
  BY <1>5
<1>10. QED
  BY <1>3, <1>8, <1>9 DEF ShownRight, JournalRight

------------------------------------------------------------------------------
(* Every step of the sender.                                                *)

PathRight ==
    /\ {session, sUp, rUp} \subseteq Sessions \cup {0} /\ alive \in BOOLEAN
    /\ faults \in 0..MaxFaults

LEMMA EmptyFlight ==
    ASSUME ClearFlight
    PROVE  \A S : toR' \in Seq(S) /\ toS' \in Seq(S)
BY EmptySeq DEF ClearFlight

LEMMA SenderPath ==
    ASSUME PathRight, SenderStep(Busy)
    PROVE  PathRight'
<1>1. ASSUME UNCHANGED pathVars PROVE {session', sUp', rUp'} \subseteq Sessions \cup {0} /\ alive' \in BOOLEAN
  BY <1>1 DEF pathVars, PathRight
<1>2. ASSUME faults' = faults \/ Timeout(Busy) \/ \E f : Happens(f) PROVE faults' \in 0..MaxFaults
  BY <1>2, FaultsLeft DEF PathRight
<1>3. CASE SenderHandles
  <2>1. UNCHANGED <<pathVars, faults>>
    BY <1>3 DEF SenderHandles, OnAccept, OnResume, OnAck, OnWaiting, OnReject
  <2>2. QED
    BY <1>1, <1>2, <2>1 DEF PathRight
<1>4. CASE \/ OfferFile \/ QueueFile \/ StaleOffer(Busy) \/ TaskLoop \/ LinkBack \/ LinkGiveUp
           \/ PrepDone \/ ChunkSent \/ HashDone \/ CompleteSent \/ Wake \/ StallTimer(Busy)
           \/ SCancel \/ ReadFails \/ SSave
  <2>1. UNCHANGED pathVars
    BY <1>4 DEF OfferFile, QueueFile, StaleOffer, TaskLoop, LinkBack, LinkGiveUp, PrepDone, ChunkSent,
       HashDone, CompleteSent, Wake, StallTimer, SCancel, ReadFails, SSave, linkVars
  <2>2. faults' = faults \/ Timeout(Busy) \/ \E f : Happens(f)
    BY <1>4 DEF OfferFile, QueueFile, StaleOffer, TaskLoop, LinkBack, LinkGiveUp, PrepDone, ChunkSent,
       HashDone, CompleteSent, Wake, StallTimer, SCancel, ReadFails, SSave, linkVars
  <2>3. QED
    BY <1>1, <1>2, <2>1, <2>2 DEF PathRight
<1>5. CASE SDown \/ SUp \/ PauseEmitted
  <2>1. faults' = faults /\ session' = session /\ rUp' = rUp /\ sUp' \in {0, sUp, session}
    BY <1>5 DEF SDown, SUp, PauseEmitted
  <2>2. alive' \in BOOLEAN
    BY <1>5 DEF SDown, SUp, PauseEmitted, PathRight
  <2>3. QED
    BY <1>2, <2>1, <2>2 DEF PathRight
<1>6. CASE SRestart
  <2>1. faults' \in 0..MaxFaults
    BY <1>2, <1>6 DEF SRestart
  <2>2. QED
    BY <1>6, <2>1 DEF SRestart, PathRight
<1>7. QED
  BY <1>3, <1>4, <1>5, <1>6 DEF SenderStep

(* What the sender shows, keeps and has in flight, after a step.            *)
SenderGoes(bound, done) ==
    /\ SenderRight(outgoing', out', task', bound, done) /\ JournalRight(sJournal', done)
    /\ toR' \in Seq(RMessages) /\ toS' \in Seq(Honest(bound, done)) /\ told' \subseteq Sides

LEMMA SenderStepRight ==
    ASSUME NEW bound \in Nat, NEW done, LinkInv, toS \in Seq(Honest(bound, done)),
           SenderRight(outgoing, out, task, bound, done), JournalRight(sJournal, done),
           SenderStep(Busy)
    PROVE  SenderGoes(bound, done)
<1>0. /\ toR \in Seq(RMessages) /\ told \subseteq Sides /\ sUp \in Sessions \cup {0}
      /\ ShownRight(outgoing, done)
  BY DEF LinkInv, SenderRight
<1>1. CASE OfferFile \/ QueueFile \/ StaleOffer(Busy)
  <2>1. UNCHANGED <<sJournal, toS, told>>
    BY <1>1 DEF OfferFile, QueueFile, StaleOffer, linkVars, flightVars
  <2>2. QED
    BY <1>0, <1>1, <2>1, OfferRight DEF SenderGoes
<1>2. CASE SDown
  <2>1. UNCHANGED <<sJournal, toS, toR, told, out, task>> /\ PauseOutgoing
    BY <1>2 DEF SDown, flightVars
  <2>2. QED
    BY <1>0, <2>1, PauseRight DEF SenderGoes
<1>3. CASE SUp
  <2>1. UNCHANGED <<sJournal, toS, task>> /\ SResume(session)
    BY <1>3 DEF SUp
  <2>2. QED
    BY <1>0, <2>1, SResumeRight DEF SenderGoes
<1>4. CASE TaskLoop
  <2>1. UNCHANGED <<sJournal, toS, told>>
    BY <1>4 DEF TaskLoop
  <2>2. QED
    BY <1>0, <1>4, <2>1, TaskLoopRight DEF SenderGoes
<1>5. CASE LinkBack \/ ChunkSent \/ HashDone \/ CompleteSent \/ Wake \/ StallTimer(Busy)
  <2>1. UNCHANGED <<sJournal, toS, told>>
    BY <1>5 DEF LinkBack, ChunkSent, HashDone, CompleteSent, Wake, StallTimer, linkVars, flightVars
  <2>2. QED
    BY <1>0, <1>5, <2>1, LoopStepRight DEF SenderGoes
<1>6. CASE LinkGiveUp \/ PauseEmitted
  <2>1. UNCHANGED <<sJournal, told>> /\ (UNCHANGED <<toR, toS>> \/ ClearFlight)
    BY <1>6 DEF LinkGiveUp, PauseEmitted, flightVars
  <2>2. toR' \in Seq(RMessages) /\ toS' \in Seq(Honest(bound, done))
    BY <1>0, <2>1, EmptyFlight
  <2>3. QED
    BY <1>0, <1>6, <2>1, <2>2, StopRight DEF SenderGoes
<1>7. CASE PrepDone
  <2>1. UNCHANGED <<sJournal, toS, told>>
    BY <1>7 DEF PrepDone
  <2>2. QED
    BY <1>0, <1>7, <2>1, PrepDoneRight DEF SenderGoes
<1>8. CASE SenderHandles
  BY <1>0, <1>8, SenderHandlesRight DEF SenderGoes
<1>9. CASE SCancel
  <2>1. PICK sent \in SendResults(sUp) :
          /\ EndOutgoing("cancelled", ~sent)
          /\ toR' = IF sent THEN Put(toR, sUp, Reject("cancelled")) ELSE toR
    BY <1>9 DEF SCancel
  <2>2. (~sent) \in BOOLEAN
    OBVIOUS
  <2>3. SenderRight(outgoing', out', task', bound, done)
    BY <2>1, <2>2, FileEnds
  <2>4. toR' \in Seq(RMessages)
    BY <1>0, <2>1, SenderSays, PutIn
  <2>5. UNCHANGED <<sJournal, toS>> /\ told' \subseteq Sides
    BY <1>0, <1>9 DEF SCancel, Sides
  <2>6. QED
    BY <2>3, <2>4, <2>5 DEF SenderGoes
<1>10. CASE ReadFails
  <2>1. SenderRight(outgoing', out', task', bound, done)
    BY <1>10, FileEnds DEF ReadFails
  <2>2. toR' \in Seq(RMessages)
    BY <1>0, <1>10, SenderSays, PutIn DEF ReadFails
  <2>3. UNCHANGED <<sJournal, toS>> /\ told' \subseteq Sides
    BY <1>0, <1>10 DEF ReadFails, Sides
  <2>4. QED
    BY <2>1, <2>2, <2>3 DEF SenderGoes
<1>11. CASE SSave
  <2>1. sJournal' = SEntry /\ UNCHANGED <<outgoing, out, task, toR, toS, told>>
    BY <1>11 DEF SSave, linkVars, flightVars
  <2>2. QED
    BY <1>0, <2>1, SEntryRight DEF SenderGoes
<1>12. CASE SRestart
  <2>1. PICK changed \in {FALSE} \cup {c \in {TRUE} : "changed" \in Faults} :
          outgoing' = Restored(sJournal, changed)
    BY <1>12 DEF SRestart
  <2>2. changed \in BOOLEAN
    BY <2>1
  <2>3. ShownRight(outgoing', done)
    BY <2>1, <2>2, RestoredRight
  <2>4. SenderRight(outgoing', out', task', bound, done)
    BY <1>12, <2>3, EndedRight DEF SRestart
  <2>5. toR' \in Seq(RMessages) /\ toS' \in Seq(Honest(bound, done))
    BY <1>12, EmptyFlight DEF SRestart
  <2>6. sJournal' = sJournal /\ told' \subseteq Sides
    BY <1>0, <1>12 DEF SRestart
  <2>7. QED
    BY <2>4, <2>5, <2>6 DEF SenderGoes
<1>13. QED
  BY <1>1, <1>2, <1>3, <1>4, <1>5, <1>6, <1>7, <1>8, <1>9, <1>10, <1>11, <1>12 DEF SenderStep

------------------------------------------------------------------------------
(* What the receiver does.                                                  *)

LEMMA BoundIs ==
    ASSUME NEW inc, NEW r, NEW p, NEW f, RxRight(inc, r, p, f)
    PROVE  /\ BoundBy(inc, r) \in 0..Size /\ BoundBy(inc, r) \in Nat
           /\ r # None => r.expected <= BoundBy(inc, r)
           /\ r = None /\ inc.state # "none" /\ ~inc.ask => BoundBy(inc, r) = Size
<1>1. ASSUME r # None PROVE r.expected \in 0..Size
  BY <1>1 DEF RxRight, InPlace, RxStates
<1>2. 0 \in 0..Size /\ Size \in 0..Size /\ Size \in Nat
  BY SizeAssumption
<1>3. BoundBy(inc, r) \in 0..Size
  BY <1>1, <1>2 DEF BoundBy, Reached
<1>4. ASSUME r # None PROVE r.expected <= BoundBy(inc, r)
  BY <1>1, <1>2, <1>4 DEF BoundBy, Reached
<1>5. ASSUME r = None, inc.state # "none", ~inc.ask PROVE BoundBy(inc, r) = Size
  BY <1>5 DEF BoundBy, Reached
<1>6. QED
  BY <1>2, <1>3, <1>4, <1>5

LEMMA ReceiverSays ==
    ASSUME NEW bound \in Nat, NEW done
    PROVE  /\ Waiting \in Honest(bound, done)
           /\ \A state : Refuse(Why(state)) \in Honest(bound, done)
           /\ \A reason \in {"cancelled", "failed"} : Refuse(reason) \in Honest(bound, done)
           /\ \A off \in 0..Size : off <= bound =>
                /\ Ack(off) \in Honest(bound, done)
                /\ [t |-> "accept", off |-> off] \in Honest(bound, done)
                /\ [t |-> "resume", off |-> off] \in Honest(bound, done)
           /\ Size <= bound =>
                Verdict(FALSE) \in Honest(bound, done) /\ (~done \/ Verdict(TRUE) \in Honest(bound, done))
<1>1. Waiting \in Honest(bound, done)
  BY DEF Waiting, Honest, SMessages
<1>2. \A reason \in {"cancelled", "failed"} : Refuse(reason) \in Honest(bound, done)
  BY DEF Refuse, Honest, SMessages
<1>3. \A state : Why(state) \in {"cancelled", "failed"}
  BY DEF Why
<1>4. ASSUME NEW off \in 0..Size, off <= bound, NEW t \in {"accept", "resume"}
      PROVE  [t |-> t, off |-> off] \in Honest(bound, done)
  BY <1>4 DEF Honest, SMessages
<1>5. ASSUME NEW off \in 0..Size, off <= bound, NEW ok \in BOOLEAN \cup {None}, ok # TRUE \/ done
      PROVE  [t |-> "ack", off |-> off, ok |-> ok] \in Honest(bound, done)
  <2> DEFINE m == [t |-> "ack", off |-> off, ok |-> ok]
  <2>1. m \in SMessages /\ m.off = off /\ m.ok = ok
    BY DEF SMessages
  <2> HIDE DEF m
  <2>2. m \in Honest(bound, done)
    BY <1>5, <2>1 DEF Honest
  <2>3. QED
    BY <2>2 DEF m
<1>6. None # TRUE /\ FALSE # TRUE /\ TRUE \in BOOLEAN /\ FALSE \in BOOLEAN
  BY NoneAssumption
<1>7. ASSUME NEW off \in 0..Size, off <= bound PROVE Ack(off) \in Honest(bound, done)
  BY <1>5, <1>6, <1>7, Zenon DEF Ack
<1>8. Size \in 0..Size
  BY SizeAssumption
<1>9. ASSUME Size <= bound
      PROVE  Verdict(FALSE) \in Honest(bound, done) /\ (~done \/ Verdict(TRUE) \in Honest(bound, done))
  BY <1>5, <1>6, <1>8, <1>9, Zenon DEF Verdict
<1>10. QED
  BY <1>1, <1>2, <1>3, <1>4, <1>7, <1>9

(* The receiver's part of a step: what holds of it goes on, what it has for
   good stays, and what it says of that is so.                              *)
Keeps ==
    /\ ReceiverRight(incoming', rx', part', fin', placed', rJournal')
    /\ Bound <= BoundBy(incoming', rx')
    /\ Done => DoneBy(incoming', placed')

Says == \/ toS' = toS
        \/ \E m \in Honest(BoundBy(incoming', rx'), DoneBy(incoming', placed')) : \E up :
              toS' = Put(toS, up, m)

ReceiverGoes == Keeps /\ (Says \/ ClearFlight) /\ told' \subseteq Sides

(* Nothing but an answer.                                                   *)
LEMMA OnlyAnswers ==
    ASSUME ReceiverInv, UNCHANGED receiverVars
    PROVE  Keeps /\ BoundBy(incoming', rx') = Bound /\ (DoneBy(incoming', placed') <=> Done)
<1>1. UNCHANGED <<incoming, rx, part, fin, placed, rJournal>>
  BY DEF receiverVars
<1>2. ReceiverRight(incoming', rx', part', fin', placed', rJournal')
  BY <1>1 DEF ReceiverInv
<1>3. BoundBy(incoming', rx') = Bound /\ (DoneBy(incoming', placed') <=> Done)
  BY <1>1 DEF Bound, Done
<1>4. Bound \in Nat
  BY BoundIs DEF ReceiverInv, ReceiverRight, Bound
<1>5. QED
  BY <1>2, <1>3, <1>4 DEF Keeps

LEMMA RefuseAgainRight ==
    ASSUME ReceiverInv, told \subseteq Sides, UNCHANGED receiverVars, RefuseAgain
    PROVE  ReceiverGoes
<1>1. Keeps /\ BoundBy(incoming', rx') \in Nat
  BY OnlyAnswers, BoundIs DEF ReceiverInv, ReceiverRight, Bound
<1>2. Refuse(Why(incoming.state)) \in Honest(BoundBy(incoming', rx'), DoneBy(incoming', placed'))
  BY <1>1, ReceiverSays
<1>3. Says
  BY <1>2 DEF Says, RefuseAgain, Tell
<1>4. told' \subseteq Sides
  BY DEF RefuseAgain, Sides
<1>5. QED
  BY <1>1, <1>3, <1>4 DEF ReceiverGoes

LEMMA NewRxFits ==
    /\ IsPiece(<<>>, 0) /\ InPlace(NewRx, Len(<<>>)) /\ AllEarly(NewRx)
    /\ NewRx.expected = 0
<1>1. 0 \in 0..Size /\ 0 <= 0 /\ Len(<<>>) = 0
  BY SizeAssumption
<1>2. <<>> = Piece(0, 0)
  BY <1>1, WholePiece
<1>3. <<>> \in Data /\ IsPiece(<<>>, 0)
  BY <1>1, <1>2, PieceFacts, ThatIsAPiece
<1>4. <<>> \in Seq(Entries) /\ DOMAIN <<>> = {}
  BY EmptySeq
<1>5. -1 \in -1..Size /\ None \in {None, Source}
  BY SizeAssumption
<1>6. NewRx \in RxStates
  BY <1>1, <1>3, <1>4, <1>5 DEF NewRx, RxStates
<1>7. /\ NewRx.expected = 0 /\ NewRx.queue = <<>> /\ NewRx.writing = <<>> /\ NewRx.ahead = <<>>
      /\ NewRx.hashed = <<>> /\ NewRx.prehash = 0
  BY DEF NewRx
<1>8. FollowsOn(NewRx, 0)
  BY <1>1, <1>2, <1>7 DEF FollowsOn
<1>9. AheadFits(NewRx.ahead) /\ AllEarly(NewRx)
  BY <1>4, <1>7 DEF AheadFits, AllEarly
<1>10. InPlace(NewRx, 0)
  BY <1>1, <1>2, <1>6, <1>7, <1>8, <1>9 DEF InPlace
<1>11. QED
  BY <1>1, <1>3, <1>7, <1>9, <1>10

(* A download begins.                                                       *)
LEMMA Starts ==
    ASSUME ReceiverInv, StartReceiving, UNCHANGED <<fin, placed, rJournal>>,
           incoming.state = "none" \/ incoming.ask,
           incoming' \in IncomingStates, incoming'.state \in {"accepted", "paused"}, ~incoming'.ask
    PROVE  Keeps /\ BoundBy(incoming', rx') \in Nat
<1>1. /\ RxRight(incoming, rx, part, fin) /\ FinRight(incoming, rx, part, fin, placed)
      /\ DiskRight(incoming, part, placed, rJournal) /\ IncomingRight(incoming, rJournal)
  BY DEF ReceiverInv, ReceiverRight
<1>2. rx = None /\ fin = None
  BY <1>1 DEF RxRight, FinRight
<1>3. rx' = NewRx /\ part' = <<>>
  BY DEF StartReceiving
<1>4. /\ IsPiece(part', 0) /\ InPlace(rx', Len(part')) /\ AllEarly(rx') /\ rx'.expected = 0
  BY <1>3, NewRxFits
<1>5. RxRight(incoming', rx', part', fin')
  BY <1>2, <1>4 DEF RxRight, Ended
<1>6. FinRight(incoming', rx', part', fin', placed')
  BY <1>2 DEF FinRight
<1>7. DiskRight(incoming', part', placed', rJournal')
  BY <1>1, <1>4 DEF DiskRight
<1>8. IncomingRight(incoming', rJournal')
  BY <1>1 DEF IncomingRight
<1>9. BoundBy(incoming', rx') \in Nat /\ Bound <= BoundBy(incoming', rx')
  <2>1. BoundBy(incoming', rx') \in Nat /\ Bound \in Nat
    BY <1>1, <1>5, BoundIs DEF Bound
  <2>2. Reached(incoming, rx) = 0
    BY <1>2 DEF Reached
  <2>3. Bound = 0 \/ Bound = BoundBy(incoming', rx')
    BY <2>2 DEF Bound, BoundBy
  <2>4. QED
    BY <2>1, <2>3
<1>10. Done => DoneBy(incoming', placed')
  BY <1>1 DEF Done, DoneBy, IncomingRight
<1>11. QED
  BY <1>5, <1>6, <1>7, <1>8, <1>9, <1>10 DEF Keeps, ReceiverRight

(* The download goes on, or is as it was.                                   *)
LEMMA GoesOn ==
    ASSUME ReceiverInv, UNCHANGED <<part, fin, placed, rJournal>>,
           incoming' \in IncomingStates, incoming'.ask = incoming.ask,
           \/ incoming'.state = incoming.state
           \/ {incoming.state, incoming'.state} \cap (Ended \cup {"none"}) = {} /\ ~incoming.ask,
           \/ rx' = rx
           \/ rx # None /\ InPlace(rx', Len(part)) /\ AllEarly(rx') /\ rx.expected <= rx'.expected
    PROVE  Keeps /\ BoundBy(incoming', rx') \in Nat
<1>1. /\ RxRight(incoming, rx, part, fin) /\ FinRight(incoming, rx, part, fin, placed)
      /\ DiskRight(incoming, part, placed, rJournal) /\ IncomingRight(incoming, rJournal)
  BY DEF ReceiverInv, ReceiverRight
<1>2. RxRight(incoming', rx', part', fin')
  BY <1>1 DEF RxRight
<1>3. FinRight(incoming', rx', part', fin', placed')
  <2>1. fin = None \/ rx' = rx
    BY <1>1 DEF RxRight
  <2>2. QED
    BY <1>1, <2>1 DEF FinRight, Ended
<1>4. DiskRight(incoming', part', placed', rJournal')
  BY <1>1 DEF DiskRight, Ended
<1>5. IncomingRight(incoming', rJournal')
  BY <1>1 DEF IncomingRight
<1>6. BoundBy(incoming', rx') \in Nat /\ BoundBy(incoming', rx') \in 0..Size /\ Bound \in Nat /\ Bound \in 0..Size
  BY <1>1, <1>2, BoundIs DEF Bound
<1>7. Bound <= BoundBy(incoming', rx')
  <2>1. CASE rx' = rx
    <3>1. (incoming'.state = "none" \/ incoming'.ask) <=> (incoming.state = "none" \/ incoming.ask)
      OBVIOUS
    <3>2. Reached(incoming', rx') = Reached(incoming, rx)
      BY <2>1, <3>1 DEF Reached
    <3>3. Bound = BoundBy(incoming', rx')
      BY <3>2 DEF Bound, BoundBy
    <3>4. QED
      BY <1>6, <3>3
  <2>2. CASE rx # None /\ InPlace(rx', Len(part)) /\ rx.expected <= rx'.expected
    <3>1. incoming.state # "none" /\ incoming'.state # "none" /\ ~incoming'.ask
      BY <1>1, <2>2 DEF RxRight
    <3>2. Reached(incoming, rx) = rx.expected /\ Reached(incoming', rx') \in {rx'.expected, Size}
      BY <2>2, <3>1 DEF Reached
    <3>3. CASE Forgets
      <4>1. Bound = BoundBy(incoming', rx')
        BY <3>3 DEF Bound, BoundBy
      <4>2. QED
        BY <1>6, <4>1
    <3>4. CASE ~Forgets
      <4>1. Bound = rx.expected /\ BoundBy(incoming', rx') \in {rx'.expected, Size}
        BY <3>2, <3>4 DEF Bound, BoundBy
      <4>2. QED
        BY <1>6, <2>2, <4>1, SizeAssumption
    <3>5. QED
      BY <3>3, <3>4
  <2>3. QED
    BY <2>1, <2>2
<1>8. Done => DoneBy(incoming', placed')
  BY DEF Done, DoneBy, Ended
<1>9. QED
  BY <1>2, <1>3, <1>4, <1>5, <1>6, <1>7, <1>8 DEF Keeps, ReceiverRight

(* It ends, and nothing is left of it but the file in its place.            *)
LEMMA ItEnds ==
    ASSUME ReceiverInv, UNCHANGED <<placed, rJournal>>, rx' = None, part' = None, fin' \in {fin, None},
           incoming.state # "complete", incoming' \in IncomingStates, ~incoming'.ask,
           \/ incoming'.state \in {"cancelled", "failed"}
           \/ incoming'.state = "complete" /\ placed = Source /\ fin' = None
    PROVE  Keeps /\ BoundBy(incoming', rx') = Size
<1>1. /\ RxRight(incoming, rx, part, fin) /\ FinRight(incoming, rx, part, fin, placed)
      /\ DiskRight(incoming, part, placed, rJournal) /\ IncomingRight(incoming, rJournal)
  BY DEF ReceiverInv, ReceiverRight
<1>2. RxRight(incoming', rx', part', fin')
  BY DEF RxRight
<1>3. FinRight(incoming', rx', part', fin', placed')
  BY <1>1 DEF FinRight
<1>4. DiskRight(incoming', part', placed', rJournal')
  BY <1>1 DEF DiskRight
<1>5. IncomingRight(incoming', rJournal')
  BY <1>1 DEF IncomingRight
<1>6. BoundBy(incoming', rx') = Size
  BY <1>2, BoundIs
<1>7. Bound <= Size
  <2>1. Bound \in 0..Size
    BY <1>1, BoundIs DEF Bound
  <2>2. QED
    BY <2>1, SizeAssumption
<1>8. Done => DoneBy(incoming', placed')
  BY DEF Done, DoneBy
<1>9. QED
  BY <1>2, <1>3, <1>4, <1>5, <1>6, <1>7, <1>8 DEF Keeps, ReceiverRight

LEMMA OfferMet ==
    ASSUME ReceiverInv, told \subseteq Sides, NEW i, OnOffer(i)
    PROVE  ReceiverGoes
<1>0. /\ RxRight(incoming, rx, part, fin) /\ FinRight(incoming, rx, part, fin, placed)
      /\ DiskRight(incoming, part, placed, rJournal) /\ IncomingRight(incoming, rJournal)
      /\ UNCHANGED <<fin, placed, rJournal>>
  BY DEF ReceiverInv, ReceiverRight, OnOffer
<1> DEFINE B == BoundBy(incoming', rx')
           D == DoneBy(incoming', placed')
<1>1. CASE incoming.state = "none" /\ UNCHANGED <<incoming, rx, part>>
  <2>1. Keeps /\ B \in Nat
    BY <1>0, <1>1, OnlyAnswers, BoundIs DEF receiverVars, ReceiverInv, ReceiverRight, Bound
  <2>2. told' \subseteq Sides
    BY <1>1 DEF OnOffer, FirstOffer, Sides
  <2>3. \E m \in Honest(B, D) : \E up : toS' = Put(toS, up, m)
    <3>1. (\E reason \in {"cancelled", "failed"} : Tell(Refuse(reason))) \/ Tell(Waiting)
             \/ Tell([t |-> "accept", off |-> 0])
      BY <1>1 DEF OnOffer, FirstOffer
    <3>2. 0 \in 0..Size /\ 0 <= B
      BY <2>1, SizeAssumption
    <3>3. QED
      BY <2>1, <3>1, <3>2, ReceiverSays DEF Tell
  <2>4. QED
    BY <2>1, <2>2, <2>3 DEF ReceiverGoes, Says
<1>2. CASE /\ incoming.state = "none"
           /\ incoming' = [state |-> "offered", ask |-> TRUE, unsent |-> FALSE]
           /\ Tell(Waiting) /\ UNCHANGED <<rx, part, told>>
  <2>1. incoming' \in IncomingStates /\ incoming'.state = "offered" /\ incoming'.ask
    BY <1>2 DEF IncomingStates
  <2>2. rx = None /\ fin = None
    BY <1>0, <1>2 DEF RxRight, FinRight
  <2>3. ReceiverRight(incoming', rx', part', fin', placed', rJournal')
    BY <1>0, <1>2, <2>1, <2>2 DEF ReceiverRight, RxRight, FinRight, DiskRight, IncomingRight
  <2>4. B \in Nat /\ Bound \in Nat
    BY <1>0, <2>3, BoundIs DEF ReceiverRight, Bound
  <2>5. Reached(incoming', rx') = Reached(incoming, rx)
    BY <1>2, <2>1, <2>2 DEF Reached
  <2>6. B = Bound
    BY <2>5 DEF Bound, BoundBy
  <2>7. Done => D
    BY <1>0, <1>2 DEF Done, DoneBy
  <2>8. Waiting \in Honest(B, D)
    BY <2>4, ReceiverSays
  <2>9. QED
    BY <1>2, <2>3, <2>4, <2>6, <2>7, <2>8 DEF ReceiverGoes, Keeps, Says, Tell
<1>3. CASE /\ incoming.state = "none"
           /\ incoming' = [state |-> "accepted", ask |-> FALSE, unsent |-> FALSE]
           /\ StartReceiving /\ Tell([t |-> "accept", off |-> 0]) /\ told' = told
  <2>1. incoming' \in IncomingStates /\ incoming'.state = "accepted" /\ ~incoming'.ask
    BY <1>3 DEF IncomingStates
  <2>2. Keeps /\ B \in Nat
    BY <1>0, <1>3, <2>1, Starts
  <2>3. 0 \in 0..Size /\ 0 <= B
    BY <2>2, SizeAssumption
  <2>4. [t |-> "accept", off |-> 0] \in Honest(B, D)
    BY <2>2, <2>3, ReceiverSays
  <2>5. QED
    BY <1>3, <2>2, <2>4 DEF ReceiverGoes, Says, Tell
<1>4. CASE incoming.state # "none"
  <2>1. UNCHANGED receiverVars /\ Reoffer
    BY <1>4 DEF OnOffer, Reoffer, receiverVars
  <2>2. Keeps /\ B = Bound /\ (D <=> Done) /\ B \in Nat
    BY <1>0, <2>1, OnlyAnswers, BoundIs DEF Bound
  <2>3. told' \subseteq Sides
    BY <2>1 DEF Reoffer, Sides
  <2>4. CASE incoming.state = "complete"
    <3>1. rx = None /\ ~incoming.ask
      BY <1>0, <2>4 DEF RxRight, IncomingRight, Ended
    <3>2. Bound = Size
      BY <1>0, <2>4, <3>1, BoundIs DEF Bound
    <3>3. Done
      BY <1>0, <2>4 DEF Done, DoneBy, DiskRight
    <3>4. Size <= B
      BY <2>2, <3>2
    <3>5. Verdict(TRUE) \in Honest(B, D)
      BY <2>2, <3>3, <3>4, ReceiverSays
    <3>6. toS' = Put(toS, rUp, Verdict(TRUE))
      BY <2>1, <2>4, <3>1 DEF Reoffer, Tell
    <3>7. QED
      BY <2>2, <2>3, <3>5, <3>6 DEF ReceiverGoes, Says
  <2>5. CASE incoming.state \in {"cancelled", "failed"} \/ (incoming.ask /\ incoming.state # "complete")
    <3>1. Tell(Refuse(Why(incoming.state))) \/ Tell(Waiting)
      BY <2>1, <2>5 DEF Reoffer
    <3>2. Refuse(Why(incoming.state)) \in Honest(B, D) /\ Waiting \in Honest(B, D)
      BY <2>2, ReceiverSays
    <3>3. QED
      BY <2>2, <2>3, <3>1, <3>2 DEF ReceiverGoes, Says, Tell
  <2>6. CASE incoming.state \notin Ended /\ ~incoming.ask
    <3> DEFINE off == IF rx = None THEN 0 ELSE rx.expected
    <3>1. toS' = Put(toS, rUp, [t |-> "accept", off |-> off])
      BY <2>1, <2>6 DEF Reoffer, Ended, Tell
    <3>2. off \in 0..Size /\ off <= B
      <4>1. CASE rx = None
        BY <2>2, <4>1, SizeAssumption
      <4>2. CASE rx # None
        BY <1>0, <2>2, <4>2, BoundIs DEF RxRight, InPlace, RxStates, Bound
      <4>3. QED
        BY <4>1, <4>2
    <3> HIDE DEF off
    <3>3. [t |-> "accept", off |-> off] \in Honest(B, D)
      BY <2>2, <3>2, ReceiverSays
    <3>4. QED
      BY <2>2, <2>3, <3>1, <3>3 DEF ReceiverGoes, Says
  <2>7. QED
    BY <2>4, <2>5, <2>6 DEF Ended
<1>5. QED
  BY <1>1, <1>2, <1>3, <1>4 DEF OnOffer, FirstOffer

LEMMA Tells ==
    ASSUME NEW m \in Honest(BoundBy(incoming', rx'), DoneBy(incoming', placed')),
           NEW up, toS' = Put(toS, up, m)
    PROVE  Says
BY DEF Says

(* What the parts of the invariant say of a download under way.             *)
LEMMA UnderWay ==
    ASSUME ReceiverInv, rx # None
    PROVE  /\ IsPiece(part, 0) /\ InPlace(rx, Len(part)) /\ AllEarly(rx)
           /\ rx \in RxStates /\ rx.expected \in 0..Size
           /\ Written \in 0..Size /\ Written <= rx.expected
           /\ fin = None /\ incoming.state \notin Ended \cup {"none"} /\ ~incoming.ask
           /\ incoming \in IncomingStates
<1>1. RxRight(incoming, rx, part, fin) /\ IncomingRight(incoming, rJournal)
  BY DEF ReceiverInv, ReceiverRight
<1>2. InPlace(rx, Len(part)) /\ rx \in RxStates /\ rx.expected \in 0..Size
  BY <1>1 DEF RxRight, InPlace, RxStates
<1>3. Len(part) \in 0..Size /\ Len(part) <= rx.expected
  BY <1>2, SizeAssumption DEF InPlace, FollowsOn
<1>4. QED
  BY <1>1, <1>2, <1>3 DEF RxRight, IncomingRight, Written

LEMMA DownloadMet ==
    ASSUME ReceiverInv, told \subseteq Sides, Download
    PROVE  ReceiverGoes
<1> DEFINE B == BoundBy(incoming', rx')
           D == DoneBy(incoming', placed')
<1>1. PICK sent \in SendResults(rUp) :
        /\ incoming' = [incoming EXCEPT !.ask = FALSE,
                                        !.state = IF sent THEN "accepted" ELSE "paused"]
        /\ toS' = IF sent THEN Put(toS, rUp, [t |-> "accept", off |-> 0]) ELSE toS
  BY DEF Download
<1>2. incoming \in IncomingStates
  BY DEF ReceiverInv, ReceiverRight, IncomingRight
<1>3. incoming' \in IncomingStates /\ incoming'.state \in {"accepted", "paused"} /\ ~incoming'.ask
  <2> DEFINE state == IF sent THEN "accepted" ELSE "paused"
  <2>1. state \in {"accepted", "paused"}
    OBVIOUS
  <2> HIDE DEF state
  <2>2. incoming' = [incoming EXCEPT !.ask = FALSE, !.state = state]
    BY <1>1 DEF state
  <2>3. QED
    BY <1>2, <2>1, <2>2 DEF IncomingStates
<1>4. Keeps /\ B \in Nat
  BY <1>3, Starts DEF Download
<1>5. 0 \in 0..Size /\ 0 <= B
  BY <1>4, SizeAssumption
<1>6. [t |-> "accept", off |-> 0] \in Honest(B, D)
  BY <1>4, <1>5, ReceiverSays
<1>7. Says
  BY <1>1, <1>6 DEF Says
<1>8. QED
  BY <1>4, <1>7 DEF ReceiverGoes, Download

(* Confirmed again, or now: only what was confirmed changes.                *)
LEMMA AckedFits ==
    ASSUME ReceiverInv, rx # None, NEW due \in BOOLEAN
    PROVE  /\ SameBlocks(rx, Acked(rx)) /\ SameBlocks(rx, [Acked(rx) EXCEPT !.ackDue = due])
           /\ SameBlocks(rx, [rx EXCEPT !.ackDue = due]) /\ SameBlocks(rx, [rx EXCEPT !.recent = due])
<1>1. rx \in RxStates /\ Written \in 0..Size
  BY UnderWay
<1>2. Written \in -1..Size
  BY <1>1, SizeAssumption
<1> DEFINE w == Written
<1> HIDE DEF w
<1>3. Acked(rx) = [rx EXCEPT !.acked = w, !.recent = TRUE]
  BY DEF Acked, w
<1>4. w \in -1..Size
  BY <1>2 DEF w
<1>5. QED
  BY <1>1, <1>3, <1>4 DEF SameBlocks, RxStates

LEMMA AcksMet ==
    ASSUME ReceiverInv, told \subseteq Sides, rx # None, UNCHANGED <<part, fin, placed, rJournal>>,
           SameBlocks(rx, rx'), incoming' \in IncomingStates, incoming'.ask = incoming.ask,
           incoming'.state = incoming.state \/ incoming'.state = "transferring",
           toS' = toS \/ Tell(Ack(Written)), told' = told
    PROVE  ReceiverGoes
<1>1. /\ InPlace(rx, Len(part)) /\ AllEarly(rx) /\ rx.expected \in 0..Size
      /\ Written \in 0..Size /\ Written <= rx.expected
      /\ incoming.state \notin Ended \cup {"none"} /\ ~incoming.ask
  BY UnderWay
<1>2. InPlace(rx', Len(part)) /\ AllEarly(rx') /\ rx'.expected = rx.expected
  BY <1>1, SameBlocksFit DEF SameBlocks
<1>3. rx.expected <= rx'.expected
  BY <1>1, <1>2, SizeAssumption
<1>4. \/ incoming'.state = incoming.state
      \/ {incoming.state, incoming'.state} \cap (Ended \cup {"none"}) = {} /\ ~incoming.ask
  BY <1>1 DEF Ended
<1>5. Keeps /\ BoundBy(incoming', rx') \in Nat
  BY <1>2, <1>3, <1>4, GoesOn
<1>6. Written <= BoundBy(incoming', rx')
  <2>1. Bound <= BoundBy(incoming', rx') /\ rx.expected <= Bound /\ Bound \in Nat
    BY <1>5, BoundIs DEF Keeps, Bound, ReceiverInv, ReceiverRight
  <2>2. QED
    BY <1>1, <1>5, <2>1, SizeAssumption
<1>7. Ack(Written) \in Honest(BoundBy(incoming', rx'), DoneBy(incoming', placed'))
  BY <1>1, <1>5, <1>6, ReceiverSays
<1>8. Says
  BY <1>7 DEF Says, Tell
<1>9. QED
  BY <1>5, <1>8 DEF ReceiverGoes

LEMMA TimersMet ==
    ASSUME ReceiverInv, told \subseteq Sides, AckAges \/ DelayedAck
    PROVE  ReceiverGoes
<1>1. rx # None /\ UNCHANGED <<incoming, part, fin, placed, rJournal, told>>
  BY DEF AckAges, DelayedAck, linkVars
<1>2. SameBlocks(rx, rx')
  BY <1>1, AckedFits DEF AckAges, DelayedAck
<1>3. toS' = toS \/ Tell(Ack(Written))
  BY DEF AckAges, DelayedAck, linkVars, flightVars
<1>4. incoming \in IncomingStates
  BY DEF ReceiverInv, ReceiverRight, IncomingRight
<1>5. QED
  BY <1>1, <1>2, <1>3, <1>4, AcksMet

LEMMA ChunkMet ==
    ASSUME ReceiverInv, told \subseteq Sides, toR \in Seq(RMessages), NEW i, OnChunk(i)
    PROVE  ReceiverGoes
<1> DEFINE m == toR[i]
<1>1. UNCHANGED <<part, fin, placed, rJournal>>
  BY DEF OnChunk
<1>2. m \in RMessages /\ m.t = "chunk"
  BY ArrivedFrom DEF OnChunk, Handled
<1>3. m.off \in 0..Size /\ m.data \in Data /\ IsPiece(m.data, m.off)
  BY <1>2 DEF RMessages
<1>4. CASE incoming.state \in {"cancelled", "failed"}
  BY <1>1, <1>4, RefuseAgainRight DEF OnChunk, receiverVars
<1>5. CASE incoming.state \notin {"cancelled", "failed"} /\ (incoming.state \in Ended \/ rx = None)
  <2>1. UNCHANGED receiverVars /\ toS' = toS /\ told' = told
    BY <1>1, <1>5 DEF OnChunk, receiverVars
  <2>2. QED
    BY <2>1, OnlyAnswers DEF ReceiverGoes, Says
<1>6. CASE rx # None
  <2>1. /\ InPlace(rx, Len(part)) /\ AllEarly(rx) /\ rx.expected \in 0..Size
        /\ incoming.state \notin Ended \cup {"none"} /\ ~incoming.ask /\ incoming \in IncomingStates
    BY <1>6, UnderWay
  <2>2. /\ incoming' = [incoming EXCEPT !.state = "transferring"]
        /\ IF Known(rx, m.off, Len(m.data))
           THEN IF rx.recent THEN UNCHANGED <<rx, toS>>
                             ELSE rx' = Acked(rx) /\ Tell(Ack(Written))
           ELSE rx' = Receive(rx, m) /\ UNCHANGED toS
        /\ told' = told
    BY <1>6, <2>1 DEF OnChunk, Ended
  <2>3. incoming' \in IncomingStates /\ incoming'.ask = incoming.ask /\ incoming'.state = "transferring"
    BY <2>1, <2>2 DEF IncomingStates
  <2>4. CASE Known(rx, m.off, Len(m.data))
    <3>1. toS' = toS \/ Tell(Ack(Written))
      BY <2>2, <2>4
    <3>2. SameBlocks(rx, rx')
      <4>1. rx' = rx \/ rx' = Acked(rx)
        BY <2>2, <2>4
      <4>2. SameBlocks(rx, rx)
        BY <2>1 DEF SameBlocks, InPlace
      <4>3. SameBlocks(rx, Acked(rx))
        BY <1>6, AckedFits
      <4>4. QED
        BY <4>1, <4>2, <4>3
    <3>3. QED
      BY <1>1, <1>6, <2>2, <2>3, <3>1, <3>2, AcksMet
  <2>5. CASE ~Known(rx, m.off, Len(m.data))
    <3>1. rx' = Receive(rx, m) /\ toS' = toS
      BY <2>2, <2>5
    <3>2. InPlace(rx', Len(part)) /\ AllEarly(rx') /\ rx.expected <= rx'.expected
      BY <1>3, <2>1, <2>5, <3>1, ReceiveFits
    <3>3. {incoming.state, incoming'.state} \cap (Ended \cup {"none"}) = {} /\ ~incoming.ask
      BY <2>1, <2>3 DEF Ended
    <3>4. Keeps
      BY <1>1, <1>6, <2>3, <3>2, <3>3, GoesOn
    <3>5. QED
      BY <2>2, <3>1, <3>4 DEF ReceiverGoes, Says
  <2>6. QED
    BY <2>4, <2>5
<1>7. QED
  BY <1>4, <1>5, <1>6

(* The thread has written.                                                  *)
LEMMA Finalizes ==
    ASSUME ReceiverInv, rx # None, NEW r, r.hashed = Source, r.sha = Source, part' = Source,
           Finalize(r), UNCHANGED <<incoming, placed, rJournal>>
    PROVE  Keeps
<1>1. /\ RxRight(incoming, rx, part, fin) /\ DiskRight(incoming, part, placed, rJournal)
      /\ IncomingRight(incoming, rJournal)
  BY DEF ReceiverInv, ReceiverRight
<1>2. incoming.state \notin Ended \cup {"none"} /\ ~incoming.ask
  BY UnderWay
<1>3. rx' = None /\ fin' = [phase |-> "verify", ok |-> TRUE]
  <2>1. rx' = None /\ fin' = [phase |-> "verify", ok |-> r.hashed = r.sha]
    BY DEF Finalize
  <2>2. (r.hashed = r.sha) = TRUE
    OBVIOUS
  <2>3. QED
    BY <2>1, <2>2
<1>4. RxRight(incoming', rx', part', fin')
  BY <1>3 DEF RxRight
<1>5. FinRight(incoming', rx', part', fin', placed')
  BY <1>2, <1>3 DEF FinRight, Ended
<1>6. IsPiece(part', 0)
  <2>1. 0 \in 0..Size /\ Size \in 0..Size /\ 0 <= Size
    BY SizeAssumption
  <2>2. QED
    BY <2>1, WholePiece, ThatIsAPiece
<1>7. DiskRight(incoming', part', placed', rJournal')
  BY <1>1, <1>2, <1>6 DEF DiskRight, Ended
<1>8. IncomingRight(incoming', rJournal')
  BY <1>1 DEF IncomingRight
<1>9. Bound <= BoundBy(incoming', rx')
  <2>1. BoundBy(incoming', rx') = Size
    BY <1>2, <1>3, <1>4, BoundIs
  <2>2. Bound \in 0..Size
    BY <1>1, BoundIs DEF Bound
  <2>3. QED
    BY <2>1, <2>2, SizeAssumption
<1>10. Done => DoneBy(incoming', placed')
  BY DEF Done
<1>11. QED
  BY <1>4, <1>5, <1>7, <1>8, <1>9, <1>10 DEF Keeps, ReceiverRight

LEMMA WriterDoneMet ==
    ASSUME ReceiverInv, told \subseteq Sides, WriterDone
    PROVE  ReceiverGoes
<1> DEFINE r == [rx EXCEPT !.hashed = CaughtUp(rx) \o rx.writing, !.prehash = 0,
                           !.writing = <<>>]
           c == Len(part \o rx.writing)
<1>1. /\ rx # None /\ part' = part \o rx.writing
      /\ UNCHANGED <<incoming, placed, rJournal, told>>
  BY DEF WriterDone
<1>2. /\ IsPiece(part, 0) /\ InPlace(rx, Len(part)) /\ AllEarly(rx) /\ rx.expected \in 0..Size
      /\ fin = None /\ incoming.state \notin Ended \cup {"none"} /\ ~incoming.ask
      /\ incoming \in IncomingStates /\ rx \in RxStates
  BY <1>1, UnderWay
<1>3. /\ c \in 0..Size /\ part' = Piece(0, c) /\ Len(part') = c
      /\ InPlace(r, c) /\ r.expected = rx.expected /\ r.ahead = rx.ahead
      /\ r.hashed = Piece(0, c) /\ r.sha = rx.sha
  BY <1>1, <1>2, WrittenFits
<1>4. AllEarly(r)
  BY <1>2, <1>3 DEF AllEarly
<1>5. CASE c >= Size /\ r.sha # None
  <2>1. Finalize(r) /\ toS' = toS
    BY <1>5 DEF WriterDone
  <2>2. c = Size
    BY <1>3, <1>5, SizeAssumption
  <2>3. r.hashed = Source /\ part' = Source
    BY <1>3, <2>2, WholePiece
  <2>4. r.sha = Source
    BY <1>2, <1>3, <1>5 DEF RxStates
  <2> HIDE DEF r
  <2>5. Keeps
    BY <1>1, <2>1, <2>3, <2>4, Finalizes
  <2>6. QED
    BY <1>1, <2>1, <2>5 DEF ReceiverGoes, Says
<1>6. CASE ~(c >= Size /\ r.sha # None)
  <2> DEFINE now == [r EXCEPT !.acked = c, !.recent = TRUE]
             later == [r EXCEPT !.ackDue = TRUE]
  <2>1. /\ fin' = fin
        /\ \/ rx' = StartWriter(now) /\ Tell(Ack(c))
           \/ rx' = StartWriter(later) /\ toS' = toS
    BY <1>6 DEF WriterDone
  <2>2. SameBlocks(r, now) /\ SameBlocks(r, later)
    <3>1. r \in RxStates /\ c \in -1..Size
      BY <1>3, SizeAssumption DEF InPlace
    <3> HIDE DEF r, c
    <3>2. QED
      BY <3>1 DEF SameBlocks, RxStates
  <2> HIDE DEF r
  <2>3. /\ InPlace(now, c) /\ AllEarly(now) /\ InPlace(later, c) /\ AllEarly(later)
        /\ now.expected = rx.expected /\ later.expected = rx.expected
    BY <1>3, <1>4, <2>2, SameBlocksFit DEF SameBlocks
  <2> HIDE DEF now, later
  <2>4. InPlace(rx', c) /\ AllEarly(rx') /\ rx'.expected = rx.expected
    BY <2>1, <2>3, StartWriterFits
  <2>5. /\ DiskRight(incoming, part, placed, rJournal) /\ IncomingRight(incoming, rJournal)
        /\ RxRight(incoming, rx, part, fin)
    BY DEF ReceiverInv, ReceiverRight
  <2>6. IsPiece(part', 0)
    <3>1. 0 \in 0..Size /\ 0 <= c
      BY <1>3, SizeAssumption
    <3>2. QED
      BY <1>3, <3>1, ThatIsAPiece
  <2>7. RxRight(incoming', rx', part', fin')
    BY <1>1, <1>2, <1>3, <2>1, <2>4, <2>6 DEF RxRight
  <2>8. FinRight(incoming', rx', part', fin', placed')
    BY <1>2, <2>1 DEF FinRight
  <2>9. DiskRight(incoming', part', placed', rJournal') /\ IncomingRight(incoming', rJournal')
    BY <1>1, <1>2, <2>5, <2>6 DEF DiskRight, IncomingRight, Ended
  <2>10. /\ BoundBy(incoming', rx') \in Nat /\ Bound \in Nat
         /\ rx.expected <= Bound
    BY <1>1, <2>5, <2>7, BoundIs DEF Bound
  <2>11. Bound <= BoundBy(incoming', rx')
    <3>1. CASE rx' = None
      <4>1. BoundBy(incoming', rx') = Size
        BY <1>1, <1>2, <2>7, <3>1, BoundIs
      <4>2. Bound \in 0..Size
        BY <2>5, BoundIs DEF Bound
      <4>3. QED
        BY <4>1, <4>2, SizeAssumption
    <3>2. CASE rx' # None
      <4>1. BoundBy(incoming', rx') = Bound
        BY <1>1, <2>4, <3>2 DEF Bound, BoundBy, Reached
      <4>2. QED
        BY <2>10, <4>1
    <3>3. QED
      BY <3>1, <3>2
  <2>12. Done => DoneBy(incoming', placed')
    BY <1>1 DEF Done
  <2>13. Keeps
    BY <2>7, <2>8, <2>9, <2>11, <2>12 DEF Keeps, ReceiverRight
  <2>14. c <= BoundBy(incoming', rx')
    <3>1. c <= rx.expected
      BY <1>2, <1>3, <2>4, SizeAssumption DEF InPlace, FollowsOn
    <3>2. QED
      BY <1>2, <1>3, <2>10, <2>11, <3>1, SizeAssumption
  <2> HIDE DEF c
  <2>15. Ack(c) \in Honest(BoundBy(incoming', rx'), DoneBy(incoming', placed'))
    BY <1>3, <2>10, <2>14, ReceiverSays
  <2>16. Says
    BY <2>1, <2>15 DEF Says, Tell
  <2>17. QED
    BY <1>1, <2>13, <2>16 DEF ReceiverGoes
<1>7. QED
  BY <1>5, <1>6

LEMMA CompleteMet ==
    ASSUME ReceiverInv, told \subseteq Sides, toR \in Seq(RMessages), NEW i, OnComplete(i)
    PROVE  ReceiverGoes
<1> DEFINE B == BoundBy(incoming', rx')
           D == DoneBy(incoming', placed')
<1>0. /\ RxRight(incoming, rx, part, fin) /\ FinRight(incoming, rx, part, fin, placed)
      /\ DiskRight(incoming, part, placed, rJournal) /\ IncomingRight(incoming, rJournal)
  BY DEF ReceiverInv, ReceiverRight
<1>1. UNCHANGED <<incoming, part, placed, rJournal>>
  BY DEF OnComplete
<1>2. toR[i].sha = Source
  <2>1. toR[i] \in RMessages /\ toR[i].t = "complete"
    BY ArrivedFrom DEF OnComplete, Handled
  <2>2. QED
    BY <2>1 DEF RMessages
<1>3. CASE incoming.state = "complete"
  <2>1. UNCHANGED receiverVars /\ toS' = Put(toS, rUp, Verdict(TRUE)) /\ told' = told
    BY <1>1, <1>3 DEF OnComplete, receiverVars, Tell, Ended
  <2>2. Keeps /\ B = Bound /\ (D <=> Done) /\ B \in Nat
    BY <1>0, <2>1, OnlyAnswers, BoundIs DEF Bound
  <2>3. Bound = Size
    BY <1>0, <1>3, BoundIs DEF Bound, RxRight, IncomingRight, Ended
  <2>4. Done
    BY <1>0, <1>3 DEF Done, DoneBy, DiskRight
  <2>5. Size <= B
    BY <2>2, <2>3
  <2>6. Verdict(TRUE) \in Honest(B, D)
    BY <2>2, <2>4, <2>5, ReceiverSays
  <2>7. QED
    BY <2>1, <2>2, <2>6 DEF ReceiverGoes, Says
<1>4. CASE incoming.state \in {"cancelled", "failed"}
  <2>1. UNCHANGED receiverVars /\ RefuseAgain
    BY <1>1, <1>4 DEF OnComplete, receiverVars, Ended
  <2>2. QED
    BY <2>1, RefuseAgainRight
<1>5. CASE incoming.state \notin Ended /\ rx = None
  <2>1. UNCHANGED receiverVars /\ toS' = toS /\ told' = told
    BY <1>1, <1>5 DEF OnComplete, receiverVars, Ended
  <2>2. QED
    BY <2>1, OnlyAnswers DEF ReceiverGoes, Says
<1>6. CASE rx # None
  <2> DEFINE r == [rx EXCEPT !.sha = toR[i].sha]
  <2>1. /\ IsPiece(part, 0) /\ InPlace(rx, Len(part)) /\ AllEarly(rx) /\ Written \in 0..Size
        /\ incoming.state \notin Ended \cup {"none"} /\ rx \in RxStates /\ incoming \in IncomingStates
    BY <1>6, UnderWay
  <2>2. /\ IF Written >= Size /\ ~WriterRuns
           THEN Finalize([r EXCEPT !.hashed = CaughtUp(r)])
           ELSE rx' = r /\ fin' = fin
        /\ toS' = toS /\ told' = told
    BY <1>6, <2>1 DEF OnComplete, Ended
  <2>3. SameBlocks(rx, r) /\ r.sha = Source
    BY <1>2, <2>1 DEF SameBlocks, RxStates
  <2> HIDE DEF r
  <2>4. InPlace(r, Len(part)) /\ AllEarly(r) /\ r.expected = rx.expected
    BY <2>1, <2>3, SameBlocksFit DEF SameBlocks
  <2>5. CASE Written >= Size /\ ~WriterRuns
    <3> DEFINE s == [r EXCEPT !.hashed = CaughtUp(r)]
    <3>1. Len(part) = Size
      BY <2>1, <2>5, SizeAssumption DEF Written
    <3>2. CaughtUp(r) = Source /\ part = Source
      BY <2>1, <2>4, <3>1, CaughtUpIs, WholePiece
    <3>3. s.hashed = Source /\ s.sha = Source
      BY <2>3, <2>4, <3>2 DEF InPlace, RxStates
    <3> HIDE DEF s
    <3>4. Finalize(s)
      BY <2>2, <2>5 DEF s
    <3>5. Keeps
      BY <1>1, <1>6, <3>2, <3>3, <3>4, Finalizes
    <3>6. QED
      BY <2>2, <3>5 DEF ReceiverGoes, Says
  <2>6. CASE ~(Written >= Size /\ ~WriterRuns)
    <3>1. rx' = r /\ fin' = fin
      BY <2>2, <2>6
    <3>2. SameBlocks(rx, rx')
      BY <2>3, <3>1
    <3>3. QED
      BY <1>1, <1>6, <2>1, <2>2, <3>1, <3>2, AcksMet
  <2>7. QED
    BY <2>5, <2>6
<1>7. QED
  BY <1>3, <1>4, <1>5, <1>6 DEF Ended

LEMMA Parts ==
    ASSUME ReceiverInv
    PROVE  /\ RxRight(incoming, rx, part, fin) /\ FinRight(incoming, rx, part, fin, placed)
           /\ DiskRight(incoming, part, placed, rJournal) /\ IncomingRight(incoming, rJournal)
           /\ Bound \in Nat /\ Bound \in 0..Size
BY BoundIs DEF ReceiverInv, ReceiverRight, Bound

(* Cancelled, refused by the disk, or cancelled there: whatever is said.    *)
LEMMA Stopped ==
    ASSUME ReceiverInv, told \subseteq Sides, NEW state \in {"cancelled", "failed"},
           UNCHANGED <<fin, placed, rJournal>>, rx' = None, part' = None,
           incoming.state \notin Ended \cup {"none"}, incoming' \in IncomingStates,
           incoming'.state = state, ~incoming'.ask,
           told' = told \cup {"receiver"},
           toS' = toS \/ \E reason \in {"cancelled", "failed"} : Tell(Refuse(reason))
    PROVE  ReceiverGoes
<1>1. incoming.state # "complete" /\ fin' \in {fin, None}
  BY DEF Ended
<1>2. Keeps /\ BoundBy(incoming', rx') = Size
  BY <1>1, ItEnds
<1>3. Says
  BY <1>2, ReceiverSays, SizeAssumption DEF Says, Tell
<1>4. QED
  BY <1>2, <1>3 DEF ReceiverGoes, Sides

LEMMA StopsMet ==
    ASSUME ReceiverInv, told \subseteq Sides, WriteFails \/ RCancel \/ \E i : OnCancel(i)
    PROVE  ReceiverGoes
<1>0. incoming \in IncomingStates
  BY Parts DEF IncomingRight
<1>1. CASE WriteFails
  <2>1. /\ rx # None /\ incoming' = [incoming EXCEPT !.state = "failed"] /\ rx' = None /\ part' = None
        /\ Tell(Refuse("failed")) /\ told' = told \cup {"receiver"}
        /\ UNCHANGED <<fin, placed, rJournal>>
    BY <1>1 DEF WriteFails, CloseDeleted
  <2>2. incoming.state \notin Ended \cup {"none"} /\ ~incoming.ask
    BY <2>1, UnderWay
  <2>3. incoming' \in IncomingStates /\ incoming'.state = "failed" /\ ~incoming'.ask
    BY <1>0, <2>1, <2>2 DEF IncomingStates, Ended
  <2>4. QED
    BY <2>1, <2>2, <2>3, Stopped
<1>2. CASE RCancel
  <2>1. PICK sent \in SendResults(rUp) :
          /\ EndIncoming("cancelled", ~sent)
          /\ toS' = IF sent THEN Put(toS, rUp, Refuse("cancelled")) ELSE toS
    BY <1>2 DEF RCancel
  <2>2. (~sent) \in BOOLEAN
    OBVIOUS
  <2>3. /\ rx' = None /\ part' = None /\ told' = told \cup {"receiver"}
        /\ incoming' = [state |-> "cancelled", ask |-> FALSE, unsent |-> ~sent]
    BY <2>1 DEF EndIncoming, CloseDeleted
  <2>4. incoming' \in IncomingStates /\ incoming'.state = "cancelled" /\ ~incoming'.ask
    BY <2>2, <2>3 DEF IncomingStates, Ended
  <2>5. incoming.state \notin Ended \cup {"none"} /\ UNCHANGED <<fin, placed, rJournal>>
    BY <1>2 DEF RCancel
  <2>6. toS' = toS \/ Tell(Refuse("cancelled"))
    BY <2>1 DEF Tell
  <2>7. QED
    BY <2>3, <2>4, <2>5, <2>6, Stopped
<1>3. CASE \E i : OnCancel(i)
  <2>1. PICK i : OnCancel(i)
    BY <1>3
  <2>2. UNCHANGED <<fin, placed, rJournal, toS>>
    BY <2>1 DEF OnCancel
  <2>3. CASE incoming.state \in Ended \cup {"none"}
    <3>1. UNCHANGED receiverVars /\ told' = told
      BY <2>1, <2>2, <2>3 DEF OnCancel, receiverVars
    <3>2. QED
      BY <2>2, <3>1, OnlyAnswers DEF ReceiverGoes, Says
  <2>4. CASE incoming.state \notin Ended \cup {"none"}
    <3> DEFINE state == IF toR[i].reason = "failed" THEN "failed" ELSE "cancelled"
    <3>1. EndIncoming(state, incoming.unsent)
      BY <2>1, <2>4 DEF OnCancel
    <3>2. state \in {"cancelled", "failed"}
      OBVIOUS
    <3> HIDE DEF state
    <3>3. /\ rx' = None /\ part' = None /\ told' = told \cup {"receiver"}
          /\ incoming' = [state |-> state, ask |-> FALSE, unsent |-> incoming.unsent]
      BY <3>1 DEF EndIncoming, CloseDeleted
    <3>4. incoming' \in IncomingStates /\ incoming'.state = state /\ ~incoming'.ask
      BY <1>0, <3>2, <3>3 DEF IncomingStates, Ended
    <3>5. QED
      BY <2>2, <2>4, <3>2, <3>3, <3>4, Stopped
  <2>5. QED
    BY <2>3, <2>4
<1>4. QED
  BY <1>1, <1>2, <1>3

(* The finalizer's steps.                                                   *)
LEMMA Concludes ==
    ASSUME ReceiverInv, told \subseteq Sides, fin # None, NEW ok \in BOOLEAN, Conclude(ok), part' = None,
           UNCHANGED <<rx, placed, rJournal, told>>, ok => placed = Source
    PROVE  ReceiverGoes
<1>1. rx = None /\ incoming.state \notin {"complete", "none"} /\ ~incoming.ask /\ incoming \in IncomingStates
  BY Parts DEF FinRight, IncomingRight
<1> DEFINE state == IF ok THEN "complete" ELSE "failed"
<1>2. incoming' = [incoming EXCEPT !.state = state] /\ fin' = None /\ toS' = Put(toS, rUp, Verdict(ok))
  BY DEF Conclude, Tell
<1>3. state \in {"complete", "failed"} /\ (state = "complete" => placed = Source)
      /\ (ok \/ state = "failed") /\ (~ok \/ state = "complete")
  OBVIOUS
<1> HIDE DEF state
<1>4. incoming' \in IncomingStates /\ incoming'.state = state /\ ~incoming'.ask
  BY <1>1, <1>2, <1>3 DEF IncomingStates, Ended
<1>5. Keeps /\ BoundBy(incoming', rx') = Size
  BY <1>1, <1>2, <1>3, <1>4, ItEnds
<1>6. Size <= Size /\ Size \in Nat
  BY SizeAssumption
<1>7. ok = TRUE => DoneBy(incoming', placed')
  BY <1>3, <1>4 DEF DoneBy
<1>8. Verdict(ok) \in Honest(BoundBy(incoming', rx'), DoneBy(incoming', placed'))
  <2> DEFINE D == DoneBy(incoming', placed')
  <2>1. Verdict(FALSE) \in Honest(Size, D) /\ (~D \/ Verdict(TRUE) \in Honest(Size, D))
    BY <1>6, ReceiverSays
  <2>2. CASE ok = TRUE
    BY <1>5, <1>7, <2>1, <2>2
  <2>3. CASE ok = FALSE
    BY <1>5, <2>1, <2>3
  <2>4. QED
    BY <2>2, <2>3
<1>9. QED
  BY <1>2, <1>5, <1>8, Tells DEF ReceiverGoes

(* Only the finalizer and, perhaps, the partial file and the file in place. *)
LEMMA FinGoesOn ==
    ASSUME ReceiverInv, fin # None, UNCHANGED <<incoming, rx, rJournal>>,
           fin' = None \/ FinRight(incoming, rx, part', fin', placed'),
           part' \in {part, None}, placed' \in {placed, Source}
    PROVE  Keeps
<1>1. rx = None
  BY Parts DEF FinRight
<1>2. RxRight(incoming', rx', part', fin')
  BY <1>1 DEF RxRight
<1>3. FinRight(incoming', rx', part', fin', placed')
  BY DEF FinRight
<1>4. DiskRight(incoming', part', placed', rJournal') /\ IncomingRight(incoming', rJournal')
  BY Parts DEF DiskRight, IncomingRight
<1>5. BoundBy(incoming', rx') = Bound /\ Bound \in Nat
  BY Parts DEF Bound
<1>6. Done => DoneBy(incoming', placed')
  BY DEF Done, DoneBy
<1>7. QED
  BY <1>2, <1>3, <1>4, <1>5, <1>6 DEF Keeps, ReceiverRight

LEMMA FinMet ==
    ASSUME ReceiverInv, told \subseteq Sides, Verified \/ Place \/ Placed
    PROVE  ReceiverGoes
<1>0. fin # None
  BY DEF Verified, Place, Placed
<1>1. /\ rx = None
      /\ fin \in [phase : {"verify", "place", "moved", "unmoved"}, ok : {TRUE}]
      /\ fin.phase \in {"verify", "place"} => part \in {None, Source}
      /\ fin.phase = "moved" => placed = Source
      /\ incoming.state \notin {"complete", "none"} /\ ~incoming.ask
  BY <1>0, Parts DEF FinRight
<1>2. CASE Verified
  <2>1. UNCHANGED <<rx, placed, rJournal, told>> /\ fin.phase = "verify"
    BY <1>2 DEF Verified
  <2>2. CASE fin' = None /\ UNCHANGED <<incoming, part, toS>>
    <3>1. Keeps
      BY <1>0, <2>1, <2>2, FinGoesOn
    <3>2. QED
      BY <2>1, <2>2, <3>1 DEF ReceiverGoes, Says
  <2>3. CASE fin' = [fin EXCEPT !.phase = "place"] /\ UNCHANGED <<incoming, part, toS>>
    <3>1. FinRight(incoming, rx, part', fin', placed')
      BY <1>1, <2>1, <2>3 DEF FinRight
    <3>2. Keeps
      BY <1>0, <2>1, <2>3, <3>1, FinGoesOn
    <3>3. QED
      BY <2>1, <2>3, <3>2 DEF ReceiverGoes, Says
  <2>4. CASE Conclude(FALSE) /\ part' = None
    BY <1>0, <2>1, <2>4, Concludes
  <2>5. QED
    BY <1>2, <2>2, <2>3, <2>4 DEF Verified
<1>3. CASE Place
  <2>1. UNCHANGED <<incoming, rx, rJournal, toS, told>> /\ fin.phase = "place"
    BY <1>3 DEF Place, flightVars
  <2>2. CASE part # None /\ fin' = [fin EXCEPT !.phase = "moved"] /\ placed' = part /\ part' = None
    <3>1. placed' = Source
      BY <1>1, <2>1, <2>2
    <3>2. FinRight(incoming, rx, part', fin', placed')
      BY <1>1, <2>2, <3>1 DEF FinRight
    <3>3. Keeps
      BY <1>0, <2>1, <2>2, <3>1, <3>2, FinGoesOn
    <3>4. QED
      BY <2>1, <3>3 DEF ReceiverGoes, Says
  <2>3. CASE fin' = [fin EXCEPT !.phase = "unmoved"] /\ UNCHANGED <<placed, part>>
    <3>1. FinRight(incoming, rx, part', fin', placed')
      BY <1>1, <2>3 DEF FinRight
    <3>2. Keeps
      BY <1>0, <2>1, <2>3, <3>1, FinGoesOn
    <3>3. QED
      BY <2>1, <3>2 DEF ReceiverGoes, Says
  <2>4. QED
    BY <1>3, <2>2, <2>3 DEF Place
<1>4. CASE Placed
  <2> DEFINE ok == fin.phase = "moved"
  <2>1. Conclude(ok) /\ part' = None /\ UNCHANGED <<rx, placed, rJournal, told>>
    BY <1>4 DEF Placed
  <2>2. ok \in BOOLEAN /\ (ok => placed = Source)
    BY <1>1
  <2> HIDE DEF ok
  <2>3. QED
    BY <1>0, <2>1, <2>2, Concludes
<1>5. QED
  BY <1>2, <1>3, <1>4

(* The session goes, or nothing came in for long: the download is paused.   *)
LEMMA PausesMet ==
    ASSUME ReceiverInv, told \subseteq Sides, RDown \/ RIdle(Busy)
    PROVE  ReceiverGoes
<1>1. incoming \in IncomingStates /\ UNCHANGED <<rx, part, fin, placed, rJournal, toS, told>>
  BY Parts DEF RDown, RIdle, flightVars, IncomingRight
<1>2. \/ incoming' = incoming
      \/ /\ incoming' = [incoming EXCEPT !.state = "paused"]
         /\ incoming.state \in {"offered", "accepted", "transferring"} /\ ~incoming.ask
  <2>1. CASE RDown
    BY <2>1 DEF RDown
  <2>2. CASE RIdle(Busy)
    BY <2>2, UnderWay DEF RIdle
  <2>3. QED
    BY <2>1, <2>2
<1>3. /\ incoming' \in IncomingStates /\ incoming'.ask = incoming.ask
      /\ \/ incoming'.state = incoming.state
         \/ {incoming.state, incoming'.state} \cap (Ended \cup {"none"}) = {} /\ ~incoming.ask
  BY <1>1, <1>2 DEF IncomingStates, Ended
<1>4. Keeps
  BY <1>1, <1>3, GoesOn
<1>5. QED
  BY <1>1, <1>4 DEF ReceiverGoes, Says

LEMMA RUpMet ==
    ASSUME ReceiverInv, told \subseteq Sides, RUp
    PROVE  ReceiverGoes
<1> DEFINE B == BoundBy(incoming', rx')
           D == DoneBy(incoming', placed')
<1>1. incoming \in IncomingStates /\ UNCHANGED <<rx, part, fin, placed, rJournal>>
  BY Parts DEF RUp, IncomingRight
<1>2. CASE incoming.state \in Ended /\ incoming.unsent
  <2>1. /\ incoming' = [incoming EXCEPT !.unsent = FALSE]
        /\ toS' = Put(toS, session, Refuse(Why(incoming.state)))
        /\ told' = told \cup {"receiver"}
    BY <1>2 DEF RUp, Ended
  <2>2. /\ incoming' \in IncomingStates /\ incoming'.ask = incoming.ask
        /\ incoming'.state = incoming.state
    BY <1>1, <2>1 DEF IncomingStates
  <2>3. Keeps /\ B \in Nat
    BY <1>1, <2>2, GoesOn
  <2>4. Refuse(Why(incoming.state)) \in Honest(B, D)
    BY <2>3, ReceiverSays
  <2>5. QED
    BY <2>1, <2>3, <2>4, Tells DEF ReceiverGoes, Sides
<1>3. CASE /\ toS' = Put(toS, session, [t |-> "resume", off |-> IF rx = None THEN 0 ELSE rx.expected])
           /\ UNCHANGED <<incoming, told>>
  <2> DEFINE off == IF rx = None THEN 0 ELSE rx.expected
  <2>1. Keeps /\ B = Bound /\ B \in Nat
    BY <1>1, <1>3, OnlyAnswers, Parts DEF receiverVars
  <2>2. off \in 0..Size /\ off <= B
    <3>1. CASE rx = None
      BY <2>1, <3>1, SizeAssumption
    <3>2. CASE rx # None
      BY <2>1, <3>2, Parts, BoundIs, UnderWay DEF Bound
    <3>3. QED
      BY <3>1, <3>2
  <2>3. toS' = Put(toS, session, [t |-> "resume", off |-> off]) /\ told' = told
    BY <1>3
  <2> HIDE DEF off
  <2>4. [t |-> "resume", off |-> off] \in Honest(B, D)
    BY <2>1, <2>2, ReceiverSays
  <2>5. QED
    BY <2>1, <2>3, <2>4, Tells DEF ReceiverGoes
<1>4. CASE UNCHANGED <<incoming, toS, told>>
  <2>1. Keeps
    BY <1>1, <1>4, OnlyAnswers DEF receiverVars
  <2>2. QED
    BY <1>4, <2>1 DEF ReceiverGoes, Says
<1>5. QED
  BY <1>2, <1>3, <1>4 DEF RUp

LEMMA SaveMet ==
    ASSUME ReceiverInv, told \subseteq Sides, RSave
    PROVE  ReceiverGoes
<1>1. rJournal' = REntry /\ UNCHANGED <<incoming, rx, part, fin, placed, toS, told>>
  BY DEF RSave, linkVars, flightVars
<1>2. None # "complete"
  BY NoneAssumption
<1>3. /\ REntry \in {None, "ask", "live"} \cup Ended
      /\ REntry = "complete" => incoming.state = "complete"
  BY <1>2 DEF REntry, Ended
<1>4. DiskRight(incoming, part, placed, REntry) /\ IncomingRight(incoming, REntry)
  BY <1>3, Parts DEF DiskRight, IncomingRight
<1>5. ReceiverRight(incoming', rx', part', fin', placed', rJournal')
  BY <1>1, <1>4, Parts DEF ReceiverRight
<1>6. BoundBy(incoming', rx') = Bound /\ (DoneBy(incoming', placed') <=> Done) /\ Bound \in Nat
  BY <1>1, Parts DEF Bound, Done
<1>7. QED
  BY <1>1, <1>5, <1>6 DEF ReceiverGoes, Keeps, Says

(* What is found on disk after a restart.                                   *)
LEMMA PartialFits ==
    ASSUME NEW have \in 0..Size
    PROVE  InPlace(Partial(have), have) /\ AllEarly(Partial(have))
<1>1. NewRx \in RxStates /\ NewRx.ahead = <<>> /\ NewRx.queue = <<>> /\ NewRx.writing = <<>>
      /\ NewRx.hashed = <<>> /\ AheadFits(<<>>)
  BY NewRxFits DEF InPlace, NewRx
<1> DEFINE s == Partial(have)
<1>2. /\ s \in RxStates /\ s.expected = have /\ s.prehash = have /\ s.ahead = <<>>
      /\ s.queue = <<>> /\ s.writing = <<>> /\ s.hashed = <<>>
  BY <1>1 DEF Partial, RxStates
<1> HIDE DEF s
<1>3. have <= have /\ <<>> = Piece(have, have)
  BY WholePiece, SizeAssumption
<1>4. FollowsOn(s, have)
  BY <1>2, <1>3 DEF FollowsOn
<1>5. InPlace(s, have)
  BY <1>1, <1>2, <1>3, <1>4 DEF InPlace
<1>6. AllEarly(s)
  <2>1. DOMAIN <<>> = {}
    BY EmptySeq
  <2>2. QED
    BY <1>2, <2>1 DEF AllEarly
<1>7. QED
  BY <1>5, <1>6 DEF s

LEMMA RestartMet ==
    ASSUME ReceiverInv, told \subseteq Sides, RRestart
    PROVE  ReceiverGoes
<1> DEFINE state == CASE rJournal = None -> "none"
                      [] rJournal = "ask" -> "offered"
                      [] rJournal = "live" -> "paused"
                      [] OTHER -> rJournal
           ask == rJournal = "ask"
           unsent == rJournal \in Ended
           had == IF part = None THEN 0 ELSE Len(part)
<1>1. /\ incoming' = [state |-> state, ask |-> ask, unsent |-> unsent]
      /\ fin' = None /\ UNCHANGED <<placed, rJournal>> /\ ClearFlight /\ told' \subseteq Sides
      /\ Forgets
  BY DEF RRestart, Happens, Forgets
<1>2. IF rJournal = "live"
      THEN \E have \in 0..had : /\ part' = IF part = None THEN <<>> ELSE SubSeq(part, 1, have)
                                /\ rx' = Partial(have)
      ELSE rx' = None /\ part' = None
  BY DEF RRestart, CloseDeleted
<1>3. DiskRight(incoming, part, placed, rJournal) /\ IncomingRight(incoming, rJournal)
  BY Parts
<1>4. None \notin {"ask", "live", "complete", "cancelled", "failed"}
  BY NoneAssumption
<1>5. rJournal \in {None, "ask", "live", "complete", "cancelled", "failed"}
  BY <1>3 DEF IncomingRight, Ended
<1>6. /\ state \in Ended \cup {"none", "offered", "paused"}
      /\ state = "complete" => rJournal = "complete"
      /\ state \in {"cancelled", "failed"} => rJournal # "live"
      /\ rJournal = "live" => state = "paused" /\ ~ask
      /\ ask => state = "offered"
      /\ ask \in BOOLEAN /\ unsent \in BOOLEAN
  BY <1>4, <1>5 DEF Ended
<1> HIDE DEF state, ask, unsent
<1>7. incoming' \in IncomingStates /\ incoming'.state = state /\ incoming'.ask = ask
  BY <1>1, <1>6 DEF IncomingStates
<1>8. ASSUME rJournal = "live"
      PROVE  IsPiece(part', 0) /\ InPlace(rx', Len(part')) /\ AllEarly(rx')
  <2>1. PICK have \in 0..had : /\ part' = IF part = None THEN <<>> ELSE SubSeq(part, 1, have)
                               /\ rx' = Partial(have)
    BY <1>2, <1>8
  <2>2. have \in 0..Size /\ part' = Piece(0, have)
    <3>1. CASE part = None
      <4>1. have = 0 /\ part' = <<>> /\ 0 \in 0..Size
        BY <2>1, <3>1, SizeAssumption
      <4>2. QED
        BY <4>1, WholePiece
    <3>2. CASE part # None
      <4>1. IsPiece(part, 0) /\ 0 \in 0..Size
        BY <1>3, <3>2, SizeAssumption DEF DiskRight
      <4>2. Len(part) \in 0..Size /\ part = Piece(0, 0 + Len(part))
        BY <4>1, PieceLength
      <4> DEFINE n == Len(part)
      <4>3. have \in 0..n /\ part' = SubSeq(part, 1, have)
        BY <2>1, <3>2
      <4>4. n \in 0..Size /\ part = Piece(0, n)
        BY <4>2
      <4> HIDE DEF n
      <4>5. have \in 0..Size /\ have \in Nat /\ 1 \in Nat \ {0} /\ 0 <= n /\ 1 <= have + 1 /\ have <= n - 0
            /\ 0 + 1 - 1 = 0 /\ 0 + have = have
        BY <4>3, <4>4, SizeAssumption
      <4>6. SubSeq(Piece(0, n), 1, have) = Piece(0 + 1 - 1, 0 + have)
        BY <4>1, <4>4, <4>5, PieceOfPiece
      <4>7. QED
        BY <4>3, <4>4, <4>5, <4>6
    <3>3. QED
      BY <3>1, <3>2
  <2>3. 0 \in 0..Size /\ 0 <= have /\ have - 0 = have
    BY <2>2, SizeAssumption
  <2>4. IsPiece(part', 0) /\ Len(part') = have
    BY <2>2, <2>3, PieceFacts, ThatIsAPiece
  <2>5. QED
    BY <2>1, <2>2, <2>4, PartialFits
<1>9. RxRight(incoming', rx', part', fin')
  <2>1. CASE rJournal = "live"
    <3>1. incoming'.state = "paused" /\ ~incoming'.ask
      BY <1>6, <1>7, <2>1
    <3>2. QED
      BY <1>1, <1>8, <2>1, <3>1 DEF RxRight, Ended
  <2>2. CASE rJournal # "live"
    BY <1>2, <2>2 DEF RxRight
  <2>3. QED
    BY <2>1, <2>2
<1>10. FinRight(incoming', rx', part', fin', placed')
  BY <1>1 DEF FinRight
<1>11. DiskRight(incoming', part', placed', rJournal')
  BY <1>1, <1>2, <1>3, <1>6, <1>7, <1>8 DEF DiskRight
<1>12. IncomingRight(incoming', rJournal')
  BY <1>1, <1>3, <1>6, <1>7 DEF IncomingRight
<1>13. BoundBy(incoming', rx') = Bound /\ Bound \in Nat
  BY <1>1, Parts DEF Bound, BoundBy
<1>14. Done => DoneBy(incoming', placed')
  BY <1>1 DEF Done, DoneBy
<1>15. QED
  BY <1>1, <1>9, <1>10, <1>11, <1>12, <1>13, <1>14 DEF ReceiverGoes, Keeps, ReceiverRight

------------------------------------------------------------------------------
(* Every step.                                                              *)

LEMMA ReceiverStepRight ==
    ASSUME LinkInv, ReceiverInv, ReceiverStep(Busy)
    PROVE  ReceiverGoes /\ PathRight' /\ toR' \in Seq(RMessages)
<1>0. told \subseteq Sides /\ toR \in Seq(RMessages) /\ PathRight
  BY DEF LinkInv, PathRight
<1>1. ASSUME UNCHANGED pathVars PROVE {session', sUp', rUp'} \subseteq Sessions \cup {0} /\ alive' \in BOOLEAN
  BY <1>0, <1>1 DEF pathVars, PathRight
<1>2. ASSUME faults' = faults \/ Timeout(Busy) \/ \E f : Happens(f) PROVE faults' \in 0..MaxFaults
  BY <1>0, <1>2, FaultsLeft DEF PathRight
<1>3. CASE ReceiverHandles
  <2>1. PICK i \in DOMAIN toR : OnOffer(i) \/ OnChunk(i) \/ OnComplete(i) \/ OnCancel(i)
    BY <1>3 DEF ReceiverHandles
  <2>2. ReceiverGoes
    BY <1>0, <2>1, OfferMet, ChunkMet, CompleteMet, StopsMet
  <2>3. i \in Arriving(toR, rUp) /\ toR' = RemoveAt(toR, i) /\ UNCHANGED pathVars
    BY <2>1 DEF OnOffer, OnChunk, OnComplete, OnCancel, Handled
  <2>4. toR' \in Seq(RMessages)
    BY <1>0, <2>3, ArrivedFrom
  <2>5. faults' = faults \/ Timeout(Busy) \/ \E f : Happens(f)
    <3>1. CASE OnOffer(i)
      <4>1. FirstOffer \/ Reoffer
        BY <3>1 DEF OnOffer
      <4>2. QED
        BY <4>1 DEF FirstOffer, Reoffer
    <3>2. CASE OnChunk(i) \/ OnComplete(i) \/ OnCancel(i)
      BY <3>2 DEF OnChunk, OnComplete, OnCancel
    <3>3. QED
      BY <2>1, <3>1, <3>2
  <2>6. PathRight'
    BY <1>1, <1>2, <2>3, <2>5 DEF PathRight
  <2>7. QED
    BY <2>2, <2>4, <2>6
<1>4. CASE \/ Download \/ AckAges \/ DelayedAck \/ WriterDone \/ WriteFails \/ Verified \/ Place
           \/ Placed \/ RIdle(Busy) \/ RCancel \/ RSave
  <2>1. ReceiverGoes
    BY <1>0, <1>4, DownloadMet, TimersMet, WriterDoneMet, StopsMet, FinMet, PausesMet, SaveMet
  <2>2. UNCHANGED pathVars /\ toR' = toR
    BY <1>4 DEF Download, AckAges, DelayedAck, WriterDone, WriteFails, Verified, Place, Placed, RIdle,
       RCancel, RSave, linkVars, flightVars
  <2>3. faults' = faults \/ Timeout(Busy) \/ \E f : Happens(f)
    BY <1>4 DEF Download, AckAges, DelayedAck, WriterDone, WriteFails, Verified, Place, Placed, RIdle,
       RCancel, RSave, linkVars, flightVars
  <2>4. PathRight'
    BY <1>1, <1>2, <2>2, <2>3 DEF PathRight
  <2>5. QED
    BY <1>0, <2>1, <2>2, <2>4
<1>5. CASE RDown \/ RUp
  <2>1. ReceiverGoes
    BY <1>0, <1>5, PausesMet, RUpMet
  <2>2. /\ faults' = faults /\ session' = session /\ sUp' = sUp /\ rUp' \in {0, session}
        /\ alive' = alive /\ toR' = toR
    BY <1>5 DEF RDown, RUp, flightVars
  <2>3. PathRight'
    BY <1>0, <2>2 DEF PathRight
  <2>4. QED
    BY <1>0, <2>1, <2>2, <2>3
<1>6. CASE RRestart
  <2>1. ReceiverGoes
    BY <1>0, <1>6, RestartMet
  <2>2. faults' \in 0..MaxFaults
    BY <1>2, <1>6 DEF RRestart
  <2>3. PathRight'
    BY <1>0, <1>6, <2>2 DEF RRestart, PathRight
  <2>4. toR' \in Seq(RMessages)
    BY <1>6, EmptyFlight DEF RRestart
  <2>5. QED
    BY <2>1, <2>3, <2>4
<1>7. QED
  BY <1>3, <1>4, <1>5, <1>6 DEF ReceiverStep

LEMMA SessionStepRight ==
    ASSUME LinkInv, NEW S, toS \in Seq(S), SessionStep
    PROVE  PathRight' /\ toR' \in Seq(RMessages) /\ toS' \in Seq(S) /\ told' \subseteq Sides
<1>0. told \subseteq Sides /\ toR \in Seq(RMessages) /\ PathRight
  BY DEF LinkInv, PathRight
<1>1. ASSUME faults' = faults \/ Timeout(Busy) \/ \E f : Happens(f) PROVE faults' \in 0..MaxFaults
  BY <1>0, <1>1, FaultsLeft DEF PathRight
<1>2. CASE Cut
  <2>1. faults' \in 0..MaxFaults
    BY <1>1, <1>2 DEF Cut
  <2>2. PathRight'
    BY <1>0, <1>2, <2>1 DEF Cut, PathRight
  <2>3. QED
    BY <1>0, <1>2, <2>2, EmptyFlight DEF Cut
<1>3. CASE Lose
  <2>1. faults' \in 0..MaxFaults /\ UNCHANGED <<pathVars, told>>
    BY <1>1, <1>3 DEF Lose
  <2>2. PathRight'
    BY <1>0, <2>1 DEF PathRight, pathVars
  <2>3. toR' \in Seq(RMessages) /\ toS' \in Seq(S)
    BY <1>0, <1>3, RemoveOne DEF Lose
  <2>4. QED
    BY <1>0, <2>1, <2>2, <2>3
<1>4. CASE NewSession({task.path})
  <2> DEFINE fresh == FreshSession({task.path})
             n == CHOOSE n \in fresh : \A k \in fresh : n <= k
  <2>1. fresh \in SUBSET Nat /\ fresh \subseteq Sessions
    BY SessionsAssumption DEF FreshSession
  <2>2. session' = n /\ fresh # {}
    BY <1>4 DEF NewSession
  <2>3. n \in fresh
    <3>1. \E x \in fresh : \A k \in fresh : x <= k
      BY <2>1, <2>2, Least
    <3>2. QED
      BY <3>1
  <2>4. faults' \in 0..MaxFaults
    BY <1>1, <1>4 DEF NewSession
  <2> HIDE DEF n
  <2>5. PathRight'
    BY <1>0, <1>4, <2>1, <2>2, <2>3, <2>4 DEF NewSession, PathRight
  <2>6. QED
    BY <1>0, <1>4, <2>5, EmptyFlight DEF NewSession
<1>5. CASE Rekey({task.path})
  <2>1. PICK n \in Sessions : session' = n /\ sUp' = n /\ rUp' = n
    BY <1>5 DEF Rekey, FreshSession
  <2>2. faults' \in 0..MaxFaults
    BY <1>1, <1>5 DEF Rekey
  <2>3. PathRight'
    BY <1>0, <1>5, <2>1, <2>2 DEF Rekey, PathRight
  <2>4. QED
    BY <1>0, <1>5, <2>3, EmptyFlight DEF Rekey
<1>6. CASE \E side \in Sides : RejectAges(side)
  <2>1. told' \subseteq Sides /\ UNCHANGED <<pathVars, flightVars, faults>>
    BY <1>0, <1>6 DEF RejectAges
  <2>2. PathRight'
    BY <1>0, <2>1 DEF PathRight, pathVars
  <2>3. QED
    BY <1>0, <2>1, <2>2 DEF flightVars
<1>7. QED
  BY <1>2, <1>3, <1>4, <1>5, <1>6 DEF SessionStep

(* What is right stays so when the receiver has more.                       *)
LEMMA StillRight ==
    ASSUME NEW b1 \in Nat, NEW b2 \in Nat, NEW d1, NEW d2, b1 <= b2, d1 => d2,
           NEW og, NEW o, NEW tk, SenderRight(og, o, tk, b1, d1)
    PROVE  SenderRight(og, o, tk, b2, d2)
<1>1. ASSUME OutRight(o, b1, d1) PROVE OutRight(o, b2, d2)
  <2>1. o.acked \in 0..Size /\ o.acked <= b1
    BY <1>1, OutHolds
  <2>2. o.acked <= b2
    BY <2>1, SizeAssumption
  <2>3. QED
    BY <1>1, <2>2 DEF OutRight
<1>2. ShownRight(og, d2)
  BY DEF SenderRight, ShownRight
<1>3. QED
  BY <1>1, <1>2 DEF SenderRight

LEMMA Initially == Init => IInv
<1> SUFFICES ASSUME Init PROVE IInv
  OBVIOUS
<1>1. LinkInv
  <2>1. toR \in Seq(RMessages) /\ told \subseteq Sides /\ line \in DOMAIN LineFaults
    BY EmptySeq DEF Init, LinkInit
  <2>2. {session, sUp, rUp} \subseteq Sessions \cup {0} /\ alive \in BOOLEAN
    BY DEF Init, LinkInit
  <2>3. faults \in 0..MaxFaults
    BY FaultAssumption DEF Init, LinkInit
  <2>4. QED
    BY <2>1, <2>2, <2>3 DEF LinkInv
<1>2. AnswersInv
  BY EmptySeq DEF Init, LinkInit, AnswersInv
<1>3. SenderInv
  <2>1. ShownRight(outgoing, Done) /\ out = None /\ task = NoTask /\ sJournal = None
    BY DEF Init, SenderInit, NewTransfer, ShownRight, OutgoingStates, Terminal, Unknown
  <2>2. None # "complete"
    BY NoneAssumption
  <2>3. QED
    BY <2>1, <2>2, EndedRight DEF SenderInv, JournalRight
<1>4. ReceiverInv
  <2>1. /\ incoming = [state |-> "none", ask |-> FALSE, unsent |-> FALSE]
        /\ rx = None /\ part = None /\ fin = None /\ placed = None /\ rJournal = None
    BY DEF Init, ReceiverInit
  <2>2. incoming \in IncomingStates /\ incoming.state = "none" /\ ~incoming.ask
    BY <2>1 DEF IncomingStates
  <2>3. None # "complete"
    BY NoneAssumption
  <2>4. QED
    BY <2>1, <2>2, <2>3 DEF ReceiverInv, ReceiverRight, RxRight, FinRight, DiskRight, IncomingRight
<1>5. QED
  BY <1>1, <1>2, <1>3, <1>4 DEF IInv

LEMMA Inductive == IInv /\ [Next]_vars => IInv'
<1> SUFFICES ASSUME IInv, [Next]_vars PROVE IInv'
  OBVIOUS
<1>0. /\ LinkInv /\ AnswersInv /\ SenderInv /\ ReceiverInv /\ Bound \in Nat /\ PathRight
      /\ SenderRight(outgoing, out, task, Bound, Done) /\ JournalRight(sJournal, Done)
      /\ toS \in Seq(Honest(Bound, Done)) /\ line \in DOMAIN LineFaults
  BY Parts DEF IInv, SenderInv, AnswersInv, LinkInv, PathRight
<1>1. ASSUME line' = line
      PROVE  Bound' = BoundBy(incoming', rx') /\ Done' = DoneBy(incoming', placed')
  BY <1>1 DEF Bound, Done, BoundBy, DoneBy, Reached, Forgets, Faults
<1>2. ASSUME line' = line, UNCHANGED receiverVars
      PROVE  Bound' = Bound /\ Done' = Done /\ ReceiverInv'
  <2>1. Bound' = Bound /\ Done' = Done
    BY <1>1, <1>2 DEF receiverVars, Bound, Done
  <2>2. ReceiverRight(incoming', rx', part', fin', placed', rJournal')
    BY <1>0, <1>2 DEF receiverVars, ReceiverInv
  <2>3. QED
    BY <2>1, <2>2 DEF ReceiverInv
<1>3. CASE SenderStep(Busy) /\ ReceiverRests
  <2>1. line' = line /\ Bound' = Bound /\ Done' = Done /\ ReceiverInv'
    BY <1>2, <1>3 DEF ReceiverRests
  <2>2. PathRight' /\ SenderGoes(Bound, Done)
    BY <1>0, <1>3, SenderPath, SenderStepRight
  <2>3. LinkInv'
    BY <1>0, <2>1, <2>2 DEF LinkInv, PathRight, SenderGoes
  <2>4. SenderInv' /\ AnswersInv'
    BY <1>0, <2>1, <2>2 DEF SenderInv, AnswersInv, SenderGoes
  <2>5. QED
    BY <2>1, <2>3, <2>4 DEF IInv
<1>4. CASE ReceiverStep(Busy) /\ SenderRests
  <2>1. ReceiverGoes /\ PathRight' /\ toR' \in Seq(RMessages)
    BY <1>0, <1>4, ReceiverStepRight
  <2>2. line' = line /\ UNCHANGED <<outgoing, out, task, sJournal>>
    BY <1>4 DEF SenderRests, senderVars
  <2> DEFINE B == BoundBy(incoming', rx')
             D == DoneBy(incoming', placed')
  <2>3. /\ ReceiverRight(incoming', rx', part', fin', placed', rJournal')
        /\ Bound <= B /\ (Done => D) /\ B \in Nat
    BY <2>1, BoundIs DEF ReceiverGoes, Keeps, ReceiverRight
  <2>4. Bound' = B /\ Done' = D
    BY <1>1, <2>2
  <2>5. toS' \in Seq(Honest(B, D))
    <3>1. CASE ClearFlight
      BY <3>1, EmptyFlight
    <3>2. CASE Says
      <4>1. toS' = toS \/ \E m \in Honest(B, D) : \E up : toS' = Put(toS, up, m)
        BY <3>2 DEF Says
      <4> HIDE DEF B, D
      <4>2. toS \in Seq(Honest(B, D))
        BY <1>0, <2>3, StillHonest
      <4>3. QED
        BY <4>1, <4>2, PutIn
    <3>3. QED
      BY <2>1, <3>1, <3>2 DEF ReceiverGoes
  <2>6. SenderRight(outgoing', out', task', B, D) /\ JournalRight(sJournal', D)
    BY <1>0, <2>2, <2>3, StillRight DEF JournalRight
  <2> HIDE DEF B, D
  <2>7. ReceiverInv' /\ AnswersInv' /\ SenderInv'
    BY <2>3, <2>4, <2>5, <2>6 DEF ReceiverInv, AnswersInv, SenderInv
  <2>8. LinkInv'
    BY <1>0, <2>1, <2>2 DEF LinkInv, PathRight, ReceiverGoes
  <2>9. QED
    BY <2>7, <2>8 DEF IInv
<1>5. CASE SessionStep /\ SenderRests /\ ReceiverRests
  <2>1. line' = line /\ Bound' = Bound /\ Done' = Done /\ ReceiverInv'
    BY <1>2, <1>5 DEF ReceiverRests
  <2>2. PathRight' /\ toR' \in Seq(RMessages) /\ toS' \in Seq(Honest(Bound, Done)) /\ told' \subseteq Sides
    BY <1>0, <1>5, SessionStepRight
  <2>3. LinkInv'
    BY <1>0, <2>1, <2>2 DEF LinkInv, PathRight
  <2>4. SenderInv' /\ AnswersInv'
    BY <1>0, <1>5, <2>1, <2>2 DEF SenderRests, senderVars, SenderInv, AnswersInv
  <2>5. QED
    BY <2>1, <2>3, <2>4 DEF IInv
<1>6. CASE UNCHANGED vars
  <2>1. /\ line' = line /\ UNCHANGED receiverVars /\ UNCHANGED senderVars /\ UNCHANGED linkVars
    BY <1>6 DEF vars
  <2>2. Bound' = Bound /\ Done' = Done /\ ReceiverInv'
    BY <1>2, <2>1
  <2>3. LinkInv'
    BY <1>0, <2>1 DEF LinkInv, linkVars, pathVars, flightVars
  <2>4. SenderInv' /\ AnswersInv'
    BY <1>0, <2>1, <2>2 DEF senderVars, linkVars, flightVars, SenderInv, AnswersInv
  <2>5. QED
    BY <2>2, <2>3, <2>4 DEF IInv
<1>7. QED
  BY <1>3, <1>4, <1>5, <1>6 DEF Next

LEMMA Invariant == Spec => []IInv
BY Initially, Inductive, PTL DEF Spec

------------------------------------------------------------------------------
(* What follows.                                                            *)

LEMMA MessagesAreTyped ==
    RMessages \subseteq Messages /\ \A bound, done : Honest(bound, done) \subseteq Messages
<1>1. RMessages \subseteq Messages
  <2>1. Source \in Data
    <3>1. 0 \in 0..Size /\ Size \in 0..Size /\ 0 <= Size
      BY SizeAssumption
    <3>2. QED
      BY <3>1, WholePiece, PieceFacts
  <2>2. QED
    BY <2>1 DEF RMessages, Messages
<1>2. SMessages \subseteq Messages
  BY DEF SMessages, Messages
<1>3. QED
  BY <1>1, <1>2 DEF Honest

(* Every variable keeps its type, in every session and after every fault:   *)
(* counters and offsets stay inside the file, the offers unanswered and the *)
(* stalls in a row below their limits.                                      *)
THEOREM TypesTheorem == Spec => []TypeOK
<1>1. ASSUME IInv PROVE TypeOK
  <2>0. /\ LinkInv /\ toS \in Seq(Honest(Bound, Done)) /\ ReceiverInv
        /\ SenderRight(outgoing, out, task, Bound, Done) /\ JournalRight(sJournal, Done)
    BY <1>1 DEF IInv, AnswersInv, SenderInv
  <2>1. LinkTypeOK
    <3>1. (\A i \in DOMAIN toR : toR[i] \in Messages) /\ (\A i \in DOMAIN toS : toS[i] \in Messages)
      BY <2>0, ElementOfSeq, LenProperties, MessagesAreTyped DEF LinkInv
    <3>2. QED
      BY <2>0, <3>1 DEF LinkInv, LinkTypeOK
  <2>2. SenderTypeOK
    <3>1. outgoing \in OutgoingStates /\ TaskRight(task) /\ (out = None \/ OutRight(out, Bound, Done))
      BY <2>0 DEF SenderRight, ShownRight
    <3>2. \/ out = None
          \/ /\ out.acked \in 0..Size /\ out.next \in Nat /\ out.hashed \in Data
             /\ out.result \in BOOLEAN \cup {None} /\ out.stalls \in 0..MaxStalls
             /\ {out.done, out.rewind, out.wake, out.late} \subseteq BOOLEAN
      BY <3>1, OutHolds
    <3>3. task.pc \in {"none", "loop", "linkwait", "prep", "sending", "hash", "complete",
                       "wait", "giveup", "stalled"}
          /\ task.path \in Sessions \cup {0}
      BY <3>1 DEF TaskRight, TaskStates
    <3>4. sJournal \in {None, "live"} \cup Terminal
      BY <2>0 DEF JournalRight
    <3>5. QED
      BY <3>1, <3>2, <3>3, <3>4 DEF SenderTypeOK, OutgoingStates
  <2>3. ReceiverTypeOK
    <3>1. incoming \in IncomingStates /\ rJournal \in {None, "ask", "live"} \cup Ended
      BY <2>0, Parts DEF IncomingRight
    <3>2. Source \in Data
      <4>1. 0 \in 0..Size /\ Size \in 0..Size /\ 0 <= Size
        BY SizeAssumption
      <4>2. QED
        BY <4>1, WholePiece, PieceFacts
    <3>3. part \in Data \cup {None} /\ placed \in Data \cup {None}
      <4>1. 0 \in 0..Size
        BY SizeAssumption
      <4>2. QED
        BY <2>0, <3>2, <4>1, Parts, PieceLength DEF DiskRight
    <3>4. ASSUME rx # None
          PROVE  /\ rx.expected \in 0..Size /\ rx.prehash \in 0..Size
                 /\ {rx.queue, rx.writing, rx.hashed} \subseteq Data
                 /\ \A i \in DOMAIN rx.ahead : rx.ahead[i] \in [off : 0..Size, data : Data]
                 /\ rx.sha \in Data \cup {None} /\ rx.acked \in -1..Size
                 /\ {rx.ackDue, rx.recent} \subseteq BOOLEAN
      <4>1. rx \in RxStates /\ AheadFits(rx.ahead)
        BY <2>0, <3>4, UnderWay DEF InPlace
      <4>2. \A i \in DOMAIN rx.ahead : rx.ahead[i] \in Entries
        BY <4>1, AheadEntry
      <4>3. QED
        BY <3>2, <4>1, <4>2 DEF RxStates, Entries
    <3>5. fin \in {None} \cup [phase : {"verify", "place", "moved", "unmoved"}, ok : BOOLEAN]
      BY <2>0, Parts DEF FinRight
    <3>6. QED
      BY <3>1, <3>3, <3>4, <3>5 DEF ReceiverTypeOK, IncomingStates
  <2>4. QED
    BY <2>1, <2>2, <2>3 DEF TypeOK
<1>2. QED
  BY <1>1, Invariant, PTL

(* The partial file never has a hole, an overlap or a misplaced block, and  *)
(* what waits to be written follows on from it (_handle_file_chunk,         *)
(* _rx_take_ahead, _write_blocks).                                          *)
THEOREM FileInOrderTheorem == Spec => []FileInOrder
<1>1. ASSUME IInv PROVE FileInOrder
  <2>0. ReceiverInv /\ 0 \in 0..Size
    BY <1>1, SizeAssumption DEF IInv
  <2>1. ASSUME part # None PROVE Len(part) <= Size /\ part = SubSeq(Source, 1, Len(part))
    <3>1. IsPiece(part, 0)
      BY <2>0, <2>1, Parts DEF DiskRight
    <3>2. Len(part) \in 0..Size /\ part = Piece(0, 0 + Len(part))
      BY <2>0, <3>1, PieceLength
    <3>3. Len(part) <= Size /\ 0 + Len(part) = Len(part) /\ 0 + 1 = 1
      BY <3>2, SizeAssumption
    <3>4. QED
      BY <3>2, <3>3 DEF Piece
  <2>2. ASSUME rx # None
        PROVE  /\ rx.expected <= Size
               /\ part \o rx.writing \o rx.queue = SubSeq(Source, 1, rx.expected)
               /\ \A i \in DOMAIN rx.ahead :
                    /\ rx.ahead[i].off > rx.expected
                    /\ rx.ahead[i].off + Len(rx.ahead[i].data) <= Size
                    /\ rx.ahead[i].data = SubSeq(Source, rx.ahead[i].off + 1,
                                                 rx.ahead[i].off + Len(rx.ahead[i].data))
    <3>1. /\ IsPiece(part, 0) /\ InPlace(rx, Len(part)) /\ AllEarly(rx)
          /\ rx.expected \in 0..Size /\ Len(part) \in 0..Size
      BY <2>0, <2>2, UnderWay DEF Written
    <3>2. part = Piece(0, Len(part))
      BY <3>1, CaughtUpIs
    <3>3. PICK k \in 0..Size : /\ Len(part) <= k /\ k <= rx.expected
                               /\ rx.writing = Piece(Len(part), k) /\ rx.queue = Piece(k, rx.expected)
      BY <3>1 DEF InPlace, FollowsOn
    <3> DEFINE n == Len(part)
    <3>4. 0 <= n /\ 0 <= k /\ rx.expected <= Size /\ 0 + 1 = 1
      BY <3>1, <3>3, SizeAssumption
    <3> HIDE DEF n
    <3>5. Piece(0, n) \o Piece(n, k) = Piece(0, k)
      BY <2>0, <3>1, <3>3, <3>4, JoinPieces DEF n
    <3>6. Piece(0, k) \o Piece(k, rx.expected) = Piece(0, rx.expected)
      BY <2>0, <3>1, <3>3, <3>4, JoinPieces
    <3>7. part \o rx.writing \o rx.queue = SubSeq(Source, 1, rx.expected)
      BY <3>2, <3>3, <3>4, <3>5, <3>6 DEF n, Piece
    <3>8. ASSUME NEW i \in DOMAIN rx.ahead
          PROVE  /\ rx.ahead[i].off > rx.expected
                 /\ rx.ahead[i].off + Len(rx.ahead[i].data) <= Size
                 /\ rx.ahead[i].data = SubSeq(Source, rx.ahead[i].off + 1,
                                              rx.ahead[i].off + Len(rx.ahead[i].data))
      <4>1. AheadFits(rx.ahead)
        BY <3>1 DEF InPlace
      <4>2. rx.ahead[i] \in Entries /\ IsPiece(rx.ahead[i].data, rx.ahead[i].off)
        BY <4>1, AheadEntry DEF AheadFits
      <4>3. /\ rx.ahead[i].off + Len(rx.ahead[i].data) \in 0..Size
            /\ rx.ahead[i].data = Piece(rx.ahead[i].off, rx.ahead[i].off + Len(rx.ahead[i].data))
        BY <4>2, PieceFits
      <4>4. rx.ahead[i].off + Len(rx.ahead[i].data) <= Size
        BY <4>3, SizeAssumption
      <4>5. QED
        BY <3>1, <4>3, <4>4 DEF AllEarly, Piece
    <3>9. QED
      BY <3>4, <3>7, <3>8
  <2>3. QED
    BY <2>1, <2>2 DEF FileInOrder
<1>2. QED
  BY <1>1, Invariant, PTL

(* What the sender counts as confirmed is at the receiver, so going back to *)
(* it loses nothing, as long as the receiver does not crash (_rx_ack,       *)
(* _handle_file_ack, _handle_file_accept).                                  *)
THEOREM ConfirmedIsHeldTheorem == Spec => []ConfirmedIsHeld
<1>1. ASSUME IInv PROVE ConfirmedIsHeld
  <2> SUFFICES ASSUME out # None, rx # None, "rrestart" \notin Faults PROVE out.acked <= rx.expected
    BY DEF ConfirmedIsHeld
  <2>1. OutRight(out, Bound, Done)
    BY <1>1 DEF IInv, SenderInv, SenderRight
  <2>2. Bound = rx.expected
    BY DEF Bound, BoundBy, Reached, Forgets
  <2>3. QED
    BY <2>1, <2>2 DEF OutRight
<1>2. QED
  BY <1>1, Invariant, PTL

(* A file that came through whole is never called damaged; nobody shows it  *)
(* as complete before the whole of it is in its place; the sender is never  *)
(* contradicted by a receiver that does not crash; and nothing is left of a *)
(* download that was cancelled or failed (_rx_finalize, _send_file_chunks,  *)
(* _handle_file_reject, _stop_transfer_work).                               *)
THEOREM VerdictsTheorem == Spec => []VerdictsAreRight
<1>1. ASSUME IInv PROVE VerdictsAreRight
  <2>0. ReceiverInv /\ ShownRight(outgoing, Done)
    BY <1>1 DEF IInv, SenderInv, SenderRight
  <2>1. NoFalseDamage
    <3>1. fin # None => fin.ok = TRUE
      BY <2>0, Parts DEF FinRight
    <3>2. QED
      BY <3>1 DEF NoFalseDamage
  <2>2. outgoing.state = "complete" => Done
    BY <2>0 DEF ShownRight
  <2>3. CompleteMeansWhole
    BY <2>0, <2>2, Parts DEF CompleteMeansWhole, DiskRight, Done, DoneBy
  <2>4. OneVerdict
    BY <2>2 DEF OneVerdict, Done, DoneBy, Forgets
  <2>5. EndedLeavesNothing
    BY <2>0, Parts DEF EndedLeavesNothing, DiskRight
  <2>6. QED
    BY <2>1, <2>3, <2>4, <2>5 DEF VerdictsAreRight
<1>2. QED
  BY <1>1, Invariant, PTL
==============================================================================
