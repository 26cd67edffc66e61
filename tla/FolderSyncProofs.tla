--------------------------- MODULE FolderSyncProofs ----------------------------
(***************************************************************************)
(* A theorem about FolderSync, for any number of edits and any faults: what*)
(* a scan takes for a change is one, or a file that lost a conflict, the   *)
(* winner being in no list that the scan looks at.                         *)
(***************************************************************************)
EXTENDS FolderSync, ListFacts

Versions == [D -> Nat]
Entries == [sha : Nat, vv : Versions, del : BOOLEAN]
Real == {e \in Entries : e.del = TRUE \/ e.sha # 0}
Files == {e \in Real : e.del = FALSE}
States == {"invited", "offered", "active", "paused", "stopped", NoState}

Devs ==
    [state : States, unsent : BOOLEAN, disk : Nat, kept : SUBSET (Nat \ {0}), trash : SUBSET Nat,
     entry : Real \cup {Missing}, dirty : BOOLEAN, queue : Files \cup {Missing}, wanted : Nat,
     incoming : Files \cup {Missing}]

Mails ==
    [op : {"invite", "accept", "stop"}] \cup [op : {"index"}, entry : Real]
      \cup [op : {"get"}, sha : Nat \ {0}]

Items == [entry : Files, ahead : SUBSET (Kinds \cup {"mail"})]

(* What is wanted is known in full, and the file is as it was last seen,    *)
(* unless the user (touched, T) changed it; if it is known and not there,   *)
(* what it was is beside it, as a copy.                                     *)
Right(r, d, T) ==
    /\ r \in Devs
    /\ r.wanted # 0 => r.incoming.sha = r.wanted
    /\ r.state # NoState /\ r.disk # 0 => d \in T \/ (Known(r) /\ r.entry.sha = r.disk)
    /\ r.disk = 0 /\ Known(r) => d \in T \/ r.entry.sha \in r.kept

(* A known file that is not there is on its way, or was asked for.          *)
Awaited(r, d, T) ==
    r.disk = 0 /\ Known(r) => d \in T \/ r.queue # Missing \/ r.incoming # Missing

(* Or it waits to be put in place (p); what is coming (c) is what is wanted.*)
Calm(r, d, T, c, p) ==
    /\ p # <<>> \/ Awaited(r, d, T)
    /\ (r.state = NoState => r.wanted = 0) /\ c \subseteq {r.wanted}

CalmInv ==
    faults = 0 => /\ \A d \in D : Calm(dev[d], d, touched, coming[d], placing[d])
                  /\ linked = TRUE \/ \A d \in D : mail[d] = <<>> /\ coming[d] = {}

(* One invitation goes out, and b has never had the folder until it is there*)
Clear(q) == \A i \in 1..Len(q) : q[i].op # "invite"
AtMostOne(q) == \A i, j \in 1..Len(q) : q[i].op = "invite" /\ q[j].op = "invite" => i = j
New(r, T) == r.state = NoState /\ (r.disk # 0 => "b" \in T)
Fresh == New(dev["b"], touched) /\ placing["b"] = <<>>

InviteInv ==
    /\ Clear(mail["a"]) /\ dev["b"].unsent = FALSE
    /\ dev["a"].unsent = TRUE => Clear(mail["b"]) /\ Fresh
    /\ Clear(mail["b"]) \/ (AtMostOne(mail["b"]) /\ Fresh)

IInv ==
    /\ dev \in [D -> Devs] /\ mail \in [D -> Seq(Mails)] /\ coming \in [D -> SUBSET (Nat \ {0})]
    /\ placing \in [D -> Seq(Items)]
    /\ edits \in Nat /\ faults \in Nat /\ linked \in BOOLEAN
    /\ \A d \in D : Right(dev[d], d, touched)
    /\ InviteInv /\ CalmInv

------------------------------------------------------------------------------
(* Entries and versions.                                                    *)

LEMMA EntryFacts ==
    /\ Missing \notin Real /\ Missing.sha = 0 /\ Missing.del = FALSE /\ Missing.vv = Zero
    /\ Zero \in Versions /\ Missing \in Entries
    /\ \A e \in Files : e.sha # 0 /\ e.del = FALSE /\ e # Missing /\ e \in Real /\ e.sha \in Nat
    /\ \A e \in Real : e.sha \in Nat /\ e.vv \in Versions /\ e.del \in BOOLEAN /\ e # Missing
<1>1. Zero \in Versions /\ Missing.sha = 0 /\ Missing.del = FALSE /\ Missing.vv = Zero /\ Missing \in Entries
  BY DEF Missing, Zero, Versions, Entries
<1>2. Missing \notin Real
  BY <1>1 DEF Real
<1>3. QED
  BY <1>1, <1>2 DEF Real, Files, Entries

LEMMA VersionFacts ==
    ASSUME NEW v \in Versions, NEW w \in Versions, NEW d \in D
    PROVE  Bump(v, d) \in Versions /\ Merged(v, w) \in Versions /\ ~Newer(Zero, v)
<1>1. \A e \in D : v[e] \in Nat /\ w[e] \in Nat
  BY DEF Versions
<1>2. Merged(v, w) \in Versions
  BY <1>1, MaxOfTwo DEF Merged, Versions
<1>3. Bump(v, d) \in Versions
  BY <1>1 DEF Bump, Versions
<1>4. \A e \in D : ~(0 > v[e])
  BY <1>1
<1>5. ~Newer(Zero, v)
  BY <1>4 DEF Newer, Zero
<1>6. QED
  BY <1>2, <1>3, <1>5

------------------------------------------------------------------------------
(* What the operations make of a device.                                    *)

LEMMA DevFields ==
    ASSUME NEW r \in Devs
    PROVE  /\ r.state \in States /\ r.unsent \in BOOLEAN /\ r.disk \in Nat
           /\ r.kept \in SUBSET (Nat \ {0}) /\ r.trash \in SUBSET Nat
           /\ r.entry \in Real \cup {Missing} /\ r.dirty \in BOOLEAN
           /\ r.queue \in Files \cup {Missing} /\ r.wanted \in Nat
           /\ r.incoming \in Files \cup {Missing}
BY DEF Devs

(* A scan that does not know what is on its way in.                         *)
LEMMA BlindFits ==
    ASSUME NEW r, NEW d \in D, NEW T, Right(r, d, T), r.state # NoState
    PROVE  LET n == ScannedBlind(r, d)
           IN  /\ Right(n, d, T \ {d}) /\ Awaited(n, d, T \ {d})
               /\ n.state = r.state /\ n.unsent = r.unsent /\ n.disk = r.disk
               /\ n.wanted = r.wanted /\ n.queue = r.queue /\ n.incoming = r.incoming
               /\ n.entry # r.entry => d \in T \/ (n.entry.del = TRUE /\ r.disk = 0 /\ Known(r))
<1> DEFINE gone == [sha |-> 0, vv |-> Bump(r.entry.vv, d), del |-> TRUE]
           found == [sha |-> r.disk, vv |-> Bump(r.entry.vv, d), del |-> FALSE]
<1>1. r \in Devs
  BY DEF Right
<1>2. /\ r.disk \in Nat /\ r.entry \in Real \cup {Missing} /\ r.wanted \in Nat
      /\ r.incoming \in Files \cup {Missing} /\ r.queue \in Files \cup {Missing}
  BY <1>1, DevFields
<1>3. r.entry.vv \in Versions
  BY <1>2, EntryFacts
<1>4. Bump(r.entry.vv, d) \in Versions
  BY <1>3, VersionFacts
<1>5. gone \in Real /\ gone.del = TRUE /\ gone # Missing /\ ~(gone # Missing /\ ~gone.del)
  <2>1. gone \in Real /\ gone.del = TRUE
    BY <1>4 DEF Real, Entries
  <2>2. QED
    BY <2>1, EntryFacts
<1>6. r.disk # 0 => found \in Real /\ found.del = FALSE /\ found # Missing /\ found.sha = r.disk
  <2>1. r.disk # 0 => found \in Real /\ found.del = FALSE /\ found.sha = r.disk
    BY <1>2, <1>4 DEF Real, Entries
  <2>2. QED
    BY <2>1, EntryFacts
<1> HIDE DEF gone, found
<1>7. CASE r.disk = 0 /\ Known(r)
  <2> DEFINE n == [r EXCEPT !.entry = gone, !.dirty = TRUE]
  <2>1. ScannedBlind(r, d) = n
    BY <1>7 DEF ScannedBlind, gone
  <2>2. /\ n \in Devs /\ n.state = r.state /\ n.unsent = r.unsent /\ n.disk = r.disk
        /\ n.wanted = r.wanted /\ n.queue = r.queue /\ n.incoming = r.incoming /\ n.entry = gone
        /\ n.kept = r.kept
    BY <1>1, <1>5 DEF Devs
  <2> HIDE DEF n
  <2>3. Right(n, d, T \ {d}) /\ Awaited(n, d, T \ {d})
    BY <1>5, <1>7, <2>2 DEF Right, Awaited, Known
  <2>4. QED
    BY <1>5, <1>7, <2>1, <2>2, <2>3
<1>8. CASE ~(r.disk = 0 /\ Known(r))
  <2>1. ScannedBlind(r, d) = ScannedSelf(r, d)
    BY <1>8 DEF ScannedBlind
  <2>2. CASE r.disk # 0 /\ ~(Known(r) /\ r.entry.sha = r.disk)
    <3> DEFINE n == [r EXCEPT !.entry = found, !.dirty = TRUE]
    <3>1. ScannedSelf(r, d) = n
      BY <2>2 DEF ScannedSelf, found
    <3>2. /\ n \in Devs /\ n.state = r.state /\ n.unsent = r.unsent /\ n.disk = r.disk
          /\ n.wanted = r.wanted /\ n.queue = r.queue /\ n.incoming = r.incoming /\ n.entry = found
          /\ n.kept = r.kept
      BY <1>1, <1>6, <2>2 DEF Devs
    <3> HIDE DEF n
    <3>3. Right(n, d, T \ {d}) /\ Awaited(n, d, T \ {d})
      BY <1>6, <2>2, <3>2 DEF Right, Awaited, Known
    <3>4. d \in T
      BY <2>2 DEF Right
    <3>5. QED
      BY <2>1, <3>1, <3>2, <3>3, <3>4
  <2>3. CASE ~(r.disk # 0 /\ ~(Known(r) /\ r.entry.sha = r.disk))
    <3>1. ScannedSelf(r, d) = r
      BY <2>3 DEF ScannedSelf
    <3>2. Right(r, d, T \ {d}) /\ Awaited(r, d, T \ {d})
      BY <1>8, <2>3 DEF Right, Awaited
    <3>3. QED
      BY <2>1, <3>1, <3>2
  <2>4. QED
    BY <2>2, <2>3
<1>9. QED
  BY <1>7, <1>8

(* A scan sees what the user did; a deletion nobody made is of a file that  *)
(* is in none of the lists.                                                 *)
LEMMA ScannedFits ==
    ASSUME NEW r, NEW d \in D, NEW T, Right(r, d, T), r.state # NoState
    PROVE  LET n == Scanned(r, d)
               S == IF Overlooks(r) THEN T ELSE T \ {d}
           IN  /\ Right(n, d, S) /\ (Awaited(r, d, T) => Awaited(n, d, S))
               /\ n.state = r.state /\ n.unsent = r.unsent /\ n.disk = r.disk
               /\ n.wanted = r.wanted
               /\ n.entry # r.entry => d \in T \/ (n.entry.del = TRUE /\ r.disk = 0 /\ Known(r)
                                                   /\ r.queue = Missing /\ r.wanted = 0)
<1>1. CASE Overlooks(r)
  BY <1>1 DEF Scanned
<1>2. CASE ~Overlooks(r)
  <2>1. Scanned(r, d) = ScannedBlind(r, d)
    BY <1>2 DEF Scanned
  <2>2. r.disk = 0 /\ Known(r) => r.queue = Missing /\ r.wanted = 0
    BY <1>2 DEF Overlooks, Receiving
  <2> DEFINE n == ScannedBlind(r, d)
  <2>3. /\ Right(n, d, T \ {d}) /\ Awaited(n, d, T \ {d})
        /\ n.state = r.state /\ n.unsent = r.unsent /\ n.disk = r.disk /\ n.wanted = r.wanted
        /\ n.entry # r.entry => d \in T \/ (n.entry.del = TRUE /\ r.disk = 0 /\ Known(r))
    BY BlindFits
  <2> HIDE DEF n
  <2>4. Scanned(r, d) = n
    BY <2>1 DEF n
  <2>5. QED
    BY <1>2, <2>2, <2>3, <2>4
<1>3. QED
  BY <1>1, <1>2

(* What is asked for was next in the queue.                                 *)
LEMMA RequestedFits ==
    ASSUME NEW r, NEW d, NEW T, Right(r, d, T), NEW late \in BOOLEAN
    PROVE  LET n == Requested(r, late)
           IN  /\ Right(n, d, T) /\ (Awaited(r, d, T) => Awaited(n, d, T))
               /\ n.state = r.state /\ n.unsent = r.unsent /\ n.disk = r.disk /\ n.entry = r.entry
               /\ r.wanted # 0 /\ ~late => n.wanted = r.wanted
               /\ r.state = NoState => n.wanted = IF late THEN 0 ELSE r.wanted
               /\ r.queue # Missing /\ n.queue = Missing => n.wanted \in Nat \ {0}
<1>1. r \in Devs
  BY DEF Right
<1>2. r.wanted \in Nat /\ r.queue \in Files \cup {Missing} /\ r.incoming \in Files \cup {Missing}
  BY <1>1, DevFields
<1> DEFINE w == IF late THEN 0 ELSE r.wanted
<1>3. CASE r.state = "active" /\ linked /\ w = 0 /\ r.queue # Missing
  <2> DEFINE n == [r EXCEPT !.queue = Missing, !.wanted = r.queue.sha, !.incoming = r.queue]
  <2>1. Requested(r, late) = n
    BY <1>3 DEF Requested
  <2>2. r.queue \in Files /\ r.queue.sha \in Nat /\ r.queue.sha # 0
    BY <1>2, <1>3, EntryFacts
  <2>3. /\ n \in Devs /\ n.state = r.state /\ n.unsent = r.unsent /\ n.disk = r.disk
        /\ n.entry = r.entry /\ n.queue = Missing /\ n.wanted = r.queue.sha /\ n.incoming = r.queue
        /\ n.kept = r.kept
    BY <1>1, <2>2 DEF Devs
  <2> HIDE DEF n
  <2>4. Right(n, d, T) /\ Awaited(n, d, T)
    BY <1>3, <2>2, <2>3 DEF Right, Awaited, Known
  <2>5. r.state # NoState
    BY <1>3 DEF NoState
  <2>6. r.wanted # 0 /\ ~late => FALSE
    BY <1>3
  <2>7. QED
    BY <2>1, <2>2, <2>3, <2>4, <2>5, <2>6
<1>4. CASE ~(r.state = "active" /\ linked /\ w = 0 /\ r.queue # Missing)
  <2> DEFINE n == [r EXCEPT !.wanted = w]
  <2>1. Requested(r, late) = n
    BY <1>4 DEF Requested
  <2>2. /\ n \in Devs /\ n.state = r.state /\ n.unsent = r.unsent /\ n.disk = r.disk
        /\ n.entry = r.entry /\ n.queue = r.queue /\ n.wanted = w /\ n.incoming = r.incoming
        /\ n.kept = r.kept
    BY <1>1, <1>2 DEF Devs
  <2> HIDE DEF n
  <2>3. Right(n, d, T) /\ (Awaited(r, d, T) => Awaited(n, d, T))
    BY <2>2 DEF Right, Awaited, Known
  <2>4. QED
    BY <2>1, <2>2, <2>3
<1>5. QED
  BY <1>3, <1>4

(* A file that is moved aside is kept, and no longer in place.              *)
LEMMA AsideFields ==
    ASSUME NEW r \in Devs
    PROVE  LET n == Aside(r)
           IN  /\ n \in Devs /\ n.state = r.state /\ n.unsent = r.unsent /\ n.disk = 0
               /\ n.wanted = r.wanted /\ n.queue = r.queue /\ n.incoming = r.incoming
               /\ n.entry = r.entry /\ r.kept \subseteq n.kept
               /\ r.disk # 0 => r.disk \in n.kept
<1>1. PICK k \in SUBSET (Nat \ {0}) : k = (r.kept \cup {r.disk}) \ {0}
  BY DevFields
<1>2. r.kept \subseteq k /\ (r.disk # 0 => r.disk \in k)
  BY <1>1, DevFields
<1> DEFINE n == [r EXCEPT !.kept = k, !.disk = 0]
<1>3. Aside(r) = n
  BY <1>1 DEF Aside
<1>4. /\ n \in Devs /\ n.state = r.state /\ n.unsent = r.unsent /\ n.disk = 0
      /\ n.wanted = r.wanted /\ n.queue = r.queue /\ n.incoming = r.incoming
      /\ n.entry = r.entry /\ n.kept = k
  BY DEF Devs
<1> HIDE DEF n
<1>5. QED
  BY <1>2, <1>3, <1>4

(* Merging leaves a file as it was, moves it aside with a better one asked  *)
(* for, or away with its entry.                                             *)
LEMMA MergeFits ==
    ASSUME NEW r, NEW d \in D, NEW T, Right(r, d, T), r.state = "active", NEW theirs \in Real
    PROVE  LET n == MergeIndex(r, d, theirs)
           IN  /\ Right(n, d, T) /\ (Awaited(r, d, T) => Awaited(n, d, T))
               /\ n.state = r.state /\ n.unsent = r.unsent /\ n.wanted = r.wanted
<1>1. r \in Devs
  BY DEF Right
<1>2. /\ r.disk \in Nat /\ r.kept \in SUBSET (Nat \ {0}) /\ r.trash \in SUBSET Nat
      /\ r.entry \in Real \cup {Missing}
  BY <1>1, DevFields
<1>3. theirs.vv \in Versions /\ theirs # Missing /\ (theirs.del # TRUE => theirs \in Files /\ theirs.sha # 0)
  BY EntryFacts DEF Files, Real, Entries
<1>4. theirs.del \in BOOLEAN /\ theirs.sha \in Nat
  BY EntryFacts
<1> DEFINE Fits(n) == /\ Right(n, d, T) /\ (Awaited(r, d, T) => Awaited(n, d, T))
                      /\ n.state = r.state /\ n.unsent = r.unsent /\ n.wanted = r.wanted
           Later(v) == [r EXCEPT !.entry.vv = v]
<1>5. Fits(r)
  OBVIOUS
<1>6. ASSUME NEW v \in Versions, r.entry \in Real
      PROVE  Fits(Later(v)) /\ Fits([Later(v) EXCEPT !.dirty = TRUE])
  <2> DEFINE e == [r.entry EXCEPT !.vv = v]
             m == [r EXCEPT !.entry = e]
             n == [r EXCEPT !.entry = e, !.dirty = TRUE]
  <2>1. e \in Real /\ e.sha = r.entry.sha /\ e.del = r.entry.del
    BY <1>6 DEF Real, Entries
  <2>2. e # Missing /\ r.entry # Missing
    BY <1>6, <2>1, EntryFacts
  <2> HIDE DEF e
  <2>3. /\ m \in Devs /\ m.state = r.state /\ m.unsent = r.unsent /\ m.disk = r.disk
        /\ m.wanted = r.wanted /\ m.queue = r.queue /\ m.incoming = r.incoming /\ m.entry = e
        /\ m.kept = r.kept
    BY <1>1, <2>1 DEF Devs
  <2>4. /\ n \in Devs /\ n.state = r.state /\ n.unsent = r.unsent /\ n.disk = r.disk
        /\ n.wanted = r.wanted /\ n.queue = r.queue /\ n.incoming = r.incoming /\ n.entry = e
        /\ n.kept = r.kept
    BY <1>1, <2>1 DEF Devs
  <2>5. Later(v) = m /\ [Later(v) EXCEPT !.dirty = TRUE] = n
    BY <1>1 DEF e, Devs
  <2> HIDE DEF m, n
  <2>6. Fits(m)
    BY <2>1, <2>2, <2>3 DEF Right, Awaited, Known
  <2>7. Fits(n)
    BY <2>1, <2>2, <2>4 DEF Right, Awaited, Known
  <2>8. QED
    BY <2>5, <2>6, <2>7
<1>7. ASSUME theirs.del = TRUE, NEW q, q = r \/ q = Aside(r)
      PROVE  Fits(ToTrash(q, theirs))
  <2> DEFINE n == ToTrash(q, theirs)
  <2>1. /\ q \in Devs /\ q.state = r.state /\ q.unsent = r.unsent /\ q.wanted = r.wanted
        /\ q.queue = r.queue /\ q.incoming = r.incoming
    BY <1>1, <1>7, AsideFields
  <2>2. (q.trash \cup {q.disk}) \ {0} \in SUBSET Nat
    BY <2>1, DevFields
  <2>3. /\ n \in Devs /\ n.state = r.state /\ n.unsent = r.unsent /\ n.disk = 0
        /\ n.wanted = r.wanted /\ n.queue = r.queue /\ n.incoming = r.incoming /\ n.entry = theirs
    BY <2>1, <2>2 DEF Devs, ToTrash
  <2> HIDE DEF n
  <2>4. QED
    BY <1>7, <2>3 DEF Right, Awaited, Known, n
<1>8. ASSUME theirs.del # TRUE, NEW q, q = r \/ q = Aside(r)
      PROVE  Fits([q EXCEPT !.queue = theirs])
  <2> DEFINE n == [q EXCEPT !.queue = theirs]
  <2>1. /\ q \in Devs /\ q.state = r.state /\ q.unsent = r.unsent /\ q.disk \in {0, r.disk}
        /\ q.wanted = r.wanted /\ q.incoming = r.incoming /\ q.entry = r.entry
        /\ r.kept \subseteq q.kept /\ (q.disk = r.disk \/ r.disk \in q.kept)
    BY <1>1, <1>8, AsideFields
  <2>2. /\ n \in Devs /\ n.state = r.state /\ n.unsent = r.unsent /\ n.disk \in {0, r.disk}
        /\ n.wanted = r.wanted /\ n.queue = theirs /\ n.incoming = r.incoming /\ n.entry = r.entry
        /\ r.kept \subseteq n.kept /\ (n.disk = r.disk \/ r.disk \in n.kept)
    BY <1>3, <1>8, <2>1 DEF Devs
  <2> HIDE DEF n
  <2>3. n.disk = 0 /\ Known(n) => d \in T \/ n.entry.sha \in n.kept
    <3>1. CASE r.disk = 0
      BY <2>2, <3>1 DEF Right, Known
    <3>2. CASE r.disk # 0
      BY <2>2, <3>2 DEF Right, Known, NoState
    <3>3. QED
      BY <3>1, <3>2
  <2>4. QED
    BY <1>3, <2>2, <2>3 DEF Right, Awaited, Known, n
<1>9. ASSUME NEW q, q = r \/ q = Aside(r)
      PROVE  Fits(TakeTheirs(q, theirs))
  BY <1>4, <1>7, <1>8, <1>9 DEF TakeTheirs
<1> HIDE DEF Fits
<1>10. ~Newer(r.entry.vv, theirs.vv) \/ r.entry \in Real
  BY <1>2, <1>3, VersionFacts, EntryFacts
<1>11. ~SameContent(r.entry, theirs) \/ r.entry \in Real
  BY <1>2, <1>3, EntryFacts DEF SameContent
<1>12. ASSUME r.entry \in Real PROVE Fits(Resolved(r, d, theirs))
  <2> DEFINE v == Merged(r.entry.vv, theirs.vv)
  <2>1. v \in Versions /\ Bump(v, d) \in Versions
    BY <1>3, <1>12, VersionFacts, EntryFacts
  <2>2. Fits([r EXCEPT !.entry.vv = Merged(@, theirs.vv)])
    BY <1>6, <1>12, <2>1
  <2>3. Fits(KeepOurs(r, d, theirs))
    <3>1. KeepOurs(r, d, theirs) = [Later(Bump(v, d)) EXCEPT !.dirty = TRUE]
      BY <1>1 DEF KeepOurs, Devs
    <3>2. QED
      BY <1>6, <1>12, <2>1, <3>1
  <2>4. QED
    BY <1>9, <2>2, <2>3 DEF Resolved
<1>13. SameContent(r.entry, theirs) => Fits([r EXCEPT !.entry.vv = theirs.vv])
  BY <1>3, <1>6, <1>11
<1>14. Fits(MergeIndex(r, d, theirs))
  BY <1>5, <1>9, <1>10, <1>12, <1>13 DEF MergeIndex
<1>15. QED
  BY <1>14 DEF Fits

(* What was put in place is as the index says.                              *)
LEMMA PlaceFits ==
    ASSUME NEW r, NEW d \in D, NEW T, NEW U, Right(r, d, U), NEW e \in Files
    PROVE  LET n == Place(r, e)
           IN  /\ Right(n, d, T) /\ Awaited(n, d, T)
               /\ n.state = r.state /\ n.unsent = r.unsent /\ n.wanted = r.wanted
               /\ n.queue = r.queue
<1>0. r \in Devs /\ (r.wanted # 0 => r.incoming.sha = r.wanted)
  BY DEF Right
<1>1. e.sha \in Nat \ {0} /\ e \in Real /\ e # Missing /\ e.del = FALSE
  BY EntryFacts
<1>2. ASSUME NEW q, q = r \/ q = Aside(r)
      PROVE  LET n == PlaceOver(q, e)
             IN  /\ n \in Devs /\ n.state = r.state /\ n.unsent = r.unsent /\ n.disk = e.sha
                 /\ n.wanted = r.wanted /\ n.queue = r.queue /\ n.entry = e /\ n.incoming = r.incoming
                 /\ n.incoming = r.incoming
  <2>1. /\ q \in Devs /\ q.state = r.state /\ q.unsent = r.unsent /\ q.wanted = r.wanted
        /\ q.queue = r.queue /\ q.incoming = r.incoming
    BY <1>0, <1>2, AsideFields
  <2>2. QED
    BY <1>1, <2>1 DEF Devs, PlaceOver
<1>3. LET n == Place(r, e)
      IN  /\ n \in Devs /\ n.state = r.state /\ n.unsent = r.unsent /\ n.disk = e.sha
          /\ n.wanted = r.wanted /\ n.queue = r.queue /\ n.entry = e /\ n.incoming = r.incoming
  BY <1>2 DEF Place
<1>4. QED
  BY <1>0, <1>1, <1>3 DEF Right, Awaited, Known

------------------------------------------------------------------------------
(* What the operations make of the mail.                                    *)

(* No invitation is added to a queue.                                       *)
NoMore(q, p) == (Clear(q) => Clear(p)) /\ (AtMostOne(q) => AtMostOne(p))

(* The first message taken: what is left has no more invitations, and none  *)
(* if that was the one.                                                     *)
LEMMA TakenFits ==
    ASSUME NEW q \in Seq(Mails), q # <<>>
    PROVE  /\ Tail(q) \in Seq(Mails) /\ NoMore(q, Tail(q)) /\ Head(q) \in Mails
           /\ Head(q).op = "invite" => ~Clear(q) /\ (AtMostOne(q) => Clear(Tail(q)))
<1>1. /\ Len(q) \in Nat \ {0} /\ Head(q) = q[1] /\ Head(q) \in Mails
      /\ Tail(q) \in Seq(Mails) /\ Len(Tail(q)) = Len(q) - 1
      /\ \A i \in 1..Len(Tail(q)) : Tail(q)[i] = q[i + 1]
  BY HeadTailProperties, LenProperties
<1>2. \A i \in 1..Len(Tail(q)) : i + 1 \in 1..Len(q) /\ i + 1 # 1 /\ 1 \in 1..Len(q)
  BY <1>1
<1>3. Clear(q) => Clear(Tail(q))
  BY <1>1, <1>2 DEF Clear
<1>4. AtMostOne(q) => AtMostOne(Tail(q))
  <2>1. \A i, j \in 1..Len(Tail(q)) : i + 1 = j + 1 => i = j
    BY <1>1
  <2>2. QED
    BY <1>1, <1>2, <2>1 DEF AtMostOne
<1>5. Head(q).op = "invite" => ~Clear(q)
  BY <1>1 DEF Clear
<1>6. Head(q).op = "invite" /\ AtMostOne(q) => Clear(Tail(q))
  BY <1>1, <1>2 DEF Clear, AtMostOne
<1>7. QED
  BY <1>1, <1>3, <1>4, <1>5, <1>6 DEF NoMore

LEMMA AppendedFits ==
    ASSUME NEW q \in Seq(Mails), NEW msg \in Mails
    PROVE  /\ Append(q, msg) \in Seq(Mails)
           /\ msg.op # "invite" => NoMore(q, Append(q, msg))
           /\ Clear(q) => AtMostOne(Append(q, msg))
<1> DEFINE p == Append(q, msg)
<1>1. /\ Len(q) \in Nat /\ p \in Seq(Mails) /\ Len(p) = Len(q) + 1 /\ p[Len(p)] = msg
      /\ \A i \in 1..Len(q) : p[i] = q[i]
  BY LenProperties, AppendProperties
<1>2. \A i \in 1..Len(p) : i = Len(p) \/ i \in 1..Len(q)
  BY <1>1
<1> HIDE DEF p
<1>3. msg.op # "invite" /\ Clear(q) => Clear(p)
  BY <1>1, <1>2 DEF Clear
<1>4. msg.op # "invite" /\ AtMostOne(q) => AtMostOne(p)
  BY <1>1, <1>2 DEF AtMostOne
<1>5. Clear(q) => AtMostOne(p)
  BY <1>1, <1>2 DEF Clear, AtMostOne
<1>6. QED
  BY <1>1, <1>3, <1>4, <1>5 DEF NoMore, p

(* What a device sends, but for the invitation.                             *)
LEMMA SentFits ==
    ASSUME NEW m \in [D -> Seq(Mails)], NEW d \in D, NEW msg \in Mails, msg.op # "invite"
    PROVE  LET n == Sent(m, d, msg)
           IN  /\ n \in [D -> Seq(Mails)] /\ \A e \in D : NoMore(m[e], n[e])
               /\ linked = FALSE => n = m
<1>1. Other(d) \in D
  BY DEF Other, D
<1>2. \A e \in D : m[e] \in Seq(Mails) /\ NoMore(m[e], m[e])
  BY DEF NoMore
<1>3. Append(m[Other(d)], msg) \in Seq(Mails) /\ NoMore(m[Other(d)], Append(m[Other(d)], msg))
  BY <1>1, <1>2, AppendedFits
<1>4. QED
  BY <1>1, <1>2, <1>3 DEF Sent

LEMMA AsksFits ==
    ASSUME NEW m \in [D -> Seq(Mails)], NEW d \in D, NEW r, NEW n,
           r.queue # Missing /\ n.queue = Missing => n.wanted \in Nat \ {0}
    PROVE  LET p == Asks(m, d, r, n)
           IN  /\ p \in [D -> Seq(Mails)] /\ \A e \in D : NoMore(m[e], p[e])
               /\ linked = FALSE => p = m
<1>1. \A e \in D : NoMore(m[e], m[e])
  BY DEF NoMore
<1>2. CASE r.queue # Missing /\ n.queue = Missing
  <2> DEFINE msg == [op |-> "get", sha |-> n.wanted]
  <2>1. msg \in Mails /\ msg.op # "invite"
    BY <1>2 DEF Mails
  <2> HIDE DEF msg
  <2>2. QED
    BY <1>2, <2>1, SentFits DEF Asks, msg
<1>3. CASE ~(r.queue # Missing /\ n.queue = Missing)
  BY <1>1, <1>3 DEF Asks
<1>4. QED
  BY <1>2, <1>3

LEMMA MailKinds ==
    /\ \A op \in {"accept", "stop"} : Msg(op) \in Mails /\ Msg(op).op # "invite"
    /\ Msg("invite") \in Mails
    /\ \A e \in Real : [op |-> "index", entry |-> e] \in Mails
    /\ \A m \in Mails : /\ m.op = "index" => m.entry \in Real
                        /\ m.op = "get" => m.sha \in Nat \ {0}
BY DEF Mails, Msg

------------------------------------------------------------------------------
(* What a step must keep.                                                   *)

(* Nothing is added to what waits to be put in place, or taken from it.     *)
SameWait == placing' \in [D -> Seq(Items)] /\ \A e \in D : placing'[e] = <<>> <=> placing[e] = <<>>

(* Only d's queue of what waits changes, and what b waits for it asked for. *)
WaitFits(d) ==
    /\ placing' \in [D -> Seq(Items)]
    /\ \A e \in D \ {d} : placing'[e] = <<>> <=> placing[e] = <<>>
    /\ New(dev[d], touched) /\ placing[d] = <<>> => placing'[d] = <<>>

MailFits == mail' \in [D -> Seq(Mails)] /\ \A e \in D : NoMore(mail[e], mail'[e])

(* No more is coming than what was, or what is wanted.                      *)
LessComing(d, n) ==
    /\ faults = 0 /\ Calm(n, d, touched', coming'[d], placing'[d])
    /\ \A e \in D \ {d} : coming'[e] \subseteq coming[e] \cup {dev[e].wanted}
    /\ linked' = TRUE \/ \A e \in D : mail'[e] = <<>> /\ coming'[e] = {}

LEMMA InviteKept ==
    ASSUME IInv, NEW d \in D, NEW n, dev' = [dev EXCEPT ![d] = n], MailFits,
           n.unsent = TRUE => dev[d].unsent = TRUE, n.unsent \in BOOLEAN,
           "b" \in touched => "b" \in touched' \/ d = "b", WaitFits(d),
           d = "b" /\ New(dev["b"], touched) /\ placing[d] = <<>> => New(n, touched')
    PROVE  InviteInv'
<1>1. "a" \in D /\ "b" \in D /\ dev'[d] = n /\ \A e \in D \ {d} : dev'[e] = dev[e]
  BY DEF IInv, D
<1>2. \A e \in D : dev'[e].unsent = TRUE => dev[e].unsent = TRUE
  BY <1>1
<1>3. dev'["b"].unsent = FALSE
  BY <1>1 DEF IInv, InviteInv
<1>4. Fresh => Fresh'
  <2>1. Fresh => New(dev'["b"], touched')
    BY <1>1 DEF New, Fresh
  <2>2. Fresh => placing'["b"] = <<>>
    BY <1>1 DEF Fresh, WaitFits
  <2>3. QED
    BY <2>1, <2>2 DEF Fresh
<1>5. \A e \in D : NoMore(mail[e], mail'[e])
  BY DEF MailFits
<1>6. QED
  BY <1>1, <1>2, <1>3, <1>4, <1>5 DEF IInv, InviteInv, NoMore

LEMMA OneDevice ==
    ASSUME IInv, NEW d \in D, NEW n, dev' = [dev EXCEPT ![d] = n], InviteInv',
           Right(n, d, touched'), \A e \in D \ {d} : e \in touched => e \in touched',
           mail' \in [D -> Seq(Mails)], coming' \in [D -> SUBSET (Nat \ {0})], WaitFits(d),
           edits' \in Nat, faults' \in Nat, linked' \in BOOLEAN,
           faults' = 0 => LessComing(d, n)
    PROVE  IInv'
<1>1. dev'[d] = n /\ \A e \in D \ {d} : dev'[e] = dev[e]
  BY DEF IInv
<1>2. n \in Devs
  BY DEF Right
<1>3. dev' \in [D -> Devs]
  BY <1>2 DEF IInv
<1>4. \A e \in D : Right(dev'[e], e, touched')
  <2>1. \A e \in D \ {d} : Right(dev[e], e, touched) => Right(dev[e], e, touched')
    BY DEF Right
  <2>2. QED
    BY <1>1, <2>1 DEF IInv
<1>5. CalmInv'
  <2> SUFFICES ASSUME faults' = 0 PROVE CalmInv'
    BY DEF CalmInv
  <2>1. LessComing(d, n)
    OBVIOUS
  <2>2. \A e \in D \ {d} : Calm(dev[e], e, touched, coming[e], placing[e])
    BY <2>1 DEF LessComing, IInv, CalmInv
  <2>3. \A e \in D \ {d} : Calm(dev[e], e, touched', coming'[e], placing'[e])
    BY <2>1, <2>2 DEF LessComing, Calm, Awaited, WaitFits
  <2>4. \A e \in D : Calm(dev'[e], e, touched', coming'[e], placing'[e])
    BY <1>1, <2>1, <2>3 DEF LessComing
  <2>5. QED
    BY <2>1, <2>4 DEF LessComing, CalmInv
<1>6. QED
  BY <1>3, <1>4, <1>5 DEF IInv, WaitFits

(* A step of a device that adds no invitation, and one that leaves what is  *)
(* on its way alone, and the session.                                       *)
LEMMA DeviceStep ==
    ASSUME IInv, NEW d \in D, NEW n, dev' = [dev EXCEPT ![d] = n], MailFits,
           n.unsent = dev[d].unsent,
           d = "b" /\ New(dev[d], touched) /\ placing[d] = <<>> => New(n, touched'),
           Right(n, d, touched'), \A e \in D \ {d} : e \in touched => e \in touched',
           coming' \in [D -> SUBSET (Nat \ {0})], WaitFits(d),
           edits' \in Nat, faults' \in Nat, linked' \in BOOLEAN,
           faults' = 0 => LessComing(d, n)
    PROVE  IInv'
<1>1. n.unsent \in BOOLEAN
  BY DevFields DEF Right
<1>2. "b" \in touched => "b" \in touched' \/ d = "b"
  BY DEF D
<1>3. InviteInv'
  BY <1>1, <1>2, InviteKept
<1>4. mail' \in [D -> Seq(Mails)]
  BY DEF MailFits
<1>5. QED
  BY <1>3, <1>4, OneDevice

LEMMA NearStep ==
    ASSUME IInv, NEW d \in D, NEW n, dev' = [dev EXCEPT ![d] = n], MailFits,
           n.unsent = dev[d].unsent,
           d = "b" /\ New(dev[d], touched) /\ placing[d] = <<>> => New(n, touched'),
           Right(n, d, touched'), \A e \in D \ {d} : e \in touched => e \in touched',
           UNCHANGED <<coming, linked>>, WaitFits(d),
           linked = FALSE => \A e \in D : mail[e] = <<>> => mail'[e] = <<>>,
           edits' \in Nat, faults' \in Nat,
           faults' = 0 => /\ faults = 0
                          /\ Awaited(dev[d], d, touched) => Awaited(n, d, touched')
                          /\ placing[d] # <<>> => placing'[d] # <<>> \/ Awaited(n, d, touched')
                          /\ n.wanted = dev[d].wanted \/ dev[d].wanted = 0
                          /\ n.state = NoState => dev[d].state = NoState /\ n.wanted = dev[d].wanted
    PROVE  IInv'
<1>1. coming' \in [D -> SUBSET (Nat \ {0})] /\ linked' \in BOOLEAN
  BY DEF IInv
<1>2. ASSUME faults' = 0 PROVE LessComing(d, n)
  <2>1. /\ faults = 0 /\ Calm(dev[d], d, touched, coming[d], placing[d])
        /\ linked = TRUE \/ \A e \in D : mail[e] = <<>> /\ coming[e] = {}
    BY <1>2 DEF IInv, CalmInv
  <2>2. placing'[d] # <<>> \/ Awaited(n, d, touched')
    BY <1>2, <2>1 DEF Calm
  <2>3. n.state = NoState => n.wanted = 0
    BY <1>2, <2>1 DEF Calm
  <2>4. coming[d] \subseteq {n.wanted}
    <3>1. coming[d] \in SUBSET (Nat \ {0})
      BY DEF IInv
    <3>2. QED
      BY <1>2, <2>1, <3>1 DEF Calm
  <2>5. linked' = TRUE \/ \A e \in D : mail'[e] = <<>> /\ coming'[e] = {}
    BY <2>1 DEF IInv
  <2>6. QED
    BY <2>1, <2>2, <2>3, <2>4, <2>5 DEF LessComing, Calm
<1>3. QED
  BY <1>1, <1>2, DeviceStep

LEMMA LocalStep ==
    ASSUME IInv, NEW d \in D, NEW n, dev' = [dev EXCEPT ![d] = n], MailFits,
           n.unsent = dev[d].unsent, d = "b" /\ New(dev[d], touched) => New(n, touched'),
           Right(n, d, touched'), \A e \in D \ {d} : e \in touched => e \in touched',
           UNCHANGED <<coming, linked>>, SameWait,
           linked = FALSE => \A e \in D : mail[e] = <<>> => mail'[e] = <<>>,
           edits' \in Nat, faults' \in Nat,
           faults' = 0 => /\ faults = 0 /\ (Awaited(dev[d], d, touched) => Awaited(n, d, touched'))
                          /\ n.wanted = dev[d].wanted \/ dev[d].wanted = 0
                          /\ n.state = NoState => dev[d].state = NoState /\ n.wanted = dev[d].wanted
    PROVE  IInv'
<1>1. WaitFits(d)
  BY DEF SameWait, WaitFits
<1>2. placing[d] # <<>> => placing'[d] # <<>>
  BY DEF SameWait
<1>3. QED
  BY <1>1, <1>2, NearStep

LEMMA HadLockFits ==
    ASSUME IInv, NEW d \in D, NEW who, placing' = HadLock(d, who)
    PROVE  SameWait
<1> DEFINE q == placing[d]
           p == Passed(q, who)
<1>1. placing \in [D -> Seq(Items)] /\ q \in Seq(Items)
  BY DEF IInv
<1>2. Len(q) \in Nat /\ DOMAIN q = 1..Len(q) /\ \A i \in 1..Len(q) : q[i] \in Items
  BY <1>1, LenProperties
<1>3. \A x \in Items : [x EXCEPT !.ahead = @ \ {who}] \in Items
  BY DEF Items
<1>4. \A i \in 1..Len(q) : [q[i] EXCEPT !.ahead = @ \ {who}] \in Items
  BY <1>2, <1>3
<1>5. p \in [1..Len(q) -> Items]
  BY <1>2, <1>4 DEF Passed
<1>6. p \in Seq(Items) /\ Len(p) = Len(q)
  BY <1>2, <1>5
<1>7. p = <<>> <=> q = <<>>
  BY <1>1, <1>6, EmptySeq
<1>8. placing' = [placing EXCEPT ![d] = p]
  BY DEF HadLock
<1> HIDE DEF p
<1>9. QED
  BY <1>1, <1>6, <1>7, <1>8 DEF SameWait

(* What holds of a device before any step.                                  *)
LEMMA DeviceFacts ==
    ASSUME IInv, NEW d \in D
    PROVE  /\ dev[d] \in Devs /\ Right(dev[d], d, touched)
           /\ faults = 0 => Calm(dev[d], d, touched, coming[d], placing[d])
           /\ dev' = dev => dev' = [dev EXCEPT ![d] = dev[d]]
           /\ mail' = mail => MailFits
           /\ placing' = placing => SameWait
           /\ \A f : Fault(f) => faults' \in Nat \ {0}
BY DEF IInv, CalmInv, MailFits, SameWait, NoMore, Fault

LEMMA WaitKept ==
    ASSUME IInv, NEW d \in D, placing' = placing PROVE WaitFits(d)
BY DEF IInv, WaitFits

------------------------------------------------------------------------------
(* One lemma per action, or per group of actions.                           *)

LEMMA UserSteps ==
    ASSUME IInv, NEW d \in D, Edit(d) \/ Delete(d) PROVE IInv'
<1>1. PICK c \in Nat : dev' = [dev EXCEPT ![d] = [dev[d] EXCEPT !.disk = c]]
  <2>1. CASE Edit(d)
    <3>1. dev' = [dev EXCEPT ![d] = [dev[d] EXCEPT !.disk = edits + 1]] /\ edits + 1 \in Nat
      BY <2>1 DEF Edit, Set, IInv
    <3>2. QED
      BY <3>1
  <2>2. CASE Delete(d)
    <3>1. dev' = [dev EXCEPT ![d] = [dev[d] EXCEPT !.disk = 0]] /\ 0 \in Nat
      BY <2>2 DEF Delete, Set
    <3>2. QED
      BY <3>1
  <2>3. QED
    BY <2>1, <2>2
<1> DEFINE n == [dev[d] EXCEPT !.disk = c]
<1>2. dev[d] \in Devs /\ Right(dev[d], d, touched) /\ MailFits /\ SameWait
  BY DeviceFacts DEF Edit, Delete
<1>3. /\ n \in Devs /\ n.disk = c /\ n.state = dev[d].state /\ n.unsent = dev[d].unsent
      /\ n.wanted = dev[d].wanted /\ n.incoming = dev[d].incoming
  BY <1>2 DEF Devs
<1>4. dev' = [dev EXCEPT ![d] = n]
  BY <1>1
<1> HIDE DEF n
<1>5. touched' = touched \cup {d} /\ UNCHANGED <<mail, coming, linked, faults>>
  BY DEF Edit, Delete
<1>6. edits' \in Nat /\ faults' \in Nat
  BY <1>5 DEF Edit, Delete, IInv
<1>7. Right(n, d, touched') /\ Awaited(n, d, touched')
  BY <1>2, <1>3, <1>5 DEF Right, Awaited
<1>8. d = "b" /\ New(dev[d], touched) => New(n, touched')
  BY <1>3, <1>5 DEF New
<1>9. QED
  BY <1>2, <1>3, <1>4, <1>5, <1>6, <1>7, <1>8, LocalStep

LEMMA StateSteps ==
    ASSUME IInv, NEW d \in D, Pause(d) \/ Resume(d) PROVE IInv'
<1>1. PICK s \in {"active", "paused"} : dev' = [dev EXCEPT ![d] = [dev[d] EXCEPT !.state = s]]
  BY DEF Pause, Resume, Set
<1> DEFINE n == [dev[d] EXCEPT !.state = s]
<1>2. dev[d] \in Devs /\ Right(dev[d], d, touched) /\ MailFits /\ SameWait
  BY DeviceFacts DEF Pause, Resume
<1>3. dev[d].state # NoState /\ s \in States /\ s # NoState
  BY DEF Pause, Resume, NoState, States
<1>4. /\ n \in Devs /\ n.disk = dev[d].disk /\ n.state = s /\ n.unsent = dev[d].unsent
      /\ n.wanted = dev[d].wanted /\ n.incoming = dev[d].incoming /\ n.queue = dev[d].queue
      /\ n.entry = dev[d].entry /\ n.kept = dev[d].kept
  BY <1>2, <1>3 DEF Devs
<1>5. dev' = [dev EXCEPT ![d] = n]
  BY <1>1
<1> HIDE DEF n
<1>6. UNCHANGED <<mail, coming, linked, touched, edits>>
  BY DEF Pause, Resume
<1>7. edits' \in Nat /\ faults' \in Nat /\ (faults' = 0 => faults = 0)
  BY <1>6, DeviceFacts DEF Pause, Resume, IInv
<1>8. Right(n, d, touched') /\ (Awaited(dev[d], d, touched) => Awaited(n, d, touched'))
  BY <1>2, <1>3, <1>4, <1>6 DEF Right, Awaited, Known
<1>9. d = "b" /\ New(dev[d], touched) => New(n, touched')
  BY <1>3 DEF New
<1>10. QED
  BY <1>2, <1>3, <1>4, <1>5, <1>6, <1>7, <1>8, <1>9, LocalStep

LEMMA LeaveStep ==
    ASSUME IInv, NEW d \in D, Leave(d) PROVE IInv'
<1> DEFINE n == [dev[d] EXCEPT !.state = NoState, !.entry = Missing, !.dirty = FALSE,
                               !.queue = Missing, !.wanted = 0]
<1>1. dev[d] \in Devs /\ Right(dev[d], d, touched) /\ faults' \in Nat \ {0}
  BY DeviceFacts DEF Leave
<1>2. n \in Devs /\ n.state = NoState /\ n.unsent = dev[d].unsent /\ n.wanted = 0 /\ n.entry = Missing
  BY <1>1 DEF Devs, States
<1>3. dev' = [dev EXCEPT ![d] = n]
  BY DEF Leave, Set
<1> HIDE DEF n
<1>4. UNCHANGED <<coming, linked, touched, edits>> /\ WaitFits(d)
  BY WaitKept DEF Leave
<1>5. MailFits
  BY MailKinds, SentFits DEF Leave, MailFits, IInv
<1>6. Right(n, d, touched')
  BY <1>2 DEF Right, Known
<1>7. d = "b" /\ New(dev[d], touched) => New(n, touched')
  BY DEF New, Leave
<1>8. edits' \in Nat /\ coming' \in [D -> SUBSET (Nat \ {0})] /\ linked' \in BOOLEAN
  BY <1>4 DEF IInv
<1>9. QED
  BY <1>1, <1>2, <1>3, <1>4, <1>5, <1>6, <1>7, <1>8, DeviceStep

(* The only invitation: from now on a has none to send.                     *)
LEMMA InviteStep ==
    ASSUME IInv, NEW d \in D, Invite(d) PROVE IInv'
<1> DEFINE n == [dev[d] EXCEPT !.unsent = FALSE]
<1>1. dev[d] \in Devs /\ Right(dev[d], d, touched)
  BY DeviceFacts
<1>2. /\ n \in Devs /\ n.state = dev[d].state /\ n.unsent = FALSE /\ n.disk = dev[d].disk
      /\ n.wanted = dev[d].wanted /\ n.queue = dev[d].queue /\ n.incoming = dev[d].incoming
      /\ n.entry = dev[d].entry /\ n.kept = dev[d].kept
  BY <1>1 DEF Devs
<1>3. dev' = [dev EXCEPT ![d] = n] /\ linked = TRUE /\ dev[d].unsent = TRUE
  BY <1>1, DevFields DEF Invite, Set, IInv
<1> HIDE DEF n
<1>4. UNCHANGED <<coming, placing, linked, touched, edits, faults>> /\ WaitFits(d)
  BY WaitKept DEF Invite
<1>5. d = "a"
  BY <1>3 DEF IInv, InviteInv, D
<1>6. mail' = [mail EXCEPT !["b"] = Append(@, Msg("invite"))]
  BY <1>3, <1>5 DEF Invite, Sent, Other
<1>7. Clear(mail["b"]) /\ Fresh
  BY <1>3, <1>5 DEF IInv, InviteInv
<1>8. mail["b"] \in Seq(Mails) /\ "b" \in D /\ "a" \in D
  BY DEF IInv, D
<1>9. Append(mail["b"], Msg("invite")) \in Seq(Mails) /\ AtMostOne(Append(mail["b"], Msg("invite")))
  BY <1>7, <1>8, MailKinds, AppendedFits
<1>10. /\ mail' \in [D -> Seq(Mails)] /\ mail'["a"] = mail["a"] /\ AtMostOne(mail'["b"])
       /\ dev'["b"] = dev["b"] /\ dev'["a"].unsent = FALSE
  BY <1>2, <1>3, <1>5, <1>6, <1>8, <1>9 DEF IInv
<1>11. InviteInv'
  BY <1>4, <1>7, <1>10 DEF InviteInv, IInv, Fresh
<1>12. Right(n, d, touched') /\ (Calm(dev[d], d, touched, coming[d], placing[d]) => Calm(n, d, touched', coming'[d], placing'[d]))
  BY <1>1, <1>2, <1>4 DEF Right, Awaited, Known, Calm
<1>13. faults' = 0 => LessComing(d, n)
  BY <1>3, <1>4, <1>12, DeviceFacts DEF LessComing
<1>14. QED
  BY <1>3, <1>4, <1>10, <1>11, <1>12, <1>13, OneDevice DEF IInv

LEMMA ScanFits ==
    ASSUME IInv, NEW d \in D, dev[d].state # NoState
    PROVE  LET n == Scanned(dev[d], d)
           IN  /\ Right(n, d, Seen(d)) /\ (Awaited(dev[d], d, touched) => Awaited(n, d, Seen(d)))
               /\ n.state = dev[d].state /\ n.unsent = dev[d].unsent /\ n.wanted = dev[d].wanted
               /\ \A e \in D \ {d} : e \in touched => e \in Seen(d)
BY DeviceFacts, ScannedFits DEF Seen

LEMMA ScanStep ==
    ASSUME IInv, NEW d \in D, NEW k \in Kinds, Scan(d, k) PROVE IInv'
<1> DEFINE n == IF dev[d].state = NoState THEN dev[d] ELSE Scanned(dev[d], d)
<1>1. dev[d] \in Devs /\ Right(dev[d], d, touched) /\ MailFits /\ SameWait
  BY DeviceFacts, HadLockFits DEF Scan
<1>2. dev' = [dev EXCEPT ![d] = n] /\ touched' = Seen(d)
  BY DEF Scan, Set
<1>3. /\ Right(n, d, touched') /\ (Awaited(dev[d], d, touched) => Awaited(n, d, touched'))
      /\ n.state = dev[d].state /\ n.unsent = dev[d].unsent /\ n.wanted = dev[d].wanted
      /\ \A e \in D \ {d} : e \in touched => e \in touched'
      /\ d = "b" /\ New(dev[d], touched) => New(n, touched')
  <2>1. CASE dev[d].state = NoState
    BY <1>1, <1>2, <2>1 DEF Seen
  <2>2. CASE dev[d].state # NoState
    BY <1>2, <2>2, ScanFits DEF New
  <2>3. QED
    BY <2>1, <2>2
<1> HIDE DEF n
<1>4. UNCHANGED <<mail, coming, linked, edits, faults>>
  BY DEF Scan
<1>5. edits' \in Nat /\ faults' \in Nat
  BY <1>4 DEF IInv
<1>6. QED
  BY <1>1, <1>2, <1>3, <1>4, <1>5, LocalStep

LEMMA AcceptStep ==
    ASSUME IInv, NEW d \in D, Accept(d) PROVE IInv'
<1> DEFINE m == Scanned(dev[d], d)
           n == [m EXCEPT !.state = "active"]
<1>1. MailFits /\ SameWait /\ dev[d].state # NoState
  BY DeviceFacts DEF Accept, NoState
<1>2. dev' = [dev EXCEPT ![d] = n] /\ touched' = Seen(d)
  BY DEF Accept, Set
<1>3. /\ Right(m, d, touched') /\ (Awaited(dev[d], d, touched) => Awaited(m, d, touched'))
      /\ m.state = dev[d].state /\ m.unsent = dev[d].unsent /\ m.wanted = dev[d].wanted
      /\ \A e \in D \ {d} : e \in touched => e \in touched'
  BY <1>1, <1>2, ScanFits
<1> HIDE DEF m
<1>4. /\ n \in Devs /\ n.disk = m.disk /\ n.state = "active" /\ n.unsent = m.unsent
      /\ n.wanted = m.wanted /\ n.incoming = m.incoming /\ n.queue = m.queue /\ n.entry = m.entry
      /\ n.kept = m.kept
  BY <1>3 DEF Right, Devs, States
<1> HIDE DEF n
<1>5. UNCHANGED <<mail, coming, linked, edits, faults>>
  BY DEF Accept
<1>6. edits' \in Nat /\ faults' \in Nat
  BY <1>5 DEF IInv
<1>7. Right(n, d, touched') /\ (Awaited(m, d, touched') => Awaited(n, d, touched'))
  BY <1>1, <1>3, <1>4 DEF Right, Awaited, Known
<1>8. d = "b" /\ New(dev[d], touched) => New(n, touched')
  BY <1>1 DEF New
<1>9. QED
  BY <1>1, <1>2, <1>3, <1>4, <1>5, <1>6, <1>7, <1>8, LocalStep DEF NoState

(* What is written of a device that is not about its files.                 *)
LEMMA DirtyFits ==
    ASSUME NEW r, NEW d, NEW T, Right(r, d, T), NEW b \in BOOLEAN
    PROVE  LET n == [r EXCEPT !.dirty = b]
           IN  /\ Right(n, d, T) /\ (Awaited(r, d, T) => Awaited(n, d, T))
               /\ n.state = r.state /\ n.unsent = r.unsent /\ n.disk = r.disk /\ n.queue = r.queue
               /\ n.wanted = r.wanted /\ n.entry = r.entry /\ n.kept = r.kept
<1> DEFINE n == [r EXCEPT !.dirty = b]
<1>1. /\ n \in Devs /\ n.disk = r.disk /\ n.state = r.state /\ n.unsent = r.unsent
      /\ n.wanted = r.wanted /\ n.incoming = r.incoming /\ n.queue = r.queue /\ n.entry = r.entry
      /\ n.kept = r.kept
  BY DEF Right, Devs
<1> HIDE DEF n
<1>2. QED
  BY <1>1 DEF Right, Awaited, Known, n

LEMMA AnswerStep ==
    ASSUME IInv, NEW d \in D, Answer(d) PROVE IInv'
<1> DEFINE r == dev[d]
           told == Sent(mail, d, Msg("accept"))
           index == [op |-> "index", entry |-> r.entry]
           b == r.dirty /\ ~linked
           n == [r EXCEPT !.dirty = b]
<1>1. r \in Devs /\ Right(r, d, touched) /\ mail \in [D -> Seq(Mails)] /\ SameWait
  BY DeviceFacts DEF IInv, Answer
<1>2. /\ mail' = (IF r.entry = Missing THEN told ELSE Sent(told, d, index))
      /\ dev' = [dev EXCEPT ![d] = [r EXCEPT !.dirty = @ /\ ~linked]]
      /\ UNCHANGED <<coming, linked, touched, edits, faults>>
  BY DEF Answer, Set
<1>3. dev' = [dev EXCEPT ![d] = n]
  BY <1>1, <1>2 DEF Devs
<1>4. b \in BOOLEAN
  BY <1>1, DevFields
<1>5. told \in [D -> Seq(Mails)] /\ (\A e \in D : NoMore(mail[e], told[e])) /\ (linked = FALSE => told = mail)
  BY <1>1, MailKinds, SentFits
<1>6. r.entry # Missing => index \in Mails /\ index.op # "invite"
  BY <1>1, MailKinds, DevFields
<1> HIDE DEF told, index, b
<1>7. MailFits /\ (linked = FALSE => mail' = mail)
  <2>1. CASE r.entry = Missing
    BY <1>2, <1>5, <2>1 DEF MailFits
  <2>2. CASE r.entry # Missing
    <3>1. /\ mail' \in [D -> Seq(Mails)] /\ \A e \in D : NoMore(told[e], mail'[e])
          /\ linked = FALSE => mail' = told
      BY <1>2, <1>5, <1>6, <2>2, SentFits
    <3>2. QED
      BY <1>5, <3>1 DEF MailFits, NoMore
  <2>3. QED
    BY <2>1, <2>2
<1>8. /\ Right(n, d, touched) /\ (Awaited(r, d, touched) => Awaited(n, d, touched))
      /\ n.state = r.state /\ n.unsent = r.unsent /\ n.disk = r.disk /\ n.wanted = r.wanted
  BY <1>1, <1>4, DirtyFits
<1> HIDE DEF n
<1>9. d = "b" /\ New(dev[d], touched) => New(n, touched')
  BY <1>2, <1>8 DEF New
<1>10. edits' \in Nat /\ faults' \in Nat
  BY <1>2 DEF IInv
<1>11. QED
  BY <1>1, <1>2, <1>3, <1>7, <1>8, <1>9, <1>10, LocalStep

LEMMA SendIndexStep ==
    ASSUME IInv, NEW d \in D, NEW k \in Kinds, SendIndex(d, k) PROVE IInv'
<1> DEFINE index == [op |-> "index", entry |-> dev[d].entry]
<1>1. dev[d] \in Devs /\ Right(dev[d], d, touched) /\ mail \in [D -> Seq(Mails)] /\ SameWait
  BY DeviceFacts DEF IInv, SendIndex
<1>2. /\ mail' = IF Announces(dev[d], k) THEN Sent(mail, d, index) ELSE mail
      /\ UNCHANGED <<dev, coming, linked, touched, edits, faults>>
  BY DEF SendIndex
<1>3. dev' = [dev EXCEPT ![d] = dev[d]]
  BY <1>2, DeviceFacts
<1>4. Announces(dev[d], k) => index \in Mails /\ index.op # "invite"
  BY <1>1, MailKinds, DevFields DEF Announces
<1> HIDE DEF index
<1>5. MailFits /\ (linked = FALSE => mail' = mail)
  BY <1>1, <1>2, <1>4, SentFits DEF MailFits, NoMore
<1>6. edits' \in Nat /\ faults' \in Nat
  BY <1>2 DEF IInv
<1>7. QED
  BY <1>1, <1>2, <1>3, <1>5, <1>6, LocalStep

LEMMA EndRoundStep ==
    ASSUME IInv, NEW d \in D, NEW k \in Kinds, EndRound(d, k) PROVE IInv'
<1> DEFINE r == [dev[d] EXCEPT !.dirty = FALSE]
<1>1. dev[d] \in Devs /\ Right(dev[d], d, touched) /\ mail \in [D -> Seq(Mails)] /\ SameWait
  BY DeviceFacts DEF IInv, EndRound
<1>2. PICK late \in BOOLEAN :
         /\ IF late THEN Fault("late") ELSE UNCHANGED faults
         /\ dev' = [dev EXCEPT ![d] = Requested(r, late)]
         /\ mail' = Asks(mail, d, dev[d], Requested(r, late))
  <2>1. \A x : x \in {FALSE, dev[d].wanted # 0} => x \in BOOLEAN
    OBVIOUS
  <2>2. QED
    BY <2>1 DEF EndRound, Set
<1>3. UNCHANGED <<coming, linked, touched, edits>>
  BY DEF EndRound
<1>4. /\ Right(r, d, touched) /\ (Awaited(dev[d], d, touched) => Awaited(r, d, touched))
      /\ r.state = dev[d].state /\ r.unsent = dev[d].unsent /\ r.disk = dev[d].disk
      /\ r.wanted = dev[d].wanted /\ r.queue = dev[d].queue
  BY <1>1, DirtyFits
<1> HIDE DEF r
<1> DEFINE n == Requested(r, late)
<1>5. /\ Right(n, d, touched) /\ (Awaited(r, d, touched) => Awaited(n, d, touched))
      /\ n.state = r.state /\ n.unsent = r.unsent /\ n.disk = r.disk
      /\ r.wanted # 0 /\ ~late => n.wanted = r.wanted
      /\ r.state = NoState => n.wanted = IF late THEN 0 ELSE r.wanted
      /\ r.queue # Missing /\ n.queue = Missing => n.wanted \in Nat \ {0}
  BY <1>2, <1>4, RequestedFits
<1>6. dev' = [dev EXCEPT ![d] = n] /\ mail' = Asks(mail, d, dev[d], n)
  BY <1>2
<1> HIDE DEF n
<1>7. MailFits /\ (linked = FALSE => mail' = mail)
  <2>1. dev[d].queue # Missing /\ n.queue = Missing => n.wanted \in Nat \ {0}
    BY <1>4, <1>5
  <2>2. PICK m : m = n
    OBVIOUS
  <2>3. dev[d].queue # Missing /\ m.queue = Missing => m.wanted \in Nat \ {0}
    BY <2>1, <2>2
  <2>4. mail' = Asks(mail, d, dev[d], m)
    BY <1>6, <2>2
  <2>5. QED
    BY <1>1, <2>3, <2>4, AsksFits DEF MailFits
<1>8. edits' \in Nat /\ faults' \in Nat /\ (faults' = 0 => faults = 0 /\ late = FALSE)
  BY <1>2, <1>3, DeviceFacts DEF IInv
<1>9. d = "b" /\ New(dev[d], touched) => New(n, touched')
  BY <1>3, <1>4, <1>5 DEF New
<1>10. QED
  BY <1>1, <1>3, <1>4, <1>5, <1>6, <1>7, <1>8, <1>9, LocalStep

(* A device that only changes its state.                                    *)
LEMMA StateFits ==
    ASSUME NEW r, NEW d, NEW T, Right(r, d, T), NEW s \in States,
           r.state = NoState /\ s # NoState /\ r.disk # 0 => d \in T
    PROVE  LET n == [r EXCEPT !.state = s]
           IN  /\ Right(n, d, T) /\ (Awaited(r, d, T) => Awaited(n, d, T))
               /\ n.state = s /\ n.unsent = r.unsent /\ n.wanted = r.wanted
<1> DEFINE n == [r EXCEPT !.state = s]
<1>1. /\ n \in Devs /\ n.disk = r.disk /\ n.state = s /\ n.unsent = r.unsent
      /\ n.wanted = r.wanted /\ n.incoming = r.incoming /\ n.queue = r.queue /\ n.entry = r.entry
      /\ n.kept = r.kept
  BY DEF Right, Devs
<1> HIDE DEF n
<1>2. QED
  BY <1>1 DEF Right, Awaited, Known, n

Rest(d) == [mail EXCEPT ![d] = Tail(@)]

LEMMA RestFits ==
    ASSUME IInv, NEW d \in D, mail[d] # <<>>
    PROVE  /\ Rest(d) \in [D -> Seq(Mails)] /\ Head(mail[d]) \in Mails
           /\ \A e \in D : NoMore(mail[e], Rest(d)[e]) /\ (mail[e] = <<>> => Rest(d)[e] = <<>>)
           /\ Rest(d)[d] = Tail(mail[d]) /\ \A e \in D \ {d} : Rest(d)[e] = mail[e]
<1>1. mail \in [D -> Seq(Mails)]
  BY DEF IInv
<1>2. Tail(mail[d]) \in Seq(Mails) /\ NoMore(mail[d], Tail(mail[d])) /\ Head(mail[d]) \in Mails
  BY <1>1, TakenFits
<1>3. \A e \in D : NoMore(mail[e], mail[e])
  BY DEF NoMore
<1>4. /\ Rest(d) \in [D -> Seq(Mails)]
      /\ \A e \in D : NoMore(mail[e], Rest(d)[e]) /\ (mail[e] = <<>> => Rest(d)[e] = <<>>)
      /\ Rest(d)[d] = Tail(mail[d]) /\ \A e \in D \ {d} : Rest(d)[e] = mail[e]
  BY <1>1, <1>2, <1>3 DEF Rest
<1>5. QED
  BY <1>2, <1>4

LEMMA RestSent ==
    ASSUME IInv, NEW d \in D, mail[d] # <<>>,
           mail' \in [D -> Seq(Mails)], \A e \in D : NoMore(Rest(d)[e], mail'[e]),
           linked = FALSE => mail' = Rest(d)
    PROVE  MailFits /\ (linked = FALSE => \A e \in D : mail[e] = <<>> => mail'[e] = <<>>)
BY RestFits DEF MailFits, NoMore

LEMMA HandleStep ==
    ASSUME IInv, NEW d \in D, HandleSync(d) PROVE IInv'
<1> DEFINE r == dev[d]
           msg == Head(mail[d])
<1>1. r \in Devs /\ Right(r, d, touched) /\ (dev' = dev => dev' = [dev EXCEPT ![d] = r])
  BY DeviceFacts
<1>2. /\ mail[d] # <<>> /\ OnMsg(d, msg)
      /\ UNCHANGED <<linked, touched, edits, faults>>
      /\ edits' \in Nat /\ faults' \in Nat /\ linked' \in BOOLEAN
  BY DEF HandleSync, IInv
<1>0. SameWait /\ WaitFits(d)
  <2>1. placing' = placing \/ placing' = HadLock(d, "mail")
    BY <1>2 DEF OnMsg
  <2>2. SameWait
    BY <2>1, DeviceFacts, HadLockFits
  <2>3. QED
    BY <2>2 DEF SameWait, WaitFits
<1>3. Rest(d) \in [D -> Seq(Mails)] /\ msg \in Mails
  BY <1>2, RestFits
<1> DEFINE Kept == MailFits /\ (linked = FALSE => \A e \in D : mail[e] = <<>> => mail'[e] = <<>>)
<1>4. ASSUME mail' = Rest(d) PROVE Kept
  BY <1>2, <1>3, <1>4, RestSent DEF NoMore
<1>5. ASSUME NEW m \in Mails, m.op # "invite", mail' = Sent(Rest(d), d, m) PROVE Kept
  <2>1. /\ mail' \in [D -> Seq(Mails)] /\ \A e \in D : NoMore(Rest(d)[e], mail'[e])
        /\ linked = FALSE => mail' = Rest(d)
    BY <1>3, <1>5, SentFits
  <2>2. QED
    BY <1>2, <2>1, RestSent
<1> DEFINE Local(n) ==
              /\ dev' = [dev EXCEPT ![d] = n] /\ UNCHANGED coming /\ Kept
              /\ Right(n, d, touched) /\ n.unsent = r.unsent
              /\ Awaited(r, d, touched) => Awaited(n, d, touched)
              /\ n.wanted = r.wanted \/ r.wanted = 0
              /\ n = r \/ (n.state # NoState /\ r.state # NoState)
<1>6. ASSUME NEW n, Local(n) PROVE IInv'
  <2>1. d = "b" /\ New(dev[d], touched) => New(n, touched')
    BY <1>2, <1>6 DEF New
  <2>2. n.state = NoState => dev[d].state = NoState /\ n.wanted = dev[d].wanted
    BY <1>6
  <2>3. QED
    BY <1>0, <1>2, <1>6, <2>1, <2>2, LocalStep
<1>7. dev' = dev /\ coming' = coming /\ Kept => Local(r)
  BY <1>1
<1> HIDE DEF Kept
<1>8. CASE msg.op = "invite" /\ r.state = NoState
  <2> DEFINE n == [r EXCEPT !.state = "offered"]
  <2>1. mail' = Rest(d) /\ dev' = [dev EXCEPT ![d] = n] /\ UNCHANGED coming
    BY <1>2, <1>8 DEF OnMsg, Set, NoState, Rest
  <2>2. /\ ~Clear(mail[d]) /\ (AtMostOne(mail[d]) => Clear(Tail(mail[d])))
    BY <1>2, <1>8, TakenFits DEF IInv
  <2>3. d = "b"
    BY <2>2 DEF IInv, InviteInv, D
  <2>4. Clear(mail'["b"]) /\ mail'["a"] = mail["a"]
    BY <1>2, <2>1, <2>2, <2>3, RestFits DEF IInv, InviteInv, D
  <2>5. New(r, touched) /\ Fresh /\ dev["a"].unsent # TRUE
    BY <2>2, <2>3 DEF IInv, InviteInv, Fresh
  <2>6. "offered" \in States /\ "offered" # NoState
    BY DEF States, NoState
  <2>7. /\ Right(n, d, touched) /\ (Awaited(r, d, touched) => Awaited(n, d, touched))
        /\ n.state = "offered" /\ n.unsent = r.unsent /\ n.wanted = r.wanted
    BY <1>1, <2>3, <2>5, <2>6, StateFits DEF New
  <2> HIDE DEF n
  <2>8. dev'["a"] = dev["a"] /\ dev'["b"].unsent = FALSE
    BY <2>1, <2>3, <2>7 DEF IInv, InviteInv, D
  <2>9. InviteInv'
    BY <2>4, <2>5, <2>8 DEF IInv, InviteInv
  <2>10. linked = FALSE => faults # 0
    BY <1>2 DEF IInv, CalmInv
  <2>11. faults' = 0 => LessComing(d, n)
    BY <1>0, <1>2, <2>1, <2>6, <2>7, <2>10, DeviceFacts DEF LessComing, Calm, IInv, SameWait
  <2>12. mail' \in [D -> Seq(Mails)] /\ coming' \in [D -> SUBSET (Nat \ {0})]
    BY <1>3, <2>1 DEF IInv
  <2>13. QED
    BY <1>0, <1>2, <2>1, <2>7, <2>9, <2>11, <2>12, OneDevice
<1>9. CASE msg.op = "invite" /\ r.state # NoState
  <2>1. dev' = dev /\ UNCHANGED coming
    BY <1>1, <1>2, <1>9 DEF OnMsg, Set, IInv
  <2>2. mail' = IF r.state = "active" THEN Sent(Rest(d), d, Msg("accept")) ELSE Rest(d)
    BY <1>2, <1>9 DEF OnMsg, Rest
  <2>3. Kept
    BY <1>4, <1>5, <2>2, MailKinds
  <2>4. QED
    BY <1>6, <1>7, <2>1, <2>3
<1>10. CASE msg.op \in {"index", "get", "accept"} /\ r.state = NoState
  <2>1. mail' = Sent(Rest(d), d, Msg("stop")) /\ dev' = dev /\ UNCHANGED coming
    BY <1>2, <1>10 DEF OnMsg, Rest
  <2>2. Kept
    BY <1>5, <2>1, MailKinds
  <2>3. QED
    BY <1>6, <1>7, <2>1, <2>2
<1>11. CASE msg.op = "accept" /\ r.state # NoState
  <2>1. mail' = Rest(d) /\ UNCHANGED coming
        /\ IF r.state = "invited" THEN dev' = [dev EXCEPT ![d] = [r EXCEPT !.state = "active"]]
           ELSE dev' = dev
    BY <1>2, <1>11 DEF OnMsg, Set, Rest
  <2>2. Kept
    BY <1>4, <2>1
  <2>3. "active" \in States /\ "active" # NoState
    BY DEF States, NoState
  <2>4. r.state = "invited" => Local([r EXCEPT !.state = "active"])
    BY <1>1, <1>11, <2>1, <2>2, <2>3, StateFits
  <2>5. QED
    BY <1>6, <1>7, <2>1, <2>2, <2>4
<1>12. CASE msg.op = "stop"
  <2>1. mail' = Rest(d) /\ UNCHANGED coming
        /\ dev' = [dev EXCEPT ![d] = IF r.state = NoState THEN r ELSE [r EXCEPT !.state = "stopped"]]
    BY <1>2, <1>12 DEF OnMsg, Set, Rest
  <2>2. Kept
    BY <1>4, <2>1
  <2>3. "stopped" \in States /\ "stopped" # NoState
    BY DEF States, NoState
  <2>4. r.state # NoState => Local([r EXCEPT !.state = "stopped"])
    BY <1>1, <2>1, <2>2, <2>3, StateFits
  <2>5. r.state = NoState => dev' = dev
    BY <2>1 DEF IInv
  <2>6. QED
    BY <1>6, <1>7, <2>1, <2>2, <2>4, <2>5
<1>13. CASE msg.op = "index" /\ r.state # NoState
  <2> DEFINE m == IF r.state = "active" THEN MergeIndex(r, d, msg.entry) ELSE r
             n == Requested(m, FALSE)
  <2>1. mail' = Asks(Rest(d), d, m, n) /\ dev' = [dev EXCEPT ![d] = n] /\ UNCHANGED coming
    BY <1>2, <1>13 DEF OnMsg, Set, Rest
  <2>2. msg.entry \in Real
    BY <1>3, <1>13, MailKinds
  <2>3. /\ Right(m, d, touched) /\ (Awaited(r, d, touched) => Awaited(m, d, touched))
        /\ m.state = r.state /\ m.unsent = r.unsent /\ m.wanted = r.wanted
    BY <1>1, <2>2, MergeFits
  <2> HIDE DEF m
  <2>4. /\ Right(n, d, touched) /\ (Awaited(m, d, touched) => Awaited(n, d, touched))
        /\ n.state = m.state /\ n.unsent = m.unsent
        /\ m.wanted # 0 => n.wanted = m.wanted
        /\ m.queue # Missing /\ n.queue = Missing => n.wanted \in Nat \ {0}
    BY <2>3, RequestedFits
  <2> HIDE DEF n
  <2>5. /\ mail' \in [D -> Seq(Mails)] /\ \A e \in D : NoMore(Rest(d)[e], mail'[e])
        /\ linked = FALSE => mail' = Rest(d)
    BY <1>3, <2>1, <2>4, AsksFits
  <2>6. Kept
    BY <1>2, <2>5, RestSent DEF Kept
  <2>7. Local(n)
    BY <1>13, <2>1, <2>3, <2>4, <2>6
  <2>8. QED
    BY <1>6, <2>7
<1>14. CASE msg.op = "get" /\ r.state # NoState
  <2> DEFINE o == Other(d)
  <2>1. /\ mail' = Rest(d) /\ dev' = dev
        /\ coming' = coming \/ coming' = [coming EXCEPT ![o] = Offered(o, msg.sha)]
    BY <1>2, <1>14 DEF OnMsg, Rest
  <2>2. Kept /\ dev' = [dev EXCEPT ![d] = r]
    BY <1>1, <1>4, <2>1
  <2>3. o \in D \ {d} /\ msg.sha \in Nat \ {0}
    BY <1>3, <1>14, MailKinds DEF Other, D
  <2>4. coming \in [D -> SUBSET (Nat \ {0})]
    BY DEF IInv
  <2>5. Offered(o, msg.sha) \in SUBSET (Nat \ {0}) /\ Offered(o, msg.sha) \subseteq coming[o] \cup {dev[o].wanted}
    BY <2>3, <2>4 DEF Offered
  <2> HIDE DEF o
  <2>6. /\ coming' \in [D -> SUBSET (Nat \ {0})] /\ coming'[d] = coming[d]
        /\ \A e \in D \ {d} : coming'[e] \subseteq coming[e] \cup {dev[e].wanted}
    BY <2>1, <2>3, <2>4, <2>5
  <2>7. linked = FALSE => faults # 0
    BY <1>2 DEF IInv, CalmInv
  <2>8. faults' = 0 => LessComing(d, r)
    BY <1>0, <1>2, <2>6, <2>7, DeviceFacts DEF LessComing, IInv, Calm, SameWait
  <2>9. MailFits
    BY <2>2 DEF Kept
  <2>10. d = "b" /\ New(dev[d], touched) => New(r, touched')
    BY <1>2
  <2>11. QED
    BY <1>0, <1>1, <1>2, <2>2, <2>6, <2>8, <2>9, <2>10, DeviceStep
<1>15. QED
  BY <1>2, <1>8, <1>9, <1>10, <1>11, <1>12, <1>13, <1>14 DEF OnMsg

(* Without a fault, what has come is what was asked for, and waits now.     *)
LEMMA DoneStep ==
    ASSUME IInv, NEW d \in D, NEW sha \in coming[d], NEW ok \in BOOLEAN, Done(d, sha, ok)
    PROVE  IInv'
<1> DEFINE r == [dev[d] EXCEPT !.incoming = Missing, !.wanted = 0]
           e == dev[d].incoming
           theirs == e # Missing /\ r.state # NoState
           n == IF theirs /\ ~ok THEN [r EXCEPT !.queue = e] ELSE r
           item == [entry |-> e, ahead |-> InLine(d)]
           waits == theirs /\ ok /\ e.sha = sha
<1>1. /\ IF ok THEN UNCHANGED faults ELSE Fault("fail")
      /\ coming' = [coming EXCEPT ![d] = @ \ {sha}]
      /\ dev' = [dev EXCEPT ![d] = n]
      /\ placing' = (IF waits THEN [placing EXCEPT ![d] = Append(@, item)] ELSE placing)
      /\ UNCHANGED <<mail, touched, linked, edits>>
  BY DEF Done, Set
<1>2. /\ dev[d] \in Devs /\ Right(dev[d], d, touched) /\ e \in Files \cup {Missing}
      /\ sha \in Nat \ {0} /\ MailFits
      /\ coming' \in [D -> SUBSET (Nat \ {0})] /\ edits' \in Nat /\ linked' \in BOOLEAN
      /\ \A x \in D \ {d} : coming'[x] = coming[x]
      /\ coming'[d] = coming[d] \ {sha}
  <2>1. coming \in [D -> SUBSET (Nat \ {0})] /\ edits \in Nat /\ linked \in BOOLEAN
    BY DEF IInv
  <2>2. dev[d] \in Devs /\ Right(dev[d], d, touched) /\ e \in Files \cup {Missing} /\ MailFits
    BY <1>1, DeviceFacts, DevFields
  <2>3. QED
    BY <1>1, <2>1, <2>2
<1>3. /\ r \in Devs /\ r.state = dev[d].state /\ r.unsent = dev[d].unsent /\ r.wanted = 0
      /\ r.disk = dev[d].disk /\ r.entry = dev[d].entry /\ r.kept = dev[d].kept
  BY <1>2 DEF Devs
<1>4. faults' \in Nat /\ (faults' = 0 => faults = 0 /\ ok)
  BY <1>1, DeviceFacts DEF IInv
<1>5. faults = 0 => /\ linked = TRUE /\ dev[d].wanted = sha /\ coming'[d] = {}
                    /\ dev[d].state # NoState /\ e.sha = sha /\ e # Missing
  <2> SUFFICES ASSUME faults = 0
               PROVE  /\ linked = TRUE /\ dev[d].wanted = sha /\ coming'[d] = {}
                      /\ dev[d].state # NoState /\ e.sha = sha /\ e # Missing
    OBVIOUS
  <2>1. coming[d] \subseteq {dev[d].wanted} /\ (dev[d].state = NoState => dev[d].wanted = 0)
    BY DeviceFacts DEF Calm
  <2>2. linked = TRUE
    BY DEF IInv, CalmInv
  <2>3. dev[d].wanted = sha /\ e.sha = sha
    BY <1>2, <2>1 DEF Right
  <2>4. QED
    BY <1>2, <2>1, <2>2, <2>3, EntryFacts
<1>6. item \in Items \/ ~waits
  <2>1. InLine(d) \in SUBSET (Kinds \cup {"mail"})
    BY DEF InLine
  <2>2. waits => e \in Files
    BY <1>2
  <2>3. QED
    BY <2>1, <2>2 DEF Items
<1>7. /\ n \in Devs /\ n.state = dev[d].state /\ n.unsent = dev[d].unsent /\ n.wanted = 0
      /\ n.disk = dev[d].disk /\ n.entry = dev[d].entry /\ n.kept = dev[d].kept
  BY <1>2, <1>3 DEF Devs
<1>8. WaitFits(d) /\ (waits => placing'[d] # <<>>)
  <2>1. CASE waits
    <3>1. placing \in [D -> Seq(Items)] /\ placing[d] \in Seq(Items)
      BY DEF IInv
    <3> HIDE DEF item, waits
    <3>2. Append(placing[d], item) \in Seq(Items) /\ Append(placing[d], item) # <<>>
      BY <1>6, <2>1, <3>1, AppendProperties
    <3>3. dev[d].state # NoState
      BY <1>3, <2>1 DEF waits
    <3>4. QED
      BY <1>1, <2>1, <3>1, <3>2, <3>3 DEF WaitFits, New
  <2>2. CASE ~waits
    BY <1>1, <2>2, WaitKept
  <2>3. QED
    BY <2>1, <2>2
<1>9. faults' = 0 => waits
  BY <1>3, <1>4, <1>5
<1>10. dev' = [dev EXCEPT ![d] = n]
  BY <1>1
<1> HIDE DEF n, waits
<1>11. Right(n, d, touched')
  BY <1>1, <1>2, <1>7 DEF Right, Known
<1>12. d = "b" /\ New(dev[d], touched) => New(n, touched')
  BY <1>1, <1>7 DEF New
<1>13. faults' = 0 => LessComing(d, n)
  BY <1>1, <1>2, <1>4, <1>5, <1>7, <1>8, <1>9 DEF LessComing, Calm
<1>14. \A x \in D \ {d} : x \in touched => x \in touched'
  BY <1>1
<1>15. QED
  BY <1>2, <1>4, <1>7, <1>8, <1>10, <1>11, <1>12, <1>13, <1>14, DeviceStep

LEMMA PlacedStep ==
    ASSUME IInv, NEW d \in D, Placed(d) PROVE IInv'
<1> DEFINE e == Head(placing[d]).entry
           r == Place(dev[d], e)
           n == Requested(r, FALSE)
<1>1. /\ placing[d] # <<>> /\ placing' = [placing EXCEPT ![d] = Tail(@)]
      /\ dev' = [dev EXCEPT ![d] = n] /\ mail' = Asks(mail, d, r, n)
      /\ touched' = touched \ {d}
      /\ UNCHANGED <<coming, linked, edits, faults>>
  BY DEF Placed, Set
<1>2. /\ Right(dev[d], d, touched) /\ mail \in [D -> Seq(Mails)]
      /\ edits' \in Nat /\ faults' \in Nat
      /\ \A x \in D \ {d} : x \in touched => x \in touched'
  BY <1>1, DeviceFacts DEF IInv
<1>3. placing \in [D -> Seq(Items)] /\ placing[d] \in Seq(Items)
  BY DEF IInv
<1>4. Head(placing[d]) \in Items /\ Tail(placing[d]) \in Seq(Items)
  BY <1>1, <1>3, HeadTailProperties
<1>5. e \in Files
  BY <1>4 DEF Items
<1>6. WaitFits(d)
  <2>1. \A x \in D \ {d} : placing'[x] = placing[x]
    BY <1>1, <1>3
  <2>2. placing' \in [D -> Seq(Items)]
    BY <1>1, <1>3, <1>4
  <2>3. QED
    BY <1>1, <2>1, <2>2 DEF WaitFits
<1> HIDE DEF e
<1>7. /\ Right(r, d, touched') /\ Awaited(r, d, touched')
      /\ r.state = dev[d].state /\ r.unsent = dev[d].unsent /\ r.wanted = dev[d].wanted
  BY <1>2, <1>5, PlaceFits
<1> HIDE DEF r
<1>8. /\ Right(n, d, touched') /\ Awaited(n, d, touched')
      /\ n.state = r.state /\ n.unsent = r.unsent
      /\ r.wanted # 0 => n.wanted = r.wanted
      /\ r.state = NoState => n.wanted = r.wanted
      /\ r.queue # Missing /\ n.queue = Missing => n.wanted \in Nat \ {0}
  BY <1>7, RequestedFits
<1>9. dev' = [dev EXCEPT ![d] = n] /\ mail' = Asks(mail, d, r, n)
  BY <1>1
<1> HIDE DEF n
<1>10. MailFits /\ (linked = FALSE => mail' = mail)
  BY <1>2, <1>8, <1>9, AsksFits DEF MailFits
<1>11. QED
  BY <1>1, <1>2, <1>6, <1>7, <1>8, <1>9, <1>10, NearStep

(* What was asked for meanwhile is coming, so nothing is missed.            *)
LEMMA TornFits ==
    ASSUME IInv, NEW d \in D, NEW k \in Kinds, NEW j \in Kinds, Torn(d, k, j)
    PROVE  \E a : /\ dev' = [dev EXCEPT ![d] = ScannedBlind(a, d)]
                  /\ mail' = Asks(mail, d, dev[d], a)
                  /\ Right(a, d, touched) /\ dev[d].wanted = 0
                  /\ a.state = dev[d].state /\ a.unsent = dev[d].unsent /\ a.entry = dev[d].entry
                  /\ a.disk = dev[d].disk
                  /\ dev[d].queue # Missing /\ a.queue = Missing => a.wanted \in Nat \ {0}
                  /\ a.state # NoState
<1> DEFINE r == [dev[d] EXCEPT !.dirty = FALSE]
           a == Requested(r, FALSE)
<1>1. /\ dev' = [dev EXCEPT ![d] = ScannedBlind(a, d)] /\ mail' = Asks(mail, d, dev[d], a)
      /\ dev[d].wanted = 0 /\ a.wanted # 0
  BY DEF Torn, Set
<1>2. Right(dev[d], d, touched)
  BY DeviceFacts
<1>3. /\ Right(r, d, touched) /\ r.state = dev[d].state /\ r.unsent = dev[d].unsent
      /\ r.wanted = dev[d].wanted /\ r.queue = dev[d].queue /\ r.entry = dev[d].entry
      /\ r.disk = dev[d].disk
  BY <1>2, DirtyFits
<1> HIDE DEF r
<1>4. /\ Right(a, d, touched) /\ a.state = r.state /\ a.unsent = r.unsent /\ a.entry = r.entry
      /\ a.disk = r.disk
      /\ r.state = NoState => a.wanted = r.wanted
      /\ r.queue # Missing /\ a.queue = Missing => a.wanted \in Nat \ {0}
  BY <1>3, RequestedFits
<1> HIDE DEF a
<1>5. a.state # NoState
  BY <1>1, <1>3, <1>4
<1>6. QED
  BY <1>1, <1>3, <1>4, <1>5

LEMMA TornStep ==
    ASSUME IInv, NEW d \in D, NEW k \in Kinds, NEW j \in Kinds, Torn(d, k, j)
    PROVE  IInv'
<1>1. PICK a : /\ dev' = [dev EXCEPT ![d] = ScannedBlind(a, d)]
               /\ mail' = Asks(mail, d, dev[d], a)
               /\ Right(a, d, touched) /\ dev[d].wanted = 0
               /\ a.state = dev[d].state /\ a.unsent = dev[d].unsent /\ a.entry = dev[d].entry
               /\ dev[d].queue # Missing /\ a.queue = Missing => a.wanted \in Nat \ {0}
               /\ a.state # NoState
  BY TornFits
<1>2. /\ touched' = touched \ {d} /\ placing' = HadLock(d, k)
      /\ UNCHANGED <<coming, linked, edits, faults>>
  BY DEF Torn
<1>3. SameWait /\ mail \in [D -> Seq(Mails)] /\ edits' \in Nat /\ faults' \in Nat
      /\ \A x \in D \ {d} : x \in touched => x \in touched'
  BY <1>2, HadLockFits DEF IInv
<1> DEFINE n == ScannedBlind(a, d)
<1>4. /\ Right(n, d, touched') /\ Awaited(n, d, touched')
      /\ n.state = a.state /\ n.unsent = a.unsent
  BY <1>1, <1>2, BlindFits
<1>5. dev' = [dev EXCEPT ![d] = n]
  BY <1>1
<1> HIDE DEF n
<1>6. MailFits /\ (linked = FALSE => mail' = mail)
  BY <1>1, <1>3, AsksFits DEF MailFits
<1>7. d = "b" /\ New(dev[d], touched) => New(n, touched')
  BY <1>1 DEF New
<1>8. QED
  BY <1>1, <1>2, <1>3, <1>4, <1>5, <1>6, <1>7, LocalStep

LEMMA EmptyMail ==
    /\ [d \in D |-> <<>>] \in [D -> Seq(Mails)] /\ <<>> \in Seq(Items) /\ Clear(<<>>) /\ AtMostOne(<<>>)
BY DEF Clear, AtMostOne

LEMMA RestartStep ==
    ASSUME IInv, NEW d \in D, Restart(d) PROVE IInv'
<1> DEFINE n == [dev[d] EXCEPT !.dirty = FALSE, !.queue = Missing, !.wanted = 0, !.incoming = Missing]
<1>1. dev[d] \in Devs /\ Right(dev[d], d, touched) /\ faults' \in Nat \ {0}
  BY DeviceFacts DEF Restart
<1>2. /\ n \in Devs /\ n.disk = dev[d].disk /\ n.state = dev[d].state /\ n.unsent = dev[d].unsent
      /\ n.wanted = 0 /\ n.entry = dev[d].entry /\ n.kept = dev[d].kept
  BY <1>1 DEF Devs
<1>3. /\ dev' = [dev EXCEPT ![d] = n] /\ linked' = FALSE /\ mail' = [e \in D |-> <<>>]
      /\ coming' = [coming EXCEPT ![d] = {}] /\ placing' = [placing EXCEPT ![d] = <<>>]
      /\ UNCHANGED <<touched, edits>>
  BY DEF Restart, Set
<1> HIDE DEF n
<1>4. /\ MailFits /\ linked' \in BOOLEAN /\ edits' \in Nat
      /\ coming' \in [D -> SUBSET (Nat \ {0})] /\ WaitFits(d)
  BY <1>3, EmptyMail DEF MailFits, NoMore, IInv, WaitFits
<1>5. Right(n, d, touched') /\ (New(dev[d], touched) => New(n, touched'))
  BY <1>1, <1>2, <1>3 DEF Right, New, Known
<1>6. QED
  BY <1>1, <1>2, <1>3, <1>4, <1>5, DeviceStep

LEMMA SessionEnds ==
    ASSUME IInv, Cut \/ Reconnect PROVE IInv'
<1>1. UNCHANGED <<dev, coming, placing, touched, edits>> /\ linked' = FALSE
  BY DEF Cut, Reconnect
<1>2. "a" \in D /\ dev["a"] \in Devs /\ Right(dev["a"], "a", touched)
      /\ dev' = [dev EXCEPT !["a"] = dev["a"]] /\ WaitFits("a")
  BY <1>1, DeviceFacts, WaitKept DEF D
<1>3. MailFits /\ coming' \in [D -> SUBSET (Nat \ {0})] /\ edits' \in Nat
  BY <1>1, EmptyMail, DeviceFacts DEF Cut, Reconnect, MailFits, NoMore, IInv
<1>4. faults' \in Nat /\ (faults' = 0 => faults = 0 /\ Reconnect)
  <2>1. Cut => faults' \in Nat \ {0}
    BY <1>2, DeviceFacts DEF Cut
  <2>2. Reconnect => faults' = faults /\ faults \in Nat
    BY DEF Reconnect, IInv
  <2>3. QED
    BY <2>1, <2>2
<1>5. faults' = 0 => LessComing("a", dev["a"])
  <2>1. Reconnect => \A e \in D : mail'[e] = <<>> /\ coming'[e] = {}
    BY DEF Reconnect, Quiet
  <2>2. QED
    BY <1>1, <1>2, <1>4, <2>1, DeviceFacts DEF LessComing
<1>6. QED
  BY <1>1, <1>2, <1>3, <1>4, <1>5, DeviceStep

(* Both ask anew: nothing is on its way, so nothing that comes is unasked.  *)
LEMMA LinkUpStep ==
    ASSUME IInv, LinkUp PROVE IInv'
<1>1. /\ linked = FALSE /\ linked' = TRUE /\ dev' = [d \in D |-> Connected(d)]
      /\ UNCHANGED <<mail, coming, placing, touched, edits, faults>>
  BY DEF LinkUp, IInv
<1>2. ASSUME NEW d \in D
      PROVE  LET n == Connected(d)
             IN  /\ Right(n, d, touched) /\ (Awaited(dev[d], d, touched) => Awaited(n, d, touched))
                 /\ n.unsent = dev[d].unsent /\ n.state = dev[d].state /\ n.disk = dev[d].disk
                 /\ n.state = NoState => n = dev[d]
  <2>1. dev[d] \in Devs /\ Right(dev[d], d, touched)
    BY DeviceFacts
  <2> DEFINE n == [dev[d] EXCEPT !.wanted = 0]
  <2>2. /\ n \in Devs /\ n.disk = dev[d].disk /\ n.state = dev[d].state /\ n.unsent = dev[d].unsent
        /\ n.wanted = 0 /\ n.entry = dev[d].entry /\ n.queue = dev[d].queue
        /\ n.incoming = dev[d].incoming /\ n.kept = dev[d].kept
    BY <2>1 DEF Devs
  <2>3. Connected(d) = IF dev[d].state = "active" THEN n ELSE dev[d]
    BY DEF Connected
  <2> HIDE DEF n
  <2>4. QED
    BY <2>1, <2>2, <2>3 DEF Right, Awaited, Known, NoState
<1>3. \A d \in D : dev'[d] = Connected(d)
  BY <1>1
<1>4. dev' \in [D -> Devs]
  BY <1>1, <1>2 DEF Right
<1>5. InviteInv'
  BY <1>1, <1>2, <1>3 DEF IInv, InviteInv, New, Fresh, D
<1>6. CalmInv'
  <2> SUFFICES ASSUME faults = 0 PROVE \A d \in D : Calm(dev'[d], d, touched, coming[d], placing[d])
    BY <1>1 DEF CalmInv
  <2>1. \A d \in D : coming[d] = {} /\ Calm(dev[d], d, touched, coming[d], placing[d])
    BY <1>1 DEF IInv, CalmInv
  <2>2. QED
    BY <1>2, <1>3, <2>1 DEF Calm
<1>7. QED
  BY <1>1, <1>2, <1>3, <1>4, <1>5, <1>6 DEF IInv

------------------------------------------------------------------------------

LEMMA InitFits == Init => IInv
<1> SUFFICES ASSUME Init PROVE IInv
  OBVIOUS
<1>1. ASSUME NEW d \in D
      PROVE  LET r == InitDev(d)
             IN  /\ r \in Devs /\ r.disk = 0 /\ r.entry = Missing /\ r.wanted = 0
                 /\ d = "b" => r.state = NoState /\ r.unsent = FALSE
                 /\ d = "a" => r.state # NoState
  BY <1>1 DEF InitDev, Devs, States, NoState, D
<1>2. \A d \in D : dev[d] = InitDev(d) /\ mail[d] = <<>> /\ coming[d] = {} /\ placing[d] = <<>>
  BY DEF Init
<1>3. dev \in [D -> Devs] /\ mail \in [D -> Seq(Mails)] /\ coming \in [D -> SUBSET (Nat \ {0})]
      /\ placing \in [D -> Seq(Items)]
  BY <1>1, EmptyMail DEF Init
<1>4. \A d \in D : Right(dev[d], d, touched)
  BY <1>1, <1>2 DEF Right, Known
<1>5. InviteInv
  BY <1>1, <1>2, EmptyMail DEF InviteInv, New, Fresh, D
<1>6. CalmInv
  BY <1>1, <1>2 DEF CalmInv, Calm, Awaited, Known
<1>7. QED
  BY <1>3, <1>4, <1>5, <1>6 DEF IInv, Init

LEMMA StepFits == IInv /\ [SyncNext]_syncVars => IInv'
<1> SUFFICES ASSUME IInv, [SyncNext]_syncVars PROVE IInv'
  OBVIOUS
<1>1. CASE UNCHANGED syncVars
  BY <1>1 DEF syncVars, IInv, InviteInv, Fresh, CalmInv
<1>2. CASE LinkUp \/ Cut \/ Reconnect
  BY <1>2, LinkUpStep, SessionEnds
<1>3. ASSUME NEW d \in D,
             Edit(d) \/ Delete(d) \/ Pause(d) \/ Resume(d) \/ Invite(d) \/ Accept(d) \/ Answer(d)
             \/ Leave(d) \/ HandleSync(d) \/ Placed(d) \/ Restart(d)
      PROVE  IInv'
  BY <1>3, UserSteps, StateSteps, InviteStep, AcceptStep, AnswerStep, LeaveStep, HandleStep, PlacedStep, RestartStep
<1>4. ASSUME NEW d \in D, NEW k \in Kinds, Scan(d, k) \/ SendIndex(d, k) \/ EndRound(d, k)
      PROVE  IInv'
  BY <1>4, ScanStep, SendIndexStep, EndRoundStep
<1>5. ASSUME NEW d \in D, NEW sha \in coming[d], NEW ok \in BOOLEAN, Done(d, sha, ok) PROVE IInv'
  BY <1>5, DoneStep
<1>6. ASSUME NEW d \in D, NEW k \in Kinds, NEW j \in Kinds, Torn(d, k, j) PROVE IInv'
  BY <1>6, TornStep
<1>7. QED
  BY <1>1, <1>2, <1>3, <1>4, <1>5, <1>6 DEF SyncNext

(* A scan finds a deletion nobody made only of a file that is beside it as  *)
(* a copy, and only after a fault, with its download given up or waiting for*)
(* the lock, or if it changed lists between two looks (_scan_blocking,      *)
(* sync_transfer_done, sync_link_up).                                       *)
THEOREM ScansFindWhatUsersDid == Spec => NoPhantomChanges
<1> DEFINE Found == \A d \in D, k \in Kinds :
                       /\ Scan(d, k) /\ Phantom(d) => MovedAside(d) /\ Unlisted(d)
                       /\ \A j \in Kinds : Torn(d, k, j) /\ Phantom(d) => MovedAside(d)
<1>1. ASSUME IInv, NEW d \in D, NEW k \in Kinds, Scan(d, k), Phantom(d)
      PROVE  MovedAside(d) /\ Unlisted(d)
  <2>1. /\ Right(dev[d], d, touched) /\ faults \in Nat
        /\ faults = 0 => placing[d] # <<>> \/ Awaited(dev[d], d, touched)
    BY <1>1, DeviceFacts DEF Calm, IInv
  <2>2. dev'[d] = IF dev[d].state = NoState THEN dev[d] ELSE Scanned(dev[d], d)
    BY <1>1 DEF Scan, Set, IInv
  <2>3. dev[d].state # NoState /\ dev'[d] = Scanned(dev[d], d) /\ d \notin touched
    BY <1>1, <2>2 DEF Phantom
  <2> DEFINE n == Scanned(dev[d], d)
  <2>4. n.entry # dev[d].entry
    BY <1>1, <2>3 DEF Phantom
  <2>5. n.entry # dev[d].entry =>
           d \in touched \/ (n.entry.del = TRUE /\ dev[d].disk = 0 /\ Known(dev[d])
                            /\ dev[d].queue = Missing /\ dev[d].wanted = 0)
    BY <2>1, <2>3, ScannedFits
  <2> HIDE DEF n
  <2>6. /\ n.entry.del = TRUE /\ dev[d].disk = 0 /\ Known(dev[d])
        /\ dev[d].queue = Missing /\ dev[d].wanted = 0
    BY <2>3, <2>4, <2>5
  <2>7. MovedAside(d)
    BY <2>1, <2>3, <2>6 DEF Right, MovedAside, n
  <2>8. Unlisted(d)
    BY <2>1, <2>3, <2>6 DEF Awaited, GivenUp, Unlisted
  <2>9. QED
    BY <2>7, <2>8
<1>2. ASSUME IInv, NEW d \in D, NEW k \in Kinds, NEW j \in Kinds, Torn(d, k, j), Phantom(d)
      PROVE  MovedAside(d)
  <2>1. PICK a : /\ dev' = [dev EXCEPT ![d] = ScannedBlind(a, d)]
                 /\ Right(a, d, touched) /\ a.entry = dev[d].entry /\ a.disk = dev[d].disk
                 /\ a.state # NoState
    BY <1>2, TornFits
  <2> DEFINE n == ScannedBlind(a, d)
  <2>2. n.entry # a.entry => d \in touched \/ (n.entry.del = TRUE /\ a.disk = 0 /\ Known(a))
    BY <2>1, BlindFits
  <2>3. dev'[d] = n
    BY <1>2, <2>1 DEF IInv
  <2> HIDE DEF n
  <2>4. n.entry.del = TRUE /\ dev[d].disk = 0 /\ Known(dev[d]) /\ d \notin touched
    BY <1>2, <2>1, <2>2, <2>3 DEF Phantom, Known
  <2>5. Right(dev[d], d, touched)
    BY <1>2, DeviceFacts
  <2>6. QED
    BY <2>3, <2>4, <2>5 DEF Right, MovedAside
<1>3. IInv /\ [SyncNext]_syncVars => [Found]_syncVars
  BY <1>1, <1>2
<1>4. QED
  BY <1>3, InitFits, StepFits, PTL DEF Spec, NoPhantomChanges

==============================================================================
