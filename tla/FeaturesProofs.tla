---------------------------- MODULE FeaturesProofs ----------------------------
(***************************************************************************)
(* Theorems about Features, for any number of grants, downloads, codes and *)
(* steps of the users, and whatever sessions end and devices restart: what *)
(* is promised to who shares a folder, and that whom a device shows as     *)
(* verified was met.                                                       *)
(***************************************************************************)
EXTENDS Features, SequenceTheorems, FiniteSetTheorems, TLAPS

(***************************************************************************)
(* Downloads.  A start takes the stored grants for those in memory, so     *)
(* both have to count what was served; a grant made for nobody yet has     *)
(* served nothing, which is why a new one may start to count at 0.         *)
(***************************************************************************)
GrantRecord == [to : D, live : BOOLEAN, sent : BOOLEAN, count : Nat]

Counts(gs, sent) ==
    /\ gs \in [G -> GrantRecord] /\ sent \in [G -> Nat]
    /\ \A g \in G :
          /\ sent[g] <= gs[g].count /\ gs[g].count <= Limit
          /\ gs[g].live => gs[g].to # "o"
          /\ gs[g].to = "o" => sent[g] = 0

Counted == Counts(grants, served) /\ Counts(stored, served)

ZippedForSomeone ==
    \A z \in zipping :
        /\ z = [g |-> z.g, n |-> z.n, on |-> z.on]
        /\ z.g \in G => grants[z.g].to # "o"

ShareInv == Counted /\ ZippedForSomeone

countVars == <<grants, stored, served>>

LEMMA InitShareInv == InitShare => ShareInv
BY ShareAssumption
   DEF InitShare, ShareInv, Counted, Counts, ZippedForSomeone, NoGrant, GrantRecord, D

(* The invariant speaks of these variables only.                            *)
LEMMA SameCounts ==
    ASSUME ShareInv, UNCHANGED countVars, zipping' \subseteq zipping
    PROVE  ShareInv'
BY DEF ShareInv, Counted, Counts, ZippedForSomeone, countVars

(* A download for a grant that has a contact is counted at most up to the   *)
(* limit, and before it is served.                                          *)
LEMMA ServeCounts ==
    ASSUME Counted, NEW g, Serve(g), g \in G => grants[g].to # "o"
    PROVE  Counted' /\ \A h \in G : grants'[h].to = grants[h].to
<1> USE ShareAssumption DEF Counted
<1> DEFINE gs == [grants EXCEPT ![g].count = @ + 1]
           more == [served EXCEPT ![g] = @ + 1]
<1>1. CASE ~Recorded(g)
  BY <1>1 DEF Serve, Counts
<1>2. CASE Recorded(g) /\ g \notin G
  <2>1. gs = grants /\ more = served
    BY <1>2 DEF Counts
  <2>2. /\ stored' = gs
        /\ (grants' = gs /\ served' = more) \/ (grants' = grants /\ served' = served)
    BY <1>2 DEF Serve
  <2>3. QED
    BY <2>1, <2>2 DEF Counts
<1>3. CASE Recorded(g) /\ g \in G
  <2>1. /\ stored' = gs
        /\ (grants' = gs /\ served' = more) \/ (grants' = grants /\ served' = served)
    BY <1>3 DEF Serve
  <2>2. /\ gs \in [G -> GrantRecord] /\ more \in [G -> Nat]
        /\ gs[g].count = grants[g].count + 1 /\ more[g] = served[g] + 1
        /\ \A h \in G : gs[h].to = grants[h].to /\ gs[h].live = grants[h].live
        /\ \A h \in G : h # g => gs[h].count = grants[h].count /\ more[h] = served[h]
    BY <1>3 DEF Counts, GrantRecord
  <2>3. grants[g].count \in Nat /\ grants[g].count + 1 <= Limit
    BY <1>3 DEF Recorded, Counts, GrantRecord
  <2>4. Counts(gs, served) /\ Counts(gs, more)
    BY <1>3, <2>2, <2>3 DEF Counts, GrantRecord
  <2>5. QED
    BY <2>1, <2>2, <2>4
<1>4. QED
  BY <1>1, <1>2, <1>3

(* Every step of sharing keeps the counts.                                  *)
LEMMA ShareSteps ==
    ASSUME ShareInv, ShareNext
    PROVE  ShareInv'
<1> USE ShareAssumption DEF ShareInv
<1>1. ASSUME NEW g \in G, NEW d \in D \ {"o"}, OfferShare(g, d)
      PROVE  ShareInv'
  <2> DEFINE new == [NoGrant EXCEPT !.to = d, !.live = TRUE]
             gs == [grants EXCEPT ![g] = new]
  <2>1. grants' = gs /\ stored' = gs /\ served' = served /\ zipping' = zipping
    BY <1>1 DEF OfferShare
  <2>2. grants[g].to = "o"
    BY <1>1 DEF OfferShare
  <2>3. new \in GrantRecord /\ new.to = d /\ new.to # "o" /\ new.count = 0
    BY DEF NoGrant, GrantRecord, D
  <2>4. Counts(gs, served) /\ \A h \in G : gs[h].to = IF h = g THEN d ELSE grants[h].to
    <3> HIDE DEF new
    <3> QED
      BY <1>1, <2>2, <2>3 DEF Counted, Counts
  <2>5. QED
    BY <1>1, <2>1, <2>4 DEF Counted, ZippedForSomeone
<1>2. ASSUME NEW g \in G, StopSharing(g)
      PROVE  ShareInv'
  <2> DEFINE gs == [grants EXCEPT ![g].live = FALSE]
  <2>1. grants' = gs /\ stored' = gs /\ served' = served /\ zipping' = zipping
    BY <1>2 DEF StopSharing
  <2>2. Counts(gs, served) /\ \A h \in G : gs[h].to = grants[h].to
    <3>1. Counts(grants, served)
      BY DEF Counted
    <3>2. gs \in [G -> GrantRecord]
      BY <3>1 DEF Counts, GrantRecord
    <3>3. \A h \in G : /\ gs[h].to = grants[h].to /\ (gs[h].live => grants[h].live)
                       /\ gs[h].count = grants[h].count
      BY <3>1 DEF Counts, GrantRecord
    <3> HIDE DEF gs
    <3>4. QED
      BY <3>1, <3>2, <3>3 DEF Counts
  <2>3. QED
    BY <2>1, <2>2 DEF Counted, ZippedForSomeone
<1>3. ASSUME NEW d \in D, SendOffer(d)
      PROVE  ShareInv'
  <2> DEFINE g == Head(offering[d])
             gs == [grants EXCEPT ![g].sent = TRUE]
  <2>1. /\ served' = served /\ zipping' = zipping
        /\ (grants' = gs /\ stored' \in {gs, stored}) \/ (grants' = grants /\ stored' = stored)
    BY <1>3 DEF SendOffer
  <2>2. Counts(gs, served) /\ \A h \in G : gs[h].to = grants[h].to
    <3> HIDE DEF g
    <3>1. Counts(grants, served)
      BY DEF Counted
    <3>2. gs \in [G -> GrantRecord]
      BY <3>1 DEF Counts, GrantRecord
    <3>3. \A h \in G : /\ gs[h].to = grants[h].to /\ gs[h].live = grants[h].live
                       /\ gs[h].count = grants[h].count
      BY <3>1 DEF Counts, GrantRecord
    <3> HIDE DEF gs
    <3>4. QED
      BY <3>1, <3>2, <3>3 DEF Counts
  <2>3. QED
    BY <2>1, <2>2 DEF Counted, ZippedForSomeone
<1>4. ASSUME NEW d \in D, HandleFetch(d)
      PROVE  ShareInv'
  <2> DEFINE g == Head(mail[<<d, "o">>]).g
  <2>1. ValidFor(g, d) /\ g \in G => grants[g].to # "o"
    BY DEF ValidFor, Counted, Counts
  <2>2. CASE UNCHANGED <<grants, stored, served, zipping>>
    BY <2>2, SameCounts DEF countVars
  <2>3. CASE /\ ValidFor(g, d) /\ UNCHANGED <<grants, stored, served>>
             /\ \E n : zipping' = zipping \cup {[g |-> g, n |-> n, on |-> TRUE]}
    BY <2>1, <2>3 DEF Counted, Counts, ZippedForSomeone
  <2>4. CASE ValidFor(g, d) /\ Serve(g) /\ zipping' = zipping
    BY <2>1, <2>4, ServeCounts DEF ZippedForSomeone
  <2>5. QED
    BY <1>4, <2>2, <2>3, <2>4 DEF HandleFetch
<1>5. ASSUME NEW z \in zipping, Zipped(z)
      PROVE  ShareInv'
  BY <1>5, ServeCounts DEF Zipped, ZippedForSomeone
<1>6. ASSUME NEW d \in D, HandleOffer(d) \/ HandleRevoke(d)
      PROVE  ShareInv'
  BY <1>6, SameCounts DEF HandleOffer, HandleRevoke, countVars
<1>7. ASSUME NEW d \in D, NEW g \in G, NEW folder \in BOOLEAN, RequestFile(d, g, folder)
      PROVE  ShareInv'
  BY <1>7, SameCounts DEF RequestFile, countVars
<1>8. QED
  BY <1>1, <1>2, <1>3, <1>4, <1>5, <1>6, <1>7 DEF ShareNext, ShareProgress

(* Of what else happens only a restart touches the counts: it takes the     *)
(* stored ones, and ends what is being zipped.                              *)
LEMMA OtherShareSteps ==
    ASSUME ShareInv
    PROVE  /\ UNCHANGED shareVars => ShareInv'
           /\ \A ds : ShareGreeted(ds) => ShareInv'
           /\ \A ps : ShareCut(ps) => ShareInv'
           /\ \A d : ShareRestart(d) => ShareInv'
<1>1. UNCHANGED shareVars => ShareInv'
  BY SameCounts DEF shareVars, countVars
<1>2. ASSUME NEW ds, ShareGreeted(ds)
      PROVE  ShareInv'
  BY <1>2, SameCounts DEF ShareGreeted, countVars
<1>3. ASSUME NEW ps, ShareCut(ps)
      PROVE  ShareInv'
  <2>1. ASSUME NEW y \in zipping'
        PROVE  \E z \in zipping : y.g = z.g /\ y = [g |-> y.g, n |-> y.n, on |-> y.on]
    <3>1. PICK z \in zipping : y = [z EXCEPT !.on = @ /\ {"o", grants[z.g].to} \notin ps]
      BY <1>3 DEF ShareCut
    <3>2. z = [g |-> z.g, n |-> z.n, on |-> z.on]
      BY DEF ShareInv, ZippedForSomeone
    <3>3. QED
      BY <3>1, <3>2
  <2>2. ZippedForSomeone'
    BY <1>3, <2>1 DEF ShareCut, ShareInv, ZippedForSomeone
  <2>3. QED
    BY <1>3, <2>2 DEF ShareCut, ShareInv, Counted, Counts
<1>4. ASSUME NEW d, ShareRestart(d)
      PROVE  ShareInv'
  <2>1. CASE d = "o"
    BY <1>4, <2>1 DEF ShareRestart, ShareInv, Counted, Counts, ZippedForSomeone
  <2>2. CASE d # "o"
    BY <1>4, <2>2, <1>3 DEF ShareRestart
  <2>3. QED
    BY <2>1, <2>2
<1>5. QED
  BY <1>1, <1>2, <1>3, <1>4

(* No grant serves more downloads than its limit.                           *)
THEOREM DownloadsAreLimited == Spec => []LimitKept
<1>1. Init => ShareInv
  BY InitShareInv DEF Init
<1>2. ShareInv /\ [Next]_vars => ShareInv'
  <2> SUFFICES ASSUME ShareInv, [Next]_vars PROVE ShareInv'
    OBVIOUS
  <2>1. CASE UNCHANGED vars
    BY <2>1, OtherShareSteps DEF vars
  <2>2. CASE Progress
    BY <2>2, OtherShareSteps, ShareSteps DEF Progress, LinkUp, ShareNext
  <2>3. CASE use = "sharing" /\ ShareNext
    BY <2>3, ShareSteps
  <2>4. CASE UNCHANGED shareVars
    BY <2>4, OtherShareSteps
  <2>5. ASSUME NEW p \in links, Cut(p)
        PROVE  ShareInv'
    BY <2>5, OtherShareSteps DEF Cut
  <2>6. ASSUME NEW d \in D, Restart(d)
        PROVE  ShareInv'
    BY <2>6, OtherShareSteps DEF Restart
  <2>7. QED
    BY <2>1, <2>2, <2>3, <2>4, <2>5, <2>6 DEF Next
<1>3. ShareInv => LimitKept
  BY ShareAssumption DEF ShareInv, Counted, Counts, GrantRecord, LimitKept
<1>4. QED
  BY <1>1, <1>2, <1>3, PTL DEF Spec

(***************************************************************************)
(* Codes.  What has to hold between the steps: a code that was handed on   *)
(* as a link and still works is marked as shared, and whoever is about to  *)
(* send a code back has met o or has it from such a link.  The second is   *)
(* about the codes still to be sent (out) and those on their way (mail).   *)
(***************************************************************************)

(* d may send code t back: lk are the codes handed on, mt those who met.    *)
Rightful(d, t, lk, mt) == t \in lk \/ <<"o", d>> \in mt

Harmless(d, x, lk, mt) == x.op = "pair" => Rightful(d, x.token, lk, mt)

Bears(s, d, lk, mt) == \E S : s \in Seq(S) /\ \A x \in S : Harmless(d, x, lk, mt)

(* Only the codes on their way to o matter.                                 *)
Fine(m, lk, mt) ==
    /\ DOMAIN m = D \X D /\ m = [p \in D \X D |-> m[p]]
    /\ \A d \in D : Bears(m[<<d, "o">>], d, lk, mt)

CodeInv ==
    /\ shown \in Nat /\ linked \subseteq 1..shown
    /\ tokens \cap linked \subseteq shared

OutInv ==
    /\ out = [d \in D |-> out[d]]
    /\ \A d \in D : out[d] # 0 => Rightful(d, out[d], linked, met)

PairInv == CodeInv /\ OutInv /\ verified \subseteq met /\ Fine(mail, linked, met)

------------------------------------------------------------------------------
(* Sequences of messages.                                                   *)

LEMMA OfBears ==
    ASSUME NEW S, NEW s \in Seq(S), NEW d, NEW lk, NEW mt,
           \A x \in S : Harmless(d, x, lk, mt)
    PROVE  Bears(s, d, lk, mt)
BY DEF Bears

LEMMA EmptyBears == ASSUME NEW d, NEW lk, NEW mt PROVE Bears(<<>>, d, lk, mt)
<1> DEFINE S == {}
<1>1. <<>> \in Seq(S) /\ \A x \in S : Harmless(d, x, lk, mt)
  OBVIOUS
<1> HIDE DEF S
<1>2. QED
  BY <1>1, OfBears

LEMMA OneBears ==
    ASSUME NEW d, NEW lk, NEW mt, NEW x, Harmless(d, x, lk, mt)
    PROVE  Bears(<<x>>, d, lk, mt)
<1> DEFINE S == {x}
<1>1. <<x>> \in Seq(S) /\ \A y \in S : Harmless(d, y, lk, mt)
  OBVIOUS
<1> HIDE DEF S
<1>2. QED
  BY <1>1, OfBears

LEMMA TailBears ==
    ASSUME NEW s, NEW d, NEW lk, NEW mt, Bears(s, d, lk, mt), s # <<>>
    PROVE  Bears(Tail(s), d, lk, mt) /\ Harmless(d, Head(s), lk, mt)
<1>1. PICK S : s \in Seq(S) /\ \A x \in S : Harmless(d, x, lk, mt)
  BY DEF Bears
<1>2. Tail(s) \in Seq(S) /\ Head(s) \in S
  BY <1>1, HeadTailProperties
<1>3. QED
  BY <1>1, <1>2 DEF Bears

LEMMA ConcatBears ==
    ASSUME NEW s, NEW r, NEW d, NEW lk, NEW mt,
           Bears(s, d, lk, mt), Bears(r, d, lk, mt)
    PROVE  Bears(s \o r, d, lk, mt)
<1>1. PICK S : s \in Seq(S) /\ \A x \in S : Harmless(d, x, lk, mt)
  BY DEF Bears
<1>2. PICK R : r \in Seq(R) /\ \A x \in R : Harmless(d, x, lk, mt)
  BY DEF Bears
<1>3. s \in Seq(S \cup R) /\ r \in Seq(S \cup R)
  BY <1>1, <1>2, SeqMonotonic
<1>4. s \o r \in Seq(S \cup R)
  BY <1>3, ConcatProperties
<1>5. \A x \in S \cup R : Harmless(d, x, lk, mt)
  BY <1>1, <1>2
<1>6. QED
  BY <1>4, <1>5 DEF Bears

LEMMA AppendBears ==
    ASSUME NEW s, NEW x, NEW d, NEW lk, NEW mt,
           Bears(s, d, lk, mt), Harmless(d, x, lk, mt)
    PROVE  Bears(Append(s, x), d, lk, mt)
<1>1. PICK S : s \in Seq(S) /\ \A y \in S : Harmless(d, y, lk, mt)
  BY DEF Bears
<1>2. s \in Seq(S \cup {x})
  BY <1>1, SeqMonotonic
<1>3. Append(s, x) \in Seq(S \cup {x})
  BY <1>2, AppendProperties
<1>4. \A y \in S \cup {x} : Harmless(d, y, lk, mt)
  BY <1>1
<1>5. QED
  BY <1>3, <1>4 DEF Bears

(* What is handed on and who met only grows.                                *)
LEMMA MoreBears ==
    ASSUME NEW s, NEW d, NEW lk, NEW mt, NEW lk2, NEW mt2,
           Bears(s, d, lk, mt), lk \subseteq lk2, mt \subseteq mt2
    PROVE  Bears(s, d, lk2, mt2)
<1>1. PICK S : s \in Seq(S) /\ \A x \in S : Harmless(d, x, lk, mt)
  BY DEF Bears
<1>2. \A x \in S : Harmless(d, x, lk2, mt2)
  BY <1>1 DEF Harmless, Rightful
<1>3. QED
  BY <1>1, <1>2, OfBears

------------------------------------------------------------------------------
(* The mail.                                                                *)

LEMMA MoreFine ==
    ASSUME NEW m, NEW lk, NEW mt, NEW lk2, NEW mt2,
           Fine(m, lk, mt), lk \subseteq lk2, mt \subseteq mt2
    PROVE  Fine(m, lk2, mt2)
BY MoreBears DEF Fine

LEMMA PushFine ==
    ASSUME NEW m, NEW lk, NEW mt, NEW d, NEW ds, NEW msg,
           Fine(m, lk, mt), Harmless(d, msg, lk, mt)
    PROVE  Fine(Push(m, d, ds, msg), lk, mt)
<1> DEFINE m2 == Push(m, d, ds, msg)
<1>1. DOMAIN m2 = D \X D /\ m2 = [p \in D \X D |-> m2[p]]
  BY DEF Push
<1>2. ASSUME NEW e \in D
      PROVE  Bears(m2[<<e, "o">>], e, lk, mt)
  <2>1. <<e, "o">> \in D \X D /\ Bears(m[<<e, "o">>], e, lk, mt)
    BY DEF Fine, D
  <2>2. m2[<<e, "o">>] = IF e = d /\ "o" \in ds \cap Linked(d)
                         THEN Append(m[<<e, "o">>], msg) ELSE m[<<e, "o">>]
    BY <2>1 DEF Push
  <2>3. QED
    BY <2>1, <2>2, AppendBears
<1>3. QED
  BY <1>1, <1>2 DEF Fine

(* Of other messages than codes there is nothing to show.                   *)
LEMMA PushOther ==
    ASSUME NEW m, NEW lk, NEW mt, NEW d, NEW ds, NEW msg,
           Fine(m, lk, mt), msg.op # "pair"
    PROVE  Fine(Push(m, d, ds, msg), lk, mt)
BY PushFine DEF Harmless

LEMMA TookFine ==
    ASSUME NEW lk, NEW mt, NEW e \in D, NEW d \in D,
           Fine(mail, lk, mt), mail[<<e, d>>] # <<>>
    PROVE  /\ Fine(Took(e, d), lk, mt)
           /\ d = "o" => Harmless(e, Head(mail[<<e, d>>]), lk, mt)
<1>1. ASSUME NEW f \in D
      PROVE  Bears(Took(e, d)[<<f, "o">>], f, lk, mt)
  <2>1. <<f, "o">> \in D \X D /\ Bears(mail[<<f, "o">>], f, lk, mt)
    BY DEF Fine, D
  <2>2. Took(e, d)[<<f, "o">>] = IF f = e /\ d = "o" THEN Tail(mail[<<f, "o">>]) ELSE mail[<<f, "o">>]
    BY <2>1 DEF Took, Fine
  <2>3. QED
    BY <2>1, <2>2, TailBears
<1>2. DOMAIN Took(e, d) = D \X D /\ Took(e, d) = [p \in D \X D |-> Took(e, d)[p]]
  BY DEF Took, Fine
<1>3. d = "o" => Harmless(e, Head(mail[<<e, d>>]), lk, mt)
  BY TailBears DEF Fine
<1>4. QED
  BY <1>1, <1>2, <1>3 DEF Fine

(* Sessions that end take their mail with them.                             *)
LEMMA DropFine ==
    ASSUME NEW lk, NEW mt, NEW ps, Fine(mail, lk, mt),
           mail' = [p \in D \X D |-> IF {p[1], p[2]} \in ps THEN <<>> ELSE mail[p]]
    PROVE  Fine(mail', lk, mt)
<1>1. ASSUME NEW e \in D
      PROVE  Bears(mail'[<<e, "o">>], e, lk, mt)
  <2>1. <<e, "o">> \in D \X D /\ Bears(mail[<<e, "o">>], e, lk, mt)
    BY DEF Fine, D
  <2>2. mail'[<<e, "o">>] \in {<<>>, mail[<<e, "o">>]}
    BY <2>1
  <2>3. QED
    BY <2>1, <2>2, EmptyBears
<1>2. QED
  BY <1>1 DEF Fine

------------------------------------------------------------------------------
(* Groups and shared folders send no codes.                                 *)

LEMMA GroupSteps ==
    ASSUME Fine(mail, linked, met), GroupNext, linked' = linked, met' = met
    PROVE  Fine(mail', linked, met)
<1> DEFINE Good(m) == Fine(m, linked, met)
<1>1. \A m, g, to : Good(m) => (Broadcast(m, g, to) => Good(mail'))
  BY PushOther DEF Broadcast, Update
<1>2. \A m, d, ds, t : Good(m) => Good(PushText(m, d, ds, t))
  BY PushOther DEF PushText
<1>3. \A e, d \in D : mail[<<e, d>>] # <<>> => Good(Took(e, d))
  BY TookFine
<1>4. ASSUME NEW members, CreateGroup(members) \/ UpdateGroup(members)
      PROVE  Good(mail')
  BY <1>1, <1>4 DEF CreateGroup, UpdateGroup
<1>5. CASE CloseGroup \/ Noted
  BY <1>1, <1>5 DEF CloseGroup, Noted, contactVars
<1>6. ASSUME NEW d \in D, LeaveGroup(d) \/ DeleteGroup(d)
      PROVE  Good(mail')
  BY <1>6, PushOther DEF LeaveGroup, DeleteGroup, contactVars
<1>7. ASSUME NEW d \in D, HandleUpdate(d) \/ HandleLeave(d)
      PROVE  Good(mail')
  <2>1. "o" \in D
    BY DEF D
  <2>2. QED
    BY <1>1, <1>3, <1>7, <2>1 DEF HandleUpdate, HandleLeave, Arrived
<1>8. ASSUME NEW d \in D, NEW t \in T, SendText(d, t)
      PROVE  Good(mail')
  BY <1>2, <1>8 DEF SendText
<1>9. ASSUME NEW d \in D, NEW e \in D, HandleText(d, e)
      PROVE  Good(mail')
  <2> DEFINE t == Head(mail[<<e, d>>]).t
             told == Push(Took(e, d), d, {e}, [op |-> "receipt", t |-> t])
             on == group[d].members \ {d, author[t], e}
  <2>1. Good(Took(e, d))
    BY <1>3, <1>9 DEF HandleText, Arrived
  <2>2. Good(told)
    BY <2>1, PushOther
  <2>3. mail' \in {Took(e, d), told, PushText(told, d, on, t)}
    BY <1>9 DEF HandleText
  <2>4. QED
    BY <1>2, <2>1, <2>2, <2>3
<1>10. ASSUME NEW d \in D, NEW e \in D, HandleReceipt(d, e)
       PROVE  Good(mail')
  BY <1>3, <1>10 DEF HandleReceipt, Arrived
<1>11. QED
  BY <1>4, <1>5, <1>6, <1>7, <1>8, <1>9, <1>10 DEF GroupNext

LEMMA ShareMail ==
    ASSUME Fine(mail, linked, met), ShareNext
    PROVE  Fine(mail', linked, met)
<1> DEFINE Good(m) == Fine(m, linked, met)
<1>1. \A e, d \in D : mail[<<e, d>>] # <<>> => Good(Took(e, d))
  BY TookFine
<1>2. "o" \in D
  BY DEF D
<1>3. ASSUME NEW g, NEW d, OfferShare(g, d)
      PROVE  Good(mail')
  BY <1>3 DEF OfferShare, contactVars
<1>4. ASSUME NEW g, StopSharing(g)
      PROVE  Good(mail')
  BY <1>4, PushOther DEF StopSharing
<1>5. ASSUME NEW d, SendOffer(d)
      PROVE  Good(mail')
  BY <1>5, PushOther DEF SendOffer
<1>6. ASSUME NEW d, NEW g, NEW folder, RequestFile(d, g, folder)
      PROVE  Good(mail')
  BY <1>6, PushOther DEF RequestFile
<1>7. ASSUME NEW d \in D, HandleOffer(d) \/ HandleRevoke(d) \/ HandleFetch(d)
      PROVE  Good(mail')
  BY <1>1, <1>2, <1>7 DEF HandleOffer, HandleRevoke, HandleFetch, Arrived
<1>8. ASSUME NEW z, Zipped(z)
      PROVE  Good(mail')
  BY <1>8 DEF Zipped, contactVars
<1>9. QED
  BY <1>3, <1>4, <1>5, <1>6, <1>7, <1>8 DEF ShareNext, ShareProgress

------------------------------------------------------------------------------
(* Pairing.                                                                 *)

LEMMA PairSteps ==
    ASSUME PairInv, PairNext
    PROVE  PairInv'
<1> USE DEF PairInv
<1>1. \A m, d, ds, msg : Fine(m, linked, met) /\ msg.op # "pair" => Fine(Push(m, d, ds, msg), linked, met)
  BY PushOther
<1>2. CASE CreateCard
  <2>1. CodeInv'
    BY <1>2 DEF CreateCard, CodeInv
  <2>2. QED
    BY <1>2, <2>1 DEF CreateCard, OutInv, contactVars
<1>3. ASSUME NEW t \in 1..Codes, MarkShared(t)
      PROVE  PairInv'
  <2>1. CodeInv'
    BY <1>3 DEF MarkShared, CodeInv
  <2>2. OutInv'
    BY <1>3 DEF MarkShared, OutInv, Rightful
  <2>3. Fine(mail', linked', met') /\ verified' = verified /\ met' = met
    BY <1>3, MoreFine DEF MarkShared, contactVars
  <2>4. QED
    BY <2>1, <2>2, <2>3
<1>4. ASSUME NEW t \in 1..Codes, ExpireToken(t)
      PROVE  PairInv'
  BY <1>4 DEF ExpireToken, CodeInv, OutInv, contactVars
<1>5. ASSUME NEW d \in D, NEW t \in 1..Codes, NEW inPerson \in BOOLEAN, ImportCard(d, t, inPerson)
      PROVE  PairInv'
  <2>1. /\ linked' = linked /\ shown' = shown /\ tokens' = tokens /\ shared' = shared
        /\ met \subseteq met' /\ verified' \subseteq met'
        /\ Rightful(d, t, linked', met')
    BY <1>5 DEF ImportCard, Marked, Rightful
  <2>2. CodeInv'
    BY <2>1 DEF CodeInv
  <2>3. OutInv'
    BY <1>5, <2>1 DEF ImportCard, OutInv, Rightful
  <2>4. Fine(mail, linked', met')
    BY <2>1, MoreFine
  <2>5. Harmless(d, [op |-> "pair", token |-> t], linked', met')
    BY <2>1 DEF Harmless
  <2>6. Fine(mail', linked', met')
    BY <1>5, <2>4, <2>5, PushFine DEF ImportCard
  <2>7. QED
    BY <2>1, <2>2, <2>3, <2>6
<1>6. ASSUME NEW d, NEW e, AddTrusted(d, e)
      PROVE  PairInv'
  <2>1. CodeInv' /\ linked' = linked /\ met' = met /\ verified' \subseteq verified
    BY <1>6 DEF AddTrusted, codeVars, CodeInv
  <2>2. OutInv'
    BY <1>6, <2>1 DEF AddTrusted, OutInv
  <2>3. Fine(mail', linked, met)
    BY <1>1, <1>6 DEF AddTrusted
  <2>4. QED
    BY <2>1, <2>2, <2>3
<1>7. ASSUME NEW d, NEW e, RemoveContact(d, e)
      PROVE  PairInv'
  <2>1. CodeInv' /\ linked' = linked /\ met' = met /\ verified' \subseteq verified
    BY <1>7 DEF RemoveContact, codeVars, CodeInv
  <2>2. OutInv'
    BY <1>7, <2>1 DEF RemoveContact, OutInv
  <2>3. mail' = [p \in D \X D |-> IF {p[1], p[2]} \in {{d, e}} THEN <<>> ELSE mail[p]]
    BY <1>7 DEF RemoveContact
  <2>4. Fine(mail', linked, met)
    BY <2>3, DropFine
  <2>5. QED
    BY <2>1, <2>2, <2>4
<1>8. ASSUME NEW d, NEW e, DeclineRequest(d, e) \/ VerifyContact(d, e) \/ UnverifyContact(d, e)
      PROVE  PairInv'
  <2>1. /\ CodeInv' /\ linked' = linked /\ out' = out /\ mail' = mail
        /\ met \subseteq met' /\ verified' \subseteq met'
    BY <1>8 DEF DeclineRequest, VerifyContact, UnverifyContact, codeVars, contactVars, CodeInv
  <2>2. OutInv'
    BY <2>1 DEF OutInv, Rightful
  <2>3. Fine(mail', linked', met')
    BY <2>1, MoreFine
  <2>4. QED
    BY <2>1, <2>2, <2>3
<1>9. ASSUME NEW d \in D, HandlePair(d)
      PROVE  PairInv'
  <2> DEFINE t == Head(mail[<<d, "o">>]).token
  <2>1. "o" \in D
    BY DEF D
  <2>2. Fine(Took(d, "o"), linked, met) /\ Rightful(d, t, linked, met)
    BY <1>9, <2>1, TookFine DEF HandlePair, Arrived, Harmless
  <2>3. /\ linked' = linked /\ met' = met /\ out' = out /\ shown' = shown
        /\ mail' = Took(d, "o")
    BY <1>9 DEF HandlePair
  <2>4. CASE t \in tokens
    <3>1. tokens' = tokens \ {t} /\ shared' = shared \ {t}
      BY <1>9, <2>4 DEF HandlePair
    <3>2. verified' = IF t \notin shared THEN verified \cup {<<"o", d>>} ELSE verified
      BY <1>9, <2>4 DEF HandlePair, InPerson, Marked
    <3>3. t \notin shared => <<"o", d>> \in met
      BY <2>2, <2>4 DEF CodeInv, Rightful
    <3>4. QED
      BY <2>2, <2>3, <3>1, <3>2, <3>3 DEF CodeInv, OutInv
  <2>5. CASE t \notin tokens
    <3>1. tokens' = tokens /\ shared' = shared /\ verified' = verified
      BY <1>9, <2>5 DEF HandlePair
    <3>2. QED
      BY <2>2, <2>3, <3>1 DEF CodeInv, OutInv
  <2>6. QED
    BY <2>4, <2>5
<1>10. ASSUME NEW d \in D, NEW e \in D, HandleAccepted(d, e)
       PROVE  PairInv'
  <2>1. Fine(Took(e, d), linked, met)
    BY <1>10, TookFine DEF HandleAccepted, Arrived
  <2>2. QED
    BY <1>10, <2>1 DEF HandleAccepted, codeVars, CodeInv, OutInv
<1>11. QED
  BY <1>2, <1>3, <1>4, <1>5, <1>6, <1>7, <1>8, <1>9, <1>10
     DEF PairNext, PairProgress, AddDiscovered, AcceptRequest

------------------------------------------------------------------------------
(* Sessions begin and end, devices restart.                                 *)

(* What d sends first on a new session.                                     *)
LEMMA GreetingBears ==
    ASSUME OutInv, NEW d \in D, NEW e
    PROVE  Bears(Greeting(d, e), d, linked, met)
<1> DEFINE Good(s) == Bears(s, d, linked, met)
<1>1. Good(PairGreeting(d, e))
  <2>1. out[d] # 0 => Harmless(d, [op |-> "pair", token |-> out[d]], linked, met)
    BY DEF OutInv, Harmless
  <2>2. QED
    BY <2>1, EmptyBears, OneBears DEF PairGreeting
<1>2. Good(GroupGreeting(d, e))
  <2> DEFINE leave == IF d \in queued /\ e = "o" THEN <<[op |-> "leave"]>> ELSE <<>>
             list == IF d = "o" /\ group[d].known /\ GetsList(e)
                     THEN <<Update(group[d])>> ELSE <<>>
             n == Cardinality(Unconfirmed(d, e))
             texts == [i \in 1..n |-> [op |-> "text", t |-> Oldest(Unconfirmed(d, e))[i]]]
             Kept == {[op |-> "text", t |-> Oldest(Unconfirmed(d, e))[i]] : i \in 1..n}
  <2>1. Good(leave)
    BY EmptyBears, OneBears DEF Harmless
  <2>2. Good(list)
    BY EmptyBears, OneBears DEF Harmless, Update
  <2>3. n \in Nat
    <3>1. IsFiniteSet(T)
      BY GroupAssumption, FS_Interval DEF T
    <3>2. IsFiniteSet(Unconfirmed(d, e))
      BY <3>1, FS_Subset DEF Unconfirmed
    <3>3. QED
      BY <3>2, FS_CardinalityType
  <2>4. texts \in Seq(Kept)
    <3> HIDE DEF n
    <3>1. QED
      BY <2>3, IsASeq
  <2>5. \A x \in Kept : Harmless(d, x, linked, met)
    BY DEF Harmless
  <2>6. Good(texts)
    BY <2>4, <2>5, OfBears
  <2>7. QED
    BY <2>1, <2>2, <2>6, ConcatBears DEF GroupGreeting
<1>3. Good(AcceptGreeting(d, e))
  BY EmptyBears, OneBears DEF AcceptGreeting, Harmless
<1>4. QED
  BY <1>1, <1>2, <1>3, ConcatBears DEF Greeting

LEMMA OtherPairSteps ==
    ASSUME PairInv
    PROVE  /\ \A d, e \in D : LinkUp(d, e) => PairInv'
           /\ \A p : Cut(p) => PairInv'
           /\ \A d : Restart(d) => PairInv'
<1> USE DEF PairInv
<1>1. ASSUME NEW d \in D, NEW e \in D, LinkUp(d, e)
      PROVE  PairInv'
  <2>1. CodeInv' /\ linked' = linked /\ met' = met /\ verified' = verified
    BY <1>1 DEF LinkUp, PairGreeted, codeVars, CodeInv
  <2>2. OutInv'
    BY <1>1, <2>1 DEF LinkUp, PairGreeted, OutInv
  <2>3. /\ DOMAIN mail' = D \X D /\ mail' = [p \in D \X D |-> mail'[p]]
        /\ \A f \in D : mail'[<<f, "o">>] \in {mail[<<f, "o">>], Greeting(f, "o")}
    BY <1>1 DEF LinkUp, Fine, D
  <2>4. Fine(mail', linked, met)
    BY <2>3, GreetingBears DEF Fine
  <2>5. QED
    BY <2>1, <2>2, <2>4
<1>2. ASSUME NEW p, Cut(p)
      PROVE  PairInv'
  <2>1. CodeInv' /\ OutInv' /\ linked' = linked /\ met' = met /\ verified' = verified
    BY <1>2 DEF Cut, pairVars, codeVars, CodeInv, OutInv
  <2>2. Fine(mail', linked, met)
    BY <1>2, DropFine DEF Cut, Drop
  <2>3. QED
    BY <2>1, <2>2
<1>3. ASSUME NEW d, Restart(d)
      PROVE  PairInv'
  <2>1. CodeInv' /\ OutInv' /\ linked' = linked /\ met' = met /\ verified' = verified
    BY <1>3 DEF Restart, PairRestart, codeVars, CodeInv, OutInv
  <2>2. Fine(mail', linked, met)
    BY <1>3, DropFine DEF Restart, Drop
  <2>3. QED
    BY <2>1, <2>2
<1>4. QED
  BY <1>1, <1>2, <1>3

(* Whom a device shows as verified was met: a code that was handed on as a  *)
(* link verifies nobody, however late it comes back.                        *)
THEOREM VerifiedOnlyInPerson == Spec => []VerifiedWereMet
<1>1. Init => PairInv
  <2> SUFFICES ASSUME Init PROVE PairInv
    OBVIOUS
  <2>1. CodeInv /\ OutInv /\ verified \subseteq met
    BY DEF Init, InitPairing, CodeInv, OutInv
  <2>2. mail = [p \in D \X D |-> <<>>]
    BY DEF Init, InitContacts
  <2>3. Fine(mail, linked, met)
    BY <2>2, EmptyBears DEF Fine, D
  <2>4. QED
    BY <2>1, <2>3 DEF PairInv
<1>2. PairInv /\ [Next]_vars => PairInv'
  <2> SUFFICES ASSUME PairInv, [Next]_vars PROVE PairInv'
    OBVIOUS
  <2>1. ASSUME UNCHANGED pairVars, Fine(mail', linked, met)
        PROVE  PairInv'
    BY <2>1 DEF pairVars, codeVars, PairInv, CodeInv, OutInv
  <2>2. CASE UNCHANGED vars
    BY <2>1, <2>2 DEF vars, contactVars, PairInv
  <2>3. CASE GroupNext /\ UNCHANGED pairVars
    BY <2>1, <2>3, GroupSteps DEF pairVars, codeVars, PairInv
  <2>4. CASE ShareNext /\ UNCHANGED pairVars
    BY <2>1, <2>4, ShareMail DEF PairInv
  <2>5. CASE PairNext
    BY <2>5, PairSteps
  <2>6. CASE Progress
    <3>1. GroupProgress => GroupNext
      BY DEF GroupProgress, GroupNext
    <3>2. PairProgress => PairNext
      BY DEF PairNext
    <3>3. ShareProgress => ShareNext
      BY DEF ShareNext
    <3>4. QED
      BY <2>3, <2>4, <2>5, <2>6, <3>1, <3>2, <3>3, OtherPairSteps DEF Progress
  <2>7. CASE (\E p \in links : Cut(p)) \/ \E d \in D : Restart(d)
    BY <2>7, OtherPairSteps
  <2>8. QED
    BY <2>2, <2>3, <2>4, <2>5, <2>6, <2>7 DEF Next
<1>3. PairInv => VerifiedWereMet
  BY DEF PairInv, VerifiedWereMet
<1>4. QED
  BY <1>1, <1>2, <1>3, PTL DEF Spec
==============================================================================
