------------------------------- MODULE SharePeer -------------------------------
(***************************************************************************)
(* Folders shared with contacts (core/messaging/share_peer.py).  o makes   *)
(* one grant per contact, offers it over the session and serves downloads  *)
(* up to a limit.  A folder is zipped in a thread while the handler of the *)
(* request waits, and with it the session.                                 *)
(*                                                                         *)
(* Left out: which files, passwords (a request with a wrong one is refused *)
(* like one that is not for this grant), and the size of the lists.        *)
(***************************************************************************)
EXTENDS Contacts, SequencesExt

CONSTANTS Grants, Limit, Fetches       \* grants made, downloads of each, requests

ASSUME ShareAssumption == {Grants, Limit, Fetches} \subseteq Nat

VARIABLES
    grants,    \* those o has made (_share_grants): id -> see NoGrant
    stored,    \* what shares.json of o says
    remote,    \* grants each device was offered (_remote_share_grants)
    offering,  \* per device, the rest of the offers being sent one by one
    zipping,   \* downloads being prepared: [g, n, on: their session is up still]
    served,    \* files sent for each grant
    fetches

shareVars == <<grants, stored, remote, offering, zipping, served, fetches>>

G == 1..Grants
NoGrant == [to |-> "o", live |-> FALSE, sent |-> FALSE, count |-> 0]

InitShare ==
    /\ grants = [g \in G |-> NoGrant] /\ stored = grants
    /\ remote = [d \in D |-> {}]
    /\ offering = [d \in D |-> <<>>]
    /\ zipping = {}
    /\ served = [g \in G |-> 0] /\ fetches = 0

(* The offers that are sent when d's session is up (send_pending_share_offers). *)
Pending(gs, d) == SetToSortSeq({g \in G : gs[g].to = d /\ gs[g].live /\ ~gs[g].sent}, <)

------------------------------------------------------------------------------
(* The owner                                                               *)

OfferShare(g, d) ==
    /\ d \in trusted["o"]
    /\ grants[g].to = "o" /\ \A h \in G : h < g => grants[h].to # "o"
    /\ LET gs == [grants EXCEPT ![g] = [NoGrant EXCEPT !.to = d, !.live = TRUE]]
       IN  /\ grants' = gs /\ stored' = gs
           /\ offering' = IF d \in Linked("o") THEN [offering EXCEPT ![d] = @ \o Pending(gs, d)]
                          ELSE offering
    /\ UNCHANGED <<remote, zipping, served, fetches, contactVars>>

(* The next of the offers, stopped or not since the list was made.          *)
SendOffer(d) ==
    /\ offering[d] # <<>>
    /\ LET g == Head(offering[d])
           rest == Tail(offering[d])
       IN  IF d \in Linked("o")
           THEN /\ offering' = [offering EXCEPT ![d] = rest]
                /\ grants' = [grants EXCEPT ![g].sent = TRUE]
                /\ mail' = IF grants[g].sent THEN mail
                           ELSE Push(mail, "o", {d}, [op |-> "offer", g |-> g])
                /\ stored' = IF rest = <<>> THEN grants' ELSE stored
           ELSE /\ offering' = [offering EXCEPT ![d] = <<>>]
                /\ UNCHANGED <<grants, stored, mail>>
    /\ UNCHANGED <<remote, zipping, served, fetches, trusted, links, faults>>

StopSharing(g) ==
    /\ grants[g].live
    /\ grants' = [grants EXCEPT ![g].live = FALSE]
    /\ stored' = grants'
    /\ mail' = Push(mail, "o", {grants[g].to}, [op |-> "revoke", g |-> g])
    /\ UNCHANGED <<remote, offering, zipping, served, fetches, trusted, links, faults>>

------------------------------------------------------------------------------
(* The contact                                                             *)

HandleOffer(d) ==
    /\ Arrived("o", d, "offer")
    /\ remote' = [remote EXCEPT ![d] = @ \cup {Head(mail[<<"o", d>>]).g}]
    /\ mail' = Took("o", d)
    /\ UNCHANGED <<grants, stored, offering, zipping, served, fetches, trusted, links, faults>>

HandleRevoke(d) ==
    /\ Arrived("o", d, "revoke")
    /\ remote' = [remote EXCEPT ![d] = @ \ {Head(mail[<<"o", d>>]).g}]
    /\ mail' = Took("o", d)
    /\ UNCHANGED <<grants, stored, offering, zipping, served, fetches, trusted, links, faults>>

RequestFile(d, g, folder) ==
    /\ g \in remote[d] /\ d \in Linked("o")
    /\ fetches < Fetches /\ fetches' = fetches + 1
    /\ mail' = Push(mail, d, {"o"}, [op |-> "fetch", g |-> g, n |-> fetches, folder |-> folder])
    /\ UNCHANGED <<grants, stored, remote, offering, zipping, served, trusted, links, faults>>

------------------------------------------------------------------------------
(* Downloads                                                               *)

ValidFor(g, d) == grants[g].to = d /\ grants[g].live /\ grants[g].count < Limit

(* Mutated: the limit is checked before the folder is zipped, not after.    *)
RecordedUnchecked(g) == TRUE

(* record_download                                                          *)
Recorded(g) == grants[g].count < Limit

(* The download is counted, then offered; if that fails it does not count,  *)
(* until the next start.                                                    *)
Serve(g) ==
    IF Recorded(g)
    THEN LET gs == [grants EXCEPT ![g].count = @ + 1]
             sent == grants[g].to \in Linked("o")
         IN  /\ stored' = gs
             /\ grants' = IF sent THEN gs ELSE grants
             /\ served' = IF sent THEN [served EXCEPT ![g] = @ + 1] ELSE served
    ELSE stored' = grants /\ UNCHANGED <<grants, served>>

(* While it zips, the session it came on waits.                             *)
Waits(d) == \E z \in zipping : z.on /\ grants[z.g].to = d

HandleFetch(d) ==
    /\ Arrived(d, "o", "fetch") /\ ~Waits(d)
    /\ LET r == Head(mail[<<d, "o">>])
       IN  \/ ~ValidFor(r.g, d) /\ UNCHANGED <<grants, stored, served, zipping>>
           \/ /\ ValidFor(r.g, d) /\ r.folder
              /\ zipping' = zipping \cup {[g |-> r.g, n |-> r.n, on |-> TRUE]}
              /\ UNCHANGED <<grants, stored, served>>
           \/ ValidFor(r.g, d) /\ ~r.folder /\ Serve(r.g) /\ UNCHANGED zipping
    /\ mail' = Took(d, "o")
    /\ UNCHANGED <<remote, offering, fetches, trusted, links, faults>>

Zipped(z) ==
    /\ Serve(z.g)
    /\ zipping' = zipping \ {z}
    /\ UNCHANGED <<remote, offering, fetches, contactVars>>

------------------------------------------------------------------------------
ShareGreeted(ds) ==
    /\ offering' = [d \in D |-> IF "o" \in ds /\ d \in ds THEN offering[d] \o Pending(grants, d)
                                ELSE offering[d]]
    /\ UNCHANGED <<grants, stored, remote, zipping, served, fetches>>

(* The sessions of the pairs ps ended: their handlers go on without.        *)
ShareCut(ps) ==
    /\ zipping' = {[z EXCEPT !.on = @ /\ {"o", grants[z.g].to} \notin ps] : z \in zipping}
    /\ UNCHANGED <<grants, stored, remote, offering, served, fetches>>

ShareRestart(d) ==
    IF d = "o"
    THEN /\ grants' = stored
         /\ offering' = [e \in D |-> <<>>] /\ zipping' = {}
         /\ UNCHANGED <<stored, remote, served, fetches>>
    ELSE ShareCut({{d, "o"}})

ShareProgress ==
    \/ \E d \in D : SendOffer(d) \/ HandleOffer(d) \/ HandleRevoke(d) \/ HandleFetch(d)
    \/ \E z \in zipping : Zipped(z)

ShareNext ==
    \/ \E g \in G : StopSharing(g) \/ \E d \in D \ {"o"} : OfferShare(g, d)
    \/ \E d \in D, g \in G, folder \in BOOLEAN : RequestFile(d, g, folder)
    \/ ShareProgress

------------------------------------------------------------------------------
ShareTypeOK ==
    /\ \A g \in G : grants[g].to \in D /\ (grants[g].live => grants[g].to # "o")
    /\ \A d \in D : \A g \in remote[d] : grants[g].to = d
    /\ \A z \in zipping : z.g \in G

(* No grant serves more downloads than its limit, however many are being    *)
(* prepared at once, whatever sessions end and whoever restarts.            *)
LimitKept == \A g \in G : served[g] <= Limit

(* Nothing is served for a grant that was stopped.                          *)
StopEndsAccess == [][\A g \in G : served'[g] > served[g] => grants[g].live]_shareVars
==============================================================================
