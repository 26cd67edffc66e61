------------------------------ MODULE FolderSync ------------------------------
(***************************************************************************)
(* Folder sync (core/messaging/sync.py): one file of a folder kept the     *)
(* same on two devices.  Each keeps an index entry with a version vector,  *)
(* sends it to the other, and fetches what is newer by a file transfer.    *)
(*                                                                         *)
(* A content is the number of the user's edit that made it; it stands for  *)
(* the hash and for size and time, by which a scan knows the file again.   *)
(* A page of the index is one entry, and a transfer one step, that ends    *)
(* some time later.                                                        *)
(***************************************************************************)
EXTENDS Naturals, Sequences, FiniteSetsExt

CONSTANTS Edits, Faults, MaxFaults     \* changes by the users, what goes wrong

D == {"a", "b"}                        \* a invites b
Other(d) == IF d = "a" THEN "b" ELSE "a"

ASSUME SyncAssumption == Edits \in Nat /\ MaxFaults \in Nat

VARIABLES
    dev,      \* each device: see InitDev
    round,    \* its rounds, which run side by side: see Kinds
    mail,     \* sync messages on their way to it
    coming,   \* contents being transferred to it
    placing,  \* what has come and waits for _sync_lock to be put in place
    linked,   \* the devices have a session
    alive,    \* contents no user has replaced or deleted
    touched,  \* devices whose user changed the file, which no scan has seen yet
    edits, faults

syncVars == <<dev, round, mail, coming, placing, linked, alive, touched, edits, faults>>

Zero == [d \in D |-> 0]
Missing == [sha |-> 0, vv |-> Zero, del |-> FALSE]
NoState == "none"

(* The loop's rounds, the user's full ones (resume, accept), and the full   *)
(* ones of a link-up or an accept received, which run in the reading loop   *)
(* of the link: no message is handled until they end.                       *)
Kinds == {"loop", "user", "link"}
NoRound == [k \in Kinds |-> "idle"]

InitDev(d) ==
    [state |-> IF d = "a" THEN "invited" ELSE NoState,
     unsent |-> d = "a",                        \* invite_unsent
     disk |-> 0,                                \* the file's content; 0: no file
     kept |-> {}, trash |-> {},                 \* conflict copies, deleted files
     entry |-> Missing,                         \* _sync_index
     dirty |-> FALSE,                           \* _sync_dirty
     queue |-> Missing, wanted |-> 0,           \* _sync_queue, _sync_wanted
     incoming |-> Missing]                      \* _sync_incoming

Init ==
    /\ dev = [d \in D |-> InitDev(d)]
    /\ round = [d \in D |-> NoRound]
    /\ mail = [d \in D |-> <<>>] /\ coming = [d \in D |-> {}] /\ placing = [d \in D |-> <<>>]
    /\ linked = FALSE
    /\ alive = {} /\ touched = {} /\ edits = 0
    /\ faults = 0

Fault(f) == f \in Faults /\ faults < MaxFaults /\ faults' = faults + 1

Set(d, r) == dev' = [dev EXCEPT ![d] = r]

(* _send_control: nothing is sent without a session.                        *)
Sent(m, d, msg) == IF linked THEN [m EXCEPT ![Other(d)] = Append(@, msg)] ELSE m
Msg(op) == [op |-> op]

------------------------------------------------------------------------------
(* Versions (_vv_cmp, _vv_merge).                                           *)

Newer(v, w) == \E d \in D : v[d] > w[d]
Merged(v, w) == [d \in D |-> Max({v[d], w[d]})]
Bump(v, d) == [v EXCEPT ![d] = @ + 1]
Changes(v) == v["a"] + v["b"]

(* Of two edits at once: more changes win, then the higher hash.            *)
Outranks(e, f) == Changes(e.vv) > Changes(f.vv) \/ (Changes(e.vv) = Changes(f.vv) /\ e.sha >= f.sha)

------------------------------------------------------------------------------
(* The users.                                                               *)

Edit(d) ==
    /\ edits < Edits /\ edits' = edits + 1
    /\ Set(d, [dev[d] EXCEPT !.disk = edits + 1])
    /\ alive' = (alive \ {dev[d].disk}) \cup {edits + 1}
    /\ touched' = touched \cup {d}
    /\ UNCHANGED <<round, mail, coming, placing, linked, faults>>

Delete(d) ==
    /\ edits < Edits /\ edits' = edits + 1
    /\ dev[d].disk # 0
    /\ Set(d, [dev[d] EXCEPT !.disk = 0])
    /\ alive' = alive \ {dev[d].disk}
    /\ touched' = touched \cup {d}
    /\ UNCHANGED <<round, mail, coming, placing, linked, faults>>

(* set_sync_paused; going on starts a full round.                           *)
Pause(d) ==
    /\ dev[d].state = "active" /\ Fault("pause")
    /\ Set(d, [dev[d] EXCEPT !.state = "paused"])
    /\ UNCHANGED <<round, mail, coming, placing, linked, alive, touched, edits>>

Resume(d) ==
    /\ dev[d].state = "paused"
    /\ Set(d, [dev[d] EXCEPT !.state = "active"])
    /\ round[d].user = "idle" /\ round' = [round EXCEPT ![d].user = "due"]
    /\ UNCHANGED <<mail, coming, placing, linked, alive, touched, edits, faults>>

------------------------------------------------------------------------------
(* Setting it up and ending it (create_sync, decline_sync, remove_sync).    *)

Invite(d) ==
    /\ dev[d].state = "invited" /\ dev[d].unsent /\ linked
    /\ Set(d, [dev[d] EXCEPT !.unsent = FALSE])
    /\ mail' = Sent(mail, d, Msg("invite"))
    /\ UNCHANGED <<round, coming, placing, linked, alive, touched, edits, faults>>

(* Declined or removed: the other side is told, if it can be; files stay.   *)
Leave(d) ==
    /\ dev[d].state \notin {NoState, "stopped"} /\ Fault("leave")
    /\ Set(d, [dev[d] EXCEPT !.state = NoState, !.entry = Missing, !.dirty = FALSE,
                             !.queue = Missing, !.wanted = 0])
    /\ mail' = Sent(mail, d, Msg("stop"))
    /\ UNCHANGED <<round, coming, placing, linked, alive, touched, edits>>

------------------------------------------------------------------------------
(* Scanning (_scan_blocking).                                               *)

Receiving(r) == r.wanted # 0 \/ r.queue # Missing

Known(r) == r.entry # Missing /\ ~r.entry.del

(* What is on its way in is not a change.                                   *)
Overlooks(r) ==
    /\ Receiving(r)
    /\ \/ r.disk = 0 /\ Known(r)
       \/ r.disk # 0 /\ r.entry = Missing

Seen(d) == IF dev[d].state = NoState \/ Overlooks(dev[d]) THEN touched ELSE touched \ {d}

ScannedSelf(r, d) ==
    IF r.disk # 0 /\ ~(Known(r) /\ r.entry.sha = r.disk)
    THEN [r EXCEPT !.entry = [sha |-> r.disk, vv |-> Bump(r.entry.vv, d), del |-> FALSE],
                   !.dirty = TRUE]
    ELSE r

(* Without regard to what is on its way in.                                 *)
ScannedBlind(r, d) ==
    IF r.disk = 0 /\ Known(r)
    THEN [r EXCEPT !.entry = [sha |-> 0, vv |-> Bump(r.entry.vv, d), del |-> TRUE],
                   !.dirty = TRUE]
    ELSE ScannedSelf(r, d)

Scanned(r, d) == IF Overlooks(r) THEN r ELSE ScannedBlind(r, d)

(* The folder is scanned before the answer and the index go out.            *)
Accept(d) ==
    /\ dev[d].state = "offered"
    /\ Set(d, [Scanned(dev[d], d) EXCEPT !.state = "active"])
    /\ round' = [round EXCEPT ![d].user = "accepted"]
    /\ touched' = Seen(d)
    /\ UNCHANGED <<mail, coming, placing, linked, alive, edits, faults>>

Answer(d) ==
    /\ round[d].user = "accepted"
    /\ LET r == dev[d]
           told == Sent(mail, d, Msg("accept"))
       IN  /\ mail' = IF r.entry = Missing THEN told
                      ELSE Sent(told, d, [op |-> "index", entry |-> r.entry])
           /\ Set(d, [r EXCEPT !.dirty = @ /\ ~linked])
    /\ round' = [round EXCEPT ![d].user = "idle"]
    /\ UNCHANGED <<coming, placing, linked, alive, touched, edits, faults>>

(* _sync_lock is had in the order it is asked for.  Before a file that has  *)
(* come can be put in place, those have it who may have asked before: rounds*)
(* that were due, the loop, if it was scanning, the index being handled.    *)
InLine(d) ==
    {k \in Kinds : round[d][k] = "due" \/ (k = "loop" /\ round[d][k] = "idle")}
      \cup {m \in {"mail"} : mail[d] # <<>> /\ round[d].link = "idle" /\ Head(mail[d]).op = "index"}

MayLock(d, who) == placing[d] # <<>> => who \in Head(placing[d]).ahead

Passed(q, who) == [i \in DOMAIN q |-> [q[i] EXCEPT !.ahead = @ \ {who}]]
HadLock(d, who) == [placing EXCEPT ![d] = Passed(@, who)]

HasWork(d) ==
    \/ Scanned(dev[d], d) # dev[d]
    \/ dev[d].state = "active" /\ linked
       /\ (dev[d].dirty \/ (dev[d].queue # Missing /\ dev[d].wanted = 0))

(* Rounds of a device run side by side: of the loop, and of a link-up.  The *)
(* scan runs in a thread: the steps after it are another turn of the loop.  *)
(* Bound: rounds of the loop that would find nothing are left out.          *)
MayScan(d, k) ==
    /\ \/ round[d][k] = "due"
       \/ k = "loop" /\ round[d].loop = "idle" /\ HasWork(d) /\ dev[d].state \in {"active", "invited"}
    /\ MayLock(d, k)

Scan(d, k) ==
    /\ MayScan(d, k)
    /\ Set(d, IF dev[d].state = NoState THEN dev[d] ELSE Scanned(dev[d], d))
    /\ round' = [round EXCEPT ![d][k] = "scanned"]
    /\ placing' = HadLock(d, k)
    /\ touched' = Seen(d)
    /\ UNCHANGED <<mail, coming, linked, alive, edits, faults>>

(* Mutated: a link-up announces changes only.                               *)
AnnouncesDirty(r, k) == r.state = "active" /\ linked /\ r.entry # Missing /\ r.dirty

Announces(r, k) ==
    /\ r.state = "active" /\ linked
    /\ r.entry # Missing /\ (k # "loop" \/ r.dirty)

(* _send_index.  What becomes dirty before the sending has ended is         *)
(* forgotten with the rest.                                                 *)
SendIndex(d, k) ==
    /\ round[d][k] = "scanned"
    /\ LET r == dev[d]
       IN  /\ mail' = IF Announces(r, k) THEN Sent(mail, d, [op |-> "index", entry |-> r.entry]) ELSE mail
           /\ round' = [round EXCEPT ![d][k] = IF r.state = "active" /\ linked THEN "sent" ELSE "idle"]
    /\ UNCHANGED <<dev, coming, placing, linked, alive, touched, edits, faults>>

(* _request_files: one version of a file is asked for at a time.  Late: the *)
(* answer took longer than GET_TIMEOUT.                                     *)
Requested(r, late) ==
    LET w == IF late THEN 0 ELSE r.wanted
    IN  IF r.state = "active" /\ linked /\ w = 0 /\ r.queue # Missing
        THEN [r EXCEPT !.queue = Missing, !.wanted = r.queue.sha, !.incoming = r.queue]
        ELSE [r EXCEPT !.wanted = w]

Asks(m, d, old, new) ==
    IF old.queue # Missing /\ new.queue = Missing
    THEN Sent(m, d, [op |-> "get", sha |-> new.wanted]) ELSE m

EndRound(d, k) ==
    /\ round[d][k] = "sent"
    /\ \E late \in {FALSE, dev[d].wanted # 0} :
          LET new == Requested([dev[d] EXCEPT !.dirty = FALSE], late)
          IN  /\ IF late THEN Fault("late") ELSE UNCHANGED faults
              /\ Set(d, new)
              /\ mail' = Asks(mail, d, dev[d], new)
    /\ round' = [round EXCEPT ![d][k] = "idle"]
    /\ UNCHANGED <<coming, placing, linked, alive, touched, edits>>

(* The thread of a scan reads the two lists one after the other.  What the  *)
(* round j asks for in between goes from one to the other, and is in none.  *)
Torn(d, k, j) ==
    /\ MayScan(d, k) /\ round[d][j] = "sent" /\ j # k
    /\ dev[d].queue # Missing /\ dev[d].wanted = 0
    /\ LET asked == Requested([dev[d] EXCEPT !.dirty = FALSE], FALSE)
       IN  /\ asked.wanted # 0
           /\ Set(d, ScannedBlind(asked, d))
           /\ mail' = Asks(mail, d, dev[d], asked)
    /\ round' = [round EXCEPT ![d][k] = "scanned", ![d][j] = "idle"]
    /\ placing' = HadLock(d, k)
    /\ touched' = touched \ {d}
    /\ UNCHANGED <<coming, linked, alive, edits, faults>>

------------------------------------------------------------------------------
(* Merging their index (_merge_locked, _resolve_conflict).                  *)

SameContent(e, f) == ~e.del /\ ~f.del /\ e.sha = f.sha

KeepOurs(r, d, theirs) ==
    [r EXCEPT !.entry.vv = Bump(Merged(@, theirs.vv), d), !.dirty = TRUE]

ToTrash(r, theirs) ==
    [r EXCEPT !.trash = (@ \cup {r.disk}) \ {0}, !.disk = 0, !.entry = theirs]

TakeTheirs(r, theirs) ==
    IF theirs.del THEN ToTrash(r, theirs) ELSE [r EXCEPT !.queue = theirs]

(* _conflict_copy: our version is moved aside.                              *)
Aside(r) == [r EXCEPT !.kept = (@ \cup {r.disk}) \ {0}, !.disk = 0]

Resolved(r, d, theirs) ==
    IF SameContent(r.entry, theirs) THEN [r EXCEPT !.entry.vv = Merged(@, theirs.vv)]
    ELSE IF theirs.del THEN KeepOurs(r, d, theirs)
    ELSE IF r.entry.del THEN TakeTheirs(r, theirs)
    ELSE IF Outranks(r.entry, theirs) THEN KeepOurs(r, d, theirs)
    ELSE TakeTheirs(Aside(r), theirs)

MergeIndex(r, d, theirs) ==
    IF ~Newer(theirs.vv, r.entry.vv) THEN r
    ELSE IF Newer(r.entry.vv, theirs.vv) THEN Resolved(r, d, theirs)
    ELSE IF SameContent(r.entry, theirs) THEN [r EXCEPT !.entry.vv = theirs.vv]
    ELSE TakeTheirs(r, theirs)

(* _serve_get: only the version that is there and in our index.             *)
Serves(r, sha) == ~r.entry.del /\ r.entry.sha = sha /\ r.disk = sha

(* sync_offer_target: only what was asked for.                              *)
Offered(d, sha) == IF dev[d].wanted = sha THEN coming[d] \cup {sha} ELSE coming[d]

------------------------------------------------------------------------------
(* Messages (_handle_sync).                                                 *)

OnMsg(d, msg) ==
    LET r == dev[d]
    IN  \/ /\ msg.op = "invite"
           /\ Set(d, IF r.state = NoState THEN [r EXCEPT !.state = "offered"] ELSE r)
           /\ LET rest == [mail EXCEPT ![d] = Tail(@)]
              IN  mail' = IF r.state = "active" THEN Sent(rest, d, Msg("accept")) ELSE rest
           /\ UNCHANGED <<round, coming, placing>>
        \/ /\ msg.op \in {"index", "get", "accept"} /\ r.state = NoState
           /\ mail' = Sent([mail EXCEPT ![d] = Tail(@)], d, Msg("stop"))
           /\ UNCHANGED <<dev, round, coming, placing>>
        \/ /\ msg.op = "accept" /\ r.state # NoState
           /\ mail' = [mail EXCEPT ![d] = Tail(@)]
           /\ IF r.state = "invited"
              THEN /\ Set(d, [r EXCEPT !.state = "active"])
                   /\ round' = [round EXCEPT ![d].link = "due"]
              ELSE UNCHANGED <<dev, round>>
           /\ UNCHANGED <<coming, placing>>
        \/ /\ msg.op = "stop"
           /\ mail' = [mail EXCEPT ![d] = Tail(@)]
           /\ Set(d, IF r.state = NoState THEN r ELSE [r EXCEPT !.state = "stopped"])
           /\ UNCHANGED <<round, coming, placing>>
        \/ /\ msg.op = "index" /\ r.state # NoState
           /\ r.state = "active" => MayLock(d, "mail")
           /\ placing' = IF r.state = "active" THEN HadLock(d, "mail") ELSE placing
           /\ LET merged == IF r.state = "active" THEN MergeIndex(r, d, msg.entry) ELSE r
                  new == Requested(merged, FALSE)
              IN  /\ Set(d, new)
                  /\ mail' = Asks([mail EXCEPT ![d] = Tail(@)], d, merged, new)
           /\ UNCHANGED <<round, coming>>
        \/ /\ msg.op = "get" /\ r.state # NoState
           /\ mail' = [mail EXCEPT ![d] = Tail(@)]
           /\ coming' = IF r.state = "active" /\ Serves(r, msg.sha)
                        THEN [coming EXCEPT ![Other(d)] = Offered(Other(d), msg.sha)]
                        ELSE coming
           /\ UNCHANGED <<dev, round, placing>>

HandleSync(d) ==
    /\ mail[d] # <<>> /\ round[d].link = "idle"
    /\ OnMsg(d, Head(mail[d]))
    /\ UNCHANGED <<linked, alive, touched, edits, faults>>

------------------------------------------------------------------------------
(* A transfer has ended (sync_transfer_done, _place_file).                  *)

(* With nothing of ours to keep.                                            *)
PlaceOver(r, e) == [r EXCEPT !.disk = e.sha, !.entry = e]

(* What is in place is kept if it is not what the index says; what was      *)
(* scanned during the download is.                                          *)
Place(r, e) ==
    IF r.disk # 0 /\ Known(r) /\ r.disk # r.entry.sha
    THEN PlaceOver(Aside(r), e) ELSE PlaceOver(r, e)

(* Taken off the lists first: until it is in place, it is in none.  If the  *)
(* transfer failed, it is asked for again.                                  *)
Done(d, sha, ok) ==
    /\ sha \in coming[d]
    /\ IF ok THEN UNCHANGED faults ELSE Fault("fail")
    /\ coming' = [coming EXCEPT ![d] = @ \ {sha}]
    /\ LET r == [dev[d] EXCEPT !.incoming = Missing, !.wanted = 0]
           e == dev[d].incoming
           theirs == e # Missing /\ r.state # NoState
       IN  /\ Set(d, IF theirs /\ ~ok THEN [r EXCEPT !.queue = e] ELSE r)
           /\ placing' = IF theirs /\ ok /\ e.sha = sha
                         THEN [placing EXCEPT ![d] = Append(@, [entry |-> e, ahead |-> InLine(d)])]
                         ELSE placing
    /\ UNCHANGED <<round, mail, linked, alive, touched, edits>>

(* It has the lock.                                                         *)
Placed(d) ==
    /\ placing[d] # <<>>
    /\ placing' = [placing EXCEPT ![d] = Tail(@)]
    /\ LET r == Place(dev[d], Head(placing[d]).entry)
           new == Requested(r, FALSE)
       IN  /\ Set(d, new)
           /\ mail' = Asks(mail, d, r, new)
    /\ touched' = touched \ {d}
    /\ UNCHANGED <<round, coming, linked, alive, edits, faults>>

------------------------------------------------------------------------------
(* Sessions and restarts.  sync_link_up asks anew and sends everything.     *)

Connected(d) ==
    IF dev[d].state = "active" THEN [dev[d] EXCEPT !.wanted = 0] ELSE dev[d]

LinkUp ==
    /\ ~linked /\ linked' = TRUE
    /\ \A d \in D : round[d].link = "idle"
    /\ dev' = [d \in D |-> Connected(d)]
    /\ round' = [d \in D |-> IF dev[d].state = "active"
                              THEN [round[d] EXCEPT !.link = "due"] ELSE round[d]]
    /\ UNCHANGED <<mail, coming, placing, alive, touched, edits, faults>>

Cut ==
    /\ linked /\ linked' = FALSE
    /\ Fault("cut")
    /\ mail' = [d \in D |-> <<>>]
    /\ UNCHANGED <<dev, round, coming, placing, alive, touched, edits>>

(* What is not stored is gone; the disk is as it was.                       *)
Restart(d) ==
    /\ Fault("restart")
    /\ linked' = FALSE /\ mail' = [e \in D |-> <<>>]
    /\ coming' = [coming EXCEPT ![d] = {}] /\ placing' = [placing EXCEPT ![d] = <<>>]
    /\ round' = [round EXCEPT ![d] = NoRound]
    /\ Set(d, [dev[d] EXCEPT !.dirty = FALSE, !.queue = Missing, !.wanted = 0,
                             !.incoming = Missing])
    /\ UNCHANGED <<alive, touched, edits>>

Quiet ==
    \A d \in D :
        mail[d] = <<>> /\ coming[d] = {} /\ placing[d] = <<>> /\ round[d] = NoRound /\ ~HasWork(d)

Active == \A d \in D : dev[d].state = "active"

Same ==
    /\ dev["a"].disk = dev["b"].disk
    /\ \A d \in D : dev[d].entry.sha = dev[d].disk /\ ~Receiving(dev[d])

(* Sooner or later the session ends and another follows.                    *)
Reconnect ==
    /\ linked /\ Quiet /\ ~Same /\ Active
    /\ linked' = FALSE
    /\ UNCHANGED <<dev, round, mail, coming, placing, alive, touched, edits, faults>>

SyncNext ==
    \/ \E d \in D :
          \/ Edit(d) \/ Delete(d) \/ Pause(d) \/ Resume(d)
          \/ Invite(d) \/ Accept(d) \/ Answer(d) \/ Leave(d)
          \/ \E k \in Kinds : Scan(d, k) \/ SendIndex(d, k) \/ EndRound(d, k)
          \/ \E k, j \in Kinds : Torn(d, k, j)
          \/ HandleSync(d) \/ Placed(d) \/ Restart(d)
          \/ \E sha \in coming[d], ok \in BOOLEAN : Done(d, sha, ok)
    \/ LinkUp \/ Cut \/ Reconnect

Spec == Init /\ [][SyncNext]_syncVars

(* What needs neither a user nor a fault.                                   *)
SyncProgress ==
    \/ LinkUp \/ Reconnect
    \/ \E d \in D :
          \/ Resume(d) \/ Invite(d) \/ Answer(d) \/ HandleSync(d) \/ Placed(d)
          \/ \E sha \in coming[d] : Done(d, sha, TRUE)
          \/ \E k \in Kinds : Scan(d, k) \/ SendIndex(d, k) \/ EndRound(d, k)

FairSpec == Spec /\ WF_syncVars(SyncProgress)

------------------------------------------------------------------------------
(* What no user replaced or deleted is still in a folder, as the file or as *)
(* a conflict copy, or in the trash.                                        *)
NothingLost ==
    \A c \in alive : \E d \in D :
        c = dev[d].disk \/ c \in dev[d].kept \cup dev[d].trash

(* A scan finds only what the user did: what was received, moved aside or   *)
(* put in place is never taken for an edit.  It is taken for a deletion in  *)
(* one case: the file lost a conflict, so what it was is beside it as a     *)
(* copy, and the winner is in no list that the scan looks at (lines 390 and *)
(* 427).  That is so once the download is given up, by a link-up that asks  *)
(* anew (wanted is emptied, what was asked for is still there) or by a      *)
(* fault; while the winner waits for the lock; and if it changes lists      *)
(* between two looks (Torn).                                                *)
GivenUp(r) == r.incoming # Missing /\ r.wanted = 0
Unlisted(d) == faults > 0 \/ GivenUp(dev[d]) \/ placing[d] # <<>>

Phantom(d) == dev'[d].entry # dev[d].entry /\ d \notin touched
MovedAside(d) == dev'[d].entry.del /\ dev[d].entry.sha \in dev[d].kept

NoPhantomChanges ==
    [][\A d \in D, k \in Kinds :
          /\ Scan(d, k) /\ Phantom(d) => MovedAside(d) /\ Unlisted(d)
          /\ \A j \in Kinds : Torn(d, k, j) /\ Phantom(d) => MovedAside(d)]_syncVars

(* A file that a conflict moved aside is not a deletion, as line 389 says of*)
(* what the scan leaves out (false without any fault: see NoPhantomChanges).*)
AsideIsNoDelete ==
    [][\A d \in D, k \in Kinds :
          Scan(d, k) /\ dev'[d].entry # dev[d].entry /\ dev'[d].entry.del /\ dev[d].kept # {} =>
             d \in touched]_syncVars

(* Once the users stop, the next link-ups make both folders the same: those *)
(* of two devices that both sync, for an answer that is lost is not sent    *)
(* again, and the inviting one waits for it (AnswerArrives is false).       *)
FoldersMeet == <>[](Active => Same)
AnswerArrives == <>[](dev["b"].state = "active" => dev["a"].state # "invited")
==============================================================================
