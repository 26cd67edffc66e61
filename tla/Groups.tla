-------------------------------- MODULE Groups --------------------------------
(***************************************************************************)
(* Group chats (core/messaging/groups.py): the owner o keeps the list of   *)
(* members and passes messages on; all travels over the sessions between   *)
(* two devices.  Members who are no contacts of each other have none.      *)
(*                                                                         *)
(* Signatures are not modelled: every text comes from its author.          *)
(***************************************************************************)
EXTENDS Contacts, SequencesExt

CONSTANTS Texts, MaxChanges            \* texts sent, changes by the users

ASSUME GroupAssumption == Texts \in Nat /\ MaxChanges \in Nat

VARIABLES
    group,     \* each device's copy of the group: see NoGroup
    has,       \* texts each device holds
    pend,      \* whom it still owes each text (pending_to)
    queued,    \* members whose leave waits for a session, in memory
    storing,   \* broadcasts of the owner under way: whom each will note as owed
    author, changes,
    due        \* members a text is meant for who are members still

groupVars == <<group, has, pend, queued, storing, author, changes, due>>

T == 1..Texts
NoGroup == [known |-> FALSE, left |-> FALSE, members |-> {}, version |-> 0,
            owed |-> {}]                                     \* sync_to

InitGroups ==
    /\ group = [d \in D |-> NoGroup]
    /\ has = [d \in D |-> {}] /\ pend = [d \in D |-> [t \in T |-> {}]]
    /\ queued = {} /\ storing = {}
    /\ author = [t \in T |-> "none"] /\ changes = 0
    /\ due = [t \in T |-> {}]

Open(d) == group[d].known /\ ~group[d].left

Change == changes < MaxChanges /\ changes' = changes + 1

Update(g) == [op |-> "group", members |-> g.members, version |-> g.version, closed |-> g.left]

(* _broadcast_group: whom the list is owed is worked out before the sends   *)
(* and noted after them.                                                    *)
Broadcast(m, g, to) ==
    LET owed == (g.owed \cup to) \ {"o"}
    IN  /\ mail' = Push(m, "o", owed, Update(g))
        /\ storing' = storing \cup {owed \ Linked("o")}

(* _push_group_message: a text, to those of ds that can be reached.          *)
PushText(m, d, ds, t) == Push(m, d, ds, [op |-> "text", t |-> t])

(* _send_group_packet of a leave: without a session to the owner it waits.  *)
QueuedLeave(d) == IF {d, "o"} \in links THEN queued ELSE queued \cup {d}

Noted ==
    \E owed \in storing :
        /\ group' = [group EXCEPT !["o"].owed = owed, !["o"].known = TRUE]
        /\ storing' = storing \ {owed}
        /\ UNCHANGED <<has, pend, queued, author, changes, due, contactVars>>

(* Texts are no longer meant for those who go, nor are theirs for anyone.   *)
Without(gone) ==
    [t \in T |-> IF author[t] \in gone THEN {} ELSE due[t] \ gone]

------------------------------------------------------------------------------
(* The users (create_group, update_group, leave_group, delete_group).       *)

CreateGroup(members) ==
    /\ group["o"].version = 0
    /\ "o" \in members /\ members \ {"o"} \subseteq trusted["o"] /\ members # {"o"}
    /\ LET g == [NoGroup EXCEPT !.known = TRUE, !.members = members, !.version = 1]
       IN  /\ group' = [group EXCEPT !["o"] = g]
           /\ Broadcast(mail, g, members)
    /\ UNCHANGED <<has, pend, queued, author, changes, due, trusted, links, faults>>

UpdateGroup(members) ==
    /\ Open("o") /\ Change
    /\ "o" \in members /\ members \ group["o"].members \subseteq trusted["o"]
    /\ LET g == [group["o"] EXCEPT !.members = members, !.version = @ + 1]
       IN  /\ group' = [group EXCEPT !["o"] = g]
           /\ Broadcast(mail, g, group["o"].members \cup members)
    /\ due' = Without(group["o"].members \ members)
    /\ UNCHANGED <<has, pend, queued, author, trusted, links, faults>>

CloseGroup ==
    /\ Open("o") /\ Change
    /\ LET g == [group["o"] EXCEPT !.members = {"o"}, !.version = @ + 1, !.left = TRUE]
       IN  /\ group' = [group EXCEPT !["o"] = g]
           /\ Broadcast(mail, g, group["o"].members)
    /\ due' = Without(D)
    /\ UNCHANGED <<has, pend, queued, author, trusted, links, faults>>

LeaveGroup(d) ==
    /\ d # "o" /\ Open(d) /\ Change
    /\ group' = [group EXCEPT ![d].left = TRUE]
    /\ mail' = Push(mail, d, {"o"}, [op |-> "leave"])
    /\ queued' = QueuedLeave(d)
    /\ due' = Without({d})
    /\ UNCHANGED <<has, pend, storing, author, trusted, links, faults>>

(* Of a group that is not left: LeaveGroup or CloseGroup first.             *)
DeleteGroup(d) ==
    /\ group[d].known /\ group[d].left /\ Change
    /\ group' = [group EXCEPT ![d] = IF d = "o" THEN [@ EXCEPT !.known = FALSE] ELSE NoGroup]
    /\ has' = [has EXCEPT ![d] = {}] /\ pend' = [pend EXCEPT ![d] = [t \in T |-> {}]]
    /\ UNCHANGED <<queued, storing, author, due, contactVars>>

(* Mutated: only to one's contacts, not to the owner as such.               *)
TargetsKnown(d) ==
    {e \in group[d].members \ {d} : d = "o" \/ e \in trusted[d] \ {"o"}}

(* _group_targets *)
Targets(d) ==
    {e \in group[d].members \ {d} : d = "o" \/ e = "o" \/ e \in trusted[d]}

SendText(d, t) ==
    /\ author[t] = "none" /\ \A u \in T : u < t => author[u] # "none"
    /\ Open(d) /\ d \in group[d].members
    /\ author' = [author EXCEPT ![t] = d]
    /\ has' = [has EXCEPT ![d] = @ \cup {t}]
    /\ pend' = [pend EXCEPT ![d][t] = Targets(d)]
    /\ mail' = PushText(mail, d, Targets(d), t)
    /\ due' = [due EXCEPT ![t] =
                  IF Open("o") /\ d \in group["o"].members
                  THEN {e \in group["o"].members : ~group[e].left} ELSE {}]
    /\ UNCHANGED <<group, queued, storing, changes, trusted, links, faults>>

------------------------------------------------------------------------------
(* Messages (_handle_group_packet, _group_receipt).                         *)

HandleUpdate(d) ==
    /\ Arrived("o", d, "group")
    /\ LET u == Head(mail[<<"o", d>>])
           mine == group[d]
           in == d \in u.members /\ ~u.closed
       IN  group' = IF (mine.known /\ u.version > mine.version)
                       \/ (~mine.known /\ "o" \in trusted[d] /\ in)
                    THEN [group EXCEPT ![d] = [known |-> TRUE, left |-> ~in, members |-> u.members,
                                               version |-> u.version, owed |-> {}]]
                    ELSE group
    /\ mail' = Took("o", d)
    /\ UNCHANGED <<has, pend, queued, storing, author, changes, due, trusted, links, faults>>

(* Only from its author or the owner, and of members.                       *)
Accepts(d, e, t) ==
    /\ Open(d)
    /\ {e, author[t]} \subseteq group[d].members
    /\ e \in {author[t], "o"}

HandleText(d, e) ==
    /\ Arrived(e, d, "text")
    /\ LET t == Head(mail[<<e, d>>]).t
           rest == Took(e, d)
           told == Push(rest, d, {e}, [op |-> "receipt", t |-> t])
           on == group[d].members \ {d, author[t], e}
       IN  IF Accepts(d, e, t)
           THEN /\ has' = [has EXCEPT ![d] = @ \cup {t}]
                /\ IF d = "o" /\ t \notin has[d]
                   THEN pend' = [pend EXCEPT ![d][t] = on] /\ mail' = PushText(told, d, on, t)
                   ELSE pend' = pend /\ mail' = told
           ELSE mail' = rest /\ UNCHANGED <<has, pend>>
    /\ UNCHANGED <<group, queued, storing, author, changes, due, trusted, links, faults>>

HandleReceipt(d, e) ==
    /\ Arrived(e, d, "receipt")
    /\ pend' = [pend EXCEPT ![d][Head(mail[<<e, d>>]).t] = @ \ {e}]
    /\ mail' = Took(e, d)
    /\ UNCHANGED <<group, has, queued, storing, author, changes, due, trusted, links, faults>>

HandleLeave(e) ==
    /\ Arrived(e, "o", "leave")
    /\ IF Open("o") /\ e \in group["o"].members
       THEN LET g == [group["o"] EXCEPT !.members = @ \ {e}, !.version = @ + 1]
            IN  /\ group' = [group EXCEPT !["o"] = g]
                /\ Broadcast(Took(e, "o"), g, g.members \cup {e})
       ELSE mail' = Took(e, "o") /\ UNCHANGED <<group, storing>>
    /\ UNCHANGED <<has, pend, queued, author, changes, due, trusted, links, faults>>

------------------------------------------------------------------------------
(* Mutated: only those who are owed the list.                               *)
GetsListOwed(e) == e \in group["o"].owed

(* Members get the list on every session, whatever was counted as sent.     *)
GetsList(e) == e \in group["o"].members \cup group["o"].owed

(* A session is up (sync_groups_with): a leave that waited, the list, and   *)
(* the texts e has not confirmed.                                           *)
Unconfirmed(d, e) == {t \in T : e \in pend[d][t]}

Oldest(ts) == SetToSortSeq(ts, <)

GroupGreeting(d, e) ==
    (IF d \in queued /\ e = "o" THEN <<[op |-> "leave"]>> ELSE <<>>)
    \o (IF d = "o" /\ group[d].known /\ GetsList(e) THEN <<Update(group[d])>> ELSE <<>>)
    \o [i \in 1..Cardinality(Unconfirmed(d, e)) |->
            [op |-> "text", t |-> Oldest(Unconfirmed(d, e))[i]]]

GroupGreeted(ds) ==
    /\ queued' = IF "o" \in ds THEN queued \ ds ELSE queued
    /\ group' = IF "o" \in ds THEN [group EXCEPT !["o"].owed = @ \ ds] ELSE group
    /\ UNCHANGED <<has, pend, storing, author, changes, due>>

(* groups.json and the chats are stored, the rest is not.                   *)
GroupRestart(d) ==
    /\ queued' = queued \ {d}
    /\ storing' = IF d = "o" THEN {} ELSE storing
    /\ UNCHANGED <<group, has, pend, author, changes, due>>

(* Bound: m and n are alike, so a first list without m is left out.        *)
GroupNext ==
    \/ \E members \in {{"o", "m"}, D} : CreateGroup(members)
    \/ \E members \in SUBSET D : UpdateGroup(members)
    \/ CloseGroup \/ Noted
    \/ \E d \in D :
          \/ LeaveGroup(d) \/ DeleteGroup(d) \/ HandleUpdate(d) \/ HandleLeave(d)
          \/ \E t \in T : SendText(d, t)
          \/ \E e \in D : HandleText(d, e) \/ HandleReceipt(d, e)

GroupProgress ==
    \/ Noted
    \/ \E d \in D :
          \/ HandleUpdate(d) \/ HandleLeave(d)
          \/ \E e \in D : HandleText(d, e) \/ HandleReceipt(d, e)

------------------------------------------------------------------------------
GroupTypeOK ==
    /\ \A d \in D : group[d].members \subseteq D /\ has[d] \subseteq T
    /\ \A d \in D \ {"o"} : group[d].version <= group["o"].version /\ group[d].owed = {}
    /\ \A d \in D, t \in T : pend[d][t] # {} => t \in has[d]

(* What a member holds as the list is the owner's.                          *)
ListsAre ==
    Open("o") =>
        \A d \in group["o"].members :
            group[d].known /\ group[d].version = group["o"].version /\ group[d].members = group["o"].members

TextsAre == \A t \in T : \A d \in due[t] : t \in has[d]

(* Everyone who was removed knows.                                          *)
RemovedKnow ==
    \A d \in D : Open(d) /\ group["o"].version > 0 => d \in group["o"].members

(* Once the users stop, the lists of all members are the owner's.           *)
ListsAgree == <>[]ListsAre

(* A text reaches everyone who is a member from its sending on, contact of  *)
(* its author or not, whatever sessions end and whoever restarts.           *)
TextsReachMembers == <>[]TextsAre

(* Whoever was removed gets the list that says so.                          *)
RemovedAreTold == <>[]RemovedKnow
==============================================================================
