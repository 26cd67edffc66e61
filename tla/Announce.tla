------------------------------- MODULE Announce -------------------------------
(***************************************************************************)
(* Two contacts on one network who find each other by hand (announce.py,   *)
(* discovery.py): what an announce changes, which addresses a contact is   *)
(* dialed at (connect.py), and when it is no longer dialed (backend.py).   *)
(*                                                                         *)
(* An address is a number, 0 for a device that is not on the network; a    *)
(* session ends with an address it uses, and the side that stayed does not *)
(* notice.  Whoever dials a device where it is gets a session: Session     *)
(* models how.  Left out: Tor, the radio, WAN addresses, full registries,  *)
(* clocks that are off by more than 5 minutes.                             *)
(*                                                                         *)
(* Time: the network is looked at every 3 s, and an announce overtakes an  *)
(* earlier one only as a fault, "late".                                    *)
(***************************************************************************)
EXTENDS Naturals, FiniteSets

CONSTANTS Hosts,                   \* the addresses of each device
          LanFaults, MaxLanFaults  \* and what the users do, see LanFault

ASSUME LanAssumption == 1 \in Hosts /\ Hosts \subseteq Nat \ {0} /\ MaxLanFaults \in Nat

Near == {"A", "B"}
Mate(d) == IF d = "A" THEN "B" ELSE "A"
OfEach(v) == [d \in Near |-> v]

VARIABLES
    ip,         \* where a device is
    knows,      \* where its network watch knows it to be
    book,       \* trusted.tcp_host: where the contact was
    alts,       \* trusted.alt_hosts
    found,      \* the contact's address in the discovery registry, 0: none
    newest,     \* _announce_seen_ts
    told,       \* what it heard last is news of where the contact is (history)
    reach,      \* _reach_started and _reach_paused
    resting,    \* _dial_held
    calling,    \* the addresses the running dial tries
    pressed,    \* is_discoverable
    replied,    \* _announce_replies
    open,      \* the session: "stale" if the contact's address is gone, "lost" if ours is
    ads,        \* announces on the way
    clock,      \* the time of a device's last announce
    lanFaults

bookVars == <<book, alts, found, newest, told>>
dialVars == <<reach, resting, calling>>
adVars == <<pressed, replied, ads, clock>>
lanVars == <<ip, knows, bookVars, dialVars, adVars, open, lanFaults>>

InitLan ==
    /\ ip = OfEach(1) /\ knows = ip
    /\ book \in [Near -> Hosts] /\ alts = OfEach({})
    /\ found = OfEach(0) /\ newest = OfEach(0) /\ told = OfEach(FALSE)
    /\ reach = OfEach("fresh") /\ resting = OfEach({}) /\ calling = OfEach({})
    /\ pressed = OfEach(FALSE) /\ replied = OfEach({})
    /\ open = OfEach("none") /\ ads = {} /\ clock = OfEach(0) /\ lanFaults = 0

LanFault(f) == f \in LanFaults /\ lanFaults < MaxLanFaults /\ lanFaults' = lanFaults + 1

------------------------------------------------------------------------------
(* Dialing                                                                 *)

Known(bk, al, d) == ({bk[d]} \cup al[d]) \ {0}

(* _connect_to_peer_locked: the registry comes before the book, then come   *)
(* the other addresses.                                                     *)
Candidates(fd, bk, al, d) == ({IF fd[d] # 0 THEN fd[d] ELSE bk[d]} \cup al[d]) \ {0}

(* _kick_connect, with the book and the rests as they are after the step.   *)
Kick(d, r, rest) ==
    /\ resting' = [resting EXCEPT ![d] = rest]
    /\ IF calling[d] # {} \/ r = "paused"
       THEN reach' = [reach EXCEPT ![d] = r] /\ UNCHANGED calling
       ELSE /\ reach' = [reach EXCEPT ![d] = "trying"]
            /\ calling' = [calling EXCEPT ![d] = Candidates(found', book', alts', d) \ rest]

(* resume_reaching(d's contact): the rests end if it was given up.          *)
Rests(d) ==
    IF reach[d] = "paused"
    THEN resting[d] \ ({found'[d]} \cup Known(book', alts', d))
    ELSE resting[d]

(* connect_known_contacts, _schedule_reconnect                              *)
DialContact(d) ==
    /\ open[d] = "none" /\ calling[d] = {} /\ reach[d] # "paused"
    /\ UNCHANGED <<ip, knows, bookVars, adVars, open, lanFaults>>
    /\ Kick(d, reach[d], resting[d])

(* Who dials has the contact's address in its book from now on.             *)
DialAnswered(d) ==
    LET h == ip[Mate(d)]
    IN  /\ h \in calling[d] /\ ip[d] # 0
        /\ calling' = [calling EXCEPT ![d] = {}]
        /\ book' = [book EXCEPT ![d] = h]
        /\ alts' = [alts EXCEPT ![d] = Known(book, alts, d) \ {h}]
        /\ open' = OfEach("up") /\ reach' = OfEach("fresh")
        /\ UNCHANGED <<ip, knows, found, newest, told, resting, adVars, lanFaults>>

DialFailed(d) ==
    /\ calling[d] # {}
    /\ ip[Mate(d)] \notin calling[d] \/ ip[d] = 0
    /\ calling' = [calling EXCEPT ![d] = {}]
    /\ resting' = [resting EXCEPT ![d] = @ \cup calling[d]]
    /\ UNCHANGED <<ip, knows, bookVars, reach, adVars, open, lanFaults>>

(* store_peer_addresses: each side of a session learns the other's address. *)
Learns(d) ==
    /\ open = OfEach("up") /\ ip[Mate(d)] \notin Known(book, alts, d)
    /\ alts' = [alts EXCEPT ![d] = @ \cup {ip[Mate(d)]}]
    /\ UNCHANGED <<ip, knows, book, found, newest, told, dialVars, adVars, open, lanFaults>>

(* _reach_allowed: 2 minutes without success.                               *)
GiveUp(d) ==
    /\ reach[d] = "trying" /\ open[d] = "none" /\ calling[d] = {}
    /\ reach' = [reach EXCEPT ![d] = "paused"]
    /\ UNCHANGED <<ip, knows, bookVars, resting, calling, adVars, open, lanFaults>>

(* reap_dead_links and _verify_link_soon: a session that does not answer.   *)
EndSilent(d) ==
    /\ open[d] \in {"stale", "lost"}
    /\ open' = [open EXCEPT ![d] = "none"]
    /\ UNCHANGED <<ip, knows, bookVars, dialVars, adVars, lanFaults>>

RestOver(d) ==
    /\ \E h \in resting[d] : resting' = [resting EXCEPT ![d] = @ \ {h}]
    /\ UNCHANGED <<ip, knows, bookVars, reach, calling, adVars, open, lanFaults>>

------------------------------------------------------------------------------
(* Announces                                                               *)

Ad(d, to, reply) == [by |-> d, at |-> ip[d], ts |-> clock[d] + 1, to |-> to, reply |-> reply]

SendAd(d, to, reply, left) ==
    /\ ads' = left \cup {Ad(d, to, reply)}
    /\ clock' = [clock EXCEPT ![d] = @ + 1]

Press(d) ==
    /\ ip[d] # 0 /\ LanFault("announce")
    /\ pressed' = [pressed EXCEPT ![d] = TRUE]
    /\ SendAd(d, 0, FALSE, ads)
    /\ UNCHANGED <<ip, knows, bookVars, dialVars, replied, open>>

(* announce_to: and a contact known to be there is dialed.                  *)
FindByIp(d) ==
    /\ ip[d] # 0 /\ LanFault("find")
    /\ pressed' = [pressed EXCEPT ![d] = TRUE]
    /\ UNCHANGED <<ip, knows, bookVars, replied, open>>
    /\ \E h \in Hosts :
          /\ SendAd(d, h, FALSE, ads)
          /\ IF h \in Known(book, alts, d) /\ open[d] = "none"
             THEN Kick(d, "fresh", Rests(d) \ {h})
             ELSE UNCHANGED dialVars

PressedLongAgo(d) ==
    /\ pressed[d]
    /\ pressed' = [pressed EXCEPT ![d] = FALSE]
    /\ UNCHANGED <<ip, knows, bookVars, dialVars, replied, ads, clock, open, lanFaults>>

MayReplyAgain(d) ==
    /\ replied[d] # {}
    /\ replied' = [replied EXCEPT ![d] = {}]
    /\ UNCHANGED <<ip, knows, bookVars, dialVars, pressed, ads, clock, open, lanFaults>>

Hearable(d, a) == a.by = Mate(d) /\ ip[d] # 0 /\ a.to \in {0, ip[d]}

(* Mutated: a contact that was given up is not dialed again.                *)
NewsPaused(d, a) == Kick(d, reach[d], resting[d] \ {a.at})

(* A contact that says where it is is dialed there, whatever was before.    *)
News(d, a) == Kick(d, "fresh", Rests(d) \ {a.at})

(* The registry has the address an announcement came from.                  *)
Found(d, a) == [found EXCEPT ![d] = a.at]

(* _handle_discovered                                                       *)
Hear(d, a) ==
    LET newer == a.ts > newest[d]
        moved == newer /\ a.at # book[d]
        answer == ~a.reply /\ pressed[d] /\ a.at \notin replied[d]
    IN  /\ Hearable(d, a)
        /\ \/ UNCHANGED lanFaults /\ \A b \in ads : Hearable(d, b) => a.ts <= b.ts
           \/ LanFault("late")
        /\ found' = Found(d, a)
        /\ newest' = [newest EXCEPT ![d] = IF newer THEN a.ts ELSE @]
        /\ book' = [book EXCEPT ![d] = IF moved THEN a.at ELSE @]
        /\ alts' = [alts EXCEPT ![d] = IF moved THEN Known(book, alts, d) \ {a.at} ELSE @]
        /\ told' = [told EXCEPT ![d] = a.at = ip[Mate(d)] /\ (newer \/ @)]
        /\ IF newer /\ open[d] = "none" THEN News(d, a) ELSE UNCHANGED dialVars
        /\ replied' = [replied EXCEPT ![d] = IF answer THEN @ \cup {a.at} ELSE @]
        /\ IF answer THEN SendAd(d, a.at, TRUE, ads \ {a})
                     ELSE ads' = ads \ {a} /\ UNCHANGED clock
        /\ UNCHANGED <<ip, knows, pressed, open>>

(* All of a burst is lost, or nobody is there to hear it.                   *)
AdLost(a) ==
    /\ IF Hearable(Mate(a.by), a) THEN LanFault("lost") ELSE UNCHANGED lanFaults
    /\ ads' = ads \ {a}
    /\ UNCHANGED <<ip, knows, bookVars, dialVars, pressed, replied, clock, open>>

(* DiscoveryRegistry.get: after 2 minutes.                                  *)
FoundExpires(d) ==
    /\ found[d] # 0
    /\ found' = [found EXCEPT ![d] = 0]
    /\ UNCHANGED <<ip, knows, book, alts, newest, told, dialVars, adVars, open, lanFaults>>

------------------------------------------------------------------------------
(* Networks, users and restarts                                            *)

MoveTo(d) ==
    /\ knows[d] = ip[d] /\ LanFault("move")
    /\ \E h \in (Hosts \cup {0}) \ {ip[d]} : ip' = [ip EXCEPT ![d] = h]
    /\ open' = [e \in Near |-> IF open[e] = "none" THEN "none"
                               ELSE IF e = d THEN "lost"
                               ELSE IF open[e] = "up" THEN "stale" ELSE open[e]]
    /\ told' = OfEach(FALSE)
    /\ UNCHANGED <<knows, book, alts, found, newest, dialVars, adVars>>

(* _watch_network: everyone may be dialed again, and is on a new network.   *)
Notice(d) ==
    /\ knows[d] # ip[d]
    /\ knows' = [knows EXCEPT ![d] = ip[d]]
    /\ open' = [open EXCEPT ![d] = IF @ = "lost" THEN "none" ELSE @]
    /\ UNCHANGED <<ip, bookVars, adVars, lanFaults>>
    /\ IF open'[d] = "none"
       THEN Kick(d, "fresh", {})
       ELSE /\ reach' = [reach EXCEPT ![d] = "fresh"] /\ resting' = [resting EXCEPT ![d] = {}]
            /\ UNCHANGED calling

(* The user opens the chat.                                                 *)
OpenChat(d) ==
    /\ open[d] = "none" /\ LanFault("chat")
    /\ UNCHANGED <<ip, knows, bookVars, adVars, open>>
    /\ Kick(d, "fresh", Rests(d))

RestartLan(d) ==
    /\ LanFault("restart")
    /\ knows' = [knows EXCEPT ![d] = ip[d]]
    /\ found' = [found EXCEPT ![d] = 0] /\ newest' = [newest EXCEPT ![d] = 0]
    /\ told' = OfEach(FALSE)
    /\ pressed' = [pressed EXCEPT ![d] = FALSE] /\ replied' = [replied EXCEPT ![d] = {}]
    /\ open' = [e \in Near |-> IF e = d \/ open[e] = "up" THEN "none" ELSE open[e]]
    /\ resting' = [resting EXCEPT ![d] = {}]
    /\ reach' = [reach EXCEPT ![d] = "trying"]
    /\ calling' = [calling EXCEPT ![d] = Known(book, alts, d)]
    /\ UNCHANGED <<ip, book, alts, ads, clock>>

(* What a device does by itself.                                            *)
LanProgress(d) ==
    DialContact(d) \/ DialAnswered(d) \/ DialFailed(d) \/ EndSilent(d) \/ Notice(d)

LanNext ==
    \/ \E d \in Near :
          \/ LanProgress(d) \/ Learns(d) \/ GiveUp(d) \/ RestOver(d) \/ PressedLongAgo(d) \/ MayReplyAgain(d)
          \/ FoundExpires(d) \/ Press(d) \/ FindByIp(d) \/ MoveTo(d) \/ OpenChat(d) \/ RestartLan(d)
          \/ \E a \in ads : Hear(d, a)
    \/ \E a \in ads : AdLost(a)

------------------------------------------------------------------------------
(* Once a contact has heard where the other is, and both stay there, they   *)
(* end up with a session: however long they had given each other up, and    *)
(* whatever session each still believed in.                                 *)
FoundAgain == <>[](\E d \in Near : told[d]) => <>[](open = OfEach("up"))
==============================================================================
