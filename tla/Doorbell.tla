------------------------------- MODULE Doorbell -------------------------------
(***************************************************************************)
(* Tor as the doorbell of two contacts (tor.py, the rendezvous of paths.py *)
(* and punch.py, the network watch of ping.py): the life of each device's  *)
(* Tor and onion address, and how contacts learn it.                       *)
(*                                                                         *)
(* "lan" is a network both can be on, which each may have marked quiet;    *)
(* "away" is any other.  A session ends with the network it runs over.     *)
(* Left out: STUN and LAN addresses (sent in the same messages), Tor's own *)
(* start-up on each system, giving up on a contact after a day.            *)
(*                                                                         *)
(* Time: the watch looks every 3 s, a Tor that is told to stop stays for   *)
(* 1 s and an old address for 2 s; who moves or changes the setting again  *)
(* before that is over is a fault, "quick".                                *)
(***************************************************************************)
EXTENDS Naturals, Sequences, FiniteSets

CONSTANTS DoorFaults, MaxDoorFaults      \* and what the users do, see DoorFault

ASSUME DoorAssumption == MaxDoorFaults \in Nat

Doors == {"A", "B"}
Caller(d) == IF d = "A" THEN "B" ELSE "A"

VARIABLES
    quiet,      \* devices that marked "lan" as quiet
    place,      \* the network a device is on
    seen,       \* the network its watch knows of
    enabled,    \* the setting tor_enabled
    tor,        \* _tor_state; "lost" is "ready" without a SOCKS port
    task,       \* _tor_task runs
    leaving,    \* calls of tor_settings_changed in their second of waiting
    addr,       \* our address: the key on disk
    old,        \* an address that is about to be given up
    live,       \* addresses that answer
    saved,      \* the contact's address (trusted.onion), 0: none
    trusted,    \* has the contact in its list
    link,       \* the session: "none", "lan" or "tor"
    have,       \* have_their_addresses
    mail,       \* RENDEZVOUS on the way to a device
    doorFaults

torVars == <<enabled, tor, task, leaving, addr, old, live>>
netVars == <<quiet, place, seen>>
linkVars == <<link, have>>
doorVars == <<netVars, torVars, saved, trusted, linkVars, mail, doorFaults>>

Each(v) == [d \in Doors |-> v]

InitDoor ==
    /\ quiet \in SUBSET Doors
    /\ place = Each("lan") /\ seen = Each("lan")
    /\ enabled = Each(TRUE) /\ leaving = Each(0) /\ old = Each(0) /\ live = Each({})
    /\ tor = [d \in Doors |-> IF d \in quiet THEN "off" ELSE "starting"]
    /\ task = [d \in Doors |-> d \notin quiet]
    /\ addr = Each(1)
    /\ \/ saved = Each(1) /\ trusted = Each(TRUE)
       \/ saved = Each(0) /\ trusted \in {Each(TRUE), [d \in Doors |-> d = "A"]}
    /\ link = "none" /\ have = Each(FALSE) /\ mail = Each(<<>>)
    /\ doorFaults = 0

DoorFault(f) == f \in DoorFaults /\ doorFaults < MaxDoorFaults /\ doorFaults' = doorFaults + 1

------------------------------------------------------------------------------
(* Addresses                                                               *)

TorEnabledIn(on, pl, d) == on[d] /\ ~(pl[d] = "lan" /\ d \in quiet)
TorEnabled(d) == TorEnabledIn(enabled, place, d)

(* rendezvous_addresses: "" (0) unless our Tor is ready.                    *)
OurOnion(t, a, d) == IF t[d] = "ready" THEN a[d] ELSE 0

(* send_rendezvous: m with our address added, from d.                       *)
Told(m, d, o) ==
    IF trusted[d] THEN [m EXCEPT ![Caller(d)] = Append(@, [o |-> o, h |-> have[d]])] ELSE m

(* What a session carries ends with it.                                     *)
Carries(m) == mail' = IF link' = "none" THEN Each(<<>>) ELSE m

(* addresses_changed, with all else as it is after the step.                *)
AddressesChanged(d) == Carries(Told(mail, d, OurOnion(tor', addr', d)))

(* Who does not have ours is sent it.                                       *)
Answers(m) == ~m.h

(* store_peer_onion: what the contact says, also that it has none.           *)
StorePeerOnion(d, o) == saved' = [saved EXCEPT ![d] = o]

HandleRendezvous(d) ==
    /\ mail[d] # <<>>
    /\ LET m == Head(mail[d])
           rest == [mail EXCEPT ![d] = Tail(@)]
       IN  IF trusted[d]
           THEN /\ StorePeerOnion(d, m.o)
                /\ have' = [have EXCEPT ![d] = TRUE]
                /\ mail' = IF Answers(m)
                           THEN [rest EXCEPT ![Caller(d)] = Append(@, [o |-> OurOnion(tor, addr, d), h |-> TRUE])]
                           ELSE rest
           ELSE mail' = rest /\ UNCHANGED <<saved, have>>
    /\ UNCHANGED <<netVars, torVars, trusted, link, doorFaults>>

(* The request of a contact is accepted (notify_contact_accepted).          *)
Accept(d) ==
    /\ ~trusted[d] /\ link # "none"
    /\ trusted' = [trusted EXCEPT ![d] = TRUE]
    /\ mail' = [mail EXCEPT ![Caller(d)] = Append(@, [o |-> OurOnion(tor, addr, d), h |-> have[d]])]
    /\ UNCHANGED <<netVars, torVars, saved, linkVars, doorFaults>>

------------------------------------------------------------------------------
(* Tor                                                                     *)

StartTor(d) ==
    IF task[d] THEN UNCHANGED <<tor, task>>
    ELSE tor' = [tor EXCEPT ![d] = "starting"] /\ task' = [task EXCEPT ![d] = TRUE]

(* _tor_shutdown: with Tor and the onion listener goes a session over them. *)
Shutdown(d) ==
    /\ live' = [live EXCEPT ![d] = {}]
    /\ IF link = "tor" THEN link' = "none" /\ have' = Each(FALSE) ELSE UNCHANGED linkVars

(* Mutated: the ended task is not forgotten.                                *)
StopTorKeepsTask(d) ==
    /\ tor' = [tor EXCEPT ![d] = "off"]
    /\ Shutdown(d)
    /\ UNCHANGED task

StopTor(d) ==
    /\ task' = [task EXCEPT ![d] = FALSE]
    /\ tor' = [tor EXCEPT ![d] = "off"]
    /\ Shutdown(d)

(* tor_settings_changed: contacts are told first, while there is a session. *)
TorSettingsChanged(d, on) ==
    CASE on -> StartTor(d) /\ UNCHANGED <<leaving, live, linkVars>>
      [] ~on /\ tor[d] \in {"ready", "lost"} ->
             /\ tor' = [tor EXCEPT ![d] = "stopping"]
             /\ leaving' = [leaving EXCEPT ![d] = @ + 1]
             /\ UNCHANGED <<task, live, linkVars>>
      [] OTHER -> StopTor(d) /\ UNCHANGED leaving

Stops(d) ==
    /\ leaving[d] > 0
    /\ leaving' = [leaving EXCEPT ![d] = @ - 1]
    /\ StopTor(d) /\ Carries(mail)
    /\ UNCHANGED <<netVars, enabled, addr, old, saved, trusted, doorFaults>>

NoSession ==
    /\ link' = "none" /\ have' = Each(FALSE) /\ mail' = Each(<<>>)

(* The app ends and starts again.                                           *)
Restart(d) ==
    /\ DoorFault("restart")
    /\ seen' = [seen EXCEPT ![d] = place[d]]
    /\ leaving' = [leaving EXCEPT ![d] = 0]
    /\ task' = [task EXCEPT ![d] = TorEnabled(d)]
    /\ tor' = [tor EXCEPT ![d] = IF TorEnabled(d) THEN "starting" ELSE "off"]
    /\ live' = [live EXCEPT ![d] = {}] /\ old' = [old EXCEPT ![d] = 0]
    /\ NoSession
    /\ UNCHANGED <<quiet, place, enabled, addr, saved, trusted>>

(* The user turns Tor on or off.                                            *)
Toggle(d) ==
    /\ DoorFault(IF leaving[d] > 0 THEN "quick" ELSE "settings")
    /\ enabled' = [enabled EXCEPT ![d] = ~@]
    /\ TorSettingsChanged(d, TorEnabledIn(enabled', place, d))
    /\ UNCHANGED <<netVars, addr, old, saved, trusted>>
    /\ IF leaving' # leaving THEN AddressesChanged(d) ELSE Carries(mail)

(* _tor_start_once is through: published, and contacts are told.            *)
Ready(d) ==
    /\ tor[d] = "starting"
    /\ tor' = [tor EXCEPT ![d] = "ready"]
    /\ live' = [live EXCEPT ![d] = {addr[d]}]
    /\ UNCHANGED <<netVars, enabled, task, leaving, addr, old, saved, trusted, linkVars, doorFaults>>
    /\ AddressesChanged(d)

(* The start fails, or the control connection is lost.                      *)
TorFails(d) ==
    /\ tor[d] \in {"starting", "ready"} /\ DoorFault("tor")
    /\ tor' = [tor EXCEPT ![d] = IF @ = "ready" THEN "lost" ELSE "error"]
    /\ old' = [old EXCEPT ![d] = 0]
    /\ Shutdown(d) /\ Carries(mail)
    /\ UNCHANGED <<netVars, enabled, task, leaving, addr, saved, trusted>>

(* _tor_run goes round again, after its pause.                              *)
RunsAgain(d) ==
    /\ tor[d] \in {"lost", "error"} /\ task[d]
    /\ IF TorEnabled(d)
       THEN tor' = [tor EXCEPT ![d] = "starting"] /\ UNCHANGED task
       ELSE task' = [task EXCEPT ![d] = FALSE] /\ UNCHANGED tor
    /\ UNCHANGED <<netVars, enabled, leaving, addr, old, live, saved, trusted, linkVars, mail, doorFaults>>

(* new_tor_address: the old one answers for 2 more seconds.                 *)
NewAddress(d) ==
    /\ tor[d] = "ready" /\ old[d] = 0 /\ DoorFault("address")
    /\ old' = [old EXCEPT ![d] = addr[d]]
    /\ addr' = [addr EXCEPT ![d] = @ + 1]
    /\ live' = [live EXCEPT ![d] = @ \cup {addr'[d]}]
    /\ UNCHANGED <<netVars, enabled, tor, task, leaving, saved, trusted, linkVars>>
    /\ AddressesChanged(d)

(* Mutated: the address in use by then is deleted.                          *)
DeletedCurrent(d) == addr[d]

Deleted(d) == old[d]

OldGoes(d) ==
    /\ old[d] > 0
    /\ old' = [old EXCEPT ![d] = 0]
    /\ live' = [live EXCEPT ![d] = @ \ {Deleted(d)}]
    /\ UNCHANGED <<netVars, enabled, tor, task, leaving, addr, saved, trusted, linkVars, mail, doorFaults>>

------------------------------------------------------------------------------
(* Networks and sessions                                                   *)

Move(d) ==
    /\ DoorFault(IF seen[d] # place[d] \/ leaving[d] > 0 THEN "quick" ELSE "move")
    /\ place' = [place EXCEPT ![d] = IF @ = "lan" THEN "away" ELSE "lan"]
    /\ NoSession
    /\ UNCHANGED <<quiet, seen, torVars, saved, trusted>>

(* _watch_network: a quiet network pauses Tor, leaving it starts it again.  *)
Watch(d) ==
    /\ seen[d] # place[d]
    /\ seen' = [seen EXCEPT ![d] = place[d]]
    /\ IF d \in quiet
       THEN TorSettingsChanged(d, TorEnabled(d))
       ELSE UNCHANGED <<tor, task, leaving, live, linkVars>>
    /\ UNCHANGED <<enabled, addr, old>> /\ AddressesChanged(d)
    /\ UNCHANGED <<quiet, place, saved, trusted, doorFaults>>

(* Both ends send their addresses as soon as the session is up.             *)
LinkUp(kind) ==
    /\ link = "none" /\ link' = kind
    /\ have' = Each(FALSE)
    /\ mail' = [d \in Doors |-> IF trusted[Caller(d)]
                               THEN <<[o |-> OurOnion(tor, addr, Caller(d)), h |-> FALSE]>> ELSE <<>>]
    /\ UNCHANGED <<netVars, torVars, saved, trusted, doorFaults>>

OnLan == (\A d \in Doors : place[d] = "lan") /\ LinkUp("lan")

(* dial_onion: we have an address, and what it names answers.                *)
OnionAnswers(d) == tor[d] = "ready" /\ saved[d] \in live[Caller(d)]

DialOnion(d) ==
    /\ OnionAnswers(d)
    /\ \A e \in Doors : trusted[e]
    /\ LinkUp("tor")

DoorProgress ==
    \/ OnLan
    \/ \E d \in Doors :
          \/ HandleRendezvous(d) \/ Stops(d) \/ Ready(d) \/ RunsAgain(d) \/ OldGoes(d)
          \/ Watch(d) \/ DialOnion(d) \/ Accept(d)

DoorNext == DoorProgress \/ \E d \in Doors : Toggle(d) \/ Restart(d) \/ TorFails(d) \/ NewAddress(d) \/ Move(d)

------------------------------------------------------------------------------
(* Tor ends up as the setting and the network ask for.                      *)
TorFollows ==
    \A d \in Doors :
        /\ <>[]TorEnabled(d) => <>[](tor[d] = "ready")
        /\ <>[]~TorEnabled(d) => <>[](tor[d] = "off" /\ live[d] = {})

(* Two contacts whose Tor is on find each other wherever they are, if one   *)
(* of them has the other's address.                                         *)
FindEachOther ==
    <>[](\A d \in Doors : TorEnabled(d) /\ trusted[d]) /\ <>[](\E d \in Doors : saved[d] = addr[Caller(d)])
        => <>[](link # "none")

(* Contacts that have each other's address keep finding each other.         *)
StayReachable ==
    saved = addr /\ <>[](\A d \in Doors : TorEnabled(d)) => <>[](link # "none")
==============================================================================
