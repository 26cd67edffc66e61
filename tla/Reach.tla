--------------------------------- MODULE Reach ---------------------------------
(***************************************************************************)
(* How two contacts reach each other: through Tor and their NATs (Punch),  *)
(* by the addresses they tell each other (Doorbell), over a radio          *)
(* (RadioContact), and on one network (Announce).  One of these at a time. *)
(***************************************************************************)
EXTENDS Punch, Doorbell, RadioContact, Announce

CONSTANTS Ways                         \* the ways to look at

ASSUME WaysAssumption == Ways \subseteq {"punch", "doorbell", "radio", "lan"}

VARIABLES way

vars == <<way, punchVars, doorVars, radioVars, lanVars>>

(* What is not looked at rests: NATs that cannot be crossed, a network that *)
(* both marked quiet, a session on a shared network, contacts not heard of. *)
Init ==
    /\ way \in Ways
    /\ InitPunch /\ InitDoor /\ InitRadio /\ InitLan
    /\ way = "punch" \/ ~cross
    /\ way = "doorbell" \/ (quiet = Doors /\ saved = Each(1))
    /\ way = "radio" \/ (kind = "lan" /\ network)
    /\ way = "lan" \/ book = OfEach(1)

OnlyPunch == way = "punch" /\ UNCHANGED <<way, doorVars, radioVars, lanVars>>
OnlyDoor == way = "doorbell" /\ UNCHANGED <<way, punchVars, radioVars, lanVars>>
OnlyRadio == way = "radio" /\ UNCHANGED <<way, punchVars, doorVars, lanVars>>
OnlyLan == way = "lan" /\ UNCHANGED <<way, punchVars, doorVars, radioVars>>

Next ==
    \/ OnlyPunch /\ PunchNext
    \/ OnlyDoor /\ DoorNext
    \/ OnlyRadio /\ RadioNext
    \/ OnlyLan /\ LanNext

Progress ==
    \/ OnlyPunch /\ PunchProgress
    \/ OnlyDoor /\ DoorProgress
    \/ OnlyRadio /\ RadioActs

Spec == Init /\ [][Next]_vars

(* What is on the air arrives, beacons are sent in between, and neither     *)
(* keeps a side from what its timers and tasks do.                          *)
FairSpec ==
    /\ Spec
    /\ WF_vars(Progress)
    /\ WF_vars(OnlyRadio /\ \E d \in Sides : BeaconTick(d))
    /\ \A d \in Sides : WF_vars(OnlyRadio /\ Receives(d))
    /\ \A d \in Near : WF_vars(OnlyLan /\ LanProgress(d))
==============================================================================
