------------------------------- MODULE Features -------------------------------
(***************************************************************************)
(* Pairing, sharing and groups over the sessions of three devices: what a  *)
(* new session makes each of them send (_complete_handshake), and what the *)
(* end of one or a restart takes from each.                                *)
(***************************************************************************)
EXTENDS Groups, Pairing, SharePeer

CONSTANTS Uses                         \* what the users are about

ASSUME UsesAssumption == Uses \subseteq {"pairing", "sharing", "groups"}

VARIABLES use

vars == <<use, contactVars, groupVars, pairVars, shareVars>>

Star(ds) == [d \in D |-> IF d = "o" THEN ds ELSE IF d \in ds THEN {"o"} ELSE {}]

(* Bound: the users do one thing of the three; grants are for m.  Members   *)
(* of a group may be contacts of each other.                                *)
Friends(u) ==
    CASE u = "pairing" -> {Star({})}
      [] u = "sharing" -> {Star({"m"})}
      [] u = "groups" -> {Star({"m", "n"}), [d \in D |-> D \ {d}]}

Init ==
    /\ use \in Uses
    /\ \E friends \in Friends(use) : InitContacts(friends)
    /\ InitGroups /\ InitPairing /\ InitShare

(* Texts between two contacts are in module Outbox, synced folders in       *)
(* FolderSync; offers follow one by one.                                    *)
Greeting(d, e) == PairGreeting(d, e) \o GroupGreeting(d, e) \o AcceptGreeting(d, e)

Dialled == {{p[1], p[2]} : p \in {q \in D \X D : q[2] \in trusted[q[1]]}}

LinkUp(d, e) ==
    /\ {d, e} \in Dialled \ links
    /\ links' = links \cup {{d, e}}
    /\ mail' = [mail EXCEPT ![<<d, e>>] = Greeting(d, e), ![<<e, d>>] = Greeting(e, d)]
    /\ PairGreeted({d, e}) /\ GroupGreeted({d, e}) /\ ShareGreeted({d, e})
    /\ UNCHANGED <<use, trusted, faults>>

Cut(p) ==
    /\ p \in links /\ Fault("cut")
    /\ Drop({p}) /\ ShareCut({p})
    /\ UNCHANGED <<use, groupVars, pairVars>>

Restart(d) ==
    /\ Fault("restart")
    /\ Drop({p \in links : d \in p})
    /\ GroupRestart(d) /\ PairRestart(d) /\ ShareRestart(d)
    /\ UNCHANGED use

Progress ==
    \/ GroupProgress /\ UNCHANGED <<use, pairVars, shareVars>>
    \/ PairProgress /\ UNCHANGED <<use, groupVars, shareVars>>
    \/ ShareProgress /\ UNCHANGED <<use, groupVars, pairVars>>
    \/ \E d, e \in D : LinkUp(d, e)

Next ==
    \/ use = "groups" /\ GroupNext /\ UNCHANGED <<use, pairVars, shareVars>>
    \/ use = "pairing" /\ PairNext /\ UNCHANGED <<use, groupVars, shareVars>>
    \/ use = "sharing" /\ ShareNext /\ UNCHANGED <<use, groupVars, pairVars>>
    \/ Progress
    \/ \E p \in links : Cut(p)
    \/ \E d \in D : Restart(d)

Spec == Init /\ [][Next]_vars

FairSpec == Spec /\ WF_vars(Progress)

------------------------------------------------------------------------------
TypeOK ==
    /\ \A p \in links : p \subseteq D /\ Cardinality(p) = 2
    /\ \A d, e \in D : mail[<<d, e>>] # <<>> => {d, e} \in links
    /\ GroupTypeOK /\ PairTypeOK /\ ShareTypeOK
==============================================================================
