------------------------------- MODULE Contacts -------------------------------
(***************************************************************************)
(* What pairing, sharing and groups have in common: who trusts whom, and   *)
(* the sessions that carry their messages.  A message sent on a session    *)
(* arrives, in order, or the session ends and it is lost.                  *)
(***************************************************************************)
EXTENDS Naturals, Sequences, FiniteSetsExt

CONSTANTS Faults, MaxFaults            \* what goes wrong, and how often

ASSUME FaultsAssumption == MaxFaults \in Nat

D == {"o", "m", "n"}                   \* o shows codes, shares, owns the group

VARIABLES
    trusted,   \* the contacts of each device (TrustedStore)
    links,     \* pairs of devices with a session
    mail,      \* messages on their way: <<from, to>> -> sequence
    faults

contactVars == <<trusted, links, mail, faults>>

InitContacts(friends) ==
    /\ trusted = friends
    /\ links = {} /\ mail = [p \in D \X D |-> <<>>]
    /\ faults = 0

Fault(f) == f \in Faults /\ faults < MaxFaults /\ faults' = faults + 1

Linked(d) == {e \in D : {d, e} \in links}

(* Sent to those of ds that d has a session with.                           *)
Push(m, d, ds, msg) ==
    [p \in D \X D |-> IF p[1] = d /\ p[2] \in ds \cap Linked(d) THEN Append(m[p], msg) ELSE m[p]]

Took(e, d) == [mail EXCEPT ![<<e, d>>] = Tail(@)]

Arrived(e, d, op) == mail[<<e, d>>] # <<>> /\ Head(mail[<<e, d>>]).op = op

(* The sessions of the pairs ps end, with what is under way on them.        *)
Drop(ps) ==
    /\ links' = links \ ps
    /\ mail' = [p \in D \X D |-> IF {p[1], p[2]} \in ps THEN <<>> ELSE mail[p]]
    /\ UNCHANGED trusted
==============================================================================
