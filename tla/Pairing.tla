-------------------------------- MODULE Pairing --------------------------------
(***************************************************************************)
(* Becoming contacts (core/messaging/pairing.py): o shows a code that      *)
(* works once; whoever scans it or gets its link adds o and sends the code *)
(* back over the session, which makes o add them.  Who is added without a  *)
(* code becomes a contact request.                                         *)
(*                                                                         *)
(* Left out: addresses, key changes, signatures, devices on other networks *)
(* (they raise no requests) and the limit on how often one is raised.      *)
(***************************************************************************)
EXTENDS Contacts

CONSTANTS Codes, Moves                 \* codes shown; other steps of the users

ASSUME PairingAssumption == Codes \in Nat /\ Moves \in Nat

VARIABLES
    shown,     \* how many codes o has made
    tokens,    \* codes that work still (_pairing_tokens)
    shared,    \* of them, those whose link was copied (_pairing_shared)
    linked,    \* codes that were ever handed on as a link
    brought,   \* <<d, t>>: d has added o with code t
    out,       \* the code each device has to send back (pair_token_out), 0: none
    verified,  \* <<d, e>>: d has verified e
    met,       \* <<d, e>>: one has seen the other's screen, or they compared numbers
    asked,     \* <<d, e>>: d shows a contact request of e
    declined,  \* <<d, e>>: d dismissed it, until d restarts
    moves

codeVars == <<shown, tokens, shared, linked, brought>>
pairVars == <<codeVars, out, verified, met, asked, declined, moves>>

InitPairing ==
    /\ shown = 0 /\ tokens = {} /\ shared = {} /\ linked = {} /\ brought = {}
    /\ out = [d \in D |-> 0]
    /\ verified = {} /\ met = {}
    /\ asked = {} /\ declined = {} /\ moves = 0

Move == moves < Moves /\ moves' = moves + 1

(* The list of d with e, and without (TrustedStore).                        *)
Added(d, e) == [trusted EXCEPT ![d] = @ \cup {e}]
Removed(d, e) == [trusted EXCEPT ![d] = @ \ {e}]

(* _mark_verified *)
Marked(d, e) == verified \cup {<<d, e>>}

------------------------------------------------------------------------------
(* The users                                                               *)

CreateCard ==
    /\ shown < Codes /\ shown' = shown + 1
    /\ tokens' = tokens \cup {shown'}
    /\ UNCHANGED <<shared, linked, brought, out, verified, met, asked, declined, moves, contactVars>>

MarkShared(t) ==
    /\ t <= shown /\ t \notin linked
    /\ linked' = linked \cup {t}
    /\ shared' = shared \cup ({t} \cap tokens)
    /\ UNCHANGED <<shown, tokens, brought, out, verified, met, asked, declined, moves, contactVars>>

ExpireToken(t) ==
    /\ t \in tokens
    /\ tokens' = tokens \ {t} /\ shared' = shared \ {t}
    /\ UNCHANGED <<shown, linked, brought, out, verified, met, asked, declined, moves, contactVars>>

(* A code from the screen, or from a link; the session may be up already.   *)
ImportCard(d, t, inPerson) ==
    /\ d # "o" /\ t <= shown
    /\ inPerson \/ t \in linked
    /\ <<d, t>> \notin brought                                   \* Bound
    /\ brought' = brought \cup {<<d, t>>}
    /\ trusted' = Added(d, "o")
    /\ IF inPerson
       THEN met' = met \cup {<<d, "o">>, <<"o", d>>} /\ verified' = Marked(d, "o")
       ELSE UNCHANGED <<met, verified>>
    /\ asked' = asked \ {<<d, "o">>}
    /\ mail' = Push(mail, d, {"o"}, [op |-> "pair", token |-> t])
    /\ out' = [out EXCEPT ![d] = IF {d, "o"} \in links THEN 0 ELSE t]
    /\ UNCHANGED <<shown, tokens, shared, linked, declined, moves, links, faults>>

(* A new entry for a discovered device, or one that asks: nothing is kept   *)
(* of what was known of it.                                                 *)
AddTrusted(d, e) ==
    /\ trusted' = Added(d, e)
    /\ verified' = verified \ {<<d, e>>}
    /\ out' = [out EXCEPT ![d] = IF e = "o" THEN 0 ELSE @]
    /\ asked' = asked \ {<<d, e>>}
    /\ mail' = Push(mail, d, {e}, [op |-> "accepted"])
    /\ UNCHANGED <<codeVars, met, declined, links, faults>>

AddDiscovered(d) ==
    /\ d # "o" /\ "o" \notin trusted[d] /\ Move
    /\ AddTrusted(d, "o")

AcceptRequest(d, e) ==
    /\ <<d, e>> \in asked
    /\ AddTrusted(d, e)
    /\ UNCHANGED moves

DeclineRequest(d, e) ==
    /\ <<d, e>> \in asked /\ Move
    /\ asked' = asked \ {<<d, e>>} /\ declined' = declined \cup {<<d, e>>}
    /\ UNCHANGED <<codeVars, out, verified, met, contactVars>>

(* The session ends with the contact; what was to be sent is forgotten.     *)
RemoveContact(d, e) ==
    /\ e \in trusted[d] /\ Move
    /\ trusted' = Removed(d, e)
    /\ links' = links \ {{d, e}}
    /\ mail' = [p \in D \X D |-> IF {p[1], p[2]} = {d, e} THEN <<>> ELSE mail[p]]
    /\ verified' = verified \ {<<d, e>>}
    /\ out' = [out EXCEPT ![d] = IF e = "o" THEN 0 ELSE @]
    /\ asked' = asked \ {<<d, e>>}
    /\ UNCHANGED <<codeVars, met, declined, faults>>

(* The users compare the numbers, or scan each other's code for it.         *)
VerifyContact(d, e) ==
    /\ e \in trusted[d] /\ <<d, e>> \notin verified /\ Move
    /\ verified' = verified \cup {<<d, e>>}
    /\ met' = met \cup {<<d, e>>}
    /\ UNCHANGED <<codeVars, out, asked, declined, contactVars>>

UnverifyContact(d, e) ==
    /\ <<d, e>> \in verified /\ Move
    /\ verified' = verified \ {<<d, e>>}
    /\ UNCHANGED <<codeVars, out, met, asked, declined, contactVars>>

------------------------------------------------------------------------------
(* Messages                                                                *)

(* Mutated: also of a contact.                                              *)
RaisedAlways(d, e) == asked \cup {<<d, e>>}

(* _raise_contact_request, of a device on the same network                  *)
Raised(d, e) ==
    IF e \in trusted[d] \/ <<d, e>> \in declined THEN asked ELSE asked \cup {<<d, e>>}

(* Mutated: looked up after the code was taken off the lists.               *)
InPersonLate(t) == t \notin shared \cap (tokens \ {t})

InPerson(t) == t \notin shared

HandlePair(d) ==
    /\ Arrived(d, "o", "pair")
    /\ LET t == Head(mail[<<d, "o">>]).token
       IN  IF t \in tokens
           THEN /\ tokens' = tokens \ {t} /\ shared' = shared \ {t}
                /\ trusted' = Added("o", d)
                /\ verified' = IF InPerson(t) THEN Marked("o", d) ELSE verified
                /\ asked' = asked \ {<<"o", d>>}
           ELSE /\ asked' = Raised("o", d)
                /\ UNCHANGED <<tokens, shared, trusted, verified>>
    /\ mail' = Took(d, "o")
    /\ UNCHANGED <<shown, linked, brought, out, met, declined, moves, links, faults>>

(* They have added us: ask to add them back.                                *)
HandleAccepted(d, e) ==
    /\ Arrived(e, d, "accepted")
    /\ asked' = Raised(d, e)
    /\ mail' = Took(e, d)
    /\ UNCHANGED <<codeVars, out, verified, met, declined, moves, trusted, links, faults>>

------------------------------------------------------------------------------
(* _send_pending_pair                                                       *)
PairGreeting(d, e) ==
    IF e = "o" /\ out[d] # 0 THEN <<[op |-> "pair", token |-> out[d]]>> ELSE <<>>

(* Mutated: only those who are verified are told.                           *)
AcceptGreetingVerified(d, e) ==
    IF <<d, e>> \in verified /\ d \notin trusted[e] THEN <<[op |-> "accepted"]>> ELSE <<>>

(* notify_contact_accepted; to one who has d as a contact it says nothing.  *)
AcceptGreeting(d, e) ==
    IF e \in trusted[d] /\ d \notin trusted[e] THEN <<[op |-> "accepted"]>> ELSE <<>>

PairGreeted(ds) ==
    /\ out' = [d \in D |-> IF {d, "o"} \subseteq ds THEN 0 ELSE out[d]]
    /\ declined' = {p \in declined : ~({p[1], p[2]} = ds /\ p[2] \in trusted[p[1]])}
    /\ UNCHANGED <<codeVars, verified, met, asked, moves>>

(* The codes and contacts are stored, the requests are not.                 *)
PairRestart(d) ==
    /\ asked' = {p \in asked : p[1] # d}
    /\ declined' = {p \in declined : p[1] # d}
    /\ UNCHANGED <<codeVars, out, verified, met, moves>>

PairProgress == \E d \in D : HandlePair(d) \/ \E e \in D : HandleAccepted(d, e)

PairNext ==
    \/ CreateCard \/ PairProgress
    \/ \E t \in 1..Codes : MarkShared(t) \/ ExpireToken(t)
    \/ \E d \in D :
          \/ \E t \in 1..Codes, inPerson \in BOOLEAN : ImportCard(d, t, inPerson)
          \/ AddDiscovered(d)
          \/ \E e \in D :
                \/ AcceptRequest(d, e) \/ DeclineRequest(d, e) \/ RemoveContact(d, e)
                \/ VerifyContact(d, e) \/ UnverifyContact(d, e)

------------------------------------------------------------------------------
PairTypeOK ==
    /\ shared \subseteq tokens /\ tokens \subseteq 1..shown
    /\ \A d \in D : out[d] # 0 => "o" \in trusted[d]
    /\ \A p \in verified : p[2] \in trusted[p[1]]
    /\ \A p \in asked : p[2] \notin trusted[p[1]] /\ p \notin declined

(* Verified are only those who met: a code that was handed on as a link     *)
(* verifies nobody, however late, and whoever restarted in between.         *)
VerifiedWereMet == verified \subseteq met

(* Who keeps another as a contact is theirs too, or they are asked.         *)
BothWays ==
    \A d \in D : \A e \in trusted[d] : d \in trusted[e] \/ <<e, d>> \in asked \cup declined

AskedBack == <>[]BothWays
==============================================================================
