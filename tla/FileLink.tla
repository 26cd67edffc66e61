------------------------------ MODULE FileLink -------------------------------
(***************************************************************************)
(* The encrypted session between the sender and the receiver of one file,  *)
(* as core/messaging/transfer.py sees it: what each side holds as its link *)
(* to the other, and what is in flight.                                    *)
(*                                                                         *)
(* Each end learns of a new session, or of the end of one, at a time of    *)
(* its own.  A message is in flight only inside the current session: what  *)
(* was sent on a dead or replaced path, or under old keys, is lost.        *)
(***************************************************************************)
EXTENDS Integers, Sequences, SequencesExt, FiniteSets

CONSTANTS Size,         \* length of the file, in blocks
          Sessions,     \* names of sessions: 1..n, reused once nobody holds them
          Chunks,       \* the chunk lengths of each session's path, in blocks
                        \* (the radio's changes with the measured rate)
          Window,       \* the window of unconfirmed blocks
          LineFaults,   \* the kinds of fault that may happen over each line ...
          MaxFaults,    \* ... and how many of them in one behaviour
          None          \* no value

ASSUME SizeAssumption == Size \in Nat
ASSUME SessionsAssumption == Sessions \in SUBSET (Nat \ {0})
ASSUME ChunkAssumption == Chunks \in [Sessions -> SUBSET (Nat \ {0})]
ASSUME WindowAssumption == Window \in Nat \ {0}
ASSUME NoneAssumption ==
    None \notin BOOLEAN /\ None \notin {"ask", "live", "complete", "cancelled", "failed"}
ASSUME FaultAssumption == DOMAIN LineFaults \subseteq {"tcp", "radio"} /\ MaxFaults \in Nat

VARIABLES
    line,       \* what carries the sessions
    session,    \* the newest session; messages of no other one arrive
    alive,      \* its path carries messages
    sUp, rUp,   \* the session each side's link belongs to, 0 without a link
    toR, toS,   \* in flight to the receiver, to the sender
    told,       \* the sides whose last FILE_REJECT is younger than REJECT_REPEAT
    faults      \* faults that may still happen

pathVars == <<session, alive, sUp, rUp>>
flightVars == <<toR, toS>>
linkVars == <<pathVars, flightVars, told, faults>>

Sides == {"sender", "receiver"}
Ordered == line = "tcp"            \* the radio reorders, and gives up
Faults == LineFaults[line]
Blocks == 1..Size
Source == [i \in Blocks |-> i]     \* the file, each block known by its place
Data == UNION {[1..n -> Blocks] : n \in 0..Size}

Messages ==
    [t : {"offer"}] \cup [t : {"chunk"}, off : 0..Size, data : Data]
      \cup [t : {"complete"}, sha : Data]
      \cup [t : {"accept", "resume"}, off : 0..Size]
      \cup [t : {"ack"}, off : 0..Size, ok : BOOLEAN \cup {None}]
      \cup [t : {"waiting"}] \cup [t : {"reject"}, reason : {"cancelled", "failed"}]

LinkTypeOK ==
    /\ line \in DOMAIN LineFaults
    /\ session \in Sessions \cup {0}
    /\ alive \in BOOLEAN
    /\ sUp \in Sessions \cup {0} /\ rUp \in Sessions \cup {0}
    /\ \A i \in DOMAIN toR : toR[i] \in Messages
    /\ \A i \in DOMAIN toS : toS[i] \in Messages
    /\ told \in SUBSET Sides
    /\ faults \in 0..MaxFaults

LinkInit ==
    /\ line \in DOMAIN LineFaults
    /\ session = 0 /\ alive = FALSE /\ sUp = 0 /\ rUp = 0
    /\ toR = <<>> /\ toS = <<>>
    /\ told = {} /\ faults = MaxFaults

------------------------------------------------------------------------------
(* Sending and receiving.                                                   *)

(* A side's link is the current session and its path works.                 *)
Live(up) == alive /\ up # 0 /\ up = session

(* _send_raw: written to a path that is gone, a message is lost.            *)
Put(q, up, m) == IF Live(up) THEN Append(q, m) ELSE q

(* _send_control: FALSE without a link; on a dead path it may still say TRUE. *)
SendResults(up) == IF up = 0 THEN {FALSE} ELSE IF Live(up) THEN {TRUE} ELSE BOOLEAN

(* The positions of the messages a side can be given next.                  *)
Arriving(q, up) == IF ~Live(up) THEN {} ELSE IF Ordered THEN {1} \cap DOMAIN q ELSE DOMAIN q

(* _repeat_reject: at most one answer per REJECT_REPEAT.                    *)
MayRepeat(side) == side \notin told

------------------------------------------------------------------------------
(* Faults.                                                                  *)
Happens(f) == f \in Faults /\ faults > 0 /\ faults' = faults - 1

NothingInFlight == toR = <<>> /\ toS = <<>>

(* A timer much longer than a round trip.  It fires when nothing is left to
   wait for ("busy" is work under way), or, as a fault, too early.          *)
Timeout(busy) == \/ NothingInFlight /\ ~busy /\ UNCHANGED faults
                 \/ (~NothingInFlight \/ busy) /\ Happens("early")

ClearFlight == toR' = <<>> /\ toS' = <<>>

(* The path goes silent; neither side knows yet.                            *)
Cut == /\ alive
       /\ Happens("cut")
       /\ alive' = FALSE
       /\ ClearFlight
       /\ UNCHANGED <<session, sUp, rUp, told>>

(* One message is given up by the radio's link layer.                       *)
Lose == /\ ~Ordered
        /\ Happens("lose")
        /\ \/ \E i \in DOMAIN toR : toR' = RemoveAt(toR, i) /\ UNCHANGED toS
           \/ \E i \in DOMAIN toS : toS' = RemoveAt(toS, i) /\ UNCHANGED toR
        /\ UNCHANGED <<pathVars, told>>

(* A name for a session that neither side, nor the send loop, still knows.  *)
FreshSession(held) == Sessions \ (held \cup {session, sUp, rUp})

(* Somebody dials: a reconnect, or a better path beside one that works.     *)
NewSession(held) ==
    /\ IF alive THEN Happens("switch") ELSE UNCHANGED faults
    /\ FreshSession(held) # {}
    /\ session' = CHOOSE n \in FreshSession(held) :
                    \A k \in FreshSession(held) : n <= k
    /\ alive' = TRUE
    /\ ClearFlight
    /\ UNCHANGED <<sUp, rUp, told>>

(* Both sides change keys on the link they have: nothing is announced, and
   what was sealed under the old keys is lost.                              *)
Rekey(held) ==
    /\ Live(sUp) /\ Live(rUp)
    /\ Happens("rekey")
    /\ \E n \in FreshSession(held) :
         /\ \A k \in FreshSession(held) : n <= k
         /\ session' = n /\ sUp' = n /\ rUp' = n
    /\ ClearFlight
    /\ UNCHANGED <<alive, told>>

(* REJECT_REPEAT passes.                                                    *)
RejectAges(side) == /\ side \in told
                    /\ told' = told \ {side}
                    /\ UNCHANGED <<pathVars, flightVars, faults>>
==============================================================================
