--------------------------------- MODULE Punch ---------------------------------
(***************************************************************************)
(* From Tor to a direct connection through both NATs (punch.py, paths.py,  *)
(* the endpoint of udp.py).  The leader offers a round over the session on *)
(* Tor, the follower answers; both then probe each other for a few seconds *)
(* and the leader opens a session on the connection that results.          *)
(*                                                                         *)
(* Left out: addresses of a common network and TCP over IPv6, which are    *)
(* dialed as any address is; one address family; failing STUN servers.     *)
(*                                                                         *)
(* Time: a window (4 s) and the wait for a retry (4 s) outlast the limits  *)
(* on offers and requests (5 and 6 s) and the other side's window; every   *)
(* other try (15 s to 120 s later) finds all at rest.  A delay that breaks *)
(* this counts as a fault, "slow".                                         *)
(***************************************************************************)
EXTENDS Naturals, Sequences, FiniteSets

CONSTANTS
    MaxPending,        \* MAX_PENDING_PUNCHES
    Prime,             \* rounds that lower the hop limit (_prime_max - 2 at first)
    PunchFaults, MaxPunchFaults

ASSUME PunchAssumption == {MaxPending, Prime, MaxPunchFaults} \subseteq Nat

Ends == {"L", "F"}                     \* leader (the lower hash) and follower
Peer(d) == IF d = "L" THEN "F" ELSE "L"

VARIABLES
    cross,       \* the NATs let probes through
    session,     \* "none", "tor" or "direct"
    via,         \* the round whose connection carries the direct session
    msgs,        \* PUNCH messages on their way to each end, in order
    starting,    \* tasks of the leader that are about to offer (start_punch)
    offered,     \* the leader's last offer (_udp_offers), 0: none
    answering,   \* the offer the follower is about to answer
    recent, limited, asked,    \* a try, an answer, a request of the last seconds
    conns,       \* UDP connections: [key, port, to, st]
    punching,    \* the round each end is in (_punching)
    upgrade,     \* a connection on which each end opened a session (_upgrades)
    prime,       \* how often each may still lower its hop limit
    port,        \* UDP port in use for new rounds
    retry,       \* a retry is due in 4 s
    punchFaults

flags == <<recent, limited, asked>>
roundVars == <<starting, offered, answering, flags>>
punchVars == <<cross, session, via, msgs, roundVars, conns, punching, upgrade, prime, port, retry, punchFaults>>

None == <<0, 0>>

InitPunch ==
    /\ cross \in BOOLEAN
    /\ session = "none" /\ via = None
    /\ msgs = [d \in Ends |-> <<>>]
    /\ starting = 0 /\ offered = 0 /\ answering = <<>>
    /\ recent = FALSE /\ limited = FALSE /\ asked = FALSE
    /\ conns = [d \in Ends |-> {}]
    /\ punching = [d \in Ends |-> None] /\ upgrade = [d \in Ends |-> None]
    /\ prime = [d \in Ends |-> Prime] /\ port = [d \in Ends |-> 1]
    /\ retry = [d \in Ends |-> FALSE]
    /\ punchFaults = 0

PunchFault(f) == f \in PunchFaults /\ punchFaults < MaxPunchFaults /\ punchFaults' = punchFaults + 1

(* Secrets, ids and ports are new each time: the least not in use.          *)
Least(used) == CHOOSE n \in 1..(Cardinality(used) + 1) : n \notin used

InMsgs(field) == UNION {{msgs[d][i][field] : i \in DOMAIN msgs[d]} : d \in Ends}
Keys == UNION {{c.key : c \in conns[d]} : d \in Ends}
Secret == Least(InMsgs("id") \cup {offered, via[1], via[2]} \cup {k[1] : k \in Keys} \cup {k[2] : k \in Keys}
                \cup {answering[i].id : i \in DOMAIN answering})
FreshPort(d) ==
    Least({port[d]} \cup {c.port : c \in conns[d]} \cup {c.to : c \in conns[Peer(d)]}
          \cup InMsgs("port") \cup {answering[i].port : i \in DOMAIN answering})

Sent(m, d, op, id) ==
    IF session = "tor" THEN [m EXCEPT ![d] = Append(@, [op |-> op, id |-> id, port |-> port[Peer(d)]])] ELSE m

Got(d, op) == msgs[d] # <<>> /\ Head(msgs[d]).op = op
Popped(d) == [msgs EXCEPT ![d] = Tail(@)]

------------------------------------------------------------------------------
(* Starting a round                                                        *)

(* A try of the leader: not in a round, nor on a better connection yet.     *)
Try ==
    /\ starting' = IF punching["L"] = None /\ upgrade["L"] = None THEN starting + 1 ELSE starting
    /\ recent' = TRUE

(* request_direct_upgrade: at most every 5 s                                *)
Request == IF recent \/ session # "tor" THEN UNCHANGED <<starting, recent>> ELSE Try

AtRest ==
    /\ \A d \in Ends : msgs[d] = <<>> /\ punching[d] = None /\ ~retry[d] /\ upgrade[d] = None
    /\ starting = 0 /\ answering = <<>>

(* A session on Tor: the leader tries, the follower asks it to.             *)
LinkUpTor ==
    /\ session = "none" /\ session' = "tor"
    /\ IF recent THEN UNCHANGED <<starting, recent>> ELSE Try
    /\ msgs' = [msgs EXCEPT !["L"] = IF asked THEN <<>> ELSE <<[op |-> "ask", id |-> 0, port |-> 0]>>]
    /\ asked' = TRUE
    /\ UNCHANGED <<cross, via, offered, answering, limited, conns, punching, upgrade, prime, port, retry, punchFaults>>

(* maintain_paths, long after the last try                                  *)
Tick ==
    /\ session = "tor" /\ AtRest
    /\ starting' = 1 /\ recent' = TRUE
    /\ limited' = FALSE /\ asked' = FALSE
    /\ UNCHANGED <<cross, session, via, msgs, offered, answering, conns, punching, upgrade, prime, port, retry, punchFaults>>

(* New addresses of the follower arrive: a try at once.                     *)
NewAddresses ==
    /\ session = "tor" /\ PunchFault("addresses")
    /\ Try
    /\ UNCHANGED <<cross, session, via, msgs, offered, answering, limited, asked, conns, punching, upgrade, prime, port, retry>>

(* A round with another contact failed: new rounds from another port.       *)
OtherRotates(d) ==
    /\ PunchFault("rotate")
    /\ port' = [port EXCEPT ![d] = FreshPort(d)]
    /\ UNCHANGED <<cross, session, via, msgs, roundVars, conns, punching, upgrade, prime, retry>>

(* The 4 s after a failed round are over.                                   *)
Retry(d) ==
    /\ retry[d]
    /\ \/ punching[Peer(d)] = None /\ UNCHANGED punchFaults
       \/ PunchFault("slow")
    /\ retry' = [retry EXCEPT ![d] = FALSE]
    /\ IF d = "L"
       THEN Request /\ UNCHANGED <<msgs, asked>>
       ELSE /\ msgs' = IF asked THEN msgs ELSE Sent(msgs, "L", "ask", 0)
            /\ asked' = (asked \/ session = "tor")
            /\ UNCHANGED <<starting, recent>>
    /\ UNCHANGED <<cross, session, via, offered, answering, limited, conns, punching, upgrade, prime, port>>

HandleAsk ==
    /\ Got("L", "ask")
    /\ Request
    /\ msgs' = Popped("L")
    /\ UNCHANGED <<cross, session, via, offered, answering, limited, asked, conns, punching, upgrade, prime, port, retry, punchFaults>>

(* start_punch, STUN and the router have answered.                          *)
Offer ==
    /\ starting > 0 /\ starting' = starting - 1
    /\ offered' = Secret
    /\ msgs' = Sent(msgs, "F", "offer", Secret)
    /\ UNCHANGED <<cross, session, via, answering, flags, conns, punching, upgrade, prime, port, retry, punchFaults>>

------------------------------------------------------------------------------
(* A round                                                                 *)

Pending(d) == Cardinality({c \in conns[d] : c.st = "probing"})

Conn(d, key, to) == [key |-> key, port |-> port[d], to |-> to, st |-> "probing"]

(* new_connection, then _punch: one round at a time.                        *)
Joins(d, c) ==
    IF punching[d] = None
    THEN /\ conns' = [conns EXCEPT ![d] = @ \cup {c}]
         /\ punching' = [punching EXCEPT ![d] = c.key]
    ELSE UNCHANGED <<conns, punching>>

HandleOffer ==
    /\ Got("F", "offer") /\ answering = <<>>
    /\ answering' = IF limited THEN <<>> ELSE <<Head(msgs["F"])>>
    /\ limited' = TRUE
    /\ msgs' = Popped("F")
    /\ UNCHANGED <<cross, session, via, starting, offered, recent, asked, conns, punching, upgrade, prime, port, retry, punchFaults>>

Answer ==
    /\ answering # <<>> /\ answering' = <<>>
    /\ IF Pending("F") < MaxPending
       THEN /\ Joins("F", Conn("F", <<answering[1].id, Secret>>, answering[1].port))
            /\ msgs' = Sent(msgs, "L", "answer", Secret)
       ELSE /\ UNCHANGED <<conns, punching>>
            /\ msgs' = Sent(msgs, "L", "answer", 0)
    /\ UNCHANGED <<cross, session, via, starting, offered, flags, upgrade, prime, port, retry, punchFaults>>

(* The answer does not say which offer it is to.                            *)
HandleAnswer ==
    /\ Got("L", "answer")
    /\ offered' = 0
    /\ LET a == Head(msgs["L"])
       IN  IF offered # 0 /\ a.id # 0 /\ Pending("L") < MaxPending
           THEN Joins("L", Conn("L", <<offered, a.id>>, a.port))
           ELSE UNCHANGED <<conns, punching>>
    /\ msgs' = Popped("L")
    /\ UNCHANGED <<cross, session, via, starting, answering, flags, upgrade, prime, port, retry, punchFaults>>

Of(d, key) == {c \in conns[d] : c.key = key}

(* Probes get through where both know the keys and each other's port.       *)
Meets(d, c) == cross /\ \E e \in Of(Peer(d), c.key) : c.to = e.port /\ e.to = c.port

Became(d, c, st) == [conns EXCEPT ![d] = (@ \ {c}) \cup {[c EXCEPT !.st = st]}]

Opens(d) ==
    /\ \E c \in Of(d, punching[d]) :
          /\ c.st = "probing" /\ Meets(d, c)
          /\ conns' = Became(d, c, "open")
    /\ UNCHANGED <<cross, session, via, msgs, roundVars, punching, upgrade, prime, port, retry, punchFaults>>

(* Mutated: a round is never over.                                          *)
StaysIn(d) == punching

Leaves(d) == [punching EXCEPT ![d] = None]

(* The window closes without an answer.                                     *)
GivesUp(d) ==
    /\ \E c \in Of(d, punching[d]) :
          /\ c.st = "probing"
          /\ \/ ~Meets(d, c) /\ msgs = [e \in Ends |-> <<>>] /\ UNCHANGED punchFaults
             \/ PunchFault("slow")
          /\ conns' = [conns EXCEPT ![d] = @ \ {c}]
    /\ punching' = Leaves(d)
    /\ IF prime[d] > 0
       THEN /\ prime' = [prime EXCEPT ![d] = @ - 1]
            /\ port' = [port EXCEPT ![d] = FreshPort(d)]
            /\ retry' = [retry EXCEPT ![d] = TRUE]
       ELSE UNCHANGED <<prime, port, retry>>
    /\ recent' = (starting > 0) /\ limited' = (answering # <<>>) /\ asked' = FALSE
    /\ UNCHANGED <<cross, session, via, msgs, starting, offered, answering, upgrade>>

------------------------------------------------------------------------------
(* The connection                                                          *)

(* adopt_udp; the leader opens a session on it, the follower waits 2 s and  *)
(* then takes over.                                                         *)
Adopts(d) ==
    /\ \E c \in Of(d, punching[d]) :
          /\ c.st = "open"
          /\ conns' = Became(d, c, "held")
    /\ IF d = "L"
       THEN /\ punching' = Leaves("L")
            /\ upgrade' = IF upgrade["L"] = None THEN [upgrade EXCEPT !["L"] = punching["L"]] ELSE upgrade
       ELSE UNCHANGED <<punching, upgrade>>
    /\ UNCHANGED <<cross, session, via, msgs, roundVars, prime, port, retry, punchFaults>>

TakesOver ==
    /\ \A c \in Of("F", punching["F"]) : c.st = "held"
    /\ punching["F"] # None
    /\ punching' = Leaves("F")
    /\ upgrade' = IF upgrade["F"] = None /\ via # punching["F"] /\ Of("F", punching["F"]) # {}
                  THEN [upgrade EXCEPT !["F"] = punching["F"]] ELSE upgrade
    /\ UNCHANGED <<cross, session, via, msgs, roundVars, conns, prime, port, retry, punchFaults>>

Held(key) == \A d \in Ends : \E c \in Of(d, key) : c.st = "held"

(* The handshake on the connection is done: it replaces the one on Tor.     *)
Upgraded(d) ==
    /\ upgrade[d] # None /\ Held(upgrade[d]) /\ via # upgrade[d]
    /\ session' = "direct" /\ via' = upgrade[d]
    /\ conns' = [e \in Ends |-> conns[e] \ Of(e, via)]
    /\ msgs' = [e \in Ends |-> <<>>]
    /\ upgrade' = [upgrade EXCEPT ![d] = None]
    /\ UNCHANGED <<cross, roundVars, punching, prime, port, retry, punchFaults>>

(* Mutated: also a connection that carries the session by now.              *)
UnusedAny(key) == TRUE

Unused(key) == key # via

(* Not answered for 10 s, or answered on the other side's handshake.        *)
UpgradeExpires(d) ==
    /\ upgrade[d] # None
    /\ \/ (Of(Peer(d), upgrade[d]) = {} \/ via = upgrade[d]) /\ UNCHANGED punchFaults
       \/ PunchFault("slow")
    /\ conns' = [conns EXCEPT ![d] = IF Unused(upgrade[d]) THEN @ \ Of(d, upgrade[d]) ELSE @]
    /\ upgrade' = [upgrade EXCEPT ![d] = None]
    /\ UNCHANGED <<cross, session, via, msgs, roundVars, punching, prime, port, retry>>

(* _expire_if_unauthenticated: a connection on which no session came up     *)
HeldExpires(d) ==
    /\ \E c \in conns[d] :
          /\ c.st = "held" /\ c.key # via /\ \A e \in Ends : c.key \notin {upgrade[e], punching[e]}
          /\ conns' = [conns EXCEPT ![d] = @ \ {c}]
    /\ UNCHANGED <<cross, session, via, msgs, roundVars, punching, upgrade, prime, port, retry, punchFaults>>

CutSession ==
    /\ session # "none" /\ PunchFault("cut")
    /\ session' = "none" /\ via' = None
    /\ conns' = [d \in Ends |-> conns[d] \ Of(d, via)]
    /\ msgs' = [d \in Ends |-> <<>>]
    /\ UNCHANGED <<cross, roundVars, punching, upgrade, prime, port, retry>>

PunchProgress ==
    \/ LinkUpTor \/ Tick \/ HandleAsk \/ Offer \/ HandleOffer \/ Answer \/ HandleAnswer \/ TakesOver
    \/ \E d \in Ends :
          Retry(d) \/ Opens(d) \/ GivesUp(d) \/ Adopts(d) \/ Upgraded(d) \/ UpgradeExpires(d) \/ HeldExpires(d)

PunchNext ==
    \/ PunchProgress \/ NewAddresses \/ CutSession
    \/ \E d \in Ends : OtherRotates(d)

------------------------------------------------------------------------------
(* A direct session keeps its connection at both ends, whatever older       *)
(* tries and connections are cleared away after it came up.                 *)
SessionKeepsItsConnection == session = "direct" => Held(via)

(* Through NATs that can be crossed the session becomes direct, whatever    *)
(* rounds were mixed up; through others rounds end and leave nothing.       *)
GoesDirect ==
    /\ <>[](cross => session = "direct")
    /\ []<>(\A d \in Ends : conns[d] \subseteq Of(d, via))
==============================================================================
