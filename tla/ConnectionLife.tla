--------------------------- MODULE ConnectionLife ---------------------------
(***************************************************************************)
(* What TcpServer promises for each of its connections, on whatever loops  *)
(* and threads the steps run: it is accepted, established, ended by its    *)
(* peer and then gone, in this order and each once.  From the first of     *)
(* these to the last somebody holds the TcpConnection, and one descriptor  *)
(* is its own; with the last both are given back, neither sooner nor       *)
(* never.                                                                  *)
(***************************************************************************)
EXTENDS Naturals

CONSTANTS Conns,        \* numbers of connections, in the order of accept
          Fds,          \* descriptors
          None          \* nobody's

VARIABLES stage,        \* how far each connection has come
          held,         \* the connections that are not freed
          owner,        \* whose socket a descriptor is
          peerOpen      \* connections whose peer has not closed

lifeVars == <<stage, held, owner, peerOpen>>

Step(c, from, to) ==
    /\ stage[c] = from
    /\ stage' = [stage EXCEPT ![c] = to]

Accept(c) ==
    /\ Step(c, "none", "accepted")
    /\ \A d \in Conns : d < c => stage[d] # "none"
    /\ held' = held \cup {c}
    /\ \E fd \in Fds : owner[fd] = None /\ owner' = [owner EXCEPT ![fd] = c]
    /\ UNCHANGED peerOpen

Establish(c) ==
    /\ Step(c, "accepted", "established")
    /\ UNCHANGED <<held, owner, peerOpen>>

End(c) ==
    /\ Step(c, "established", "ended")
    /\ c \notin peerOpen
    /\ UNCHANGED <<held, owner, peerOpen>>

Leave(c) ==
    /\ Step(c, "ended", "gone")
    /\ held' = held \ {c}
    /\ \E fd \in Fds : owner[fd] = c /\ owner' = [owner EXCEPT ![fd] = None]
    /\ UNCHANGED peerOpen

PeerCloses(c) ==
    /\ c \in peerOpen
    /\ peerOpen' = peerOpen \ {c}
    /\ UNCHANGED <<stage, held, owner>>

Init ==
    /\ stage = [c \in Conns |-> "none"]
    /\ held = {}
    /\ owner = [fd \in Fds |-> None]
    /\ peerOpen = Conns

Next ==
    \E c \in Conns :
        Accept(c) \/ Establish(c) \/ End(c) \/ Leave(c) \/ PeerCloses(c)

LifeSpec == Init /\ [][Next]_lifeVars
=============================================================================
