----------------------------- MODULE Connection -----------------------------
(***************************************************************************)
(* What the server promises about a connection: it is accepted at most     *)
(* once, under a descriptor that nobody else holds, and then given up, or  *)
(* served by one session from then on, which is ended only by a request    *)
(* that it or the operator made; either frees the descriptor.  Requests    *)
(* name a descriptor; they may be late and they may be repeated, but none  *)
(* ends the connection that has got the descriptor of the one it was meant *)
(* for.  No thread, queue, map or epoll appears.                           *)
(***************************************************************************)
EXTENDS Integers

CONSTANTS
    Conns,
    Fds,
    None,           \* no descriptor
    Operator        \* the person at the terminal

VARIABLES
    stage,          \* "away", "waiting", "accepted", "served" or "gone"
    descriptor,     \* of a connection
    requests        \* to end who has a descriptor

connectionVars == <<stage, descriptor, requests>>

ConnectionInit ==
    /\ stage = [c \in Conns |-> "away"]
    /\ descriptor = [c \in Conns |-> None]
    /\ requests = {}

Moves(c, from, to) == stage[c] = from /\ stage' = [stage EXCEPT ![c] = to]

Arrive(c) == Moves(c, "away", "waiting") /\ UNCHANGED <<descriptor, requests>>

Take(c, f) ==
    /\ Moves(c, "waiting", "accepted")
    /\ \A d \in Conns : descriptor[d] # f
    /\ descriptor' = [descriptor EXCEPT ![c] = f]
    /\ UNCHANGED requests

\* The connection could not be set up.
Refuse(c) == Moves(c, "waiting", "gone") /\ UNCHANGED <<descriptor, requests>>

\* The descriptor is taken back before there was a session.
Abandon(c) ==
    /\ Moves(c, "accepted", "gone")
    /\ descriptor' = [descriptor EXCEPT ![c] = None]
    /\ UNCHANGED requests

Begin(c) == Moves(c, "accepted", "served") /\ UNCHANGED <<descriptor, requests>>

\* A session asks for its own end, the operator for that of any descriptor.
Ask(by, f) ==
    /\ by \in Conns => stage[by] = "served" /\ descriptor[by] = f
    /\ requests' = requests \cup {[by |-> by, fd |-> f]}
    /\ UNCHANGED <<stage, descriptor>>

\* The request m is for the connection c.
Meant(m, c) == stage[c] = "served" /\ descriptor[c] = m.fd /\ m.by \in {c, Operator}

\* The request is used up, unless it was made more than once.
Used(m) == requests' \in {requests, requests \ {m}}

End(c, m) ==
    /\ Meant(m, c)
    /\ Moves(c, "served", "gone")
    /\ descriptor' = [descriptor EXCEPT ![c] = None]
    /\ Used(m)

\* Only a request that is meant for nobody any more comes to nothing.
Expire(m) ==
    /\ \A c \in Conns : ~Meant(m, c)
    /\ Used(m)
    /\ UNCHANGED <<stage, descriptor>>

ConnectionNext ==
    \/ \E c \in Conns : Arrive(c) \/ Refuse(c) \/ Abandon(c) \/ Begin(c)
    \/ \E f \in Fds : Ask(Operator, f) \/ \E c \in Conns : Take(c, f) \/ Ask(c, f)
    \/ \E m \in requests : Expire(m) \/ \E c \in Conns : End(c, m)

ConnectionSpec == ConnectionInit /\ [][ConnectionNext]_connectionVars
=============================================================================
