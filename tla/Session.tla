------------------------------ MODULE Session ------------------------------
(***************************************************************************)
(* How news travel from one session to another: the stable stage of        *)
(* client/ProtocolClient.cpp with the database behind it                   *)
(* (database/ClientDataManager.cpp), the priority messages in the queue of *)
(* every session, and the notices of the connection buffers.               *)
(*                                                                         *)
(* The Server thread takes a batch of events from epoll and one message    *)
(* for an event; a handler is one step, taking its message another, since  *)
(* the Receiver and the Sender thread push to the same queues.  A client   *)
(* has at most one session at a time and may come back with a new one.     *)
(* The database outlives the sessions.                                     *)
(*                                                                         *)
(* News are numbered for each client and kind in the order in which they   *)
(* come; a new name is another one.  A place also has the time its sender  *)
(* gives it, which may be that of an earlier place or before it, and is    *)
(* all that a watcher remembers.  A pipe has room for PipeCapacity bytes;  *)
(* a push that finds none leaves its message in the queue and throws.      *)
(* Packets stay whole and in order: how two threads in ClientBuffer::send  *)
(* disturb that is in BufferOut.                                           *)
(***************************************************************************)
EXTENDS Integers, Sequences, FiniteSets, SequencesExt, FiniteSetsExt

CONSTANTS
    Clients,        \* clients, each with the session it has now
    None,           \* no watcher, packet or message
    PipeCapacity,   \* bytes the pipe of a queue takes
    Times,          \* times a place may have
    MaxPackets,     \* bound: packets all peers send
    Starts,         \* the relations "f follows t" of the databases to start with
    MaxSessions     \* bound: sessions of all clients

Kinds == {"name", "place"}
MailKinds == {"PacketReceive", "PacketSend", "Update"}

ASSUME SessionAssumption ==
    /\ IsFiniteSet(Clients) /\ None \notin Clients
    /\ None \notin [Kinds -> Nat] /\ None \notin [of : Clients, kind : MailKinds]
    /\ PipeCapacity \in Nat \ {0} /\ Times \subseteq Int
    /\ MaxPackets \in Nat /\ MaxSessions \in Nat
    /\ \A Follows \in Starts : Follows \subseteq Clients \X Clients

News == [of : Clients, kind : Kinds, nr : Nat \ {0}]
Ack == [of |-> None, kind |-> "ack", nr |-> 0]
Packets ==  \* what a peer may send
    [type : {"MY_LOCATION", "SET_NAME", "SET_NAME taken"}, client : {None}]
    \cup [type : {"ADD_FOLLOWER", "REMOVE_FOLLOWER", "REMOVE_FOLLOWED"}, client : Clients]

NoNews == [k \in Kinds |-> 0]

VARIABLES
    \* the database
    latest,         \* latest[t][k]: news of kind k that client t has sent in
    times,          \* times[t][n]: the time of the nth place of client t
    watch,          \* watch[f][t]: the news in the watcher f has for t, or None
    \* the session of a client
    sessions,       \* sessions the clients may still begin
    online,         \* the client has one now
    mail,           \* messages in its queue, by kind
    bytes,          \* bytes in the pipe of its queue
    edge,           \* epoll has an event for that pipe
    bufferIn,       \* the packet to read, or None
    remaining,      \* remainingPackets
    bufferOut,      \* packets the socket has not taken yet
    \* the Server thread
    batch,          \* sessions whose event is still to handle
    taken,          \* the message in hand: whose and of which kind
    \* outside
    view,           \* view[f][t][k]: the last news of t the peer of f was sent
    toSend,         \* packets the peers may still send
    \* history
    allowed,        \* allowed[f][t][k]: the last news of t while f watched it
    dropped,        \* dropped[f][t][k]: the last news of t lost with a session
    caughtUp,       \* the session has handled an Update
    cutShort        \* the last notification of the client's followers threw

database == <<latest, times, watch>>
queues   == <<mail, bytes, edge>>
sending  == <<remaining, bufferOut, view>>
server   == <<batch, taken>>
history  == <<allowed, dropped, caughtUp, cutShort>>
vars     == <<database, sessions, online, queues, bufferIn, sending, server, toSend, history>>

NewsTable == [Clients -> [Clients -> [Kinds -> Nat]]]

TypeOK ==
    /\ latest \in [Clients -> [Kinds -> Nat]] /\ times \in [Clients -> Seq(Times)]
    /\ watch \in [Clients -> [Clients -> [Kinds -> Nat] \cup {None}]]
    /\ sessions \in 0..MaxSessions
    /\ mail \in [Clients -> [MailKinds -> Nat]]
    /\ bytes \in [Clients -> 0..PipeCapacity]
    /\ bufferIn \in [Clients -> Packets \cup {None}]
    /\ remaining \in [Clients -> Seq(News)]
    /\ bufferOut \in [Clients -> Seq(News \cup {Ack})]
    /\ batch \in SUBSET Clients
    /\ taken \in [of : Clients, kind : MailKinds] \cup {None}
    /\ {view, allowed, dropped} \subseteq NewsTable
    /\ toSend \in 0..MaxPackets
    /\ {online, edge, caughtUp, cutShort} \subseteq [Clients -> BOOLEAN]

NoMail == [k \in MailKinds |-> 0]
NothingSeen == [f \in Clients |-> [t \in Clients |-> NoNews]]

\* The database is that of an earlier run: some clients follow others and have
\* not been online since; those that follow have a name.
Init ==
    /\ \E Follows \in Starts :
        /\ latest = [f \in Clients |-> [k \in Kinds |->
                IF k = "name" /\ \E t \in Clients : <<f, t>> \in Follows THEN 1 ELSE 0]]
        /\ watch = [f \in Clients |-> [t \in Clients |-> IF <<f, t>> \in Follows THEN NoNews ELSE None]]
        /\ allowed = [f \in Clients |-> [t \in Clients |->
                IF <<f, t>> \in Follows THEN latest[t] ELSE NoNews]]
    /\ times = [s \in Clients |-> <<>>]
    /\ sessions = MaxSessions
    /\ online = [s \in Clients |-> FALSE]
    /\ mail = [s \in Clients |-> NoMail]
    /\ bytes = [s \in Clients |-> 0]
    /\ edge = [s \in Clients |-> FALSE]
    /\ bufferIn = [s \in Clients |-> None]
    /\ remaining = [s \in Clients |-> <<>>]
    /\ bufferOut = [s \in Clients |-> <<>>]
    /\ batch = {} /\ taken = None
    /\ view = NothingSeen /\ dropped = NothingSeen
    /\ toSend = MaxPackets
    /\ caughtUp = [s \in Clients |-> FALSE]
    /\ cutShort = [s \in Clients |-> FALSE]

-----------------------------------------------------------------------------
(* Pushing messages *)

HasByte(s) == bytes[s] < PipeCapacity

\* priorityPush of one message of a kind to the queues of the sessions in S,
\* each of which writes a byte unless its pipe is full.
Mailed(m, S, kind) == [s \in Clients |-> IF s \in S THEN [m[s] EXCEPT ![kind] = @ + 1] ELSE m[s]]
Counted(b, S) == [s \in Clients |-> IF s \in S /\ b[s] < PipeCapacity THEN b[s] + 1 ELSE b[s]]
Woken(e, b, S) == [s \in Clients |-> e[s] \/ (s \in S /\ b[s] < PipeCapacity)]

PushTo(S, kind) ==
    /\ mail' = Mailed(mail, S, kind)
    /\ bytes' = Counted(bytes, S)
    /\ edge' = Woken(edge, bytes, S)

Watchers(t) == {f \in Clients : online[f] /\ watch[f][t] # None}
FullPipes(S) == {s \in S : ~HasByte(s)}

\* The followers that notifyFollowers reaches: it goes through the list in the
\* order of its entries, and a full pipe ends it there with an exception.
ReachedOnlyOne(t) == {{f} : f \in Watchers(t)} \cup {W \in {{}} : Watchers(t) = {}}
Reached(t) ==
    LET full == FullPipes(Watchers(t)) IN
    IF full = {} THEN {Watchers(t)}
    ELSE {before \cup {f} : before \in SUBSET (Watchers(t) \ full), f \in full}

Throws(S) == FullPipes(S) # {}

-----------------------------------------------------------------------------
(* Sending packets *)

\* A table of news once packets have come in their order: the last one counts.
Telling(packets, t, k) == {i \in DOMAIN packets : packets[i].of = t /\ packets[i].kind = k}
With(table, packets) ==
    [t \in Clients |-> [k \in Kinds |->
        LET told == Telling(packets, t, k)
        IN  IF told = {} THEN table[t][k] ELSE packets[Max(told)].nr]]
Shown(s, packets) == [view EXCEPT ![s] = With(@, packets)]

\* sendPacket: the socket takes everything, or the packet waits in bufferOut.
Taken(s, p) == view' = Shown(s, Append(bufferOut[s], p)) /\ bufferOut' = [bufferOut EXCEPT ![s] = <<>>]
KeptInFront(s, p) == bufferOut' = [bufferOut EXCEPT ![s] = <<p>> \o @] /\ UNCHANGED view
Kept(s, p) == bufferOut' = [bufferOut EXCEPT ![s] = Append(@, p)] /\ UNCHANGED view

\* The next of the remaining packets `left', with the queues as they are.  When
\* the notice of a packet that was sent throws, the packet stays in the list.
NextRemainingUnnoticed(s, left) ==
    /\ Taken(s, Head(left)) \/ Kept(s, Head(left))
    /\ remaining' = [remaining EXCEPT ![s] = Tail(left)]
    /\ UNCHANGED queues
NextRemaining(s, left) ==
    \/ /\ Taken(s, Head(left)) /\ PushTo({s}, "PacketSend")
       /\ remaining' = [remaining EXCEPT ![s] = IF HasByte(s) THEN Tail(left) ELSE left]
    \/ /\ Kept(s, Head(left)) /\ UNCHANGED queues
       /\ remaining' = [remaining EXCEPT ![s] = Tail(left)]

sendRemainingData(s, left) ==
    \/ left # <<>> /\ NextRemaining(s, left)
    \/ left = <<>> /\ UNCHANGED <<queues, sending>>

\* The Sender thread, when the socket has room again for n packets.
Writable(s, n) ==
    /\ online[s] /\ n \in 1..Len(bufferOut[s])
    /\ view' = Shown(s, SubSeq(bufferOut[s], 1, n))
    /\ bufferOut' = [bufferOut EXCEPT ![s] = SubSeq(@, n + 1, Len(@))]
    /\ IF n = Len(bufferOut[s]) THEN PushTo({s}, "PacketSend") ELSE UNCHANGED queues
    /\ UNCHANGED <<database, sessions, online, bufferIn, remaining, server, toSend, history>>

-----------------------------------------------------------------------------
(* Sessions come and go *)

\* The end of the handshake: testKey sends OPEN_PROT and registers.
Register(s) ==
    /\ ~online[s] /\ sessions > 0 /\ taken = None
    /\ sessions' = sessions - 1
    /\ online' = [online EXCEPT ![s] = TRUE]
    /\ PushTo({s}, "PacketSend")
    /\ UNCHANGED <<database, bufferIn, sending, server, toSend, history>>

Unsent(s) == bufferOut[s] \o remaining[s]

\* ClientManager destroys the session, for an EraseClient message that may be
\* pending from the end of the handshake on (see Handshake).
Erase(s) ==
    /\ online[s] /\ taken = None /\ sessions > 0
    /\ online' = [online EXCEPT ![s] = FALSE]
    /\ mail' = [mail EXCEPT ![s] = NoMail]
    /\ bytes' = [bytes EXCEPT ![s] = 0]
    /\ edge' = [edge EXCEPT ![s] = FALSE]
    /\ bufferIn' = [bufferIn EXCEPT ![s] = None]
    /\ remaining' = [remaining EXCEPT ![s] = <<>>]
    /\ bufferOut' = [bufferOut EXCEPT ![s] = <<>>]
    /\ batch' = batch \ {s}
    /\ caughtUp' = [caughtUp EXCEPT ![s] = FALSE]
    /\ dropped' = [dropped EXCEPT ![s] = With(@, Unsent(s))]
    /\ UNCHANGED <<database, sessions, taken, view, toSend, allowed, cutShort>>

-----------------------------------------------------------------------------
(* The Receiver thread reads a whole packet; the loop of the Server thread *)

\* One watcher for a pair: a client is not named as a follower a second time, which
\* would give it another one (ClientDataManager has them).
Arrive(s, p) ==
    /\ online[s] /\ toSend > 0 /\ bufferIn[s] = None
    /\ p.type = "ADD_FOLLOWER" => watch[p.client][s] = None
    /\ p.type = "REMOVE_FOLLOWER" => watch[p.client][s] # None
    /\ p.type = "REMOVE_FOLLOWED" => watch[s][p.client] # None
    /\ toSend' = toSend - 1
    /\ bufferIn' = [bufferIn EXCEPT ![s] = p]
    /\ PushTo({s}, "PacketReceive")
    /\ UNCHANGED <<database, sessions, online, sending, server, history>>

Ready == {s \in Clients : online[s] /\ edge[s] /\ bytes[s] > 0}

Wait ==
    /\ batch = {} /\ taken = None /\ Ready # {}
    /\ batch' = Ready
    /\ edge' = [s \in Clients |-> edge[s] /\ s \notin Ready]
    /\ UNCHANGED <<database, sessions, online, mail, bytes, bufferIn, sending, taken>>
    /\ UNCHANGED <<toSend, history>>

\* pop_for(0ms): the set of priority messages is in no particular order.
Take(s, k) ==
    /\ s \in batch /\ taken = None
    /\ mail[s][k] > 0
    /\ mail' = [mail EXCEPT ![s][k] = @ - 1]
    /\ bytes' = [bytes EXCEPT ![s] = @ - 1]
    /\ batch' = batch \ {s}
    /\ taken' = [of |-> s, kind |-> k]
    /\ UNCHANGED <<database, sessions, online, edge, bufferIn, sending, toSend, history>>

-----------------------------------------------------------------------------
(* Handlers of packets *)

\* s has news of kind k in the database.
Publish(s, k) ==
    /\ latest' = [latest EXCEPT ![s][k] = @ + 1]
    /\ allowed' = [f \in Clients |->
            IF watch[f][s] # None THEN [allowed[f] EXCEPT ![s] = latest'[s]] ELSE allowed[f]]
    /\ UNCHANGED watch

\* myLocation: the time is what the peer makes of it (time(nullptr) - deltaTime).
AddPosition(s) == \E time \in Times : times' = [times EXCEPT ![s] = Append(@, time)]

Location(s) ==
    /\ Publish(s, "place") /\ AddPosition(s)
    /\ \E S \in Reached(s) :
        /\ PushTo(S, "Update")
        /\ cutShort' = [cutShort EXCEPT ![s] = Throws(S)]
    /\ UNCHANGED <<sending, dropped, caughtUp>>

\* setName, which answers unless the notification has thrown.  The answer and
\* its notice come after the Updates.
SetName(s) ==
    /\ Publish(s, "name") /\ UNCHANGED times
    /\ \E S \in Reached(s) :
        LET own == s \in S /\ HasByte(s)
            full == bytes[s] + (IF own THEN 1 ELSE 0) = PipeCapacity
        IN
        /\ cutShort' = [cutShort EXCEPT ![s] = Throws(S)]
        /\ \/ /\ Throws(S) /\ PushTo(S, "Update")
              /\ UNCHANGED <<view, bufferOut>>
           \/ /\ ~Throws(S) /\ Kept(s, Ack) /\ PushTo(S, "Update")
           \/ /\ ~Throws(S) /\ Taken(s, Ack)
              /\ mail' = Mailed(Mailed(mail, S, "Update"), {s}, "PacketSend")
              /\ bytes' = Counted(Counted(bytes, S), {s})
              /\ edge' = [Woken(edge, bytes, S) EXCEPT ![s] = @ \/ ~full]
    /\ UNCHANGED <<remaining, dropped, caughtUp>>

\* The name is another client's, or no new one.
SetNameTaken(s) ==
    /\ \/ Taken(s, Ack) /\ PushTo({s}, "PacketSend")
       \/ Kept(s, Ack) /\ UNCHANGED queues
    /\ UNCHANGED <<database, remaining, history>>

Unfollow(f, t) ==
    /\ watch' = [watch EXCEPT ![f][t] = None]
    /\ UNCHANGED <<latest, times, queues, allowed>>

\* A client that has no name cannot be named in a packet.
FollowerPacket(s, p) ==
    /\ \/ /\ p.type = "ADD_FOLLOWER"
          /\ watch' = [watch EXCEPT ![p.client][s] = NoNews]
          /\ allowed' = [allowed EXCEPT ![p.client][s] = latest[s]]
          /\ PushTo({p.client} \cap {f \in Clients : online[f]}, "Update")
          /\ UNCHANGED <<latest, times>>
       \/ p.type = "REMOVE_FOLLOWER" /\ Unfollow(p.client, s)
       \/ p.type = "REMOVE_FOLLOWED" /\ Unfollow(s, p.client)
    /\ UNCHANGED <<sending, dropped, caughtUp, cutShort>>

Named(t) == latest[t]["name"] > 0

HandlePacket ==
    LET s == taken.of
        p == bufferIn[s]
    IN
    /\ taken # None /\ taken.kind = "PacketReceive"
    /\ bufferIn' = [bufferIn EXCEPT ![s] = None]
    /\ taken' = None
    /\ \/ p.type = "MY_LOCATION" /\ Location(s)
       \/ p.type = "SET_NAME" /\ SetName(s)
       \/ p.type = "SET_NAME taken" /\ SetNameTaken(s)
       \/ p.client # None /\ Named(p.client) /\ FollowerPacket(s, p)
       \/ /\ p.client # None /\ ~Named(p.client)
          /\ UNCHANGED <<database, queues, sending, history>>
    /\ UNCHANGED <<sessions, online, batch, toSend>>

-----------------------------------------------------------------------------
(* Handlers of PacketSend and Update *)

HandleSent ==
    /\ taken # None /\ taken.kind = "PacketSend"
    /\ taken' = None
    /\ sendRemainingData(taken.of, remaining[taken.of])
    /\ UNCHANGED <<database, sessions, online, bufferIn, batch, toSend, history>>

Watched(f) == {t \in Clients : watch[f][t] # None}

HasNewName(f, t) == latest[t]["name"] > watch[f][t]["name"]

\* The watcher has the time of the place it has seen, or 0; a place counts as new
\* when it is another one and its time is later.
TimeOf(t, n) == IF n \in DOMAIN times[t] THEN times[t][n] ELSE 0
HasNewPlace(f, t) ==
    /\ Named(t) /\ latest[t]["place"] > watch[f][t]["place"]
    /\ TimeOf(t, latest[t]["place"]) > TimeOf(t, watch[f][t]["place"])
HasNew(f, t, k) == IF k = "name" THEN HasNewName(f, t) ELSE HasNewPlace(f, t)

\* getNewPositions returns a position three times unless it is the only one.
CopiesOfLater(t, k) == IF k = "place" THEN IF latest[t]["place"] > 1 THEN 2 ELSE 0 ELSE 1
CopiesOf(t, k) == IF k = "place" /\ latest[t]["place"] > 1 THEN 3 ELSE 1

\* The news of kind k for f, in some order of the clients.
NewNews(f, k) ==
    LET copies == SetToSeq({c \in Watched(f) \X (1..3) : HasNew(f, c[1], k) /\ c[2] <= CopiesOf(c[1], k)})
    IN  [i \in DOMAIN copies |-> [of |-> copies[i][1], kind |-> k, nr |-> latest[copies[i][1]][k]]]

Seen(f) ==
    [watch EXCEPT ![f] = [t \in Clients |->
        IF t \notin Watched(f) THEN None
        ELSE [k \in Kinds |-> IF HasNew(f, t, k) THEN latest[t][k] ELSE watch[f][t][k]]]]

\* update(): the names, then the places, and the first packet of the list.
HandleUpdate ==
    LET f == taken.of IN
    /\ taken # None /\ taken.kind = "Update"
    /\ taken' = None
    /\ watch' = Seen(f)
    /\ sendRemainingData(f, remaining[f] \o NewNews(f, "name") \o NewNews(f, "place"))
    /\ caughtUp' = [caughtUp EXCEPT ![f] = TRUE]
    /\ UNCHANGED <<latest, times, sessions, online, bufferIn, batch, toSend>>
    /\ UNCHANGED <<allowed, dropped, cutShort>>

-----------------------------------------------------------------------------
ServerStep == Wait \/ HandlePacket \/ HandleSent \/ HandleUpdate
              \/ \E s \in Clients, k \in MailKinds : Take(s, k)
SenderStep == \E s \in Clients : \E n \in 1..Len(bufferOut[s]) : Writable(s, n)
Next ==
    \/ ServerStep \/ SenderStep
    \/ \E s \in Clients : Register(s) \/ Erase(s) \/ \E p \in Packets : Arrive(s, p)

Spec == Init /\ [][Next]_vars

\* ENABLED ServerStep, and what no other step does: written out, since they
\* cost TLC much less than WF_vars(ServerStep), which the first condition is.
ServerReady == taken # None \/ batch # {} \/ Ready # {}
ServerActs == taken' # taken \/ ~(batch' \subseteq batch)

\* The Server thread never stops, and peers go on reading, so that sockets get
\* room again.  Peers need not send, come or go.
FairSpec == Spec /\ ([]<>~ServerReady \/ []<><<ServerActs>>_server) /\ WF_vars(SenderStep)

-----------------------------------------------------------------------------
(* Properties *)

InHand(s, k) == taken = [of |-> s, kind |-> k]
UpdateComes(s) == mail[s]["Update"] > 0 \/ InHand(s, "Update")

\* News that an online follower has not been sent are on their way at every
\* moment: an Update is in its queue, or they are among the remaining packets
\* and an answer of the socket or an Update will bring the next of these.
\* Left behind are only news from before the first Update of a new session, and
\* those whose notification a full pipe cut short: then followers that come
\* later in the list are not told although their own queues have room.
NewsOnTheWay ==
    \A f \in Clients : online[f] =>
        /\ \A t \in Watched(f), k \in Kinds :
            (HasNew(f, t, k) /\ caughtUp[f]) => UpdateComes(f) \/ cutShort[t]
        /\ remaining[f] # <<>> =>
            \/ UpdateComes(f) \/ mail[f]["PacketSend"] > 0 \/ InHand(f, "PacketSend")
            \/ bufferOut[f] # <<>>

\* News nr of t has been sent to f, is still to be sent, or was lost with a session.
Accounted(f, t, k, nr) ==
    \/ nr <= Max({view[f][t][k], dropped[f][t][k]})
    \/ \E i \in DOMAIN Unsent(f) : Unsent(f)[i] = [of |-> t, kind |-> k, nr |-> nr]

\* The last place of t is not later than the one that f has seen: it is no news.
Overtaken(f, t) ==
    /\ latest[t]["place"] > watch[f][t]["place"]
    /\ TimeOf(t, latest[t]["place"]) <= TimeOf(t, watch[f][t]["place"])

\* getNewNames and getNewPositions mark news as seen before they are sent, and what
\* is marked is never sent again.  So what is marked has been sent, is in line to be
\* sent, or was lost with a session that ended; and the same is true of the last
\* news of a client a follower watches, unless they are new to it, or a place whose
\* sender has no name or that is not later than the one that is marked.
LostForCause ==
    \A f \in Clients : \A t \in Watched(f), k \in Kinds :
        /\ Accounted(f, t, k, watch[f][t][k])
        /\ \/ HasNew(f, t, k) \/ Accounted(f, t, k, latest[t][k])
           \/ k = "place" /\ (Overtaken(f, t) \/ ~Named(t))

\* The sessions keep the promise of Feed: in particular no packet that was
\* queued shows a removed follower what came in after its removal.
Promise == INSTANCE Feed WITH grants <- {g \in Clients \X Clients : watch[g[1]][g[2]] # None}
ImplementsFeed == Promise!FeedSpec

\* Messages are in the queue of s and no event will bring the Server thread.
Stranded(s) ==
    /\ \E k \in MailKinds : mail[s][k] > 0
    /\ ~(edge[s] /\ bytes[s] > 0) /\ s \notin batch /\ (taken = None \/ taken.of # s)

\* Once the peers send no more, every online follower has been sent the last
\* news of everyone it follows, unless a message of its queue is stranded, the
\* notification was cut short, no Update has come since it came back, the news
\* were marked as seen in a session that ended, or they are a place that is not
\* later than one it has been sent.
PassedOver(f, t) ==
    Overtaken(f, t) /\ Max({view[f][t]["place"], dropped[f][t]["place"]}) >= watch[f][t]["place"]
CaughtUp(f, t, k) ==
    \/ Max({view[f][t][k], dropped[f][t][k]}) = latest[t][k]
    \/ cutShort[t]
    \/ k = "place" /\ (~Named(t) \/ PassedOver(f, t))
FollowersCatchUp ==
    []<>(\A f \in Clients :
            \/ ~online[f] \/ ~caughtUp[f] \/ Stranded(f)
            \/ \A t \in Watched(f), k \in Kinds : CaughtUp(f, t, k))

-----------------------------------------------------------------------------
(* What the code does not keep: TLC refutes it on the instance of Sessions *)

\* Only with a session that ends are the last news of a client with a name lost.
LostOnlyWithSession ==
    \A f \in Clients : \A t \in Watched(f), k \in Kinds :
        HasNew(f, t, k) \/ Accounted(f, t, k, latest[t][k]) \/ (k = "place" /\ ~Named(t))
=============================================================================
