----------------------------- MODULE ServerCore -----------------------------
(***************************************************************************)
(* The life of a connection in the server: Acceptor::recv accepts it in    *)
(* the Receiver thread, ClientManager builds its ProtocolClient in the     *)
(* Server thread and hands its descriptors to the three epoll loops, the   *)
(* loops run its handlers, an EraseClient message destroys it and frees    *)
(* its descriptor for the next connection, and main shuts the loops down.  *)
(*                                                                         *)
(* A thread is a BasicThread: it drains its message queue, waits on epoll  *)
(* once (edge triggered, with no timeout) and runs a handler for every     *)
(* event of the batch it got.  A handler is one step unless it pushes to a *)
(* queue that may be full; the steps of the threads interleave.  Queues    *)
(* are those of BlockingQueue: priority messages first, in any order.      *)
(*                                                                         *)
(* What a session does with a packet is left to other modules: here it may *)
(* answer, which brings a PacketSend when the socket has taken the answer, *)
(* or fail, which closes the connection.  Updates of other sessions are    *)
(* left out.                                                               *)
(* Using an object after its destruction is undefined behaviour: either    *)
(* nothing comes of it or the process dies.                                *)
(***************************************************************************)
EXTENDS Integers, Sequences, FiniteSets

CONSTANTS
    Conns,          \* connections, and the client objects built for them
    Fds,            \* descriptors accept can return
    None,           \* no connection, no descriptor
    Operator,       \* the person at the terminal, sender of `close nr'
    QueueSize,      \* maxQueueSize of every queue
    MaxPackets,     \* bound: packets all peers send
    MaxMail,        \* bound: messages of one kind in a session's queue
    MaxErase,       \* bound: equal EraseClient messages pending
    MaxCommands     \* bound: `close nr' commands

ASSUME CoreAssumption ==
    /\ None \notin Conns \cup Fds
    /\ Operator \notin Conns
    /\ Conns \cap {"Close", "manager", "acceptor"} = {}
    /\ QueueSize \in Nat \ {0}
    /\ {MaxPackets, MaxMail, MaxErase, MaxCommands} \subseteq Nat

Threads == {"server", "receiver", "sender"}
Kinds == {"Close", "PacketReceive", "PacketSend"}   \* all priority messages
EraseMessage == [by : Conns \cup {Operator}, fd : Fds]

VARIABLES
    \* the kernel
    peer,           \* the remote side: "none", "open" or "closed"
    backlog,        \* connections accept has not returned yet
    acceptEdge,     \* epoll has an event for the listening socket
    fdOf,           \* the open descriptor of a connection's socket
    toSend,         \* packets the peers may still send
    unread,         \* packets in the socket
    socketEdge,     \* the receiver's epoll has an event for the socket
    writeEdge,      \* the sender's epoll has an event for the socket
    \* ClientManager
    clientsMap,     \* descriptor -> client
    eraseMail,      \* its pending EraseClient messages (priority)
    addMail,        \* its pending AddClient messages
    managerEdge,    \* the server's epoll has an event for its queue
    \* a client
    object,         \* "none", "live" or "dead"
    full,           \* bufferIn is in stage Full
    noticed,        \* ClientBuffer::close
    mail,           \* messages in the session's queue, by kind
    mailEdge,       \* the server's epoll has an event for that queue
    \* the threads
    inbox,          \* queue of a thread: clients to register, or "Close"
    registered,     \* clients in the epoll of a thread
    pc,             \* "read", "wait", "handle", a blocking push, or "done"
    batch,          \* events of the thread's epoll_wait still to handle
    exit,           \* BasicThread::exit
    current,        \* the client a blocking push is about
    main,           \* where main is
    commands,       \* commands the operator has left
    aborted,        \* the process died
    erased          \* history: who asked for each erased client

kernel  == <<peer, backlog, acceptEdge, fdOf, toSend, unread, socketEdge, writeEdge>>
manager == <<clientsMap, eraseMail, addMail, managerEdge>>
client  == <<object, full, noticed, mail, mailEdge>>
loops   == <<inbox, registered, pc, batch, exit, current>>
rest    == <<main, commands, erased>>
vars    == <<kernel, manager, client, loops, rest, aborted>>

Events == Conns \cup {"manager", "acceptor"}
Pcs == {"read", "wait", "handle", "pushClient", "pushServer", "pushReceiver",
        "pushSender", "done"}

TypeOK ==
    /\ peer \in [Conns -> {"none", "open", "closed"}]
    /\ backlog \in SUBSET Conns
    /\ fdOf \in [Conns -> Fds \cup {None}]
    /\ toSend \in 0..MaxPackets /\ unread \in [Conns -> 0..MaxPackets]
    /\ clientsMap \in [Fds -> Conns \cup {None}]
    /\ eraseMail \in [EraseMessage -> 0..MaxErase]
    /\ addMail \in Seq(Conns) /\ Len(addMail) <= QueueSize
    /\ object \in [Conns -> {"none", "live", "dead"}]
    /\ mail \in [Conns -> [Kinds -> 0..MaxMail]]
    /\ \A t \in Threads :
        inbox[t] \in Seq(Conns \cup {"Close"}) /\ Len(inbox[t]) <= QueueSize
    /\ registered \in [Threads -> SUBSET Conns]
    /\ pc \in [Threads -> Pcs]
    /\ batch \in [Threads -> SUBSET Events]
    /\ current \in [Threads -> Conns \cup {None}]
    /\ main \in {"running", "sender", "receiver", "server", "exited"}
    /\ {full, noticed, mailEdge, socketEdge, writeEdge} \subseteq [Conns -> BOOLEAN]
    /\ exit \in [Threads -> BOOLEAN]
    /\ {acceptEdge, managerEdge, aborted} \subseteq BOOLEAN

\* main has started the threads and registered ClientManager and Acceptor.
Init ==
    /\ peer = [c \in Conns |-> "none"]
    /\ backlog = {} /\ acceptEdge = FALSE
    /\ fdOf = [c \in Conns |-> None]
    /\ toSend = MaxPackets
    /\ unread = [c \in Conns |-> 0]
    /\ socketEdge = [c \in Conns |-> FALSE]
    /\ writeEdge = [c \in Conns |-> FALSE]
    /\ clientsMap = [f \in Fds |-> None]
    /\ eraseMail = [m \in EraseMessage |-> 0]
    /\ addMail = <<>> /\ managerEdge = FALSE
    /\ object = [c \in Conns |-> "none"]
    /\ full = [c \in Conns |-> FALSE]
    /\ noticed = [c \in Conns |-> FALSE]
    /\ mail = [c \in Conns |-> [k \in Kinds |-> 0]]
    /\ mailEdge = [c \in Conns |-> FALSE]
    /\ inbox = [t \in Threads |-> <<>>]
    /\ registered = [t \in Threads |-> {}]
    /\ pc = [t \in Threads |-> "read"]
    /\ batch = [t \in Threads |-> {}]
    /\ exit = [t \in Threads |-> FALSE]
    /\ current = [t \in Threads |-> None]
    /\ main = "running" /\ commands = MaxCommands
    /\ aborted = FALSE /\ erased = {}

-----------------------------------------------------------------------------
(* The peers.  Every arrival at a socket is an edge for its epoll. *)

Connect(c) ==
    /\ peer[c] = "none"
    /\ peer' = [peer EXCEPT ![c] = "open"]
    /\ backlog' = backlog \cup {c}
    /\ acceptEdge' = TRUE
    /\ UNCHANGED <<fdOf, toSend, unread, socketEdge, writeEdge>>

SendPacket(c) ==
    /\ peer[c] = "open" /\ toSend > 0
    /\ toSend' = toSend - 1
    /\ unread' = [unread EXCEPT ![c] = @ + 1]
    /\ socketEdge' = [socketEdge EXCEPT ![c] = TRUE]
    /\ UNCHANGED <<peer, backlog, acceptEdge, fdOf, writeEdge>>

Disconnect(c) ==
    /\ peer[c] = "open"
    /\ peer' = [peer EXCEPT ![c] = "closed"]
    /\ socketEdge' = [socketEdge EXCEPT ![c] = TRUE]
    /\ UNCHANGED <<backlog, acceptEdge, fdOf, toSend, unread, writeEdge>>

Peers ==
    /\ \E c \in Conns : Connect(c) \/ SendPacket(c) \/ Disconnect(c)
    /\ UNCHANGED <<manager, client, loops, rest, aborted>>

-----------------------------------------------------------------------------
(* The loop of BasicThread: readMessage, then readEPoll. *)

\* Another ordinary message fits into the queue of t.
HasRoom(t) == Len(inbox[t]) < QueueSize

OnwardForever(t, b) == IF b # {} THEN "handle" ELSE "read"
\* Where t goes on when the events b of its batch are left.
Onward(t, b) == IF b # {} THEN "handle" ELSE IF exit[t] THEN "done" ELSE "read"

\* The process dies: an object that is gone is used, or a signal kills it.
Dies ==
    /\ aborted' = TRUE
    /\ UNCHANGED <<kernel, manager, client, loops, rest>>

\* addEPollEvent.  A pipe or socket that is ready already gives an event.
Register(t) ==
    LET c == Head(inbox[t]) IN
    /\ pc[t] = "read" /\ inbox[t] # <<>>
    /\ c # "Close"
    /\ \/ /\ object[c] = "live"
          /\ inbox' = [inbox EXCEPT ![t] = Tail(@)]
          /\ registered' = [registered EXCEPT ![t] = @ \cup {c}]
          /\ writeEdge' = IF t = "sender" THEN [writeEdge EXCEPT ![c] = TRUE] ELSE writeEdge
          /\ UNCHANGED <<peer, backlog, acceptEdge, fdOf, toSend, unread, socketEdge>>
          /\ UNCHANGED <<manager, client, pc, batch, exit, current, rest, aborted>>
       \/ /\ object[c] = "dead"
          /\ inbox' = [inbox EXCEPT ![t] = Tail(@)]
          /\ UNCHANGED <<kernel, manager, client, registered, pc, batch, exit, current>>
          /\ UNCHANGED <<rest, aborted>>
       \/ object[c] = "dead" /\ Dies

ReadClose(t) ==
    /\ pc[t] = "read" /\ inbox[t] # <<>>
    /\ Head(inbox[t]) = "Close"
    /\ inbox' = [inbox EXCEPT ![t] = Tail(@)]
    /\ exit' = [exit EXCEPT ![t] = TRUE]
    /\ pc' = [pc EXCEPT ![t] = "wait"]
    /\ UNCHANGED <<kernel, manager, client, registered, batch, current, rest, aborted>>

\* pop_for(0ms) finds nothing.
ReadEmpty(t) ==
    /\ pc[t] = "read" /\ inbox[t] = <<>>
    /\ pc' = [pc EXCEPT ![t] = "wait"]
    /\ UNCHANGED <<kernel, manager, client, inbox, registered, batch, exit, current>>
    /\ UNCHANGED <<rest, aborted>>

HasMail(c) == \E k \in Kinds : mail[c][k] > 0
ErasePending == {m \in EraseMessage : eraseMail[m] > 0}

\* epoll_wait reports an edge once, and only while the descriptor is ready.
ServerEvents ==
    {c \in registered["server"] : mailEdge[c] /\ HasMail(c)}
    \cup (IF managerEdge /\ (ErasePending # {} \/ addMail # <<>>) THEN {"manager"} ELSE {})
ReceiverEvents ==
    {c \in registered["receiver"] : socketEdge[c]}
    \cup (IF acceptEdge /\ backlog # {} THEN {"acceptor"} ELSE {})
SenderEvents == {c \in registered["sender"] : writeEdge[c]}

Reset(edge, b) == [c \in Conns |-> edge[c] /\ c \notin b]

ServerWait ==
    /\ pc["server"] = "wait"
    /\ batch' = [batch EXCEPT !["server"] = ServerEvents]
    /\ pc' = [pc EXCEPT !["server"] = Onward("server", ServerEvents)]
    /\ mailEdge' = Reset(mailEdge, ServerEvents)
    /\ managerEdge' = (managerEdge /\ "manager" \notin ServerEvents)
    /\ UNCHANGED <<kernel, clientsMap, eraseMail, addMail, object, full, noticed, mail>>
    /\ UNCHANGED <<inbox, registered, exit, current, rest, aborted>>

ReceiverWait ==
    /\ pc["receiver"] = "wait"
    /\ batch' = [batch EXCEPT !["receiver"] = ReceiverEvents]
    /\ pc' = [pc EXCEPT !["receiver"] = Onward("receiver", ReceiverEvents)]
    /\ socketEdge' = Reset(socketEdge, ReceiverEvents)
    /\ acceptEdge' = (acceptEdge /\ "acceptor" \notin ReceiverEvents)
    /\ UNCHANGED <<peer, backlog, fdOf, toSend, unread, writeEdge, manager, client>>
    /\ UNCHANGED <<inbox, registered, exit, current, rest, aborted>>

SenderWait ==
    /\ pc["sender"] = "wait"
    /\ batch' = [batch EXCEPT !["sender"] = SenderEvents]
    /\ pc' = [pc EXCEPT !["sender"] = Onward("sender", SenderEvents)]
    /\ writeEdge' = Reset(writeEdge, SenderEvents)
    /\ UNCHANGED <<peer, backlog, acceptEdge, fdOf, toSend, unread, socketEdge>>
    /\ UNCHANGED <<manager, client, inbox, registered, exit, current, rest, aborted>>

\* Thread t is done with event e of its batch.
Handled(t, e) ==
    /\ batch' = [batch EXCEPT ![t] = @ \ {e}]
    /\ pc' = [pc EXCEPT ![t] = Onward(t, batch[t] \ {e})]

\* The handler of a client that no longer exists.
HandleDead(t, c) ==
    /\ pc[t] = "handle" /\ c \in batch[t]
    /\ object[c] = "dead"
    /\ \/ /\ Handled(t, c)
          /\ UNCHANGED <<kernel, manager, client, inbox, registered, exit, current>>
          /\ UNCHANGED <<rest, aborted>>
       \/ Dies

-----------------------------------------------------------------------------
(* Acceptor::recv, in the Receiver thread: one accept for one event. *)

FreeFds == {f \in Fds : \A c \in Conns : fdOf[c] # f}

\* The kernel gives the connection a descriptor; setNonBlock may fail.
Accept(c, f) ==
    /\ pc["receiver"] = "handle" /\ "acceptor" \in batch["receiver"]
    /\ c \in backlog /\ f \in FreeFds
    /\ backlog' = backlog \ {c}
    /\ \/ /\ fdOf' = [fdOf EXCEPT ![c] = f]
          /\ current' = [current EXCEPT !["receiver"] = c]
          /\ pc' = [pc EXCEPT !["receiver"] = "pushClient"]
          /\ batch' = [batch EXCEPT !["receiver"] = @ \ {"acceptor"}]
       \/ /\ Handled("receiver", "acceptor")
          /\ UNCHANGED <<fdOf, current>>
    /\ UNCHANGED <<peer, acceptEdge, toSend, unread, socketEdge, writeEdge>>
    /\ UNCHANGED <<manager, client, inbox, registered, exit, rest, aborted>>

AcceptFails ==
    /\ pc["receiver"] = "handle" /\ "acceptor" \in batch["receiver"]
    /\ backlog = {} \/ FreeFds = {}
    /\ Handled("receiver", "acceptor")
    /\ UNCHANGED <<kernel, manager, client, inbox, registered, exit, current, rest, aborted>>

PushClient ==
    /\ pc["receiver"] = "pushClient"
    /\ Len(addMail) < QueueSize
    /\ addMail' = Append(addMail, current["receiver"])
    /\ managerEdge' = TRUE
    /\ current' = [current EXCEPT !["receiver"] = None]
    /\ pc' = [pc EXCEPT !["receiver"] = Onward("receiver", batch["receiver"])]
    /\ UNCHANGED <<kernel, clientsMap, eraseMail, client, inbox, registered, batch>>
    /\ UNCHANGED <<exit, rest, aborted>>

-----------------------------------------------------------------------------
(* ClientManager::recv, in the Server thread: one message for one event.   *)

\* The manager's queue gives an AddClient: priority messages come first.
NextIsAddInAnyOrder == addMail # <<>>
NextIsAdd == ErasePending = {} /\ addMail # <<>>

\* The batch after one message of the manager.
BatchAfterMessageDraining == batch["server"]
BatchAfterMessage == batch["server"] \ {"manager"}

\* ClientBuffer::send called by a session that has the messages `left'.  A peer
\* that has gone resets the connection, an edge for the receiver, and may have
\* done so before: the packet is refused, which closes the buffer.
Written(c, left) ==
    /\ socketEdge' = [socketEdge EXCEPT ![c] = @ \/ peer[c] = "closed"]
    /\ UNCHANGED <<peer, backlog, acceptEdge, fdOf, toSend, unread, writeEdge>>
    /\ \/ /\ ~noticed[c] /\ left["PacketSend"] < MaxMail
          /\ mail' = [mail EXCEPT ![c] = [left EXCEPT !["PacketSend"] = @ + 1]]
          /\ mailEdge' = [mailEdge EXCEPT ![c] = TRUE]
          /\ UNCHANGED noticed
       \/ /\ peer[c] = "closed" \/ noticed[c]
          /\ noticed' = [noticed EXCEPT ![c] = TRUE]
          /\ mail' = [mail EXCEPT ![c] = left]
          /\ UNCHANGED mailEdge

\* addClient up to its first push: the session exists, has sent OPEN_ENCR and
\* is in the map.  Its pipe is readable when the loop registers it.
AddClient ==
    LET c == Head(addMail) IN
    /\ pc["server"] = "handle" /\ "manager" \in batch["server"]
    /\ NextIsAdd
    /\ addMail' = Tail(addMail)
    /\ clientsMap' = [clientsMap EXCEPT ![fdOf[c]] = c]
    /\ object' = [object EXCEPT ![c] = "live"]
    /\ Written(c, mail[c])
    /\ current' = [current EXCEPT !["server"] = c]
    /\ pc' = [pc EXCEPT !["server"] = "pushServer"]
    /\ batch' = [batch EXCEPT !["server"] = BatchAfterMessage]
    /\ UNCHANGED <<eraseMail, managerEdge, full, inbox, registered, exit, rest, aborted>>

FdsKeptOpen(c) == fdOf
FdsAfterErase(c) == [fdOf EXCEPT ![c] = None]

\* Building the session may throw, when no descriptors are left for its pipe:
\* the socket is closed with its buffer, and nothing else remembers the client.
AddClientFails ==
    LET c == Head(addMail) IN
    /\ pc["server"] = "handle" /\ "manager" \in batch["server"]
    /\ NextIsAdd
    /\ addMail' = Tail(addMail)
    /\ fdOf' = FdsAfterErase(c)
    /\ socketEdge' = [socketEdge EXCEPT ![c] = FALSE]
    /\ Handled("server", "manager")
    /\ UNCHANGED <<peer, backlog, acceptEdge, toSend, unread, writeEdge>>
    /\ UNCHANGED <<clientsMap, eraseMail, managerEdge, client, inbox, registered>>
    /\ UNCHANGED <<exit, current, rest, aborted>>

\* The three pushes of addClient, each of which may block.
PushStepCopied ==
    [pushServer   |-> [to |-> "server",   next |-> "pushReceiver"],
     pushReceiver |-> [to |-> "receiver", next |-> "pushSender"],
     pushSender   |-> [to |-> "receiver", next |-> "onward"]]
PushStep ==
    [pushServer   |-> [to |-> "server",   next |-> "pushReceiver"],
     pushReceiver |-> [to |-> "receiver", next |-> "pushSender"],
     pushSender   |-> [to |-> "sender",   next |-> "onward"]]

PushEvent ==
    /\ pc["server"] \in DOMAIN PushStep
    /\ LET step == PushStep[pc["server"]]
           last == step.next = "onward"
       IN  /\ HasRoom(step.to)
           /\ inbox' = [inbox EXCEPT ![step.to] = Append(@, current["server"])]
           /\ pc' = [pc EXCEPT !["server"] =
                        IF last THEN Onward("server", batch["server"]) ELSE step.next]
           /\ current' = [current EXCEPT !["server"] = IF last THEN None ELSE @]
    /\ UNCHANGED <<kernel, manager, client, registered, batch, exit, rest, aborted>>

MapAfterErase(f) == [clientsMap EXCEPT ![f] = None]

\* eraseClient destroys the client; its socket closes and leaves both epolls.
\* Its pipe is never closed, so it stays in the server's epoll, edge and all.
EraseClient(m) ==
    LET c == clientsMap[m.fd] IN
    /\ pc["server"] = "handle" /\ "manager" \in batch["server"]
    /\ m \in ErasePending
    /\ eraseMail' = [eraseMail EXCEPT ![m] = @ - 1]
    /\ batch' = [batch EXCEPT !["server"] = BatchAfterMessage]
    /\ pc' = [pc EXCEPT !["server"] = Onward("server", BatchAfterMessage)]
    /\ \/ /\ c = None
          /\ UNCHANGED <<kernel, clientsMap, object, registered, erased>>
       \/ /\ c # None
          /\ clientsMap' = MapAfterErase(m.fd)
          /\ object' = [object EXCEPT ![c] = "dead"]
          /\ fdOf' = FdsAfterErase(c)
          /\ socketEdge' = [socketEdge EXCEPT ![c] = FALSE]
          /\ writeEdge' = [writeEdge EXCEPT ![c] = FALSE]
          /\ registered' = [t \in Threads |->
                IF t = "server" THEN registered[t] ELSE registered[t] \ {c}]
          /\ erased' = erased \cup {[conn |-> c, by |-> m.by]}
          /\ UNCHANGED <<peer, backlog, acceptEdge, toSend, unread>>
    /\ UNCHANGED <<addMail, managerEdge, full, noticed, mail, mailEdge>>
    /\ UNCHANGED <<inbox, exit, current, main, commands, aborted>>

-----------------------------------------------------------------------------
(* ProtocolClient::recv, in the Server thread: one message for one event.  *)

\* closeConnection, n times.
RequestErase(c, n) ==
    LET m == [by |-> c, fd |-> fdOf[c]] IN
    /\ eraseMail[m] + n <= MaxErase
    /\ eraseMail' = [eraseMail EXCEPT ![m] = @ + n]
    /\ managerEdge' = (managerEdge \/ n > 0)
    /\ UNCHANGED <<clientsMap, addMail>>

\* How often a message makes the session ask for its end.  The packet with the
\* test key runs two stages, each of which may; the second finds no packet.
Requests == [Close |-> {1}, PacketSend |-> {0}, PacketReceive |-> 0..2]

HandleClient(c) ==
    /\ pc["server"] = "handle" /\ c \in batch["server"]
    /\ object[c] = "live"
    /\ \E k \in Kinds :
        LET left == [mail[c] EXCEPT ![k] = @ - 1] IN
        /\ mail[c][k] > 0
        /\ full' = [full EXCEPT ![c] = @ /\ k # "PacketReceive"]
        /\ \E n \in Requests[k] : RequestErase(c, n)
        /\ \/ /\ mail' = [mail EXCEPT ![c] = left]
              /\ UNCHANGED <<kernel, noticed, mailEdge>>
           \/ k = "PacketReceive" /\ Written(c, left)
    /\ Handled("server", c)
    /\ UNCHANGED <<object, inbox, registered, exit, current, rest, aborted>>

\* The second packet sent to a peer that has gone raises SIGPIPE, which the
\* server leaves at its default.
BrokenPipe(c) ==
    /\ pc["server"] = "handle" /\ c \in batch["server"]
    /\ object[c] = "live" /\ peer[c] = "closed" /\ ~noticed[c]
    /\ mail[c]["PacketReceive"] > 0
    /\ Dies

-----------------------------------------------------------------------------
(* ClientBuffer::recv in the Receiver thread, ClientBuffer::send in the    *)
(* Sender thread.                                                          *)

PushMail(c, k) ==
    /\ mail[c][k] < MaxMail
    /\ mail' = [mail EXCEPT ![c][k] = @ + 1]
    /\ mailEdge' = [mailEdge EXCEPT ![c] = TRUE]

\* A packet is read unless the last one is still in bufferIn; the end of the
\* stream is seen only when nothing is left to read before it.
HandleBuffer(c) ==
    LET readable == ~noticed[c] /\ ~full[c]
        reads == readable /\ unread[c] > 0
        ends == readable /\ unread[c] = 0 /\ peer[c] = "closed"
    IN
    /\ pc["receiver"] = "handle" /\ c \in batch["receiver"]
    /\ object[c] = "live"
    /\ full' = [full EXCEPT ![c] = @ \/ reads]
    /\ unread' = [unread EXCEPT ![c] = IF reads THEN @ - 1 ELSE @]
    /\ noticed' = [noticed EXCEPT ![c] = @ \/ ends]
    /\ IF reads THEN PushMail(c, "PacketReceive")
       ELSE IF ends \/ noticed[c] THEN PushMail(c, "Close")
       ELSE UNCHANGED <<mail, mailEdge>>
    /\ Handled("receiver", c)
    /\ UNCHANGED <<peer, backlog, acceptEdge, fdOf, toSend, socketEdge, writeEdge>>
    /\ UNCHANGED <<manager, object, inbox, registered, exit, current, rest, aborted>>

\* The sockets take what is written, so the Sender finds nothing to send.
HandleWritable(c) ==
    /\ pc["sender"] = "handle" /\ c \in batch["sender"]
    /\ object[c] = "live"
    /\ Handled("sender", c)
    /\ UNCHANGED <<kernel, manager, client, inbox, registered, exit, current, rest, aborted>>

-----------------------------------------------------------------------------
(* main: `close nr', then `closeAll' *)

CloseCommand(f) ==
    LET m == [by |-> Operator, fd |-> f] IN
    /\ main = "running" /\ commands > 0 /\ eraseMail[m] < MaxErase
    /\ commands' = commands - 1
    /\ eraseMail' = [eraseMail EXCEPT ![m] = @ + 1]
    /\ managerEdge' = TRUE
    /\ UNCHANGED <<kernel, clientsMap, addMail, client, loops, main, erased, aborted>>

\* main pushes Close to t once the thread before it, if any, has been joined.
CloseThread(t) ==
    /\ main = CASE t = "sender" -> "running" [] t = "receiver" -> "sender"
                [] t = "server" -> "receiver"
    /\ main \in Threads => pc[main] = "done"
    /\ HasRoom(t)
    /\ inbox' = [inbox EXCEPT ![t] = Append(@, "Close")]
    /\ main' = t
    /\ UNCHANGED <<kernel, manager, client, registered, pc, batch, exit, current>>
    /\ UNCHANGED <<commands, erased, aborted>>

Exit ==
    /\ main = "server" /\ pc["server"] = "done"
    /\ main' = "exited"
    /\ UNCHANGED <<kernel, manager, client, loops, commands, erased, aborted>>

-----------------------------------------------------------------------------

Loop(t) == Register(t) \/ ReadClose(t) \/ ReadEmpty(t) \/ \E c \in Conns : HandleDead(t, c)
ServerStep ==
    \/ Loop("server") \/ ServerWait \/ AddClient \/ AddClientFails \/ PushEvent
    \/ \E m \in EraseMessage : EraseClient(m)
    \/ \E c \in Conns : HandleClient(c) \/ BrokenPipe(c)
ReceiverStep ==
    \/ Loop("receiver") \/ ReceiverWait \/ AcceptFails \/ PushClient
    \/ \E c \in Conns, f \in Fds : Accept(c, f)
    \/ \E c \in Conns : HandleBuffer(c)
SenderStep ==
    \/ Loop("sender") \/ SenderWait
    \/ \E c \in Conns : HandleWritable(c)
Closing == CloseThread("receiver") \/ CloseThread("server") \/ Exit

Next ==
    /\ ~aborted
    /\ \/ Peers \/ ServerStep \/ ReceiverStep \/ SenderStep
       \/ Closing \/ CloseThread("sender")
       \/ \E f \in Fds : CloseCommand(f)

Spec == Init /\ [][Next]_vars

\* The three threads keep running and a join that can return does; peers and
\* the operator owe nothing.
FairSpec ==
    /\ Spec
    /\ WF_vars(~aborted /\ ServerStep)
    /\ WF_vars(~aborted /\ ReceiverStep)
    /\ WF_vars(~aborted /\ SenderStep)
    /\ WF_vars(~aborted /\ Closing)

-----------------------------------------------------------------------------
(* Properties *)

\* A client is destroyed only for a message of its own session or of the
\* operator, although EraseClient names a descriptor that the kernel hands to
\* the next connection as soon as it is closed (ClientManager::eraseClient): a
\* late duplicate must be taken from the queue before that connection's
\* AddClient.
EraseHitsIssuer == \A e \in erased : e.by \in {e.conn, Operator}

Pending(c) == (IF current["receiver"] = c THEN 1 ELSE 0)
              + Cardinality({i \in DOMAIN addMail : addMail[i] = c})
              + (IF \E f \in Fds : clientsMap[f] = c THEN 1 ELSE 0)

\* A connection's descriptor is open exactly as long as one party is bound to
\* close it: the accept in progress, a pending AddClient or the client in the
\* map; the map knows it under that descriptor, and addClient's emplace will
\* not meet another client there, which would destroy the new session unseen
\* (Acceptor::recv, addClient, eraseClient).
DescriptorOwned ==
    /\ \A c \in Conns : Pending(c) = IF fdOf[c] = None THEN 0 ELSE 1
    /\ \A f \in Fds : clientsMap[f] # None =>
        fdOf[clientsMap[f]] = f /\ object[clientsMap[f]] = "live"
    /\ \A i \in DOMAIN addMail : clientsMap[fdOf[addMail[i]]] = None

Owed(c, t) == current["server"] = c /\
    t \in CASE pc["server"] = "pushServer" -> Threads
            [] pc["server"] = "pushReceiver" -> {"receiver", "sender"}
            [] OTHER -> {"sender"}

\* A live client is registered once with each loop, or is still on its way there
\* (ClientManager::addClient and BasicThread::readMessage): registered twice,
\* epoll_ctl fails and the exception ends the process; not at all, it is deaf.
RegisteredOnce ==
    \A c \in Conns, t \in Threads : object[c] = "live" =>
        (IF Owed(c, t) THEN 1 ELSE 0)
        + Cardinality({i \in DOMAIN inbox[t] : inbox[t][i] = c})
        + (IF c \in registered[t] THEN 1 ELSE 0) = 1

\* The Server thread both erases clients and registers them: what its own queue
\* holds still exists when the loop reads it, because one event of the manager
\* takes one message.  (Behind a Close it is never read.)
ServerRegistersLive ==
    ~exit["server"] => \A i \in DOMAIN inbox["server"] :
        inbox["server"][i] \in Conns => object[inbox["server"][i]] = "live"

\* addClient pushes to the queue of the thread it runs in, and would wait for
\* itself if that queue were full (ClientManager.cpp:87-91).  A queue of two is
\* enough: the loop has drained it, or has left one client behind a Close.
NoSelfBlock == pc["server"] = "pushServer" => HasRoom("server")

\* How far a connection has come.
Stage(c) ==
    CASE object[c] = "live" -> "served"
      [] object[c] = "dead" -> "gone"
      [] object[c] = "none" /\ fdOf[c] # None -> "accepted"
      [] object[c] = "none" /\ fdOf[c] = None ->
            IF c \in backlog THEN "waiting" ELSE IF peer[c] = "none" THEN "away" ELSE "gone"

\* Three threads, their queues and a map keyed by descriptors keep the promise of
\* Connection: in particular a message to the manager that names only a descriptor
\* ends the connection it was meant for, or none (Acceptor::recv, ClientManager::recv).
Promise == INSTANCE Connection WITH
    stage <- [c \in Conns |-> Stage(c)], descriptor <- fdOf, requests <- ErasePending
ImplementsConnection == Promise!ConnectionSpec

\* The Server thread waits for room in a queue that is not read any more: that
\* of a loop that has ended, or its own (if that has one place: NoSelfBlock).
Jammed ==
    /\ pc["server"] \in DOMAIN PushStep
    /\ LET t == PushStep[pc["server"]].to
       IN  ~HasRoom(t) /\ (t = "server" \/ pc[t] = "done")

\* Once main has left its loop the three joins return (main.cpp:62-76), whatever
\* the threads were blocked on, unless clients that are still being added fill
\* the queue of a loop that has ended.
Shutdown == (main = "sender") ~> (main = "exited" \/ aborted \/ Jammed)

-----------------------------------------------------------------------------
(* What comments of the source say, and the code does not keep *)

\* The joins return in any case (main.cpp:62-76).
JoinsReturn == (main = "sender") ~> (main = "exited" \/ aborted)

\* "Add buffer to sender": the buffer the Sender is about to register exists
\* (ClientManager.cpp:100, BasicThread.cpp:27-33).
SenderRegistersLive ==
    ~exit["sender"] => \A i \in DOMAIN inbox["sender"] :
        inbox["sender"][i] \in Conns => object[inbox["sender"][i]] = "live"

\* "notify client if connection is closed": a registered client whose peer has
\* gone is told, and erased (ClientBuffer.cpp:96, ProtocolClient.cpp:39-43).
ClosedClientErased ==
    \A c \in Conns :
        (c \in registered["receiver"] /\ peer[c] = "closed")
            ~> (object[c] = "dead" \/ main # "running" \/ aborted)
=============================================================================
