-------------------------- MODULE ServerCore_proofs --------------------------
(***************************************************************************)
(* Proofs about ServerCore, for any number of connections and descriptors: *)
(* who owns a descriptor, why an erase message that names only the         *)
(* descriptor never hits the next connection that got it, and how a client *)
(* gets into the three epolls.  What follows for a connection as a whole   *)
(* is that the server implements Connection.                               *)
(***************************************************************************)
EXTENDS ServerCore, SequenceTheorems, FiniteSetTheorems, TLAPS

\* The part of TypeOK that the other proofs need.
Typed ==
    /\ peer \in [Conns -> {"none", "open", "closed"}]
    /\ backlog \in SUBSET Conns
    /\ fdOf \in [Conns -> Fds \cup {None}]
    /\ clientsMap \in [Fds -> Conns \cup {None}]
    /\ eraseMail \in [EraseMessage -> Nat]
    /\ addMail \in Seq(Conns)
    /\ object \in [Conns -> {"none", "live", "dead"}]
    /\ inbox \in [Threads -> Seq(Conns \cup {"Close"})]
    /\ registered \in [Threads -> SUBSET Conns]
    /\ pc \in [Threads -> Pcs]
    /\ batch \in [Threads -> SUBSET Events]
    /\ exit \in [Threads -> BOOLEAN]
    /\ current \in [Threads -> Conns \cup {None}]

typed == <<peer, backlog, fdOf, clientsMap, eraseMail, addMail, object, inbox, registered,
           pc, batch, exit, current>>

LEMMA TypedInit ==
    ASSUME Init
    PROVE  Typed
BY DEF Init, Typed, Pcs

LEMMA OnwardType ==
    ASSUME NEW t, NEW b
    PROVE  Onward(t, b) \in {"handle", "read", "done"}
BY DEF Onward

LEMMA HandledTyped ==
    ASSUME Typed, NEW t \in Threads, NEW e, Handled(t, e)
    PROVE  /\ batch' \in [Threads -> SUBSET Events]
           /\ pc' \in [Threads -> Pcs]
BY OnwardType DEF Typed, Handled, Pcs

LEMMA LoopTyped ==
    ASSUME Typed, NEW t \in Threads, Loop(t)
    PROVE  Typed'
<1>1. CASE Register(t)
    <2> DEFINE c == Head(inbox[t])
    <2>1. inbox[t] \in Seq(Conns \cup {"Close"}) /\ inbox[t] # <<>> /\ c # "Close"
        BY <1>1 DEF Register, Typed
    <2>2. c \in Conns /\ Tail(inbox[t]) \in Seq(Conns \cup {"Close"})
        BY <2>1
    <2>3. CASE Dies
        BY <2>3 DEF Dies, Typed, kernel, manager, client, loops
    <2>4. ASSUME ~Dies
          PROVE  /\ inbox' = [inbox EXCEPT ![t] = Tail(@)]
                 /\ registered' \in {registered, [registered EXCEPT ![t] = @ \cup {c}]}
                 /\ UNCHANGED <<peer, backlog, fdOf, manager, client, pc, batch, exit, current>>
        BY <1>1, <2>4 DEF Register, kernel
    <2>5. CASE ~Dies
        <3> HIDE DEF c
        <3>1. inbox' \in [Threads -> Seq(Conns \cup {"Close"})]
            BY <2>2, <2>4, <2>5 DEF Typed
        <3>2. registered' \in [Threads -> SUBSET Conns]
            <4>1. CASE registered' = registered
                BY <4>1 DEF Typed
            <4>2. CASE registered' = [registered EXCEPT ![t] = @ \cup {c}]
                BY <2>2, <4>2 DEF Typed
            <4> QED
                BY <2>4, <2>5, <4>1, <4>2
        <3> QED
            BY <2>4, <2>5, <3>1, <3>2 DEF Typed, manager, client
    <2> QED
        BY <2>3, <2>5
<1>2. CASE ReadClose(t)
    <2>1. Tail(inbox[t]) \in Seq(Conns \cup {"Close"})
        BY <1>2 DEF ReadClose, Typed
    <2> QED
        BY <1>2, <2>1 DEF ReadClose, Typed, kernel, manager, client, Pcs
<1>3. CASE ReadEmpty(t)
    BY <1>3 DEF ReadEmpty, Typed, kernel, manager, client, Pcs
<1>4. ASSUME NEW c \in Conns, HandleDead(t, c)
      PROVE  Typed'
    <2>1. CASE Dies
        BY <2>1 DEF Dies, Typed, kernel, manager, client, loops
    <2>2. CASE Handled(t, c) /\ ~Dies
        BY <1>4, <2>2, HandledTyped DEF HandleDead, Typed, kernel, manager, client
    <2> QED
        BY <1>4, <2>1, <2>2 DEF HandleDead
<1> QED
    BY <1>1, <1>2, <1>3, <1>4 DEF Loop

LEMMA WaitTyped ==
    ASSUME Typed, ServerWait \/ ReceiverWait \/ SenderWait
    PROVE  Typed'
<1>1. ServerEvents \subseteq Events /\ ReceiverEvents \subseteq Events /\ SenderEvents \subseteq Events
    BY DEF ServerEvents, ReceiverEvents, SenderEvents, Events, Typed, Threads
<1>2. ASSUME NEW t \in Threads, NEW b \in SUBSET Events,
             batch' = [batch EXCEPT ![t] = b], pc' = [pc EXCEPT ![t] = Onward(t, b)]
      PROVE  batch' \in [Threads -> SUBSET Events] /\ pc' \in [Threads -> Pcs]
    BY <1>2, OnwardType DEF Typed, Pcs
<1>3. batch' \in [Threads -> SUBSET Events] /\ pc' \in [Threads -> Pcs]
    BY <1>1, <1>2 DEF ServerWait, ReceiverWait, SenderWait, Threads
<1>4. UNCHANGED <<peer, backlog, fdOf, manager, object, inbox, registered, exit, current>>
      \/ UNCHANGED <<peer, backlog, fdOf, clientsMap, eraseMail, addMail, object, inbox,
                     registered, exit, current>>
    BY DEF ServerWait, ReceiverWait, SenderWait, kernel, manager, client
<1> QED
    BY <1>3, <1>4 DEF Typed, manager

\* Only a push that may block has a client in hand.
Pushes == [server |-> DOMAIN PushStep, receiver |-> {"pushClient"}, sender |-> {}]
Resting == {"read", "wait", "handle", "done"}
Busy ==
    \A t \in Threads :
        \/ pc[t] \in Resting /\ current[t] = None
        \/ pc[t] \in Pushes[t] /\ current[t] \in Conns

LEMMA PushesFacts ==
    /\ Pushes["server"] = {"pushServer", "pushReceiver", "pushSender"}
    /\ Pushes["receiver"] = {"pushClient"}
    /\ Pushes["sender"] = {}
    /\ \A t \in Threads : Resting \cap Pushes[t] = {}
BY DEF Pushes, PushStep, Resting, Threads

\* A thread that goes from one resting place to another.
LEMMA RestingBusy ==
    ASSUME Typed, Busy, NEW t \in Threads, NEW to \in Resting,
           pc' = [pc EXCEPT ![t] = to], UNCHANGED current, pc[t] \in Resting
    PROVE  Busy'
BY PushesFacts DEF Typed, Busy

LEMMA HandledBusy ==
    ASSUME Typed, Busy, NEW t \in Threads, NEW e, Handled(t, e), UNCHANGED current,
           pc[t] \in Resting
    PROVE  Busy'
<1> Onward(t, batch[t] \ {e}) \in Resting
    BY OnwardType DEF Resting
<1> QED
    BY RestingBusy DEF Handled

LEMMA LoopBusy ==
    ASSUME Typed, Busy, NEW t \in Threads, Loop(t)
    PROVE  Busy'
<1>1. ASSUME UNCHANGED <<pc, current>>
      PROVE  Busy'
    BY <1>1 DEF Busy
<1>2. CASE Register(t)
    BY <1>1, <1>2 DEF Register, Dies, loops
<1>3. CASE ReadClose(t) \/ ReadEmpty(t)
    <2>1. pc[t] \in Resting /\ "wait" \in Resting /\ pc' = [pc EXCEPT ![t] = "wait"] /\ UNCHANGED current
        BY <1>3 DEF ReadClose, ReadEmpty, Resting
    <2> QED
        BY <2>1, RestingBusy
<1>4. ASSUME NEW c \in Conns, HandleDead(t, c)
      PROVE  Busy'
    <2>1. pc[t] \in Resting
        BY <1>4 DEF HandleDead, Resting
    <2>2. CASE Dies
        BY <1>1, <2>2 DEF Dies, loops
    <2>3. CASE Handled(t, c) /\ UNCHANGED current
        BY <2>1, <2>3, HandledBusy
    <2> QED
        BY <1>4, <2>2, <2>3 DEF HandleDead
<1> QED
    BY <1>2, <1>3, <1>4 DEF Loop

LEMMA WaitBusy ==
    ASSUME Typed, Busy, ServerWait \/ ReceiverWait \/ SenderWait
    PROVE  Busy'
<1>1. ASSUME NEW t \in Threads, NEW b, pc[t] = "wait", UNCHANGED current,
             pc' = [pc EXCEPT ![t] = Onward(t, b)]
      PROVE  Busy'
    <2>1. Onward(t, b) \in Resting /\ pc[t] \in Resting
        BY <1>1, OnwardType DEF Resting
    <2> QED
        BY <1>1, <2>1, RestingBusy
<1> QED
    BY <1>1 DEF ServerWait, ReceiverWait, SenderWait, Threads

Types == Typed /\ Busy

\* Nothing happens to the variables of Typed.
LEMMA StillTyped ==
    ASSUME Types, UNCHANGED typed
    PROVE  Types'
BY DEF Types, Typed, Busy, typed

LEMMA DiesTyped ==
    ASSUME Types, Dies
    PROVE  Types'
BY StillTyped DEF Dies, typed, kernel, manager, client, loops

LEMMA PeersTyped ==
    ASSUME Types, Peers
    PROVE  Types'
<1>1. peer' \in [Conns -> {"none", "open", "closed"}] /\ backlog' \in SUBSET Conns
    BY DEF Types, Typed, Peers, Connect, SendPacket, Disconnect
<1>2. UNCHANGED <<fdOf, clientsMap, eraseMail, addMail, object, inbox, registered, pc,
                  batch, exit, current>>
    BY DEF Peers, Connect, SendPacket, Disconnect, manager, client, loops
<1> QED
    BY <1>1, <1>2 DEF Types, Typed, Busy

LEMMA AcceptTyped ==
    ASSUME Types, NEW c \in Conns, NEW f \in Fds, Accept(c, f)
    PROVE  Types'
<1>1. UNCHANGED <<peer, clientsMap, eraseMail, addMail, object, inbox, registered, exit>>
    BY DEF Accept, manager, client
<1>2. backlog' \in SUBSET Conns
    BY DEF Accept, Types, Typed
<1>3. "receiver" \in Threads /\ pc["receiver"] \in Resting
    BY DEF Accept, Threads, Resting
<1>4. CASE Handled("receiver", "acceptor") /\ UNCHANGED <<fdOf, current>>
    BY <1>1, <1>2, <1>3, <1>4, HandledTyped, HandledBusy DEF Types, Typed
<1>5. CASE /\ fdOf' = [fdOf EXCEPT ![c] = f]
           /\ current' = [current EXCEPT !["receiver"] = c]
           /\ pc' = [pc EXCEPT !["receiver"] = "pushClient"]
           /\ batch' = [batch EXCEPT !["receiver"] = @ \ {"acceptor"}]
    <2>1. Typed'
        BY <1>1, <1>2, <1>3, <1>5 DEF Types, Typed, Pcs
    <2>2. Busy'
        BY <1>3, <1>5, PushesFacts DEF Types, Typed, Busy
    <2> QED
        BY <2>1, <2>2 DEF Types
<1> QED
    BY <1>4, <1>5 DEF Accept

LEMMA PushClientTyped ==
    ASSUME Types, PushClient
    PROVE  Types'
<1>1. "receiver" \in Threads /\ current["receiver"] \in Conns
    BY PushesFacts DEF PushClient, Types, Busy, Threads, Resting
<1>2. addMail' \in Seq(Conns)
    BY <1>1 DEF PushClient, Types, Typed
<1>3. Onward("receiver", batch["receiver"]) \in Resting
    BY OnwardType DEF Resting
<1>4. pc' \in [Threads -> Pcs] /\ current' \in [Threads -> Conns \cup {None}]
    BY <1>1, <1>3 DEF PushClient, Types, Typed, Resting, Pcs
<1>5. Typed'
    BY <1>2, <1>4 DEF PushClient, Types, Typed, kernel, client
<1>6. Busy'
    BY <1>1, <1>3 DEF PushClient, Types, Typed, Busy
<1> QED
    BY <1>5, <1>6 DEF Types

LEMMA AddClientTyped ==
    ASSUME Types, AddClient
    PROVE  Types'
<1> DEFINE c == Head(addMail)
<1>1. c \in Conns /\ Tail(addMail) \in Seq(Conns) /\ "server" \in Threads
    BY DEF AddClient, NextIsAdd, Types, Typed, Threads
<1>2. /\ addMail' = Tail(addMail)
      /\ clientsMap' = [clientsMap EXCEPT ![fdOf[c]] = c]
      /\ object' = [object EXCEPT ![c] = "live"]
      /\ current' = [current EXCEPT !["server"] = c]
      /\ pc' = [pc EXCEPT !["server"] = "pushServer"]
      /\ batch' = [batch EXCEPT !["server"] = BatchAfterMessage]
      /\ UNCHANGED <<peer, backlog, fdOf, eraseMail, inbox, registered, exit>>
    BY DEF AddClient, Written
<1> HIDE DEF c
<1>3. batch' \in [Threads -> SUBSET Events]
    BY <1>1, <1>2 DEF BatchAfterMessage, Types, Typed
<1>4. clientsMap' \in [Fds -> Conns \cup {None}]
    BY <1>1, <1>2 DEF Types, Typed
<1>5. Typed'
    BY <1>1, <1>2, <1>3, <1>4 DEF Types, Typed, Pcs
<1>6. Busy'
    BY <1>1, <1>2, PushesFacts DEF Types, Typed, Busy
<1> QED
    BY <1>5, <1>6 DEF Types

\* One of the three pushes: where it goes and what comes after it.
LEMMA PushEventFacts ==
    ASSUME Types, PushEvent
    PROVE  /\ current["server"] \in Conns
           /\ \E to \in Threads, next \in Pcs :
                /\ to = PushStep[pc["server"]].to
                /\ inbox' = [inbox EXCEPT ![to] = Append(@, current["server"])]
                /\ pc' = [pc EXCEPT !["server"] = next]
                /\ \/ next \in Pushes["server"] /\ UNCHANGED current
                   \/ next \in Resting /\ current' = [current EXCEPT !["server"] = None]
<1> DEFINE step == PushStep[pc["server"]]
           last == step.next = "onward"
           next == IF last THEN Onward("server", batch["server"]) ELSE step.next
<1>1. pc["server"] \in Pushes["server"]
    BY DEF PushEvent, Pushes
<1>2. current["server"] \in Conns
    BY <1>1, PushesFacts DEF Types, Busy, Threads
<1>3. step.to \in Threads /\ step.next \in {"pushReceiver", "pushSender", "onward"}
    BY <1>1, PushesFacts DEF PushStep, Threads
<1>4. Onward("server", batch["server"]) \in Resting
    BY OnwardType DEF Resting
<1>5. IF last THEN next \in Resting ELSE next \in Pushes["server"]
    BY <1>3, <1>4, PushesFacts
<1>6. next \in Pcs
    BY <1>5, PushesFacts DEF Resting, Pcs
<1>7. /\ inbox' = [inbox EXCEPT ![step.to] = Append(@, current["server"])]
      /\ pc' = [pc EXCEPT !["server"] = next]
      /\ current' = [current EXCEPT !["server"] = IF last THEN None ELSE @]
    BY DEF PushEvent
<1>8. ~last => UNCHANGED current
    BY <1>7 DEF Types, Typed
<1> QED
    BY <1>2, <1>3, <1>5, <1>6, <1>7, <1>8

LEMMA PushEventTyped ==
    ASSUME Types, PushEvent
    PROVE  Types'
<1>1. PICK to \in Threads, next \in Pcs :
        /\ inbox' = [inbox EXCEPT ![to] = Append(@, current["server"])]
        /\ pc' = [pc EXCEPT !["server"] = next]
        /\ \/ next \in Pushes["server"] /\ UNCHANGED current
           \/ next \in Resting /\ current' = [current EXCEPT !["server"] = None]
    BY PushEventFacts
<1>2. current["server"] \in Conns /\ "server" \in Threads
    BY PushEventFacts DEF Threads
<1>3. inbox' \in [Threads -> Seq(Conns \cup {"Close"})]
    BY <1>1, <1>2 DEF Types, Typed
<1>4. Typed'
    BY <1>1, <1>2, <1>3 DEF PushEvent, Types, Typed, kernel, manager, client
<1>5. Busy'
    BY <1>1, <1>2 DEF Types, Typed, Busy
<1> QED
    BY <1>4, <1>5 DEF Types

LEMMA AddClientFailsTyped ==
    ASSUME Types, AddClientFails
    PROVE  Types'
<1>1. "server" \in Threads /\ pc["server"] \in Resting
    BY DEF AddClientFails, Threads, Resting
<1>2. batch' \in [Threads -> SUBSET Events] /\ pc' \in [Threads -> Pcs]
    BY <1>1, HandledTyped DEF AddClientFails, Types
<1>3. Busy'
    BY <1>1, HandledBusy DEF AddClientFails, Types
<1>4. addMail' \in Seq(Conns)
    BY DEF AddClientFails, NextIsAdd, Types, Typed
<1>5. fdOf' \in [Conns -> Fds \cup {None}]
    BY DEF AddClientFails, FdsAfterErase, Types, Typed
<1> QED
    BY <1>2, <1>3, <1>4, <1>5 DEF AddClientFails, Types, Typed, client

LEMMA MoreMail ==
    ASSUME Typed, NEW m, NEW n \in Nat
    PROVE  [eraseMail EXCEPT ![m] = @ + n] \in [EraseMessage -> Nat]
<1>1. CASE m \in EraseMessage
    BY <1>1 DEF Typed
<1>2. CASE m \notin EraseMessage
    BY <1>2 DEF Typed
<1> QED
    BY <1>1, <1>2

LEMMA EraseClientTyped ==
    ASSUME Types, NEW m \in EraseMessage, EraseClient(m)
    PROVE  Types'
<1> DEFINE c == clientsMap[m.fd]
<1>1. "server" \in Threads /\ pc["server"] \in Resting /\ m.fd \in Fds /\ eraseMail[m] \in Nat \ {0}
    <2>1. pc["server"] = "handle" /\ eraseMail[m] > 0
        BY DEF EraseClient, ErasePending
    <2>2. m.fd \in Fds
        BY DEF EraseMessage
    <2>3. eraseMail[m] \in Nat
        BY DEF Types, Typed
    <2> QED
        BY <2>1, <2>2, <2>3 DEF Threads, Resting
<1>2. batch' \in [Threads -> SUBSET Events] /\ eraseMail' \in [EraseMessage -> Nat]
    BY <1>1 DEF EraseClient, BatchAfterMessage, Types, Typed
<1>3. Onward("server", BatchAfterMessage) \in Resting
    BY OnwardType DEF Resting
<1>4. pc' \in [Threads -> Pcs] /\ Busy'
    BY <1>1, <1>3, RestingBusy DEF EraseClient, Types, Typed, Resting, Pcs
<1>5. /\ UNCHANGED <<peer, backlog, addMail, inbox, exit, current>>
      /\ \/ UNCHANGED <<fdOf, clientsMap, object, registered>>
         \/ /\ c # None
            /\ clientsMap' = [clientsMap EXCEPT ![m.fd] = None]
            /\ object' = [object EXCEPT ![c] = "dead"]
            /\ fdOf' = [fdOf EXCEPT ![c] = None]
            /\ registered' = [t \in Threads |->
                IF t = "server" THEN registered[t] ELSE registered[t] \ {c}]
    BY DEF EraseClient, kernel, MapAfterErase, FdsAfterErase
<1>6. c \in Conns \cup {None}
    BY <1>1 DEF Types, Typed
<1> HIDE DEF c
<1>7. /\ fdOf' \in [Conns -> Fds \cup {None}]
      /\ clientsMap' \in [Fds -> Conns \cup {None}]
      /\ object' \in [Conns -> {"none", "live", "dead"}]
    BY <1>5, <1>6 DEF Types, Typed
<1>8. registered' \in [Threads -> SUBSET Conns]
    <2>1. CASE UNCHANGED registered
        BY <2>1 DEF Types, Typed
    <2>2. CASE registered' = [t \in Threads |->
                IF t = "server" THEN registered[t] ELSE registered[t] \ {c}]
        <3>1. \A t \in Threads : registered[t] \in SUBSET Conns
            BY DEF Types, Typed
        <3>2. \A t \in Threads :
                (IF t = "server" THEN registered[t] ELSE registered[t] \ {c}) \in SUBSET Conns
            BY <3>1
        <3> QED
            BY <2>2, <3>2
    <2> QED
        BY <1>5, <2>1, <2>2
<1>9. Typed'
    BY <1>2, <1>4, <1>5, <1>7, <1>8 DEF Types, Typed
<1> QED
    BY <1>4, <1>9 DEF Types

LEMMA HandleClientErases ==
    ASSUME NEW c, HandleClient(c)
    PROVE  \E n \in Nat : RequestErase(c, n)
<1>1. PICK k \in Kinds : \E n \in Requests[k] : RequestErase(c, n)
    BY DEF HandleClient
<1>2. Requests[k] \subseteq Nat
    BY DEF Requests, Kinds
<1> QED
    BY <1>1, <1>2

LEMMA HandleClientTyped ==
    ASSUME Types, NEW c \in Conns, HandleClient(c)
    PROVE  Types'
<1>1. "server" \in Threads /\ pc["server"] \in Resting
    BY DEF HandleClient, Threads, Resting
<1>2. batch' \in [Threads -> SUBSET Events] /\ pc' \in [Threads -> Pcs]
    BY <1>1, HandledTyped DEF HandleClient, Types
<1>3. Busy'
    BY <1>1, HandledBusy DEF HandleClient, Types
<1>4. UNCHANGED <<peer, backlog, fdOf, object, inbox, registered, exit, current>>
    BY DEF HandleClient, Written, kernel
<1>5. PICK n \in Nat : RequestErase(c, n)
    BY HandleClientErases
<1>6. eraseMail' \in [EraseMessage -> Nat] /\ UNCHANGED <<clientsMap, addMail>>
    BY <1>5, MoreMail DEF RequestErase, Types
<1> QED
    BY <1>2, <1>3, <1>4, <1>6 DEF Types, Typed

LEMMA BufferTyped ==
    ASSUME Types, NEW c \in Conns, NEW t \in Threads, Handled(t, c), pc[t] = "handle",
           UNCHANGED <<peer, backlog, fdOf, clientsMap, eraseMail, addMail, object, inbox,
                       registered, exit, current>>
    PROVE  Types'
<1>1. pc[t] \in Resting
    BY DEF Resting
<1> QED
    BY <1>1, HandledTyped, HandledBusy DEF Types, Typed

LEMMA CloseCommandTyped ==
    ASSUME Types, NEW f \in Fds, CloseCommand(f)
    PROVE  Types'
<1>1. eraseMail' \in [EraseMessage -> Nat]
    BY MoreMail DEF CloseCommand, Types
<1> QED
    BY <1>1 DEF CloseCommand, Types, Typed, Busy, kernel, client, loops

LEMMA CloseThreadTyped ==
    ASSUME Types, NEW t \in Threads, CloseThread(t)
    PROVE  Types'
<1>1. inbox' \in [Threads -> Seq(Conns \cup {"Close"})]
    BY DEF CloseThread, Types, Typed
<1> QED
    BY <1>1 DEF CloseThread, Types, Typed, Busy, kernel, manager, client

LEMMA TypesInit ==
    ASSUME Init
    PROVE  Types
BY TypedInit DEF Init, Types, Busy, Resting

LEMMA TypesStep ==
    ASSUME Types, [Next]_vars
    PROVE  Types'
<1> USE DEF Threads
<1>1. CASE ServerStep
    <2>1. CASE Loop("server")
        BY <2>1, LoopTyped, LoopBusy DEF Types
    <2>2. CASE ServerWait
        BY <2>2, WaitTyped, WaitBusy DEF Types
    <2>3. CASE \E c \in Conns : BrokenPipe(c)
        BY <2>3, DiesTyped DEF BrokenPipe
    <2> QED
        BY <1>1, <2>1, <2>2, <2>3, AddClientTyped, AddClientFailsTyped, PushEventTyped, EraseClientTyped,
           HandleClientTyped DEF ServerStep
<1>2. CASE ReceiverStep
    <2>1. CASE Loop("receiver")
        BY <2>1, LoopTyped, LoopBusy DEF Types
    <2>2. CASE ReceiverWait
        BY <2>2, WaitTyped, WaitBusy DEF Types
    <2>3. CASE AcceptFails
        <3>1. "receiver" \in Threads /\ pc["receiver"] \in Resting
            BY <2>3 DEF AcceptFails, Resting
        <3> QED
            BY <2>3, <3>1, HandledTyped, HandledBusy
            DEF AcceptFails, Types, Typed, kernel, manager, client
    <2>4. ASSUME NEW c \in Conns, HandleBuffer(c)
          PROVE  Types'
        BY <2>4, BufferTyped DEF HandleBuffer, manager
    <2> QED
        BY <1>2, <2>1, <2>2, <2>3, <2>4, PushClientTyped, AcceptTyped DEF ReceiverStep
<1>3. CASE SenderStep
    <2>1. CASE Loop("sender")
        BY <2>1, LoopTyped, LoopBusy DEF Types
    <2>2. CASE SenderWait
        BY <2>2, WaitTyped, WaitBusy DEF Types
    <2>3. ASSUME NEW c \in Conns, HandleWritable(c)
          PROVE  Types'
        BY <2>3, BufferTyped DEF HandleWritable, kernel, manager, client
    <2> QED
        BY <1>3, <2>1, <2>2, <2>3 DEF SenderStep
<1>4. CASE Exit \/ UNCHANGED vars
    BY <1>4, StillTyped DEF Exit, vars, typed, kernel, manager, client, loops
<1> QED
    BY <1>1, <1>2, <1>3, <1>4, PeersTyped, CloseCommandTyped, CloseThreadTyped DEF Next, Closing

-----------------------------------------------------------------------------
(* The rest of TypeOK: counts, full queues and flags *)

\* What the peers may still send and what waits in a socket is never more than
\* what they had at first.
Counted ==
    /\ toSend \in 0..MaxPackets /\ unread \in [Conns -> Nat]
    /\ \A c \in Conns : unread[c] + toSend <= MaxPackets

Filled ==
    /\ eraseMail \in [EraseMessage -> 0..MaxErase]
    /\ Len(addMail) <= QueueSize /\ \A t \in Threads : Len(inbox[t]) <= QueueSize
    /\ main \in {"running", "sender", "receiver", "server", "exited"}

Mailed == mail \in [Conns -> [Kinds -> 0..MaxMail]]

LEMMA CountSteps ==
    ASSUME [Next]_vars
    PROVE  UNCHANGED <<toSend, unread>> \/ \E c \in Conns : SendPacket(c) \/ HandleBuffer(c)
<1>1. CASE Peers
    BY <1>1 DEF Peers, Connect, Disconnect
<1>2. CASE ServerStep
    <2>1. CASE Loop("server")
        BY <2>1 DEF Loop, Register, ReadClose, ReadEmpty, HandleDead, Dies, kernel
    <2>2. ASSUME NEW c \in Conns, HandleClient(c)
          PROVE  UNCHANGED <<toSend, unread>>
        BY <2>2 DEF HandleClient, Written, kernel
    <2>3. ASSUME NEW m \in EraseMessage, EraseClient(m)
          PROVE  UNCHANGED <<toSend, unread>>
        BY <2>3 DEF EraseClient, kernel
    <2> QED
        BY <1>2, <2>1, <2>2, <2>3 DEF ServerStep, ServerWait, AddClient, AddClientFails, Written,
            PushEvent, BrokenPipe, Dies, kernel
<1>3. CASE ReceiverStep
    BY <1>3 DEF ReceiverStep, Loop, Register, ReadClose, ReadEmpty, HandleDead, Dies, kernel,
        ReceiverWait, AcceptFails, PushClient, Accept
<1>4. CASE SenderStep
    BY <1>4 DEF SenderStep, Loop, Register, ReadClose, ReadEmpty, HandleDead, Dies, kernel,
        SenderWait, HandleWritable
<1>5. CASE Closing \/ CloseThread("sender") \/ (\E f \in Fds : CloseCommand(f)) \/ UNCHANGED vars
    BY <1>5 DEF Closing, CloseThread, Exit, CloseCommand, vars, kernel
<1> QED
    BY <1>1, <1>2, <1>3, <1>4, <1>5 DEF Next

LEMMA CountedStep ==
    ASSUME Counted, [Next]_vars
    PROVE  Counted'
<1>1. MaxPackets \in Nat
    BY CoreAssumption
<1>2. CASE UNCHANGED <<toSend, unread>>
    BY <1>2 DEF Counted
<1>3. ASSUME NEW c \in Conns, SendPacket(c)
      PROVE  Counted'
    <2>1. toSend \in 0..MaxPackets /\ toSend > 0 /\ toSend' = toSend - 1
        BY <1>3 DEF SendPacket, Counted
    <2>2. /\ unread \in [Conns -> Nat] /\ unread' = [unread EXCEPT ![c] = @ + 1]
          /\ \A d \in Conns : unread[d] + toSend <= MaxPackets
        BY <1>3 DEF SendPacket, Counted
    <2>3. unread' \in [Conns -> Nat]
        BY <2>2
    <2>4. ASSUME NEW d \in Conns
          PROVE  unread'[d] + toSend' <= MaxPackets
        <3>1. unread[d] \in Nat /\ unread[d] + toSend <= MaxPackets /\ unread'[d] \in {unread[d], unread[d] + 1}
            BY <2>2
        <3> QED
            BY <1>1, <2>1, <3>1
    <2> QED
        BY <1>1, <2>1, <2>3, <2>4 DEF Counted
<1>4. ASSUME NEW c \in Conns, HandleBuffer(c)
      PROVE  Counted'
    <2>1. toSend' = toSend
        BY <1>4 DEF HandleBuffer
    <2>2. \E n \in Nat : n <= unread[c] /\ unread' = [unread EXCEPT ![c] = n]
        <3>1. unread[c] \in Nat
            BY DEF Counted
        <3>2. unread' = [unread EXCEPT ![c] =
                            IF (~noticed[c] /\ ~full[c]) /\ unread[c] > 0 THEN @ - 1 ELSE @]
            BY <1>4, Zenon DEF HandleBuffer
        <3> DEFINE n == IF (~noticed[c] /\ ~full[c]) /\ unread[c] > 0 THEN unread[c] - 1 ELSE unread[c]
        <3>3. n \in Nat /\ n <= unread[c]
            BY <3>1
        <3> QED
            BY <3>2, <3>3
    <2>3. PICK n \in Nat : n <= unread[c] /\ unread' = [unread EXCEPT ![c] = n]
        BY <2>2
    <2>4. unread' \in [Conns -> Nat] /\ \A d \in Conns : unread'[d] <= unread[d]
        BY <2>3 DEF Counted
    <2>5. ASSUME NEW d \in Conns
          PROVE  unread'[d] + toSend' <= MaxPackets
        <3>1. unread'[d] \in Nat /\ unread[d] \in Nat /\ unread'[d] <= unread[d]
              /\ unread[d] + toSend <= MaxPackets /\ toSend \in Nat
            BY <2>4 DEF Counted
        <3> QED
            BY <1>1, <2>1, <3>1
    <2> QED
        BY <2>1, <2>4, <2>5 DEF Counted
<1> QED
    BY <1>2, <1>3, <1>4, CountSteps

\* What a step does to the queues, the erase messages and main.
InboxStep ==
    \/ UNCHANGED inbox
    \/ \E t \in Threads : inbox[t] # <<>> /\ inbox' = [inbox EXCEPT ![t] = Tail(@)]
    \/ \E t \in Threads, x \in Conns \cup {"Close"} :
        HasRoom(t) /\ inbox' = [inbox EXCEPT ![t] = Append(@, x)]

AddMailStep ==
    \/ UNCHANGED addMail
    \/ addMail # <<>> /\ addMail' = Tail(addMail)
    \/ \E c \in Conns : Len(addMail) < QueueSize /\ addMail' = Append(addMail, c)

EraseMailStep ==
    \/ UNCHANGED eraseMail
    \/ \E m \in EraseMessage : eraseMail[m] > 0 /\ eraseMail' = [eraseMail EXCEPT ![m] = @ - 1]
    \/ \E m : \E n \in Nat :
        eraseMail[m] + n <= MaxErase /\ eraseMail' = [eraseMail EXCEPT ![m] = @ + n]

MainStep == main' \in {main} \cup Threads \cup {"exited"}

QueueStep == InboxStep /\ AddMailStep /\ EraseMailStep /\ MainStep

queued == <<inbox, addMail, eraseMail, main>>

LEMMA QueuesStill ==
    ASSUME UNCHANGED queued
    PROVE  QueueStep
BY DEF queued, QueueStep, InboxStep, AddMailStep, EraseMailStep, MainStep

LEMMA LoopQueues ==
    ASSUME NEW t \in Threads, Loop(t)
    PROVE  QueueStep
<1>1. UNCHANGED <<addMail, eraseMail, main>>
    BY DEF Loop, Register, ReadClose, ReadEmpty, HandleDead, Dies, manager, rest
<1>2. UNCHANGED inbox \/ (inbox[t] # <<>> /\ inbox' = [inbox EXCEPT ![t] = Tail(@)])
    <2>1. CASE Register(t)
        BY <2>1 DEF Register, Dies, loops
    <2>2. CASE ReadClose(t) \/ ReadEmpty(t)
        BY <2>2 DEF ReadClose, ReadEmpty
    <2>3. CASE \E c \in Conns : HandleDead(t, c)
        BY <2>3 DEF HandleDead, Dies, loops
    <2> QED
        BY <2>1, <2>2, <2>3 DEF Loop
<1> QED
    BY <1>1, <1>2 DEF QueueStep, InboxStep, AddMailStep, EraseMailStep, MainStep

LEMMA ServerQueues ==
    ASSUME Types, ServerStep
    PROVE  QueueStep
<1>1. CASE Loop("server")
    BY <1>1, LoopQueues DEF Threads
<1>2. CASE ServerWait \/ \E c \in Conns : BrokenPipe(c)
    BY <1>2, QueuesStill DEF ServerWait, BrokenPipe, Dies, queued, manager, loops, rest
<1>3. CASE AddClient \/ AddClientFails
    <2>1. UNCHANGED <<inbox, eraseMail, main>> /\ addMail # <<>> /\ addMail' = Tail(addMail)
        BY <1>3 DEF AddClient, AddClientFails, NextIsAdd, rest
    <2> QED
        BY <2>1 DEF QueueStep, InboxStep, AddMailStep, EraseMailStep, MainStep
<1>4. CASE PushEvent
    <2>1. UNCHANGED <<addMail, eraseMail, main>>
        BY <1>4 DEF PushEvent, manager, rest
    <2> DEFINE to == PushStep[pc["server"]].to
    <2>2. HasRoom(to) /\ inbox' = [inbox EXCEPT ![to] = Append(@, current["server"])]
        BY <1>4 DEF PushEvent
    <2>3. to \in Threads /\ current["server"] \in Conns
        <3>1. pc["server"] \in Pushes["server"]
            BY <1>4 DEF PushEvent, Pushes
        <3> QED
            BY <1>4, <3>1, PushEventFacts, PushesFacts DEF PushStep, Threads
    <2> HIDE DEF to
    <2>4. InboxStep
        BY <2>2, <2>3 DEF InboxStep
    <2> QED
        BY <2>1, <2>4 DEF QueueStep, AddMailStep, EraseMailStep, MainStep
<1>5. ASSUME NEW m \in EraseMessage, EraseClient(m)
      PROVE  QueueStep
    <2>1. UNCHANGED <<inbox, addMail, main>>
        BY <1>5 DEF EraseClient
    <2>2. eraseMail[m] > 0 /\ eraseMail' = [eraseMail EXCEPT ![m] = @ - 1]
        BY <1>5 DEF EraseClient, ErasePending
    <2> QED
        BY <2>1, <2>2 DEF QueueStep, InboxStep, AddMailStep, EraseMailStep, MainStep
<1>6. ASSUME NEW c \in Conns, HandleClient(c)
      PROVE  QueueStep
    <2>1. UNCHANGED <<inbox, main>>
        BY <1>6 DEF HandleClient, rest
    <2>2. PICK n \in Nat : RequestErase(c, n)
        BY <1>6, HandleClientErases
    <2> QED
        BY <2>1, <2>2 DEF RequestErase, QueueStep, InboxStep, AddMailStep, EraseMailStep, MainStep
<1> QED
    BY <1>1, <1>2, <1>3, <1>4, <1>5, <1>6 DEF ServerStep

LEMMA QueueSteps ==
    ASSUME Types, [Next]_vars
    PROVE  QueueStep
<1>1. CASE Peers \/ UNCHANGED vars
    BY <1>1, QueuesStill DEF Peers, vars, queued, manager, loops, rest
<1>2. CASE ReceiverStep
    <2>1. CASE PushClient
        <3>1. current["receiver"] \in Conns
            BY <2>1, PushesFacts DEF PushClient, Types, Busy, Threads, Resting
        <3>2. /\ UNCHANGED <<inbox, eraseMail, main>> /\ Len(addMail) < QueueSize
              /\ addMail' = Append(addMail, current["receiver"])
            BY <2>1 DEF PushClient, rest
        <3> QED
            BY <3>1, <3>2 DEF QueueStep, InboxStep, AddMailStep, EraseMailStep, MainStep
    <2>2. CASE Loop("receiver")
        BY <2>2, LoopQueues DEF Threads
    <2> QED
        BY <1>2, <2>1, <2>2, QueuesStill
        DEF ReceiverStep, ReceiverWait, AcceptFails, Accept, HandleBuffer, queued, manager, rest
<1>3. CASE SenderStep
    BY <1>3, LoopQueues, QueuesStill
    DEF SenderStep, SenderWait, HandleWritable, Threads, queued, manager, rest
<1>4. ASSUME NEW t \in Threads, CloseThread(t)
      PROVE  QueueStep
    BY <1>4 DEF CloseThread, manager, QueueStep, InboxStep, AddMailStep, EraseMailStep, MainStep
<1>5. CASE Exit
    BY <1>5 DEF Exit, manager, loops, QueueStep, InboxStep, AddMailStep, EraseMailStep, MainStep
<1>6. ASSUME NEW f \in Fds, CloseCommand(f)
      PROVE  QueueStep
    <2> DEFINE m == [by |-> Operator, fd |-> f]
    <2>1. eraseMail[m] < MaxErase /\ eraseMail' = [eraseMail EXCEPT ![m] = @ + 1]
          /\ UNCHANGED <<inbox, addMail, main>>
        BY <1>6 DEF CloseCommand, loops
    <2>2. m \in EraseMessage
        BY DEF EraseMessage
    <2>3. eraseMail[m] \in Nat /\ MaxErase \in Nat
        BY <2>2, CoreAssumption DEF Types, Typed
    <2> HIDE DEF m
    <2>4. eraseMail[m] + 1 <= MaxErase
        BY <2>1, <2>3
    <2> QED
        BY <2>1, <2>4 DEF QueueStep, InboxStep, AddMailStep, EraseMailStep, MainStep
<1> QED
    BY <1>1, <1>2, <1>3, <1>4, <1>5, <1>6, ServerQueues DEF Next, Closing, Threads

LEMMA FilledStep ==
    ASSUME Types, Filled, QueueStep
    PROVE  Filled'
<1>1. QueueSize \in Nat /\ MaxErase \in Nat
    BY CoreAssumption
<1>2. \A t \in Threads : Len(inbox'[t]) <= QueueSize
    <2>1. \A t \in Threads : inbox[t] \in Seq(Conns \cup {"Close"}) /\ Len(inbox[t]) <= QueueSize
        BY DEF Types, Typed, Filled
    <2>2. inbox \in [Threads -> Seq(Conns \cup {"Close"})]
        BY DEF Types, Typed
    <2>3. ASSUME NEW t \in Threads, NEW q \in Seq(Conns \cup {"Close"}), Len(q) <= QueueSize,
                 inbox' = [inbox EXCEPT ![t] = q]
          PROVE  \A u \in Threads : Len(inbox'[u]) <= QueueSize
        BY <2>1, <2>2, <2>3
    <2>4. ASSUME NEW t \in Threads, inbox[t] # <<>>
          PROVE  Tail(inbox[t]) \in Seq(Conns \cup {"Close"}) /\ Len(Tail(inbox[t])) <= QueueSize
        BY <1>1, <2>1, <2>4
    <2>5. ASSUME NEW t \in Threads, NEW x \in Conns \cup {"Close"}, HasRoom(t)
          PROVE  /\ Append(inbox[t], x) \in Seq(Conns \cup {"Close"})
                 /\ Len(Append(inbox[t], x)) <= QueueSize
        BY <1>1, <2>1, <2>5 DEF HasRoom
    <2> QED
        BY <2>1, <2>3, <2>4, <2>5 DEF QueueStep, InboxStep
<1>3. Len(addMail') <= QueueSize
    BY <1>1 DEF QueueStep, AddMailStep, Types, Typed, Filled
<1>4. eraseMail' \in [EraseMessage -> 0..MaxErase]
    <2>1. ASSUME NEW m \in EraseMessage, NEW n \in 0..MaxErase, eraseMail' = [eraseMail EXCEPT ![m] = n]
          PROVE  eraseMail' \in [EraseMessage -> 0..MaxErase]
        BY <2>1 DEF Filled
    <2>2. ASSUME NEW m, m \notin EraseMessage, NEW n \in Nat,
                 eraseMail' = [eraseMail EXCEPT ![m] = @ + n]
          PROVE  eraseMail' \in [EraseMessage -> 0..MaxErase]
        BY <2>2 DEF Filled
    <2>3. \A m \in EraseMessage : eraseMail[m] \in 0..MaxErase
        BY DEF Filled
    <2>4. \A m \in EraseMessage : eraseMail[m] > 0 => eraseMail[m] - 1 \in 0..MaxErase
        BY <1>1, <2>3
    <2>5. \A m \in EraseMessage : \A n \in Nat :
            eraseMail[m] + n <= MaxErase => eraseMail[m] + n \in 0..MaxErase
        BY <1>1, <2>3
    <2>6. CASE UNCHANGED eraseMail
        BY <2>6 DEF Filled
    <2> QED
        BY <2>1, <2>2, <2>4, <2>5, <2>6 DEF QueueStep, EraseMailStep
<1>5. main' \in {"running", "sender", "receiver", "server", "exited"}
    BY DEF QueueStep, MainStep, Filled, Threads
<1> QED
    BY <1>2, <1>3, <1>4, <1>5 DEF Filled

Boxes == [Kinds -> 0..MaxMail]

\* What a step does to the queue of one session.
MailStep == UNCHANGED mail \/ \E c \in Conns, box \in Boxes : mail' = [mail EXCEPT ![c] = box]

LEMMA OneMore ==
    ASSUME NEW box \in Boxes, NEW k \in Kinds, box[k] < MaxMail
    PROVE  [box EXCEPT ![k] = @ + 1] \in Boxes
<1>1. MaxMail \in Nat
    BY CoreAssumption
<1>2. box[k] + 1 \in 0..MaxMail
    BY <1>1 DEF Boxes
<1> QED
    BY <1>2 DEF Boxes

LEMMA OneLess ==
    ASSUME NEW box \in Boxes, NEW k \in Kinds, box[k] > 0
    PROVE  [box EXCEPT ![k] = @ - 1] \in Boxes
<1>1. MaxMail \in Nat
    BY CoreAssumption
<1>2. box[k] - 1 \in 0..MaxMail
    BY <1>1 DEF Boxes
<1> QED
    BY <1>2 DEF Boxes

LEMMA WrittenMail ==
    ASSUME NEW c \in Conns, NEW left \in Boxes, Written(c, left)
    PROVE  MailStep
<1>1. "PacketSend" \in Kinds
    BY DEF Kinds
<1>2. CASE mail' = [mail EXCEPT ![c] = left]
    BY <1>2 DEF MailStep
<1>3. CASE /\ left["PacketSend"] < MaxMail
           /\ mail' = [mail EXCEPT ![c] = [left EXCEPT !["PacketSend"] = @ + 1]]
    BY <1>1, <1>3, OneMore DEF MailStep
<1> QED
    BY <1>2, <1>3 DEF Written

LEMMA MailSteps ==
    ASSUME Types, Mailed, [Next]_vars
    PROVE  MailStep
<1>1. \A c \in Conns : mail[c] \in Boxes
    BY DEF Mailed, Boxes
<1>2. CASE Peers \/ Closing \/ CloseThread("sender") \/ (\E f \in Fds : CloseCommand(f)) \/ UNCHANGED vars
    BY <1>2 DEF Peers, Closing, CloseThread, Exit, CloseCommand, vars, client, MailStep
<1>3. ASSUME NEW t \in Threads, Loop(t)
      PROVE  MailStep
    BY <1>3 DEF Loop, Register, ReadClose, ReadEmpty, HandleDead, Dies, client, MailStep
<1>4. CASE AddClient
    <2>1. Head(addMail) \in Conns /\ Written(Head(addMail), mail[Head(addMail)])
        BY <1>4 DEF AddClient, NextIsAdd, Types, Typed
    <2> QED
        BY <1>1, <2>1, WrittenMail
<1>5. ASSUME NEW c \in Conns, HandleClient(c)
      PROVE  MailStep
    <2>1. PICK k \in Kinds :
            /\ mail[c][k] > 0
            /\ \/ mail' = [mail EXCEPT ![c] = [mail[c] EXCEPT ![k] = @ - 1]]
               \/ Written(c, [mail[c] EXCEPT ![k] = @ - 1])
        BY <1>5 DEF HandleClient
    <2>2. [mail[c] EXCEPT ![k] = @ - 1] \in Boxes
        BY <1>1, <2>1, OneLess
    <2> QED
        BY <2>1, <2>2, WrittenMail DEF MailStep
<1>6. ASSUME NEW m \in EraseMessage, EraseClient(m)
      PROVE  MailStep
    BY <1>6 DEF EraseClient, MailStep
<1>7. CASE ServerStep
    BY <1>3, <1>4, <1>5, <1>6, <1>7
    DEF ServerStep, ServerWait, AddClientFails, PushEvent, BrokenPipe, Dies, client, MailStep, Threads
<1>8. ASSUME NEW c \in Conns, HandleBuffer(c)
      PROVE  MailStep
    <2>1. UNCHANGED mail \/ \E k \in Kinds : PushMail(c, k)
        BY <1>8 DEF HandleBuffer, Kinds
    <2>2. ASSUME NEW k \in Kinds, PushMail(c, k)
          PROVE  MailStep
        <3>1. mail[c][k] < MaxMail /\ mail' = [mail EXCEPT ![c] = [mail[c] EXCEPT ![k] = @ + 1]]
            BY <2>2 DEF PushMail
        <3>2. [mail[c] EXCEPT ![k] = @ + 1] \in Boxes
            BY <1>1, <3>1, OneMore
        <3> QED
            BY <3>1, <3>2 DEF MailStep
    <2> QED
        BY <2>1, <2>2 DEF MailStep
<1>9. CASE ReceiverStep
    BY <1>3, <1>8, <1>9 DEF ReceiverStep, ReceiverWait, AcceptFails, PushClient, Accept, client, MailStep, Threads
<1>10. CASE SenderStep
    BY <1>3, <1>10 DEF SenderStep, SenderWait, HandleWritable, client, MailStep, Threads
<1> QED
    BY <1>2, <1>7, <1>9, <1>10 DEF Next

LEMMA MailedStep ==
    ASSUME Mailed, MailStep
    PROVE  Mailed'
BY DEF Mailed, MailStep, Boxes

\* Edges and marks.
Marks == [Conns -> BOOLEAN]

LEMMA MarkSet ==
    ASSUME NEW f \in Marks, NEW c, NEW b \in BOOLEAN
    PROVE  [f EXCEPT ![c] = b] \in Marks
BY DEF Marks

LEMMA MarksReset ==
    ASSUME NEW f, NEW b
    PROVE  Reset(f, b) \in Marks
BY Zenon DEF Reset, Marks


Flagged ==
    /\ full \in Marks /\ noticed \in Marks
    /\ mailEdge \in Marks /\ socketEdge \in Marks /\ writeEdge \in Marks
    /\ acceptEdge \in BOOLEAN /\ managerEdge \in BOOLEAN /\ aborted \in BOOLEAN

flags == <<full, noticed, mailEdge, socketEdge, writeEdge, acceptEdge, managerEdge, aborted>>

LEMMA FlagsStill ==
    ASSUME Flagged, UNCHANGED flags
    PROVE  Flagged'
BY Zenon DEF Flagged, flags

LEMMA DiesFlags ==
    ASSUME Flagged, Dies
    PROVE  Flagged'
BY Zenon DEF Dies, Flagged, kernel, manager, client

LEMMA LoopFlags ==
    ASSUME Flagged, NEW t \in Threads, Loop(t)
    PROVE  Flagged'
<1>1. CASE Dies
    BY <1>1, DiesFlags
<1>2. CASE Register(t) /\ ~Dies
    <2>1. /\ UNCHANGED <<full, noticed, mailEdge, socketEdge, acceptEdge, managerEdge, aborted>>
          /\ writeEdge' \in {writeEdge, [writeEdge EXCEPT ![Head(inbox[t])] = TRUE]}
        BY <1>2 DEF Register, kernel, manager, client
    <2>2. writeEdge' \in Marks
        BY <2>1, MarkSet DEF Flagged
    <2> QED
        BY <2>1, <2>2, Zenon DEF Flagged
<1>3. CASE UNCHANGED <<kernel, manager, client, aborted>>
    BY <1>3, FlagsStill DEF flags, kernel, manager, client
<1> QED
    BY <1>1, <1>2, <1>3 DEF Loop, ReadClose, ReadEmpty, HandleDead

LEMMA WrittenFlags ==
    ASSUME Flagged, NEW c, NEW left, Written(c, left)
    PROVE  /\ noticed' \in Marks /\ mailEdge' \in Marks /\ socketEdge' \in Marks
           /\ UNCHANGED <<acceptEdge, writeEdge>>
<1>1. noticed \in Marks /\ mailEdge \in Marks /\ socketEdge \in Marks
    BY DEF Flagged
<1>2. socketEdge' \in Marks
    BY <1>1, MarkSet, Zenon DEF Written, Marks
<1>3. noticed' \in {noticed, [noticed EXCEPT ![c] = TRUE]} /\ mailEdge' \in {mailEdge, [mailEdge EXCEPT ![c] = TRUE]}
    BY DEF Written
<1>4. noticed' \in Marks /\ mailEdge' \in Marks
    BY <1>1, <1>3, MarkSet
<1> QED
    BY <1>2, <1>4 DEF Written

LEMMA ServerFlags ==
    ASSUME Flagged, ServerStep
    PROVE  Flagged'
<1> USE DEF Threads
<1>1. CASE Loop("server")
    BY <1>1, LoopFlags
<1>2. CASE ServerWait
    <2>1. mailEdge' \in Marks
        BY <1>2, MarksReset DEF ServerWait
    <2>2. managerEdge' \in BOOLEAN
        BY <1>2, Zenon DEF Flagged, ServerWait
    <2>3. UNCHANGED <<full, noticed, socketEdge, writeEdge, acceptEdge, aborted>>
        BY <1>2 DEF ServerWait, kernel
    <2> QED
        BY <2>1, <2>2, <2>3, Zenon DEF Flagged
<1>3. CASE AddClient
    <2>1. noticed' \in Marks /\ mailEdge' \in Marks /\ socketEdge' \in Marks
        BY <1>3, WrittenFlags DEF AddClient
    <2>2. UNCHANGED <<full, writeEdge, acceptEdge, managerEdge, aborted>>
        BY <1>3 DEF AddClient, Written
    <2> QED
        BY <2>1, <2>2, Zenon DEF Flagged
<1>4. CASE PushEvent
    BY <1>4, FlagsStill DEF PushEvent, flags, kernel, manager, client
<1>5. ASSUME NEW m \in EraseMessage, EraseClient(m)
      PROVE  Flagged'
    <2>1. UNCHANGED <<full, noticed, mailEdge, acceptEdge, managerEdge, aborted>>
        BY <1>5 DEF EraseClient, kernel
    <2>2. /\ socketEdge' \in {socketEdge, [socketEdge EXCEPT ![clientsMap[m.fd]] = FALSE]}
          /\ writeEdge' \in {writeEdge, [writeEdge EXCEPT ![clientsMap[m.fd]] = FALSE]}
        BY <1>5 DEF EraseClient, kernel
    <2>3. socketEdge' \in Marks /\ writeEdge' \in Marks
        BY <2>2, MarkSet DEF Flagged
    <2> QED
        BY <2>1, <2>3, Zenon DEF Flagged
<1>6. ASSUME NEW c \in Conns, HandleClient(c)
      PROVE  Flagged'
    <2>1. full' \in Marks
        BY <1>6, Zenon DEF Flagged, HandleClient, Marks
    <2>2. managerEdge' \in BOOLEAN /\ UNCHANGED aborted
        <3>1. \E n \in Nat : managerEdge' = (managerEdge \/ n > 0)
            BY <1>6, HandleClientErases DEF RequestErase
        <3>2. UNCHANGED aborted
            BY <1>6 DEF HandleClient
        <3> QED
            BY <3>1, <3>2, Zenon DEF Flagged
    <2>3. \/ UNCHANGED <<kernel, noticed, mailEdge>>
          \/ \E left : Written(c, left)
        BY <1>6 DEF HandleClient
    <2>4. /\ noticed' \in Marks /\ mailEdge' \in Marks /\ socketEdge' \in Marks
          /\ UNCHANGED <<acceptEdge, writeEdge>>
        <3>1. CASE UNCHANGED <<kernel, noticed, mailEdge>>
            BY <3>1, Zenon DEF Flagged, kernel
        <3> QED
            BY <2>3, <3>1, WrittenFlags
    <2> QED
        BY <2>1, <2>2, <2>4, Zenon DEF Flagged
<1>7. CASE \E c \in Conns : BrokenPipe(c)
    BY <1>7, DiesFlags DEF BrokenPipe
<1>8. CASE AddClientFails
    <2>1. UNCHANGED <<full, noticed, mailEdge, writeEdge, acceptEdge, managerEdge, aborted>>
        BY <1>8 DEF AddClientFails, client
    <2>2. socketEdge' = [socketEdge EXCEPT ![Head(addMail)] = FALSE]
        BY <1>8 DEF AddClientFails
    <2>3. socketEdge' \in Marks
        BY <2>2, MarkSet DEF Flagged
    <2> QED
        BY <2>1, <2>3, Zenon DEF Flagged
<1> QED
    BY <1>1, <1>2, <1>3, <1>4, <1>5, <1>6, <1>7, <1>8 DEF ServerStep

LEMMA ReceiverFlags ==
    ASSUME Flagged, ReceiverStep
    PROVE  Flagged'
<1> USE DEF Threads
<1>1. CASE Loop("receiver")
    BY <1>1, LoopFlags
<1>2. CASE ReceiverWait
    <2>1. socketEdge' \in Marks
        BY <1>2, MarksReset DEF ReceiverWait
    <2>2. acceptEdge' \in BOOLEAN
        BY <1>2, Zenon DEF Flagged, ReceiverWait
    <2>3. UNCHANGED <<full, noticed, mailEdge, writeEdge, managerEdge, aborted>>
        BY <1>2 DEF ReceiverWait, manager, client
    <2> QED
        BY <2>1, <2>2, <2>3, Zenon DEF Flagged
<1>3. CASE AcceptFails \/ \E c \in Conns, f \in Fds : Accept(c, f)
    BY <1>3, FlagsStill DEF AcceptFails, Accept, flags, kernel, manager, client
<1>4. CASE PushClient
    <2>1. UNCHANGED <<full, noticed, mailEdge, socketEdge, writeEdge, acceptEdge, aborted>> /\ managerEdge' = TRUE
        BY <1>4 DEF PushClient, kernel, client
    <2> QED
        BY <2>1, Zenon DEF Flagged
<1>5. ASSUME NEW c \in Conns, HandleBuffer(c)
      PROVE  Flagged'
    <2>1. full' \in Marks /\ noticed' \in Marks
        BY <1>5, Zenon DEF Flagged, HandleBuffer, Marks
    <2>2. mailEdge' \in {mailEdge, [mailEdge EXCEPT ![c] = TRUE]}
        BY <1>5 DEF HandleBuffer, PushMail
    <2>3. mailEdge' \in Marks
        BY <2>2, MarkSet DEF Flagged
    <2>4. UNCHANGED <<socketEdge, writeEdge, acceptEdge, managerEdge, aborted>>
        BY <1>5 DEF HandleBuffer, manager
    <2> QED
        BY <2>1, <2>3, <2>4, Zenon DEF Flagged
<1> QED
    BY <1>1, <1>2, <1>3, <1>4, <1>5 DEF ReceiverStep

LEMMA FlaggedStep ==
    ASSUME Flagged, [Next]_vars
    PROVE  Flagged'
<1>1. CASE Peers
    <2>1. /\ UNCHANGED <<full, noticed, mailEdge, writeEdge, managerEdge, aborted>>
          /\ acceptEdge' \in {acceptEdge, TRUE}
          /\ \E c \in Conns : socketEdge' \in {socketEdge, [socketEdge EXCEPT ![c] = TRUE]}
        BY <1>1 DEF Peers, Connect, SendPacket, Disconnect, manager, client
    <2>2. socketEdge' \in Marks
        BY <2>1, MarkSet DEF Flagged
    <2>3. acceptEdge' \in BOOLEAN
        BY <2>1, Zenon DEF Flagged
    <2> QED
        BY <2>1, <2>2, <2>3, Zenon DEF Flagged
<1>2. CASE SenderStep
    <2>1. CASE SenderWait
        <3>1. writeEdge' \in Marks /\ UNCHANGED <<full, noticed, mailEdge, socketEdge, acceptEdge, managerEdge, aborted>>
            BY <2>1, MarksReset DEF SenderWait, manager, client
        <3> QED
            BY <3>1, Zenon DEF Flagged
    <2> QED
        BY <1>2, <2>1, LoopFlags, FlagsStill
        DEF SenderStep, HandleWritable, Threads, flags, kernel, manager, client
<1>3. ASSUME NEW f \in Fds, CloseCommand(f)
      PROVE  Flagged'
    <2>1. UNCHANGED <<full, noticed, mailEdge, socketEdge, writeEdge, acceptEdge, aborted>> /\ managerEdge' = TRUE
        BY <1>3 DEF CloseCommand, kernel, client
    <2> QED
        BY <2>1, Zenon DEF Flagged
<1>4. CASE Closing \/ CloseThread("sender") \/ UNCHANGED vars
    BY <1>4, FlagsStill DEF Closing, CloseThread, Exit, vars, flags, kernel, manager, client
<1> QED
    BY <1>1, <1>2, <1>3, <1>4, ServerFlags, ReceiverFlags DEF Next

LEMMA PartsOfType ==
    ASSUME Types, Counted, Filled, Mailed, Flagged
    PROVE  TypeOK
<1>1. MaxPackets \in Nat
    BY CoreAssumption
<1>2. toSend \in 0..MaxPackets /\ unread \in [Conns -> 0..MaxPackets]
    <2>1. \A c \in Conns : unread[c] \in 0..MaxPackets
        BY <1>1 DEF Counted
    <2> QED
        BY <2>1 DEF Counted
<1>3. \A t \in Threads : inbox[t] \in Seq(Conns \cup {"Close"}) /\ Len(inbox[t]) <= QueueSize
    BY DEF Types, Typed, Filled
<1>4. /\ {full, noticed, mailEdge, socketEdge, writeEdge} \subseteq [Conns -> BOOLEAN]
      /\ {acceptEdge, managerEdge, aborted} \subseteq BOOLEAN
    BY Zenon DEF Flagged, Marks
<1> QED
    BY <1>2, <1>3, <1>4, Zenon DEF Types, Typed, Filled, Mailed, TypeOK

TypeInv == Types /\ Counted /\ Filled /\ Mailed /\ Flagged

\* Every variable of the server keeps its type: no count goes below zero, no queue
\* has more than QueueSize ordinary messages, and the sockets never hold more
\* packets than the peers have sent.
THEOREM TypeCorrect == Spec => []TypeOK
<1>1. Init => TypeInv
    <2> SUFFICES ASSUME Init
                 PROVE  TypeInv
        OBVIOUS
    <2>1. {MaxPackets, MaxErase, MaxMail} \subseteq Nat /\ QueueSize \in Nat
        BY CoreAssumption
    <2>2. Counted
        BY <2>1 DEF Init, Counted
    <2>3. Filled
        BY <2>1 DEF Init, Filled
    <2>4. Mailed
        BY <2>1 DEF Init, Mailed
    <2>5. Flagged
        BY Zenon DEF Init, Flagged, Marks
    <2> QED
        BY <2>2, <2>3, <2>4, <2>5, TypesInit DEF TypeInv
<1>2. TypeInv /\ [Next]_vars => TypeInv'
    BY TypesStep, CountedStep, QueueSteps, FilledStep, MailSteps, MailedStep, FlaggedStep DEF TypeInv
<1>3. TypeInv => TypeOK
    BY PartsOfType DEF TypeInv
<1> QED
    BY <1>1, <1>2, <1>3, PTL DEF Spec

-----------------------------------------------------------------------------
(* Who owns a descriptor: a connection is fresh, in the hands of the       *)
(* acceptor, in the queue of the manager, or a client in its map.          *)

Waiting(c) == \E i \in DOMAIN addMail : addMail[i] = c

FreshUntilAccepted ==
    /\ \A c \in Conns : peer[c] = "none" \/ c \in backlog => fdOf[c] = None /\ object[c] = "none"
    /\ \A c \in backlog : peer[c] # "none"

AcceptedOnce ==
    /\ current["receiver"] \in Conns =>
        /\ fdOf[current["receiver"]] \in Fds /\ object[current["receiver"]] = "none"
        /\ ~Waiting(current["receiver"])
    /\ \A i \in DOMAIN addMail : fdOf[addMail[i]] \in Fds /\ object[addMail[i]] = "none"
    /\ \A i, j \in DOMAIN addMail : addMail[i] = addMail[j] => i = j

MapIsLive ==
    /\ \A c \in Conns : object[c] = "live" => fdOf[c] \in Fds /\ clientsMap[fdOf[c]] = c
    /\ \A f \in Fds : clientsMap[f] # None =>
        fdOf[clientsMap[f]] = f /\ object[clientsMap[f]] = "live"

FdHasOwner ==
    \A c \in Conns : fdOf[c] # None => current["receiver"] = c \/ Waiting(c) \/ object[c] = "live"

FdUnique == \A c, d \in Conns : c # d /\ fdOf[c] # None => fdOf[c] # fdOf[d]

\* What a session has asked for and nobody has handled yet would still hit it, or
\* nobody: the next client comes into the map only when no erase message is left.
EraseOwn ==
    \A m \in EraseMessage : eraseMail[m] > 0 /\ m.by \in Conns => clientsMap[m.fd] \in {m.by, None}

Owners ==
    FreshUntilAccepted /\ AcceptedOnce /\ MapIsLive /\ FdHasOwner /\ FdUnique /\ EraseOwn

ownership == <<peer, backlog, fdOf, clientsMap, eraseMail, addMail, object>>

LEMMA OwnersInit ==
    ASSUME Init
    PROVE  Owners
<1>1. FreshUntilAccepted /\ MapIsLive /\ FdHasOwner /\ FdUnique /\ EraseOwn
    BY DEF Init, FreshUntilAccepted, MapIsLive, FdHasOwner, FdUnique, EraseOwn
<1>2. current["receiver"] = None /\ addMail = <<>>
    BY DEF Init, Threads
<1>3. AcceptedOnce
    BY <1>2, CoreAssumption DEF AcceptedOnce
<1> QED
    BY <1>1, <1>3 DEF Owners

LEMMA OwnersStill ==
    ASSUME Types, Owners, UNCHANGED ownership, current'["receiver"] = current["receiver"]
    PROVE  Owners'
BY DEF Owners, FreshUntilAccepted, AcceptedOnce, MapIsLive, FdHasOwner, FdUnique, EraseOwn,
       Waiting, ownership

LEMMA PeersOwners ==
    ASSUME Types, Owners, Peers
    PROVE  Owners'
<1>1. UNCHANGED <<fdOf, clientsMap, eraseMail, addMail, object, current>>
    BY DEF Peers, Connect, SendPacket, Disconnect, manager, client, loops
<1>2. FreshUntilAccepted'
    <2>1. ASSUME NEW c \in Conns, Connect(c)
          PROVE  FreshUntilAccepted'
        BY <1>1, <2>1 DEF Connect, Owners, FreshUntilAccepted, Types, Typed
    <2>2. ASSUME NEW c \in Conns, SendPacket(c) \/ Disconnect(c)
          PROVE  FreshUntilAccepted'
        BY <1>1, <2>2 DEF SendPacket, Disconnect, Owners, FreshUntilAccepted, Types, Typed
    <2> QED
        BY <2>1, <2>2 DEF Peers
<1>3. AcceptedOnce' /\ MapIsLive' /\ FdHasOwner' /\ FdUnique' /\ EraseOwn'
    BY <1>1 DEF Owners, AcceptedOnce, MapIsLive, FdHasOwner, FdUnique, EraseOwn, Waiting
<1> QED
    BY <1>2, <1>3 DEF Owners

LEMMA AcceptOwners ==
    ASSUME Types, Owners, NEW c \in Conns, NEW f \in Fds, Accept(c, f)
    PROVE  Owners'
<1>1. /\ UNCHANGED <<peer, clientsMap, eraseMail, addMail, object>>
      /\ c \in backlog /\ backlog' = backlog \ {c}
      /\ fdOf[c] = None /\ object[c] = "none" /\ peer[c] # "none"
      /\ \A d \in Conns : fdOf[d] # f
    BY DEF Accept, FreeFds, manager, client, Owners, FreshUntilAccepted
<1>2. current["receiver"] = None
    BY PushesFacts DEF Accept, Types, Busy, Threads
<1>3. CASE UNCHANGED <<fdOf, current>>
    <2>1. FreshUntilAccepted'
        BY <1>1, <1>3 DEF Owners, FreshUntilAccepted
    <2> QED
        BY <1>1, <1>3, <2>1
        DEF Owners, AcceptedOnce, MapIsLive, FdHasOwner, FdUnique, EraseOwn, Waiting
<1>4. CASE /\ fdOf' = [fdOf EXCEPT ![c] = f]
           /\ current' = [current EXCEPT !["receiver"] = c]
    <2>1. /\ fdOf'[c] = f /\ current'["receiver"] = c
          /\ \A d \in Conns \ {c} : fdOf'[d] = fdOf[d]
        BY <1>4 DEF Types, Typed, Threads
    <2>2. ~Waiting(c)
        BY <1>1, CoreAssumption DEF Owners, AcceptedOnce, Waiting
    <2>3. FreshUntilAccepted'
        BY <1>1, <2>1 DEF Owners, FreshUntilAccepted
    <2>4. AcceptedOnce'
        <3>1. \A i \in DOMAIN addMail : addMail[i] \in Conns \ {c}
            BY <2>2 DEF Waiting, Types, Typed
        <3> QED
            BY <1>1, <2>1, <2>2, <3>1 DEF Owners, AcceptedOnce, Waiting
    <2>5. MapIsLive'
        <3>1. \A g \in Fds : clientsMap[g] # None => clientsMap[g] \in Conns \ {c}
            BY <1>1 DEF Owners, MapIsLive, Types, Typed
        <3> QED
            BY <1>1, <2>1, <3>1 DEF Owners, MapIsLive
    <2>6. FdHasOwner'
        BY <1>1, <1>2, <2>1, CoreAssumption DEF Owners, FdHasOwner, Waiting
    <2>7. FdUnique'
        BY <1>1, <2>1 DEF Owners, FdUnique
    <2>8. EraseOwn'
        BY <1>1 DEF Owners, EraseOwn
    <2> QED
        BY <2>3, <2>4, <2>5, <2>6, <2>7, <2>8 DEF Owners
<1> QED
    BY <1>3, <1>4 DEF Accept

LEMMA PushClientOwners ==
    ASSUME Types, Owners, PushClient
    PROVE  Owners'
<1> DEFINE c == current["receiver"]
<1>1. /\ UNCHANGED <<peer, backlog, fdOf, clientsMap, eraseMail, object>>
      /\ addMail' = Append(addMail, c) /\ current'["receiver"] = None
    BY DEF PushClient, kernel, client, Types, Typed, Threads
<1>2. c \in Conns
    BY PushesFacts DEF PushClient, Types, Busy, Threads, Resting
<1>3. addMail \in Seq(Conns)
    BY DEF Types, Typed
<1> HIDE DEF c
<1>4. /\ DOMAIN addMail' = DOMAIN addMail \cup {Len(addMail) + 1}
      /\ Len(addMail) + 1 \notin DOMAIN addMail
      /\ addMail'[Len(addMail) + 1] = c
      /\ \A i \in DOMAIN addMail : addMail'[i] = addMail[i]
    BY <1>1, <1>2, <1>3
<1>5. \A d : Waiting(d)' <=> Waiting(d) \/ d = c
    BY <1>4 DEF Waiting
<1>6. fdOf[c] \in Fds /\ object[c] = "none" /\ ~Waiting(c)
    BY <1>2 DEF Owners, AcceptedOnce, c
<1>7. AcceptedOnce'
    <2>1. current'["receiver"] \notin Conns
        BY <1>1, CoreAssumption
    <2>2. \A i \in DOMAIN addMail' : fdOf[addMail'[i]] \in Fds /\ object[addMail'[i]] = "none"
        BY <1>4, <1>6 DEF Owners, AcceptedOnce
    <2>3. \A i, j \in DOMAIN addMail' : addMail'[i] = addMail'[j] => i = j
        BY <1>4, <1>6 DEF Owners, AcceptedOnce, Waiting
    <2> QED
        BY <1>1, <2>1, <2>2, <2>3 DEF AcceptedOnce
<1>8. FdHasOwner'
    BY <1>1, <1>5 DEF Owners, FdHasOwner, c
<1>9. FreshUntilAccepted' /\ MapIsLive' /\ FdUnique' /\ EraseOwn'
    BY <1>1 DEF Owners, FreshUntilAccepted, MapIsLive, FdUnique, EraseOwn
<1> QED
    BY <1>7, <1>8, <1>9 DEF Owners

\* The manager takes the first AddClient: nobody else has anything to do with
\* that connection, and it is not added a second time.
LEMMA FirstAdded ==
    ASSUME Types, Owners, addMail # <<>>, addMail' = Tail(addMail),
           NEW c, c = Head(addMail)
    PROVE  /\ c \in Conns /\ fdOf[c] \in Fds /\ object[c] = "none"
           /\ current["receiver"] # c /\ \A g \in Fds : clientsMap[g] # c
           /\ \A d \in Conns \ {c} : (\E i \in DOMAIN addMail' : addMail'[i] = d) <=> Waiting(d)
           /\ \A i \in DOMAIN addMail' :
                /\ addMail'[i] \in Conns \ {c}
                /\ i + 1 \in DOMAIN addMail /\ addMail'[i] = addMail[i + 1]
           /\ \A i, j \in DOMAIN addMail' : addMail'[i] = addMail'[j] => i = j
<1>1. addMail \in Seq(Conns)
    BY DEF Types, Typed
<1>2. /\ c \in Conns /\ c = addMail[1] /\ 1 \in DOMAIN addMail
      /\ \A i \in DOMAIN addMail' : i + 1 \in DOMAIN addMail \ {1} /\ addMail'[i] = addMail[i + 1]
      /\ \A i \in DOMAIN addMail \ {1} : i - 1 \in DOMAIN addMail' /\ addMail'[i - 1] = addMail[i]
    BY <1>1
<1>3. fdOf[c] \in Fds /\ object[c] = "none" /\ current["receiver"] # c
    BY <1>2 DEF Owners, AcceptedOnce, Waiting
<1>4. ASSUME NEW i \in DOMAIN addMail'
      PROVE  addMail'[i] \in Conns \ {c}
    <2>1. i + 1 \in DOMAIN addMail /\ i + 1 # 1 /\ addMail'[i] = addMail[i + 1]
        BY <1>2
    <2>2. addMail[i + 1] # addMail[1] /\ addMail[i + 1] \in Conns
        BY <1>1, <1>2, <2>1 DEF Owners, AcceptedOnce
    <2> QED
        BY <1>2, <2>1, <2>2
<1>5. ASSUME NEW i \in DOMAIN addMail', NEW j \in DOMAIN addMail', addMail'[i] = addMail'[j]
      PROVE  i = j
    <2>1. i + 1 \in DOMAIN addMail /\ j + 1 \in DOMAIN addMail /\ addMail[i + 1] = addMail[j + 1]
        BY <1>2, <1>5
    <2>2. i + 1 = j + 1
        BY <2>1 DEF Owners, AcceptedOnce
    <2>3. i \in Int /\ j \in Int
        BY <1>1
    <2> QED
        BY <2>2, <2>3
<1>6. \A d \in Conns \ {c} : (\E i \in DOMAIN addMail' : addMail'[i] = d) <=> Waiting(d)
    BY <1>2 DEF Waiting
<1>7. \A g \in Fds : clientsMap[g] # c
    BY <1>2, <1>3, CoreAssumption DEF Owners, MapIsLive
<1> QED
    BY <1>2, <1>3, <1>4, <1>5, <1>6, <1>7

LEMMA AddClientOwners ==
    ASSUME Types, Owners, AddClient
    PROVE  Owners'
<1> DEFINE c == Head(addMail)
           f == fdOf[c]
<1>1. /\ addMail # <<>> /\ addMail' = Tail(addMail)
      /\ clientsMap' = [clientsMap EXCEPT ![f] = c]
      /\ object' = [object EXCEPT ![c] = "live"]
      /\ UNCHANGED <<peer, backlog, fdOf, eraseMail>>
      /\ current'["receiver"] = current["receiver"]
    BY DEF AddClient, NextIsAdd, Written, Types, Typed, Threads
<1>2. \A m \in EraseMessage : eraseMail[m] = 0
    BY DEF AddClient, NextIsAdd, ErasePending, Types, Typed
<1>3. /\ c \in Conns /\ f \in Fds /\ object[c] = "none"
      /\ current["receiver"] # c /\ \A g \in Fds : clientsMap[g] # c
      /\ \A d \in Conns \ {c} : (\E i \in DOMAIN addMail' : addMail'[i] = d) <=> Waiting(d)
      /\ \A i \in DOMAIN addMail' :
            /\ addMail'[i] \in Conns \ {c}
            /\ i + 1 \in DOMAIN addMail /\ addMail'[i] = addMail[i + 1]
      /\ \A i, j \in DOMAIN addMail' : addMail'[i] = addMail'[j] => i = j
    BY <1>1, FirstAdded
<1> HIDE DEF c
<1>4. c \in Conns
    BY <1>3
<1>5. f \in Fds /\ object[c] = "none"
    BY <1>3
<1>7. \A d \in Conns : d # c => (Waiting(d)' <=> Waiting(d))
    BY <1>3 DEF Waiting
<1>8. current["receiver"] # c
    BY <1>3
<1>9. \A g \in Fds : clientsMap[g] # c
    BY <1>3
<1>10. /\ object'[c] = "live" /\ \A d \in Conns \ {c} : object'[d] = object[d]
       /\ clientsMap'[f] = c /\ \A g \in Fds \ {f} : clientsMap'[g] = clientsMap[g]
    BY <1>1, <1>4, <1>5 DEF Types, Typed
<1> HIDE DEF f
<1>11. \A d \in Conns \ {c} : fdOf[d] # f
    BY <1>4, <1>5, CoreAssumption DEF Owners, FdUnique, f
<1>12. FreshUntilAccepted'
    <2>1. \A d \in Conns : peer[d] = "none" \/ d \in backlog => d # c
        BY <1>5, CoreAssumption DEF Owners, FreshUntilAccepted, f
    <2> QED
        BY <1>1, <1>10, <2>1 DEF Owners, FreshUntilAccepted
<1>13. AcceptedOnce'
    <2>1. ASSUME NEW d \in Conns, d = current["receiver"]
          PROVE  fdOf[d] \in Fds /\ object'[d] = "none" /\ ~Waiting(d)'
        <3>1. fdOf[d] \in Fds /\ object[d] = "none" /\ ~Waiting(d)
            BY <2>1 DEF Owners, AcceptedOnce, Waiting
        <3> QED
            BY <1>7, <1>8, <1>10, <2>1, <3>1
    <2>2. ASSUME NEW i \in DOMAIN addMail'
          PROVE  fdOf[addMail'[i]] \in Fds /\ object'[addMail'[i]] = "none"
        BY <1>3, <1>10 DEF Owners, AcceptedOnce
    <2> QED
        BY <1>1, <1>3, <2>1, <2>2 DEF AcceptedOnce, Waiting
<1>14. MapIsLive'
    <2>1. ASSUME NEW d \in Conns, object'[d] = "live"
          PROVE  fdOf[d] \in Fds /\ clientsMap'[fdOf[d]] = d
        <3>1. CASE d = c
            BY <1>5, <1>10, <3>1 DEF f
        <3>2. CASE d # c
            BY <1>10, <1>11, <2>1, <3>2 DEF Owners, MapIsLive
        <3> QED
            BY <3>1, <3>2
    <2>2. ASSUME NEW g \in Fds, clientsMap'[g] # None
          PROVE  fdOf[clientsMap'[g]] = g /\ object'[clientsMap'[g]] = "live"
        <3>1. CASE g = f
            BY <1>10, <3>1 DEF f
        <3>2. CASE g # f
            <4>1. clientsMap'[g] = clientsMap[g] /\ clientsMap[g] \in Conns \ {c}
                BY <1>9, <1>10, <2>2, <3>2 DEF Types, Typed
            <4> QED
                BY <1>10, <2>2, <4>1 DEF Owners, MapIsLive
        <3> QED
            BY <3>1, <3>2
    <2> QED
        BY <1>1, <2>1, <2>2 DEF MapIsLive
<1>15. FdHasOwner'
    BY <1>1, <1>7, <1>10 DEF Owners, FdHasOwner
<1>16. FdUnique' /\ EraseOwn'
    BY <1>1, <1>2 DEF Owners, FdUnique, EraseOwn
<1> QED
    BY <1>12, <1>13, <1>14, <1>15, <1>16 DEF Owners

LEMMA AddClientFailsOwners ==
    ASSUME Types, Owners, AddClientFails
    PROVE  Owners'
<1> DEFINE c == Head(addMail)
<1>1. /\ addMail # <<>> /\ addMail' = Tail(addMail)
      /\ fdOf' = [fdOf EXCEPT ![c] = None]
      /\ UNCHANGED <<peer, backlog, eraseMail, clientsMap, object, current>>
    BY DEF AddClientFails, NextIsAdd, FdsAfterErase, client
<1>2. /\ c \in Conns /\ fdOf[c] \in Fds /\ object[c] = "none"
      /\ current["receiver"] # c /\ \A g \in Fds : clientsMap[g] # c
      /\ \A d \in Conns \ {c} : (\E i \in DOMAIN addMail' : addMail'[i] = d) <=> Waiting(d)
      /\ \A i \in DOMAIN addMail' :
            /\ addMail'[i] \in Conns \ {c}
            /\ i + 1 \in DOMAIN addMail /\ addMail'[i] = addMail[i + 1]
      /\ \A i, j \in DOMAIN addMail' : addMail'[i] = addMail'[j] => i = j
    BY <1>1, FirstAdded
<1> HIDE DEF c
<1>3. fdOf'[c] = None /\ \A d \in Conns \ {c} : fdOf'[d] = fdOf[d]
    BY <1>1, <1>2 DEF Types, Typed
<1>4. FreshUntilAccepted'
    BY <1>1, <1>3 DEF Owners, FreshUntilAccepted
<1>5. AcceptedOnce'
    BY <1>1, <1>2, <1>3 DEF Owners, AcceptedOnce, Waiting
<1>6. MapIsLive'
    <2>1. \A g \in Fds : clientsMap[g] # None => clientsMap[g] \in Conns \ {c}
        BY <1>2 DEF Types, Typed
    <2>2. \A d \in Conns : object[d] = "live" => d # c
        BY <1>2
    <2> QED
        BY <1>1, <1>3, <2>1, <2>2 DEF Owners, MapIsLive
<1>7. FdHasOwner'
    BY <1>1, <1>2, <1>3 DEF Owners, FdHasOwner, Waiting
<1>8. FdUnique' /\ EraseOwn'
    BY <1>1, <1>3 DEF Owners, FdUnique, EraseOwn
<1> QED
    BY <1>4, <1>5, <1>6, <1>7, <1>8 DEF Owners

LEMMA EraseClientOwners ==
    ASSUME Types, Owners, NEW m \in EraseMessage, EraseClient(m)
    PROVE  Owners'
<1> DEFINE c == clientsMap[m.fd]
<1>1. /\ eraseMail' = [eraseMail EXCEPT ![m] = @ - 1]
      /\ UNCHANGED <<peer, backlog, addMail, current>>
      /\ \/ UNCHANGED <<fdOf, clientsMap, object>>
         \/ /\ c # None
            /\ clientsMap' = [clientsMap EXCEPT ![m.fd] = None]
            /\ object' = [object EXCEPT ![c] = "dead"]
            /\ fdOf' = [fdOf EXCEPT ![c] = None]
    BY DEF EraseClient, kernel, MapAfterErase, FdsAfterErase
<1>2. m.fd \in Fds
    BY DEF EraseMessage
<1>3. \A n \in EraseMessage : eraseMail'[n] > 0 => eraseMail[n] > 0
    BY <1>1 DEF Types, Typed
<1>4. CASE UNCHANGED <<fdOf, clientsMap, object>>
    <2>1. EraseOwn'
        BY <1>3, <1>4 DEF Owners, EraseOwn
    <2> QED
        BY <1>1, <1>4, <2>1
        DEF Owners, FreshUntilAccepted, AcceptedOnce, MapIsLive, FdHasOwner, FdUnique, Waiting
<1>5. CASE /\ c # None
           /\ clientsMap' = [clientsMap EXCEPT ![m.fd] = None]
           /\ object' = [object EXCEPT ![c] = "dead"]
           /\ fdOf' = [fdOf EXCEPT ![c] = None]
    <2>1. c \in Conns /\ fdOf[c] = m.fd /\ object[c] = "live"
        BY <1>2, <1>5 DEF Owners, MapIsLive, Types, Typed
    <2> HIDE DEF c
    <2>2. /\ object'[c] = "dead" /\ fdOf'[c] = None /\ clientsMap'[m.fd] = None
          /\ \A d \in Conns \ {c} : object'[d] = object[d] /\ fdOf'[d] = fdOf[d]
          /\ \A g \in Fds \ {m.fd} : clientsMap'[g] = clientsMap[g]
        BY <1>2, <1>5, <2>1 DEF Types, Typed
    <2>3. ~Waiting(c) /\ current["receiver"] # c
        BY <2>1 DEF Owners, AcceptedOnce, Waiting
    <2>4. FreshUntilAccepted'
        <3>1. \A d \in Conns : peer[d] = "none" \/ d \in backlog => d # c
            BY <2>1 DEF Owners, FreshUntilAccepted
        <3> QED
            BY <1>1, <2>2, <3>1 DEF Owners, FreshUntilAccepted
    <2>5. AcceptedOnce'
        <3>1. \A i \in DOMAIN addMail : addMail[i] \in Conns \ {c}
            BY <2>3 DEF Waiting, Types, Typed
        <3> QED
            BY <1>1, <2>2, <2>3, <3>1 DEF Owners, AcceptedOnce, Waiting
    <2>6. MapIsLive'
        <3>1. \A d \in Conns \ {c} : fdOf[d] # m.fd
            BY <1>2, <2>1, CoreAssumption DEF Owners, FdUnique
        <3>2. \A g \in Fds \ {m.fd} : clientsMap[g] # c
            BY <1>2, <2>1, <1>5 DEF Owners, MapIsLive
        <3>3. \A d \in Conns : object'[d] = "live" => fdOf'[d] \in Fds /\ clientsMap'[fdOf'[d]] = d
            BY <2>2, <3>1 DEF Owners, MapIsLive
        <3>4. ASSUME NEW g \in Fds, clientsMap'[g] # None
              PROVE  fdOf'[clientsMap'[g]] = g /\ object'[clientsMap'[g]] = "live"
            <4>1. g # m.fd /\ clientsMap'[g] = clientsMap[g]
                BY <2>2, <3>4
            <4>2. clientsMap[g] \in Conns \ {c}
                BY <3>2, <3>4, <4>1 DEF Types, Typed
            <4> QED
                BY <2>2, <3>4, <4>1, <4>2 DEF Owners, MapIsLive
        <3> QED
            BY <3>3, <3>4 DEF MapIsLive
    <2>7. FdHasOwner'
        BY <1>1, <2>2 DEF Owners, FdHasOwner, Waiting
    <2>8. FdUnique'
        BY <2>2 DEF Owners, FdUnique
    <2>9. EraseOwn'
        <3> SUFFICES ASSUME NEW n \in EraseMessage, eraseMail'[n] > 0, n.by \in Conns
                     PROVE  clientsMap'[n.fd] \in {n.by, None}
            BY DEF EraseOwn
        <3>1. n.fd \in Fds
            BY DEF EraseMessage
        <3>2. clientsMap[n.fd] \in {n.by, None}
            BY <1>3 DEF Owners, EraseOwn
        <3> QED
            BY <2>2, <3>1, <3>2
    <2> QED
        BY <2>4, <2>5, <2>6, <2>7, <2>8, <2>9 DEF Owners
<1> QED
    BY <1>1, <1>4, <1>5

LEMMA HandleClientOwners ==
    ASSUME Types, Owners, NEW c \in Conns, HandleClient(c)
    PROVE  Owners'
<1> DEFINE m == [by |-> c, fd |-> fdOf[c]]
<1>0. PICK k \in Nat : RequestErase(c, k)
    BY HandleClientErases
<1>1. /\ UNCHANGED <<peer, backlog, fdOf, clientsMap, addMail, object, current>>
      /\ eraseMail' = [eraseMail EXCEPT ![m] = @ + k]
      /\ object[c] = "live"
    BY <1>0 DEF HandleClient, RequestErase, Written, kernel
<1>2. fdOf[c] \in Fds /\ clientsMap[fdOf[c]] = c
    BY <1>1 DEF Owners, MapIsLive
<1>3. \A n \in EraseMessage \ {m} : eraseMail'[n] = eraseMail[n]
    BY <1>1 DEF Types, Typed
<1>4. clientsMap[m.fd] = c
    BY <1>2
<1> HIDE DEF m
<1>5. EraseOwn'
    <2> SUFFICES ASSUME NEW n \in EraseMessage, eraseMail'[n] > 0, n.by \in Conns
                 PROVE  clientsMap[n.fd] \in {n.by, None}
        BY <1>1 DEF EraseOwn
    <2>1. CASE n = m
        BY <1>4, <2>1 DEF m
    <2>2. CASE n # m
        BY <1>3, <2>2 DEF Owners, EraseOwn
    <2> QED
        BY <2>1, <2>2
<1> QED
    BY <1>1, <1>5
    DEF Owners, FreshUntilAccepted, AcceptedOnce, MapIsLive, FdHasOwner, FdUnique, Waiting

LEMMA CloseCommandOwners ==
    ASSUME Types, Owners, NEW f \in Fds, CloseCommand(f)
    PROVE  Owners'
<1> DEFINE m == [by |-> Operator, fd |-> f]
<1>1. /\ UNCHANGED <<peer, backlog, fdOf, clientsMap, addMail, object, current>>
      /\ eraseMail' = [eraseMail EXCEPT ![m] = @ + 1]
    BY DEF CloseCommand, kernel, client, loops
<1>2. \A n \in EraseMessage : n.by \in Conns => n # m
    BY CoreAssumption
<1> HIDE DEF m
<1>3. EraseOwn'
    BY <1>1, <1>2 DEF Owners, EraseOwn, Types, Typed
<1> QED
    BY <1>1, <1>3
    DEF Owners, FreshUntilAccepted, AcceptedOnce, MapIsLive, FdHasOwner, FdUnique, Waiting

\* The other steps of the loops have nothing to do with descriptors.
LEMMA LoopOwners ==
    ASSUME Types, Owners, NEW t \in Threads, Loop(t)
    PROVE  Owners' /\ UNCHANGED erased
<1>1. UNCHANGED ownership /\ UNCHANGED current /\ UNCHANGED erased
    BY DEF Loop, Register, ReadClose, ReadEmpty, HandleDead, Dies, ownership, kernel, manager,
           client, loops, rest
<1> QED
    BY <1>1, OwnersStill

LEMMA OwnersStep ==
    ASSUME Types, Owners, [Next]_vars
    PROVE  Owners'
<1> USE DEF Threads
<1>1. CASE ServerWait \/ ReceiverWait \/ SenderWait
    <2>1. UNCHANGED ownership /\ UNCHANGED current
        BY <1>1 DEF ServerWait, ReceiverWait, SenderWait, ownership, kernel, manager, client
    <2> QED
        BY <2>1, OwnersStill
<1>2. CASE PushEvent
    <2>1. UNCHANGED ownership /\ current'["receiver"] = current["receiver"]
        BY <1>2 DEF PushEvent, ownership, kernel, manager, client, Types, Typed
    <2> QED
        BY <2>1, OwnersStill
<1>3. ASSUME NEW c \in Conns, BrokenPipe(c) \/ HandleBuffer(c) \/ HandleWritable(c)
      PROVE  Owners'
    <2>1. UNCHANGED ownership /\ UNCHANGED current
        BY <1>3 DEF BrokenPipe, Dies, HandleBuffer, HandleWritable, ownership, kernel, manager,
                    client, loops
    <2> QED
        BY <2>1, OwnersStill
<1>4. CASE \/ AcceptFails \/ Exit \/ UNCHANGED vars
           \/ \E t \in Threads : CloseThread(t)
    <2>1. UNCHANGED ownership /\ UNCHANGED current
        BY <1>4 DEF AcceptFails, Exit, CloseThread, ownership, vars, kernel, manager, client, loops
    <2> QED
        BY <2>1, OwnersStill
<1>5. CASE ServerStep
    BY <1>1, <1>2, <1>3, <1>5, LoopOwners, AddClientOwners, AddClientFailsOwners,
        EraseClientOwners, HandleClientOwners
    DEF ServerStep
<1>6. CASE ReceiverStep
    BY <1>1, <1>3, <1>4, <1>6, LoopOwners, PushClientOwners, AcceptOwners DEF ReceiverStep
<1>7. CASE SenderStep
    BY <1>1, <1>3, <1>7, LoopOwners DEF SenderStep
<1> QED
    BY <1>4, <1>5, <1>6, <1>7, PeersOwners, CloseCommandOwners DEF Next, Closing

LEMMA OwnersHold == Spec => [](Types /\ Owners)
<1>1. Init => Types /\ Owners
    BY TypesInit, OwnersInit
<1>2. Types /\ Owners /\ [Next]_vars => (Types /\ Owners)'
    BY TypesStep, OwnersStep
<1> QED
    BY <1>1, <1>2, PTL DEF Spec

-----------------------------------------------------------------------------

LEMMA WaitingOnce ==
    ASSUME Types, Owners, NEW c \in Conns
    PROVE  Cardinality({i \in DOMAIN addMail : addMail[i] = c}) = IF Waiting(c) THEN 1 ELSE 0
<1> DEFINE places == {i \in DOMAIN addMail : addMail[i] = c}
<1>1. CASE Waiting(c)
    <2>1. PICK i \in DOMAIN addMail : addMail[i] = c
        BY <1>1 DEF Waiting
    <2>2. places = {i}
        BY <2>1 DEF Owners, AcceptedOnce
    <2> QED
        BY <1>1, <2>2, FS_Singleton
<1>2. CASE ~Waiting(c)
    <2>1. places = {}
        BY <1>2 DEF Waiting
    <2> QED
        BY <1>2, <2>1, FS_EmptySet
<1> QED
    BY <1>1, <1>2

\* An open descriptor has exactly one owner, and the map knows a client under its
\* own descriptor (Acceptor::recv, addClient, eraseClient).
THEOREM DescriptorOwnedHolds == Spec => []DescriptorOwned
<1>1. ASSUME Types, Owners, NEW c \in Conns
      PROVE  Pending(c) = IF fdOf[c] = None THEN 0 ELSE 1
    <2> DEFINE mapped == \E f \in Fds : clientsMap[f] = c
    <2>1. mapped <=> object[c] = "live"
        BY <1>1, CoreAssumption DEF Owners, MapIsLive
    <2>2. Pending(c) = (IF current["receiver"] = c THEN 1 ELSE 0)
                       + (IF Waiting(c) THEN 1 ELSE 0) + (IF mapped THEN 1 ELSE 0)
        BY <1>1, WaitingOnce DEF Pending
    <2>3. current["receiver"] = c => ~Waiting(c) /\ object[c] = "none" /\ fdOf[c] # None
        BY <1>1, CoreAssumption DEF Owners, AcceptedOnce
    <2>4. Waiting(c) => object[c] = "none" /\ fdOf[c] # None
        BY <1>1, CoreAssumption DEF Owners, AcceptedOnce, Waiting
    <2>5. object[c] = "live" => fdOf[c] # None
        BY <1>1, CoreAssumption DEF Owners, MapIsLive
    <2>6. fdOf[c] # None => current["receiver"] = c \/ Waiting(c) \/ object[c] = "live"
        BY <1>1 DEF Owners, FdHasOwner
    <2> HIDE DEF mapped
    <2> QED
        BY <2>1, <2>2, <2>3, <2>4, <2>5, <2>6
<1>2. ASSUME Types, Owners, NEW i \in DOMAIN addMail
      PROVE  clientsMap[fdOf[addMail[i]]] = None
    <2> DEFINE c == addMail[i]
               d == clientsMap[fdOf[c]]
    <2>1. c \in Conns /\ fdOf[c] \in Fds /\ object[c] = "none"
        BY <1>2 DEF Owners, AcceptedOnce, Types, Typed
    <2>2. d # None => d \in Conns /\ fdOf[d] = fdOf[c] /\ object[d] = "live"
        BY <1>2, <2>1 DEF Owners, MapIsLive, Types, Typed
    <2>3. d # None => d # c
        BY <2>1, <2>2
    <2> QED
        BY <1>2, <2>1, <2>2, <2>3, CoreAssumption DEF Owners, FdUnique
<1>3. Types /\ Owners => DescriptorOwned
    BY <1>1, <1>2 DEF DescriptorOwned, Owners, MapIsLive
<1> QED
    BY <1>3, OwnersHold, PTL

\* A client dies only of a message of its own session or of the operator
\* (ClientManager::eraseClient, ProtocolClient::closeConnection).
THEOREM EraseHitsIssuerHolds == Spec => []EraseHitsIssuer
<1>1. Init => EraseHitsIssuer
    BY DEF Init, EraseHitsIssuer
<1>2. ASSUME Types, Owners, EraseHitsIssuer, [Next]_vars
      PROVE  EraseHitsIssuer'
    <2>1. ASSUME NEW m \in EraseMessage, EraseClient(m)
          PROVE  EraseHitsIssuer'
        <3> DEFINE c == clientsMap[m.fd]
        <3>1. \/ erased' = erased
              \/ c # None /\ erased' = erased \cup {[conn |-> c, by |-> m.by]}
            BY <2>1 DEF EraseClient
        <3>2. eraseMail[m] > 0 /\ m.by \in Conns \cup {Operator}
            BY <2>1 DEF EraseClient, ErasePending, EraseMessage
        <3>3. c # None => m.by \in {c, Operator}
            BY <1>2, <3>2 DEF Owners, EraseOwn
        <3> HIDE DEF c
        <3> QED
            BY <1>2, <3>1, <3>3 DEF EraseHitsIssuer
    <2>2. CASE UNCHANGED erased
        BY <1>2, <2>2 DEF EraseHitsIssuer
    <2>3. ASSUME NEW t \in Threads, Loop(t)
          PROVE  UNCHANGED erased
        BY <1>2, <2>3, LoopOwners
    <2>4. ServerWait \/ ReceiverWait \/ SenderWait \/ PushEvent \/ AddClient \/ AddClientFails
            => UNCHANGED erased
        BY DEF ServerWait, ReceiverWait, SenderWait, PushEvent, AddClient, AddClientFails, rest
    <2>5. AcceptFails \/ PushClient \/ Peers => UNCHANGED erased
        BY DEF AcceptFails, PushClient, Peers, rest
    <2>6. ASSUME NEW c \in Conns, HandleClient(c) \/ BrokenPipe(c) \/ HandleBuffer(c)
                                   \/ HandleWritable(c) \/ \E f \in Fds : Accept(c, f)
          PROVE  UNCHANGED erased
        BY <2>6 DEF HandleClient, BrokenPipe, Dies, HandleBuffer, HandleWritable, Accept, rest
    <2>7. Exit \/ UNCHANGED vars \/ (\E t \in Threads : CloseThread(t))
          \/ (\E f \in Fds : CloseCommand(f)) => UNCHANGED erased
        BY DEF Exit, vars, rest, CloseThread, CloseCommand
    <2> QED
        BY <1>2, <2>1, <2>2, <2>3, <2>4, <2>5, <2>6, <2>7
        DEF Next, ServerStep, ReceiverStep, SenderStep, Closing, Threads
<1>3. Types /\ Owners /\ EraseHitsIssuer /\ [Next]_vars => EraseHitsIssuer'
    BY <1>2
<1> QED
    BY <1>1, <1>3, OwnersHold, PTL DEF Spec

-----------------------------------------------------------------------------
(* The Server thread's own queue: it is drained before the manager gets a   *)
(* turn, so a client in it has not been erased, and a push finds room.      *)

ServerInbox == inbox["server"]

\* ClientManager may still run in this round of the loop, or is about to push.
ManagerTurn ==
    \/ pc["server"] \in {"wait", "pushServer"}
    \/ pc["server"] = "handle" /\ "manager" \in batch["server"]

CloseOnce ==
    /\ \A i, j \in DOMAIN ServerInbox : ServerInbox[i] = "Close" /\ ServerInbox[j] = "Close" => i = j
    /\ \A i \in DOMAIN ServerInbox : ServerInbox[i] = "Close" =>
        main \in {"server", "exited"} /\ ~exit["server"]
    /\ exit["server"] => main \in {"server", "exited"} /\ pc["server"] # "read"

ClientOnce ==
    ~exit["server"] =>
        /\ \A i, j \in DOMAIN ServerInbox : ServerInbox[i] # "Close" /\ ServerInbox[j] # "Close" => i = j
        /\ \A i \in DOMAIN ServerInbox : ServerInbox[i] # "Close" =>
            object[ServerInbox[i]] = "live" /\ ~ManagerTurn

\* A client left behind a Close is the only one.
LeftBehind == exit["server"] /\ ManagerTurn => Len(ServerInbox) <= 1

PushedLive ==
    /\ pc["server"] \in Pushes["server"] =>
        object[current["server"]] = "live" /\ "manager" \notin batch["server"]
    /\ pc["server"] = "read" => batch["server"] = {}

Drained == CloseOnce /\ ClientOnce /\ LeftBehind /\ PushedLive

LEMMA DrainedInit ==
    ASSUME Init
    PROVE  Drained
<1>1. ServerInbox = <<>> /\ pc["server"] = "read" /\ batch["server"] = {} /\ ~exit["server"]
    BY DEF Init, ServerInbox, Threads
<1> QED
    BY <1>1, PushesFacts DEF Drained, CloseOnce, ClientOnce, LeftBehind, PushedLive, ManagerTurn

\* Nothing but the Server thread's place changes, and not towards the manager.
LEMMA DrainedOnward ==
    ASSUME Types, Drained, UNCHANGED <<ServerInbox, exit, main, current>>,
           \A c \in Conns : object[c] = "live" => object'[c] = "live" \/ ManagerTurn,
           batch'["server"] \subseteq batch["server"],
           pc'["server"] = Onward("server", batch'["server"]),
           pc["server"] = "handle"
    PROVE  Drained'
<1>1. /\ pc'["server"] \in Resting \ {"wait"} /\ pc'["server"] \notin Pushes["server"]
      /\ pc'["server"] = "read" => batch'["server"] = {} /\ ~exit["server"]
    BY PushesFacts DEF Onward, Resting, Threads
<1>2. ManagerTurn' => ManagerTurn
    BY <1>1 DEF ManagerTurn, Resting
<1>3. \A i \in DOMAIN ServerInbox : ServerInbox[i] # "Close" => ServerInbox[i] \in Conns
    BY DEF Types, Typed, ServerInbox, Threads
<1>4. CloseOnce'
    BY <1>1 DEF Drained, CloseOnce
<1>5. ClientOnce'
    BY <1>2, <1>3 DEF Drained, ClientOnce
<1>6. LeftBehind'
    BY <1>2 DEF Drained, LeftBehind
<1>7. PushedLive'
    BY <1>1 DEF PushedLive
<1> QED
    BY <1>4, <1>5, <1>6, <1>7 DEF Drained

\* A step that the Server thread has no part in.
LEMMA DrainedStill ==
    ASSUME Types, Drained,
           UNCHANGED <<ServerInbox, main, object>>,
           pc'["server"] = pc["server"], batch'["server"] = batch["server"],
           exit'["server"] = exit["server"], current'["server"] = current["server"]
    PROVE  Drained'
BY DEF Drained, CloseOnce, ClientOnce, LeftBehind, PushedLive, ManagerTurn

LEMMA HandledOnward ==
    ASSUME Types, NEW e, Handled("server", e)
    PROVE  /\ batch'["server"] \subseteq batch["server"]
           /\ pc'["server"] = Onward("server", batch'["server"])
<1>1. batch'["server"] = batch["server"] \ {e}
    BY DEF Handled, Types, Typed, Threads
<1>2. pc'["server"] = Onward("server", batch["server"] \ {e})
    BY DEF Handled, Types, Typed, Threads
<1> QED
    BY <1>1, <1>2

LEMMA LoopDrained ==
    ASSUME Types, Drained, Loop("server")
    PROVE  Drained'
<1> DEFINE q == ServerInbox
<1>1. q \in Seq(Conns \cup {"Close"}) /\ pc \in [Threads -> Pcs] /\ exit \in [Threads -> BOOLEAN]
      /\ inbox \in [Threads -> Seq(Conns \cup {"Close"})] /\ "server" \in Threads
    BY DEF Types, Typed, ServerInbox, Threads
<1>2. q # <<>> => /\ Len(Tail(q)) = Len(q) - 1
                  /\ \A i \in DOMAIN Tail(q) : i + 1 \in DOMAIN q /\ Tail(q)[i] = q[i + 1]
                  /\ DOMAIN Tail(q) \subseteq Int /\ 1 \in DOMAIN q /\ Head(q) = q[1]
    BY <1>1
<1>3. CASE UNCHANGED vars \/ Dies
    BY <1>3, DrainedStill DEF vars, Dies, kernel, client, loops, rest, ServerInbox
<1>4. CASE Register("server") /\ ~Dies
    <2>1. q # <<>> /\ ServerInbox' = Tail(q) /\ UNCHANGED <<pc, batch, exit, current, main, object>>
        BY <1>1, <1>4 DEF Register, ServerInbox, client, rest
    <2>2. pc["server"] = "read" /\ ~exit["server"]
        BY <1>4 DEF Register, Drained, CloseOnce
    <2> HIDE DEF q
    <2>3. CloseOnce'
        BY <1>2, <2>1 DEF Drained, CloseOnce, q
    <2>4. ClientOnce'
        BY <1>2, <2>1, <2>2 DEF Drained, ClientOnce, ManagerTurn, q
    <2>5. LeftBehind' /\ PushedLive'
        BY <2>1, <2>2 DEF Drained, LeftBehind, PushedLive
    <2> QED
        BY <2>3, <2>4, <2>5 DEF Drained
<1>5. CASE ReadClose("server")
    <2>1. /\ q # <<>> /\ q[1] = "Close" /\ ServerInbox' = Tail(q)
          /\ exit'["server"] = TRUE /\ pc'["server"] = "wait"
          /\ UNCHANGED <<batch, current, main, object>>
        BY <1>1, <1>2, <1>5 DEF ReadClose, ServerInbox, client, rest
    <2>2. ~exit["server"] /\ main \in {"server", "exited"}
        BY <1>2, <2>1 DEF Drained, CloseOnce
    <2>3. Len(q) <= 2
        <3> SUFFICES ASSUME Len(q) > 2
                     PROVE  FALSE
            BY <1>1
        <3>1. 2 \in DOMAIN q /\ 3 \in DOMAIN q
            BY <1>1
        <3> QED
            BY <1>2, <2>1, <2>2, <3>1 DEF Drained, CloseOnce, ClientOnce
    <2>4. \A i \in DOMAIN Tail(q) : Tail(q)[i] # "Close"
        BY <1>2, <2>1 DEF Drained, CloseOnce
    <2> HIDE DEF q
    <2>5. CloseOnce'
        BY <2>1, <2>2, <2>4 DEF CloseOnce
    <2>6. LeftBehind'
        BY <1>1, <1>2, <2>1, <2>3 DEF LeftBehind
    <2>7. ClientOnce' /\ PushedLive'
        BY <2>1, PushesFacts DEF ClientOnce, PushedLive
    <2> QED
        BY <2>5, <2>6, <2>7 DEF Drained
<1>6. CASE ReadEmpty("server")
    <2>1. /\ q = <<>> /\ pc["server"] = "read" /\ pc'["server"] = "wait"
          /\ UNCHANGED <<inbox, batch, current, exit, main, object>>
        BY <1>1, <1>6 DEF ReadEmpty, ServerInbox, client, rest
    <2>2. ~exit["server"]
        BY <2>1 DEF Drained, CloseOnce
    <2>3. UNCHANGED ServerInbox
        BY <2>1 DEF ServerInbox
    <2> QED
        BY <2>1, <2>2, <2>3, PushesFacts DEF Drained, CloseOnce, ClientOnce, LeftBehind, PushedLive
<1>7. ASSUME NEW c \in Conns, HandleDead("server", c), ~Dies
      PROVE  Drained'
    <2>1. /\ pc["server"] = "handle" /\ Handled("server", c)
          /\ UNCHANGED <<ServerInbox, exit, main, current, object>>
        BY <1>7 DEF HandleDead, ServerInbox, client, rest
    <2> QED
        BY <2>1, HandledOnward, DrainedOnward
<1> QED
    BY <1>3, <1>4, <1>5, <1>6, <1>7 DEF Loop

LEMMA ServerDrained ==
    ASSUME Types, Drained, ServerStep
    PROVE  Drained'
<1> USE DEF Threads
<1>1. CASE ServerWait
    <2>1. /\ pc["server"] = "wait" /\ pc'["server"] = Onward("server", batch'["server"])
          /\ UNCHANGED <<ServerInbox, exit, current, main, object>>
        BY <1>1 DEF ServerWait, ServerInbox, Types, Typed, rest
    <2>2. ManagerTurn /\ pc'["server"] \in Resting
          /\ (pc'["server"] = "read" => batch'["server"] = {} /\ ~exit["server"])
        BY <2>1 DEF ManagerTurn, Onward, Resting
    <2> QED
        BY <2>1, <2>2, PushesFacts DEF Drained, CloseOnce, ClientOnce, LeftBehind, PushedLive
<1>2. CASE AddClient
    <2>1. /\ ManagerTurn /\ pc'["server"] = "pushServer" /\ pc["server"] = "handle"
          /\ batch'["server"] = batch["server"] \ {"manager"}
          /\ \A c \in Conns : object[c] = "live" => object'[c] = "live"
          /\ UNCHANGED <<ServerInbox, exit, main>>
        BY <1>2 DEF AddClient, BatchAfterMessage, ManagerTurn, ServerInbox, Types, Typed, rest
    <2>2. object'[current'["server"]] = "live"
        <3>1. Head(addMail) \in Conns
            BY <1>2 DEF AddClient, NextIsAdd, Types, Typed
        <3> QED
            BY <1>2, <3>1 DEF AddClient, Types, Typed
    <2>3. CloseOnce' /\ LeftBehind' /\ PushedLive'
        BY <2>1, <2>2 DEF Drained, CloseOnce, LeftBehind, PushedLive
    <2>4. ClientOnce'
        BY <2>1 DEF Drained, ClientOnce
    <2> QED
        BY <2>3, <2>4 DEF Drained
<1>3. CASE PushEvent
    <2> DEFINE c == current["server"]
    <2>1. /\ c \in Conns /\ pc["server"] \in Pushes["server"]
          /\ object[c] = "live" /\ "manager" \notin batch["server"]
        BY <1>3, PushesFacts DEF PushEvent, PushStep, Types, Busy, Resting, Drained, PushedLive
    <2>2. UNCHANGED <<batch, exit, main, object>>
        BY <1>3 DEF PushEvent, client, rest
    <2>3. CASE pc["server"] = "pushServer"
        <3>1. /\ pc'["server"] = "pushReceiver" /\ current'["server"] = c
              /\ ServerInbox' = Append(ServerInbox, c)
            BY <1>3, <2>3 DEF PushEvent, PushStep, ServerInbox, Types, Typed
        <3>2. ServerInbox \in Seq(Conns \cup {"Close"}) /\ c # "Close"
            BY <2>1, CoreAssumption DEF ServerInbox, Types, Typed
        <3> HIDE DEF c
        <3>3. /\ DOMAIN ServerInbox' = DOMAIN ServerInbox \cup {Len(ServerInbox) + 1}
              /\ Len(ServerInbox) + 1 \notin DOMAIN ServerInbox
              /\ ServerInbox'[Len(ServerInbox) + 1] = c
              /\ \A i \in DOMAIN ServerInbox : ServerInbox'[i] = ServerInbox[i]
            BY <2>1, <3>1, <3>2
        <3>4. ManagerTurn /\ ~ManagerTurn'
            BY <2>3, <3>1 DEF ManagerTurn
        <3>5. CloseOnce'
            BY <2>2, <3>1, <3>2, <3>3 DEF Drained, CloseOnce
        <3>6. ClientOnce'
            BY <2>1, <2>2, <3>3, <3>4 DEF Drained, ClientOnce
        <3>7. LeftBehind' /\ PushedLive'
            BY <2>1, <2>2, <3>1, <3>4 DEF LeftBehind, PushedLive, c
        <3> QED
            BY <3>5, <3>6, <3>7 DEF Drained
    <2>4. CASE pc["server"] \in {"pushReceiver", "pushSender"}
        <3>1. UNCHANGED ServerInbox
            BY <1>3, <2>4 DEF PushEvent, PushStep, ServerInbox, Types, Typed
        <3>2. \/ pc'["server"] = "pushSender" /\ current'["server"] = c
              \/ pc'["server"] = Onward("server", batch["server"])
            BY <1>3, <2>4 DEF PushEvent, PushStep, Types, Typed
        <3>3. ~ManagerTurn' /\ (pc'["server"] = "read" => batch["server"] = {} /\ ~exit["server"])
            BY <2>1, <2>2, <3>2 DEF ManagerTurn, Onward
        <3>4. PushedLive'
            BY <2>1, <2>2, <3>2, <3>3, PushesFacts DEF PushedLive, Onward
        <3>5. CloseOnce' /\ ClientOnce' /\ LeftBehind'
            BY <2>2, <3>1, <3>3 DEF Drained, CloseOnce, ClientOnce, LeftBehind
        <3> QED
            BY <3>4, <3>5 DEF Drained
    <2> QED
        BY <2>1, <2>3, <2>4, PushesFacts
<1>4. ASSUME NEW m \in EraseMessage, EraseClient(m)
      PROVE  Drained'
    <2>1. /\ ManagerTurn /\ pc["server"] = "handle"
          /\ batch'["server"] = batch["server"] \ {"manager"}
          /\ pc'["server"] = Onward("server", batch'["server"])
          /\ UNCHANGED <<ServerInbox, exit, main, current>>
        BY <1>4 DEF EraseClient, BatchAfterMessage, ManagerTurn, ServerInbox, Types, Typed
    <2> QED
        BY <2>1, DrainedOnward
<1>5. ASSUME NEW c \in Conns, HandleClient(c)
      PROVE  Drained'
    <2>1. /\ pc["server"] = "handle" /\ Handled("server", c)
          /\ UNCHANGED <<ServerInbox, exit, main, current, object>>
        BY <1>5 DEF HandleClient, ServerInbox, rest
    <2> QED
        BY <2>1, HandledOnward, DrainedOnward
<1>6. ASSUME NEW c \in Conns, BrokenPipe(c)
      PROVE  Drained'
    BY <1>6, DrainedStill DEF BrokenPipe, Dies, client, loops, rest, ServerInbox
<1>7. CASE AddClientFails
    <2>1. /\ pc["server"] = "handle" /\ Handled("server", "manager")
          /\ UNCHANGED <<ServerInbox, exit, main, current, object>>
        BY <1>7 DEF AddClientFails, ServerInbox, client, rest
    <2> QED
        BY <2>1, HandledOnward, DrainedOnward
<1> QED
    BY <1>1, <1>2, <1>3, <1>4, <1>5, <1>6, <1>7, LoopDrained DEF ServerStep

LEMMA CloseThreadDrained ==
    ASSUME Types, Drained, NEW t \in Threads, CloseThread(t)
    PROVE  Drained'
<1>1. /\ UNCHANGED <<pc, batch, exit, current, object>>
      /\ inbox' = [inbox EXCEPT ![t] = Append(@, "Close")] /\ main' = t
    BY DEF CloseThread, client
<1>2. main \notin {"server", "exited"}
    BY DEF CloseThread, Threads
<1>3. ~exit["server"] /\ \A i \in DOMAIN ServerInbox : ServerInbox[i] # "Close"
    BY <1>2 DEF Drained, CloseOnce
<1>4. CASE t # "server"
    <2>1. UNCHANGED ServerInbox
        BY <1>1, <1>4 DEF ServerInbox, Types, Typed, Threads
    <2> QED
        BY <1>1, <1>3, <2>1 DEF Drained, CloseOnce, ClientOnce, LeftBehind, PushedLive, ManagerTurn
<1>5. CASE t = "server"
    <2>1. ServerInbox' = Append(ServerInbox, "Close") /\ ServerInbox \in Seq(Conns \cup {"Close"})
        BY <1>1, <1>5 DEF ServerInbox, Types, Typed, Threads
    <2>2. /\ DOMAIN ServerInbox' = DOMAIN ServerInbox \cup {Len(ServerInbox) + 1}
          /\ Len(ServerInbox) + 1 \notin DOMAIN ServerInbox
          /\ ServerInbox'[Len(ServerInbox) + 1] = "Close"
          /\ \A i \in DOMAIN ServerInbox : ServerInbox'[i] = ServerInbox[i]
        BY <2>1
    <2>3. CloseOnce'
        BY <1>1, <1>3, <1>5, <2>2 DEF CloseOnce
    <2>4. ClientOnce'
        BY <1>1, <2>2 DEF Drained, ClientOnce, ManagerTurn
    <2>5. LeftBehind' /\ PushedLive'
        BY <1>1, <1>3 DEF Drained, LeftBehind, PushedLive
    <2> QED
        BY <2>3, <2>4, <2>5 DEF Drained
<1> QED
    BY <1>4, <1>5

LEMMA DrainedStep ==
    ASSUME Types, Drained, [Next]_vars
    PROVE  Drained'
<1> USE DEF Threads
<1>1. ASSUME NEW t \in {"receiver", "sender"}, Loop(t)
      PROVE  Drained'
    <2>1. /\ UNCHANGED <<ServerInbox, main, object>>
          /\ pc'["server"] = pc["server"] /\ batch'["server"] = batch["server"]
          /\ exit'["server"] = exit["server"] /\ current'["server"] = current["server"]
        <3>1. CASE Register(t)
            BY <1>1, <3>1 DEF Register, Dies, ServerInbox, client, loops, rest, Types, Typed
        <3>2. CASE ReadClose(t) \/ ReadEmpty(t)
            BY <1>1, <3>2 DEF ReadClose, ReadEmpty, ServerInbox, client, rest, Types, Typed
        <3>3. CASE \E c \in Conns : HandleDead(t, c)
            BY <1>1, <3>3 DEF HandleDead, Handled, Dies, ServerInbox, client, loops, rest, Types, Typed
        <3> QED
            BY <1>1, <3>1, <3>2, <3>3 DEF Loop
    <2> QED
        BY <2>1, DrainedStill
<1>2. CASE \/ ReceiverWait \/ SenderWait \/ AcceptFails \/ PushClient
           \/ \E c \in Conns, f \in Fds : Accept(c, f)
           \/ \E c \in Conns : HandleBuffer(c) \/ HandleWritable(c)
    <2>1. /\ UNCHANGED <<ServerInbox, main, object>>
          /\ pc'["server"] = pc["server"] /\ batch'["server"] = batch["server"]
          /\ exit'["server"] = exit["server"] /\ current'["server"] = current["server"]
        <3>1. CASE ReceiverWait \/ SenderWait
            BY <3>1 DEF ReceiverWait, SenderWait, ServerInbox, client, rest, Types, Typed
        <3>2. CASE AcceptFails \/ PushClient
            BY <3>2 DEF AcceptFails, PushClient, Handled, ServerInbox, client, rest, Types, Typed
        <3>3. CASE \E c \in Conns, f \in Fds : Accept(c, f)
            BY <3>3 DEF Accept, Handled, ServerInbox, client, rest, Types, Typed
        <3>4. CASE \E c \in Conns : HandleBuffer(c) \/ HandleWritable(c)
            BY <3>4 DEF HandleBuffer, HandleWritable, Handled, ServerInbox, client, rest, Types, Typed
        <3> QED
            BY <1>2, <3>1, <3>2, <3>3, <3>4
    <2> QED
        BY <2>1, DrainedStill
<1>3. CASE Peers \/ UNCHANGED vars \/ \E f \in Fds : CloseCommand(f)
    BY <1>3, DrainedStill DEF Peers, vars, CloseCommand, client, loops, rest, ServerInbox
<1>4. CASE Exit
    <2>1. UNCHANGED <<ServerInbox, pc, batch, exit, current, object>> /\ main' = "exited"
        BY <1>4 DEF Exit, client, loops, ServerInbox
    <2> QED
        BY <2>1 DEF Drained, CloseOnce, ClientOnce, LeftBehind, PushedLive, ManagerTurn
<1>5. CASE ReceiverStep \/ SenderStep
    BY <1>1, <1>2, <1>5 DEF ReceiverStep, SenderStep
<1> QED
    BY <1>3, <1>4, <1>5, ServerDrained, CloseThreadDrained DEF Next, Closing

LEMMA DrainedHolds == Spec => [](Types /\ Drained)
<1>1. Init => Types /\ Drained
    BY TypesInit, DrainedInit
<1>2. Types /\ Drained /\ [Next]_vars => (Types /\ Drained)'
    BY TypesStep, DrainedStep
<1> QED
    BY <1>1, <1>2, PTL DEF Spec

\* A client in the Server thread's own queue still exists when the loop reads it
\* (BasicThread::readMessage, ClientManager::recv).
THEOREM ServerRegistersLiveHolds == Spec => []ServerRegistersLive
<1>1. Drained => ServerRegistersLive
    BY CoreAssumption DEF Drained, ClientOnce, ServerInbox, ServerRegistersLive
<1> QED
    BY <1>1, DrainedHolds, PTL

\* addClient never waits for room in the queue of the thread it runs in, which
\* nobody else would empty; a queue of one message is too small for that.
THEOREM NoSelfBlockHolds ==
    ASSUME QueueSize >= 2
    PROVE  Spec => []NoSelfBlock
<1>1. ASSUME Types, Drained, pc["server"] = "pushServer"
      PROVE  HasRoom("server")
    <2>1. ManagerTurn
        BY <1>1 DEF ManagerTurn
    <2>2. ServerInbox \in Seq(Conns \cup {"Close"})
        BY <1>1 DEF Types, Typed, ServerInbox, Threads
    <2>3. Len(ServerInbox) <= 1
        <3>1. CASE exit["server"]
            BY <1>1, <2>1, <3>1 DEF Drained, LeftBehind
        <3>2. CASE ~exit["server"]
            <4> SUFFICES ASSUME Len(ServerInbox) > 1
                         PROVE  FALSE
                BY <2>2
            <4>1. 1 \in DOMAIN ServerInbox /\ 2 \in DOMAIN ServerInbox
                BY <2>2
            <4> QED
                BY <1>1, <2>1, <3>2, <4>1 DEF Drained, CloseOnce, ClientOnce
        <3> QED
            BY <3>1, <3>2
    <2> QED
        BY <2>2, <2>3, CoreAssumption DEF HasRoom, ServerInbox
<1>2. Types /\ Drained => NoSelfBlock
    BY <1>1 DEF NoSelfBlock
<1> QED
    BY <1>2, DrainedHolds, PTL

-----------------------------------------------------------------------------
(* The way of a client into the epolls: owed to a thread, in its queue, or  *)
(* registered, and in one of these places only.                             *)

Queued(c, t) == \E i \in DOMAIN inbox[t] : inbox[t][i] = c
QueuedOnce(c, t) == \A i, j \in DOMAIN inbox[t] : inbox[t][i] = c /\ inbox[t][j] = c => i = j

OneWay(c, t) ==
    /\ QueuedOnce(c, t)
    /\ Owed(c, t) \/ Queued(c, t) \/ c \in registered[t]
    /\ Owed(c, t) => ~Queued(c, t)
    /\ c \in registered[t] => ~Owed(c, t) /\ ~Queued(c, t)

Untouched(c, t) == ~Owed(c, t) /\ ~Queued(c, t) /\ c \notin registered[t]

Way(c, t) ==
    /\ object[c] = "live" => OneWay(c, t)
    /\ object[c] = "none" => Untouched(c, t)
Ways == \A c \in Conns, t \in Threads : Way(c, t)

LEMMA WaysInit ==
    ASSUME Init
    PROVE  Ways
<1> SUFFICES ASSUME NEW c \in Conns, NEW t \in Threads
             PROVE  object[c] = "none" /\ Untouched(c, t)
    BY DEF Ways, Way
<1>1. current["server"] = None /\ inbox[t] = <<>> /\ registered[t] = {}
    BY DEF Init, Threads
<1> QED
    BY <1>1, CoreAssumption DEF Init, Untouched, Owed, Queued

\* What a step must leave alone to have nothing to do with the way of c to t.
LEMMA WayKept ==
    ASSUME NEW c \in Conns, NEW t \in Threads, Way(c, t),
           object'[c] \in {object[c], "dead"}, inbox'[t] = inbox[t],
           Owed(c, t)' <=> Owed(c, t), c \in registered'[t] <=> c \in registered[t]
    PROVE  Way(c, t)'
<1>1. (Queued(c, t)' <=> Queued(c, t)) /\ (QueuedOnce(c, t)' <=> QueuedOnce(c, t))
    BY DEF Queued, QueuedOnce
<1> QED
    BY <1>1 DEF Way, OneWay, Untouched

\* Nothing is owed while the Server thread has no client in hand.
LEMMA OwedKept ==
    ASSUME NEW c \in Conns, NEW t \in Threads, UNCHANGED current["server"],
           UNCHANGED pc["server"] \/ current["server"] = None
    PROVE  Owed(c, t)' <=> Owed(c, t)
BY CoreAssumption DEF Owed

LEMMA TailKeepsWay ==
    ASSUME Types, NEW c \in Conns, NEW t \in Threads, inbox[t] # <<>>, Head(inbox[t]) # c,
           inbox'[t] = Tail(inbox[t])
    PROVE  (Queued(c, t)' <=> Queued(c, t)) /\ (QueuedOnce(c, t) => QueuedOnce(c, t)')
<1> DEFINE q == inbox[t]
<1>1. q \in Seq(Conns \cup {"Close"})
    BY DEF Types, Typed
<1>2. /\ q[1] # c
      /\ \A i \in DOMAIN Tail(q) : i \in Int /\ i + 1 \in DOMAIN q /\ Tail(q)[i] = q[i + 1]
      /\ \A i \in DOMAIN q \ {1} : i - 1 \in DOMAIN Tail(q) /\ Tail(q)[i - 1] = q[i]
    BY <1>1
<1> HIDE DEF q
<1>3. inbox'[t] = Tail(q) /\ inbox[t] = q
    BY DEF q
<1>4. Queued(c, t)' <=> Queued(c, t)
    <2>1. ASSUME NEW i \in DOMAIN q, q[i] = c
          PROVE  \E j \in DOMAIN Tail(q) : Tail(q)[j] = c
        BY <1>2, <2>1
    <2>2. ASSUME NEW j \in DOMAIN Tail(q), Tail(q)[j] = c
          PROVE  \E i \in DOMAIN q : q[i] = c
        BY <1>2, <2>2
    <2> QED
        BY <1>3, <2>1, <2>2 DEF Queued
<1>5. ASSUME QueuedOnce(c, t), NEW i \in DOMAIN Tail(q), NEW j \in DOMAIN Tail(q),
             Tail(q)[i] = c, Tail(q)[j] = c
      PROVE  i = j
    <2>1. i + 1 = j + 1
        BY <1>2, <1>3, <1>5 DEF QueuedOnce
    <2> QED
        BY <1>2, <2>1
<1> QED
    BY <1>3, <1>4, <1>5 DEF QueuedOnce

LEMMA AppendQueued ==
    ASSUME Types, NEW c \in Conns, NEW t \in Threads, NEW x \in Conns \cup {"Close"},
           inbox'[t] = Append(inbox[t], x)
    PROVE  /\ Queued(c, t)' <=> Queued(c, t) \/ x = c
           /\ QueuedOnce(c, t) /\ (x = c => ~Queued(c, t)) => QueuedOnce(c, t)'
<1> DEFINE q == inbox[t]
<1>1. q \in Seq(Conns \cup {"Close"})
    BY DEF Types, Typed
<1>2. /\ DOMAIN Append(q, x) = DOMAIN q \cup {Len(q) + 1}
      /\ Len(q) + 1 \notin DOMAIN q
      /\ Append(q, x)[Len(q) + 1] = x
      /\ \A i \in DOMAIN q : Append(q, x)[i] = q[i]
    BY <1>1
<1> HIDE DEF q
<1>3. inbox'[t] = Append(q, x) /\ inbox[t] = q
    BY DEF q
<1> QED
    BY <1>2, <1>3 DEF Queued, QueuedOnce

LEMMA LoopWays ==
    ASSUME Types, Ways, NEW u \in Threads, Loop(u)
    PROVE  Ways'
<1> SUFFICES ASSUME NEW c \in Conns, NEW t \in Threads
             PROVE  Way(c, t)'
    BY DEF Ways
<1>1. Way(c, t)
    BY DEF Ways
<1>2. pc \in [Threads -> Pcs] /\ "server" \in Threads
      /\ inbox \in [Threads -> Seq(Conns \cup {"Close"})] /\ registered \in [Threads -> SUBSET Conns]
    BY DEF Types, Typed, Threads
<1>3. UNCHANGED <<current, object>>
    BY DEF Loop, Register, ReadClose, ReadEmpty, HandleDead, Dies, client, loops
<1>4. Owed(c, t)' <=> Owed(c, t)
    <2>1. CASE current["server"] = None
        BY <1>3, <2>1, OwedKept
    <2>2. CASE current["server"] # None
        <3>1. pc["server"] \notin Resting
            BY <1>2, <2>2, PushesFacts DEF Types, Busy
        <3>2. pc[u] \in Resting \/ UNCHANGED pc
            BY DEF Loop, Register, ReadClose, ReadEmpty, HandleDead, Dies, loops, Resting
        <3>3. u # "server" \/ UNCHANGED pc
            BY <3>1, <3>2
        <3>4. pc'["server"] = pc["server"]
            BY <1>2, <3>3
            DEF Loop, Register, ReadClose, ReadEmpty, HandleDead, Handled, Dies, loops
        <3> QED
            BY <1>3, <3>4, OwedKept
    <2> QED
        BY <2>1, <2>2
<1>5. CASE UNCHANGED <<inbox, registered>>
    BY <1>1, <1>3, <1>4, <1>5, WayKept
<1>6. ASSUME inbox[u] # <<>>, inbox' = [inbox EXCEPT ![u] = Tail(@)], Head(inbox[u]) = "Close",
             UNCHANGED registered
      PROVE  Way(c, t)'
    <2>1. CASE t # u
        BY <1>1, <1>2, <1>3, <1>4, <1>6, <2>1, WayKept
    <2>2. CASE t = u
        <3>1. inbox'[t] = Tail(inbox[t]) /\ Head(inbox[t]) # c
            BY <1>2, <1>6, <2>2, CoreAssumption
        <3> QED
            BY <1>1, <1>3, <1>4, <1>6, <2>2, <3>1, TailKeepsWay DEF Way, OneWay, Untouched
    <2> QED
        BY <2>1, <2>2
<1>7. ASSUME inbox[u] # <<>>, inbox' = [inbox EXCEPT ![u] = Tail(@)], Head(inbox[u]) \in Conns,
             \/ /\ object[Head(inbox[u])] = "live"
                /\ registered' = [registered EXCEPT ![u] = @ \cup {Head(inbox[u])}]
             \/ object[Head(inbox[u])] = "dead" /\ UNCHANGED registered
      PROVE  Way(c, t)'
    <2>1. CASE t # u
        BY <1>1, <1>2, <1>3, <1>4, <1>7, <2>1, WayKept
    <2>2. CASE t = u /\ Head(inbox[u]) # c
        <3>1. inbox'[t] = Tail(inbox[t]) /\ Head(inbox[t]) # c
              /\ (c \in registered'[t] <=> c \in registered[t])
            BY <1>2, <1>7, <2>2
        <3> QED
            BY <1>1, <1>3, <1>4, <1>7, <2>2, <3>1, TailKeepsWay DEF Way, OneWay, Untouched
    <2>3. CASE t = u /\ Head(inbox[u]) = c
        <3> DEFINE q == inbox[t]
        <3>1. CASE object[c] = "dead"
            BY <1>3, <3>1 DEF Way
        <3>2. CASE object[c] = "live"
            <4>1. inbox'[t] = Tail(q) /\ c \in registered'[t]
                BY <1>2, <1>7, <2>3, <3>2
            <4>2. /\ 1 \in DOMAIN q /\ q[1] = c
                  /\ \A i \in DOMAIN Tail(q) : i + 1 \in DOMAIN q /\ i + 1 # 1 /\ Tail(q)[i] = q[i + 1]
                BY <1>2, <1>7, <2>3
            <4>3. Queued(c, t) /\ ~Owed(c, t)
                BY <1>1, <3>2, <4>2 DEF Way, OneWay, Queued
            <4>4. \A i \in DOMAIN Tail(q) : Tail(q)[i] # c
                BY <1>1, <3>2, <4>2 DEF Way, OneWay, QueuedOnce
            <4>5. ~Queued(c, t)' /\ QueuedOnce(c, t)'
                BY <4>1, <4>4 DEF Queued, QueuedOnce
            <4> QED
                BY <1>3, <1>4, <3>2, <4>1, <4>3, <4>5 DEF Way, OneWay
        <3> QED
            BY <1>7, <2>3, <3>1, <3>2
    <2> QED
        BY <2>1, <2>2, <2>3
<1>8. CASE Register(u) /\ ~Dies
    <2>1. inbox[u] # <<>> /\ inbox' = [inbox EXCEPT ![u] = Tail(@)] /\ Head(inbox[u]) # "Close"
        BY <1>8 DEF Register
    <2>2. Head(inbox[u]) \in Conns
        <3> inbox[u] \in Seq(Conns \cup {"Close"})
            BY <1>2
        <3> QED
            BY <2>1
    <2>3. \/ /\ object[Head(inbox[u])] = "live"
             /\ registered' = [registered EXCEPT ![u] = @ \cup {Head(inbox[u])}]
          \/ object[Head(inbox[u])] = "dead" /\ UNCHANGED registered
        BY <1>8 DEF Register
    <2> QED
        BY <1>7, <2>1, <2>2, <2>3
<1>9. CASE ReadClose(u)
    BY <1>6, <1>9 DEF ReadClose
<1>10. CASE ReadEmpty(u) \/ Dies \/ \E d \in Conns : HandleDead(u, d)
    BY <1>5, <1>10 DEF ReadEmpty, HandleDead, Dies, loops
<1> QED
    BY <1>8, <1>9, <1>10 DEF Loop

LEMMA AddClientWays ==
    ASSUME Types, Owners, Ways, AddClient
    PROVE  Ways'
<1> SUFFICES ASSUME NEW c \in Conns, NEW t \in Threads
             PROVE  Way(c, t)'
    BY DEF Ways
<1>1. Way(c, t)
    BY DEF Ways
<1> DEFINE new == Head(addMail)
<1>2. /\ current["server"] = None /\ current'["server"] = new /\ pc'["server"] = "pushServer"
      /\ object' = [object EXCEPT ![new] = "live"] /\ UNCHANGED <<inbox, registered>>
    BY PushesFacts DEF AddClient, Types, Typed, Busy, Threads
<1>3. new \in Conns /\ object[new] = "none"
    BY DEF AddClient, NextIsAdd, Owners, AcceptedOnce, Types, Typed
<1> HIDE DEF new
<1>4. (Queued(c, t)' <=> Queued(c, t)) /\ (QueuedOnce(c, t)' <=> QueuedOnce(c, t))
    BY <1>2 DEF Queued, QueuedOnce
<1>5. CASE c = new
    <2>1. Owed(c, t)'
        BY <1>2, <1>5 DEF Owed
    <2>2. Untouched(c, t) /\ object'[c] = "live"
        BY <1>1, <1>2, <1>3, <1>5 DEF Way, Types, Typed
    <2>3. QueuedOnce(c, t)
        BY <2>2 DEF Untouched, Queued, QueuedOnce
    <2> QED
        BY <1>2, <1>4, <2>1, <2>2, <2>3 DEF Way, OneWay, Untouched
<1>6. CASE c # new
    <2>1. object'[c] = object[c]
        BY <1>2, <1>6 DEF Types, Typed
    <2>2. ~Owed(c, t) /\ ~Owed(c, t)'
        BY <1>2, <1>6, CoreAssumption DEF Owed
    <2> QED
        BY <1>1, <1>2, <2>1, <2>2, WayKept
<1> QED
    BY <1>5, <1>6

LEMMA PushEventWays ==
    ASSUME Types, Ways, Drained, PushEvent
    PROVE  Ways'
<1> SUFFICES ASSUME NEW c \in Conns, NEW t \in Threads
             PROVE  Way(c, t)'
    BY DEF Ways
<1>1. Way(c, t)
    BY DEF Ways
<1>0. /\ current["server"] \in Conns /\ object[current["server"]] = "live"
      /\ pc["server"] \in {"pushServer", "pushReceiver", "pushSender"}
    BY PushesFacts DEF PushEvent, PushStep, Types, Busy, Resting, Drained, PushedLive, Threads
<1>2. PICK d \in Conns, to \in Threads :
        /\ d = current["server"] /\ object[d] = "live" /\ to = PushStep[pc["server"]].to
        /\ pc["server"] \in {"pushServer", "pushReceiver", "pushSender"}
    <2>1. PushStep[pc["server"]].to \in Threads
        BY <1>0 DEF PushStep, Threads
    <2> QED
        BY <1>0, <2>1
<1>3. inbox' = [inbox EXCEPT ![to] = Append(@, d)] /\ UNCHANGED <<object, registered>>
    BY <1>2 DEF PushEvent, client
<1>4. \A u \in Threads : Owed(d, u) <=> u = to \/ Owed(d, u)'
    <2>1. CASE pc["server"] = "pushServer"
        <3>1. pc'["server"] = "pushReceiver" /\ current'["server"] = d /\ to = "server"
            BY <1>2, <2>1 DEF PushEvent, PushStep, Types, Typed, Threads
        <3> QED
            BY <1>2, <2>1, <3>1 DEF Owed, Threads
    <2>2. CASE pc["server"] = "pushReceiver"
        <3>1. pc'["server"] = "pushSender" /\ current'["server"] = d /\ to = "receiver"
            BY <1>2, <2>2 DEF PushEvent, PushStep, Types, Typed, Threads
        <3> QED
            BY <1>2, <2>2, <3>1 DEF Owed, Threads
    <2>3. CASE pc["server"] = "pushSender"
        <3>1. current'["server"] = None /\ to = "sender"
            BY <1>2, <2>3 DEF PushEvent, PushStep, Types, Typed, Threads
        <3>2. \A u : ~Owed(d, u)'
            BY <1>2, <3>1, CoreAssumption DEF Owed
        <3> QED
            BY <1>2, <2>3, <3>1, <3>2 DEF Owed, Threads
    <2> QED
        BY <1>2, <2>1, <2>2, <2>3
<1>5. ~Owed(d, to)'
    <2>1. CASE pc["server"] = "pushSender"
        <3>1. current'["server"] = None
            BY <1>2, <2>1 DEF PushEvent, PushStep, Types, Typed, Threads
        <3> QED
            BY <1>2, <3>1, CoreAssumption DEF Owed
    <2>2. CASE pc["server"] = "pushServer"
        <3>1. pc'["server"] = "pushReceiver" /\ to = "server"
            BY <1>2, <2>2 DEF PushEvent, PushStep, Types, Typed, Threads
        <3> QED
            BY <3>1 DEF Owed
    <2>3. CASE pc["server"] = "pushReceiver"
        <3>1. pc'["server"] = "pushSender" /\ to = "receiver"
            BY <1>2, <2>3 DEF PushEvent, PushStep, Types, Typed, Threads
        <3> QED
            BY <3>1 DEF Owed
    <2> QED
        BY <1>2, <2>1, <2>2, <2>3
<1>6. c # d => ~Owed(c, t) /\ ~Owed(c, t)'
    <2>1. current'["server"] \in {d, None}
        BY <1>2 DEF PushEvent, Types, Typed, Threads
    <2> QED
        BY <1>2, <2>1, CoreAssumption DEF Owed
<1>7. CASE t # to
    <2>1. inbox'[t] = inbox[t]
        BY <1>3, <1>7 DEF Types, Typed
    <2>2. Owed(c, t)' <=> Owed(c, t)
        BY <1>4, <1>6, <1>7
    <2> QED
        BY <1>1, <1>3, <2>1, <2>2, WayKept
<1>8. CASE t = to
    <2>1. inbox'[t] = Append(inbox[t], d)
        BY <1>3, <1>8 DEF Types, Typed
    <2>2. /\ Queued(c, t)' <=> Queued(c, t) \/ d = c
          /\ QueuedOnce(c, t) /\ (d = c => ~Queued(c, t)) => QueuedOnce(c, t)'
        BY <1>2, <2>1, AppendQueued
    <2>3. CASE c = d
        <3>1. OneWay(c, t) /\ Owed(c, t) /\ ~Owed(c, t)'
            BY <1>1, <1>2, <1>4, <1>5, <1>8, <2>3 DEF Way
        <3> QED
            BY <1>2, <1>3, <2>2, <2>3, <3>1 DEF Way, OneWay
    <2>4. CASE c # d
        BY <1>1, <1>3, <1>6, <2>2, <2>4 DEF Way, OneWay, Untouched
    <2> QED
        BY <2>3, <2>4
<1> QED
    BY <1>7, <1>8

LEMMA EraseClientWays ==
    ASSUME Types, Ways, NEW m \in EraseMessage, EraseClient(m)
    PROVE  Ways'
<1> SUFFICES ASSUME NEW c \in Conns, NEW t \in Threads
             PROVE  Way(c, t)'
    BY DEF Ways
<1>1. Way(c, t)
    BY DEF Ways
<1> DEFINE d == clientsMap[m.fd]
<1>2. UNCHANGED <<inbox, current>> /\ current["server"] = None
    BY PushesFacts DEF EraseClient, Types, Busy, Threads
<1>3. \/ UNCHANGED <<object, registered>>
      \/ /\ object' = [object EXCEPT ![d] = "dead"]
         /\ registered' = [u \in Threads |-> IF u = "server" THEN registered[u] ELSE registered[u] \ {d}]
    BY DEF EraseClient
<1> HIDE DEF d
<1>4. CASE object'[c] = "dead"
    BY <1>4 DEF Way
<1>5. CASE object'[c] # "dead"
    <2>1. object'[c] = object[c] /\ (c \in registered'[t] <=> c \in registered[t])
        <3>1. CASE UNCHANGED <<object, registered>>
            BY <3>1
        <3>2. CASE ~UNCHANGED <<object, registered>>
            <4>1. c # d /\ c \in DOMAIN object
                BY <1>3, <1>5, <3>2 DEF Types, Typed
            <4> QED
                BY <1>3, <3>2, <4>1
        <3> QED
            BY <3>1, <3>2
    <2>2. Owed(c, t)' <=> Owed(c, t)
        BY <1>2, OwedKept
    <2> QED
        BY <1>1, <1>2, <2>1, <2>2, WayKept
<1> QED
    BY <1>4, <1>5

LEMMA CloseThreadWays ==
    ASSUME Types, Ways, NEW u \in Threads, CloseThread(u)
    PROVE  Ways'
<1> SUFFICES ASSUME NEW c \in Conns, NEW t \in Threads
             PROVE  Way(c, t)'
    BY DEF Ways
<1>1. Way(c, t)
    BY DEF Ways
<1>2. UNCHANGED <<object, registered, pc, current>> /\ inbox' = [inbox EXCEPT ![u] = Append(@, "Close")]
    BY DEF CloseThread, client
<1>3. Owed(c, t)' <=> Owed(c, t)
    BY <1>2, OwedKept
<1>4. CASE t # u
    BY <1>1, <1>2, <1>3, <1>4, WayKept DEF Types, Typed
<1>5. CASE t = u
    <2>1. inbox'[t] = Append(inbox[t], "Close") /\ c # "Close"
        BY <1>2, <1>5, CoreAssumption DEF Types, Typed
    <2>2. (Queued(c, t)' <=> Queued(c, t)) /\ (QueuedOnce(c, t) => QueuedOnce(c, t)')
        BY <2>1, AppendQueued
    <2> QED
        BY <1>1, <1>2, <1>3, <2>2 DEF Way, OneWay, Untouched
<1> QED
    BY <1>4, <1>5

LEMMA WaysStill ==
    ASSUME Types, Ways, UNCHANGED <<object, inbox, registered>>, UNCHANGED current["server"],
           UNCHANGED pc["server"] \/ pc["server"] \in Resting
    PROVE  Ways'
<1> SUFFICES ASSUME NEW c \in Conns, NEW t \in Threads
             PROVE  Way(c, t)'
    BY DEF Ways
<1>1. Way(c, t)
    BY DEF Ways
<1>2. UNCHANGED pc["server"] \/ current["server"] = None
    BY PushesFacts DEF Types, Busy, Threads
<1> QED
    BY <1>1, <1>2, OwedKept, WayKept

LEMMA WaysStep ==
    ASSUME Types, Owners, Drained, Ways, [Next]_vars
    PROVE  Ways'
<1> USE DEF Threads
<1>1. CASE \/ ServerWait \/ ReceiverWait \/ SenderWait \/ AcceptFails \/ PushClient \/ AddClientFails
           \/ \E c \in Conns : HandleClient(c) \/ HandleBuffer(c) \/ HandleWritable(c)
           \/ \E c \in Conns, f \in Fds : Accept(c, f)
    <2>1. UNCHANGED <<object, inbox, registered>>
        BY <1>1 DEF ServerWait, ReceiverWait, SenderWait, AcceptFails, PushClient, HandleClient,
                    AddClientFails, HandleBuffer, HandleWritable, Accept, client
    <2>2. UNCHANGED current["server"]
        BY <1>1 DEF ServerWait, ReceiverWait, SenderWait, AcceptFails, PushClient, HandleClient,
                    AddClientFails, HandleBuffer, HandleWritable, Accept, Types, Typed
    <2>3. CASE ServerWait \/ AddClientFails \/ \E c \in Conns : HandleClient(c)
        <3>1. pc["server"] \in Resting
            BY <2>3 DEF ServerWait, AddClientFails, HandleClient, Resting
        <3> QED
            BY <2>1, <2>2, <3>1, WaysStill
    <2>4. CASE \/ ReceiverWait \/ SenderWait \/ AcceptFails \/ PushClient
               \/ \E c \in Conns : HandleBuffer(c) \/ HandleWritable(c)
               \/ \E c \in Conns, f \in Fds : Accept(c, f)
        <3>1. UNCHANGED pc["server"]
            BY <2>4 DEF ReceiverWait, SenderWait, AcceptFails, PushClient, HandleBuffer,
                        HandleWritable, Accept, Handled, Types, Typed
        <3> QED
            BY <2>1, <2>2, <3>1, WaysStill
    <2> QED
        BY <1>1, <2>3, <2>4
<1>2. CASE \/ Peers \/ Exit \/ UNCHANGED vars \/ \E f \in Fds : CloseCommand(f)
           \/ \E c \in Conns : BrokenPipe(c)
    BY <1>2, WaysStill DEF Peers, Exit, vars, CloseCommand, BrokenPipe, Dies, client, loops
<1>3. CASE ServerStep
    BY <1>1, <1>2, <1>3, LoopWays, AddClientWays, PushEventWays, EraseClientWays DEF ServerStep
<1>4. CASE ReceiverStep \/ SenderStep
    BY <1>1, <1>4, LoopWays DEF ReceiverStep, SenderStep
<1> QED
    BY <1>2, <1>3, <1>4, CloseThreadWays DEF Next, Closing

LEMMA QueuedCount ==
    ASSUME NEW c \in Conns, NEW t \in Threads, QueuedOnce(c, t)
    PROVE  Cardinality({i \in DOMAIN inbox[t] : inbox[t][i] = c}) = IF Queued(c, t) THEN 1 ELSE 0
<1> DEFINE places == {i \in DOMAIN inbox[t] : inbox[t][i] = c}
<1>1. CASE Queued(c, t)
    <2>1. PICK i \in DOMAIN inbox[t] : inbox[t][i] = c
        BY <1>1 DEF Queued
    <2>2. places = {i}
        BY <2>1 DEF QueuedOnce
    <2> QED
        BY <1>1, <2>2, FS_Singleton
<1>2. CASE ~Queued(c, t)
    <2>1. places = {}
        BY <1>2 DEF Queued
    <2> QED
        BY <1>2, <2>1, FS_EmptySet
<1> QED
    BY <1>1, <1>2

\* A live client is owed to each loop, in its queue or registered with it, in one
\* of these places and once (ClientManager::addClient, BasicThread::readMessage).
THEOREM RegisteredOnceHolds == Spec => []RegisteredOnce
<1>1. Init => Ways
    BY WaysInit
<1>2. Types /\ Owners /\ Drained /\ Ways /\ [Next]_vars => Ways'
    BY WaysStep
<1>3. ASSUME Ways
      PROVE  RegisteredOnce
    <2> SUFFICES ASSUME NEW c \in Conns, NEW t \in Threads, object[c] = "live"
                 PROVE  (IF Owed(c, t) THEN 1 ELSE 0)
                        + Cardinality({i \in DOMAIN inbox[t] : inbox[t][i] = c})
                        + (IF c \in registered[t] THEN 1 ELSE 0) = 1
        BY DEF RegisteredOnce
    <2>1. OneWay(c, t)
        BY <1>3 DEF Ways, Way
    <2>2. Cardinality({i \in DOMAIN inbox[t] : inbox[t][i] = c}) = IF Queued(c, t) THEN 1 ELSE 0
        BY <2>1, QueuedCount DEF OneWay
    <2> QED
        BY <2>1, <2>2 DEF OneWay
<1>4. Ways => RegisteredOnce
    BY <1>3
<1> QED
    BY <1>1, <1>2, <1>4, OwnersHold, DrainedHolds, PTL DEF Spec

-----------------------------------------------------------------------------
(* The server keeps the promise of Connection.                             *)

\* What of the state the promise sees.
Seen == <<[c \in Conns |-> Stage(c)], fdOf, ErasePending>>

\* Before the first connection arrives nothing has happened to any.
LEMMA InitConnection ==
    ASSUME Init
    PROVE  Promise!ConnectionInit
<1>1. \A c \in Conns : Stage(c) = "away"
    BY DEF Init, Stage
<1>2. ErasePending = {} /\ fdOf = [c \in Conns |-> None]
    BY DEF Init, ErasePending
<1> QED
    BY <1>1, <1>2 DEF Promise!ConnectionInit

\* One connection moves, the others stay.
LEMMA Moving ==
    ASSUME NEW c \in Conns, NEW from, NEW to, Stage(c) = from, Stage(c)' = to,
           \A d \in Conns \ {c} : Stage(d)' = Stage(d)
    PROVE  Promise!Moves(c, from, to)
BY DEF Promise!Moves

\* Nobody moves.
LEMMA Staying ==
    ASSUME \A c \in Conns : Stage(c)' = Stage(c)
    PROVE  UNCHANGED [c \in Conns |-> Stage(c)]
OBVIOUS

\* Steps that change nothing that the promise sees.
LEMMA StagesStay ==
    ASSUME UNCHANGED <<peer, backlog, fdOf, object>>
    PROVE  UNCHANGED [c \in Conns |-> Stage(c)] /\ \A c \in Conns : Stage(c)' = Stage(c)
<1>1. \A c \in Conns : Stage(c)' = Stage(c)
    BY DEF Stage
<1> QED
    BY <1>1, Staying

LEMMA SeenStays ==
    ASSUME UNCHANGED ownership
    PROVE  UNCHANGED Seen
<1>1. UNCHANGED [c \in Conns |-> Stage(c)]
    BY StagesStay DEF ownership
<1>2. UNCHANGED <<fdOf, ErasePending>>
    BY DEF ownership, ErasePending
<1> QED
    BY <1>1, <1>2 DEF Seen

\* A peer that connects joins the backlog; what peers send and when they leave is not seen.
LEMMA PeersConnection ==
    ASSUME Types, Owners, Peers
    PROVE  Promise!ConnectionNext \/ UNCHANGED Seen
<1>1. UNCHANGED <<fdOf, eraseMail, object>>
    BY DEF Peers, Connect, SendPacket, Disconnect, manager, client
<1>2. UNCHANGED ErasePending
    BY <1>1 DEF ErasePending
<1>3. ASSUME NEW c \in Conns, Connect(c)
      PROVE  Promise!ConnectionNext
    <2>1. fdOf[c] = None /\ object[c] = "none" /\ c \notin backlog /\ peer[c] = "none"
        BY <1>3 DEF Connect, Owners, FreshUntilAccepted
    <2>2. /\ backlog' = backlog \cup {c} /\ \A d \in Conns \ {c} : peer'[d] = peer[d]
        BY <1>3 DEF Connect, Types, Typed
    <2>3. Stage(c) = "away" /\ Stage(c)' = "waiting"
        BY <1>1, <2>1, <2>2 DEF Stage
    <2>4. \A d \in Conns \ {c} : Stage(d)' = Stage(d)
        BY <1>1, <2>2 DEF Stage
    <2>5. Promise!Moves(c, "away", "waiting")
        BY <2>3, <2>4, Moving
    <2>6. Promise!Arrive(c)
        BY <1>1, <1>2, <2>5 DEF Promise!Arrive
    <2> QED
        BY <2>6 DEF Promise!ConnectionNext
<1>4. ASSUME NEW c \in Conns, SendPacket(c) \/ Disconnect(c)
      PROVE  UNCHANGED Seen
    <2>1. backlog' = backlog /\ \A d \in Conns : peer'[d] = "none" <=> peer[d] = "none"
        BY <1>4 DEF SendPacket, Disconnect, Types, Typed
    <2>2. \A d \in Conns : Stage(d)' = Stage(d)
        BY <1>1, <2>1 DEF Stage
    <2> QED
        BY <1>1, <1>2, <2>2, Staying DEF Seen
<1> QED
    BY <1>3, <1>4 DEF Peers

\* accept gives a free descriptor, or the connection is dropped when setNonBlock fails.
LEMMA AcceptConnection ==
    ASSUME Types, Owners, NEW c \in Conns, NEW f \in Fds, Accept(c, f)
    PROVE  Promise!ConnectionNext
<1>1. /\ UNCHANGED <<peer, eraseMail, object>>
      /\ c \in backlog /\ backlog' = backlog \ {c}
      /\ fdOf[c] = None /\ object[c] = "none" /\ peer[c] # "none"
      /\ \A d \in Conns : fdOf[d] # f
      /\ UNCHANGED fdOf \/ fdOf' = [fdOf EXCEPT ![c] = f]
    BY DEF Accept, FreeFds, manager, client, Owners, FreshUntilAccepted
<1>2. UNCHANGED ErasePending
    BY <1>1 DEF ErasePending
<1>3. \A d \in Conns \ {c} : fdOf'[d] = fdOf[d]
    BY <1>1 DEF Types, Typed
<1>4. Stage(c) = "waiting" /\ \A d \in Conns \ {c} : Stage(d)' = Stage(d)
    BY <1>1, <1>3 DEF Stage
<1>5. CASE UNCHANGED fdOf
    <2>1. Stage(c)' = "gone"
        BY <1>1, <1>5 DEF Stage
    <2>2. Promise!Moves(c, "waiting", "gone")
        BY <1>4, <2>1, Moving
    <2>3. Promise!Refuse(c)
        BY <1>2, <1>5, <2>2 DEF Promise!Refuse
    <2> QED
        BY <2>3 DEF Promise!ConnectionNext
<1>6. CASE fdOf' = [fdOf EXCEPT ![c] = f]
    <2>1. Stage(c)' = "accepted"
        BY <1>1, <1>6, CoreAssumption DEF Stage, Types, Typed
    <2>2. Promise!Moves(c, "waiting", "accepted")
        BY <1>4, <2>1, Moving
    <2>3. Promise!Take(c, f)
        BY <1>1, <1>2, <1>6, <2>2 DEF Promise!Take
    <2> QED
        BY <2>3 DEF Promise!ConnectionNext
<1> QED
    BY <1>1, <1>5, <1>6

\* addClient: the session begins.
LEMMA AddClientConnection ==
    ASSUME Types, Owners, AddClient
    PROVE  Promise!ConnectionNext
<1>0. addMail # <<>>
    BY DEF AddClient, NextIsAdd
<1>2. PICK c \in Conns : c = Head(addMail) /\ c = addMail[1] /\ 1 \in DOMAIN addMail
    BY <1>0 DEF Types, Typed
<1>1. object' = [object EXCEPT ![c] = "live"] /\ UNCHANGED <<peer, backlog, fdOf, eraseMail>>
    BY <1>2 DEF AddClient, Written
<1>3. fdOf[c] \in Fds /\ object[c] = "none"
    BY <1>2 DEF Owners, AcceptedOnce
<1>4. object'[c] = "live" /\ \A d \in Conns \ {c} : object'[d] = object[d]
    BY <1>1, <1>2 DEF Types, Typed
<1>5. Stage(c) = "accepted" /\ Stage(c)' = "served" /\ \A d \in Conns \ {c} : Stage(d)' = Stage(d)
    BY <1>1, <1>2, <1>3, <1>4, CoreAssumption DEF Stage
<1>6. UNCHANGED ErasePending
    BY <1>1 DEF ErasePending
<1>7. Promise!Moves(c, "accepted", "served")
    BY <1>2, <1>5, Moving
<1>8. Promise!Begin(c)
    BY <1>1, <1>6, <1>7 DEF Promise!Begin
<1> QED
    BY <1>2, <1>8 DEF Promise!ConnectionNext

\* addClient fails: there will be no session, and the descriptor is free again.
LEMMA AddClientFailsConnection ==
    ASSUME Types, Owners, AddClientFails
    PROVE  Promise!ConnectionNext
<1>1. PICK c : c = Head(addMail)
    OBVIOUS
<1>2. /\ addMail # <<>> /\ addMail' = Tail(addMail) /\ fdOf' = [fdOf EXCEPT ![c] = None]
      /\ UNCHANGED <<peer, backlog, eraseMail, object>>
    BY <1>1 DEF AddClientFails, NextIsAdd, FdsAfterErase, client
<1>3. c \in Conns /\ fdOf[c] \in Fds /\ object[c] = "none"
    BY <1>1, <1>2, FirstAdded
<1>4. peer[c] # "none" /\ c \notin backlog
    BY <1>3, CoreAssumption DEF Owners, FreshUntilAccepted
<1>5. fdOf'[c] = None /\ \A d \in Conns \ {c} : fdOf'[d] = fdOf[d]
    BY <1>2, <1>3 DEF Types, Typed
<1>6. Stage(c) = "accepted" /\ Stage(c)' = "gone" /\ \A d \in Conns \ {c} : Stage(d)' = Stage(d)
    BY <1>2, <1>3, <1>4, <1>5, CoreAssumption DEF Stage
<1>7. UNCHANGED ErasePending
    BY <1>2 DEF ErasePending
<1>8. Promise!Moves(c, "accepted", "gone")
    BY <1>3, <1>6, Moving
<1>9. Promise!Abandon(c)
    BY <1>2, <1>7, <1>8 DEF Promise!Abandon
<1> QED
    BY <1>3, <1>9 DEF Promise!ConnectionNext

\* The messages for a client in the map are its own or the operator's.
LEMMA EraseClientConnection ==
    ASSUME Types, Owners, NEW m \in EraseMessage, EraseClient(m)
    PROVE  Promise!ConnectionNext
<1>0. PICK c : c = clientsMap[m.fd]
    OBVIOUS
<1>1. /\ eraseMail' = [eraseMail EXCEPT ![m] = @ - 1] /\ m \in ErasePending /\ eraseMail[m] > 0
      /\ UNCHANGED <<peer, backlog>>
      /\ \/ c = None /\ UNCHANGED <<fdOf, object>>
         \/ /\ c # None
            /\ object' = [object EXCEPT ![c] = "dead"]
            /\ fdOf' = [fdOf EXCEPT ![c] = None]
    BY <1>0 DEF EraseClient, kernel, FdsAfterErase, ErasePending
<1>2. m.fd \in Fds /\ m.by \in Conns \cup {Operator}
    BY DEF EraseMessage
<1>3. ErasePending' \in {ErasePending, ErasePending \ {m}}
    <2>1. \A n \in EraseMessage \ {m} : eraseMail'[n] = eraseMail[n]
        BY <1>1 DEF Types, Typed
    <2>2. \A n \in EraseMessage \ {m} : n \in ErasePending' <=> n \in ErasePending
        BY <2>1 DEF ErasePending
    <2>3. ErasePending \subseteq EraseMessage /\ ErasePending' \subseteq EraseMessage
        BY DEF ErasePending, EraseMessage
    <2> QED
        BY <1>1, <2>2, <2>3
<1>4. Promise!Used(m)
    BY <1>3 DEF Promise!Used
<1>5. \A d \in Conns : Promise!Meant(m, d) <=> Stage(d) = "served" /\ fdOf[d] = m.fd /\ m.by \in {d, Operator}
    BY DEF Promise!Meant
<1>6. \A d \in Conns : Stage(d) = "served" <=> object[d] = "live"
    BY DEF Stage, Types, Typed
<1>7. CASE c = None /\ UNCHANGED <<fdOf, object>>
    <2>1. ASSUME NEW d \in Conns, Promise!Meant(m, d)
          PROVE  FALSE
        <3>1. object[d] = "live" /\ fdOf[d] = m.fd
            BY <1>5, <1>6, <2>1
        <3>2. clientsMap[m.fd] = d
            BY <3>1 DEF Owners, MapIsLive
        <3> QED
            BY <1>0, <1>7, <3>2, CoreAssumption
    <2>2. UNCHANGED [d \in Conns |-> Stage(d)]
        BY <1>1, <1>7, StagesStay
    <2>3. Promise!Expire(m)
        BY <1>4, <1>7, <2>1, <2>2 DEF Promise!Expire
    <2> QED
        BY <1>1, <2>3 DEF Promise!ConnectionNext
<1>8. CASE /\ c # None
           /\ object' = [object EXCEPT ![c] = "dead"]
           /\ fdOf' = [fdOf EXCEPT ![c] = None]
    <2>1. c \in Conns /\ fdOf[c] = m.fd /\ object[c] = "live"
        BY <1>0, <1>2, <1>8 DEF Owners, MapIsLive, Types, Typed
    <2>2. m.by \in {c, Operator}
        BY <1>0, <1>1, <1>2, <1>8 DEF Owners, EraseOwn
    <2>3. /\ object'[c] = "dead" /\ \A d \in Conns \ {c} : object'[d] = object[d] /\ fdOf'[d] = fdOf[d]
        BY <1>8, <2>1 DEF Types, Typed
    <2>4. Stage(c)' = "gone" /\ \A d \in Conns \ {c} : Stage(d)' = Stage(d)
        BY <1>1, <2>1, <2>3 DEF Stage
    <2>5. Stage(c) = "served"
        BY <1>6, <2>1
    <2>6. Promise!Moves(c, "served", "gone")
        BY <2>1, <2>4, <2>5, Moving
    <2>7. Promise!Meant(m, c)
        BY <1>5, <2>1, <2>2, <2>5
    <2>8. Promise!End(c, m)
        BY <1>4, <1>8, <2>6, <2>7 DEF Promise!End
    <2> QED
        BY <1>1, <2>1, <2>8 DEF Promise!ConnectionNext
<1> QED
    BY <1>1, <1>7, <1>8

\* More messages to the manager, of which one may be there already.
LEMMA MorePending ==
    ASSUME Types, NEW m \in EraseMessage, NEW n \in Nat, n > 0,
           eraseMail' = [eraseMail EXCEPT ![m] = @ + n]
    PROVE  ErasePending' = ErasePending \cup {m}
<1>1. eraseMail'[m] = eraseMail[m] + n /\ \A o \in EraseMessage \ {m} : eraseMail'[o] = eraseMail[o]
    BY DEF Types, Typed
<1>2. eraseMail'[m] > 0
    BY <1>1 DEF Types, Typed
<1>3. \A o \in EraseMessage : o \in ErasePending' <=> o \in ErasePending \/ o = m
    BY <1>1, <1>2 DEF ErasePending
<1>4. ErasePending \subseteq EraseMessage /\ ErasePending' \subseteq EraseMessage
    BY DEF ErasePending, EraseMessage
<1> QED
    BY <1>3, <1>4

\* closeConnection of a session is its request, made again if it is called twice.
LEMMA HandleClientConnection ==
    ASSUME Types, Owners, NEW c \in Conns, HandleClient(c)
    PROVE  Promise!ConnectionNext \/ UNCHANGED Seen
<1> DEFINE m == [by |-> c, fd |-> fdOf[c]]
<1>0. PICK n \in Nat : RequestErase(c, n)
    BY HandleClientErases
<1>1. /\ UNCHANGED <<peer, backlog, fdOf, object>>
      /\ eraseMail' = [eraseMail EXCEPT ![m] = @ + n]
      /\ object[c] = "live"
    BY <1>0 DEF HandleClient, RequestErase, Written, kernel
<1>2. fdOf[c] \in Fds
    BY <1>1 DEF Owners, MapIsLive
<1>3. m \in EraseMessage
    BY <1>2 DEF EraseMessage
<1>4. UNCHANGED [d \in Conns |-> Stage(d)]
    BY <1>1, StagesStay
<1>5. CASE n = 0
    <2> HIDE DEF m
    <2>1. \A o \in EraseMessage : eraseMail'[o] = eraseMail[o]
        BY <1>1, <1>3, <1>5 DEF Types, Typed
    <2>2. UNCHANGED ErasePending
        BY <2>1 DEF ErasePending
    <2> QED
        BY <1>1, <1>4, <2>2 DEF Seen
<1>6. CASE n > 0
    <2>1. ErasePending' = ErasePending \cup {m}
        BY <1>1, <1>3, <1>6, MorePending
    <2>2. Stage(c) = "served"
        BY <1>1 DEF Stage
    <2>3. Promise!Ask(c, fdOf[c])
        BY <1>1, <1>4, <2>1, <2>2 DEF Promise!Ask
    <2> QED
        BY <1>2, <2>3 DEF Promise!ConnectionNext
<1> QED
    BY <1>1, <1>5, <1>6

\* The command of the operator is a request for whoever has the descriptor.
LEMMA CloseCommandConnection ==
    ASSUME Types, NEW f \in Fds, CloseCommand(f)
    PROVE  Promise!ConnectionNext
<1> DEFINE m == [by |-> Operator, fd |-> f]
<1>1. /\ UNCHANGED <<peer, backlog, fdOf, object>>
      /\ eraseMail' = [eraseMail EXCEPT ![m] = @ + 1]
    BY DEF CloseCommand, kernel, client
<1>2. m \in EraseMessage
    BY DEF EraseMessage
<1>3. ErasePending' = ErasePending \cup {m}
    <2> HIDE DEF m
    <2>1. 1 \in Nat /\ 1 > 0
        OBVIOUS
    <2> QED
        BY <1>1, <1>2, <2>1, MorePending, Zenon
<1>4. UNCHANGED [d \in Conns |-> Stage(d)]
    BY <1>1, StagesStay
<1>5. Promise!Ask(Operator, f)
    BY <1>1, <1>3, <1>4, CoreAssumption DEF Promise!Ask
<1> QED
    BY <1>5 DEF Promise!ConnectionNext

\* The other steps leave alone what the promise sees.
LEMMA ConnectionStep ==
    ASSUME Types, Owners, [Next]_vars
    PROVE  Promise!ConnectionNext \/ UNCHANGED Seen
<1> USE DEF Threads
<1>1. CASE ServerWait \/ ReceiverWait \/ SenderWait
    <2>1. UNCHANGED ownership
        BY <1>1 DEF ServerWait, ReceiverWait, SenderWait, ownership, kernel, manager, client
    <2> QED
        BY <2>1, SeenStays
<1>2. CASE PushEvent \/ PushClient
    <2>1. UNCHANGED <<peer, backlog, fdOf, eraseMail, object>>
        BY <1>2 DEF PushEvent, PushClient, kernel, manager, client
    <2>2. UNCHANGED ErasePending
        BY <2>1 DEF ErasePending
    <2> QED
        BY <2>1, <2>2, StagesStay DEF Seen
<1>3. ASSUME NEW c \in Conns, BrokenPipe(c) \/ HandleBuffer(c) \/ HandleWritable(c)
      PROVE  UNCHANGED Seen
    <2>1. UNCHANGED ownership
        BY <1>3 DEF BrokenPipe, Dies, HandleBuffer, HandleWritable, ownership, kernel, manager, client
    <2> QED
        BY <2>1, SeenStays
<1>4. CASE \/ AcceptFails \/ Exit \/ UNCHANGED vars
           \/ \E t \in Threads : CloseThread(t)
    <2>1. UNCHANGED ownership
        BY <1>4 DEF AcceptFails, Exit, CloseThread, ownership, vars, kernel, manager, client
    <2> QED
        BY <2>1, SeenStays
<1>5. ASSUME NEW t \in Threads, Loop(t)
      PROVE  UNCHANGED Seen
    <2>1. UNCHANGED ownership
        BY <1>5 DEF Loop, Register, ReadClose, ReadEmpty, HandleDead, Dies, ownership, kernel,
                    manager, client
    <2> QED
        BY <2>1, SeenStays
<1>6. CASE ServerStep
    BY <1>1, <1>2, <1>3, <1>5, <1>6, AddClientConnection, AddClientFailsConnection, EraseClientConnection,
       HandleClientConnection DEF ServerStep
<1>7. CASE ReceiverStep
    BY <1>1, <1>2, <1>3, <1>4, <1>5, <1>7, AcceptConnection DEF ReceiverStep
<1>8. CASE SenderStep
    BY <1>1, <1>3, <1>5, <1>8 DEF SenderStep
<1> QED
    BY <1>4, <1>6, <1>7, <1>8, PeersConnection, CloseCommandConnection DEF Next, Closing

\* Every connection goes its way from the backlog to its session and its end once, and
\* a late or repeated EraseClient never ends the connection that got the descriptor next
\* (Acceptor::recv, ClientManager::recv, ProtocolClient::closeConnection).
THEOREM ServerIsConnection == Spec => ImplementsConnection
<1>1. Init => Promise!ConnectionInit
    BY InitConnection
<1>2. Types /\ Owners /\ [Next]_vars => [Promise!ConnectionNext]_(Promise!connectionVars)
    BY ConnectionStep DEF Promise!connectionVars, Seen
<1> QED
    BY <1>1, <1>2, OwnersHold, PTL DEF Spec, ImplementsConnection, Promise!ConnectionSpec
=============================================================================
