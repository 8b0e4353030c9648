----------------------------- MODULE Handshake -----------------------------
(***************************************************************************)
(* The handshake of one connection: the session of the server              *)
(* (client/ProtocolClient.cpp over client/EncryptClient.cpp) and the Java  *)
(* client (client/src/main/java/com/github/koraxiss/Client.java) with its  *)
(* main, reader and writer threads.                                        *)
(*                                                                         *)
(* A packet is its type and the key that opens it; a side that tries       *)
(* another key gets an exception or rubbish.  The session hears of a       *)
(* packet that has arrived, and of one of its own that the socket has      *)
(* taken (here all at once), by a message in its queue; one call of recv   *)
(* takes one of them, and is made once for an edge, whatever the number of *)
(* messages that came under it.  Its handlers run in one thread and are    *)
(* one step each, except for the second packet that a missing break makes  *)
(* receiveData ask for.  In the client a step ends where another of its    *)
(* threads can see the difference; the sleeps of its threads promise no    *)
(* order.                                                                  *)
(***************************************************************************)
EXTENDS Integers, Sequences

CONSTANT None       \* no packet

Types == {"OPEN_ENCR", "PUBLIC_KEY", "SYMMETRIC_KEY", "TEST_KEY", "OPEN_PROT"}
\* The key needed to read a packet: that of the server, of the client, of AES.
KeyNames == {"none", "server", "client", "session"}
Packet == [type : Types, key : KeyNames]

ASSUME NoneAssumption == None \notin Packet

VARIABLES
    \* the connection
    toServer,       \* packets on their way to the session
    toClient,
    socket,         \* "open", or who had it closed: the "session", the "operator"
    \* ProtocolClient
    stage,          \* the stage of the session
    bufferIn,       \* the packet in ClientBuffer::bufferIn
    notices,        \* PacketReceive messages in the session's queue
    fallsThrough,   \* receiveData goes on from TestKey to stableCommunication
    registered,     \* selfRegister has run
    closing,        \* closeConnection has asked for the client's erasure
    sendNotices,    \* PacketSend messages in the session's queue
    queueEdge,      \* the server's epoll has an event for that queue
    woken,          \* it has been reported, and recv is to be called
    \* Client.java
    main,           \* where its main thread is
    reader,
    writer,
    task,           \* type of the packet main is busy with
    encryptionOn,   \* LayerManager.isEncryptionOn
    readsEncrypted, \* isEncryptionOn when the reader called receive
    cipher,         \* CipherModule.state
    sending,
    receiveNext,
    childMessages,
    sendInstructions,
    interrupted     \* another thread has interrupted main

connection == <<toServer, toClient, socket>>
session    == <<stage, bufferIn, notices, fallsThrough, registered, closing>>
queue      == <<sendNotices, queueEdge, woken>>
threads    == <<main, reader, writer, task, interrupted>>
layers     == <<encryptionOn, readsEncrypted, cipher>>
signals    == <<sending, receiveNext, childMessages, sendInstructions>>
vars       == <<connection, session, queue, threads, layers, signals>>

TypeOK ==
    /\ toServer \in Seq(Packet) /\ toClient \in Seq(Packet)
    /\ socket \in {"open", "session", "operator"}
    /\ stage \in {"SetPublicKey", "SetSymmetricKey", "TestKey", "StableCommunication"}
    /\ bufferIn \in Packet \cup {None}
    /\ notices \in 0..1 /\ sendNotices \in Nat
    /\ main \in {"take", "setSending", "waitSent", "rest", "done"}
    /\ reader \in {"await", "receive", "put", "failed", "done"}
    /\ writer \in {"take", "failed", "done"}
    /\ task \in Types \cup {None}
    /\ cipher \in {"NONE", "SERVER_PUBLIC", "CLIENT_PRIVATE_SERVER_PUBLIC", "SESSION"}
    /\ childMessages \in Seq(Types) /\ sendInstructions \in Seq(Types)
    /\ {fallsThrough, registered, closing, queueEdge, woken, encryptionOn, readsEncrypted,
        sending, receiveNext, interrupted} \subseteq BOOLEAN

\* ProtocolClient's constructor has sent OPEN_ENCR, the server's epoll has found
\* the queue readable, and start() has started the threads.
Init ==
    /\ toServer = <<>> /\ socket = "open"
    /\ toClient = <<[type |-> "OPEN_ENCR", key |-> "none"]>>
    /\ stage = "SetPublicKey" /\ bufferIn = None /\ notices = 0
    /\ fallsThrough = FALSE /\ registered = FALSE /\ closing = FALSE
    /\ sendNotices = 1 /\ queueEdge = TRUE /\ woken = FALSE
    /\ main = "take" /\ reader = "await" /\ writer = "take" /\ task = None
    /\ encryptionOn = FALSE /\ readsEncrypted = FALSE /\ cipher = "NONE"
    /\ sending = FALSE /\ receiveNext = TRUE
    /\ childMessages = <<>> /\ sendInstructions = <<>>
    /\ interrupted = FALSE

-----------------------------------------------------------------------------
(* The session *)

\* ClientBuffer::recv: the next packet once bufferIn is free.
Arrive ==
    /\ toServer # <<>> /\ bufferIn = None /\ socket = "open"
    /\ bufferIn' = Head(toServer)
    /\ toServer' = Tail(toServer)
    /\ notices' = notices + 1 /\ queueEdge' = TRUE
    /\ UNCHANGED <<toClient, socket, stage, fallsThrough, registered, closing>>
    /\ UNCHANGED <<sendNotices, woken, threads, layers, signals>>

\* epoll_wait reports the edge, which is used up by that.
Wake ==
    /\ queueEdge /\ notices + sendNotices > 0
    /\ ~woken /\ ~fallsThrough /\ socket = "open"
    /\ queueEdge' = FALSE /\ woken' = TRUE
    /\ UNCHANGED <<connection, session, sendNotices, threads, layers, signals>>

\* recv takes a PacketSend; sendRemainingData has nothing left to send.
SendRemainingData ==
    /\ woken /\ sendNotices > 0 /\ socket = "open"
    /\ sendNotices' = sendNotices - 1 /\ woken' = FALSE
    /\ UNCHANGED <<connection, session, queueEdge, threads, layers, signals>>

StagesStuck ==
    [SetPublicKey |->
        [expects |-> [type |-> "PUBLIC_KEY", key |-> "server"],
         reply   |-> [type |-> "SYMMETRIC_KEY", key |-> "client"],
         next    |-> "SetSymmetricKey"],
     SetSymmetricKey |->
        [expects |-> [type |-> "SYMMETRIC_KEY", key |-> "server"],
         reply   |-> [type |-> "TEST_KEY", key |-> "session"],
         next    |-> "SetSymmetricKey"]]
\* What each stage waits for, the key it uses (cryptoModule.use), what it
\* answers and where it goes.
Stages ==
    [SetPublicKey |->
        [expects |-> [type |-> "PUBLIC_KEY", key |-> "server"],
         reply   |-> [type |-> "SYMMETRIC_KEY", key |-> "client"],
         next    |-> "SetSymmetricKey"],
     SetSymmetricKey |->
        [expects |-> [type |-> "SYMMETRIC_KEY", key |-> "server"],
         reply   |-> [type |-> "TEST_KEY", key |-> "session"],
         next    |-> "TestKey"],
     TestKey |->
        [expects |-> [type |-> "TEST_KEY", key |-> "session"],
         reply   |-> [type |-> "OPEN_PROT", key |-> "session"],
         next    |-> "StableCommunication"]]

\* selfRegister is called at the end of this stage.
RegistersIn == "TestKey"

\* recvData: there is a packet, and the key in use opens it.
Decrypted(s) == bufferIn # None /\ bufferIn.key = s.expects.key

\* recvPacket and the test of its type: the packet there is the one expected.
Accepted(s) == Decrypted(s) /\ bufferIn.type = s.expects.type

\* sendPacket: the answer, encrypted and on its way.
Answered(s) == Append(toClient, s.reply)

\* recv takes a PacketReceive: setPublicKey, setSymmetricKey or testKey.  A wrong
\* packet, or an exception, closes the connection.  The socket takes the answer,
\* of which the session is told.  From TestKey the switch falls through.
ReceiveData ==
    /\ woken /\ notices > 0 /\ stage \in DOMAIN Stages /\ socket = "open"
    /\ notices' = notices - 1 /\ woken' = FALSE
    /\ bufferIn' = None
    /\ LET s == Stages[stage]
           good == Accepted(s)
       IN  /\ stage' = IF good THEN s.next ELSE stage
           /\ toClient' = IF good THEN Answered(s) ELSE toClient
           /\ closing' = (closing \/ ~good)
           /\ registered' = (registered \/ (good /\ stage = RegistersIn))
           /\ sendNotices' = IF good THEN sendNotices + 1 ELSE sendNotices
           /\ queueEdge' = (queueEdge \/ good)
           /\ fallsThrough' = (stage = "TestKey")
    /\ UNCHANGED <<toServer, socket, threads, layers, signals>>

\* stableCommunication, entered without another PacketReceive: recvPacket of an
\* empty bufferIn throws.
StableCommunication ==
    /\ fallsThrough
    /\ fallsThrough' = FALSE
    /\ closing' = (closing \/ bufferIn = None)
    /\ bufferIn' = None
    /\ UNCHANGED <<connection, stage, notices, registered, queue, threads, layers, signals>>

\* The manager destroys the client, which closes the socket, because the session
\* has asked for it or the operator has.
Erase ==
    /\ socket = "open" /\ ~fallsThrough
    /\ \/ closing /\ socket' = "session"
       \/ socket' = "operator"
    /\ UNCHANGED <<toServer, toClient, session, queue, threads, layers, signals>>

-----------------------------------------------------------------------------
(* The reader thread *)

\* while(!receiveNext) receivingLock.wait(), and the call of receive.
ReaderAwait ==
    /\ reader = "await" /\ receiveNext /\ main # "done"
    /\ reader' = "receive"
    /\ readsEncrypted' = encryptionOn
    /\ UNCHANGED <<connection, session, queue, main, writer, task, interrupted>>
    /\ UNCHANGED <<encryptionOn, cipher, signals>>

\* CipherModule.decrypt; in any other state it throws.
DecryptKey ==
    CASE cipher = "CLIENT_PRIVATE_SERVER_PUBLIC" -> "client"
      [] cipher = "SESSION" -> "session"
      [] OTHER -> "none"

\* The key LayerManager.receive tries on a packet.
ReaderKey == IF readsEncrypted THEN DecryptKey ELSE "none"

\* EncryptedMessenger.receive: what main is given of a packet.
Received == Head(toClient).type

\* SimpleMessenger.receive, alone or below EncryptedMessenger, takes a packet off
\* the connection (whole: the two reads are assumed not to be cut short), and the
\* reader puts it where main finds it.
ReaderReceive ==
    /\ reader = "receive" /\ toClient # <<>>
    /\ toClient' = Tail(toClient)
    /\ childMessages' = Append(childMessages, Received)
    /\ reader' = "put"
    /\ UNCHANGED <<toServer, socket, session, queue, main, writer, task, interrupted>>
    /\ UNCHANGED <<layers, sending, receiveNext, sendInstructions>>

\* receiveNext = false, without the lock.
ReaderBlocks ==
    /\ reader = "put"
    /\ receiveNext' = FALSE
    /\ reader' = "await"
    /\ UNCHANGED <<connection, session, queue, main, writer, task, interrupted>>
    /\ UNCHANGED <<layers, sending, childMessages, sendInstructions>>

\* An exception puts an ERROR message and interrupts main, which then stops at
\* its next wait either way.
IgnoreFailure == UNCHANGED interrupted
InterruptMain == interrupted' = TRUE

ReaderFails ==
    /\ reader = "receive" /\ socket # "open"
    /\ reader' = "failed"
    /\ InterruptMain
    /\ UNCHANGED <<connection, session, queue, main, writer, task, layers, signals>>

-----------------------------------------------------------------------------
(* The writer thread *)

\* CipherModule.encrypt; main has set a key before anything is sent.
EncryptKey == IF cipher = "SESSION" THEN "session" ELSE "server"

\* The key LayerManager.send uses.
WriterKey == IF encryptionOn THEN EncryptKey ELSE "none"

\* EncryptedMessenger.send: the packet that leaves for an order.
Sent == [type |-> Head(sendInstructions), key |-> WriterKey]

\* take, send, sending = false and notify; all but the take holds sendingLock.
WriterSend ==
    /\ writer = "take" /\ sendInstructions # <<>>
    /\ sendInstructions' = Tail(sendInstructions)
    /\ toServer' = IF socket = "open" THEN Append(toServer, Sent) ELSE toServer
    /\ sending' = FALSE
    /\ UNCHANGED <<toClient, socket, session, queue, threads, layers, receiveNext, childMessages>>

WriterFails ==
    /\ writer = "take" /\ sendInstructions # <<>> /\ socket # "open"
    /\ writer' = "failed"
    /\ InterruptMain
    /\ UNCHANGED <<connection, session, queue, main, reader, task, layers, signals>>

-----------------------------------------------------------------------------
(* The main thread *)

Awaited == {"OPEN_ENCR", "SYMMETRIC_KEY"}   \* answers main waits to see sent

\* The answer main queues for a packet.
Answer(t) ==
    CASE t = "OPEN_ENCR" -> <<"PUBLIC_KEY">>
      [] t \in {"SYMMETRIC_KEY", "TEST_KEY"} -> <<t>>
      [] OTHER -> <<>>

\* take, and the case of the packet up to its put.
MainTakes ==
    LET t == Head(childMessages) IN
    /\ main = "take" /\ childMessages # <<>>
    /\ childMessages' = Tail(childMessages)
    /\ sendInstructions' = sendInstructions \o Answer(t)
    /\ encryptionOn' = (encryptionOn \/ t = "OPEN_ENCR")
    /\ cipher' = IF t = "OPEN_ENCR" THEN "SERVER_PUBLIC" ELSE cipher
    /\ task' = t
    /\ main' = IF t \in Awaited THEN "setSending" ELSE "rest"
    /\ UNCHANGED <<connection, session, queue, reader, writer, interrupted>>
    /\ UNCHANGED <<readsEncrypted, sending, receiveNext>>

\* sending = true, after the put and without the lock.
MainSetsSending ==
    /\ main = "setSending"
    /\ sending' = TRUE
    /\ main' = "waitSent"
    /\ UNCHANGED <<connection, session, queue, reader, writer, task, interrupted>>
    /\ UNCHANGED <<layers, receiveNext, childMessages, sendInstructions>>

\* while(sending) sendingLock.wait() is over: the next key.
IsSentUnchecked == TRUE
IsSent == ~sending
MainSent ==
    /\ main = "waitSent" /\ IsSent
    /\ cipher' = IF task = "OPEN_ENCR" THEN "CLIENT_PRIVATE_SERVER_PUBLIC" ELSE "SESSION"
    /\ main' = "rest"
    /\ UNCHANGED <<connection, session, queue, reader, writer, task, interrupted>>
    /\ UNCHANGED <<encryptionOn, readsEncrypted, signals>>

\* receiveNext = true and notify.
MainRests ==
    /\ main = "rest"
    /\ receiveNext' = TRUE
    /\ main' = "take"
    /\ task' = None
    /\ UNCHANGED <<connection, session, queue, reader, writer, interrupted>>
    /\ UNCHANGED <<layers, sending, childMessages, sendInstructions>>

\* An interrupt ends every wait of main with stop(): running = false, and the
\* other threads are interrupted.
MainStops ==
    /\ interrupted /\ main \in {"take", "waitSent", "rest"}
    /\ main' = "done"
    /\ interrupted' = FALSE
    /\ UNCHANGED <<connection, session, queue, reader, writer, task, layers, signals>>

ReaderEnds ==
    /\ main = "done" /\ reader # "done"
    /\ reader' = "done"
    /\ UNCHANGED <<connection, session, queue, main, writer, task, interrupted, layers, signals>>

WriterEnds ==
    /\ main = "done" /\ writer # "done"
    /\ writer' = "done"
    /\ UNCHANGED <<connection, session, queue, main, reader, task, interrupted, layers, signals>>

-----------------------------------------------------------------------------

Server == Wake \/ SendRemainingData \/ ReceiveData \/ StableCommunication
Reader == ReaderAwait \/ ReaderReceive \/ ReaderBlocks \/ ReaderFails \/ ReaderEnds
Writer == WriterSend \/ WriterFails \/ WriterEnds
Main == MainTakes \/ MainSetsSending \/ MainSent \/ MainRests \/ MainStops

Next == Arrive \/ Server \/ Erase \/ Reader \/ Writer \/ Main

Spec == Init /\ [][Next]_vars

\* Every thread of both programs runs when it can, and the network delivers; nobody
\* need close the socket.
FairSpec ==
    Spec /\ WF_vars(Arrive) /\ WF_vars(Server)
    /\ WF_vars(Reader) /\ WF_vars(Writer) /\ WF_vars(Main)

-----------------------------------------------------------------------------
(* Properties *)

\* Whoever is about to read a packet has switched to the key it needs, although
\* the client's main thread changes keys while its reader and writer run and
\* the session changes them in other handlers than it reads in; and the session
\* stores the client's identity only when both have the session key (testKey).
KeysMatch ==
    /\ registered => cipher = "SESSION" /\ stage = "StableCommunication"
    /\ (notices > 0 /\ stage \in DOMAIN Stages) => bufferIn = Stages[stage].expects
    /\ (reader = "receive" /\ toClient # <<>>) => Head(toClient).key = ReaderKey

\* main waits for a send that is over: its sending = true came after the
\* writer's sending = false (Client.java:63-69 and 194).
LostSend == main = "waitSent" /\ sending /\ sendInstructions = <<>>
\* The reader waits for a permission that was given and that its own
\* receiveNext = false took back (Client.java:126-129 and 164).
LostReceive == reader = "await" /\ ~receiveNext /\ main = "take" /\ childMessages = <<>>

\* The session is not called for the packet in bufferIn: its PacketReceive came
\* under one edge with a PacketSend, and recv took that one (ProtocolClient.cpp:31,
\* ClientBuffer.cpp:90 and 150).
Stranded == notices > 0 /\ ~queueEdge /\ ~woken

\* The handshake ends with a registered session unless one of the client's two
\* signals is lost, the session is left alone with a packet, or the operator ends it.
HandshakeOrStall ==
    <>(registered \/ LostSend \/ LostReceive \/ Stranded \/ socket = "operator")

\* When the server has closed the connection all threads of the client end,
\* unless a lost signal keeps its reader from looking at the socket again.
ClosedClientStops ==
    socket # "open" ~>
        (LostSend \/ LostReceive \/ (main = "done" /\ reader = "done" /\ writer = "done"))

-----------------------------------------------------------------------------
(* What a comment of the source says, and the code does not keep *)

\* main.cpp:83, "parsing only after the whole packet has been received": when
\* the session parses, a packet is there.
ParsesWholePackets == (notices > 0 \/ fallsThrough) => bufferIn # None
=============================================================================
