--------------------------- MODULE Client_proofs ---------------------------
(***************************************************************************)
(* Proofs about what pairs the server with the Java client:                *)
(* Handshake and Layers.                                                   *)
(*                                                                         *)
(* Handshake: whoever is about to read a packet has the key it needs, in   *)
(* every interleaving of the session and the three threads of the client,  *)
(* with the connection closed at any time.  The handshake is a game of one *)
(* ball: there is at most one packet, order or message under way, it       *)
(* belongs to the stage the session is in, and which key main has switched *)
(* to is known from the last packet it took.                               *)
(*                                                                         *)
(* Layers: the packet that one side parses is the packet that the other    *)
(* side packed, for names of every length.  The invariant says of every    *)
(* step what the data is in the words of the packet; the lemmas before it  *)
(* say what each layer makes of a text of any length, AES and RSA first.   *)
(***************************************************************************)
EXTENDS Handshake, Layers, Lists_proofs

-----------------------------------------------------------------------------
(* What each stage says *)

\* The packet the session sent when it came to a stage.
Opening(s) ==
    CASE s = "SetPublicKey" -> [type |-> "OPEN_ENCR", key |-> "none"]
      [] s = "SetSymmetricKey" -> [type |-> "SYMMETRIC_KEY", key |-> "client"]
      [] s = "TestKey" -> [type |-> "TEST_KEY", key |-> "session"]
      [] OTHER -> [type |-> "OPEN_PROT", key |-> "session"]

\* The packet that the client took before that one.
Before(s) ==
    CASE s = "SetPublicKey" -> "none"
      [] s = "SetSymmetricKey" -> "OPEN_ENCR"
      [] s = "TestKey" -> "SYMMETRIC_KEY"
      [] OTHER -> "TEST_KEY"

\* The state of CipherModule while main is busy with a packet, and after it.
CipherDuring(t) ==
    CASE t = "none" -> "NONE"
      [] t = "OPEN_ENCR" -> "SERVER_PUBLIC"
      [] t = "SYMMETRIC_KEY" -> "CLIENT_PRIVATE_SERVER_PUBLIC"
      [] OTHER -> "SESSION"
CipherAfter(t) ==
    CASE t = "none" -> "NONE"
      [] t = "OPEN_ENCR" -> "CLIENT_PRIVATE_SERVER_PUBLIC"
      [] OTHER -> "SESSION"

-----------------------------------------------------------------------------
(* The inductive invariant *)

\* The last packet main has taken is t.
LastTaken(t) ==
    /\ encryptionOn = (t # "none")
    /\ main \in {"setSending", "waitSent"} => t \in Awaited /\ task = t /\ cipher = CipherDuring(t)
    /\ main \in {"take", "rest"} => cipher = CipherAfter(t)
    /\ main = "done" => cipher \in {CipherDuring(t), CipherAfter(t)}
    /\ reader = "receive" => cipher = CipherAfter(t)

\* Where the ball can be.
Nowhere(client, orders, server, buffer) ==
    /\ client => toClient = <<>> /\ childMessages = <<>>
    /\ orders => sendInstructions = <<>>
    /\ server => toServer = <<>>
    /\ buffer => bufferIn = None /\ notices = 0

OnWayToClient ==
    /\ toClient = <<Opening(stage)>> /\ childMessages = <<>>
    /\ Nowhere(FALSE, TRUE, TRUE, TRUE)
    /\ LastTaken(Before(stage))

WithMain ==
    /\ toClient = <<>> /\ childMessages = <<Opening(stage).type>>
    /\ Nowhere(FALSE, TRUE, TRUE, TRUE)
    /\ main \in {"take", "done"}
    /\ LastTaken(Before(stage))

\* The writer may send with the key that main has set for it, because main only
\* changes it when the writer has said that it has sent.
Ordered ==
    /\ stage \in DOMAIN Stages /\ sendInstructions = <<Stages[stage].expects.type>>
    /\ Nowhere(TRUE, FALSE, TRUE, TRUE)
    /\ LastTaken(Opening(stage).type)
    /\ stage # "TestKey" => /\ cipher = CipherDuring(Opening(stage).type)
                            /\ main \in {"setSending", "waitSent", "done"}
    /\ main = "waitSent" => sending

OnWayToServer ==
    /\ stage \in DOMAIN Stages /\ toServer = <<Stages[stage].expects>>
    /\ Nowhere(TRUE, TRUE, FALSE, TRUE)
    /\ LastTaken(Opening(stage).type)

WithSession ==
    /\ stage \in DOMAIN Stages /\ bufferIn = Stages[stage].expects /\ notices = 1
    /\ Nowhere(TRUE, TRUE, TRUE, FALSE)
    /\ LastTaken(Opening(stage).type)

\* The end of the game, or the connection was closed.
Gone ==
    /\ Nowhere(TRUE, TRUE, TRUE, TRUE)
    /\ LastTaken(Opening(stage).type)

\* The reader is allowed the next packet only when main has done with the last.
ReaderInTurn ==
    /\ reader = "receive" => childMessages = <<>> /\ readsEncrypted = encryptionOn
    /\ reader = "receive" \/ (reader = "await" /\ receiveNext)
         => main \in {"take", "done"} /\ childMessages = <<>>

OneBall ==
    /\ stage \in {"SetPublicKey", "SetSymmetricKey", "TestKey", "StableCommunication"}
    /\ main \in {"take", "setSending", "waitSent", "rest", "done"}
    /\ ReaderInTurn
    /\ registered \/ fallsThrough => stage = "StableCommunication"
    /\ OnWayToClient \/ WithMain \/ Ordered \/ OnWayToServer \/ WithSession \/ Gone

-----------------------------------------------------------------------------
(* One lemma for each step that moves the ball *)

StageNames == {"SetPublicKey", "SetSymmetricKey", "TestKey", "StableCommunication"}

LEMMA StagesSay ==
    /\ DOMAIN Stages = {"SetPublicKey", "SetSymmetricKey", "TestKey"}
    /\ Stages["SetPublicKey"].expects = [type |-> "PUBLIC_KEY", key |-> "server"]
    /\ Stages["SetPublicKey"].reply = Opening("SetSymmetricKey")
    /\ Stages["SetPublicKey"].next = "SetSymmetricKey"
    /\ Stages["SetSymmetricKey"].expects = [type |-> "SYMMETRIC_KEY", key |-> "server"]
    /\ Stages["SetSymmetricKey"].reply = Opening("TestKey")
    /\ Stages["SetSymmetricKey"].next = "TestKey"
    /\ Stages["TestKey"].expects = [type |-> "TEST_KEY", key |-> "session"]
    /\ Stages["TestKey"].reply = Opening("StableCommunication")
    /\ Stages["TestKey"].next = "StableCommunication"
BY DEF Stages, Opening

\* At first there is the packet that ProtocolClient's constructor has sent.
LEMMA OneBallInit ==
    ASSUME Init
    PROVE  OneBall
<1>1. OnWayToClient
    BY DEF Init, OnWayToClient, Nowhere, LastTaken, Opening, Before, CipherAfter
<1> QED
    BY <1>1 DEF Init, OneBall, ReaderInTurn

LEMMA ArriveMoves ==
    ASSUME OneBall, Arrive
    PROVE  OneBall'
<1>1. toServer # <<>> /\ bufferIn = None
    BY DEF Arrive
<1>2. OnWayToServer
    BY <1>1 DEF OneBall, OnWayToClient, WithMain, Ordered, WithSession, Gone, Nowhere
<1>3. WithSession'
    BY <1>2 DEF Arrive, OnWayToServer, WithSession, Nowhere, LastTaken, threads, layers, signals
<1> QED
    BY <1>3 DEF OneBall, Arrive, ReaderInTurn, threads, layers, signals

\* The session finds the packet its stage waits for under the key it uses, so it
\* answers and goes on.
LEMMA ReceiveDataMoves ==
    ASSUME OneBall, ReceiveData
    PROVE  OneBall'
<1>1. notices > 0 /\ stage \in DOMAIN Stages
    BY DEF ReceiveData
<1>2. WithSession
    BY <1>1 DEF OneBall, OnWayToClient, WithMain, Ordered, OnWayToServer, Gone, Nowhere
<1>3. /\ stage' = Stages[stage].next
      /\ toClient' = <<Stages[stage].reply>>
      /\ bufferIn' = None /\ notices' = 0
      /\ registered' = (registered \/ stage = "TestKey") /\ fallsThrough' = (stage = "TestKey")
      /\ UNCHANGED <<toServer, threads, layers, signals>>
    <2>1. bufferIn # None
        BY <1>1, <1>2, StagesSay, NoneAssumption DEF WithSession, Packet, Types, KeyNames
    <2>2. Accepted(Stages[stage])
        BY <1>2, <2>1 DEF WithSession, Accepted, Decrypted
    <2> QED
        BY <1>2, <2>2 DEF ReceiveData, WithSession, Nowhere, Answered, RegistersIn
<1>4. OnWayToClient' /\ stage' \in StageNames
    <2>1. stage' \in StageNames /\ Stages[stage].reply = Opening(stage') /\ Before(stage') = Opening(stage).type
        BY <1>1, <1>3, StagesSay DEF StageNames, Before, Opening
    <2> QED
        BY <1>2, <1>3, <2>1 DEF WithSession, OnWayToClient, Nowhere, LastTaken, threads, layers, signals
<1>5. registered' \/ fallsThrough' => stage' = "StableCommunication"
    BY <1>1, <1>3, StagesSay DEF OneBall
<1> QED
    BY <1>3, <1>4, <1>5 DEF OneBall, ReaderInTurn, StageNames, threads, layers, signals

\* There is no packet left for it after the last stage.
LEMMA StableCommunicationMoves ==
    ASSUME OneBall, StableCommunication
    PROVE  OneBall'
<1>1. stage = "StableCommunication" /\ ~WithSession
    BY StagesSay DEF StableCommunication, OneBall, WithSession
<1>2. bufferIn = None
    BY <1>1 DEF OneBall, OnWayToClient, WithMain, Ordered, OnWayToServer, Gone, Nowhere
<1> QED
    BY <1>1, <1>2 DEF StableCommunication, OneBall, OnWayToClient, WithMain, Ordered, OnWayToServer,
       WithSession, Gone, Nowhere, LastTaken, ReaderInTurn, connection, threads, layers, signals

\* Nothing of what the invariant speaks of changes.
LEMMA OneBallStands ==
    ASSUME OneBall, UNCHANGED <<toServer, toClient, session, threads, layers, signals>>
    PROVE  OneBall'
BY DEF OneBall, OnWayToClient, WithMain, Ordered, OnWayToServer, WithSession, Gone, Nowhere,
       LastTaken, ReaderInTurn, session, threads, layers, signals

-----------------------------------------------------------------------------
(* The reader *)

\* readsEncrypted is what main has set: it is waiting for this packet.
LEMMA ReaderAwaitMoves ==
    ASSUME OneBall, ReaderAwait
    PROVE  OneBall'
<1>1. main = "take" /\ childMessages = <<>>
    BY DEF ReaderAwait, OneBall, ReaderInTurn
<1>2. \A t : LastTaken(t) => LastTaken(t)'
    BY <1>1 DEF ReaderAwait, LastTaken
<1> QED
    BY <1>1, <1>2 DEF ReaderAwait, OneBall, OnWayToClient, WithMain, Ordered, OnWayToServer, WithSession,
       Gone, Nowhere, ReaderInTurn, connection, session, signals

LEMMA ReaderReceiveMoves ==
    ASSUME OneBall, ReaderReceive
    PROVE  OneBall'
<1>1. reader = "receive" /\ toClient # <<>>
    BY DEF ReaderReceive
<1>2. OnWayToClient /\ main \in {"take", "done"}
    BY <1>1 DEF OneBall, WithMain, Ordered, OnWayToServer, WithSession, Gone, Nowhere, ReaderInTurn
<1>3. toClient' = <<>> /\ childMessages' = <<Opening(stage).type>>
    BY <1>2 DEF ReaderReceive, Received, OnWayToClient
<1>4. LastTaken(Before(stage))'
    BY <1>2 DEF ReaderReceive, OnWayToClient, LastTaken, layers, session
<1>5. WithMain'
    BY <1>2, <1>3, <1>4 DEF ReaderReceive, WithMain, OnWayToClient, Nowhere, session
<1> QED
    BY <1>5 DEF ReaderReceive, OneBall, ReaderInTurn, session

\* The reader stops being where it was, and no packet moves.
LEMMA ReaderStops ==
    ASSUME OneBall, reader' \in {"await", "failed", "done"}, receiveNext' => reader' # "await",
           UNCHANGED <<toServer, toClient, session, main, task, layers, sending, childMessages,
                       sendInstructions>>
    PROVE  OneBall'
<1>1. \A t : LastTaken(t) => LastTaken(t)'
    BY DEF LastTaken, layers
<1> QED
    BY <1>1 DEF OneBall, OnWayToClient, WithMain, Ordered, OnWayToServer, WithSession, Gone, Nowhere,
       ReaderInTurn, session, layers

LEMMA ReaderMoves ==
    ASSUME OneBall, Reader
    PROVE  OneBall'
<1>1. CASE ReaderBlocks
    BY <1>1, ReaderStops DEF ReaderBlocks, connection
<1>2. CASE ReaderFails
    BY <1>2, ReaderStops DEF ReaderFails, connection, signals
<1>3. CASE ReaderEnds
    BY <1>3, ReaderStops DEF ReaderEnds, connection, signals
<1> QED
    BY <1>1, <1>2, <1>3, ReaderAwaitMoves, ReaderReceiveMoves DEF Reader

-----------------------------------------------------------------------------
(* The writer *)

LEMMA WriterSendMoves ==
    ASSUME OneBall, WriterSend
    PROVE  OneBall'
<1>1. Ordered
    BY DEF WriterSend, OneBall, OnWayToClient, WithMain, OnWayToServer, WithSession, Gone, Nowhere
<1>2. sendInstructions' = <<>> /\ (toServer' = <<Stages[stage].expects>> \/ toServer' = <<>>)
    <2>1. WriterKey = Stages[stage].expects.key
        <3>1. encryptionOn
            BY <1>1, StagesSay DEF Ordered, LastTaken, Opening
        <3>2. CASE stage # "TestKey"
            BY <1>1, <3>1, <3>2, StagesSay DEF Ordered, WriterKey, EncryptKey, Opening, CipherDuring
        <3>3. CASE stage = "TestKey"
            <4>1. main \in {"take", "rest", "done"}
                BY <1>1, <3>3 DEF OneBall, Ordered, LastTaken, Opening, Awaited
            <4>2. cipher = "SESSION"
                BY <1>1, <3>3, <4>1 DEF Ordered, LastTaken, Opening, CipherDuring, CipherAfter
            <4> QED
                BY <3>1, <3>3, <4>2, StagesSay DEF WriterKey, EncryptKey
        <3> QED
            BY <3>2, <3>3
    <2>2. Sent = Stages[stage].expects
        BY <1>1, <2>1, StagesSay DEF Ordered, Sent
    <2> QED
        BY <1>1, <2>2 DEF WriterSend, Ordered, Nowhere
<1>3. LastTaken(Opening(stage).type)'
    BY <1>1 DEF WriterSend, Ordered, LastTaken, session, threads, layers
<1>4. OnWayToServer' \/ Gone'
    BY <1>1, <1>2, <1>3 DEF WriterSend, Ordered, OnWayToServer, Gone, Nowhere, session, threads, layers
<1> QED
    BY <1>4 DEF WriterSend, OneBall, ReaderInTurn, session, threads, layers

LEMMA WriterMoves ==
    ASSUME OneBall, Writer
    PROVE  OneBall'
<1>1. CASE WriterFails \/ WriterEnds
    <2>1. UNCHANGED <<toServer, toClient, session, main, reader, task, layers, signals>>
        BY <1>1 DEF WriterFails, WriterEnds, connection
    <2> QED
        BY <2>1 DEF OneBall, OnWayToClient, WithMain, Ordered, OnWayToServer, WithSession, Gone, Nowhere,
           LastTaken, ReaderInTurn, session, layers, signals
<1> QED
    BY <1>1, WriterSendMoves DEF Writer

-----------------------------------------------------------------------------
(* The main thread *)

\* main answers what it has taken, and the key it sets is the one for that answer.
LEMMA MainTakesMoves ==
    ASSUME OneBall, MainTakes
    PROVE  OneBall'
<1>1. main = "take" /\ childMessages # <<>>
    BY DEF MainTakes
<1>2. WithMain /\ reader # "receive" /\ ~(reader = "await" /\ receiveNext) /\ stage \in StageNames
    BY <1>1 DEF OneBall, OnWayToClient, Ordered, OnWayToServer, WithSession, Gone, Nowhere, ReaderInTurn,
       StageNames
<1> DEFINE t == Opening(stage).type
<1>3. /\ childMessages' = <<>> /\ sendInstructions' = Answer(t)
      /\ encryptionOn' = (encryptionOn \/ t = "OPEN_ENCR")
      /\ cipher' = (IF t = "OPEN_ENCR" THEN "SERVER_PUBLIC" ELSE cipher)
      /\ task' = t /\ main' = (IF t \in Awaited THEN "setSending" ELSE "rest")
      /\ UNCHANGED <<connection, session, reader, receiveNext>>
    BY <1>2 DEF MainTakes, WithMain, Nowhere, Answer
<1>4. encryptionOn = (Before(stage) # "none") /\ cipher = CipherAfter(Before(stage))
    BY <1>1, <1>2 DEF WithMain, LastTaken
<1>5. LastTaken(t)' /\ (stage # "StableCommunication" => cipher' = CipherDuring(t))
    BY <1>2, <1>3, <1>4 DEF LastTaken, Before, Opening, CipherAfter, CipherDuring, Awaited, StageNames,
       session
<1>6. CASE stage = "StableCommunication"
    <2>1. Gone'
        BY <1>2, <1>3, <1>5, <1>6 DEF WithMain, Gone, Nowhere, Answer, Opening, connection, session
    <2> QED
        BY <1>2, <1>3, <2>1 DEF OneBall, ReaderInTurn, session
<1>7. CASE stage # "StableCommunication"
    <2>1. sendInstructions' = <<Stages[stage].expects.type>> /\ stage \in DOMAIN Stages
        BY <1>2, <1>3, <1>7, StagesSay DEF Answer, Opening, StageNames
    <2>2. stage # "TestKey" => main' = "setSending"
        BY <1>2, <1>3, <1>7 DEF Opening, Awaited, StageNames
    <2>3. Ordered'
        BY <1>2, <1>3, <1>5, <1>7, <2>1, <2>2 DEF WithMain, Ordered, Nowhere, connection, session
    <2> QED
        BY <1>2, <1>3, <2>3 DEF OneBall, ReaderInTurn, session
<1> QED
    BY <1>6, <1>7

LEMMA MainSetsSendingMoves ==
    ASSUME OneBall, MainSetsSending
    PROVE  OneBall'
<1>1. main = "setSending" /\ main' = "waitSent" /\ sending'
      /\ UNCHANGED <<connection, session, reader, task, layers, receiveNext, childMessages, sendInstructions>>
    BY DEF MainSetsSending
<1>2. \A t : LastTaken(t) => LastTaken(t)'
    BY <1>1 DEF LastTaken, layers
<1> QED
    BY <1>1, <1>2 DEF OneBall, OnWayToClient, WithMain, Ordered, OnWayToServer, WithSession, Gone, Nowhere,
       ReaderInTurn, connection, session, layers

\* The next key is set when the order has been sent: while it is there, sending
\* holds main.
LEMMA MainSentMoves ==
    ASSUME OneBall, MainSent
    PROVE  OneBall'
<1>1. /\ main = "waitSent" /\ ~sending /\ main' = "rest"
      /\ cipher' = (IF task = "OPEN_ENCR" THEN "CLIENT_PRIVATE_SERVER_PUBLIC" ELSE "SESSION")
      /\ UNCHANGED <<connection, session, reader, task, encryptionOn, readsEncrypted, signals>>
    BY DEF MainSent, IsSent
<1>2. ~Ordered /\ ~WithMain /\ reader # "receive" /\ ~(reader = "await" /\ receiveNext)
    BY <1>1 DEF Ordered, WithMain, OneBall, ReaderInTurn
<1>3. \A t : LastTaken(t) => LastTaken(t)'
    BY <1>1, <1>2 DEF LastTaken, Awaited, CipherAfter
<1> QED
    BY <1>1, <1>2, <1>3 DEF OneBall, OnWayToClient, OnWayToServer, WithSession, Gone, Nowhere,
       ReaderInTurn, connection, session, signals

LEMMA MainRestsMoves ==
    ASSUME OneBall, MainRests
    PROVE  OneBall'
<1>1. /\ main = "rest" /\ main' = "take" /\ receiveNext'
      /\ UNCHANGED <<connection, session, reader, layers, sending, childMessages, sendInstructions>>
    BY DEF MainRests
<1>2. ~WithMain /\ reader # "receive" /\ (Ordered => stage = "TestKey")
    BY <1>1 DEF Ordered, WithMain, OneBall, ReaderInTurn
<1>3. childMessages = <<>>
    BY <1>2 DEF OneBall, OnWayToClient, Ordered, OnWayToServer, WithSession, Gone, Nowhere
<1>4. \A t : LastTaken(t) => LastTaken(t)'
    BY <1>1, <1>2 DEF LastTaken, layers
<1> QED
    BY <1>1, <1>2, <1>3, <1>4 DEF OneBall, OnWayToClient, Ordered, OnWayToServer, WithSession, Gone,
       Nowhere, ReaderInTurn, connection, session, layers

LEMMA MainStopsMoves ==
    ASSUME OneBall, MainStops
    PROVE  OneBall'
<1>1. /\ main \in {"take", "waitSent", "rest"} /\ main' = "done"
      /\ UNCHANGED <<connection, session, reader, task, layers, signals>>
    BY DEF MainStops
<1>2. \A t : LastTaken(t) => LastTaken(t)'
    BY <1>1 DEF LastTaken, layers
<1>3. Ordered => Ordered'
    BY <1>1, <1>2 DEF Ordered, Nowhere, connection, session, layers, signals
<1> QED
    BY <1>1, <1>2, <1>3 DEF OneBall, OnWayToClient, WithMain, OnWayToServer, WithSession, Gone,
       Nowhere, ReaderInTurn, connection, session, layers, signals

-----------------------------------------------------------------------------
(* The theorems *)

LEMMA AnswerType ==
    ASSUME NEW t \in Types
    PROVE  Answer(t) \in Seq(Types)
<1>1. <<"PUBLIC_KEY">> \in Seq(Types) /\ <<t>> \in Seq(Types)
    <2>1. "PUBLIC_KEY" \in Types
        BY DEF Types
    <2> QED
        BY <2>1
<1>2. Answer(t) = <<"PUBLIC_KEY">> \/ Answer(t) = <<t>> \/ Answer(t) = <<>>
    <2>1. CASE t = "OPEN_ENCR"
        BY <2>1 DEF Answer
    <2>2. CASE t \in {"SYMMETRIC_KEY", "TEST_KEY"}
        BY <2>2 DEF Answer
    <2>3. CASE t = "OPEN_PROT" \/ t = "PUBLIC_KEY"
        BY <2>3 DEF Answer
    <2> QED
        BY <2>1, <2>2, <2>3 DEF Types
<1>3. <<>> \in Seq(Types)
    OBVIOUS
<1> QED
    BY <1>1, <1>2, <1>3, Zenon

LEMMA OneBallInvariant == Spec => []OneBall
<1>1. OneBall /\ [Next]_vars => OneBall'
    <2> SUFFICES ASSUME OneBall, [Next]_vars
                 PROVE  OneBall'
        OBVIOUS
    <2>1. CASE UNCHANGED vars
        BY <2>1, OneBallStands DEF vars, connection
    <2>2. CASE Erase \/ Wake \/ SendRemainingData
        BY <2>2, OneBallStands DEF Erase, Wake, SendRemainingData, connection
    <2>3. CASE Main
        BY <2>3, MainTakesMoves, MainSetsSendingMoves, MainSentMoves, MainRestsMoves, MainStopsMoves
        DEF Main
    <2> QED
        BY <2>1, <2>2, <2>3, ArriveMoves, ReceiveDataMoves, StableCommunicationMoves, ReaderMoves,
           WriterMoves DEF Next, Server
<1> QED
    BY <1>1, OneBallInit, PTL DEF Spec

\* Type correctness, which needs the ball: the session is never told of a second
\* packet before it has taken the first one out of bufferIn (SimpleClient::recvData).
THEOREM TypeCorrect == Spec => []TypeOK
<1>1. Init => TypeOK
    <2> SUFFICES ASSUME Init
                 PROVE  TypeOK
        OBVIOUS
    <2>1. [type |-> "OPEN_ENCR", key |-> "none"] \in Packet
        BY DEF Packet, Types, KeyNames
    <2>2. toServer \in Seq(Packet) /\ toClient \in Seq(Packet)
        BY <2>1 DEF Init
    <2>3. childMessages \in Seq(Types) /\ sendInstructions \in Seq(Types)
        BY DEF Init
    <2> QED
        <3>1. /\ bufferIn \in Packet \cup {None} /\ task \in Types \cup {None}
              /\ notices \in 0..1 /\ sendNotices \in Nat
            BY DEF Init
        <3>2. /\ socket = "open" /\ stage = "SetPublicKey" /\ main = "take" /\ reader = "await"
              /\ writer = "take" /\ cipher = "NONE"
              /\ {fallsThrough, registered, closing, queueEdge, woken, encryptionOn, readsEncrypted,
                  sending, receiveNext, interrupted} \subseteq BOOLEAN
            BY DEF Init
        <3> QED
            BY <2>2, <2>3, <3>1, <3>2 DEF TypeOK
<1>2. OneBall /\ TypeOK /\ [Next]_vars => TypeOK'
    <2> SUFFICES ASSUME OneBall, TypeOK, [Next]_vars
                 PROVE  TypeOK'
        OBVIOUS
    <2> USE DEF TypeOK
    <2>1. CASE UNCHANGED vars
        BY <2>1 DEF vars, connection, session, queue, threads, layers, signals
    <2>2. CASE Arrive
        <3>1. notices = 0
            BY <2>2 DEF Arrive, OneBall, OnWayToClient, WithMain, Ordered, OnWayToServer, WithSession, Gone,
               Nowhere, Stages
        <3>2. Head(toServer) \in Packet /\ Tail(toServer) \in Seq(Packet)
            BY <2>2 DEF Arrive
        <3> QED
            BY <2>2, <3>1, <3>2 DEF Arrive, threads, layers, signals
    <2>3. CASE ReceiveData
        <3>1. Stages[stage].reply \in Packet /\ Stages[stage].next \in StageNames
            BY <2>3, StagesSay DEF ReceiveData, Opening, Packet, Types, KeyNames, StageNames
        <3>2. Answered(Stages[stage]) \in Seq(Packet) /\ notices - 1 \in 0..1
            BY <2>3, <3>1 DEF ReceiveData, Answered
        <3>3. {fallsThrough, registered, closing, queueEdge, woken, encryptionOn, readsEncrypted,
               sending, receiveNext, interrupted}' \subseteq BOOLEAN
            BY <2>3, Zenon DEF ReceiveData, threads, layers, signals
        <3> QED
            BY <2>3, <3>1, <3>2, <3>3 DEF ReceiveData, StageNames, threads, layers, signals
    <2>4. CASE StableCommunication \/ Erase \/ Wake \/ SendRemainingData
        <3>1. CASE StableCommunication
            <4>1. {fallsThrough, registered, closing, queueEdge, woken, encryptionOn, readsEncrypted,
                   sending, receiveNext, interrupted}' \subseteq BOOLEAN
                BY <3>1, Zenon DEF StableCommunication, queue, threads, layers, signals
            <4> QED
                BY <3>1, <4>1 DEF StableCommunication, connection, queue, threads, layers, signals
        <3>2. CASE Erase
            BY <3>2 DEF Erase, session, queue, threads, layers, signals
        <3>3. CASE Wake
            <4>1. {fallsThrough, registered, closing, queueEdge, woken, encryptionOn, readsEncrypted,
                   sending, receiveNext, interrupted}' \subseteq BOOLEAN
                BY <3>3, Zenon DEF Wake, session, threads, layers, signals
            <4> QED
                BY <3>3, <4>1 DEF Wake, connection, session, threads, layers, signals
        <3>4. CASE SendRemainingData
            <4>1. UNCHANGED <<connection, session, queueEdge, threads, layers, signals>>
                  /\ woken' = FALSE
                BY <3>4 DEF SendRemainingData
            <4>2. sendNotices' \in Nat
                <5>1. sendNotices \in Nat /\ sendNotices > 0 /\ sendNotices' = sendNotices - 1
                    BY <3>4 DEF SendRemainingData
                <5> QED
                    BY <5>1
            <4>3. {fallsThrough, registered, closing, queueEdge, woken, encryptionOn, readsEncrypted,
                   sending, receiveNext, interrupted}' \subseteq BOOLEAN
                BY <4>1, Zenon DEF session, threads, layers, signals
            <4>4. UNCHANGED <<toServer, toClient, socket, stage, bufferIn, notices, main, reader,
                              writer, task, cipher, childMessages, sendInstructions>>
                BY <4>1 DEF connection, session, threads, layers, signals
            <4> QED
                BY <4>2, <4>3, <4>4
        <3> QED
            BY <2>4, <3>1, <3>2, <3>3, <3>4
    <2>5. CASE Reader
        <3>1. CASE ReaderReceive
            <4>1. Head(toClient) \in Packet /\ Tail(toClient) \in Seq(Packet)
                BY <3>1 DEF ReaderReceive
            <4>2. Received \in Types
                BY <4>1 DEF Received, Packet
            <4> QED
                BY <3>1, <4>1, <4>2 DEF ReaderReceive, session, queue, layers
        <3>2. CASE ReaderAwait \/ ReaderBlocks \/ ReaderFails \/ ReaderEnds
            BY <3>2 DEF ReaderAwait, ReaderBlocks, ReaderFails, ReaderEnds, InterruptMain, connection,
               session, queue, layers, signals
        <3> QED
            BY <2>5, <3>1, <3>2 DEF Reader
    <2>6. CASE Writer
        <3>1. CASE WriterSend
            <4>1. Head(sendInstructions) \in Types /\ Tail(sendInstructions) \in Seq(Types)
                BY <3>1 DEF WriterSend
            <4>2. Sent \in Packet
                BY <4>1 DEF Sent, WriterKey, EncryptKey, Packet, KeyNames
            <4> QED
                <5>1. toServer' \in Seq(Packet)
                    BY <3>1, <4>2 DEF WriterSend
                <5>2. sendInstructions' \in Seq(Types)
                    BY <3>1, <4>1 DEF WriterSend
                <5>3. {fallsThrough, registered, closing, queueEdge, woken, encryptionOn, readsEncrypted,
                       sending, receiveNext, interrupted}' \subseteq BOOLEAN
                    BY <3>1, Zenon DEF WriterSend, session, queue, threads, layers
                <5> QED
                    BY <3>1, <5>1, <5>2, <5>3 DEF WriterSend, session, queue, threads, layers
        <3>2. CASE WriterFails \/ WriterEnds
            BY <3>2 DEF WriterFails, WriterEnds, InterruptMain, connection, session, queue, layers, signals
        <3> QED
            BY <2>6, <3>1, <3>2 DEF Writer
    <2>7. CASE Main
        <3>1. CASE MainTakes
            <4>1. Head(childMessages) \in Types /\ Tail(childMessages) \in Seq(Types)
                BY <3>1 DEF MainTakes
            <4>2. Answer(Head(childMessages)) \in Seq(Types)
                BY <4>1, AnswerType
            <4> QED
                BY <3>1, <4>1, <4>2 DEF MainTakes, connection, session, queue
        <3>2. CASE MainSetsSending \/ MainSent \/ MainRests \/ MainStops
            BY <3>2 DEF MainSetsSending, MainSent, MainRests, MainStops, connection, session, queue, layers,
               signals
        <3> QED
            BY <2>7, <3>1, <3>2 DEF Main
    <2> QED
        BY <2>1, <2>2, <2>3, <2>4, <2>5, <2>6, <2>7 DEF Next, Server
<1> QED
    BY <1>1, <1>2, OneBallInvariant, PTL DEF Spec

\* Whoever is about to read a packet has switched to the key it needs, and the session
\* stores the client's identity only when both have the session key (ProtocolClient::
\* receiveData and testKey, Client.java's main, reader and writer).
THEOREM KeysMatchHolds == Spec => []KeysMatch
<1>1. OneBall => KeysMatch
    <2> SUFFICES ASSUME OneBall
                 PROVE  KeysMatch
        OBVIOUS
    <2>1. registered => cipher = "SESSION" /\ stage = "StableCommunication"
        <3> SUFFICES ASSUME registered
                     PROVE  cipher = "SESSION" /\ stage = "StableCommunication"
            OBVIOUS
        <3>1. stage = "StableCommunication" /\ ~Ordered /\ ~OnWayToServer /\ ~WithSession
            BY StagesSay DEF OneBall, Ordered, OnWayToServer, WithSession
        <3>2. PICK t \in {"TEST_KEY", "OPEN_PROT"} : LastTaken(t)
            BY <3>1 DEF OneBall, OnWayToClient, WithMain, Gone, Before, Opening
        <3>3. cipher = "SESSION"
            BY <3>2 DEF OneBall, LastTaken, CipherDuring, CipherAfter, Awaited
        <3> QED
            BY <3>1, <3>3
    <2>2. (notices > 0 /\ stage \in DOMAIN Stages) => bufferIn = Stages[stage].expects
        BY DEF OneBall, OnWayToClient, WithMain, Ordered, OnWayToServer, WithSession, Gone, Nowhere
    <2>3. (reader = "receive" /\ toClient # <<>>) => Head(toClient).key = ReaderKey
        <3> SUFFICES ASSUME reader = "receive", toClient # <<>>
                     PROVE  Head(toClient).key = ReaderKey
            OBVIOUS
        <3>1. OnWayToClient /\ readsEncrypted = encryptionOn /\ stage \in StageNames
            BY DEF OneBall, WithMain, Ordered, OnWayToServer, WithSession, Gone, Nowhere, ReaderInTurn,
               StageNames
        <3>2. /\ encryptionOn = (Before(stage) # "none") /\ cipher = CipherAfter(Before(stage))
              /\ Head(toClient) = Opening(stage)
            BY <3>1 DEF OnWayToClient, LastTaken
        <3> QED
            <4>1. CASE stage = "SetPublicKey"
                <5>1. readsEncrypted = FALSE /\ Opening(stage).key = "none"
                    BY <3>1, <3>2, <4>1 DEF Before, Opening
                <5> QED
                    BY <3>2, <5>1 DEF ReaderKey
            <4>2. CASE stage = "SetSymmetricKey"
                <5>1. /\ cipher = "CLIENT_PRIVATE_SERVER_PUBLIC" /\ readsEncrypted = TRUE
                      /\ Opening(stage).key = "client"
                    BY <3>1, <3>2, <4>2 DEF Before, Opening, CipherAfter
                <5>2. DecryptKey = "client"
                    BY <5>1 DEF DecryptKey
                <5> QED
                    BY <3>2, <5>1, <5>2 DEF ReaderKey
            <4>3. CASE stage \in {"TestKey", "StableCommunication"}
                <5>1. cipher = "SESSION" /\ readsEncrypted = TRUE /\ Opening(stage).key = "session"
                    BY <3>1, <3>2, <4>3 DEF Before, Opening, CipherAfter
                <5>2. DecryptKey = "session"
                    BY <5>1 DEF DecryptKey
                <5> QED
                    BY <3>2, <5>1, <5>2 DEF ReaderKey
            <4> QED
                BY <3>1, <4>1, <4>2, <4>3 DEF StageNames
    <2> QED
        BY <2>1, <2>2, <2>3 DEF KeysMatch
<1> QED
    BY <1>1, OneBallInvariant, PTL

-----------------------------------------------------------------------------
(* Layers: bytes *)

\* What bytes are known by.
FieldNames == {"type", "id", "name", "key", "latitude", "longitude", "deltaTime", "time",
               "pointer", "length", "capacity", "unused", "ciphertext"}
Byte == FieldNames \X Nat

-----------------------------------------------------------------------------
(* AES: whole blocks, and the last has padding *)

\* The fields of a block.
LEMMA BlockSays ==
    ASSUME NEW key, NEW text, NEW size
    PROVE  /\ Block(key, text, size).key = key
           /\ Block(key, text, size).text = text
           /\ Block(key, text, size).size = size
BY DEF Block

\* What EncryptAES makes of a text: k blocks.
AESBlocks(b, k, text, T) ==
    /\ k \in Nat \ {0} /\ 16 * (k - 1) <= Len(text) /\ Len(text) < 16 * k
    /\ Len(b) = k /\ DOMAIN b = 1..k
    /\ \A i \in 1..k :
        /\ b[i] = Block("AES", b[i].text, 16) /\ b[i].key = "AES" /\ b[i].size = 16
        /\ b[i].text = SubSeq(text, 16 * (i - 1) + 1, IF i = k THEN Len(text) ELSE 16 * i)
        /\ b[i].text \in Seq(T)
        /\ Len(b[i].text) = IF i = k THEN Len(text) - 16 * (k - 1) ELSE 16

\* encrypt() of AES makes a block more than the text fills, the last one with padding.
LEMMA EncryptAESMakes ==
    ASSUME NEW T, NEW text \in Seq(T)
    PROVE  AESBlocks(EncryptAES(text), Len(text) \div 16 + 1, text, T)
<1> DEFINE k == Len(text) \div 16 + 1
<1>1. Len(text) \in Nat /\ \A i \in 1..Len(text) : text[i] \in T
    OBVIOUS
<1>2. k \in Nat \ {0} /\ 16 * (k - 1) <= Len(text) /\ Len(text) < 16 * k
    BY <1>1
<1>3. Len(EncryptAES(text)) = k /\ DOMAIN EncryptAES(text) = 1..k
    BY <1>2 DEF EncryptAES, AesBlock
<1> HIDE DEF k
<1>4. ASSUME NEW i \in 1..k
      PROVE  /\ EncryptAES(text)[i] = Block("AES", EncryptAES(text)[i].text, 16)
             /\ EncryptAES(text)[i].key = "AES" /\ EncryptAES(text)[i].size = 16
             /\ EncryptAES(text)[i].text = SubSeq(text, 16 * (i - 1) + 1, IF i = k THEN Len(text) ELSE 16 * i)
             /\ EncryptAES(text)[i].text \in Seq(T)
             /\ Len(EncryptAES(text)[i].text) = IF i = k THEN Len(text) - 16 * (k - 1) ELSE 16
    <2> DEFINE last == IF i * 16 < Len(text) THEN i * 16 ELSE Len(text)
    <2>1. EncryptAES(text)[i] = Block("AES", SubSeq(text, (i - 1) * 16 + 1, last), 16)
        BY DEF EncryptAES, AesBlock, k
    <2>2. last = IF i = k THEN Len(text) ELSE 16 * i
        <3>1. i = k => ~(i * 16 < Len(text))
            BY <1>1, <1>2
        <3>2. i # k => i * 16 <= Len(text) /\ i * 16 = 16 * i
            BY <1>1, <1>2
        <3> QED
            BY <1>1, <3>1, <3>2
    <2>3. (i - 1) * 16 + 1 = 16 * (i - 1) + 1 /\ 16 * (i - 1) <= last /\ last <= Len(text) /\ last \in Nat
        BY <1>1, <1>2, <2>2
    <2> HIDE DEF last
    <2>4. /\ SubSeq(text, 16 * (i - 1) + 1, last) \in Seq(T)
          /\ Len(SubSeq(text, 16 * (i - 1) + 1, last)) = last - 16 * (i - 1)
        <3>1. \A j \in (16 * (i - 1) + 1)..last : text[j] \in T
            BY <1>1, <2>3
        <3>2. 16 * (i - 1) + 1 \in Int /\ last \in Int
            BY <2>3
        <3>3. LET n == 16 * (i - 1) + 1
              IN  /\ SubSeq(text, n, last) \in Seq(T)
                  /\ Len(SubSeq(text, n, last)) = IF n <= last THEN last - n + 1 ELSE 0
            BY <3>1, <3>2, SubSeqProperties
        <3> QED
            BY <2>3, <3>3
    <2> DEFINE cutOut == SubSeq(text, 16 * (i - 1) + 1, last)
    <2>5. EncryptAES(text)[i] = Block("AES", cutOut, 16)
        BY <2>1, <2>3
    <2>6. EncryptAES(text)[i].key = "AES" /\ EncryptAES(text)[i].size = 16 /\ EncryptAES(text)[i].text = cutOut
        <3> HIDE DEF cutOut
        <3> QED
            BY <2>5, BlockSays
    <2>7. last - 16 * (i - 1) = IF i = k THEN Len(text) - 16 * (k - 1) ELSE 16
        <3>1. CASE i = k
            BY <1>1, <2>2, <3>1
        <3>2. CASE i # k
            BY <2>2, <3>2
        <3> QED
            BY <3>1, <3>2
    <2>8. /\ EncryptAES(text)[i].text = SubSeq(text, 16 * (i - 1) + 1, IF i = k THEN Len(text) ELSE 16 * i)
          /\ EncryptAES(text)[i].text \in Seq(T)
          /\ Len(EncryptAES(text)[i].text) = IF i = k THEN Len(text) - 16 * (k - 1) ELSE 16
        <3> HIDE DEF cutOut
        <3>1. cutOut = SubSeq(text, 16 * (i - 1) + 1, IF i = k THEN Len(text) ELSE 16 * i)
            BY <2>2 DEF cutOut
        <3>2. cutOut \in Seq(T) /\ Len(cutOut) = IF i = k THEN Len(text) - 16 * (k - 1) ELSE 16
            BY <2>4, <2>7 DEF cutOut
        <3> QED
            BY <2>6, <3>1, <3>2, Zenon
    <2> HIDE DEF cutOut
    <2> QED
        BY <2>5, <2>6, <2>8
<1> QED
    BY <1>2, <1>3, <1>4 DEF AESBlocks, k

\* What the first of the blocks hold together.
LEMMA AESTexts ==
    ASSUME NEW T, NEW text \in Seq(T), NEW c, NEW k, AESBlocks(c, k, text, T), NEW j \in 1..k,
           NEW b, DOMAIN b = 1..j, \A i \in 1..j : b[i] = c[i]
    PROVE  Texts(b) = SubSeq(text, 1, IF j = k THEN Len(text) ELSE 16 * j)
<1> DEFINE e == [i \in 0..j |-> IF i = k THEN Len(text) ELSE 16 * i]
           q == [i \in 1..j |-> b[i].text]
<1>1. /\ k \in Nat \ {0} /\ 16 * (k - 1) <= Len(text) /\ Len(text) < 16 * k
      /\ \A i \in 1..k : /\ c[i].text = SubSeq(text, 16 * (i - 1) + 1, IF i = k THEN Len(text) ELSE 16 * i)
                         /\ c[i].text \in Seq(T)
    BY DEF AESBlocks
<1>2. j \in Nat \ {0} /\ j <= k /\ Len(text) \in Nat
    BY <1>1
<1>3. \A i \in 0..j : (IF i = k THEN Len(text) ELSE 16 * i) \in 0..Len(text)
    <2> TAKE i \in 0..j
    <2>1. CASE i = k
        BY <1>2, <2>1
    <2>2. CASE i # k
        BY <1>1, <1>2, <2>2
    <2> QED
        BY <2>1, <2>2
<1>4. e \in [0..j -> 0..Len(text)]
    BY <1>3
<1>5. e[0] = 0
    BY <1>1, <1>2
<1>6. ASSUME NEW i \in 1..j
      PROVE  e[i - 1] = 16 * (i - 1) /\ e[i] = (IF i = k THEN Len(text) ELSE 16 * i) /\ e[i - 1] <= e[i]
    <2>1. i \in 0..j /\ i - 1 \in 0..j /\ i - 1 # k
        BY <1>1, <1>2
    <2>2. e[i - 1] = 16 * (i - 1) /\ e[i] = IF i = k THEN Len(text) ELSE 16 * i
        BY <2>1
    <2>3. 16 * (i - 1) <= IF i = k THEN Len(text) ELSE 16 * i
        BY <1>1, <1>2
    <2> HIDE DEF e
    <2> QED
        BY <2>2, <2>3
<1>7. \A i \in 1..j : b[i].text \in Seq(T) /\ q[i] = SubSeq(text, e[i - 1] + 1, e[i])
    <2> TAKE i \in 1..j
    <2>1. i \in 1..k /\ q[i] = b[i].text /\ b[i] = c[i]
        <3>1. i \in 1..k
            BY <1>1, <1>2
        <3>2. q[i] = b[i].text
            OBVIOUS
        <3> QED
            BY <3>1, <3>2
    <2> HIDE DEF q, e
    <2>2. q[i] = SubSeq(text, 16 * (i - 1) + 1, IF i = k THEN Len(text) ELSE 16 * i) /\ b[i].text \in Seq(T)
        BY <1>1, <2>1
    <2> QED
        BY <1>6, <2>2
<1>8. q \in Seq(Seq(T)) /\ Len(q) = j
    <2>1. \A i \in 1..j : b[i].text \in Seq(T)
        BY <1>7
    <2> QED
        BY <1>2, <2>1
<1>9. FlattenSeq(q) = SubSeq(text, 1, e[j])
    <2> HIDE DEF q, e
    <2>1. \A i \in 1..j : e[i - 1] <= e[i]
        BY <1>6
    <2>2. \A i \in 1..j : q[i] = SubSeq(text, e[i - 1] + 1, e[i])
        BY <1>7
    <2>3. j \in Nat \ {0}
        BY <1>2
    <2> QED
        BY <1>4, <1>5, <1>8, <2>1, <2>2, <2>3, FlattenCuts, ZenonT(30)
<1>10. e[j] = IF j = k THEN Len(text) ELSE 16 * j
    BY <1>2
<1>11. Texts(b) = FlattenSeq(q)
    BY DEF Texts
<1> HIDE DEF q, e
<1> QED
    BY <1>9, <1>10, <1>11

\* Crypto: whatever the length of a text, an exact multiple of the block included, its
\* blocks, read whole, decrypt to that text and to no other.
THEOREM AESRoundTrip ==
    ASSUME NEW T, NEW text \in Seq(T)
    PROVE  DecryptAES(EncryptAES(text)) = {text}
<1> DEFINE k == Len(text) \div 16 + 1
           b == EncryptAES(text)
<1>0. AESBlocks(b, k, text, T)
    BY EncryptAESMakes
<1> HIDE DEF k, b
<1>1. /\ k \in Nat \ {0} /\ 16 * (k - 1) <= Len(text) /\ Len(text) < 16 * k
      /\ Len(b) = k /\ DOMAIN b = 1..k
      /\ \A i \in 1..k : b[i].key = "AES" /\ b[i].size = 16
                         /\ Len(b[i].text) = IF i = k THEN Len(text) - 16 * (k - 1) ELSE 16
    BY <1>0 DEF AESBlocks
<1>2. k \in 1..k /\ Len(text) \in Nat
    BY <1>1
<1>3. b # <<>> /\ AllWhole(b, "AES", AesBlock)
    <2>1. b # <<>>
        BY <1>1, <1>2
    <2> QED
        BY <1>1, <2>1 DEF AllWhole, IsWhole, AesBlock
<1>4. Len(Last(b).text) < AesBlock
    <2>1. Last(b) = b[k]
        BY <1>1 DEF Last
    <2>2. Len(b[k].text) = Len(text) - 16 * (k - 1)
        BY <1>1, <1>2
    <2> QED
        BY <1>1, <1>2, <2>1, <2>2 DEF AesBlock
<1>5. Texts(b) = text
    <2>2. Texts(b) = SubSeq(text, 1, Len(text))
        <3>1. Texts(b) = SubSeq(text, 1, IF k = k THEN Len(text) ELSE 16 * k)
            BY <1>0, <1>1, <1>2, AESTexts
        <3> QED
            BY <3>1
    <2> QED
        BY <2>2, SubSeqFull
<1> QED
    BY <1>3, <1>4, <1>5 DEF DecryptAES, b

\* DataReceiver of the client reads once: whatever part of the blocks of a text was there,
\* it is refused or gives a beginning of the text that has at least the byte of the type.
THEOREM AESPartBegins ==
    ASSUME NEW T, NEW text \in Seq(T), NEW n \in 1..(16 * (Len(text) \div 16 + 1) - 1),
           NEW out \in DecryptAES(FirstBytes(EncryptAES(text), n))
    PROVE  out # <<>> /\ out[1] = text[1]
<1> DEFINE k == Len(text) \div 16 + 1
           c == EncryptAES(text)
           j == n \div 16
           b == SubSeq(c, 1, j)
<1>1. AESBlocks(c, k, text, T) /\ n \in 1..(16 * k - 1)
    BY EncryptAESMakes
<1>2. out \in DecryptAES(FirstBytes(c, n))
    OBVIOUS
<1> HIDE DEF k, c
<1>3. /\ k \in Nat \ {0} /\ 16 * (k - 1) <= Len(text) /\ Len(text) < 16 * k
      /\ Len(c) = k /\ DOMAIN c = 1..k /\ c[1].size = 16
      /\ \A i \in 1..k : Len(c[i].text) = IF i = k THEN Len(text) - 16 * (k - 1) ELSE 16
    <2>1. 1 \in 1..k
        BY <1>1 DEF AESBlocks
    <2> QED
        BY <1>1, <2>1 DEF AESBlocks
<1>4. j \in 0..(k - 1) /\ n = 16 * j + (n % 16) /\ n % 16 \in 0..15
    BY <1>1, <1>3
<1> HIDE DEF j
<1> DEFINE x == [c[j + 1] EXCEPT !.size = n % 16]
           C == {c[i] : i \in 1..k} \cup {x}
<1>5. b \in Seq(C) /\ Len(b) = j /\ \A i \in 1..j : b[i] = c[i]
    <2>1. \A i \in 1..k : c[i] \in C
        OBVIOUS
    <2>2. \A i \in 1..j : c[i] \in C
        BY <1>3, <1>4, <2>1
    <2> HIDE DEF C
    <2> QED
        BY <1>4, <2>2
<1>6. FirstBytes(c, n) = b \o IF n % 16 = 0 THEN <<>> ELSE <<x>>
    BY <1>3 DEF FirstBytes, j
<1>7. n % 16 = 0
    <2> SUFFICES ASSUME n % 16 # 0 PROVE FALSE
        OBVIOUS
    <2>1. FirstBytes(c, n) = b \o <<x>>
        BY <1>6
    <2>2. x.size = n % 16
        <3>1. j + 1 \in 1..k
            BY <1>3, <1>4
        <3>2. c[j + 1] = [key |-> "AES", text |-> c[j + 1].text, size |-> 16]
            BY <1>1, <3>1 DEF AESBlocks, Block
        <3> QED
            BY <3>2
    <2>3. b \o <<x>> # <<>> /\ j + 1 \in DOMAIN (b \o <<x>>) /\ (b \o <<x>>)[j + 1] = x
        <3>1. x \in C /\ j \in Nat
            BY <1>4
        <3> HIDE DEF C, b, x
        <3>2. <<x>> \in Seq(C)
            BY <3>1
        <3> QED
            BY <1>5, <3>1, <3>2
    <2>4. ~AllWhole(b \o <<x>>, "AES", AesBlock)
        <3> HIDE DEF b, x
        <3> QED
            BY <1>4, <2>2, <2>3 DEF AllWhole, IsWhole, AesBlock
    <2> QED
        BY <1>2, <2>1, <2>4 DEF DecryptAES
<1>8. FirstBytes(c, n) = b /\ j \in 1..(k - 1) /\ j \in Nat /\ k - 1 \in Nat
    <2>1. b \o <<>> = b
        <3> HIDE DEF b, C
        <3> QED
            BY <1>5
    <2>2. FirstBytes(c, n) = b
        BY <1>6, <1>7, <2>1
    <2>3. n = 16 * j + 0
        BY <1>4, <1>7
    <2>4. n >= 1 /\ k - 1 \in Nat /\ j \in 0..(k - 1)
        BY <1>1, <1>3, <1>4
    <2>5. j \in 1..(k - 1)
        BY <2>3, <2>4
    <2> QED
        BY <2>2, <2>4, <2>5
<1>9. Texts(b) = SubSeq(text, 1, 16 * j)
    <2>1. DOMAIN b = 1..j /\ j \in 1..k /\ j # k
        <3> HIDE DEF b, C
        <3> QED
            BY <1>3, <1>5, <1>8
    <2>2. Texts(b) = SubSeq(text, 1, IF j = k THEN Len(text) ELSE 16 * j)
        <3> HIDE DEF b, C
        <3> QED
            BY <1>1, <1>5, <2>1, AESTexts
    <2> QED
        BY <2>1, <2>2
<1>10. ~(Len(Last(b).text) < AesBlock)
    <2>1. Last(b) = c[j] /\ j \in 1..k /\ j # k
        <3> HIDE DEF b, C
        <3> QED
            BY <1>3, <1>5, <1>8 DEF Last
    <2> QED
        BY <1>3, <2>1 DEF AesBlock
<1> HIDE DEF b, C, x
<1>11. PICK m \in 1..15 : out = SubSeq(Texts(b), 1, Len(Texts(b)) - m)
    <2>1. out \in {SubSeq(Texts(b), 1, Len(Texts(b)) - m) : m \in 1..15}
        <3>1. out \in DecryptAES(b)
            BY <1>2, <1>8
        <3>2. out \in {SubSeq(Texts(b), 1, Len(Texts(b)) - m) : m \in 1..(AesBlock - 1)}
            BY <1>10, <3>1, Zenon DEF DecryptAES
        <3>3. AesBlock - 1 = 15
            BY DEF AesBlock
        <3> QED
            BY <3>2, <3>3
    <2> QED
        BY <2>1
<1>12. 16 * j \in 0..Len(text) /\ 16 * j >= 16
    BY <1>3, <1>8
<1>13. Texts(b) \in Seq(T) /\ Len(Texts(b)) = 16 * j /\ Texts(b)[1] = text[1]
    <2>1. /\ SubSeq(text, 1, 16 * j) \in Seq(T) /\ Len(SubSeq(text, 1, 16 * j)) = 16 * j
        BY <1>12, CutInTwo
    <2>2. SubSeq(text, 1, 16 * j)[1] = text[1]
        <3>1. 1 \in 1..(16 * j - 1 + 1) /\ 16 * j \in Int /\ 1 \in Int /\ 1 + 1 - 1 = 1
            BY <1>8
        <3>2. \A i \in 1..(16 * j) : text[i] \in T
            BY <1>12
        <3> QED
            BY <3>1, <3>2
    <2> QED
        BY <1>9, <2>1, <2>2
<1> HIDE DEF k, c, j, b
<1> DEFINE t == Texts(b)
<1>14. Len(t) - m \in 1..Len(t) /\ \A i \in 1..(Len(t) - m) : t[i] \in T
    BY <1>12, <1>13
<1> HIDE DEF t
<1> QED
    BY <1>11, <1>13, <1>14 DEF t

-----------------------------------------------------------------------------
(* RSA: parts of 53 bytes, a block for each *)

\* The parts that the loops over a text cut out give the text together.
LEMMA PartsOfText ==
    ASSUME NEW T, NEW text \in Seq(T), text # <<>>,
           NEW k, k = (Len(text) + 53 - 1) \div 53, NEW parts, parts = Parts(text, 53, 53)
    PROVE  /\ k \in Nat \ {0} /\ 53 * (k - 1) < Len(text) /\ Len(text) <= 53 * k
           /\ parts \in Seq(Seq(T)) /\ Len(parts) = k /\ DOMAIN parts = 1..k
           /\ FlattenSeq(parts) = text
<1> DEFINE e == [i \in 0..k |-> IF i = k THEN Len(text) ELSE 53 * i]
<1>1. Len(text) \in Nat \ {0} /\ \A i \in 1..Len(text) : text[i] \in T
    BY EmptySeq
<1>2. k \in Nat \ {0} /\ 53 * (k - 1) < Len(text) /\ Len(text) <= 53 * k
    BY <1>1
<1>3. ASSUME NEW i \in 0..k
      PROVE  (IF i = k THEN Len(text) ELSE 53 * i) \in 0..Len(text)
    <2>1. i # k => 53 * i <= Len(text) /\ 53 * i \in Nat
        BY <1>1, <1>2
    <2> QED
        BY <1>1, <2>1
<1>4. e \in [0..k -> 0..Len(text)] /\ e[0] = 0
    BY <1>2, <1>3
<1>5. ASSUME NEW i \in 1..k
      PROVE  /\ e[i - 1] = 53 * (i - 1) /\ e[i] = (IF i = k THEN Len(text) ELSE 53 * i)
             /\ e[i - 1] <= e[i] /\ e[i] \in 0..Len(text)
    <2>1. i \in 0..k /\ i - 1 \in 0..k /\ i - 1 # k
        BY <1>2
    <2>2. e[i - 1] = 53 * (i - 1) /\ e[i] = IF i = k THEN Len(text) ELSE 53 * i
        BY <2>1
    <2>3. 53 * (i - 1) <= IF i = k THEN Len(text) ELSE 53 * i
        BY <1>1, <1>2
    <2>4. e[i] \in 0..Len(text)
        BY <1>3, <2>1, <2>2
    <2> HIDE DEF e
    <2> QED
        BY <2>2, <2>3, <2>4
<1> HIDE DEF e
<1>6. DOMAIN parts = 1..k /\ Len(parts) = k
    BY <1>2 DEF Parts
<1>7. ASSUME NEW i \in 1..k
      PROVE  parts[i] = SubSeq(text, e[i - 1] + 1, e[i]) /\ parts[i] \in Seq(T)
    <2> DEFINE last == IF i * 53 < Len(text) THEN (i - 1) * 53 + 53 ELSE Len(text) - (i - 1) * 53 + (i - 1) * 53
    <2>1. parts[i] = SubSeq(text, (i - 1) * 53 + 1, last)
        BY <1>6 DEF Parts
    <2>2. last = IF i = k THEN Len(text) ELSE 53 * i
        <3>1. CASE i = k
            <4>1. ~(i * 53 < Len(text))
                BY <1>1, <1>2, <3>1
            <4>2. Len(text) - (i - 1) * 53 + (i - 1) * 53 = Len(text)
                BY <1>1
            <4> QED
                BY <3>1, <4>1, <4>2
        <3>2. CASE i # k
            <4>1. i * 53 <= Len(text)
                BY <1>1, <1>2, <3>2
            <4>2. (i - 1) * 53 + 53 = 53 * i /\ Len(text) - (i - 1) * 53 + (i - 1) * 53 = Len(text) /\ i * 53 = 53 * i
                BY <1>1
            <4>3. Len(text) \in Nat /\ i * 53 \in Nat
                BY <1>1
            <4>4. i * 53 < Len(text) \/ i * 53 = Len(text)
                BY <4>1, <4>3
            <4> QED
                BY <3>2, <4>2, <4>4
        <3> QED
            BY <3>1, <3>2
    <2>3. (i - 1) * 53 + 1 = e[i - 1] + 1 /\ last = e[i]
        BY <1>5, <2>2
    <2>4. parts[i] = SubSeq(text, e[i - 1] + 1, e[i])
        <3> HIDE DEF last
        <3> QED
            BY <2>1, <2>3
    <2>5. e[i - 1] + 1 \in Int /\ e[i] \in Int /\ \A j \in (e[i - 1] + 1)..e[i] : text[j] \in T
        <3>1. e[i - 1] \in Nat /\ e[i] \in 0..Len(text)
            BY <1>2, <1>5
        <3> QED
            BY <1>1, <3>1
    <2>6. SubSeq(text, e[i - 1] + 1, e[i]) \in Seq(T)
        BY <2>5, SubSeqProperties
    <2> QED
        BY <2>4, <2>6
<1>8. parts \in Seq(Seq(T))
    <2>1. parts = [i \in 1..k |-> parts[i]]
        BY <1>2 DEF Parts
    <2>2. k \in Nat /\ \A i \in 1..k : parts[i] \in Seq(T)
        BY <1>2, <1>7
    <2> QED
        BY <2>1, <2>2
<1>9. FlattenSeq(parts) = SubSeq(text, 1, e[k])
    <2>1. \A i \in 1..k : e[i - 1] <= e[i]
        BY <1>5
    <2>2. \A i \in 1..k : parts[i] = SubSeq(text, e[i - 1] + 1, e[i])
        BY <1>7
    <2>3. k \in Nat \ {0}
        BY <1>2
    <2>4. e \in [0..k -> 0..Len(text)]
        BY <1>4
    <2>5. e[0] = 0
        BY <1>4
    <2>6. parts \in Seq(Seq(T)) /\ Len(parts) = k
        BY <1>6, <1>8
    <2> QED
        BY <2>1, <2>2, <2>3, <2>4, <2>5, <2>6, FlattenCuts, ZenonT(30)
<1>10. e[k] = Len(text)
    BY <1>2, <1>5
<1> QED
    BY <1>2, <1>6, <1>8, <1>9, <1>10, SubSeqFull

\* CipherModule cuts a text for the server's key into parts of 53 bytes and sends slots of 128;
\* the server's loop over the slots puts the same text together, whatever the number of parts.
THEOREM RSARoundTrip ==
    ASSUME NEW T, NEW text \in Seq(T), text # <<>>
    PROVE  DecryptRSA(JavaEncryptRSA(text)) = {text}
<1> DEFINE parts == Parts(text, 53, 53)
           k == (Len(text) + 53 - 1) \div 53
           b == JavaEncryptRSA(text)
<1>1. parts \in Seq(Seq(T)) /\ Len(parts) = k /\ DOMAIN parts = 1..k /\ FlattenSeq(parts) = text
    BY PartsOfText
<1>2. b = [i \in DOMAIN parts |-> Block("ServerRSA", parts[i], 128)]
    BY DEF JavaEncryptRSA
<1> HIDE DEF b, parts, k
<1>3. DOMAIN b = 1..k /\ \A i \in 1..k : b[i].key = "ServerRSA" /\ b[i].size = 128 /\ b[i].text = parts[i]
    BY <1>1, <1>2, BlockSays
<1>4. \A i \in DOMAIN b : RSAOpens(b[i])
    BY <1>3 DEF RSAOpens, IsWhole, ServerBlock
<1>5. Texts(b) = text
    <2>1. [i \in DOMAIN b |-> b[i].text] = [i \in 1..k |-> parts[i]]
        BY <1>3
    <2>2. [i \in 1..k |-> parts[i]] = parts
        BY <1>1
    <2> QED
        BY <1>1, <2>1, <2>2 DEF Texts
<1> QED
    BY <1>4, <1>5 DEF DecryptRSA, b

\* A text that fits into one block of the client's key is one block.
LEMMA ShortRSA ==
    ASSUME NEW T, NEW text \in Seq(T), text # <<>>, Len(text) <= 53
    PROVE  EncryptRSA(text) = <<Block("OuterRSA", text, 64)>>
<1> DEFINE parts == Parts(text, 53, 53)
           k == (Len(text) + 53 - 1) \div 53
<1>1. parts \in Seq(Seq(T)) /\ Len(parts) = k /\ DOMAIN parts = 1..k /\ FlattenSeq(parts) = text
    BY PartsOfText
<1>2. Len(text) \in Nat \ {0}
    BY EmptySeq
<1>3. k = 1
    BY <1>2
<1>4. EncryptRSA(text) = [i \in DOMAIN parts |-> RSABlock(parts[i])]
    BY DEF EncryptRSA, MaxPlainTextLength, ClientBlock, Overhead
<1> HIDE DEF parts, k
<1>5. parts = <<parts[1]>> /\ parts[1] \in Seq(T)
    <2>1. parts[1] \in Seq(T) /\ Len(parts) = 1
        <3>1. Len(parts) = 1 /\ 1 \in 1..1
            BY <1>1, <1>3
        <3>2. 1 \in 1..Len(parts)
            BY <3>1
        <3>3. parts[1] \in Seq(T)
            BY <1>1, <3>2, ElementOfSeq, Zenon
        <3> QED
            BY <3>1, <3>3
    <2> QED
        BY <1>1, <2>1
<1>6. parts[1] = text
    <2>1. <<>> \in Seq(Seq(T)) /\ parts = Append(<<>>, parts[1]) /\ <<>> \o parts[1] = parts[1]
        BY <1>5
    <2> QED
        BY <1>1, <1>5, <2>1, FlattenLast, FlattenNone
<1>7. EncryptRSA(text) = [i \in 1..1 |-> RSABlock(text)]
    BY <1>1, <1>3, <1>4, <1>6
<1> QED
    BY <1>7 DEF RSABlock, ClientBlock

-----------------------------------------------------------------------------
(* Packets and their bytes *)

\* The text that the sender makes of a packet.
PlainText(p) ==
    IF p.from = "server" THEN <<TypeByte(Code[p.type])>> \o ServerBytes(p)
                         ELSE <<TypeByte(JavaCode(p.type))>> \o JavaBytes(p)

\* The types by name.
LEMMA TypeNames ==
    PacketTypes = {"OPEN", "CLOSE", "ACK_OK", "ACK_ERR", "ALIVE", "OPEN_ENCR", "PUBLIC_KEY",
                   "SYMMETRIC_KEY", "TEST_KEY", "OPEN_PROT", "SET_NAME", "ADD_FOLLOWER", "NEW_FOLLOWED",
                   "REMOVE_FOLLOWER", "REMOVE_FOLLOWED", "MY_LOCATION", "LOCATION"}
BY DEF PacketTypes, Code

\* The codes of the server's enum.
LEMMA Codes ==
    /\ Code["OPEN"] = 0 /\ Code["CLOSE"] = 1 /\ Code["ACK_OK"] = 2 /\ Code["ACK_ERR"] = 3
    /\ Code["ALIVE"] = 4 /\ Code["OPEN_ENCR"] = 8 /\ Code["PUBLIC_KEY"] = 9
    /\ Code["SYMMETRIC_KEY"] = 10 /\ Code["TEST_KEY"] = 11 /\ Code["OPEN_PROT"] = 16
    /\ Code["SET_NAME"] = 17 /\ Code["ADD_FOLLOWER"] = 18 /\ Code["NEW_FOLLOWED"] = 19
    /\ Code["REMOVE_FOLLOWER"] = 20 /\ Code["REMOVE_FOLLOWED"] = 21
    /\ Code["MY_LOCATION"] = 22 /\ Code["LOCATION"] = 23
BY DEF Code

\* The codes of the client's map.
LEMMA JavaCodes ==
    /\ JavaCode("OPEN") = 0 /\ JavaCode("CLOSE") = 1 /\ JavaCode("ACK_OK") = 2 /\ JavaCode("ACK_ERR") = 3
    /\ JavaCode("ALIVE") = 4 /\ JavaCode("OPEN_ENCR") = 8 /\ JavaCode("PUBLIC_KEY") = 9
    /\ JavaCode("SYMMETRIC_KEY") = 10 /\ JavaCode("TEST_KEY") = 11 /\ JavaCode("OPEN_PROT") = 16
    /\ JavaCode("SET_NAME") = 17 /\ JavaCode("ADD_FOLLOWER") = 18 /\ JavaCode("NEW_FOLLOWED") = 19
    /\ JavaCode("REMOVE_FOLLOWER") = 20 /\ JavaCode("REMOVE_FOLLOWED") = 21
    /\ JavaCode("MY_LOCATION") = 22 /\ JavaCode("LOCATION") = 23
BY DEF JavaCode

\* The enum of the server and the map of the client, written twice, have the same code for
\* every type, and no two types share one: a packet is taken for what it was sent as.
THEOREM CodesAgree ==
    \A type \in PacketTypes :
        /\ JavaCode(type) = Code[type] /\ Code[type] \in Nat
        /\ TypeOf(Code[type]) = type /\ JavaTypeOf(Code[type]) = type
<1>1. \A type \in PacketTypes : JavaCode(type) = Code[type] /\ Code[type] \in Nat
    BY TypeNames, Codes, JavaCodes
<1>2. \A a, b \in PacketTypes : Code[a] = Code[b] => a = b
    BY TypeNames, Codes
<1> QED
    BY <1>1, <1>2 DEF TypeOf, JavaTypeOf

\* What every packet that is sent says of itself.
LEMMA PacketSays ==
    ASSUME NEW p \in Packets
    PROVE  /\ p.from \in {"server", "client"} /\ p.type \in PacketTypes
           /\ p.key = KeyOf(p.from, p.type) /\ p.key # "unsent"
           /\ \E c \in Contents(p.type) : p.fields = c.fields /\ p.chars = c.chars
<1>1. PICK from \in {"server", "client"}, type \in PacketTypes : p \in PacketsOf(from, type)
    BY DEF Packets
<1>2. PICK c \in IF KeyOf(from, type) = "unsent" THEN {} ELSE Contents(type) :
         p = [from |-> from, type |-> type, key |-> KeyOf(from, type), fields |-> c.fields, chars |-> c.chars]
    BY <1>1 DEF PacketsOf
<1>3. KeyOf(from, type) # "unsent" /\ c \in Contents(type)
    BY <1>2
<1> QED
    BY <1>2, <1>3

\* A field of n bytes.
LEMMA FieldTyped ==
    ASSUME NEW n \in Nat, NEW name \in FieldNames
    PROVE  Field(name, n) \in Seq(Byte) /\ Len(Field(name, n)) = n /\ DOMAIN Field(name, n) = 1..n
<1>1. \A i \in 1..n : <<name, i>> \in Byte
    BY DEF Byte
<1> HIDE DEF Byte
<1>2. Field(name, n) = [i \in 1..n |-> <<name, i>>]
    BY DEF Field
<1>3. Field(name, n) \in [1..n -> Byte]
    BY <1>1, <1>2
<1> QED
    BY <1>3

\* A name is one more field, behind the others.
LEMMA NamesTyped ==
    ASSUME NEW before, NEW c \in NamesAfter(before)
    PROVE  /\ c.chars \in Nat
           /\ \E name \in Seq(Byte) : c.fields = Append(before, name)
<1>1. PICK n \in NameLengths, w \in Wide : c = Named(before, n, w)
    BY DEF NamesAfter
<1>2. n \in Nat /\ n + w \in Nat
    BY LengthsAssumption
<1>3. Field("name", n + w) \in Seq(Byte)
    <2>1. "name" \in FieldNames
        BY DEF FieldNames
    <2> QED
        BY <1>2, <2>1, FieldTyped
<1> QED
    BY <1>1, <1>2, <1>3 DEF Named

\* The fixed fields by type.
LEMMA FixedFieldsAre ==
    /\ FixedFields("PUBLIC_KEY") = <<Field("key", 94)>>
    /\ FixedFields("SYMMETRIC_KEY") = <<Field("key", 16)>>
    /\ FixedFields("TEST_KEY") = <<Field("key", 16)>>
    /\ FixedFields("NEW_FOLLOWED") = <<Field("id", 2)>>
    /\ FixedFields("MY_LOCATION") =
            <<Field("latitude", 4), Field("longitude", 4), Field("deltaTime", 8)>>
    /\ FixedFields("LOCATION") =
            <<Field("id", 2), Field("latitude", 4), Field("longitude", 4), Field("time", 8)>>
    /\ \A type \in PacketTypes : type \notin KeyTypes \cup Disagreed => FixedFields(type) = <<>>
<1> HIDE DEF Field
<1>1. FixedFields("PUBLIC_KEY") = <<Field("key", 94)>>
    BY DEF FixedFields
<1>2. FixedFields("SYMMETRIC_KEY") = <<Field("key", 16)>> /\ FixedFields("TEST_KEY") = <<Field("key", 16)>>
    BY DEF FixedFields
<1>3. FixedFields("NEW_FOLLOWED") = <<Field("id", 2)>>
    BY DEF FixedFields
<1>4. FixedFields("MY_LOCATION") = <<Field("latitude", 4), Field("longitude", 4), Field("deltaTime", 8)>>
    BY DEF FixedFields
<1>5. FixedFields("LOCATION") =
        <<Field("id", 2), Field("latitude", 4), Field("longitude", 4), Field("time", 8)>>
    BY DEF FixedFields
<1>6. \A type \in PacketTypes : type \notin KeyTypes \cup Disagreed => FixedFields(type) = <<>>
    BY DEF FixedFields, KeyTypes, Disagreed
<1> QED
    BY <1>1, <1>2, <1>3, <1>4, <1>5, <1>6

\* The fields of a packet: the fixed ones, and for some types a name.
HasName(type) == type \in NameTypes \cup {"NEW_FOLLOWED"}

LEMMA FieldsSay ==
    ASSUME NEW p \in Packets
    PROVE  IF HasName(p.type)
           THEN p.chars \in Nat /\ \E f \in Seq(Byte) : p.fields = Append(FixedFields(p.type), f)
           ELSE p.fields = FixedFields(p.type)
<1>1. PICK c \in Contents(p.type) : p.fields = c.fields /\ p.chars = c.chars
    BY PacketSays
<1>2. CASE HasName(p.type)
    <2>1. c \in NamesAfter(FixedFields(p.type))
        BY <1>1, <1>2 DEF Contents, HasName
    <2> QED
        BY <1>1, <1>2, <2>1, NamesTyped
<1>3. CASE ~HasName(p.type)
    <2>1. c = [fields |-> FixedFields(p.type), chars |-> 0]
        BY <1>1, <1>3 DEF Contents, HasName
    <2> QED
        BY <1>1, <1>3, <2>1
<1> QED
    BY <1>2, <1>3

\* A packet of one field.
LEMMA FlattenOne ==
    ASSUME NEW T, NEW a \in Seq(T)
    PROVE  FlattenSeq(<<a>>) = a
<1>1. <<>> \in Seq(Seq(T)) /\ Append(<<>>, a) = <<a>> /\ <<>> \o a = a
    OBVIOUS
<1> QED
    BY <1>1, FlattenLast, FlattenNone

\* A packet of four fields, such as LOCATION.
LEMMA FlattenFour ==
    ASSUME NEW a \in Seq(Byte), NEW b \in Seq(Byte), NEW c \in Seq(Byte), NEW d \in Seq(Byte),
           NEW s, s = <<a, b, c, d>>
    PROVE  FlattenSeq(s) = ((a \o b) \o c) \o d
<1>1. /\ <<a>> \in Seq(Seq(Byte)) /\ <<a, b>> \in Seq(Seq(Byte)) /\ <<a, b, c>> \in Seq(Seq(Byte))
      /\ <<a, b>> = Append(<<a>>, b) /\ <<a, b, c>> = Append(<<a, b>>, c)
      /\ <<a, b, c, d>> = Append(<<a, b, c>>, d)
    OBVIOUS
<1>2. FlattenSeq(<<a>>) = a
    BY FlattenOne
<1>3. FlattenSeq(<<a, b>>) = FlattenSeq(<<a>>) \o b
    BY <1>1, FlattenLast
<1>4. FlattenSeq(<<a, b, c>>) = FlattenSeq(<<a, b>>) \o c
    BY <1>1, FlattenLast
<1>5. FlattenSeq(<<a, b, c, d>>) = FlattenSeq(<<a, b, c>>) \o d
    BY <1>1, FlattenLast
<1> QED
    BY <1>2, <1>3, <1>4, <1>5

\* What each side sends under which key.
LEMMA SentTypes ==
    /\ \A type : ServerKey(type) # "unsent" =>
        type \in {"OPEN_ENCR", "SYMMETRIC_KEY", "TEST_KEY", "OPEN_PROT", "ACK_OK", "ACK_ERR",
                  "NEW_FOLLOWED", "LOCATION"}
    /\ \A type : ServerKey(type) = "None" => type = "OPEN_ENCR"
    /\ \A type : ServerKey(type) = "OuterRSA" => type = "SYMMETRIC_KEY"
    /\ \A type : ServerKey(type) \in {"None", "OuterRSA", "AES", "unsent"}
    /\ \A type : ClientKey(type) # "unsent" =>
        type \in {"PUBLIC_KEY", "SYMMETRIC_KEY", "TEST_KEY", "CLOSE", "ACK_OK", "MY_LOCATION"} \cup NameTypes
    /\ \A type : ClientKey(type) = "ServerRSA" => type \in {"PUBLIC_KEY", "SYMMETRIC_KEY"}
    /\ \A type : ClientKey(type) \in {"ServerRSA", "AES", "unsent"}
BY DEF ServerKey, ClientKey

\* The type is a byte.
LEMMA TypeByteTyped ==
    ASSUME NEW type \in PacketTypes
    PROVE  TypeByte(Code[type]) \in Byte
BY CodesAgree DEF TypeByte, Byte, FieldNames

\* What stands behind the type in the bytes of a packet.
Follows(rest, p) == PlainText(p) = <<TypeByte(Code[p.type])>> \o rest

\* The length of a key: the client's public one, or one of AES.
KeyLength(type) == IF type = "PUBLIC_KEY" THEN 94 ELSE 16

\* The only field, or none.
LEMMA SimpleText ==
    ASSUME NEW p \in Packets, p.type \notin Disagreed
    PROVE  \E f \in Seq(Byte) :
            /\ Follows(f, p)
            /\ p.type \notin KeyTypes \cup NameTypes => f = <<>> /\ p.fields = <<>>
            /\ p.type \in KeyTypes \cup NameTypes => p.fields = <<f>>
            /\ p.type \in KeyTypes => Len(f) = KeyLength(p.type)
<1>1. p.type \in PacketTypes /\ p.type # "NEW_FOLLOWED" /\ p.type # "MY_LOCATION"
    BY PacketSays DEF Disagreed
<1>2. JavaCode(p.type) = Code[p.type]
    BY <1>1, CodesAgree
<1>3. PlainText(p) = <<TypeByte(Code[p.type])>> \o FlattenSeq(p.fields)
    BY <1>1, <1>2, Zenon DEF PlainText, ServerBytes, JavaBytes
<1>4. CASE p.type \notin KeyTypes \cup NameTypes
    <2>1. p.fields = <<>>
        <3>1. ~HasName(p.type)
            BY <1>1, <1>4 DEF HasName
        <3>2. FixedFields(p.type) = <<>>
            BY <1>1, <1>4, FixedFieldsAre
        <3> QED
            BY <3>1, <3>2, FieldsSay
    <2>2. Follows(<<>>, p)
        BY <1>3, <2>1, FlattenNone, Zenon DEF Follows
    <2>3. <<>> \in Seq(Byte)
        OBVIOUS
    <2> QED
        BY <1>4, <2>1, <2>2, <2>3, Zenon
<1>5. CASE p.type \in KeyTypes
    <2> DEFINE n == KeyLength(p.type)
    <2>1. ~HasName(p.type)
        BY <1>5 DEF HasName, KeyTypes, NameTypes
    <2>2. FixedFields(p.type) = <<Field("key", n)>>
        BY <1>5, FixedFieldsAre DEF KeyTypes, KeyLength
    <2>3. p.fields = <<Field("key", n)>>
        BY <2>1, <2>2, FieldsSay
    <2>4. Field("key", n) \in Seq(Byte) /\ Len(Field("key", n)) = n
        <3>1. n \in Nat /\ "key" \in FieldNames
            BY DEF FieldNames, KeyLength
        <3> QED
            BY <3>1, FieldTyped
    <2>5. FlattenSeq(p.fields) = Field("key", n)
        BY <2>3, <2>4, FlattenOne
    <2>6. Follows(Field("key", n), p)
        BY <1>3, <2>5 DEF Follows
    <2> HIDE DEF n
    <2> QED
        BY <1>5, <2>3, <2>4, <2>6, Zenon DEF n
<1>6. CASE p.type \in NameTypes
    <2>1. p.type \notin KeyTypes \cup Disagreed /\ HasName(p.type)
        BY <1>6 DEF HasName, KeyTypes, NameTypes, Disagreed
    <2>2. FixedFields(p.type) = <<>>
        BY <1>1, <2>1, FixedFieldsAre
    <2>3. PICK f \in Seq(Byte) : p.fields = Append(<<>>, f)
        BY <2>1, <2>2, FieldsSay
    <2>4. p.fields = <<f>>
        BY <2>3
    <2>5. FlattenSeq(p.fields) = f
        BY <2>4, FlattenOne
    <2>6. Follows(f, p)
        BY <1>3, <2>5, Zenon DEF Follows
    <2> QED
        BY <1>6, <2>1, <2>4, <2>6, Zenon
<1> QED
    BY <1>4, <1>5, <1>6

\* Texts of a length.
OfLength(n) == {a \in Seq(Byte) : Len(a) = n}

\* Lengths add up.
LEMMA Joined ==
    ASSUME NEW m \in Nat, NEW n \in Nat, NEW a \in OfLength(m), NEW b \in OfLength(n)
    PROVE  a \o b \in OfLength(m + n)
BY ConcatTyped DEF OfLength

\* The two lengths of what the server sends besides a key.
LEMMA LengthIs ==
    ASSUME NEW n \in {18, 34}, NEW a \in OfLength(n)
    PROVE  a \in Seq(Byte) /\ Len(a) \in {18, 34}
BY DEF OfLength

\* A field as a text of its length.
LEMMA FieldOfLength ==
    \A n \in Nat : \A name \in FieldNames : Field(name, n) \in OfLength(n)
BY FieldTyped DEF OfLength

\* to_bytes of a std::string gives 32 bytes whatever the name.
LEMMA StringObjectTyped ==
    ASSUME NEW name \in Seq(Byte)
    PROVE  StringObject(name) \in OfLength(32)
<1>1. /\ "pointer" \in FieldNames /\ "length" \in FieldNames /\ "capacity" \in FieldNames
      /\ "unused" \in FieldNames
    BY DEF FieldNames
<1>2. /\ Field("pointer", 8) \in OfLength(8) /\ Field("length", 8) \in OfLength(8)
      /\ Field("capacity", 8) \in OfLength(8) /\ \A n \in Nat : Field("unused", n) \in OfLength(n)
    <2>1. 8 \in Nat
        OBVIOUS
    <2> QED
        BY <1>1, <2>1, FieldOfLength, Zenon
<1> DEFINE rest == IF Len(name) < 16 THEN name \o Field("unused", 16 - Len(name))
                                     ELSE Field("capacity", 8) \o Field("unused", 8)
<1>3. rest \in OfLength(16)
    <2>1. CASE Len(name) < 16
        <3>1. Len(name) \in Nat /\ 16 - Len(name) \in Nat /\ Len(name) + (16 - Len(name)) = 16
            BY <2>1
        <3>2. name \in OfLength(Len(name))
            BY DEF OfLength
        <3>3. name \o Field("unused", 16 - Len(name)) \in OfLength(Len(name) + (16 - Len(name)))
            BY <1>2, <3>1, <3>2, Joined, Zenon
        <3>4. rest = name \o Field("unused", 16 - Len(name))
            BY <2>1
        <3> HIDE DEF rest
        <3> QED
            BY <3>1, <3>3, <3>4, Zenon
    <2>2. CASE ~(Len(name) < 16)
        <3>1. 8 \in Nat /\ 8 + 8 = 16
            OBVIOUS
        <3>2. Field("capacity", 8) \o Field("unused", 8) \in OfLength(8 + 8)
            BY <1>2, <3>1, Joined, Zenon
        <3>3. rest = Field("capacity", 8) \o Field("unused", 8)
            BY <2>2
        <3> HIDE DEF rest
        <3> QED
            BY <3>1, <3>2, <3>3, Zenon
    <2> QED
        BY <2>1, <2>2
<1>4. StringObject(name) = (Field("pointer", 8) \o Field("length", 8)) \o rest
    BY DEF StringObject
<1> HIDE DEF rest
<1>5. 8 \in Nat /\ 16 \in Nat /\ 8 + 8 = 16 /\ 16 + 16 = 32
    OBVIOUS
<1>6. Field("pointer", 8) \o Field("length", 8) \in OfLength(8 + 8)
    BY <1>2, <1>5, Joined, Zenon
<1>7. (Field("pointer", 8) \o Field("length", 8)) \o rest \in OfLength(16 + 16)
    BY <1>3, <1>5, <1>6, Joined, Zenon
<1> QED
    BY <1>4, <1>5, <1>7, Zenon

\* The bytes that the two sides lay out differently.
LEMMA DisagreedText ==
    ASSUME NEW p \in Packets, p.type \in Disagreed
    PROVE  /\ \E rest \in Seq(Byte) : /\ Follows(rest, p)
                                      /\ p.from = "server" => Len(rest) \in {18, 34}
           /\ p.type = "MY_LOCATION" => p.from = "client"
           /\ p.type # "MY_LOCATION" => p.from = "server"
<1>1. p.type \in PacketTypes /\ JavaCode(p.type) = Code[p.type] /\ p.from \in {"server", "client"}
    BY PacketSays, CodesAgree
<1>2. KeyOf(p.from, p.type) # "unsent"
    BY PacketSays
<1>3. p.type \in {"NEW_FOLLOWED", "MY_LOCATION", "LOCATION"} /\ p.type \notin NameTypes
    BY DEF Disagreed, NameTypes
<1>4. p.from = IF p.type = "MY_LOCATION" THEN "client" ELSE "server"
    <2>1. CASE p.from = "server"
        <3>1. ServerKey(p.type) # "unsent"
            BY <1>2, <2>1 DEF KeyOf
        <3>2. p.type # "MY_LOCATION"
            BY <3>1, SentTypes
        <3> QED
            BY <2>1, <3>2
    <2>2. CASE p.from = "client"
        <3>1. ClientKey(p.type) # "unsent"
            BY <1>2, <2>2 DEF KeyOf
        <3>2. p.type = "MY_LOCATION"
            BY <1>3, <3>1, SentTypes
        <3> QED
            BY <2>2, <3>2
    <2> QED
        BY <1>1, <2>1, <2>2
<1>5. /\ Field("id", 2) \in OfLength(2) /\ Field("latitude", 4) \in OfLength(4)
      /\ Field("longitude", 4) \in OfLength(4) /\ Field("time", 8) \in OfLength(8)
      /\ Field("deltaTime", 8) \in OfLength(8)
    <2>1. 2 \in Nat /\ 4 \in Nat /\ 8 \in Nat
        OBVIOUS
    <2>2. {"id", "latitude", "longitude", "time", "deltaTime"} \subseteq FieldNames
        BY DEF FieldNames
    <2>3. /\ "id" \in FieldNames /\ "latitude" \in FieldNames /\ "longitude" \in FieldNames
          /\ "time" \in FieldNames /\ "deltaTime" \in FieldNames
        BY <2>2
    <2> QED
        BY <2>1, <2>3, FieldOfLength, Zenon
<1>6. CASE p.type = "NEW_FOLLOWED"
    <2>1. HasName(p.type)
        BY <1>6 DEF HasName
    <2>2. FixedFields(p.type) = <<Field("id", 2)>>
        BY <1>6, FixedFieldsAre
    <2>3. PICK f \in Seq(Byte) : p.fields = Append(<<Field("id", 2)>>, f)
        BY <2>1, <2>2, FieldsSay
    <2>4. p.fields[1] = Field("id", 2) /\ p.fields[2] = f
        BY <2>3
    <2>5. PlainText(p) = <<TypeByte(Code[p.type])>> \o (Field("id", 2) \o StringObject(f))
        BY <1>4, <1>6, <2>4 DEF PlainText, ServerBytes
    <2>6. 2 \in Nat /\ 32 \in Nat /\ 2 + 32 = 34
        OBVIOUS
    <2>7. Field("id", 2) \o StringObject(f) \in OfLength(2 + 32)
        BY <1>5, <2>6, StringObjectTyped, Joined, Zenon
    <2>8. Field("id", 2) \o StringObject(f) \in Seq(Byte) /\ Len(Field("id", 2) \o StringObject(f)) \in {18, 34}
        <3>1. 2 + 32 \in {18, 34}
            OBVIOUS
        <3> QED
            BY <2>7, <3>1, LengthIs, Zenon
    <2>9. Follows(Field("id", 2) \o StringObject(f), p)
        BY <2>5, Zenon DEF Follows
    <2> QED
        BY <1>4, <1>6, <2>8, <2>9
<1>7. CASE p.type = "LOCATION"
    <2> DEFINE a == Field("id", 2)
               b == Field("latitude", 4)
               c == Field("longitude", 4)
               d == Field("time", 8)
    <2>1. p.fields = <<a, b, c, d>>
        <3>1. ~HasName(p.type)
            BY <1>7 DEF HasName, NameTypes
        <3> QED
            BY <1>7, <3>1, FieldsSay, FixedFieldsAre
    <2>2. a \in OfLength(2) /\ b \in OfLength(4) /\ c \in OfLength(4) /\ d \in OfLength(8)
        BY <1>5
    <2> HIDE DEF a, b, c, d
    <2>3. a \in Seq(Byte) /\ b \in Seq(Byte) /\ c \in Seq(Byte) /\ d \in Seq(Byte)
        BY <2>2 DEF OfLength
    <2>4. FlattenSeq(p.fields) = ((a \o b) \o c) \o d
        BY <2>1, <2>3, FlattenFour
    <2>5. 2 \in Nat /\ 4 \in Nat /\ 8 \in Nat /\ 2 + 4 \in Nat /\ (2 + 4) + 4 \in Nat /\ ((2 + 4) + 4) + 8 = 18
        OBVIOUS
    <2>6. a \o b \in OfLength(2 + 4)
        BY <2>2, <2>5, Joined, Zenon
    <2>7. (a \o b) \o c \in OfLength((2 + 4) + 4)
        BY <2>2, <2>5, <2>6, Joined, Zenon
    <2>8. ((a \o b) \o c) \o d \in OfLength(((2 + 4) + 4) + 8)
        BY <2>2, <2>5, <2>7, Joined, Zenon
    <2>9. FlattenSeq(p.fields) \in Seq(Byte) /\ Len(FlattenSeq(p.fields)) \in {18, 34}
        <3>1. ((2 + 4) + 4) + 8 \in {18, 34}
            OBVIOUS
        <3> QED
            BY <2>4, <2>8, <3>1, LengthIs, Zenon
    <2>10. PlainText(p) = <<TypeByte(Code[p.type])>> \o FlattenSeq(p.fields)
        BY <1>4, <1>7 DEF PlainText, ServerBytes
    <2>11. Follows(FlattenSeq(p.fields), p)
        BY <2>10, Zenon DEF Follows
    <2> QED
        BY <1>4, <1>7, <2>9, <2>11
<1>8. CASE p.type = "MY_LOCATION"
    <2> DEFINE a == Field("latitude", 4)
               b == Field("longitude", 4)
               c == Field("deltaTime", 8)
    <2>1. p.fields = <<a, b, c>>
        <3>1. ~HasName(p.type)
            BY <1>8 DEF HasName, NameTypes
        <3> QED
            BY <1>8, <3>1, FieldsSay, FixedFieldsAre
    <2>2. a \in OfLength(4) /\ b \in OfLength(4) /\ c \in OfLength(8)
        BY <1>5
    <2> HIDE DEF a, b, c
    <2>3. a \in Seq(Byte) /\ b \in Seq(Byte) /\ c \in Seq(Byte)
        BY <2>2 DEF OfLength
    <2>4. Gap(4) \in Seq(Byte)
        <3>1. Zero \in Byte
            BY DEF Zero, TypeByte, Byte, FieldNames
        <3> QED
            BY <3>1 DEF Gap
    <2>5. PlainText(p) = <<TypeByte(Code[p.type])>> \o (a \o Gap(4) \o b \o Gap(4) \o c)
        <3>1. p.fields[1] = a /\ p.fields[2] = b /\ p.fields[3] = c
            BY <2>1
        <3> QED
            BY <1>1, <1>4, <1>8, <3>1 DEF PlainText, JavaBytes
    <2>6. a \o Gap(4) \o b \o Gap(4) \o c \in Seq(Byte)
        BY <2>3, <2>4
    <2>7. Follows(a \o Gap(4) \o b \o Gap(4) \o c, p)
        BY <2>5, Zenon DEF Follows
    <2> QED
        BY <1>4, <1>8, <2>6, <2>7
<1> QED
    BY <1>3, <1>6, <1>7, <1>8

\* What stands behind the type, by the type of the packet.
LEMMA TextSays ==
    ASSUME NEW p \in Packets
    PROVE  /\ \E rest \in Seq(Byte) :
                /\ Follows(rest, p)
                /\ p.from = "server" => Len(rest) <= 34
                /\ p.from = "server" /\ p.type = "NEW_FOLLOWED" => Len(rest) >= 2
                /\ p.type \in KeyTypes => Len(rest) = KeyLength(p.type)
                /\ p.type \notin KeyTypes \cup NameTypes \cup Disagreed => rest = <<>> /\ p.fields = <<>>
                /\ p.type \in KeyTypes \cup NameTypes => p.fields = <<rest>>
           /\ p.type = "MY_LOCATION" => p.from = "client"
           /\ p.type \in NameTypes => p.from = "client"
<1>1. p.type \in PacketTypes /\ p.from \in {"server", "client"} /\ KeyOf(p.from, p.type) # "unsent"
    BY PacketSays
<1>2. p.from = "server" => p.type \notin NameTypes \cup {"PUBLIC_KEY", "MY_LOCATION"}
    <2>1. p.from = "server" => ServerKey(p.type) # "unsent"
        BY <1>1 DEF KeyOf
    <2> QED
        BY <2>1, SentTypes DEF NameTypes
<1>3. CASE p.type \in Disagreed
    <2>1. PICK rest \in Seq(Byte) : /\ Follows(rest, p)
                                    /\ p.from = "server" => Len(rest) \in {18, 34}
        BY <1>3, DisagreedText
    <2>2. p.type \notin KeyTypes \cup NameTypes
        BY <1>3 DEF Disagreed, KeyTypes, NameTypes
    <2>3. p.from = "server" => Len(rest) <= 34 /\ Len(rest) >= 2
        <3>1. \A n \in {18, 34} : n <= 34 /\ n >= 2
            OBVIOUS
        <3> QED
            BY <2>1, <3>1, Zenon
    <2> QED
        BY <1>1, <1>2, <1>3, <2>1, <2>2, <2>3, Zenon
<1>4. CASE p.type \notin Disagreed
    <2>1. PICK f \in Seq(Byte) :
            /\ Follows(f, p)
            /\ p.type \notin KeyTypes \cup NameTypes => f = <<>> /\ p.fields = <<>>
            /\ p.type \in KeyTypes \cup NameTypes => p.fields = <<f>>
            /\ p.type \in KeyTypes => Len(f) = KeyLength(p.type)
        BY <1>4, SimpleText
    <2>2. p.type # "NEW_FOLLOWED" /\ p.type # "MY_LOCATION"
        BY <1>4 DEF Disagreed
    <2>3. p.from = "server" => Len(f) <= 34
        <3>1. CASE p.from = "server" /\ p.type \in KeyTypes
            <4>1. Len(f) = 16
                BY <1>2, <2>1, <3>1 DEF KeyLength
            <4> QED
                BY <4>1
        <3>2. CASE p.from = "server" /\ p.type \notin KeyTypes
            <4>1. f = <<>>
                BY <1>2, <2>1, <3>2
            <4>2. Len(<<>>) = 0
                OBVIOUS
            <4> QED
                BY <4>1, <4>2
        <3> QED
            BY <3>1, <3>2
    <2> QED
        BY <1>1, <1>2, <2>1, <2>2, <2>3, Zenon
<1> QED
    BY <1>3, <1>4

\* push_front of the type.
LEMMA TypeInFront ==
    ASSUME NEW x \in Byte, NEW rest \in Seq(Byte), NEW t, t = <<x>> \o rest
    PROVE  /\ t \in Seq(Byte) /\ t # <<>> /\ t[1] = x /\ Tail(t) = rest
           /\ Len(rest) \in Nat /\ Len(t) = 1 + Len(rest)
OBVIOUS

\* What is encrypted.
LEMMA TextTyped ==
    ASSUME NEW p \in Packets
    PROVE  /\ PlainText(p) \in Seq(Byte) /\ PlainText(p) # <<>> /\ Len(PlainText(p)) \in Nat
           /\ PlainText(p)[1] = TypeByte(Code[p.type])
           /\ p.from = "server" => Len(PlainText(p)) <= 35
           /\ p.from = "server" /\ p.type = "NEW_FOLLOWED" => Len(PlainText(p)) >= 3
           /\ p.type \in KeyTypes => Len(PlainText(p)) = 1 + KeyLength(p.type)
           /\ p.type \notin KeyTypes \cup NameTypes \cup Disagreed => Len(PlainText(p)) = 1 /\ p.fields = <<>>
           /\ p.type \in KeyTypes \cup NameTypes =>
                p.fields = <<Tail(PlainText(p))>> /\ Len(PlainText(p)) = 1 + Len(p.fields[1])
<1>1. p.type \in PacketTypes
    BY PacketSays
<1>2. TypeByte(Code[p.type]) \in Byte
    BY <1>1, TypeByteTyped
<1>3. PICK rest \in Seq(Byte) :
        /\ Follows(rest, p)
        /\ p.from = "server" => Len(rest) <= 34
        /\ p.from = "server" /\ p.type = "NEW_FOLLOWED" => Len(rest) >= 2
        /\ p.type \in KeyTypes => Len(rest) = KeyLength(p.type)
        /\ p.type \notin KeyTypes \cup NameTypes \cup Disagreed => rest = <<>> /\ p.fields = <<>>
        /\ p.type \in KeyTypes \cup NameTypes => p.fields = <<rest>>
    BY TextSays
<1>4. /\ PlainText(p) \in Seq(Byte) /\ PlainText(p) # <<>> /\ PlainText(p)[1] = TypeByte(Code[p.type])
      /\ Tail(PlainText(p)) = rest /\ Len(rest) \in Nat /\ Len(PlainText(p)) = 1 + Len(rest)
    BY <1>2, <1>3, TypeInFront DEF Follows
<1>5. rest = <<>> => Len(rest) = 0
    OBVIOUS
<1>6. p.type \in KeyTypes \cup NameTypes => p.fields[1] = rest
    BY <1>3
<1>7. Len(PlainText(p)) \in Nat
    BY <1>4
<1>8. /\ Len(rest) <= 34 => Len(PlainText(p)) <= 35
      /\ Len(rest) >= 2 => Len(PlainText(p)) >= 3
      /\ Len(rest) = 0 => Len(PlainText(p)) = 1
    BY <1>4
<1> QED
    BY <1>3, <1>4, <1>5, <1>6, <1>7, <1>8, Zenon

-----------------------------------------------------------------------------
(* The blocks of a packet *)

Blocks(p) == IF p.from = "server" THEN Encrypt(p.key, PlainText(p)) ELSE JavaEncrypt(p.key, PlainText(p))

\* The four ways a packet is encrypted, and which packets are short enough for one block.
LEMMA KeysSay ==
    ASSUME NEW p \in Packets
    PROVE  \/ /\ p.from = "server" /\ p.key = "None" /\ p.type = "OPEN_ENCR"
              /\ Len(PlainText(p)) = 1 /\ Blocks(p) = <<Block("None", PlainText(p), 1)>>
           \/ /\ p.from = "server" /\ p.key = "OuterRSA" /\ p.type = "SYMMETRIC_KEY"
              /\ Blocks(p) = <<Block("OuterRSA", PlainText(p), 64)>>
           \/ /\ p.from \in {"server", "client"} /\ p.key = "AES" /\ Blocks(p) = EncryptAES(PlainText(p))
           \/ /\ p.from = "client" /\ p.key = "ServerRSA" /\ Blocks(p) = JavaEncryptRSA(PlainText(p))
              /\ Len(PlainText(p)) <= 95
<1>1. p.from \in {"server", "client"} /\ p.key = KeyOf(p.from, p.type) /\ p.key # "unsent"
    BY PacketSays
<1>2. CASE p.from = "server"
    <2>1. p.key = ServerKey(p.type) /\ Blocks(p) = Encrypt(p.key, PlainText(p))
        BY <1>1, <1>2 DEF KeyOf, Blocks
    <2>2. CASE p.key = "None"
        <3>1. p.type = "OPEN_ENCR"
            BY <2>1, <2>2, SentTypes
        <3>2. Len(PlainText(p)) = 1
            <4>1. p.type \notin KeyTypes \cup NameTypes \cup Disagreed
                BY <3>1 DEF KeyTypes, NameTypes, Disagreed
            <4> QED
                BY <4>1, TextTyped
        <3>3. Blocks(p) = <<Block("None", PlainText(p), Len(PlainText(p)))>>
            BY <2>1, <2>2 DEF Encrypt
        <3> QED
            BY <1>2, <2>2, <3>1, <3>2, <3>3
    <2>3. CASE p.key = "OuterRSA"
        <3>1. p.type = "SYMMETRIC_KEY"
            BY <2>1, <2>3, SentTypes
        <3>2. PlainText(p) \in Seq(Byte) /\ PlainText(p) # <<>> /\ Len(PlainText(p)) <= 53
            <4>1. p.type \in KeyTypes /\ p.type # "PUBLIC_KEY"
                BY <3>1 DEF KeyTypes
            <4>2. PlainText(p) \in Seq(Byte) /\ PlainText(p) # <<>> /\ Len(PlainText(p)) = 1 + KeyLength(p.type)
                BY <4>1, TextTyped
            <4>3. Len(PlainText(p)) = 17
                BY <4>1, <4>2 DEF KeyLength
            <4>4. 17 <= 53
                OBVIOUS
            <4> QED
                BY <4>2, <4>3, <4>4, Zenon
        <3>3. EncryptRSA(PlainText(p)) = <<Block("OuterRSA", PlainText(p), 64)>>
            BY <3>2, ShortRSA
        <3>4. Blocks(p) = EncryptRSA(PlainText(p))
            BY <2>1, <2>3 DEF Encrypt
        <3> QED
            BY <1>2, <2>3, <3>1, <3>3, <3>4
    <2>4. CASE p.key = "AES"
        BY <1>2, <2>1, <2>4 DEF Encrypt
    <2> QED
        BY <1>1, <2>1, <2>2, <2>3, <2>4, SentTypes
<1>3. CASE p.from = "client"
    <2>1. p.key = ClientKey(p.type) /\ Blocks(p) = JavaEncrypt(p.key, PlainText(p))
        BY <1>1, <1>3 DEF KeyOf, Blocks
    <2>2. CASE p.key = "ServerRSA"
        <3>1. p.type \in KeyTypes
            BY <2>1, <2>2, SentTypes DEF KeyTypes
        <3>2. Len(PlainText(p)) <= 95
            <4>1. Len(PlainText(p)) = 1 + KeyLength(p.type)
                BY <3>1, TextTyped
            <4> QED
                BY <4>1 DEF KeyLength
        <3> QED
            BY <1>3, <2>1, <2>2, <3>2 DEF JavaEncrypt
    <2>3. CASE p.key = "AES"
        BY <1>3, <2>1, <2>3 DEF JavaEncrypt
    <2> QED
        BY <1>1, <2>1, <2>2, <2>3, SentTypes
<1> QED
    BY <1>1, <1>2, <1>3

\* Blocks of one key that no read has cut.
Whole(key, size) == {Block(key, text, size) : text \in Seq(Byte)}

\* A block says its key and its size.
LEMMA WholeSays ==
    ASSUME NEW key, NEW size, NEW x \in Whole(key, size)
    PROVE  x.key = key /\ x.size = size /\ \A n : [x EXCEPT !.size = n].size = n /\ [x EXCEPT !.size = n].key = key
BY DEF Whole, Block

\* The sizes of a block.
Sizes == {1, 16, 64, 128}

\* Whole blocks and what is left over, for each size of a block.
LEMMA Multiples ==
    ASSUME NEW k \in Nat \ {0}, NEW s \in Sizes
    PROVE  /\ k * s \in Nat \ {0} /\ (k * s) \div s = k /\ (k * s) % s = 0
           /\ \A n \in 1..(k * s) : n \div s \in 0..k /\ (n \div s = 0 => n % s # 0)
<1>1. CASE s = 1
    BY <1>1
<1>2. CASE s = 16
    BY <1>2
<1>3. CASE s = 64
    BY <1>3
<1>4. CASE s = 128
    BY <1>4
<1> QED
    BY <1>1, <1>2, <1>3, <1>4 DEF Sizes

\* As many bytes as the blocks have are the blocks, and any bytes begin with their key.
LEMMA FirstBytesSay ==
    ASSUME NEW key, NEW s \in Sizes, NEW b \in Seq(Whole(key, s)), b # <<>>
    PROVE  /\ SizeOf(b) = Len(b) * s /\ FirstBytes(b, Len(b) * s) = b
           /\ \A n \in 1..(Len(b) * s) : FirstBytes(b, n)[1].key = key
<1> DEFINE k == Len(b)
<1>1. k \in Nat \ {0} /\ 1 \in 1..k /\ b[1] \in Whole(key, s)
    BY EmptySeq
<1>2. b[1].size = s /\ b[1].key = key
    BY <1>1, WholeSays
<1>3. SizeOf(b) = k * s
    BY <1>2 DEF SizeOf
<1>4. FirstBytes(b, k * s) = b
    <2>1. (k * s) \div s = k /\ (k * s) % s = 0
        BY <1>1, Multiples
    <2>2. FirstBytes(b, k * s) = SubSeq(b, 1, k) \o <<>>
        BY <1>2, <2>1 DEF FirstBytes
    <2>3. SubSeq(b, 1, k) = b
        BY SubSeqFull
    <2> QED
        BY <2>2, <2>3, ConcatEmptySeq
<1>5. ASSUME NEW n \in 1..(k * s)
      PROVE  FirstBytes(b, n)[1].key = key
    <2> DEFINE whole == n \div s
               x == [b[whole + 1] EXCEPT !.size = n % s]
               end == IF n % s = 0 THEN <<>> ELSE <<x>>
               start == SubSeq(b, 1, whole)
               C == {b[i] : i \in 1..k} \cup {x}
    <2>1. FirstBytes(b, n) = start \o end
        BY <1>2 DEF FirstBytes
    <2>2. whole \in 0..k /\ (whole = 0 => n % s # 0)
        BY <1>1, Multiples
    <2>3. k \in Nat /\ \A i \in 1..k : b[i] \in C
        BY <1>1
    <2>4. end \in Seq(C) /\ (n % s # 0 => end = <<x>>)
        <3>1. x \in C
            OBVIOUS
        <3> HIDE DEF x, C
        <3>2. <<x>> \in Seq(C) /\ <<>> \in Seq(C)
            BY <3>1
        <3> QED
            BY <3>2
    <2>5. start \in Seq(C) /\ Len(start) = whole /\ \A i \in 1..whole : start[i] = b[i]
        <3> HIDE DEF whole, C
        <3> QED
            BY <2>2, <2>3
    <2> HIDE DEF whole, C, end, start, x
    <2>6. CASE whole = 0
        <3>1. end = <<x>> /\ start = <<>> /\ x \in C
            BY <2>2, <2>4, <2>5, <2>6 DEF C
        <3>2. (start \o end)[1] = x
            BY <3>1
        <3>3. x.key = key
            BY <1>1, <2>6, WholeSays DEF x
        <3> QED
            BY <2>1, <3>2, <3>3
    <2>7. CASE whole # 0
        <3>1. 1 \in 1..whole
            BY <2>2, <2>7
        <3>2. (start \o end)[1] = start[1]
            BY <2>4, <2>5, <3>1
        <3> QED
            BY <1>2, <2>1, <2>5, <3>1, <3>2
    <2> QED
        BY <2>6, <2>7
<1> QED
    BY <1>3, <1>4, <1>5

\* A function on 1..k is a list.
LEMMA ListOf ==
    ASSUME NEW C, NEW k \in Nat, NEW b, b = [i \in 1..k |-> b[i]], \A i \in 1..k : b[i] \in C
    PROVE  b \in Seq(C)
BY SMT

\* A text that is one block.
OneBlock(b, key, text, size) == b = <<Block(key, text, size)>>

\* A text in one block.
LEMMA OneWhole ==
    ASSUME NEW key, NEW text \in Seq(Byte), NEW size, NEW b, OneBlock(b, key, text, size)
    PROVE  b \in Seq(Whole(key, size)) /\ b # <<>> /\ Len(b) = 1 /\ b[1] = Block(key, text, size) /\ Texts(b) = text
<1>1. Block(key, text, size) \in Whole(key, size)
    BY DEF Whole
<1>2. b \in Seq(Whole(key, size)) /\ b # <<>> /\ Len(b) = 1 /\ b[1] = Block(key, text, size)
    BY <1>1 DEF OneBlock
<1>3. Texts(b) = FlattenSeq([i \in 1..1 |-> b[i].text])
    <2>1. DOMAIN b = 1..1
        BY <1>2
    <2> QED
        BY <2>1, Zenon DEF Texts
<1>4. [i \in 1..1 |-> b[i].text] = <<text>>
    <2>1. b[1].text = text
        BY <1>2, BlockSays
    <2> QED
        BY <2>1
<1>5. FlattenSeq(<<text>>) = text
    BY FlattenOne
<1> QED
    BY <1>2, <1>3, <1>4, <1>5

\* What a side sends: whole blocks of one size, and from the server at most three.
LEMMA BlocksTyped ==
    ASSUME NEW p \in Packets
    PROVE  \E s \in Sizes :
            /\ Blocks(p) \in Seq(Whole(p.key, s)) /\ Blocks(p) # <<>>
            /\ p.from = "server" => Len(Blocks(p)) * s <= 64
<1> DEFINE t == PlainText(p)
<1>1. t \in Seq(Byte) /\ t # <<>> /\ Len(t) \in Nat /\ (p.from = "server" => Len(t) <= 35)
    BY TextTyped
<1> HIDE DEF t
<1>2. CASE p.from = "server" /\ p.key = "None" /\ Blocks(p) = <<Block("None", t, 1)>>
    <2>1. Blocks(p) \in Seq(Whole("None", 1)) /\ Blocks(p) # <<>> /\ Len(Blocks(p)) = 1
        <3>1. t \in Seq(Byte) /\ OneBlock(Blocks(p), "None", t, 1)
            BY <1>1, <1>2 DEF OneBlock
        <3> QED
            BY <3>1, OneWhole
    <2>2. Len(Blocks(p)) * 1 <= 64 /\ 1 \in Sizes
        BY <2>1 DEF Sizes
    <2> QED
        BY <1>2, <2>1, <2>2, Zenon
<1>3. CASE p.from = "server" /\ p.key = "OuterRSA" /\ Blocks(p) = <<Block("OuterRSA", t, 64)>>
    <2>1. Blocks(p) \in Seq(Whole("OuterRSA", 64)) /\ Blocks(p) # <<>> /\ Len(Blocks(p)) = 1
        <3>1. t \in Seq(Byte) /\ OneBlock(Blocks(p), "OuterRSA", t, 64)
            BY <1>1, <1>3 DEF OneBlock
        <3> QED
            BY <3>1, OneWhole
    <2>2. Len(Blocks(p)) * 64 <= 64 /\ 64 \in Sizes
        BY <2>1 DEF Sizes
    <2> QED
        BY <1>3, <2>1, <2>2, Zenon
<1>4. CASE p.key = "AES" /\ Blocks(p) = EncryptAES(t)
    <2> DEFINE k == Len(t) \div 16 + 1
    <2>1. AESBlocks(EncryptAES(t), k, t, Byte)
        BY <1>1, EncryptAESMakes
    <2>2. k \in Nat \ {0} /\ Len(EncryptAES(t)) = k /\ 16 * (k - 1) <= Len(t)
        BY <2>1 DEF AESBlocks
    <2> HIDE DEF k
    <2>3. \A i \in 1..k : EncryptAES(t)[i] \in Whole("AES", 16)
        <3> TAKE i \in 1..k
        <3>1. EncryptAES(t)[i] = Block("AES", EncryptAES(t)[i].text, 16) /\ EncryptAES(t)[i].text \in Seq(Byte)
            BY <2>1 DEF AESBlocks
        <3> QED
            BY <3>1, Zenon DEF Whole
    <2>4. EncryptAES(t) = [i \in 1..k |-> EncryptAES(t)[i]]
        BY DEF EncryptAES, AesBlock, k
    <2>5. EncryptAES(t) \in Seq(Whole("AES", 16))
        BY <2>2, <2>3, <2>4, ListOf
    <2>6. p.from = "server" => Len(EncryptAES(t)) * 16 <= 64
        <3>1. Len(t) <= 35 => k * 16 <= 64
            BY <1>1, <2>2
        <3> QED
            BY <1>1, <2>2, <3>1, Zenon
    <2>7. EncryptAES(t) # <<>>
        BY <2>2, <2>5
    <2>8. 16 \in Sizes
        BY DEF Sizes
    <2> QED
        BY <1>4, <2>5, <2>6, <2>7, <2>8, Zenon
<1>5. CASE p.from = "client" /\ p.key = "ServerRSA" /\ Blocks(p) = JavaEncryptRSA(t)
    <2> DEFINE parts == Parts(t, 53, 53)
               k == (Len(t) + 53 - 1) \div 53
    <2>1. parts \in Seq(Seq(Byte)) /\ Len(parts) = k /\ DOMAIN parts = 1..k /\ k \in Nat \ {0}
        BY <1>1, PartsOfText
    <2>2. JavaEncryptRSA(t) = [i \in DOMAIN parts |-> Block("ServerRSA", parts[i], 128)]
        BY DEF JavaEncryptRSA
    <2> HIDE DEF parts, k
    <2>3. JavaEncryptRSA(t) = [i \in 1..k |-> JavaEncryptRSA(t)[i]]
        BY <2>1, <2>2
    <2>4. \A i \in 1..k : JavaEncryptRSA(t)[i] \in Whole("ServerRSA", 128)
        BY <2>1, <2>2 DEF Whole
    <2>5. JavaEncryptRSA(t) \in Seq(Whole("ServerRSA", 128))
        BY <2>1, <2>3, <2>4, ListOf
    <2>6. JavaEncryptRSA(t) # <<>>
        BY <2>1, <2>3
    <2>7. 128 \in Sizes /\ p.from # "server"
        BY <1>5 DEF Sizes
    <2> QED
        BY <1>5, <2>5, <2>6, <2>7, Zenon
<1> QED
    BY <1>2, <1>3, <1>4, <1>5, KeysSay DEF t

\* What comes out of the blocks of one key, read whole.
Opened(p, blocks) == IF p.from = "client" THEN Decrypt(p.key, blocks) ELSE JavaDecrypt(p.key, blocks)

\* One block gives its text.
LEMMA OneOpens ==
    ASSUME NEW key, NEW text \in Seq(Byte), NEW size, NEW b, OneBlock(b, key, text, size)
    PROVE  Len(b) = 1 /\ AllWhole(b, key, size) /\ Texts(b) = text
<1>1. Len(b) = 1 /\ b[1] = Block(key, text, size) /\ Texts(b) = text
    BY OneWhole
<1>2. DOMAIN b = 1..1
    BY DEF OneBlock
<1>3. b[1].key = key /\ b[1].size = size
    BY <1>1, BlockSays
<1> QED
    BY <1>1, <1>2, <1>3 DEF AllWhole, IsWhole

\* What was sent and read whole decrypts to what was packed, for every packet of either side.
LEMMA WholeOpens ==
    ASSUME NEW p \in Packets
    PROVE  Opened(p, Blocks(p)) = {PlainText(p)}
<1> DEFINE t == PlainText(p)
           b == Blocks(p)
<1>1. t \in Seq(Byte) /\ t # <<>>
    BY TextTyped
<1> HIDE DEF t, b
<1>2. CASE p.from = "server" /\ p.key = "None" /\ b = <<Block("None", t, 1)>>
    <2>1. t \in Seq(Byte) /\ OneBlock(b, "None", t, 1)
        BY <1>1, <1>2 DEF OneBlock
    <2>2. Texts(b) = t
        BY <2>1, OneOpens
    <2> QED
        BY <1>2, <2>2 DEF Opened, JavaDecrypt, t, b
<1>3. CASE p.from = "server" /\ p.key = "OuterRSA" /\ b = <<Block("OuterRSA", t, 64)>>
    <2>1. t \in Seq(Byte) /\ OneBlock(b, "OuterRSA", t, 64)
        BY <1>1, <1>3 DEF OneBlock
    <2>2. Len(b) = 1 /\ AllWhole(b, "OuterRSA", 64) /\ Texts(b) = t
        BY <2>1, OneOpens
    <2>3. JavaDecrypt("OuterRSA", b) = {t}
        BY <2>2 DEF JavaDecrypt, ClientBlock
    <2> QED
        BY <1>3, <2>3 DEF Opened, t, b
<1>4. CASE p.from \in {"server", "client"} /\ p.key = "AES" /\ b = EncryptAES(t)
    <2>1. DecryptAES(b) = {t}
        BY <1>1, <1>4, AESRoundTrip
    <2>2. Opened(p, b) = DecryptAES(b)
        BY <1>4 DEF Opened, Decrypt, JavaDecrypt
    <2> QED
        BY <2>1, <2>2 DEF t, b
<1>5. CASE p.from = "client" /\ p.key = "ServerRSA" /\ b = JavaEncryptRSA(t)
    <2>1. DecryptRSA(b) = {t}
        BY <1>1, <1>5, RSARoundTrip
    <2>2. Opened(p, b) = DecryptRSA(b)
        BY <1>5 DEF Opened, Decrypt
    <2> QED
        BY <2>1, <2>2 DEF t, b
<1> QED
    BY <1>2, <1>3, <1>4, <1>5, KeysSay DEF t, b

\* A part that the client read of what the server sent: refused, or it begins alike.
LEMMA PartOpens ==
    ASSUME NEW p \in Packets, p.from = "server", NEW n \in 1..(SizeOf(Blocks(p)) - 1),
           NEW out \in JavaDecrypt(p.key, FirstBytes(Blocks(p), n))
    PROVE  p.key = "AES" /\ out # <<>> /\ out[1] = TypeByte(Code[p.type])
<1> DEFINE t == PlainText(p)
           b == Blocks(p)
<1>1. t \in Seq(Byte) /\ t # <<>> /\ t[1] = TypeByte(Code[p.type]) /\ p.from # "client"
    BY TextTyped
<1>2. n \in 1..(SizeOf(b) - 1) /\ out \in JavaDecrypt(p.key, FirstBytes(b, n))
    OBVIOUS
<1>3. \/ p.key = "None" /\ b = <<Block("None", t, 1)>>
      \/ p.key = "OuterRSA" /\ b = <<Block("OuterRSA", t, 64)>>
      \/ p.key = "AES" /\ b = EncryptAES(t)
    BY <1>1, KeysSay
<1> HIDE DEF t, b
<1>4. CASE p.key = "None" /\ b = <<Block("None", t, 1)>>
    <2>1. t \in Seq(Byte) /\ OneBlock(b, "None", t, 1)
        BY <1>1, <1>4 DEF OneBlock
    <2>2. Len(b) = 1 /\ b[1] = Block("None", t, 1)
        BY <2>1, OneWhole
    <2>3. b[1].size = 1
        BY <2>2, BlockSays
    <2>4. SizeOf(b) = 1
        BY <2>2, <2>3 DEF SizeOf
    <2> QED
        BY <1>2, <2>4
<1>5. CASE p.key = "OuterRSA" /\ b = <<Block("OuterRSA", t, 64)>>
    <2>1. t \in Seq(Byte) /\ OneBlock(b, "OuterRSA", t, 64)
        BY <1>1, <1>5 DEF OneBlock
    <2>2. Len(b) = 1 /\ b[1] = Block("OuterRSA", t, 64)
        BY <2>1, OneWhole
    <2>3. b[1].size = 64
        BY <2>2, BlockSays
    <2>4. n \in 1..63
        BY <1>2, <2>2, <2>3 DEF SizeOf
    <2> DEFINE x == [b[1] EXCEPT !.size = n]
               r == FirstBytes(b, n)
    <2>5. r = SubSeq(b, 1, 0) \o <<x>>
        <3>1. n \div 64 = 0 /\ n % 64 = n /\ n # 0 /\ 0 + 1 = 1
            BY <2>4
        <3> QED
            BY <2>3, <3>1 DEF FirstBytes
    <2>6. x.size = n
        <3>1. b[1] = [key |-> "OuterRSA", text |-> t, size |-> 64]
            BY <2>2 DEF Block
        <3> QED
            BY <3>1
    <2> HIDE DEF x, r
    <2>7. r = <<x>>
        <3>1. SubSeq(b, 1, 0) = <<>>
            BY SubSeqEmpty
        <3>2. <<x>> \in Seq({x})
            OBVIOUS
        <3>3. <<>> \o <<x>> = <<x>>
            BY <3>2, ConcatEmptySeq
        <3> QED
            BY <2>5, <3>1, <3>3
    <2>8. ~AllWhole(r, "OuterRSA", 64)
        BY <2>4, <2>6, <2>7 DEF AllWhole, IsWhole
    <2>9. JavaDecrypt("OuterRSA", r) = {}
        BY <2>8 DEF JavaDecrypt, ClientBlock
    <2> QED
        BY <1>2, <1>5, <2>9 DEF r
<1>6. CASE p.key = "AES" /\ b = EncryptAES(t)
    <2> DEFINE k == Len(t) \div 16 + 1
    <2>1. AESBlocks(b, k, t, Byte)
        BY <1>1, <1>6, EncryptAESMakes
    <2>2. SizeOf(b) = 16 * k /\ k \in Nat
        <3>1. k \in Nat \ {0} /\ Len(b) = k /\ 1 \in 1..k
            BY <2>1 DEF AESBlocks
        <3>2. b[1].size = 16
            BY <2>1, <3>1 DEF AESBlocks
        <3> QED
            BY <3>1, <3>2 DEF SizeOf
    <2>3. n \in 1..(16 * (Len(t) \div 16 + 1) - 1)
        BY <1>2, <2>2
    <2>4. out \in DecryptAES(FirstBytes(EncryptAES(t), n))
        BY <1>2, <1>6 DEF JavaDecrypt
    <2>5. out # <<>> /\ out[1] = t[1]
        BY <1>1, <2>3, <2>4, AESPartBegins
    <2> QED
        BY <1>1, <1>6, <2>5
<1> QED
    BY <1>3, <1>4, <1>5, <1>6

\* What the array of the client does not hold.
LEMMA TooLong ==
    ASSUME NEW p \in Packets, p.from = "client", JavaFits(p), SizeOf(Blocks(p)) > Length
    PROVE  p.type = "MY_LOCATION" \/ (p.type \in NameTypes /\ p.chars >= Length - 1)
<1> DEFINE t == PlainText(p)
           b == Blocks(p)
<1>1. t \in Seq(Byte) /\ t # <<>> /\ Len(t) \in Nat
    BY TextTyped
<1>2. \/ p.key = "AES" /\ b = EncryptAES(t)
      \/ p.key = "ServerRSA" /\ b = JavaEncryptRSA(t) /\ Len(t) <= 95
    BY KeysSay
<1>3. SizeOf(b) > 1024
    BY DEF Length
<1> HIDE DEF b
<1>4. CASE p.key = "AES" /\ b = EncryptAES(t)
    <2> DEFINE k == Len(t) \div 16 + 1
    <2> HIDE DEF t
    <2>1. AESBlocks(b, k, t, Byte)
        BY <1>1, <1>4, EncryptAESMakes
    <2>2. k \in Nat \ {0} /\ Len(b) = k /\ 1 \in 1..k /\ 16 * (k - 1) <= Len(t)
        BY <2>1 DEF AESBlocks
    <2>3. b[1].size = 16
        BY <2>1, <2>2 DEF AESBlocks
    <2> HIDE DEF k
    <2>4. k * 16 > 1024
        BY <1>3, <2>2, <2>3 DEF SizeOf
    <2>5. Len(t) >= 1024
        BY <1>1, <2>2, <2>4
    <2>10. \A n \in Nat : n >= 1024 => n # 95 /\ n # 17 /\ n # 1
        OBVIOUS
    <2>6. p.type \notin KeyTypes
        <3>1. Len(t) # 95 /\ Len(t) # 17
            BY <1>1, <2>5, <2>10, Zenon
        <3>2. p.type \in KeyTypes => Len(t) = 1 + KeyLength(p.type)
            BY TextTyped DEF t
        <3> QED
            BY <3>1, <3>2 DEF KeyLength
    <2>7. p.type \in KeyTypes \cup NameTypes \cup Disagreed
        <3>1. Len(t) # 1
            BY <1>1, <2>5, <2>10, Zenon
        <3> QED
            BY <3>1, TextTyped DEF t
    <2>8. CASE p.type \in NameTypes
        <3>1. Len(t) = 1 + Len(p.fields[1]) /\ p.fields = <<Tail(t)>>
            BY <2>8, TextTyped DEF t
        <3>2. Len(p.fields[1]) =< p.chars
            BY <2>8 DEF JavaFits
        <3>3. Tail(t) \in Seq(Byte) /\ Len(Tail(t)) \in Nat /\ p.fields[1] = Tail(t)
            BY <1>1, <3>1
        <3>4. p.chars \in Nat
            BY <2>8, FieldsSay DEF HasName
        <3>5. Len(p.fields[1]) >= 1023 /\ Len(p.fields[1]) \in Nat
            BY <2>5, <3>1, <3>3
        <3>6. p.chars >= 1023
            BY <3>2, <3>4, <3>5
        <3> QED
            BY <2>8, <3>6 DEF Length
    <2>9. CASE p.type \in Disagreed
        BY <2>9, DisagreedText
    <2> QED
        BY <2>6, <2>7, <2>8, <2>9
<1>5. CASE p.key = "ServerRSA" /\ b = JavaEncryptRSA(t) /\ Len(t) <= 95
    <2> DEFINE k == (Len(t) + 53 - 1) \div 53
               parts == Parts(t, 53, 53)
    <2> HIDE DEF t
    <2>1. k \in Nat \ {0} /\ 53 * (k - 1) < Len(t) /\ DOMAIN parts = 1..k
        BY <1>1, PartsOfText
    <2>2. b = [i \in DOMAIN parts |-> Block("ServerRSA", parts[i], 128)]
        BY <1>5 DEF JavaEncryptRSA
    <2> HIDE DEF k, parts
    <2>3. 1 \in 1..k /\ Len(b) = k /\ b[1] = Block("ServerRSA", parts[1], 128)
        BY <2>1, <2>2
    <2>4. b[1].size = 128
        BY <2>3, BlockSays
    <2>5. k <= 2
        BY <1>1, <1>5, <2>1
    <2> QED
        BY <1>3, <2>1, <2>3, <2>4, <2>5 DEF SizeOf
<1> QED
    BY <1>2, <1>4, <1>5

\* The packet that a handler makes.
LEMMA MadeSays ==
    ASSUME NEW type, NEW fields
    PROVE  Made(type, fields).type = type /\ Made(type, fields).fields = fields
BY DEF Made

\* The handlers make a packet of the type they handle.
LEMMA TypeMade ==
    /\ \A type, text : \A r \in ServerReads(type, text) : r.type = type
    /\ \A type, text : \A r \in JavaReads(type, text) : r.type = type
    /\ \A type : \A r \in JavaReadsPlain(type) : r.type = type
<1>1. ASSUME NEW type, NEW text, NEW r \in ServerReads(type, text)
      PROVE  r.type = type
    <2>1. \E fields : r = Made(type, fields)
        BY Zenon DEF ServerReads
    <2> QED
        BY <2>1, MadeSays
<1>2. ASSUME NEW type, NEW text, NEW r \in JavaReads(type, text)
      PROVE  r.type = type
    <2>1. CASE type \in {"OPEN_PROT", "ACK_OK", "ACK_ERR", "CLOSE", "ALIVE"}
        <3>1. r = Made(type, <<>>)
            BY <1>2, <2>1, Zenon DEF JavaReads
        <3> QED
            BY <3>1, MadeSays
    <2>2. CASE type \in {"OPEN_ENCR", "SYMMETRIC_KEY", "TEST_KEY"}
        <3>1. JavaReads(type, text) = JavaReadsKey(type, text)
            <4>1. type \notin {"OPEN_PROT", "ACK_OK", "ACK_ERR", "CLOSE", "ALIVE"}
                BY <2>2
            <4> QED
                BY <2>2, <4>1, Zenon DEF JavaReads
        <3>2. \E fields : r = Made(type, fields)
            BY <1>2, <2>2, <3>1 DEF JavaReadsKey
        <3> QED
            BY <3>2, MadeSays
    <2>3. CASE type = "NEW_FOLLOWED"
        <3>1. \E fields : r = Made(type, fields)
            BY <1>2, <2>3 DEF JavaReads
        <3> QED
            BY <3>1, MadeSays
    <2>4. CASE type = "LOCATION"
        <3>1. \E fields : r = Made(type, fields)
            BY <1>2, <2>4 DEF JavaReads
        <3> QED
            BY <3>1, MadeSays
    <2>5. CASE type \notin {"OPEN_PROT", "ACK_OK", "ACK_ERR", "CLOSE", "ALIVE", "OPEN_ENCR",
                            "SYMMETRIC_KEY", "TEST_KEY", "NEW_FOLLOWED", "LOCATION"}
        BY <1>2, <2>5 DEF JavaReads
    <2> QED
        BY <2>1, <2>2, <2>3, <2>4, <2>5
<1>3. ASSUME NEW type, NEW r \in JavaReadsPlain(type)
      PROVE  r.type = type
    <2>1. r = Made(type, <<>>)
        BY DEF JavaReadsPlain
    <2> QED
        BY <2>1, MadeSays
<1> QED
    BY <1>1, <1>2, <1>3

\* What of a text the parser of its reader looks at first: the type.
LEMMA ReadsByType ==
    ASSUME packet \in Packets, NEW text, text[1] = TypeByte(Code[packet.type])
    PROVE  Reads(text) = IF packet.from = "client" THEN ServerReads(packet.type, text)
                         ELSE IF packet.key = "None" THEN JavaReadsPlain(packet.type)
                         ELSE JavaReads(packet.type, text)
<1>1. text[1][2] = Code[packet.type]
    BY DEF TypeByte
<1>2. TypeOf(Code[packet.type]) = packet.type /\ JavaTypeOf(Code[packet.type]) = packet.type
    BY PacketSays, CodesAgree
<1>3. CASE packet.from = "client"
    <2>0. packet.key # "None"
        <3>1. packet.key = ClientKey(packet.type)
            BY <1>3, PacketSays DEF KeyOf
        <3> QED
            BY <3>1, SentTypes
    <2>1. Reads(text) = ServerReads(TypeOf(text[1][2]), text)
        BY <1>3, <2>0, Zenon DEF Reads
    <2> QED
        BY <1>1, <1>2, <1>3, <2>1
<1>4. CASE packet.from # "client" /\ packet.key = "None"
    <2>1. Reads(text) = JavaReadsPlain(JavaTypeOf(text[1][2]))
        BY <1>4, Zenon DEF Reads
    <2> QED
        BY <1>1, <1>2, <1>4, <2>1
<1>5. CASE packet.from # "client" /\ packet.key # "None"
    <2>1. Reads(text) = JavaReads(JavaTypeOf(text[1][2]), text)
        BY <1>5, Zenon DEF Reads
    <2> QED
        BY <1>1, <1>2, <1>5, <2>1
<1> QED
    BY <1>3, <1>4, <1>5

\* Whoever parses a text that begins with the type of the packet reads a packet of that type.
LEMMA TypeRead ==
    ASSUME packet \in Packets, NEW text, text[1] = TypeByte(Code[packet.type]), NEW r \in Reads(text)
    PROVE  r.type = packet.type
BY ReadsByType, TypeMade

\* The packet in a whole text.
LEMMA WholeRead ==
    ASSUME packet \in Packets
    PROVE  /\ packet.type \notin Disagreed =>
                Reads(PlainText(packet)) = {Made(packet.type, packet.fields)}
           /\ packet.type # "MY_LOCATION" => Reads(PlainText(packet)) # {}
<1> DEFINE t == PlainText(packet)
           type == packet.type
<1>1. /\ t[1] = TypeByte(Code[type]) /\ Len(t) \in Nat
      /\ (packet.from = "server" /\ type = "NEW_FOLLOWED" => Len(t) >= 3)
      /\ (type \in KeyTypes => Len(t) = 1 + KeyLength(type))
      /\ (type \notin KeyTypes \cup NameTypes \cup Disagreed => Len(t) = 1 /\ packet.fields = <<>>)
      /\ (type \in KeyTypes \cup NameTypes => packet.fields = <<Tail(t)>>)
    BY TextTyped
<1>2. /\ packet.from \in {"server", "client"} /\ packet.key = KeyOf(packet.from, type)
      /\ packet.key # "unsent"
    BY PacketSays
<1> HIDE DEF t
<1>3. CASE packet.from = "client"
    <2>1. type \in {"PUBLIC_KEY", "SYMMETRIC_KEY", "TEST_KEY", "CLOSE", "ACK_OK", "MY_LOCATION"} \cup NameTypes
        BY <1>2, <1>3, SentTypes DEF KeyOf
    <2>2. Reads(t) = ServerReads(type, t)
        BY <1>1, <1>3, ReadsByType
    <2>3. CASE type = "MY_LOCATION"
        BY <2>3 DEF Disagreed
    <2>4. CASE type # "MY_LOCATION"
        <3>1. Reads(t) = {Made(type, IF Len(t) = 1 /\ type \notin NameTypes THEN <<>> ELSE <<Tail(t)>>)}
            BY <2>2, <2>4 DEF ServerReads
        <3>2. packet.fields = IF Len(t) = 1 /\ type \notin NameTypes THEN <<>> ELSE <<Tail(t)>>
            <4>1. CASE type \in NameTypes
                BY <1>1, <4>1
            <4>2. CASE type \in KeyTypes
                <5>1. KeyLength(type) \in {94, 16}
                    BY DEF KeyLength
                <5>2. \A n \in {94, 16} : 1 + n # 1
                    OBVIOUS
                <5>3. Len(t) # 1
                    BY <1>1, <4>2, <5>1, <5>2, Zenon
                <5> QED
                    BY <1>1, <4>2, <5>3
            <4>3. CASE type \notin KeyTypes \cup NameTypes
                <5>1. type \notin Disagreed
                    BY <2>1, <2>4, <4>3 DEF Disagreed
                <5> QED
                    BY <1>1, <4>3, <5>1
            <4> QED
                BY <4>1, <4>2, <4>3
        <3> QED
            BY <3>1, <3>2 DEF t
    <2> QED
        BY <2>3, <2>4
<1>4. CASE packet.from = "server" /\ packet.key = "None"
    <2>1. type = "OPEN_ENCR"
        BY <1>2, <1>4, SentTypes DEF KeyOf
    <2>2. Reads(t) = JavaReadsPlain(type)
        BY <1>1, <1>4, ReadsByType
    <2>3. Reads(t) = {Made(type, <<>>)}
        BY <2>1, <2>2 DEF JavaReadsPlain
    <2>4. type \notin KeyTypes \cup NameTypes \cup Disagreed
        BY <2>1 DEF KeyTypes, NameTypes, Disagreed
    <2> QED
        BY <1>1, <2>3, <2>4 DEF t
<1>5. CASE packet.from = "server" /\ packet.key # "None"
    <2>1. type \in {"OPEN_ENCR", "SYMMETRIC_KEY", "TEST_KEY", "OPEN_PROT", "ACK_OK", "ACK_ERR",
                    "NEW_FOLLOWED", "LOCATION"}
        BY <1>2, <1>5, SentTypes DEF KeyOf
    <2>2. type # "OPEN_ENCR"
        BY <1>2, <1>5 DEF KeyOf, ServerKey
    <2>3. Reads(t) = JavaReads(type, t)
        BY <1>1, <1>5, ReadsByType
    <2>4. CASE type \in {"OPEN_PROT", "ACK_OK", "ACK_ERR"}
        <3>1. type \notin KeyTypes \cup NameTypes \cup Disagreed
            BY <2>4 DEF KeyTypes, NameTypes, Disagreed
        <3>2. JavaReads(type, t) = {Made(type, <<>>)}
            BY <2>4 DEF JavaReads
        <3> QED
            BY <1>1, <2>3, <3>1, <3>2 DEF t
    <2>5. CASE type \in {"SYMMETRIC_KEY", "TEST_KEY"}
        <3>1. type \in KeyTypes
            BY <2>5 DEF KeyTypes
        <3>2. JavaReads(type, t) = {Made(type, <<Tail(t)>>)}
            BY <2>5 DEF JavaReads, JavaReadsKey
        <3> QED
            BY <1>1, <2>3, <3>1, <3>2 DEF t
    <2>6. CASE type = "NEW_FOLLOWED"
        <3>1. JavaReads(type, t) # {}
            <4>1. ~(Len(t) < 3)
                BY <1>1, <1>5, <2>6
            <4> QED
                BY <2>6, <4>1 DEF JavaReads
        <3> QED
            BY <2>3, <2>6, <3>1 DEF t, Disagreed
    <2>7. CASE type = "LOCATION"
        <3>1. JavaReads(type, t) # {}
            BY <2>7 DEF JavaReads
        <3> QED
            BY <2>3, <2>7, <3>1 DEF t, Disagreed
    <2> QED
        BY <2>1, <2>2, <2>4, <2>5, <2>6, <2>7
<1> QED
    BY <1>2, <1>3, <1>4, <1>5

-----------------------------------------------------------------------------
(* The invariant: what the packet has become, layer by layer *)

\* What got past the two arrays of the client.
Fits(p) == p.from = "client" => JavaFits(p) /\ SizeOf(Blocks(p)) <= Length

\* A read that was cut short leaves the first blocks of a text under AES, or nothing
\* that can be decrypted.
Kept(p) ==
    /\ cut = "nothing" => data = PlainText(p)
    /\ cut = "payload" => p.from = "server" /\ data # <<>> /\ data[1] = TypeByte(Code[p.type])

\* A read that stopped before the end of the payload.
CutRead == \E n \in 1..(SizeOf(Blocks(packet)) - 1) : data = FirstBytes(Blocks(packet), n)

\* The data at each step, in the words of the packet.
InStep ==
    /\ cut # "nothing" => packet.from = "server"
    /\ step \in {"given", "packed", "encrypted", "sent"} => cut = "nothing"
    /\ step = "packed" => data = PlainText(packet) /\ (packet.from = "client" => JavaFits(packet))
    /\ step = "encrypted" => data = Blocks(packet) /\ Fits(packet)
    /\ step = "sent" =>
        data = [length |-> SizeOf(Blocks(packet)), blocks |-> Blocks(packet)] /\ Fits(packet)
    /\ step = "read" => /\ cut = "nothing" => data = Blocks(packet)
                        /\ cut = "payload" => CutRead
    /\ step = "decrypted" => Kept(packet)

\* The inductive invariant of Layers.
LayersInv ==
    /\ packet \in Packets
    /\ cut \in {"nothing", "payload", "length"}
    /\ InStep
    /\ RoundTrip /\ TypeKept /\ FailsForCause

\* The name is the only field of the types that the client sends with a name.
LEMMA NameHas ==
    ASSUME NEW p \in Packets, p.type \in NameTypes
    PROVE  p.chars \in Nat /\ p.fields[1] \in Seq(Byte) /\ Len(p.fields[1]) \in Nat
<1>1. HasName(p.type)
    BY DEF HasName
<1>2. PICK f \in Seq(Byte) : p.chars \in Nat /\ p.fields = Append(FixedFields(p.type), f)
    BY <1>1, FieldsSay
<1>3. FixedFields(p.type) = <<>>
    BY PacketSays, FixedFieldsAre DEF NameTypes, KeyTypes, Disagreed
<1>4. Append(<<>>, f) = <<f>>
    OBVIOUS
<1> QED
    BY <1>2, <1>3, <1>4

\* What blocks of one size say of their bytes.
LEMMA SizesSay ==
    ASSUME NEW key, NEW s \in Sizes, NEW b \in Seq(Whole(key, s)), b # <<>>
    PROVE  /\ SizeOf(b) \in Nat /\ SizeOf(b) = Len(b) * s
           /\ FirstBytes(b, SizeOf(b)) = b
           /\ \A n \in 1..SizeOf(b) : FirstBytes(b, n)[1].key = key
           /\ b[1].key = key
<1>1. /\ SizeOf(b) = Len(b) * s /\ FirstBytes(b, Len(b) * s) = b
      /\ \A n \in 1..(Len(b) * s) : FirstBytes(b, n)[1].key = key
    BY FirstBytesSay
<1>2. Len(b) \in Nat \ {0} /\ b[1] \in Whole(key, s)
    BY EmptySeq
<1>3. Len(b) * s \in Nat
    BY <1>2, Multiples
<1>4. b[1].key = key
    BY <1>2, WholeSays
<1> QED
    BY <1>1, <1>3, <1>4

\* The blocks of a packet have one size: how many bytes they are, and what a read of them gives.
LEMMA SizeTyped ==
    ASSUME NEW p \in Packets
    PROVE  /\ SizeOf(Blocks(p)) \in Nat
           /\ p.from = "server" => SizeOf(Blocks(p)) <= 64
           /\ FirstBytes(Blocks(p), SizeOf(Blocks(p))) = Blocks(p)
           /\ \A n \in 1..SizeOf(Blocks(p)) : FirstBytes(Blocks(p), n)[1].key = p.key
           /\ Blocks(p)[1].key = p.key
<1>1. PICK s \in Sizes : /\ Blocks(p) \in Seq(Whole(p.key, s)) /\ Blocks(p) # <<>>
                         /\ p.from = "server" => Len(Blocks(p)) * s <= 64
    BY BlocksTyped, Zenon
<1>2. /\ SizeOf(Blocks(p)) \in Nat /\ SizeOf(Blocks(p)) = Len(Blocks(p)) * s
      /\ FirstBytes(Blocks(p), SizeOf(Blocks(p))) = Blocks(p)
      /\ \A n \in 1..SizeOf(Blocks(p)) : FirstBytes(Blocks(p), n)[1].key = p.key
      /\ Blocks(p)[1].key = p.key
    BY <1>1, SizesSay, Zenon
<1> QED
    BY <1>1, <1>2, Zenon

\* The invariant holds before the packet is packed.
LEMMA LayersInitInv == LayersInit => LayersInv
BY DEF LayersInit, LayersInv, InStep, RoundTrip, TypeKept, FailsForCause

\* After an exception nothing remains to be shown but its cause.
LEMMA FailIInv ==
    ASSUME LayersInv, Fail, UNCHANGED <<packet, cut>>, 
           cut # "nothing" \/ WideName \/ LongName \/ packet.type = "MY_LOCATION"
    PROVE  LayersInv'
BY DEF LayersInv, Fail, Go, InStep, RoundTrip, TypeKept, FailsForCause, WideName, LongName

\* While the packet is on its way the three properties say nothing.
LEMMA OnTheWay ==
    ASSUME LayersInv, UNCHANGED packet, cut' \in {"nothing", "payload", "length"}, 
           step' \notin {"done", "failed"}, InStep'
    PROVE  LayersInv'
BY DEF LayersInv, RoundTrip, TypeKept, FailsForCause

\* getBuffer() of either side; of the client it throws only for a character of two bytes.
LEMMA PackIInv == LayersInv /\ Pack => LayersInv'
<1> SUFFICES ASSUME LayersInv, Pack
             PROVE  LayersInv'
    OBVIOUS
<1>1. /\ packet \in Packets /\ packet.from \in {"server", "client"} /\ cut = "nothing"
      /\ packet' = packet /\ cut' = cut
    BY PacketSays DEF LayersInv, InStep, Pack
<1>2. CASE packet.from = "client" /\ ~JavaFits(packet)
    <2>1. packet.type \in NameTypes /\ ~(Len(packet.fields[1]) <= packet.chars)
        BY <1>2 DEF JavaFits
    <2>2. Len(packet.fields[1]) \in Nat /\ packet.chars \in Nat
        BY <1>1, <2>1, NameHas
    <2>3. WideName
        BY <2>1, <2>2 DEF WideName
    <2>4. Fail
        BY <1>2 DEF Pack
    <2> QED
        BY <1>1, <2>3, <2>4, FailIInv
<1>3. CASE ~(packet.from = "client" /\ ~JavaFits(packet))
    <2>1. step' = "packed" /\ data' = PlainText(packet)
        BY <1>1, <1>3 DEF Pack, Go, PlainText
    <2>2. InStep'
        BY <1>1, <1>3, <2>1 DEF InStep
    <2> QED
        BY <1>1, <2>1, <2>2, OnTheWay
<1> QED
    BY <1>2, <1>3

\* The array of the client refuses only a name that fills it, or a location.
LEMMA EncryptDataIInv == LayersInv /\ EncryptData => LayersInv'
<1> SUFFICES ASSUME LayersInv, EncryptData
             PROVE  LayersInv'
    OBVIOUS
<1>1. /\ packet \in Packets /\ packet.from \in {"server", "client"} /\ cut = "nothing"
      /\ packet' = packet /\ cut' = cut
      /\ data = PlainText(packet) /\ (packet.from = "client" => JavaFits(packet))
    BY PacketSays DEF LayersInv, InStep, EncryptData
<1>2. Blocks(packet) = IF packet.from = "server" THEN Encrypt(packet.key, data)
                                                 ELSE JavaEncrypt(packet.key, data)
    BY <1>1 DEF Blocks
<1>3. IF packet.from = "client" /\ SizeOf(Blocks(packet)) > Length THEN Fail ELSE Go("encrypted", Blocks(packet))
    BY <1>2, Zenon DEF EncryptData
<1>4. CASE packet.from = "client" /\ SizeOf(Blocks(packet)) > Length
    <2>1. packet.type = "MY_LOCATION" \/ (packet.type \in NameTypes /\ packet.chars >= Length - 1)
        BY <1>1, <1>4, TooLong
    <2>2. packet.type = "MY_LOCATION" \/ LongName
        BY <2>1 DEF LongName
    <2> QED
        BY <1>1, <1>3, <1>4, <2>2, FailIInv
<1>5. CASE ~(packet.from = "client" /\ SizeOf(Blocks(packet)) > Length)
    <2>1. step' = "encrypted" /\ data' = Blocks(packet)
        BY <1>3, <1>5 DEF Go
    <2>2. Fits(packet)
        <3>1. SizeOf(Blocks(packet)) \in Nat /\ Length \in Nat
            BY <1>1, SizeTyped DEF Length
        <3> QED
            BY <1>1, <1>5, <3>1 DEF Fits
    <2>3. InStep'
        BY <1>1, <2>1, <2>2 DEF InStep
    <2> QED
        BY <1>1, <2>1, <2>3, OnTheWay
<1> QED
    BY <1>4, <1>5

\* A length that fits into two bytes arrives as it is.
LEMMA SendIInv == LayersInv /\ Send => LayersInv'
<1> SUFFICES ASSUME LayersInv, Send
             PROVE  LayersInv'
    OBVIOUS
<1>1. /\ packet \in Packets /\ packet.from \in {"server", "client"} /\ cut = "nothing"
      /\ packet' = packet /\ cut' = cut /\ data = Blocks(packet) /\ Fits(packet)
    BY PacketSays DEF LayersInv, InStep, Send
<1>2. SizeOf(Blocks(packet)) % Word = SizeOf(Blocks(packet))
    <2>1. SizeOf(Blocks(packet)) \in Nat /\ SizeOf(Blocks(packet)) <= 1024
        <3>1. CASE packet.from = "server"
            <4>1. SizeOf(Blocks(packet)) \in Nat /\ SizeOf(Blocks(packet)) <= 64
                BY <1>1, <3>1, SizeTyped
            <4> QED
                BY <4>1
        <3>2. CASE packet.from = "client"
            BY <1>1, <3>2, SizeTyped DEF Fits, Length
        <3> QED
            BY <1>1, <3>1, <3>2
    <2> QED
        BY <2>1 DEF Word
<1>3. step' = "sent" /\ data' = [length |-> SizeOf(Blocks(packet)), blocks |-> Blocks(packet)]
    BY <1>1, <1>2 DEF Send, Go
<1>4. InStep'
    BY <1>1, <1>3 DEF InStep
<1> QED
    BY <1>1, <1>3, <1>4, OnTheWay

\* A whole read gives the blocks, a read of the client a part of them, or noise.
LEMMA ReceiveIInv ==
    LayersInv /\ (ReceiveWhole \/ ReceiveShifted \/ \E n \in 1..Length : ReceivePart(n)) => LayersInv'
<1> SUFFICES ASSUME LayersInv, ReceiveWhole \/ ReceiveShifted \/ \E n \in 1..Length : ReceivePart(n)
             PROVE  LayersInv'
    OBVIOUS
<1>1. /\ packet \in Packets /\ packet' = packet /\ cut = "nothing" /\ step = "sent"
      /\ data = [length |-> SizeOf(Blocks(packet)), blocks |-> Blocks(packet)]
    BY DEF LayersInv, InStep, ReceiveWhole, ReceiveShifted, ReceivePart
<1>2. data.length = SizeOf(Blocks(packet)) /\ data.blocks = Blocks(packet)
    BY <1>1
<1>3. CASE ReceiveWhole
    <2>1. step' = "read" /\ cut' = cut /\ data' = Blocks(packet)
        <3>1. FirstBytes(Blocks(packet), SizeOf(Blocks(packet))) = Blocks(packet)
            BY <1>1, SizeTyped
        <3> QED
            BY <1>2, <1>3, <3>1 DEF ReceiveWhole, Go
    <2>2. InStep'
        BY <1>1, <2>1 DEF InStep
    <2> QED
        BY <1>1, <2>1, <2>2, OnTheWay
<1>4. CASE ReceiveShifted
    <2>1. step' = "read" /\ cut' = "length" /\ packet.from = "server"
        BY <1>4 DEF ReceiveShifted, Go
    <2>2. InStep'
        BY <1>1, <2>1 DEF InStep
    <2> QED
        BY <1>1, <2>1, <2>2, OnTheWay
<1>5. CASE \E n \in 1..Length : ReceivePart(n)
    <2>1. PICK n \in 1..Length : ReceivePart(n)
        BY <1>5
    <2>2. /\ step' = "read" /\ cut' = "payload" /\ packet.from = "server"
          /\ n \in 1..(SizeOf(Blocks(packet)) - 1) /\ data' = FirstBytes(Blocks(packet), n)
        BY <1>2, <2>1 DEF ReceivePart, Go
    <2>3. CutRead'
        BY <1>1, <2>2 DEF CutRead
    <2>4. InStep'
        BY <1>1, <2>2, <2>3 DEF InStep
    <2> QED
        BY <1>1, <2>2, <2>4, OnTheWay
<1> QED
    BY <1>3, <1>4, <1>5

\* Decryption gives what was packed, or something that begins like it.
LEMMA DecryptDataIInv == LayersInv /\ DecryptData => LayersInv'
<1> SUFFICES ASSUME LayersInv, DecryptData
             PROVE  LayersInv'
    OBVIOUS
<1>1. /\ packet \in Packets /\ packet' = packet /\ cut' = cut /\ step = "read"
      /\ cut \in {"nothing", "payload", "length"} /\ (cut # "nothing" => packet.from = "server")
      /\ (cut = "nothing" => data = Blocks(packet)) /\ (cut = "payload" => CutRead)
    BY DEF LayersInv, InStep, DecryptData
<1>2. IF Opened(packet, data) # {} THEN \E text \in Opened(packet, data) : Go("decrypted", text) ELSE Fail
    BY Zenon DEF DecryptData, Opened
<1>3. CASE Opened(packet, data) = {}
    <2>1. cut # "nothing"
        BY <1>1, <1>3, WholeOpens
    <2> QED
        BY <1>1, <1>2, <1>3, <2>1, FailIInv
<1>4. CASE Opened(packet, data) # {}
    <2>1. PICK text \in Opened(packet, data) : Go("decrypted", text)
        BY <1>2, <1>4
    <2>2. step' = "decrypted" /\ data' = text
        BY <2>1 DEF Go
    <2>3. cut = "nothing" => text = PlainText(packet)
        BY <1>1, WholeOpens
    <2>4. ASSUME cut = "payload"
          PROVE  packet.from = "server" /\ text # <<>> /\ text[1] = TypeByte(Code[packet.type])
        <3>1. PICK n \in 1..(SizeOf(Blocks(packet)) - 1) : data = FirstBytes(Blocks(packet), n)
            BY <1>1, <2>4 DEF CutRead
        <3>2. packet.from = "server"
            BY <1>1, <2>4
        <3>3. text \in JavaDecrypt(packet.key, FirstBytes(Blocks(packet), n))
            BY <3>1, <3>2 DEF Opened
        <3> QED
            BY <1>1, <3>2, <3>3, PartOpens
    <2>5. Kept(packet)'
        BY <1>1, <2>2, <2>3, <2>4 DEF Kept
    <2>6. InStep'
        BY <1>1, <2>2, <2>5 DEF InStep
    <2> QED
        BY <1>1, <2>2, <2>6, OnTheWay
<1> QED
    BY <1>3, <1>4

\* Only after a read that was cut in the length is what arrived no block of the packet.
LEMMA DecryptNoiseIInv == LayersInv /\ DecryptNoise => LayersInv'
<1> SUFFICES ASSUME LayersInv, DecryptNoise
             PROVE  LayersInv'
    OBVIOUS
<1>1. /\ packet \in Packets /\ packet' = packet /\ cut' = cut /\ step = "read"
      /\ cut \in {"nothing", "payload", "length"} /\ (cut # "nothing" => packet.from = "server")
      /\ (cut = "nothing" => data = Blocks(packet)) /\ (cut = "payload" => CutRead)
      /\ data[1].key = "garbled" /\ step' = "decrypted"
    BY DEF LayersInv, InStep, DecryptNoise, Go
<1>2. packet.key # "garbled"
    BY <1>1, PacketSays, SentTypes DEF KeyOf
<1>3. cut # "nothing"
    BY <1>1, <1>2, SizeTyped
<1>4. cut # "payload"
    <2>1. ASSUME CutRead
          PROVE  data[1].key = packet.key
        <3>1. PICK n \in 1..(SizeOf(Blocks(packet)) - 1) : data = FirstBytes(Blocks(packet), n)
            BY <2>1 DEF CutRead
        <3>2. n \in 1..SizeOf(Blocks(packet))
            BY <1>1, SizeTyped
        <3> QED
            BY <1>1, <3>1, <3>2, SizeTyped
    <2> QED
        BY <1>1, <1>2, <2>1
<1>5. Kept(packet)'
    BY <1>1, <1>3, <1>4 DEF Kept
<1>6. InStep'
    BY <1>1, <1>5 DEF InStep
<1> QED
    BY <1>1, <1>6, OnTheWay

\* The handler of the type makes the packet that was sent.
LEMMA ParseIInv == LayersInv /\ Parse => LayersInv'
<1> SUFFICES ASSUME LayersInv, Parse
             PROVE  LayersInv'
    OBVIOUS
<1>1. /\ packet \in Packets /\ packet' = packet /\ cut' = cut /\ step = "decrypted"
      /\ cut \in {"nothing", "payload", "length"} /\ (cut # "nothing" => packet.from = "server")
      /\ (cut = "nothing" => data = PlainText(packet))
      /\ (cut = "payload" => data[1] = TypeByte(Code[packet.type]))
    BY DEF LayersInv, InStep, Parse, Kept
<1>2. CASE Reads(data) = {}
    <2>1. cut # "nothing" \/ packet.type = "MY_LOCATION"
        BY <1>1, <1>2, WholeRead
    <2>2. Fail
        BY <1>2 DEF Parse
    <2> QED
        BY <1>1, <2>1, <2>2, FailIInv
<1>3. CASE Reads(data) # {}
    <2>1. received' \in Reads(data) /\ step' = "done"
        BY <1>3 DEF Parse, Go
    <2>2. RoundTrip'
        BY <1>1, <2>1, WholeRead DEF RoundTrip
    <2>3. cut # "length" => data[1] = TypeByte(Code[packet.type])
        BY <1>1, TextTyped
    <2>4. TypeKept'
        BY <1>1, <2>1, <2>3, TypeRead DEF TypeKept
    <2>5. InStep'
        BY <1>1, <2>1 DEF InStep
    <2>6. FailsForCause'
        BY <2>1 DEF FailsForCause
    <2> QED
        BY <1>1, <2>2, <2>4, <2>5, <2>6 DEF LayersInv
<1> QED
    BY <1>2, <1>3

\* The text, its blocks, the frame and what is read of it are at every step those of the
\* packet that was given to the sender, unless a read of the client was cut short.
THEOREM LayersInvariant == LayersSpec => []LayersInv
<1>1. LayersInv /\ [LayersNext]_layersVars => LayersInv'
    <2> SUFFICES ASSUME LayersInv, [LayersNext]_layersVars
                 PROVE  LayersInv'
        OBVIOUS
    <2>1. CASE LayersNext
        <3>1. CASE Pack
            BY <3>1, PackIInv
        <3>2. CASE EncryptData
            BY <3>2, EncryptDataIInv
        <3>3. CASE Send
            BY <3>3, SendIInv
        <3>4. CASE ReceiveWhole \/ ReceiveShifted \/ \E n \in 1..Length : ReceivePart(n)
            BY <3>4, ReceiveIInv
        <3>5. CASE DecryptData
            BY <3>5, DecryptDataIInv
        <3>6. CASE DecryptNoise
            BY <3>6, DecryptNoiseIInv
        <3>7. CASE Parse
            BY <3>7, ParseIInv
        <3> QED
            BY <2>1, <3>1, <3>2, <3>3, <3>4, <3>5, <3>6, <3>7, Zenon DEF LayersNext
    <2>2. CASE UNCHANGED layersVars
        <3>1. UNCHANGED <<packet, step, data, cut, received>>
            BY <2>2 DEF layersVars
        <3> QED
            BY <3>1 DEF LayersInv, InStep, Kept, CutRead, RoundTrip, TypeKept, FailsForCause, WideName, LongName
    <2> QED
        BY <2>1, <2>2
<1> QED
    BY <1>1, LayersInitInv, PTL DEF LayersSpec

\* The layers of the two programs fit: for names of every length, a packet whose fields both
\* sides lay out alike and that is read whole is the packet that was sent.
THEOREM RoundTripHolds == LayersSpec => []RoundTrip
<1>1. LayersInv => RoundTrip
    BY DEF LayersInv
<1> QED
    BY <1>1, LayersInvariant, PTL

\* Reading once, as the client does, never turns a packet into one of another type, unless
\* the read stopped inside the length.
THEOREM TypeKeptHolds == LayersSpec => []TypeKept
<1>1. LayersInv => TypeKept
    BY DEF LayersInv
<1> QED
    BY <1>1, LayersInvariant, PTL

\* No packet is refused by a layer of either side but for the four causes: a read cut short, a
\* character of two bytes, a name that fills the client's array, and the client's location.
THEOREM FailsForCauseHolds == LayersSpec => []FailsForCause
<1>1. LayersInv => FailsForCause
    BY DEF LayersInv
<1> QED
    BY <1>1, LayersInvariant, PTL
=============================================================================
