------------------------------ MODULE BufferIn ------------------------------
(***************************************************************************)
(* How packets are cut out of the bytes of a socket: the receiving half of *)
(* client/ClientBuffer.cpp in the Receiver thread, recvData of             *)
(* client/SimpleClient.cpp in the Server thread, and the framing of the    *)
(* peer (SimpleMessenger.java).                                            *)
(*                                                                         *)
(* TCP delivers the bytes in pieces of any size, and each piece is an edge *)
(* for epoll.  A system call and everything up to the next one is a step.  *)
(* recv(n) reads into a vector that it resizes to what remains, at an      *)
(* offset that counts what it has: the bytes behind the size of the last   *)
(* resize are gone when the vector grows again in the end.                 *)
(*                                                                         *)
(* The session is told of a packet by a message in its queue, which also   *)
(* takes the notices of packets sent, the Update messages of other         *)
(* sessions and Close.  Messages pushed before the Server thread looks     *)
(* share one edge, and one call of ProtocolClient::recv takes one of them: *)
(* a packet may wait for the next message of any kind, or for ever.        *)
(***************************************************************************)
EXTENDS Buffer, Integers

CONSTANTS
    Packets,    \* the payloads a peer may send
    Base,       \* values of a byte (256 in the code)
    MaxPackets, \* bound: packets sent
    MaxOthers   \* bound: PacketSend and Update messages pushed

Bytes == 0..(Base - 1)
\* A length has two bytes; the arrays of the peer are far shorter than it can say.
ASSUME PacketsAssumption ==
    \A p \in Packets : p # <<>> /\ p \in Seq(Bytes) /\ Len(p) < Base * Base
ASSUME BaseAssumption == Base \in Nat \ {0, 1}
ASSUME BoundsAssumption == MaxOthers \in Nat

VARIABLES
    sent,       \* the packets the peer has sent
    coming,     \* bytes in the network
    socket,     \* bytes in the receive buffer of the socket
    eof,        \* "no", "coming", or "here" behind the bytes in socket
    edge,       \* epoll has an event for the Receiver thread
    bufferIn,
    stage,      \* of bufferIn: "Empty", "Receiving", "Full"
    maxSize,
    pc,         \* Receiver thread: "idle", or in recv(2) or recv(remainingSize)
    local,      \* what recv(n) has got so far
    room,       \* the size of its vector
    close,
    notices,    \* PacketReceive messages that wait for the session
    taken,      \* the session has popped bufferIn and not yet set its stage
    delivered,  \* the packets the session has got
    toPush,     \* PacketSend and Update messages that may still be pushed
    others,     \* such messages in the session's queue
    closes,     \* Close messages in it
    queueEdge,  \* epoll has an event for the queue
    woken,      \* it has been reported, and recv is to be called
    closing,    \* the session has asked for its erasure
    gone,       \* the manager has destroyed it
    split,      \* a recv(n) was not given its bytes by one system call
    headerSplit \* ... and it was one for the length of a packet

network  == <<sent, coming, eof>>
buffer   == <<bufferIn, stage, maxSize>>
call     == <<pc, local, room>>
session  == <<notices, taken, delivered>>
mail     == <<toPush, others, closes, queueEdge, woken>>
ending   == <<closing, gone>>
ghosts   == <<split, headerSplit>>
vars     == <<network, socket, edge, buffer, call, close, session, mail, ending, ghosts>>

BytesTypeOK ==
    /\ sent \in Seq(Packets) /\ coming \in Seq(Bytes) /\ socket \in Seq(Bytes)
    /\ eof \in {"no", "coming", "here"}
    /\ stage \in {"Empty", "Receiving", "Full"} /\ maxSize \in Nat
    /\ pc \in {"idle", "header", "payload"}
    /\ local \in Seq(Bytes) /\ room \in Nat
    /\ notices \in 0..1
    /\ {edge, close, taken, split, headerSplit} \subseteq BOOLEAN

MailTypeOK ==
    /\ {toPush, others, closes} \subseteq Nat
    /\ {queueEdge, woken, closing, gone} \subseteq BOOLEAN

TypeOK == BytesTypeOK /\ MailTypeOK

Init ==
    /\ sent = <<>> /\ coming = <<>> /\ eof = "no"
    /\ socket = <<>> /\ edge = FALSE
    /\ bufferIn = EmptyBuffer /\ stage = "Empty" /\ maxSize = 0
    /\ pc = "idle" /\ local = <<>> /\ room = 0
    /\ close = FALSE
    /\ notices = 0 /\ taken = FALSE /\ delivered = <<>>
    /\ toPush = MaxOthers /\ others = 0 /\ closes = 0 /\ queueEdge = FALSE /\ woken = FALSE
    /\ closing = FALSE /\ gone = FALSE
    /\ split = FALSE /\ headerSplit = FALSE

-----------------------------------------------------------------------------
(* The peer and the network *)

\* SimpleMessenger.send: the length in two bytes, low byte first, and the payload.
Frame(p) == <<Len(p) % Base, Len(p) \div Base>> \o p

Send ==
    /\ Len(sent) < MaxPackets /\ eof = "no"
    /\ \E p \in Packets :
         /\ sent' = Append(sent, p)
         /\ coming' = coming \o Frame(p)
    /\ UNCHANGED <<eof, socket, edge, buffer, call, close, session, mail, ending, ghosts>>

Disconnect ==
    /\ eof = "no"
    /\ eof' = "coming"
    /\ UNCHANGED <<sent, coming, socket, edge, buffer, call, close, session, mail, ending, ghosts>>

\* A piece of the stream, or its end, reaches the socket.
Deliver ==
    /\ \/ \E k \in 1..Len(coming) :
            /\ socket' = socket \o SubSeq(coming, 1, k)
            /\ coming' = SubSeq(coming, k + 1, Len(coming))
            /\ UNCHANGED eof
       \/ /\ eof = "coming" /\ coming = <<>>
          /\ eof' = "here"
          /\ UNCHANGED <<socket, coming>>
    /\ edge' = TRUE
    /\ UNCHANGED <<sent, buffer, call, close, session, mail, ending, ghosts>>

-----------------------------------------------------------------------------
(* The Receiver thread *)

remainingSize == maxSize - bufferIn.size

\* recv() ends with a closed connection.
NotifyClose == closes' = closes + 1 /\ queueEdge' = TRUE

\* recv(n) begins: a vector of n bytes.
Call(where, n) == pc' = where /\ room' = n /\ local' = <<>>

AwaitsHeaderWhenFull == stage # "Receiving"
AwaitsHeader == stage = "Empty"

\* epoll_wait and the branches of recv(); with a full bufferIn the edge is used up
\* for nothing, with a closed connection for another Close.
Event ==
    /\ edge /\ pc = "idle"
    /\ edge' = FALSE
    /\ CASE ~close /\ AwaitsHeader -> Call("header", 2)
         [] ~close /\ stage = "Receiving" -> Call("payload", remainingSize)
         [] OTHER -> UNCHANGED call
    /\ IF close THEN NotifyClose ELSE UNCHANGED <<closes, queueEdge>>
    /\ UNCHANGED <<network, socket, buffer, close, session, toPush, others, woken, ending, ghosts>>

\* The n of the running recv(n), and what it still waits for.
Wanted == IF pc = "header" THEN 2 ELSE remainingSize
Remaining == Wanted - Len(local)

\* while (!isClose() && remaining): resize and ::recv.
ReadSome ==
    LET count == IF Len(socket) < Remaining THEN Len(socket) ELSE Remaining IN
    /\ pc # "idle" /\ Remaining > 0 /\ socket # <<>>
    /\ local' = local \o SubSeq(socket, 1, count)
    /\ socket' = SubSeq(socket, count + 1, Len(socket))
    /\ room' = Remaining
    /\ split' = (split \/ count < Wanted)
    /\ headerSplit' = (headerSplit \/ (pc = "header" /\ count < Wanted))
    /\ UNCHANGED <<network, edge, buffer, pc, close, session, mail, ending>>

\* The vector after the last resize: zeros behind the size it had before.
AllOfLocal(size) == local
Result(size) == [i \in DOMAIN local |-> IF i <= size THEN local[i] ELSE 0]

\* The size that is read from the two bytes, or the one, of a header.
LowByteOf(bytes) == bytes[1]
SizeOf(bytes) == bytes[1] + (IF Len(bytes) > 1 THEN Base * bytes[2] ELSE 0)

\* recv(2) has returned these bytes.
HeaderDone(bytes) ==
    /\ IF bytes = <<>>
       THEN UNCHANGED <<stage, maxSize>> /\ Call("idle", 0)
       ELSE /\ stage' = "Receiving"
            /\ maxSize' = SizeOf(bytes)
            /\ Call("payload", SizeOf(bytes))
    /\ UNCHANGED <<bufferIn, notices, queueEdge>>

FilledEarly(bytes) == bytes # <<>>
NotifyNobody == UNCHANGED <<notices, queueEdge>>
NotifyClient == notices' = notices + 1 /\ queueEdge' = TRUE

\* recv(remainingSize) has returned these bytes: the packet is whole, or not yet.
Filled(bytes) == bytes # <<>> /\ remainingSize = Len(bytes)
PayloadDone(bytes) ==
    /\ bufferIn' = IF bytes = <<>> THEN bufferIn ELSE PushBack(bufferIn, bytes)
    /\ IF Filled(bytes)
       THEN stage' = "Full" /\ NotifyClient
       ELSE UNCHANGED <<stage, notices, queueEdge>>
    /\ Call("idle", 0)
    /\ UNCHANGED maxSize

Return(bytes) == IF pc = "header" THEN HeaderDone(bytes) ELSE PayloadDone(bytes)

\* Nothing remains.
ReadDone ==
    /\ pc # "idle" /\ Remaining = 0
    /\ Return(Result(room))
    /\ UNCHANGED <<network, socket, edge, close, taken, delivered, others, closes, woken, ending>>
    /\ UNCHANGED <<toPush, ghosts>>

\* EAGAIN, after another resize.
ReadAgain ==
    /\ pc # "idle" /\ Remaining > 0 /\ socket = <<>> /\ eof # "here"
    /\ Return(Result(Remaining))
    /\ UNCHANGED <<network, socket, edge, close, taken, delivered, others, closes, woken, ending>>
    /\ UNCHANGED <<toPush, ghosts>>

\* The end of the stream: what this call has read is dropped.
ReadEnd ==
    /\ pc # "idle" /\ Remaining > 0 /\ socket = <<>> /\ eof = "here"
    /\ close' = TRUE
    /\ Call("idle", 0)
    /\ NotifyClose
    /\ UNCHANGED <<network, socket, edge, buffer, session, toPush, others, woken, ending, ghosts>>

-----------------------------------------------------------------------------
(* The session, in the Server thread *)

\* Another thread or another session pushes a PacketSend or an Update.
PushOther ==
    /\ toPush > 0 /\ ~gone
    /\ toPush' = toPush - 1 /\ others' = others + 1 /\ queueEdge' = TRUE
    /\ UNCHANGED <<network, socket, edge, buffer, call, close, session, closes, woken>>
    /\ UNCHANGED <<ending, ghosts>>

\* epoll_wait reports the edge of the queue, which is used up by that.
Wake ==
    /\ queueEdge /\ notices + others + closes > 0
    /\ ~woken /\ ~taken /\ ~gone
    /\ queueEdge' = FALSE /\ woken' = TRUE
    /\ UNCHANGED <<network, socket, edge, buffer, call, close, session, others, closes>>
    /\ UNCHANGED <<toPush, ending, ghosts>>

\* recv takes a PacketSend or an Update, whose handlers leave bufferIn alone.
TakeOther ==
    /\ woken /\ others > 0 /\ ~gone
    /\ others' = others - 1 /\ woken' = FALSE
    /\ UNCHANGED <<network, socket, edge, buffer, call, close, session, closes, queueEdge>>
    /\ UNCHANGED <<toPush, ending, ghosts>>

\* recv takes a Close: closeConnection asks the manager to erase the client.
TakeClose ==
    /\ woken /\ closes > 0 /\ ~gone
    /\ closes' = closes - 1 /\ woken' = FALSE
    /\ closing' = TRUE
    /\ UNCHANGED <<network, socket, edge, buffer, call, close, session, others, queueEdge>>
    /\ UNCHANGED <<toPush, gone, ghosts>>

Emptied == AfterPop(bufferIn, bufferIn.size)

\* recv takes a PacketReceive, and recvData pops all of bufferIn ...
Take ==
    /\ woken /\ notices > 0 /\ ~gone
    /\ notices' = notices - 1 /\ woken' = FALSE
    /\ taken' = TRUE
    /\ delivered' = Append(delivered, Popped(bufferIn, bufferIn.size).taken)
    /\ bufferIn' = Emptied
    /\ UNCHANGED <<network, socket, edge, stage, maxSize, call, close, others, closes, queueEdge>>
    /\ UNCHANGED <<toPush, ending, ghosts>>

\* ... and sets its stage.
Free ==
    /\ taken
    /\ taken' = FALSE
    /\ stage' = "Empty"
    /\ UNCHANGED <<network, socket, edge, bufferIn, maxSize, call, close, notices, delivered>>
    /\ UNCHANGED <<mail, ending, ghosts>>

\* The manager destroys the client, between two calls of recv; here only because
\* of the end of its stream.
Erase ==
    /\ closing /\ ~gone /\ ~taken
    /\ gone' = TRUE
    /\ UNCHANGED <<network, socket, edge, buffer, call, close, session, mail, closing, ghosts>>

Receiver == Event \/ ReadSome \/ ReadDone \/ ReadAgain \/ ReadEnd
Session == Wake \/ TakeOther \/ TakeClose \/ Take \/ Free
Next == Send \/ Disconnect \/ Deliver \/ PushOther \/ Erase \/ Receiver \/ Session

Spec == Init /\ [][Next]_vars

\* The network delivers and both threads run.
FairSpec == Spec /\ WF_vars(Deliver) /\ WF_vars(Receiver) /\ WF_vars(Session)

-----------------------------------------------------------------------------
(* Properties *)

\* As long as every read has got its bytes at once, the session gets the packets
\* of the peer, none lost, doubled or cut differently, although the same bufferIn
\* is filled by one thread and emptied by the other with no lock around both.
WholeReadsIntact == ~split => IsPrefix(delivered, sent)

\* A payload that comes in pieces may lose bytes (Result) but never shifts the
\* borders of the packets: only a split length does that.
BordersKept ==
    ~headerSplit =>
        /\ Len(delivered) <= Len(sent)
        /\ \A i \in DOMAIN delivered : Len(delivered[i]) = Len(sent[i])

\* The session has been told of a packet exactly while bufferIn is Full: a second
\* notice would parse an empty buffer, a missing one would block it for ever.
NoticeIffFull == stage = "Full" <=> (notices = 1 \/ taken)

\* Bytes that no event will make the thread read before more of them arrive: it
\* reads one packet for each edge.
Stranded == ~edge /\ pc = "idle" /\ stage # "Full" /\ socket # <<>>

\* The session is not called for the packet in bufferIn: its PacketReceive shared
\* an edge with another message, and recv took that one (ProtocolClient.cpp:31).
Unheard == notices > 0 /\ ~queueEdge /\ ~woken

\* Every packet reaches the session, also when it comes in pieces, while bufferIn
\* is Full or with the end of the stream, whose Close never overtakes it, unless a
\* length was split, the socket stays stranded or the notice unheard.
SentArrives ==
    \A k \in 1..MaxPackets :
        Len(sent) >= k ~>
            (Len(delivered) >= k \/ headerSplit \/ []Stranded \/ []Unheard)

-----------------------------------------------------------------------------
(* What a comment of the source says, and the code does not keep *)

\* ClientBuffer.cpp:54, "receive count bytes": the bytes that a system call has
\* returned are received, and so is what the session gets what the peer has sent,
\* as long as the borders of the packets are known.
ReceivesCountBytes == ~headerSplit => IsPrefix(delivered, sent)
=============================================================================
