------------------------------ MODULE BufferOut -----------------------------
(***************************************************************************)
(* How packets leave: sendData of client/SimpleClient.cpp and the sending  *)
(* half of client/ClientBuffer.cpp.  The Server thread sends for the       *)
(* session and the Sender thread when epoll says that the socket has room; *)
(* both run the same code on the same bufferOut, whose stage has no lock.  *)
(* Pushes and pops of bufferOut are atomic (BlockingBuffer), and so is a   *)
(* system call; every use of the stage is a step of its own.               *)
(*                                                                         *)
(* The peer stays and reads: a peer that is gone is in ServerCore.         *)
(***************************************************************************)
EXTENDS Buffer, FiniteSets, Integers

CONSTANTS
    MaxPackets, \* bound: packets the session sends
    Lengths,    \* the lengths of the payloads
    MaxRoom     \* bytes of the send buffer of the socket

ASSUME BoundsAssumption == MaxPackets \in Nat \ {0} /\ MaxRoom \in Nat \ {0}
ASSUME LengthsAssumption == Lengths \subseteq Nat \ {0}

Threads == {"session", "sender"}

\* A byte of payload is its packet and its place; a header byte is the size it
\* belongs to, with packet 0.
Byte == [packet : 0..MaxPackets, size : Nat, place : Nat]
Payload(p, n) == [i \in 1..n |-> [packet |-> p, size |-> 0, place |-> i]]
Header(n) == [i \in 1..2 |-> [packet |-> 0, size |-> n, place |-> i]]

VARIABLES
    sent,       \* the payloads the session has handed to sendData
    bufferOut,
    stage,      \* of bufferOut: "Empty", "Full", "Sending"
    pc,         \* per thread: where it is
    hand,       \* per thread: the bytes that are in none of the buffers
    room,       \* free bytes in the send buffer of the socket
    wanting,    \* a call has found too little room, so the socket owes an edge
    edge,       \* epoll has an event for the Sender thread
    wire,       \* the bytes the socket has accepted
    notices,    \* PacketSend messages told to the session
    disturbed   \* both threads have been in send() at once, or a packet was
                \* put behind one that was not gone yet

vars == <<sent, bufferOut, stage, pc, hand, room, wanting, edge, wire, notices, disturbed>>

TypeOK ==
    /\ sent \in Seq(Seq(Byte))
    /\ bufferOut \in [chunks : Seq(Seq(Byte)), size : Nat]
    /\ stage \in {"Empty", "Full", "Sending"}
    /\ pc \in [Threads -> {"idle", "setFull", "test", "push", "setSending", "loop",
                           "pop", "call", "rest", "setEmpty", "notify"}]
    /\ hand \in [Threads -> Seq(Byte)]
    /\ room \in 0..MaxRoom /\ wire \in Seq(Byte)
    /\ notices \in Nat
    /\ {wanting, edge, disturbed} \subseteq BOOLEAN

\* The Sender has registered the socket, which gives a first edge.
Init ==
    /\ sent = <<>> /\ wire = <<>>
    /\ bufferOut = EmptyBuffer /\ stage = "Empty"
    /\ pc = [t \in Threads |-> "idle"]
    /\ hand = [t \in Threads |-> <<>>]
    /\ room = MaxRoom /\ wanting = FALSE /\ edge = TRUE
    /\ notices = 0 /\ disturbed = FALSE

Goto(t, where) == pc' = [pc EXCEPT ![t] = where]
Hold(t, bytes) == hand' = [hand EXCEPT ![t] = bytes]

-----------------------------------------------------------------------------
(* Who calls send() *)

\* sendData, for an answer, an update or the next of the remaining packets.
SendData ==
    /\ pc["session"] = "idle" /\ Len(sent) < MaxPackets
    /\ \E n \in Lengths :
         LET payload == Payload(Len(sent) + 1, n) IN
         /\ sent' = Append(sent, payload)
         /\ bufferOut' = PushBack(bufferOut, payload)
    /\ disturbed' = (disturbed \/ stage # "Empty" \/ pc["sender"] # "idle")
    /\ Goto("session", "setFull")
    /\ UNCHANGED <<stage, hand, room, wanting, edge, wire, notices>>

SetFull ==
    /\ pc["session"] = "setFull"
    /\ stage' = "Full"
    /\ Goto("session", "test")
    /\ UNCHANGED <<sent, bufferOut, hand, room, wanting, edge, wire, notices, disturbed>>

\* An event of epoll in the Sender thread.
Writable ==
    /\ edge /\ pc["sender"] = "idle"
    /\ edge' = FALSE
    /\ disturbed' = (disturbed \/ pc["session"] # "idle")
    /\ Goto("sender", "test")
    /\ UNCHANGED <<sent, bufferOut, stage, hand, room, wanting, wire, notices>>

\* The peer has read: an edge if a call found too little room before.
Drain ==
    /\ room < MaxRoom
    /\ \E n \in (room + 1)..MaxRoom : room' = n
    /\ edge' = (edge \/ wanting)
    /\ wanting' = FALSE
    /\ UNCHANGED <<sent, bufferOut, stage, pc, hand, wire, notices, disturbed>>

-----------------------------------------------------------------------------
(* send() in thread t *)

\* The first if, and the size that goes into the header.
Test(t) ==
    /\ pc[t] = "test"
    /\ IF stage = "Full"
       THEN Hold(t, Header(bufferOut.size)) /\ Goto(t, "push")
       ELSE UNCHANGED hand /\ Goto(t, "loop")
    /\ UNCHANGED <<sent, bufferOut, stage, room, wanting, edge, wire, notices, disturbed>>

\* BlockingBuffer::push_front of the size that was read before its mutex.
PushHeader(t) ==
    /\ pc[t] = "push"
    /\ bufferOut' = PushFront(bufferOut, hand[t])
    /\ Hold(t, <<>>)
    /\ Goto(t, "setSending")
    /\ UNCHANGED <<sent, stage, room, wanting, edge, wire, notices, disturbed>>

SetSending(t) ==
    /\ pc[t] = "setSending"
    /\ stage' = "Sending"
    /\ Goto(t, "loop")
    /\ UNCHANGED <<sent, bufferOut, hand, room, wanting, edge, wire, notices, disturbed>>

Loop(t) ==
    /\ pc[t] = "loop"
    /\ Goto(t, IF stage = "Sending" THEN "pop" ELSE "idle")
    /\ UNCHANGED <<sent, bufferOut, stage, hand, room, wanting, edge, wire, notices, disturbed>>

\* BlockingBuffer::pop(); that of an empty buffer throws, and epoll's loop catches it.
Pop(t) ==
    /\ pc[t] = "pop"
    /\ IF CanPopFront(bufferOut)
       THEN /\ bufferOut' = AfterPopFront(bufferOut)
            /\ Hold(t, Head(bufferOut.chunks))
            /\ Goto(t, "call")
       ELSE Goto(t, "idle") /\ UNCHANGED <<bufferOut, hand>>
    /\ UNCHANGED <<sent, stage, room, wanting, edge, wire, notices, disturbed>>

\* ::send takes what there is room for.
Count(t) == IF Len(hand[t]) < room THEN Len(hand[t]) ELSE room
Call(t) ==
    /\ pc[t] = "call"
    /\ wire' = wire \o SubSeq(hand[t], 1, Count(t))
    /\ room' = room - Count(t)
    /\ wanting' = (wanting \/ Count(t) < Len(hand[t]))
    /\ Hold(t, SubSeq(hand[t], Count(t) + 1, Len(hand[t])))
    /\ Goto(t, "rest")
    /\ UNCHANGED <<sent, bufferOut, stage, edge, notices, disturbed>>

RestDropped(t) == bufferOut
RestBehind(t) == PushBack(bufferOut, hand[t])
RestPushed(t) == PushFront(bufferOut, hand[t])

AlwaysEmpty(t) == "setEmpty"
OneVector(t) == IF bufferOut.size = 0 THEN "setEmpty" ELSE "idle"
\* The rest goes back and the loop ends; or all is gone; or the next vector.
AfterRest(t) == IF bufferOut.size = 0 THEN "setEmpty" ELSE "loop"
Rest(t) ==
    /\ pc[t] = "rest"
    /\ IF hand[t] # <<>>
       THEN bufferOut' = RestPushed(t) /\ Hold(t, <<>>) /\ Goto(t, "idle")
       ELSE Goto(t, AfterRest(t)) /\ UNCHANGED <<bufferOut, hand>>
    /\ UNCHANGED <<sent, stage, room, wanting, edge, wire, notices, disturbed>>

SetEmpty(t) ==
    /\ pc[t] = "setEmpty"
    /\ stage' = "Empty"
    /\ Goto(t, "notify")
    /\ UNCHANGED <<sent, bufferOut, hand, room, wanting, edge, wire, notices, disturbed>>

\* The PacketSend message.
Notify(t) ==
    /\ pc[t] = "notify"
    /\ notices' = notices + 1
    /\ Goto(t, "idle")
    /\ UNCHANGED <<sent, bufferOut, stage, hand, room, wanting, edge, wire, disturbed>>

send(t) ==
    \/ Test(t) \/ PushHeader(t) \/ SetSending(t) \/ Loop(t)
    \/ Pop(t) \/ Call(t) \/ Rest(t) \/ SetEmpty(t) \/ Notify(t)

Session == SendData \/ SetFull
Next == Session \/ Writable \/ Drain \/ \E t \in Threads : send(t)

Spec == Init /\ [][Next]_vars

-----------------------------------------------------------------------------
(* Properties *)

\* What the peer should see of the packets: each behind its length.
Framed(packets) == FlattenSeq([i \in DOMAIN packets |-> Header(Len(packets[i])) \o packets[i]])

\* Where a byte of payload can be.
Places(b) ==
    LET In(s) == {i \in DOMAIN s : s[i] = b}
    IN  Cardinality(In(wire)) + Cardinality(In(Content(bufferOut)))
        + Cardinality(In(hand["session"])) + Cardinality(In(hand["sender"]))

\* No byte of a packet is lost or sent twice, even when both threads run send()
\* at once or a packet is put behind one that is half sent.
NothingLost == \A p \in DOMAIN sent : \A i \in DOMAIN sent[p] : Places(sent[p][i]) = 1

\* When the threads do not disturb each other the peer sees the packets, each
\* behind its length, however often the socket is full.
FramedUnlessDisturbed == ~disturbed => IsPrefix(wire, Framed(sent))

\* The session is told of as many packets as are wholly on the wire: of none before
\* bufferOut is marked Empty, and of all when it is, but for a notice that the Sender
\* is just about to push.
NoticesCount ==
    ~disturbed =>
        /\ notices <= Len(sent)
        /\ Len(Framed(SubSeq(sent, 1, notices))) <= Len(wire)
        /\ (stage = "Empty" /\ pc["session"] = "idle" /\ pc["sender"] # "notify")
            => notices = Len(sent)

\* What is left in bufferOut when both threads have gone has an event coming:
\* only an edge brings the Sender back, and the socket gives one only after a
\* call that found too little room.
RestHasEdge ==
    (~disturbed /\ bufferOut.size > 0 /\ \A t \in Threads : pc[t] = "idle")
        => edge \/ wanting

-----------------------------------------------------------------------------
(* What a comment of the source says, and the code does not keep *)

\* main.cpp:84, "sending ok": what the peer sees are the packets, each behind its
\* length.
WireFramed == IsPrefix(wire, Framed(sent))
=============================================================================
