-------------------------- MODULE BufferOut_proofs --------------------------
(***************************************************************************)
(* Proofs about BufferOut, for any packets and any size of the socket's    *)
(* buffer.  Whatever the two threads do to each other, no byte is lost or  *)
(* doubled, and the counted size of bufferOut is that of its bytes (KInv). *)
(* As long as they do not disturb each other, what is left in bufferOut    *)
(* when both have gone is announced by an edge (Undisturbed), the packets  *)
(* are on the wire in order, each behind its length, and the session has   *)
(* a notice of each that is gone (Stream).                                 *)
(*                                                                         *)
(* Undisturbed takes the order in which one call of send() uses the stage, *)
(* the list of vectors and its counted size: the list has a header and a   *)
(* payload at most, so its size is the sum of two lengths.                 *)
(***************************************************************************)
EXTENDS BufferOut, Lists_proofs, FiniteSetTheorems, FunctionTheorems

Vectors == Seq(Seq(Byte))

-----------------------------------------------------------------------------
(* Lists of at most two vectors, none of them empty *)

LenAt(q, i) == IF i <= Len(q) THEN Len(q[i]) ELSE 0
Total(q) == LenAt(q, 1) + LenAt(q, 2)

Neat(q, n) == q \in Vectors /\ Len(q) <= n /\ \A i \in 1..Len(q) : q[i] # <<>>

LEMMA SeqOfLength ==
    ASSUME NEW n \in Nat, NEW h \in [1..n -> Byte]
    PROVE  h \in Seq(Byte) /\ Len(h) = n
OBVIOUS

LEMMA NeatLen ==
    ASSUME NEW q, NEW n \in Nat, Neat(q, n)
    PROVE  q \in Vectors /\ Len(q) \in 0..n /\ (Len(q) = 0 <=> q = <<>>)
<1>1. q \in Vectors /\ Len(q) <= n
    BY DEF Neat
<1>2. Len(q) \in Nat /\ (Len(q) = 0 <=> q = <<>>)
    BY <1>1 DEF Vectors
<1> QED
    BY <1>1, <1>2

LEMMA NeatEmpty ==
    ASSUME NEW q, Neat(q, 2)
    PROVE  Total(q) \in Nat /\ (Total(q) = 0 <=> q = <<>>)
<1>1. q \in Vectors /\ Len(q) \in 0..2
    BY NeatLen
<1>2. \A i \in 1..Len(q) : Len(q[i]) \in Nat /\ Len(q[i]) # 0
    <2> SUFFICES ASSUME NEW i \in 1..Len(q)
                 PROVE  Len(q[i]) \in Nat /\ Len(q[i]) # 0
        OBVIOUS
    <2>1. q[i] \in Seq(Byte) /\ q[i] # <<>>
        BY <1>1 DEF Neat, Vectors
    <2> QED
        BY <2>1
<1>3. CASE Len(q) = 0
    <2>1. q = <<>>
        BY <1>1, <1>3 DEF Vectors
    <2> QED
        BY <1>3, <2>1 DEF Total, LenAt
<1>4. CASE Len(q) \in 1..2
    <2>1. q # <<>>
        BY <1>4
    <2>2. LenAt(q, 1) \in Nat \ {0} /\ LenAt(q, 2) \in Nat
        BY <1>2, <1>4 DEF LenAt
    <2> QED
        BY <2>1, <2>2 DEF Total
<1> QED
    BY <1>1, <1>3, <1>4

LEMMA NeatPush ==
    ASSUME NEW q, Neat(q, 1), NEW x \in Seq(Byte), x # <<>>
    PROVE  Neat(<<x>> \o q, 2) /\ Total(<<x>> \o q) = Total(q) + Len(x)
<1> DEFINE r == <<x>> \o q
<1>1. q \in Vectors /\ Len(q) \in 0..1
    BY NeatLen
<1>2. /\ r \in Vectors /\ Len(r) = Len(q) + 1 /\ r[1] = x
      /\ \A i \in 1..Len(q) : r[i + 1] = q[i]
    BY <1>1 DEF Vectors
<1> HIDE DEF r
<1>3. Neat(r, 2)
    BY <1>1, <1>2 DEF Neat
<1>4. LenAt(r, 1) = Len(x) /\ LenAt(r, 2) = LenAt(q, 1) /\ LenAt(q, 2) = 0
    BY <1>1, <1>2 DEF LenAt
<1>5. Len(x) \in Nat /\ LenAt(q, 1) \in Nat
    <2>1. 1 <= Len(q) => q[1] \in Seq(Byte)
        BY <1>1 DEF Vectors
    <2> QED
        BY <2>1 DEF LenAt
<1> QED
    BY <1>3, <1>4, <1>5 DEF Total, r

LEMMA NeatTail ==
    ASSUME NEW q, Neat(q, 2), q # <<>>
    PROVE  /\ Neat(Tail(q), 1) /\ Total(Tail(q)) = Total(q) - Len(Head(q))
           /\ Head(q) \in Seq(Byte) /\ Head(q) # <<>>
<1> DEFINE r == Tail(q)
<1>1. q \in Vectors /\ Len(q) \in 1..2
    <2>1. q \in Vectors /\ Len(q) \in 0..2 /\ Len(q) # 0
        BY NeatLen
    <2> QED
        BY <2>1
<1>2. /\ r \in Vectors /\ Len(r) = Len(q) - 1 /\ Head(q) = q[1]
      /\ \A i \in 1..Len(r) : r[i] = q[i + 1]
    BY <1>1 DEF Vectors
<1> HIDE DEF r
<1>3. Head(q) \in Seq(Byte) /\ Head(q) # <<>>
    BY <1>1, <1>2 DEF Vectors, Neat
<1>4. Neat(r, 1)
    BY <1>1, <1>2 DEF Neat
<1>5. LenAt(q, 1) = Len(Head(q)) /\ LenAt(q, 2) = LenAt(r, 1) /\ LenAt(r, 2) = 0
    BY <1>1, <1>2 DEF LenAt
<1>6. Len(Head(q)) \in Nat /\ LenAt(r, 1) \in Nat
    <2>1. 1 <= Len(r) => r[1] \in Seq(Byte)
        BY <1>2 DEF Vectors
    <2> QED
        BY <1>3, <2>1 DEF LenAt
<1> QED
    BY <1>3, <1>4, <1>5, <1>6 DEF Total, r

LEMMA NeatNone == Neat(<<>>, 1) /\ Neat(<<>>, 2) /\ Total(<<>>) = 0
BY DEF Neat, Vectors, Total, LenAt

LEMMA AppendToNone ==
    ASSUME NEW x \in Seq(Byte), x # <<>>
    PROVE  Append(<<>>, x) = <<x>> \o <<>>
OBVIOUS

-----------------------------------------------------------------------------
(* One call of send() at a time *)

list == bufferOut.chunks
AnEdge == edge \/ wanting
Points == {"idle", "setFull", "test", "push", "setSending", "loop", "pop", "call", "rest", "setEmpty",
           "notify"}

Shapes ==
    /\ sent \in Vectors /\ room \in Nat
    /\ stage \in {"Empty", "Full", "Sending"}
    /\ pc \in [Threads -> Points] /\ hand \in [Threads -> Seq(Byte)]
    /\ Neat(list, 2) /\ bufferOut.size = Total(list)

\* What the place of a thread says about bufferOut.
Where(t) ==
    /\ pc[t] = "setFull" => stage = "Empty" /\ Neat(list, 1)
    /\ pc[t] = "push" => Neat(list, 1) /\ stage = "Full" /\ hand[t] # <<>>
    /\ pc[t] = "setSending" => stage = "Full"
    /\ pc[t] = "loop" => stage # "Full"
    /\ pc[t] \in {"pop", "call", "rest", "setEmpty"} => stage = "Sending"
    /\ pc[t] \in {"call", "rest"} => Neat(list, 1)
    /\ pc[t] = "setEmpty" => list = <<>>
    /\ pc[t] = "notify" => stage = "Empty"
    /\ pc[t] = "rest" /\ hand[t] # <<>> => AnEdge
    /\ pc[t] # "setFull" /\ stage = "Empty" => list = <<>>
    /\ pc[t] # "setSending" /\ stage = "Full" => Neat(list, 1)
    /\ pc[t] = "idle" /\ list # <<>> => AnEdge

\* t is the thread that is in send(), if one is: the other one is idle.
Turn(t) == (\A u \in Threads : u # t => pc[u] = "idle") /\ Where(t)

Undisturbed == Shapes /\ \E t \in Threads : Turn(t)

LEMMA UndisturbedInit ==
    ASSUME Init
    PROVE  Undisturbed
<1>1. /\ list = <<>> /\ bufferOut.size = 0 /\ stage = "Empty" /\ sent = <<>> /\ room = MaxRoom
      /\ pc = [t \in Threads |-> "idle"] /\ hand = [t \in Threads |-> <<>>]
    BY DEF Init, EmptyBuffer, list
<1>2. Neat(<<>>, 2) /\ Neat(<<>>, 1) /\ Total(<<>>) = 0
    BY NeatNone
<1>3. Shapes
    BY <1>1, <1>2, BoundsAssumption DEF Shapes, Points, Vectors
<1>4. Turn("session")
    BY <1>1, <1>2 DEF Turn, Where, Threads
<1> QED
    BY <1>3, <1>4 DEF Undisturbed, Threads

\* The thread in turn goes from one place to another.
LEMMA TurnMoves ==
    ASSUME Shapes', NEW t \in Threads, Turn(t), NEW to, pc' = [pc EXCEPT ![t] = to],
           pc'[t] = to => Where(t)'
    PROVE  Undisturbed'
<1>1. pc'[t] = to /\ \A u \in Threads : u # t => pc'[u] = "idle"
    BY DEF Shapes, Turn, Threads
<1> QED
    BY <1>1 DEF Undisturbed, Turn

LEMMA ShapesMove ==
    ASSUME Shapes, NEW t \in Threads, NEW to \in Points, pc' = [pc EXCEPT ![t] = to],
           UNCHANGED <<sent, room>>, stage' \in {"Empty", "Full", "Sending"},
           hand' \in [Threads -> Seq(Byte)], Neat(list', 2), bufferOut'.size = Total(list')
    PROVE  Shapes'
<1>1. pc' \in [Threads -> Points]
    BY DEF Shapes
<1>2. Neat(list, 2)' /\ (bufferOut.size = Total(list))'
    BY DEF list
<1> QED
    BY <1>1, <1>2 DEF Shapes

LEMMA SendDataUndisturbed ==
    ASSUME Undisturbed, SendData, ~disturbed'
    PROVE  Undisturbed'
<1>1. /\ stage = "Empty" /\ pc["sender"] = "idle" /\ pc["session"] = "idle"
      /\ UNCHANGED <<stage, hand, room>> /\ pc' = [pc EXCEPT !["session"] = "setFull"]
    BY DEF SendData, Goto
<1>2. list = <<>>
    BY <1>1 DEF Undisturbed, Turn, Where, Threads
<1>3. PICK n \in Lengths :
         /\ sent' = Append(sent, Payload(Len(sent) + 1, n))
         /\ bufferOut' = PushBack(bufferOut, Payload(Len(sent) + 1, n))
    BY DEF SendData
<1> DEFINE payload == Payload(Len(sent) + 1, n)
<1>4. payload \in Seq(Byte) /\ payload # <<>>
    <2>1. n \in Nat \ {0}
        BY LengthsAssumption
    <2>2. sent \in Seq(Seq(Byte))
        BY DEF Undisturbed, Shapes, Vectors
    <2>3. Len(sent) + 1 \in 0..MaxPackets
        <3>1. Len(sent) \in Nat
            BY <2>2
        <3> QED
            BY <3>1, BoundsAssumption DEF SendData
    <2>4. \A i \in 1..n : [packet |-> Len(sent) + 1, size |-> 0, place |-> i] \in Byte
        BY <2>1, <2>3 DEF Byte
    <2>5. payload \in Seq(Byte) /\ Len(payload) = n
        BY <2>1, <2>4 DEF Payload
    <2> QED
        BY <2>1, <2>5
<1> HIDE DEF payload
<1>5. sent' \in Vectors
    BY <1>3, <1>4 DEF Undisturbed, Shapes, Vectors, payload
<1>6. list' = <<payload>> \o <<>> /\ bufferOut'.size = Total(<<>>) + Len(payload)
    <2>1. bufferOut.size = Total(<<>>) /\ bufferOut.chunks = <<>>
        BY <1>2 DEF Undisturbed, Shapes, list
    <2>2. bufferOut' = [chunks |-> Append(<<>>, payload), size |-> Total(<<>>) + Len(payload)]
        BY <1>3, <2>1 DEF PushBack, payload
    <2> QED
        BY <1>4, <2>2, AppendToNone DEF list
<1>7. Neat(list', 1) /\ Neat(list', 2) /\ bufferOut'.size = Total(list')
    <2>1. Neat(list', 2) /\ Total(list') = Total(<<>>) + Len(payload)
        BY <1>4, <1>6, NeatNone, NeatPush
    <2>2. Len(list') = 1
        BY <1>4, <1>6
    <2>3. Neat(list', 1)
        BY <2>1, <2>2 DEF Neat
    <2> QED
        BY <1>6, <2>1, <2>3
<1>8. Shapes'
    <2>1. pc' \in [Threads -> Points]
        BY <1>1 DEF Undisturbed, Shapes, Points
    <2>2. Neat(list, 2)' /\ (bufferOut.size = Total(list))'
        BY <1>7 DEF list
    <2> QED
        BY <1>1, <1>5, <2>1, <2>2 DEF Undisturbed, Shapes
<1>9. Turn("session")'
    <2>1. pc'["session"] = "setFull" /\ \A u \in Threads : u # "session" => pc'[u] = "idle"
        BY <1>1 DEF Undisturbed, Shapes, Threads
    <2> QED
        BY <1>1, <1>7, <2>1 DEF Turn, Where, list
<1> QED
    BY <1>8, <1>9 DEF Undisturbed, Threads

LEMMA SetFullUndisturbed ==
    ASSUME Undisturbed, SetFull
    PROVE  Undisturbed'
<1>1. /\ pc["session"] = "setFull" /\ pc' = [pc EXCEPT !["session"] = "test"] /\ stage' = "Full"
      /\ UNCHANGED <<sent, bufferOut, hand, room, wanting, edge>>
    BY DEF SetFull, Goto
<1>2. Turn("session")
    BY <1>1 DEF Undisturbed, Turn, Threads
<1>3. Shapes'
    BY <1>1, ShapesMove DEF Undisturbed, Shapes, Points, Threads, list
<1>4. Neat(list, 1)
    BY <1>1, <1>2 DEF Turn, Where
<1>5. pc'["session"] = "test" => Where("session")'
    BY <1>1, <1>4 DEF Where, list
<1> QED
    BY <1>1, <1>2, <1>3, <1>5, TurnMoves DEF Threads

LEMMA WritableUndisturbed ==
    ASSUME Undisturbed, Writable, ~disturbed'
    PROVE  Undisturbed'
<1>1. /\ pc["sender"] = "idle" /\ pc' = [pc EXCEPT !["sender"] = "test"] /\ pc["session"] = "idle"
      /\ UNCHANGED <<sent, bufferOut, stage, hand, room, wanting>>
    BY DEF Writable, Goto
<1>2. Turn("sender")
    BY <1>1 DEF Undisturbed, Turn, Where, Threads
<1>3. Shapes'
    BY <1>1, ShapesMove DEF Undisturbed, Shapes, Points, Threads, list
<1>4. pc'["sender"] = "test" => Where("sender")'
    BY <1>1, <1>2 DEF Turn, Where, list
<1> QED
    BY <1>1, <1>2, <1>3, <1>4, TurnMoves DEF Threads

LEMMA DrainUndisturbed ==
    ASSUME Undisturbed, Drain
    PROVE  Undisturbed'
<1>1. /\ UNCHANGED <<sent, bufferOut, stage, pc, hand>> /\ room' \in Nat
      /\ edge' = (edge \/ wanting)
    BY BoundsAssumption DEF Drain, Undisturbed, Shapes
<1>2. AnEdge => AnEdge'
    BY <1>1, Zenon DEF AnEdge
<1>3. Shapes'
    BY <1>1 DEF Undisturbed, Shapes, list
<1>4. \A t \in Threads : Turn(t) => Turn(t)'
    BY <1>1, <1>2 DEF Turn, Where, list
<1> QED
    BY <1>3, <1>4 DEF Undisturbed

LEMMA BusyInTurn ==
    ASSUME Undisturbed, NEW t \in Threads, pc[t] # "idle"
    PROVE  Shapes /\ Turn(t)
BY DEF Undisturbed, Turn

LEMMA TestUndisturbed ==
    ASSUME Undisturbed, NEW t \in Threads, Test(t)
    PROVE  Undisturbed'
<1>1. pc[t] = "test" /\ UNCHANGED <<sent, bufferOut, stage, room, wanting, edge>>
    BY DEF Test
<1>2. Shapes /\ Turn(t)
    BY <1>1, BusyInTurn
<1>3. CASE stage = "Full"
    <2>1. hand' = [hand EXCEPT ![t] = Header(bufferOut.size)] /\ pc' = [pc EXCEPT ![t] = "push"]
        BY <1>3 DEF Test, Hold, Goto
    <2>2. Header(bufferOut.size) \in Seq(Byte) /\ Header(bufferOut.size) # <<>>
        <3>1. bufferOut.size \in Nat
            BY <1>2, NeatEmpty DEF Shapes
        <3>2. \A i \in 1..2 : [packet |-> 0, size |-> bufferOut.size, place |-> i] \in Byte
            BY <3>1, BoundsAssumption DEF Byte
        <3>3. Header(bufferOut.size) \in [1..2 -> Byte]
            BY <3>2 DEF Header
        <3>4. ASSUME NEW h \in [1..2 -> Byte]
              PROVE  h \in Seq(Byte) /\ h # <<>>
            <4>1. h \in Seq(Byte) /\ Len(h) = 2
                BY 2 \in Nat, SeqOfLength
            <4> QED
                BY <4>1
        <3> QED
            BY <3>3, <3>4
    <2>3. hand' \in [Threads -> Seq(Byte)] /\ hand'[t] # <<>>
        BY <1>2, <2>1, <2>2 DEF Shapes
    <2>4. Shapes'
        BY <1>1, <1>2, <2>1, <2>3, ShapesMove DEF Shapes, Points, list
    <2>5. pc'[t] = "push" => Where(t)'
        BY <1>1, <1>2, <1>3, <2>3 DEF Turn, Where, list
    <2> QED
        BY <1>2, <2>1, <2>4, <2>5, TurnMoves
<1>4. CASE stage # "Full"
    <2>1. UNCHANGED hand /\ pc' = [pc EXCEPT ![t] = "loop"]
        BY <1>4 DEF Test, Goto
    <2>2. Shapes'
        BY <1>1, <1>2, <2>1, ShapesMove DEF Shapes, Points, list
    <2>3. pc'[t] = "loop" => Where(t)'
        BY <1>1, <1>2, <1>4 DEF Turn, Where, list
    <2> QED
        BY <1>2, <2>1, <2>2, <2>3, TurnMoves
<1> QED
    BY <1>3, <1>4

LEMMA SetSendingUndisturbed ==
    ASSUME Undisturbed, NEW t \in Threads, SetSending(t)
    PROVE  Undisturbed'
<1>1. /\ pc[t] = "setSending" /\ stage' = "Sending" /\ pc' = [pc EXCEPT ![t] = "loop"]
      /\ UNCHANGED <<sent, bufferOut, hand, room, wanting, edge>>
    BY DEF SetSending, Goto
<1>2. Shapes /\ Turn(t)
    BY <1>1, BusyInTurn
<1>3. Shapes'
    BY <1>1, <1>2, ShapesMove DEF Shapes, Points, list
<1>4. pc'[t] = "loop" => Where(t)'
    BY <1>1 DEF Where
<1> QED
    BY <1>1, <1>2, <1>3, <1>4, TurnMoves

LEMMA LoopUndisturbed ==
    ASSUME Undisturbed, NEW t \in Threads, Loop(t)
    PROVE  Undisturbed'
<1>1. /\ pc[t] = "loop" /\ pc' = [pc EXCEPT ![t] = IF stage = "Sending" THEN "pop" ELSE "idle"]
      /\ UNCHANGED <<sent, bufferOut, stage, hand, room, wanting, edge>>
    BY DEF Loop, Goto
<1>2. Shapes /\ Turn(t)
    BY <1>1, BusyInTurn
<1>3. Shapes'
    <2>1. (IF stage = "Sending" THEN "pop" ELSE "idle") \in Points
        BY DEF Points
    <2> QED
        BY <1>1, <1>2, <2>1, ShapesMove DEF Shapes, list
<1>4. stage # "Sending" => list = <<>>
    BY <1>1, <1>2 DEF Shapes, Turn, Where
<1>5. pc'[t] = (IF stage = "Sending" THEN "pop" ELSE "idle") => Where(t)'
    <2>1. pc'[t] = IF stage = "Sending" THEN "pop" ELSE "idle"
        BY <1>1, <1>2 DEF Shapes
    <2>2. CASE stage = "Sending"
        BY <1>1, <1>2, <2>1, <2>2 DEF Turn, Where, list
    <2>3. CASE stage # "Sending"
        BY <1>1, <1>2, <1>4, <2>1, <2>3 DEF Shapes, Turn, Where, list
    <2> QED
        BY <2>2, <2>3
<1> QED
    BY <1>1, <1>2, <1>3, <1>5, TurnMoves

LEMMA SetEmptyUndisturbed ==
    ASSUME Undisturbed, NEW t \in Threads, SetEmpty(t)
    PROVE  Undisturbed'
<1>1. /\ pc[t] = "setEmpty" /\ stage' = "Empty" /\ pc' = [pc EXCEPT ![t] = "notify"]
      /\ UNCHANGED <<sent, bufferOut, hand, room, wanting, edge>>
    BY DEF SetEmpty, Goto
<1>2. Shapes /\ Turn(t)
    BY <1>1, BusyInTurn
<1>3. Shapes'
    BY <1>1, <1>2, ShapesMove DEF Shapes, Points, list
<1>4. list = <<>>
    BY <1>1, <1>2 DEF Turn, Where
<1>5. pc'[t] = "notify" => Where(t)'
    BY <1>1, <1>4 DEF Where, list
<1> QED
    BY <1>1, <1>2, <1>3, <1>5, TurnMoves

LEMMA NotifyUndisturbed ==
    ASSUME Undisturbed, NEW t \in Threads, Notify(t)
    PROVE  Undisturbed'
<1>1. /\ pc[t] = "notify" /\ pc' = [pc EXCEPT ![t] = "idle"]
      /\ UNCHANGED <<sent, bufferOut, stage, hand, room, wanting, edge>>
    BY DEF Notify, Goto
<1>2. Shapes /\ Turn(t)
    BY <1>1, BusyInTurn
<1>3. Shapes'
    BY <1>1, <1>2, ShapesMove DEF Shapes, Points, list
<1>4. list = <<>> /\ stage = "Empty"
    BY <1>1, <1>2 DEF Turn, Where
<1>5. pc'[t] = "idle" => Where(t)'
    BY <1>1, <1>4 DEF Where, list
<1> QED
    BY <1>1, <1>2, <1>3, <1>5, TurnMoves

\* The header, or a rest, goes in front of one vector at most.
LEMMA PushFrontShapes ==
    ASSUME Shapes, NEW t \in Threads, Neat(list, 1), hand[t] # <<>>,
           bufferOut' = PushFront(bufferOut, hand[t])
    PROVE  Neat(list', 2) /\ bufferOut'.size = Total(list')
<1>1. hand[t] \in Seq(Byte)
    BY DEF Shapes
<1>2. list' = <<hand[t]>> \o list /\ bufferOut'.size = Total(list) + Len(hand[t])
    BY DEF PushFront, list, Shapes
<1> QED
    BY <1>1, <1>2, NeatPush

LEMMA PushHeaderUndisturbed ==
    ASSUME Undisturbed, NEW t \in Threads, PushHeader(t)
    PROVE  Undisturbed'
<1>1. /\ pc[t] = "push" /\ bufferOut' = PushFront(bufferOut, hand[t])
      /\ hand' = [hand EXCEPT ![t] = <<>>] /\ pc' = [pc EXCEPT ![t] = "setSending"]
      /\ UNCHANGED <<sent, stage, room, wanting, edge>>
    BY DEF PushHeader, Goto, Hold
<1>2. Shapes /\ Turn(t)
    BY <1>1, BusyInTurn
<1>3. Neat(list', 2) /\ bufferOut'.size = Total(list')
    BY <1>1, <1>2, PushFrontShapes DEF Turn, Where
<1>4. hand' \in [Threads -> Seq(Byte)]
    BY <1>1, <1>2 DEF Shapes
<1>5. Shapes'
    BY <1>1, <1>2, <1>3, <1>4, ShapesMove DEF Shapes, Points
<1>6. pc'[t] = "setSending" => Where(t)'
    BY <1>1, <1>2 DEF Turn, Where
<1> QED
    BY <1>1, <1>2, <1>5, <1>6, TurnMoves

LEMMA PopUndisturbed ==
    ASSUME Undisturbed, NEW t \in Threads, Pop(t)
    PROVE  Undisturbed'
<1>1. pc[t] = "pop" /\ UNCHANGED <<sent, stage, room, wanting, edge>>
    BY DEF Pop
<1>2. Shapes /\ Turn(t)
    BY <1>1, BusyInTurn
<1>3. list = <<>> <=> bufferOut.size = 0
    BY <1>2, NeatEmpty DEF Shapes
<1>4. CASE CanPopFront(bufferOut)
    <2>1. /\ bufferOut' = AfterPopFront(bufferOut) /\ pc' = [pc EXCEPT ![t] = "call"]
          /\ hand' = [hand EXCEPT ![t] = Head(bufferOut.chunks)]
        BY <1>4 DEF Pop, Goto, Hold
    <2>2. list # <<>>
        BY <1>3, <1>4 DEF CanPopFront
    <2>3. list' = Tail(list) /\ bufferOut'.size = Total(list) - Len(Head(list))
        BY <1>2, <2>1 DEF AfterPopFront, list, Shapes
    <2>4. /\ Neat(list', 1) /\ bufferOut'.size = Total(list') /\ Head(list) \in Seq(Byte)
        BY <1>2, <2>2, <2>3, NeatTail DEF Shapes
    <2>5. Neat(list', 2)
        BY <2>4, NeatLen DEF Neat
    <2>6. hand' \in [Threads -> Seq(Byte)]
        BY <1>2, <2>1, <2>4 DEF Shapes, list
    <2>7. Shapes'
        BY <1>1, <1>2, <2>1, <2>4, <2>5, <2>6, ShapesMove DEF Shapes, Points
    <2>8. pc'[t] = "call" => Where(t)'
        BY <1>1, <1>2, <2>4 DEF Turn, Where, list
    <2> QED
        BY <1>2, <2>1, <2>7, <2>8, TurnMoves
<1>5. CASE ~CanPopFront(bufferOut)
    <2>1. UNCHANGED <<bufferOut, hand>> /\ pc' = [pc EXCEPT ![t] = "idle"]
        BY <1>5 DEF Pop, Goto
    <2>2. list = <<>>
        BY <1>3, <1>5 DEF CanPopFront
    <2>3. Shapes'
        BY <1>1, <1>2, <2>1, ShapesMove DEF Shapes, Points, list
    <2>4. pc'[t] = "idle" => Where(t)'
        BY <1>1, <1>2, <2>1, <2>2, NeatNone DEF Where, Turn, list
    <2> QED
        BY <1>2, <2>1, <2>3, <2>4, TurnMoves
<1> QED
    BY <1>4, <1>5

\* What the socket did not take leaves it with an edge to come.
LEMMA CallUndisturbed ==
    ASSUME Undisturbed, NEW t \in Threads, Call(t)
    PROVE  Undisturbed'
<1> DEFINE rest == SubSeq(hand[t], Count(t) + 1, Len(hand[t]))
<1>1. /\ pc[t] = "call" /\ room' = room - Count(t) /\ hand' = [hand EXCEPT ![t] = rest]
      /\ wanting' = (wanting \/ Count(t) < Len(hand[t])) /\ pc' = [pc EXCEPT ![t] = "rest"]
      /\ UNCHANGED <<sent, bufferOut, stage, edge>>
    BY DEF Call, Goto, Hold
<1>2. Shapes /\ Turn(t)
    BY <1>1, BusyInTurn
<1>3. hand[t] \in Seq(Byte) /\ Len(hand[t]) \in Nat /\ room \in Nat
    BY <1>2 DEF Shapes
<1>4. Count(t) \in 0..Len(hand[t]) /\ room - Count(t) \in Nat
    BY <1>3 DEF Count
<1>5. rest \in Seq(Byte) /\ (Count(t) = Len(hand[t]) => rest = <<>>)
    BY <1>3, <1>4
<1> HIDE DEF rest
<1>6. hand' \in [Threads -> Seq(Byte)] /\ hand'[t] = rest
    BY <1>1, <1>2, <1>5 DEF Shapes
<1>7. rest # <<>> => wanting'
    <2>1. rest # <<>> => Count(t) < Len(hand[t])
        BY <1>3, <1>4, <1>5
    <2> QED
        BY <1>1, <2>1
<1>8. Shapes'
    <2>1. pc' \in [Threads -> Points]
        BY <1>1, <1>2 DEF Shapes, Points
    <2> QED
        BY <1>1, <1>2, <1>4, <1>6, <2>1 DEF Shapes, list
<1>9. pc'[t] = "rest" => Where(t)'
    <2>1. stage = "Sending" /\ Neat(list, 1)
        BY <1>1, <1>2 DEF Turn, Where
    <2>2. hand'[t] # <<>> => AnEdge'
        BY <1>6, <1>7, Zenon DEF AnEdge
    <2> QED
        BY <1>1, <2>1, <2>2 DEF Where, list
<1> QED
    BY <1>1, <1>2, <1>8, <1>9, TurnMoves

LEMMA RestUndisturbed ==
    ASSUME Undisturbed, NEW t \in Threads, Rest(t)
    PROVE  Undisturbed'
<1>1. pc[t] = "rest" /\ UNCHANGED <<sent, stage, room, wanting, edge>>
    BY DEF Rest
<1>2. Shapes /\ Turn(t)
    BY <1>1, BusyInTurn
<1>3. CASE hand[t] # <<>>
    <2>1. /\ bufferOut' = PushFront(bufferOut, hand[t]) /\ hand' = [hand EXCEPT ![t] = <<>>]
          /\ pc' = [pc EXCEPT ![t] = "idle"]
        BY <1>3 DEF Rest, RestPushed, Goto, Hold
    <2>2. AnEdge /\ stage = "Sending" /\ Neat(list, 1)
        BY <1>1, <1>2, <1>3 DEF Turn, Where
    <2>3. Neat(list', 2) /\ bufferOut'.size = Total(list')
        BY <1>2, <1>3, <2>1, <2>2, PushFrontShapes
    <2>4. hand' \in [Threads -> Seq(Byte)]
        BY <1>2, <2>1 DEF Shapes
    <2>5. Shapes'
        BY <1>1, <1>2, <2>1, <2>3, <2>4, ShapesMove DEF Shapes, Points
    <2>6. pc'[t] = "idle" => Where(t)'
        BY <1>1, <2>2 DEF Where, AnEdge
    <2> QED
        BY <1>2, <2>1, <2>5, <2>6, TurnMoves
<1>4. CASE hand[t] = <<>>
    <2> DEFINE to == IF bufferOut.size = 0 THEN "setEmpty" ELSE "loop"
    <2>1. UNCHANGED <<bufferOut, hand>> /\ pc' = [pc EXCEPT ![t] = to]
        BY <1>4 DEF Rest, AfterRest, Goto
    <2>2. to \in Points
        BY DEF Points
    <2>3. bufferOut.size = 0 => list = <<>>
        BY <1>2, NeatEmpty DEF Shapes
    <2>4. Shapes'
        BY <1>1, <1>2, <2>1, <2>2, ShapesMove DEF Shapes, list
    <2>5. pc'[t] = to => Where(t)'
        BY <1>1, <1>2, <2>1, <2>3 DEF Where, Turn, list
    <2> QED
        BY <1>2, <2>1, <2>4, <2>5, TurnMoves
<1> QED
    BY <1>3, <1>4

\* Once the threads have disturbed each other it stays so.
LEMMA NotYetDisturbed ==
    ASSUME [Next]_vars, ~disturbed'
    PROVE  ~disturbed
BY DEF Next, Session, SendData, SetFull, Writable, Drain, send, Test, PushHeader, SetSending,
       Loop, Pop, Call, Rest, SetEmpty, Notify, vars

LEMMA UndisturbedStep ==
    ASSUME Undisturbed, [Next]_vars, ~disturbed'
    PROVE  Undisturbed'
<1>1. CASE UNCHANGED vars
    BY <1>1 DEF vars, Undisturbed, Shapes, Turn, Where, list, AnEdge
<1>2. CASE Session \/ Writable \/ Drain
    BY <1>2, SendDataUndisturbed, SetFullUndisturbed, WritableUndisturbed, DrainUndisturbed
    DEF Session
<1>3. ASSUME NEW t \in Threads, send(t)
      PROVE  Undisturbed'
    BY <1>3, TestUndisturbed, PushHeaderUndisturbed, SetSendingUndisturbed, LoopUndisturbed,
       PopUndisturbed, CallUndisturbed, RestUndisturbed, SetEmptyUndisturbed,
       NotifyUndisturbed DEF send
<1> QED
    BY <1>1, <1>2, <1>3 DEF Next

-----------------------------------------------------------------------------

\* What is left in bufferOut when both threads have gone has an event coming: as long
\* as they did not disturb each other, the Sender will be back for it
\* (ClientBuffer::send, setStage, BlockingBuffer::push_front of a rest).
THEOREM RestHasEdgeHolds == Spec => []RestHasEdge
<1> DEFINE Inv == ~disturbed => Undisturbed
<1>1. Init => Inv
    BY UndisturbedInit
<1>2. Inv /\ [Next]_vars => Inv'
    BY NotYetDisturbed, UndisturbedStep
<1>3. Inv => RestHasEdge
    <2> SUFFICES ASSUME Inv, ~disturbed, bufferOut.size > 0, \A t \in Threads : pc[t] = "idle"
                 PROVE  AnEdge
        BY DEF RestHasEdge, AnEdge
    <2>1. list # <<>>
        BY NeatNone DEF Undisturbed, Shapes
    <2> QED
        BY <2>1 DEF Undisturbed, Turn, Where
<1> QED
    BY <1>1, <1>2, <1>3, PTL DEF Spec

-----------------------------------------------------------------------------
(* How often a byte is in a sequence *)

PlacesIn(s, b) == {i \in DOMAIN s : s[i] = b}
Times(s, b) == Cardinality(PlacesIn(s, b))

LEMMA TimesNat ==
    ASSUME NEW s \in Seq(Byte), NEW b
    PROVE  IsFiniteSet(PlacesIn(s, b)) /\ Times(s, b) \in Nat
<1>1. PlacesIn(s, b) \in SUBSET (1..Len(s)) /\ Len(s) \in Nat
    BY DEF PlacesIn
<1>2. IsFiniteSet(1..Len(s))
    BY <1>1, FS_Interval
<1>3. IsFiniteSet(PlacesIn(s, b))
    BY <1>1, <1>2, FS_Subset
<1> QED
    BY <1>3, FS_CardinalityType DEF Times

LEMMA TimesNone == \A b : Times(<<>>, b) = 0
<1> SUFFICES ASSUME NEW b PROVE Times(<<>>, b) = 0
    OBVIOUS
<1>1. PlacesIn(<<>>, b) = {}
    BY DEF PlacesIn
<1> QED
    BY <1>1, FS_EmptySet DEF Times

LEMMA TimesConcat ==
    ASSUME NEW s \in Seq(Byte), NEW t \in Seq(Byte), NEW b
    PROVE  Times(s \o t, b) = Times(s, b) + Times(t, b)
<1> DEFINE S == PlacesIn(s, b)
           T == PlacesIn(t, b)
           U == {i \in (Len(s) + 1)..(Len(s) + Len(t)) : t[i - Len(s)] = b}
           f == [i \in T |-> i + Len(s)]
<1>1. /\ s \o t \in Seq(Byte) /\ Len(s \o t) = Len(s) + Len(t) /\ Len(s) \in Nat /\ Len(t) \in Nat
      /\ \A i \in 1..(Len(s) + Len(t)) : (s \o t)[i] = IF i <= Len(s) THEN s[i] ELSE t[i - Len(s)]
    BY ConcatProperties, LenProperties
<1>2. IsFiniteSet(S) /\ IsFiniteSet(T) /\ Times(s, b) \in Nat /\ Times(t, b) \in Nat
    BY TimesNat
<1>3. /\ DOMAIN s = 1..Len(s) /\ DOMAIN t = 1..Len(t)
      /\ DOMAIN (s \o t) = 1..(Len(s) + Len(t))
    BY <1>1, LenProperties
<1>4. PlacesIn(s \o t, b) = S \cup U
    <2>1. ASSUME NEW i \in PlacesIn(s \o t, b)
          PROVE  i \in S \cup U
        BY <1>1, <1>3 DEF PlacesIn
    <2>2. ASSUME NEW i \in S
          PROVE  i \in PlacesIn(s \o t, b)
        BY <1>1, <1>3 DEF PlacesIn
    <2>3. ASSUME NEW i \in U
          PROVE  i \in PlacesIn(s \o t, b)
        BY <1>1, <1>3 DEF PlacesIn
    <2> QED
        BY <2>1, <2>2, <2>3
<1>5. S \cap U = {}
    BY <1>1, <1>3 DEF PlacesIn
<1>6. f \in Bijection(T, U)
    <2>1. f \in [T -> U]
        BY <1>1, <1>3 DEF PlacesIn
    <2>2. \A i, j \in T : f[i] = f[j] => i = j
        BY <1>1, <1>3 DEF PlacesIn
    <2>3. ASSUME NEW u \in U
          PROVE  \E i \in T : f[i] = u
        <3>1. u \in (Len(s) + 1)..(Len(s) + Len(t)) /\ t[u - Len(s)] = b
            BY <2>3
        <3>2. u - Len(s) \in 1..Len(t) /\ (u - Len(s)) + Len(s) = u
            BY <1>1, <3>1
        <3>3. u - Len(s) \in T
            BY <1>3, <3>1, <3>2 DEF PlacesIn
        <3> QED
            BY <3>2, <3>3
    <2> HIDE DEF f, U, T
    <2> QED
        BY <2>1, <2>2, <2>3, Fun_IsBij
<1>7. ExistsBijection(T, U)
    BY <1>6, Fun_ExistsBij
<1>8. IsFiniteSet(U) /\ Cardinality(U) = Cardinality(T)
    BY <1>2, <1>7, FS_Bijection
<1>9. Cardinality(S \cup U) = Cardinality(S) + Cardinality(U)
    <2>1. Cardinality(S \cup U) = Cardinality(S) + Cardinality(U) - Cardinality(S \cap U)
        BY <1>2, <1>8, FS_Union
    <2>2. Cardinality(S \cap U) = 0 /\ Cardinality(S) \in Nat /\ Cardinality(U) \in Nat
        BY <1>2, <1>5, <1>8, FS_EmptySet, FS_CardinalityType
    <2> QED
        BY <2>1, <2>2
<1> QED
    BY <1>4, <1>8, <1>9 DEF Times

\* A byte of a payload is there once, and no header holds it.
LEMMA TimesInPayload ==
    ASSUME NEW p, NEW n \in Nat, NEW b
    PROVE  Times(Payload(p, n), b) = IF \E i \in 1..n : Payload(p, n)[i] = b THEN 1 ELSE 0
<1> DEFINE payload == Payload(p, n)
<1>1. DOMAIN payload = 1..n /\ \A i \in 1..n : payload[i].place = i
    BY DEF Payload
<1>2. \A i, j \in 1..n : payload[i] = payload[j] => i = j
    BY <1>1
<1> HIDE DEF payload
<1>3. CASE \E i \in 1..n : payload[i] = b
    <2>1. PICK i \in 1..n : payload[i] = b
        BY <1>3
    <2>2. PlacesIn(payload, b) = {i}
        BY <1>1, <1>2, <2>1 DEF PlacesIn
    <2>3. Times(payload, b) = 1
        BY <2>2, FS_Singleton DEF Times
    <2> QED
        BY <1>3, <2>3 DEF payload
<1>4. CASE ~ \E i \in 1..n : payload[i] = b
    <2>1. PlacesIn(payload, b) = {}
        BY <1>1, <1>4 DEF PlacesIn
    <2>2. Times(payload, b) = 0
        BY <2>1, FS_EmptySet DEF Times
    <2> QED
        BY <1>4, <2>2 DEF payload
<1> QED
    BY <1>3, <1>4

LEMMA TimesInHeader ==
    ASSUME NEW n, NEW b, b.packet # 0
    PROVE  Times(Header(n), b) = 0
<1>1. DOMAIN Header(n) = 1..2 /\ \A i \in 1..2 : Header(n)[i].packet = 0
    BY DEF Header
<1>2. PlacesIn(Header(n), b) = {}
    BY <1>1 DEF PlacesIn
<1> QED
    BY <1>2, FS_EmptySet DEF Times

LEMMA HeaderType ==
    ASSUME NEW n \in Nat
    PROVE  Header(n) \in Seq(Byte) /\ Len(Header(n)) = 2
<1>1. \A i \in 1..2 : [packet |-> 0, size |-> n, place |-> i] \in Byte
    BY BoundsAssumption DEF Byte
<1>2. Header(n) \in [1..2 -> Byte]
    BY <1>1 DEF Header
<1> QED
    BY <1>2, 2 \in Nat, SeqOfLength

LEMMA PayloadType ==
    ASSUME NEW p \in 0..MaxPackets, NEW n \in Nat
    PROVE  Payload(p, n) \in Seq(Byte) /\ Len(Payload(p, n)) = n
<1>1. \A i \in 1..n : [packet |-> p, size |-> 0, place |-> i] \in Byte
    BY DEF Byte
<1>2. Payload(p, n) \in [1..n -> Byte]
    BY <1>1 DEF Payload
<1> QED
    BY <1>2, SeqOfLength

-----------------------------------------------------------------------------
(* Where the bytes are, whatever the two threads do to each other *)

\* A thread holds bytes only between taking them and putting them down.
HandsEmpty == \A t \in Threads : pc[t] \notin {"push", "call", "rest"} => hand[t] = <<>>

\* The size that bufferOut counts apart is the number of bytes in its list.
SizeCounts == bufferOut.size = Len(Content(bufferOut))

AsSent ==
    /\ Len(sent) <= MaxPackets
    /\ \A p \in DOMAIN sent : \E n \in Lengths : sent[p] = Payload(p, n)

\* b is a byte of a packet that was sent.
Given(b) == b.packet \in DOMAIN sent /\ \E i \in DOMAIN sent[b.packet] : sent[b.packet][i] = b
OncePlaced == \A b \in Byte : b.packet # 0 => Places(b) = IF Given(b) THEN 1 ELSE 0

KInv == TypeOK /\ HandsEmpty /\ SizeCounts /\ AsSent /\ OncePlaced

LEMMA PlacesAre ==
    ASSUME NEW b
    PROVE  Places(b) = Times(wire, b) + Times(Content(bufferOut), b)
                       + Times(hand["session"], b) + Times(hand["sender"], b)
BY DEF Places, Times, PlacesIn

\* Of the two hands a step of t changes one.
LEMMA OneHand ==
    ASSUME TypeOK, NEW t \in Threads, NEW x \in Seq(Byte), hand' = [hand EXCEPT ![t] = x], NEW b
    PROVE  /\ hand' \in [Threads -> Seq(Byte)]
           /\ Times(hand'["session"], b) + Times(hand'["sender"], b) + Times(hand[t], b)
              = Times(hand["session"], b) + Times(hand["sender"], b) + Times(x, b)
<1>1. hand["session"] \in Seq(Byte) /\ hand["sender"] \in Seq(Byte) /\ hand \in [Threads -> Seq(Byte)]
    BY DEF TypeOK, Threads
<1>2. /\ Times(hand["session"], b) \in Nat /\ Times(hand["sender"], b) \in Nat /\ Times(x, b) \in Nat
    BY <1>1, TimesNat
<1>3. hand' \in [Threads -> Seq(Byte)]
    BY <1>1
<1>4. CASE t = "session"
    <2>1. hand'["session"] = x /\ hand'["sender"] = hand["sender"]
        BY <1>1, <1>4 DEF Threads
    <2> QED
        BY <1>2, <1>3, <1>4, <2>1
<1>5. CASE t = "sender"
    <2>1. hand'["sender"] = x /\ hand'["session"] = hand["session"]
        BY <1>1, <1>5 DEF Threads
    <2> QED
        BY <1>2, <1>3, <1>5, <2>1
<1> QED
    BY <1>4, <1>5 DEF Threads

LEMMA PushedBack ==
    ASSUME NEW b, b.chunks \in Vectors, b.size \in Nat, b.size = Len(Content(b)), NEW x \in Seq(Byte)
    PROVE  /\ PushBack(b, x) \in [chunks : Vectors, size : Nat]
           /\ Content(PushBack(b, x)) = Content(b) \o x
           /\ PushBack(b, x).size = Len(Content(PushBack(b, x)))
<1>1. /\ PushBack(b, x).chunks = Append(b.chunks, x) /\ PushBack(b, x).size = b.size + Len(x)
      /\ PushBack(b, x) \in [chunks : Vectors, size : Nat]
    BY DEF PushBack, Vectors
<1>2. Content(PushBack(b, x)) = Content(b) \o x /\ Content(b) \in Seq(Byte)
    BY <1>1, FlattenLast, FlattenSeqType DEF Content, Vectors
<1> QED
    BY <1>1, <1>2, ConcatProperties

LEMMA PushedFront ==
    ASSUME NEW b, b.chunks \in Vectors, b.size \in Nat, b.size = Len(Content(b)), NEW x \in Seq(Byte)
    PROVE  /\ PushFront(b, x) \in [chunks : Vectors, size : Nat]
           /\ Content(PushFront(b, x)) = x \o Content(b)
           /\ PushFront(b, x).size = Len(Content(PushFront(b, x)))
<1>1. /\ PushFront(b, x).chunks = <<x>> \o b.chunks /\ PushFront(b, x).size = b.size + Len(x)
      /\ PushFront(b, x) \in [chunks : Vectors, size : Nat]
    BY DEF PushFront, Vectors
<1>2. Content(PushFront(b, x)) = x \o Content(b) /\ Content(b) \in Seq(Byte)
    BY <1>1, FlattenFirst, FlattenSeqType DEF Content, Vectors
<1> QED
    BY <1>1, <1>2, ConcatProperties

LEMMA PoppedFront ==
    ASSUME NEW b, b.chunks \in Vectors, b.size \in Nat, b.size = Len(Content(b)), CanPopFront(b)
    PROVE  /\ b.chunks # <<>> /\ Head(b.chunks) \in Seq(Byte)
           /\ AfterPopFront(b) \in [chunks : Vectors, size : Nat]
           /\ Content(b) = Head(b.chunks) \o Content(AfterPopFront(b))
           /\ AfterPopFront(b).size = Len(Content(AfterPopFront(b)))
<1>1. b.chunks # <<>>
    BY FlattenNone DEF Content, CanPopFront
<1>2. /\ Tail(b.chunks) \in Vectors /\ Head(b.chunks) \in Seq(Byte)
      /\ FlattenSeq(b.chunks) = Head(b.chunks) \o FlattenSeq(Tail(b.chunks))
    BY <1>1, FlattenTail DEF Vectors
<1>3. /\ AfterPopFront(b).chunks = Tail(b.chunks)
      /\ AfterPopFront(b).size = b.size - Len(Head(b.chunks))
    BY DEF AfterPopFront
<1>4. Content(b) = Head(b.chunks) \o Content(AfterPopFront(b))
    BY <1>2, <1>3 DEF Content
<1>5. Content(AfterPopFront(b)) \in Seq(Byte)
    BY <1>2, <1>3, FlattenSeqType DEF Content, Vectors
<1>6. Len(Content(b)) = Len(Head(b.chunks)) + Len(Content(AfterPopFront(b)))
    BY <1>2, <1>4, <1>5, ConcatProperties
<1>7. Len(Head(b.chunks)) \in Nat /\ Len(Content(AfterPopFront(b))) \in Nat
    BY <1>2, <1>5
<1>8. AfterPopFront(b).size = Len(Content(AfterPopFront(b)))
    BY <1>3, <1>6, <1>7
<1> QED
    BY <1>1, <1>2, <1>3, <1>4, <1>7, <1>8 DEF AfterPopFront

LEMMA ContentType ==
    ASSUME TypeOK
    PROVE  /\ bufferOut.chunks \in Vectors /\ bufferOut.size \in Nat
           /\ Content(bufferOut) \in Seq(Byte)
<1>1. bufferOut.chunks \in Vectors /\ bufferOut.size \in Nat
    BY DEF TypeOK, Vectors
<1> QED
    BY <1>1, FlattenSeqType DEF Content, Vectors

\* When t puts bytes down, or takes them up, without a loss, every byte is still there once.
LEMMA BytesStay ==
    ASSUME KInv, TypeOK', NEW t \in Threads, NEW x \in Seq(Byte), hand' = [hand EXCEPT ![t] = x],
           UNCHANGED sent,
           \A b \in Byte : b.packet # 0 =>
               Times(wire', b) + Times(Content(bufferOut'), b) + Times(x, b)
               = Times(wire, b) + Times(Content(bufferOut), b) + Times(hand[t], b)
    PROVE  OncePlaced'
<1> SUFFICES ASSUME NEW b \in Byte, b.packet # 0
             PROVE  Places(b)' = Places(b)
    BY DEF KInv, OncePlaced, Given
<1>1. /\ Times(hand'["session"], b) + Times(hand'["sender"], b) + Times(hand[t], b)
         = Times(hand["session"], b) + Times(hand["sender"], b) + Times(x, b)
    BY OneHand DEF KInv
<1>2. Places(b)' = Times(wire', b) + Times(Content(bufferOut'), b)
                   + Times(hand'["session"], b) + Times(hand'["sender"], b)
    BY DEF Places, Times, PlacesIn
<1>3. Places(b) = Times(wire, b) + Times(Content(bufferOut), b)
                  + Times(hand["session"], b) + Times(hand["sender"], b)
    BY PlacesAre
<1>4. /\ wire \in Seq(Byte) /\ Content(bufferOut) \in Seq(Byte) /\ hand[t] \in Seq(Byte)
      /\ hand["session"] \in Seq(Byte) /\ hand["sender"] \in Seq(Byte)
    BY ContentType DEF KInv, TypeOK, Threads
<1>5. /\ wire' \in Seq(Byte) /\ Content(bufferOut') \in Seq(Byte)
      /\ hand'["session"] \in Seq(Byte) /\ hand'["sender"] \in Seq(Byte)
    <2>1. bufferOut'.chunks \in Vectors /\ wire' \in Seq(Byte)
          /\ hand'["session"] \in Seq(Byte) /\ hand'["sender"] \in Seq(Byte)
        BY DEF TypeOK, Vectors, Threads
    <2> QED
        BY <2>1, FlattenSeqType DEF Content, Vectors
<1>6. /\ Times(wire, b) \in Nat /\ Times(Content(bufferOut), b) \in Nat /\ Times(hand[t], b) \in Nat
      /\ Times(hand["session"], b) \in Nat /\ Times(hand["sender"], b) \in Nat
      /\ Times(wire', b) \in Nat /\ Times(Content(bufferOut'), b) \in Nat /\ Times(x, b) \in Nat
      /\ Times(hand'["session"], b) \in Nat /\ Times(hand'["sender"], b) \in Nat
    BY <1>4, <1>5, TimesNat
<1>7. Times(wire', b) + Times(Content(bufferOut'), b) + Times(x, b)
      = Times(wire, b) + Times(Content(bufferOut), b) + Times(hand[t], b)
    OBVIOUS
<1> DEFINE w == Times(wire, b)
           c == Times(Content(bufferOut), b)
           h == Times(hand[t], b)
           s == Times(hand["session"], b)
           r == Times(hand["sender"], b)
           y == Times(x, b)
           w2 == Times(wire', b)
           c2 == Times(Content(bufferOut'), b)
           s2 == Times(hand'["session"], b)
           r2 == Times(hand'["sender"], b)
<1>8. /\ s2 + r2 + h = s + r + y /\ w2 + c2 + y = w + c + h
      /\ w \in Nat /\ c \in Nat /\ h \in Nat /\ s \in Nat /\ r \in Nat /\ y \in Nat
      /\ w2 \in Nat /\ c2 \in Nat /\ s2 \in Nat /\ r2 \in Nat
    BY <1>1, <1>6, <1>7
<1>9. Places(b) = w + c + s + r /\ Places(b)' = w2 + c2 + s2 + r2
    BY <1>2, <1>3
<1> HIDE DEF w, c, h, s, r, y, w2, c2, s2, r2
<1>10. w2 + c2 + s2 + r2 = w + c + s + r
    BY <1>8
<1> QED
    BY <1>9, <1>10, Zenon

LEMMA TypeMoves ==
    ASSUME TypeOK, NEW t \in Threads, NEW to \in Points, pc' = [pc EXCEPT ![t] = to],
           sent' \in Vectors, bufferOut' \in [chunks : Vectors, size : Nat],
           stage' \in {"Empty", "Full", "Sending"}, hand' \in [Threads -> Seq(Byte)],
           room' \in 0..MaxRoom, wire' \in Seq(Byte), notices' \in Nat,
           wanting' \in BOOLEAN, edge' \in BOOLEAN, disturbed' \in BOOLEAN
    PROVE  TypeOK'
<1>1. pc' \in [Threads -> Points]
    BY DEF TypeOK, Points
<1> QED
    BY <1>1 DEF TypeOK, Points, Vectors

\* t has gone on, and holds bytes only where it may.
LEMMA HandsMove ==
    ASSUME TypeOK, HandsEmpty, NEW t \in Threads, NEW to, pc' = [pc EXCEPT ![t] = to],
           NEW x, hand' = [hand EXCEPT ![t] = x], to \in {"push", "call", "rest"} \/ x = <<>>
    PROVE  HandsEmpty'
<1> SUFFICES ASSUME NEW u \in Threads, pc'[u] \notin {"push", "call", "rest"}
             PROVE  hand'[u] = <<>>
    BY DEF HandsEmpty
<1>1. CASE u = t
    BY <1>1 DEF TypeOK
<1>2. CASE u # t
    BY <1>2 DEF TypeOK, HandsEmpty
<1> QED
    BY <1>1, <1>2

LEMMA KInvInit ==
    ASSUME Init
    PROVE  KInv
<1>1. /\ sent = <<>> /\ wire = <<>> /\ bufferOut = [chunks |-> <<>>, size |-> 0] /\ stage = "Empty"
      /\ pc = [t \in Threads |-> "idle"] /\ hand = [t \in Threads |-> <<>>]
      /\ room = MaxRoom /\ notices = 0
    BY DEF Init, EmptyBuffer
<1>2. wanting \in BOOLEAN /\ edge \in BOOLEAN /\ disturbed \in BOOLEAN
    BY Zenon DEF Init
<1>3. Content(bufferOut) = <<>>
    BY <1>1, FlattenNone DEF Content
<1>4. TypeOK
    <2>1. <<>> \in Seq(Byte) /\ <<>> \in Seq(Seq(Byte))
        OBVIOUS
    <2> QED
        BY <1>1, <1>2, <2>1, BoundsAssumption DEF TypeOK
<1>5. HandsEmpty /\ SizeCounts /\ AsSent
    BY <1>1, <1>3, BoundsAssumption DEF HandsEmpty, SizeCounts, AsSent
<1>6. OncePlaced
    <2> SUFFICES ASSUME NEW b \in Byte
                 PROVE  Places(b) = 0 /\ ~Given(b)
        BY DEF OncePlaced
    <2>1. ~Given(b)
        BY <1>1 DEF Given
    <2>2. Places(b) = 0
        BY <1>1, <1>3, PlacesAre, TimesNone DEF Threads
    <2> QED
        BY <2>1, <2>2
<1> QED
    BY <1>4, <1>5, <1>6 DEF KInv

\* A step that touches no byte.
LEMMA QuietKeeps ==
    ASSUME KInv, UNCHANGED <<sent, bufferOut, wire, hand>>, TypeOK', HandsEmpty'
    PROVE  KInv'
<1>1. SizeCounts' /\ AsSent'
    BY DEF KInv, SizeCounts, AsSent
<1>2. OncePlaced'
    BY DEF KInv, OncePlaced, Places, Given
<1> QED
    BY <1>1, <1>2 DEF KInv

LEMMA QuietStepsKeep ==
    ASSUME KInv, NEW t \in Threads,
           \/ SetFull \/ Writable \/ Drain
           \/ SetSending(t) \/ Loop(t) \/ SetEmpty(t) \/ Notify(t)
    PROVE  KInv'
<1>1. UNCHANGED <<sent, bufferOut, wire, hand>>
    BY DEF SetFull, Writable, Drain, SetSending, Loop, SetEmpty, Notify
<1>2. wanting' \in BOOLEAN /\ edge' \in BOOLEAN /\ disturbed' \in BOOLEAN
    <2>1. wanting \in BOOLEAN /\ edge \in BOOLEAN /\ disturbed \in BOOLEAN
        BY Zenon DEF KInv, TypeOK
    <2>2. /\ wanting' = wanting \/ wanting' = FALSE
          /\ edge' = edge \/ edge' = FALSE \/ edge' = (edge \/ wanting)
          /\ disturbed' = disturbed \/ disturbed' = (disturbed \/ pc["session"] # "idle")
        BY Zenon DEF SetFull, Writable, Drain, SetSending, Loop, SetEmpty, Notify
    <2> QED
        BY <2>1, <2>2, Zenon
<1>3. CASE Drain
    <2>1. UNCHANGED <<stage, pc, notices>> /\ room' \in 0..MaxRoom
        BY <1>3, BoundsAssumption DEF Drain, KInv, TypeOK
    <2>2. TypeOK'
        BY <1>1, <1>2, <2>1 DEF KInv, TypeOK
    <2>3. HandsEmpty'
        BY <1>1, <2>1 DEF KInv, HandsEmpty
    <2> QED
        BY <1>1, <2>2, <2>3, QuietKeeps
<1>4. CASE ~Drain
    <2>1. PICK u \in Threads, to \in Points :
             /\ pc' = [pc EXCEPT ![u] = to] /\ pc[u] \notin {"push", "call", "rest"}
             /\ to \notin {"push", "call", "rest"}
        BY <1>4 DEF SetFull, Writable, SetSending, Loop, SetEmpty, Notify, Goto, Points, Threads
    <2>2. /\ stage' \in {"Empty", "Full", "Sending"} /\ room' \in 0..MaxRoom /\ notices' \in Nat
        BY <1>4 DEF SetFull, Writable, SetSending, Loop, SetEmpty, Notify, KInv, TypeOK
    <2>3. /\ sent' \in Vectors /\ bufferOut' \in [chunks : Vectors, size : Nat]
          /\ hand' \in [Threads -> Seq(Byte)] /\ wire' \in Seq(Byte)
        BY <1>1 DEF KInv, TypeOK, Vectors
    <2>4. TypeOK'
        BY <1>2, <2>1, <2>2, <2>3, TypeMoves DEF KInv
    <2>5. HandsEmpty'
        <3>1. hand[u] = <<>> /\ hand' = [hand EXCEPT ![u] = <<>>]
            BY <1>1, <2>1 DEF KInv, HandsEmpty, TypeOK
        <3> QED
            BY <2>1, <3>1, HandsMove DEF KInv
    <2> QED
        BY <1>1, <2>4, <2>5, QuietKeeps
<1> QED
    BY <1>3, <1>4

LEMMA BooleansKept ==
    ASSUME TypeOK, UNCHANGED <<edge, disturbed>>,
           wanting' = wanting \/ \E P \in BOOLEAN : wanting' = (wanting \/ P)
    PROVE  wanting' \in BOOLEAN /\ edge' \in BOOLEAN /\ disturbed' \in BOOLEAN
<1>1. wanting \in BOOLEAN /\ edge \in BOOLEAN /\ disturbed \in BOOLEAN
    BY Zenon DEF TypeOK
<1> QED
    BY <1>1, Zenon

LEMMA SendDataKeeps ==
    ASSUME KInv, SendData
    PROVE  KInv'
<1>1. /\ pc["session"] = "idle" /\ Len(sent) < MaxPackets /\ pc' = [pc EXCEPT !["session"] = "setFull"]
      /\ UNCHANGED <<stage, hand, room, wanting, edge, wire, notices>>
    BY DEF SendData, Goto
<1> DEFINE next == Len(sent) + 1
<1>2. PICK n \in Lengths :
         sent' = Append(sent, Payload(next, n)) /\ bufferOut' = PushBack(bufferOut, Payload(next, n))
    BY DEF SendData
<1> DEFINE payload == Payload(next, n)
<1>3. /\ sent \in Vectors /\ Len(sent) \in Nat /\ next \in 0..MaxPackets /\ n \in Nat \ {0}
      /\ DOMAIN sent = 1..Len(sent)
    <2>1. sent \in Vectors
        BY DEF KInv, TypeOK, Vectors
    <2>2. Len(sent) \in Nat /\ DOMAIN sent = 1..Len(sent)
        BY <2>1, LenProperties DEF Vectors
    <2> QED
        BY <1>1, <2>1, <2>2, LengthsAssumption, BoundsAssumption
<1>4. payload \in Seq(Byte) /\ Len(payload) = n /\ DOMAIN payload = 1..n
    <2>1. DOMAIN payload = 1..n
        BY DEF Payload
    <2> QED
        BY <1>3, <2>1, PayloadType
<1>5. \A b \in Byte : Times(payload, b) = IF \E i \in 1..n : payload[i] = b THEN 1 ELSE 0
    BY <1>3, TimesInPayload
<1>6. \A i \in 1..n : payload[i].packet = next
    BY DEF Payload
<1>7. /\ sent' = Append(sent, payload) /\ bufferOut' = PushBack(bufferOut, payload)
      /\ payload = Payload(next, n)
    BY <1>2
<1> HIDE DEF payload
<1>8. /\ bufferOut' \in [chunks : Vectors, size : Nat] /\ SizeCounts'
      /\ Content(bufferOut') = Content(bufferOut) \o payload
    <2>1. bufferOut.chunks \in Vectors /\ bufferOut.size \in Nat /\ bufferOut.size = Len(Content(bufferOut))
        BY ContentType DEF KInv, SizeCounts
    <2> QED
        BY <1>4, <1>7, <2>1, PushedBack DEF SizeCounts
<1>9. /\ sent' \in Vectors /\ Len(sent') = next /\ DOMAIN sent' = 1..next /\ sent'[next] = payload
      /\ \A p \in 1..Len(sent) : sent'[p] = sent[p]
    <2>1. /\ sent' \in Vectors /\ Len(sent') = next /\ sent'[next] = payload
          /\ \A p \in 1..Len(sent) : sent'[p] = sent[p]
        BY <1>3, <1>4, <1>7, AppendProperties DEF Vectors
    <2>2. DOMAIN sent' = 1..Len(sent')
        BY <2>1, LenProperties DEF Vectors
    <2> QED
        BY <2>1, <2>2
<1>10. TypeOK'
    <2>1. disturbed' \in BOOLEAN /\ wanting' \in BOOLEAN /\ edge' \in BOOLEAN
        <3>1. disturbed \in BOOLEAN /\ wanting \in BOOLEAN /\ edge \in BOOLEAN
            BY Zenon DEF KInv, TypeOK
        <3>2. disturbed' = (disturbed \/ stage # "Empty" \/ pc["sender"] # "idle")
            BY DEF SendData
        <3> QED
            BY <1>1, <3>1, <3>2, Zenon
    <2>2. /\ stage' \in {"Empty", "Full", "Sending"} /\ hand' \in [Threads -> Seq(Byte)]
          /\ room' \in 0..MaxRoom /\ wire' \in Seq(Byte) /\ notices' \in Nat
        BY <1>1 DEF KInv, TypeOK
    <2>3. "setFull" \in Points /\ "session" \in Threads
        BY DEF Points, Threads
    <2> QED
        BY <1>1, <1>8, <1>9, <2>1, <2>2, <2>3, TypeMoves DEF KInv
<1>11. HandsEmpty'
    <2>1. hand["session"] = <<>> /\ hand' = [hand EXCEPT !["session"] = <<>>] /\ "session" \in Threads
        BY <1>1 DEF KInv, HandsEmpty, TypeOK, Threads
    <2> QED
        BY <1>1, <2>1, HandsMove DEF KInv
<1>12. AsSent'
    <2>1. \A p \in 1..Len(sent) : \E m \in Lengths : sent[p] = Payload(p, m)
        BY <1>3 DEF KInv, AsSent
    <2>2. ASSUME NEW p \in 1..next
          PROVE  \E m \in Lengths : sent'[p] = Payload(p, m)
        <3>1. CASE p = next
            BY <1>7, <1>9, <3>1
        <3>2. CASE p # next
            <4>1. p \in 1..Len(sent)
                BY <1>3, <3>2
            <4> QED
                BY <1>9, <2>1, <4>1
        <3> QED
            BY <3>1, <3>2
    <2> QED
        BY <1>3, <1>9, <2>2 DEF AsSent
<1>13. OncePlaced'
    <2> SUFFICES ASSUME NEW b \in Byte, b.packet # 0
                 PROVE  Places(b)' = IF Given(b)' THEN 1 ELSE 0
        BY DEF OncePlaced
    <2>1. Places(b) = IF Given(b) THEN 1 ELSE 0
        BY DEF KInv, OncePlaced
    <2>2. Places(b)' = Places(b) + Times(payload, b)
        <3>1. Content(bufferOut) \in Seq(Byte) /\ wire \in Seq(Byte)
              /\ hand["session"] \in Seq(Byte) /\ hand["sender"] \in Seq(Byte)
            BY ContentType DEF KInv, TypeOK, Threads
        <3>2. Times(Content(bufferOut'), b) = Times(Content(bufferOut), b) + Times(payload, b)
            BY <1>4, <1>8, <3>1, TimesConcat
        <3>3. Places(b)' = Times(wire, b) + Times(Content(bufferOut'), b)
                           + Times(hand["session"], b) + Times(hand["sender"], b)
            BY <1>1 DEF Places, Times, PlacesIn
        <3>4. /\ Times(wire, b) \in Nat /\ Times(Content(bufferOut), b) \in Nat /\ Times(payload, b) \in Nat
              /\ Times(hand["session"], b) \in Nat /\ Times(hand["sender"], b) \in Nat
            BY <1>4, <3>1, TimesNat
        <3> QED
            BY <3>2, <3>3, <3>4, PlacesAre
    <2>3. CASE b.packet = next
        <3>1. ~Given(b)
            BY <1>3, <2>3 DEF Given
        <3>2. Given(b)' <=> \E i \in 1..n : payload[i] = b
            BY <1>3, <1>4, <1>9, <2>3 DEF Given
        <3> QED
            BY <1>5, <2>1, <2>2, <3>1, <3>2
    <2>4. CASE b.packet # next
        <3>1. Times(payload, b) = 0
            BY <1>5, <1>6, <2>4
        <3>2. b.packet \in Nat
            BY DEF Byte
        <3>3. b.packet \in 1..next <=> b.packet \in 1..Len(sent)
            BY <1>3, <2>4, <3>2
        <3>4. Given(b)' <=> Given(b)
            BY <1>3, <1>9, <3>3 DEF Given
        <3> QED
            BY <2>1, <2>2, <3>1, <3>4
    <2> QED
        BY <2>3, <2>4
<1> QED
    BY <1>8, <1>10, <1>11, <1>12, <1>13 DEF KInv

\* What a step of send() has to show.
LEMMA ThreadKeeps ==
    ASSUME KInv, NEW t \in Threads, NEW to \in Points, pc' = [pc EXCEPT ![t] = to],
           NEW x \in Seq(Byte), hand' = [hand EXCEPT ![t] = x],
           to \in {"push", "call", "rest"} \/ x = <<>>,
           UNCHANGED <<sent, stage, edge, notices, disturbed>>,
           bufferOut' \in [chunks : Vectors, size : Nat], SizeCounts',
           room' \in 0..MaxRoom, wire' \in Seq(Byte),
           wanting' = wanting \/ \E P \in BOOLEAN : wanting' = (wanting \/ P),
           \A b \in Byte : b.packet # 0 =>
               Times(wire', b) + Times(Content(bufferOut'), b) + Times(x, b)
               = Times(wire, b) + Times(Content(bufferOut), b) + Times(hand[t], b)
    PROVE  KInv'
<1>1. /\ sent' \in Vectors /\ stage' \in {"Empty", "Full", "Sending"} /\ notices' \in Nat
    BY DEF KInv, TypeOK, Vectors
<1>2. wanting' \in BOOLEAN /\ edge' \in BOOLEAN /\ disturbed' \in BOOLEAN
    BY BooleansKept DEF KInv
<1>3. hand' \in [Threads -> Seq(Byte)]
    BY OneHand DEF KInv
<1>4. TypeOK'
    BY <1>1, <1>2, <1>3, TypeMoves DEF KInv
<1>5. HandsEmpty'
    BY HandsMove DEF KInv
<1>6. AsSent'
    BY DEF KInv, AsSent
<1>7. OncePlaced'
    BY <1>4, BytesStay
<1> QED
    BY <1>4, <1>5, <1>6, <1>7 DEF KInv

\* The numbers of a byte before a step of t.
LEMMA TimesTyped ==
    ASSUME TypeOK, NEW t \in Threads
    PROVE  /\ wire \in Seq(Byte) /\ Content(bufferOut) \in Seq(Byte) /\ hand[t] \in Seq(Byte)
           /\ \A b : /\ Times(wire, b) \in Nat /\ Times(Content(bufferOut), b) \in Nat
                     /\ Times(hand[t], b) \in Nat
<1>1. /\ wire \in Seq(Byte) /\ Content(bufferOut) \in Seq(Byte) /\ hand[t] \in Seq(Byte)
    BY ContentType DEF TypeOK
<1> QED
    BY <1>1, TimesNat

LEMMA TestKeeps ==
    ASSUME KInv, NEW t \in Threads, Test(t)
    PROVE  KInv'
<1>1. pc[t] = "test" /\ UNCHANGED <<sent, bufferOut, stage, room, wanting, edge, wire, notices, disturbed>>
    BY DEF Test
<1>2. hand[t] = <<>>
    BY <1>1 DEF KInv, HandsEmpty
<1>3. CASE stage = "Full"
    <2>1. hand' = [hand EXCEPT ![t] = Header(bufferOut.size)] /\ pc' = [pc EXCEPT ![t] = "push"]
        BY <1>3 DEF Test, Hold, Goto
    <2>2. Header(bufferOut.size) \in Seq(Byte)
        BY HeaderType, ContentType DEF KInv
    <2>3. \A b \in Byte : b.packet # 0 => Times(Header(bufferOut.size), b) = 0 /\ Times(hand[t], b) = 0
        BY <1>2, TimesInHeader, TimesNone
    <2>4. /\ bufferOut' \in [chunks : Vectors, size : Nat] /\ SizeCounts'
          /\ room' \in 0..MaxRoom /\ wire' \in Seq(Byte)
        BY <1>1 DEF KInv, TypeOK, SizeCounts, Vectors
    <2>5. \A b \in Byte : b.packet # 0 =>
               Times(wire', b) + Times(Content(bufferOut'), b) + Times(Header(bufferOut.size), b)
               = Times(wire, b) + Times(Content(bufferOut), b) + Times(hand[t], b)
        BY <1>1, <2>3, TimesTyped DEF KInv
    <2>6. "push" \in Points
        BY DEF Points
    <2> QED
        BY <1>1, <2>1, <2>2, <2>4, <2>5, <2>6, ThreadKeeps
<1>4. CASE stage # "Full"
    <2>1. UNCHANGED hand /\ pc' = [pc EXCEPT ![t] = "loop"]
        BY <1>4 DEF Test, Goto
    <2>2. TypeOK'
        <3>1. pc' \in [Threads -> Points]
            BY <2>1 DEF KInv, TypeOK, Points
        <3> QED
            BY <1>1, <2>1, <3>1 DEF KInv, TypeOK, Points
    <2>3. HandsEmpty'
        <3>1. hand' = [hand EXCEPT ![t] = <<>>]
            BY <1>2, <2>1 DEF KInv, TypeOK
        <3> QED
            BY <2>1, <3>1, HandsMove DEF KInv
    <2> QED
        BY <1>1, <2>1, <2>2, <2>3, QuietKeeps
<1> QED
    BY <1>3, <1>4

\* A vector goes from the hand to the front of the list.
LEMMA PutInFront ==
    ASSUME KInv, NEW t \in Threads, bufferOut' = PushFront(bufferOut, hand[t]),
           hand' = [hand EXCEPT ![t] = <<>>], NEW to \in Points, pc' = [pc EXCEPT ![t] = to],
           UNCHANGED <<sent, stage, room, wanting, edge, wire, notices, disturbed>>
    PROVE  KInv'
<1>1. hand[t] \in Seq(Byte) /\ Content(bufferOut) \in Seq(Byte)
    BY TimesTyped DEF KInv
<1>2. bufferOut.chunks \in Vectors /\ bufferOut.size \in Nat /\ bufferOut.size = Len(Content(bufferOut))
    BY ContentType DEF KInv, SizeCounts
<1>3. /\ bufferOut' \in [chunks : Vectors, size : Nat] /\ SizeCounts'
      /\ Content(bufferOut') = hand[t] \o Content(bufferOut)
    BY <1>1, <1>2, PushedFront DEF SizeCounts
<1>4. \A b : Times(Content(bufferOut'), b) = Times(hand[t], b) + Times(Content(bufferOut), b)
    BY <1>1, <1>3, TimesConcat
<1>5. \A b \in Byte : b.packet # 0 =>
               Times(wire', b) + Times(Content(bufferOut'), b) + Times(<<>>, b)
               = Times(wire, b) + Times(Content(bufferOut), b) + Times(hand[t], b)
    BY <1>4, TimesTyped, TimesNone DEF KInv
<1>6. /\ room' \in 0..MaxRoom /\ wire' \in Seq(Byte) /\ <<>> \in Seq(Byte)
    BY DEF KInv, TypeOK
<1> QED
    BY <1>3, <1>5, <1>6, ThreadKeeps

LEMMA PushHeaderKeeps ==
    ASSUME KInv, NEW t \in Threads, PushHeader(t)
    PROVE  KInv'
<1>1. /\ bufferOut' = PushFront(bufferOut, hand[t])
      /\ hand' = [hand EXCEPT ![t] = <<>>] /\ pc' = [pc EXCEPT ![t] = "setSending"]
      /\ UNCHANGED <<sent, stage, room, wanting, edge, wire, notices, disturbed>>
    BY DEF PushHeader, Goto, Hold
<1>2. "setSending" \in Points
    BY DEF Points
<1> QED
    BY <1>1, <1>2, PutInFront

LEMMA RestKeeps ==
    ASSUME KInv, NEW t \in Threads, Rest(t)
    PROVE  KInv'
<1>1. pc[t] = "rest" /\ UNCHANGED <<sent, stage, room, wanting, edge, wire, notices, disturbed>>
    BY DEF Rest
<1>2. CASE hand[t] # <<>>
    <2>1. /\ bufferOut' = PushFront(bufferOut, hand[t]) /\ hand' = [hand EXCEPT ![t] = <<>>]
          /\ pc' = [pc EXCEPT ![t] = "idle"]
        BY <1>2 DEF Rest, RestPushed, Goto, Hold
    <2>2. "idle" \in Points
        BY DEF Points
    <2> QED
        BY <1>1, <2>1, <2>2, PutInFront
<1>3. CASE hand[t] = <<>>
    <2>1. UNCHANGED <<bufferOut, hand>> /\ pc' = [pc EXCEPT ![t] = AfterRest(t)]
        BY <1>3 DEF Rest, Goto
    <2>2. TypeOK'
        <3>1. pc' \in [Threads -> Points]
            BY <2>1 DEF KInv, TypeOK, Points, AfterRest
        <3> QED
            BY <1>1, <2>1, <3>1 DEF KInv, TypeOK, Points
    <2>3. HandsEmpty'
        <3>1. hand' = [hand EXCEPT ![t] = <<>>]
            BY <1>3, <2>1 DEF KInv, TypeOK
        <3> QED
            BY <2>1, <3>1, HandsMove DEF KInv
    <2> QED
        BY <1>1, <2>1, <2>2, <2>3, QuietKeeps
<1> QED
    BY <1>2, <1>3

LEMMA PopKeeps ==
    ASSUME KInv, NEW t \in Threads, Pop(t)
    PROVE  KInv'
<1>1. pc[t] = "pop" /\ UNCHANGED <<sent, stage, room, wanting, edge, wire, notices, disturbed>>
    BY DEF Pop
<1>2. hand[t] = <<>>
    BY <1>1 DEF KInv, HandsEmpty
<1>3. CASE CanPopFront(bufferOut)
    <2> DEFINE x == Head(bufferOut.chunks)
    <2>1. /\ bufferOut' = AfterPopFront(bufferOut) /\ pc' = [pc EXCEPT ![t] = "call"]
          /\ hand' = [hand EXCEPT ![t] = x]
        BY <1>3 DEF Pop, Goto, Hold
    <2>2. bufferOut.chunks \in Vectors /\ bufferOut.size \in Nat /\ bufferOut.size = Len(Content(bufferOut))
        BY ContentType DEF KInv, SizeCounts
    <2>3. /\ x \in Seq(Byte) /\ bufferOut' \in [chunks : Vectors, size : Nat] /\ SizeCounts'
          /\ Content(bufferOut) = x \o Content(bufferOut')
        BY <1>3, <2>1, <2>2, PoppedFront DEF SizeCounts
    <2>4. Content(bufferOut') \in Seq(Byte)
        BY <2>3, FlattenSeqType DEF Content, Vectors
    <2> HIDE DEF x
    <2>5. \A b : /\ Times(Content(bufferOut), b) = Times(x, b) + Times(Content(bufferOut'), b)
                 /\ Times(x, b) \in Nat /\ Times(Content(bufferOut'), b) \in Nat
        BY <2>3, <2>4, TimesConcat, TimesNat
    <2>6. \A b \in Byte : b.packet # 0 =>
               Times(wire', b) + Times(Content(bufferOut'), b) + Times(x, b)
               = Times(wire, b) + Times(Content(bufferOut), b) + Times(hand[t], b)
        BY <1>1, <1>2, <2>5, TimesTyped, TimesNone DEF KInv
    <2>7. room' \in 0..MaxRoom /\ wire' \in Seq(Byte) /\ "call" \in Points
        BY <1>1 DEF KInv, TypeOK, Points
    <2> QED
        BY <1>1, <2>1, <2>3, <2>6, <2>7, ThreadKeeps
<1>4. CASE ~CanPopFront(bufferOut)
    <2>1. UNCHANGED <<bufferOut, hand>> /\ pc' = [pc EXCEPT ![t] = "idle"]
        BY <1>4 DEF Pop, Goto
    <2>2. TypeOK'
        <3>1. pc' \in [Threads -> Points]
            BY <2>1 DEF KInv, TypeOK, Points
        <3> QED
            BY <1>1, <2>1, <3>1 DEF KInv, TypeOK, Points
    <2>3. HandsEmpty'
        <3>1. hand' = [hand EXCEPT ![t] = <<>>]
            BY <1>2, <2>1 DEF KInv, TypeOK
        <3> QED
            BY <2>1, <3>1, HandsMove DEF KInv
    <2> QED
        BY <1>1, <2>1, <2>2, <2>3, QuietKeeps
<1> QED
    BY <1>3, <1>4

LEMMA CallKeeps ==
    ASSUME KInv, NEW t \in Threads, Call(t)
    PROVE  KInv'
<1> DEFINE gone == SubSeq(hand[t], 1, Count(t))
           rest == SubSeq(hand[t], Count(t) + 1, Len(hand[t]))
<1>1. /\ pc[t] = "call" /\ wire' = wire \o gone /\ room' = room - Count(t)
      /\ wanting' = (wanting \/ Count(t) < Len(hand[t]))
      /\ hand' = [hand EXCEPT ![t] = rest] /\ pc' = [pc EXCEPT ![t] = "rest"]
      /\ UNCHANGED <<sent, bufferOut, stage, edge, notices, disturbed>>
    BY DEF Call, Goto, Hold
<1>2. hand[t] \in Seq(Byte) /\ wire \in Seq(Byte) /\ room \in 0..MaxRoom /\ room \in Nat /\ Len(hand[t]) \in Nat
    <2>1. hand[t] \in Seq(Byte) /\ wire \in Seq(Byte) /\ room \in 0..MaxRoom
        BY DEF KInv, TypeOK
    <2> QED
        BY <2>1
<1>3. Count(t) \in 0..Len(hand[t]) /\ room - Count(t) \in 0..MaxRoom
    BY <1>2, BoundsAssumption DEF Count
<1>4. gone \in Seq(Byte) /\ rest \in Seq(Byte) /\ gone \o rest = hand[t]
    BY <1>2, <1>3, CutInTwo
<1> HIDE DEF gone, rest
<1>5. \A b : /\ Times(hand[t], b) = Times(gone, b) + Times(rest, b)
             /\ Times(wire', b) = Times(wire, b) + Times(gone, b)
             /\ Times(gone, b) \in Nat /\ Times(rest, b) \in Nat
    <2> TAKE b
    <2>1. Times(gone \o rest, b) = Times(gone, b) + Times(rest, b)
        BY <1>4, TimesConcat
    <2>2. Times(wire \o gone, b) = Times(wire, b) + Times(gone, b)
        BY <1>2, <1>4, TimesConcat
    <2> QED
        BY <1>1, <1>4, <2>1, <2>2, TimesNat
<1>6. \A b \in Byte : b.packet # 0 =>
               Times(wire', b) + Times(Content(bufferOut'), b) + Times(rest, b)
               = Times(wire, b) + Times(Content(bufferOut), b) + Times(hand[t], b)
    BY <1>1, <1>5, TimesTyped DEF KInv
<1>7. /\ bufferOut' \in [chunks : Vectors, size : Nat] /\ SizeCounts'
      /\ room' \in 0..MaxRoom /\ wire' \in Seq(Byte) /\ "rest" \in Points
    BY <1>1, <1>2, <1>3, <1>4 DEF KInv, TypeOK, SizeCounts, Vectors, Points
<1>8. \E P \in BOOLEAN : wanting' = (wanting \/ P)
    BY <1>1, Zenon
<1> QED
    BY <1>1, <1>4, <1>6, <1>7, <1>8, ThreadKeeps

LEMMA KInvStep ==
    ASSUME KInv, [Next]_vars
    PROVE  KInv'
<1>1. CASE UNCHANGED vars
    <2>1. TypeOK' /\ HandsEmpty'
        BY <1>1 DEF vars, KInv, TypeOK, HandsEmpty
    <2> QED
        BY <1>1, <2>1, QuietKeeps DEF vars
<1>2. CASE Session \/ Writable \/ Drain
    BY <1>2, SendDataKeeps, QuietStepsKeep DEF Session, Threads
<1>3. ASSUME NEW t \in Threads, send(t)
      PROVE  KInv'
    BY <1>3, TestKeeps, PushHeaderKeeps, QuietStepsKeep, PopKeeps, CallKeeps, RestKeeps DEF send
<1> QED
    BY <1>1, <1>2, <1>3 DEF Next

-----------------------------------------------------------------------------

\* Every variable keeps its type.  For bufferOut it says something: its size is counted
\* down by the length of what is popped and never falls below 0, in whatever order the
\* two threads push and pop (Buffer.cpp: size is unsigned).
THEOREM TypeCorrect == Spec => []TypeOK
<1>1. KInv => TypeOK
    BY DEF KInv
<1> QED
    BY <1>1, KInvInit, KInvStep, PTL DEF Spec

\* No byte of a packet is lost or sent twice, for packets of any lengths and any number
\* of them, although the stage has no lock and both threads run ClientBuffer::send at once.
THEOREM NothingLostHolds == Spec => []NothingLost
<1>1. KInv => NothingLost
    <2> SUFFICES ASSUME KInv, NEW p \in DOMAIN sent, NEW i \in DOMAIN sent[p]
                 PROVE  Places(sent[p][i]) = 1
        BY DEF NothingLost
    <2>1. PICK n \in Lengths : sent[p] = Payload(p, n)
        BY DEF KInv, AsSent
    <2>2. sent[p][i].packet = p
        BY <2>1 DEF Payload
    <2>3. sent \in Seq(Seq(Byte)) /\ DOMAIN sent = 1..Len(sent)
        <3>1. sent \in Seq(Seq(Byte))
            BY DEF KInv, TypeOK
        <3> QED
            BY <3>1, LenProperties
    <2>4. sent[p][i] \in Byte /\ p # 0
        BY <2>3
    <2>5. Given(sent[p][i])
        BY <2>2 DEF Given
    <2> QED
        BY <2>2, <2>4, <2>5 DEF KInv, OncePlaced
<1> QED
    BY <1>1, KInvInit, KInvStep, PTL DEF Spec

-----------------------------------------------------------------------------
(* What is on the wire as long as the threads do not disturb each other *)

Framing(x) == Header(Len(x)) \o x

LEMMA FramedNone == Framed(<<>>) = <<>>
<1>1. [i \in DOMAIN <<>> |-> Header(Len(<<>>[i])) \o <<>>[i]] = <<>>
    OBVIOUS
<1> QED
    BY <1>1, FlattenNone DEF Framed

LEMMA FramingType ==
    ASSUME NEW x \in Seq(Byte)
    PROVE  Header(Len(x)) \in Seq(Byte) /\ Framing(x) \in Seq(Byte)
<1>1. Header(Len(x)) \in Seq(Byte)
    BY HeaderType, LenProperties
<1> QED
    BY <1>1, ConcatProperties DEF Framing

LEMMA FramedLast ==
    ASSUME NEW s \in Vectors, NEW x \in Seq(Byte)
    PROVE  Framed(s) \in Seq(Byte) /\ Framed(Append(s, x)) = Framed(s) \o Framing(x)
<1> DEFINE F(q) == [i \in DOMAIN q |-> Framing(q[i])]
<1>1. \A q : Framed(q) = FlattenSeq(F(q))
    BY DEF Framed, Framing
<1>2. \A q \in Vectors : F(q) \in Seq(Seq(Byte)) /\ DOMAIN q = 1..Len(q) /\ Len(F(q)) = Len(q)
    <2> TAKE q \in Vectors
    <2>1. Len(q) \in Nat /\ DOMAIN q = 1..Len(q) /\ \A i \in 1..Len(q) : q[i] \in Seq(Byte)
        BY LenProperties, ElementOfSeq DEF Vectors
    <2>2. \A i \in 1..Len(q) : Framing(q[i]) \in Seq(Byte)
        BY <2>1, FramingType
    <2>3. F(q) \in [1..Len(q) -> Seq(Byte)]
        BY <2>1, <2>2
    <2> HIDE DEF F
    <2> QED
        BY <2>1, <2>3
<1>3. F(Append(s, x)) = Append(F(s), Framing(x))
    <2>1. /\ s \in Vectors /\ Append(s, x) \in Vectors /\ Len(s) \in Nat
          /\ Len(Append(s, x)) = Len(s) + 1 /\ Append(s, x)[Len(s) + 1] = x
          /\ \A i \in 1..Len(s) : Append(s, x)[i] = s[i]
        BY AppendProperties, LenProperties DEF Vectors
    <2>2. /\ F(s) \in Vectors /\ F(Append(s, x)) \in Vectors /\ Len(F(s)) = Len(s)
          /\ Len(F(Append(s, x))) = Len(s) + 1 /\ Framing(x) \in Seq(Byte)
        BY <1>2, <2>1, FramingType DEF Vectors
    <2>3. /\ Append(F(s), Framing(x)) \in Vectors /\ Len(Append(F(s), Framing(x))) = Len(s) + 1
          /\ Append(F(s), Framing(x))[Len(s) + 1] = Framing(x)
          /\ \A i \in 1..Len(s) : Append(F(s), Framing(x))[i] = F(s)[i]
        <3> HIDE DEF F
        <3> QED
            BY <2>2, AppendProperties DEF Vectors
    <2>4. ASSUME NEW i \in 1..(Len(s) + 1)
          PROVE  F(Append(s, x))[i] = Append(F(s), Framing(x))[i]
        <3>1. F(Append(s, x))[i] = Framing(Append(s, x)[i])
            BY <1>2, <2>1, <2>4
        <3>2. CASE i = Len(s) + 1
            BY <2>1, <2>3, <3>1, <3>2
        <3>3. CASE i # Len(s) + 1
            <4>1. i \in 1..Len(s)
                BY <2>1, <3>3
            <4>2. F(s)[i] = Framing(s[i])
                BY <1>2, <4>1
            <4> QED
                BY <2>1, <2>3, <3>1, <4>1, <4>2
        <3> QED
            BY <3>2, <3>3
    <2> HIDE DEF F
    <2> QED
        BY <2>2, <2>3, <2>4, SeqEqual DEF Vectors
<1> HIDE DEF F
<1>4. F(s) \in Seq(Seq(Byte)) /\ Framing(x) \in Seq(Byte)
    BY <1>2, FramingType
<1> QED
    BY <1>1, <1>3, <1>4, FlattenLast, FlattenSeqType

\* What the two threads hold together; one hand is empty as long as the other is in turn.
Held == hand["session"] \o hand["sender"]

AllGone == wire = Framed(sent) /\ notices = Len(sent)

\* The last packet is in bufferOut and has no length in front of it yet.
Waiting ==
    /\ sent # <<>> /\ notices = Len(sent) - 1
    /\ wire = Framed(Front(sent)) /\ list = <<Last(sent)>>
    /\ \A t \in Threads : pc[t] = "push" => hand[t] = Header(Len(Last(sent)))

\* It is being sent, with its length, or is gone and the session not yet told.
OnItsWay ==
    /\ sent # <<>> /\ notices = Len(sent) - 1
    /\ Len(wire) >= Len(Framed(Front(sent)))
    /\ (wire \o Held) \o Content(bufferOut) = Framed(sent)

\* Which of the three it is can be read off the stage and the places of the threads.
Stream ==
    /\ stage = "Empty" /\ pc["session"] # "setFull" /\ (\A t \in Threads : pc[t] # "notify")
        => AllGone
    /\ pc["session"] = "setFull" \/ (stage = "Full" /\ \A t \in Threads : pc[t] # "setSending") => Waiting
    /\ stage = "Sending" \/ (\E t \in Threads : pc[t] \in {"setSending", "notify"}) => OnItsWay

LEMMA HeldInTurn ==
    ASSUME KInv, NEW t \in Threads, Turn(t)
    PROVE  Held = hand[t] /\ hand[t] \in Seq(Byte)
<1>1. hand[t] \in Seq(Byte) /\ \A u \in Threads : u # t => hand[u] = <<>>
    BY DEF KInv, TypeOK, HandsEmpty, Turn
<1>2. hand[t] \o <<>> = hand[t] /\ <<>> \o hand[t] = hand[t]
    BY <1>1, ConcatEmptySeq
<1> QED
    BY <1>1, <1>2 DEF Held, Threads

\* A step that touches neither bytes nor notices.
LEMMA StreamStays ==
    ASSUME UNCHANGED <<sent, bufferOut, wire, hand, notices>>
    PROVE  /\ (AllGone => AllGone') /\ (OnItsWay => OnItsWay')
           /\ (Waiting /\ (\A t \in Threads : pc'[t] = "push" => pc[t] = "push")) => Waiting'
BY DEF AllGone, OnItsWay, Waiting, Held, Content, list

LEMMA StreamInit ==
    ASSUME Init
    PROVE  Stream
<1>1. /\ sent = <<>> /\ wire = <<>> /\ stage = "Empty" /\ notices = 0
      /\ pc = [t \in Threads |-> "idle"]
    BY DEF Init
<1>2. AllGone
    BY <1>1, FramedNone DEF AllGone
<1> QED
    BY <1>1, <1>2 DEF Stream, Threads

LEMMA SendDataStream ==
    ASSUME KInv, Undisturbed, Stream, SendData, ~disturbed'
    PROVE  Stream'
<1>1. /\ stage = "Empty" /\ pc["sender"] = "idle" /\ pc["session"] = "idle"
      /\ UNCHANGED <<stage, hand, wire, notices>> /\ pc' = [pc EXCEPT !["session"] = "setFull"]
    BY DEF SendData, Goto
<1>2. AllGone /\ bufferOut.chunks = <<>>
    BY <1>1 DEF Stream, Undisturbed, Turn, Where, Threads, list
<1>3. PICK n \in Lengths :
         /\ sent' = Append(sent, Payload(Len(sent) + 1, n))
         /\ bufferOut' = PushBack(bufferOut, Payload(Len(sent) + 1, n))
    BY DEF SendData
<1> DEFINE payload == Payload(Len(sent) + 1, n)
<1>4. sent \in Vectors /\ payload \in Seq(Byte) /\ Len(sent) \in Nat
    <2>1. sent \in Vectors /\ Len(sent) \in Nat /\ n \in Nat
        BY LengthsAssumption DEF KInv, TypeOK, Vectors
    <2>2. Len(sent) + 1 \in 0..MaxPackets
        BY <2>1, BoundsAssumption DEF SendData
    <2> QED
        BY <2>1, <2>2, PayloadType
<1>5. sent' = Append(sent, payload) /\ list' = <<payload>>
    BY <1>2, <1>3 DEF PushBack, list
<1> HIDE DEF payload
<1>6. /\ Front(sent') = sent /\ Last(sent') = payload /\ sent' # <<>> /\ Len(sent') = Len(sent) + 1
    <2>1. sent \in Seq(Seq(Byte))
        BY <1>4 DEF Vectors
    <2>2. Front(Append(sent, payload)) = sent /\ Last(Append(sent, payload)) = payload
        <3>1. \A x \in Seq(Byte) : Front(Append(sent, x)) = sent /\ Last(Append(sent, x)) = x
            BY <2>1, FrontLast
        <3> QED
            BY <1>4, <3>1, Zenon
    <2>3. Append(sent, payload) # <<>> /\ Len(Append(sent, payload)) = Len(sent) + 1
        BY <1>4, <2>1, AppendProperties
    <2> QED
        BY <1>5, <2>2, <2>3
<1>7. pc'["session"] = "setFull" /\ pc'["sender"] = "idle"
    BY <1>1 DEF KInv, TypeOK, Threads
<1>8. Waiting'
    BY <1>1, <1>2, <1>4, <1>5, <1>6, <1>7 DEF AllGone, Waiting, Threads
<1> QED
    BY <1>1, <1>7, <1>8 DEF Stream, Threads

\* The bytes stay where they are, and the stage and the places fit them.
LEMMA QuietStream ==
    ASSUME KInv, Undisturbed, Stream, NEW t \in Threads,
           \/ SetFull \/ Writable \/ Drain \/ SetSending(t) \/ Loop(t) \/ SetEmpty(t),
           ~disturbed'
    PROVE  Stream'
<1>1. UNCHANGED <<sent, bufferOut, wire, hand, notices>>
    BY DEF SetFull, Writable, Drain, SetSending, Loop, SetEmpty
<1>2. pc \in [Threads -> Points]
    BY DEF KInv, TypeOK, Points
<1>3. /\ (AllGone => AllGone') /\ (OnItsWay => OnItsWay')
      /\ (Waiting /\ (\A u \in Threads : pc'[u] = "push" => pc[u] = "push")) => Waiting'
    BY <1>1, StreamStays
<1>4. CASE SetFull
    <2>1. /\ pc["session"] = "setFull" /\ pc' = [pc EXCEPT !["session"] = "test"] /\ stage' = "Full"
        BY <1>4 DEF SetFull, Goto
    <2>2. pc["sender"] = "idle"
        BY <2>1 DEF Undisturbed, Turn, Threads
    <2>3. pc'["session"] = "test" /\ pc'["sender"] = "idle"
        BY <1>2, <2>1, <2>2 DEF Threads
    <2>4. Waiting'
        BY <1>3, <2>1, <2>3 DEF Stream, Threads
    <2> QED
        BY <2>1, <2>3, <2>4 DEF Stream, Threads
<1>5. CASE Writable
    <2>1. /\ pc["session"] = "idle" /\ pc["sender"] = "idle" /\ pc' = [pc EXCEPT !["sender"] = "test"]
          /\ stage' = stage
        BY <1>5 DEF Writable, Goto
    <2>2. pc'["session"] = "idle" /\ pc'["sender"] = "test"
        BY <1>2, <2>1 DEF Threads
    <2> QED
        BY <1>3, <2>1, <2>2 DEF Stream, Threads
<1>6. CASE Drain
    <2>1. UNCHANGED <<stage, pc>>
        BY <1>6 DEF Drain
    <2> QED
        BY <1>3, <2>1 DEF Stream
<1>7. CASE SetSending(t)
    <2>1. /\ pc[t] = "setSending" /\ stage' = "Sending" /\ pc' = [pc EXCEPT ![t] = "loop"]
        BY <1>7 DEF SetSending, Goto
    <2>2. \A u \in Threads : u # t => pc[u] = "idle"
        BY <2>1 DEF Undisturbed, Turn
    <2>3. \A u \in Threads : pc'[u] \in {"idle", "loop"}
        BY <1>2, <2>1, <2>2
    <2>4. OnItsWay'
        BY <1>3, <2>1 DEF Stream
    <2> QED
        BY <2>1, <2>3, <2>4 DEF Stream, Threads
<1>8. CASE Loop(t)
    <2>1. /\ pc[t] = "loop" /\ pc' = [pc EXCEPT ![t] = IF stage = "Sending" THEN "pop" ELSE "idle"]
          /\ stage' = stage
        BY <1>8 DEF Loop, Goto
    <2>2. \A u \in Threads : u # t => pc[u] = "idle"
        BY <2>1 DEF Undisturbed, Turn
    <2>3. \A u \in Threads : pc'[u] \in {"idle", "pop"} /\ pc[u] \in {"idle", "loop"}
        BY <1>2, <2>1, <2>2
    <2> QED
        BY <1>3, <2>1, <2>3 DEF Stream, Threads
<1>9. CASE SetEmpty(t)
    <2>1. /\ pc[t] = "setEmpty" /\ stage' = "Empty" /\ pc' = [pc EXCEPT ![t] = "notify"]
        BY <1>9 DEF SetEmpty, Goto
    <2>2. (\A u \in Threads : u # t => pc[u] = "idle") /\ stage = "Sending"
        BY <2>1 DEF Undisturbed, Turn, Where
    <2>3. pc'[t] = "notify" /\ \A u \in Threads : pc'[u] \in {"idle", "notify"}
        BY <1>2, <2>1, <2>2
    <2>4. OnItsWay'
        BY <1>3, <2>2 DEF Stream
    <2> QED
        BY <2>1, <2>3, <2>4 DEF Stream, Threads
<1> QED
    BY <1>4, <1>5, <1>6, <1>7, <1>8, <1>9

LEMMA TestStream ==
    ASSUME KInv, Undisturbed, Stream, NEW t \in Threads, Test(t)
    PROVE  Stream'
<1>1. pc[t] = "test" /\ UNCHANGED <<sent, bufferOut, stage, wire, notices>>
    BY DEF Test
<1>2. /\ pc \in [Threads -> Points] /\ hand \in [Threads -> Seq(Byte)]
      /\ \A u \in Threads : u # t => pc[u] = "idle"
    BY <1>1 DEF KInv, TypeOK, Points, Undisturbed, Turn
<1>3. CASE stage = "Full"
    <2>1. hand' = [hand EXCEPT ![t] = Header(bufferOut.size)] /\ pc' = [pc EXCEPT ![t] = "push"]
        BY <1>3 DEF Test, Hold, Goto
    <2>2. Waiting
        BY <1>1, <1>2, <1>3 DEF Stream, Threads
    <2>3. bufferOut.size = Len(Last(sent))
        <3>1. Last(sent) \in Seq(Byte)
            BY <2>2, FrontLast DEF Waiting, KInv, TypeOK
        <3>2. bufferOut.chunks = Append(<<>>, Last(sent)) /\ <<>> \in Seq(Seq(Byte))
              /\ <<>> \o Last(sent) = Last(sent)
            BY <2>2, <3>1 DEF Waiting, list
        <3>3. Content(bufferOut) = Last(sent)
            BY <3>1, <3>2, FlattenLast, FlattenNone DEF Content
        <3> QED
            BY <3>3 DEF KInv, SizeCounts
    <2>4. \A u \in Threads : (u = t => pc'[u] = "push" /\ hand'[u] = Header(Len(Last(sent))))
                             /\ (u # t => pc'[u] = "idle")
        BY <1>2, <2>1, <2>3
    <2>5. Waiting'
        BY <1>1, <2>2, <2>4 DEF Waiting, list
    <2> QED
        BY <1>1, <1>3, <2>4, <2>5 DEF Stream, Threads
<1>4. CASE stage # "Full"
    <2>1. UNCHANGED hand /\ pc' = [pc EXCEPT ![t] = "loop"]
        BY <1>4 DEF Test, Goto
    <2>2. \A u \in Threads : pc'[u] \in {"idle", "loop"} /\ pc[u] \in {"idle", "test"}
        BY <1>1, <1>2, <2>1
    <2>3. /\ (AllGone => AllGone') /\ (OnItsWay => OnItsWay')
          /\ (Waiting /\ (\A u \in Threads : pc'[u] = "push" => pc[u] = "push")) => Waiting'
        BY <1>1, <2>1, StreamStays
    <2> QED
        BY <1>1, <1>4, <2>2, <2>3 DEF Stream, Threads
<1> QED
    BY <1>3, <1>4

LEMMA PushHeaderStream ==
    ASSUME KInv, Undisturbed, Stream, NEW t \in Threads, PushHeader(t)
    PROVE  Stream'
<1>1. /\ pc[t] = "push" /\ bufferOut' = PushFront(bufferOut, hand[t])
      /\ hand' = [hand EXCEPT ![t] = <<>>] /\ pc' = [pc EXCEPT ![t] = "setSending"]
      /\ UNCHANGED <<sent, stage, wire, notices>>
    BY DEF PushHeader, Goto, Hold
<1>2. /\ pc \in [Threads -> Points] /\ hand \in [Threads -> Seq(Byte)]
      /\ \A u \in Threads : u # t => pc[u] = "idle"
      /\ stage = "Full" /\ Turn(t)
    BY <1>1 DEF KInv, TypeOK, Points, Undisturbed, Turn, Where
<1>3. Waiting
    BY <1>1, <1>2 DEF Stream, Threads
<1>4. /\ \A u \in Threads : u # t => pc'[u] = "idle" /\ hand'[u] = <<>>
      /\ hand'[t] = <<>> /\ pc'[t] = "setSending"
    BY <1>1, <1>2 DEF KInv, HandsEmpty
<1>5. Held' = <<>>
    <2>1. hand'["session"] = <<>> /\ hand'["sender"] = <<>>
        BY <1>4 DEF Threads
    <2> QED
        BY <2>1 DEF Held
<1> DEFINE before == Framed(Front(sent))
           packet == Last(sent)
<1>6. /\ packet \in Seq(Byte) /\ before \in Seq(Byte) /\ Framed(sent) = before \o Framing(packet)
    <2>1. sent # <<>> /\ sent \in Vectors
        BY <1>3 DEF Waiting, KInv, TypeOK, Vectors
    <2>2. Front(sent) \in Vectors /\ packet \in Seq(Byte) /\ sent = Append(Front(sent), packet)
        BY <2>1, FrontLast DEF Vectors
    <2> QED
        BY <2>2, FramedLast
<1>7. Content(bufferOut') = Framing(packet)
    <2>1. list = Append(<<>>, packet) /\ <<>> \in Seq(Seq(Byte)) /\ <<>> \o packet = packet
        BY <1>3, <1>6 DEF Waiting
    <2>2. Content(bufferOut) = packet
        BY <1>6, <2>1, FlattenLast, FlattenNone DEF Content, list
    <2>3. hand[t] = Header(Len(packet)) /\ hand[t] \in Seq(Byte)
        BY <1>1, <1>2, <1>3 DEF Waiting
    <2>4. Content(bufferOut') = hand[t] \o Content(bufferOut)
        <3>1. bufferOut.chunks \in Vectors /\ bufferOut.size \in Nat
              /\ bufferOut.size = Len(Content(bufferOut))
            BY ContentType DEF KInv, SizeCounts
        <3> QED
            BY <1>1, <2>3, <3>1, PushedFront
    <2> QED
        BY <2>2, <2>3, <2>4 DEF Framing
<1>8. OnItsWay'
    <2>1. wire' = before /\ before \o <<>> = before
        BY <1>1, <1>3, <1>6, ConcatEmptySeq DEF Waiting
    <2>2. (wire' \o Held') \o Content(bufferOut') = Framed(sent)
        BY <1>5, <1>6, <1>7, <2>1
    <2>3. Len(wire') >= Len(Framed(Front(sent)))
        <3>1. Len(before) \in Nat
            BY <1>6, LenProperties
        <3> QED
            BY <2>1, <3>1
    <2>4. sent' = sent /\ notices' = Len(sent) - 1 /\ sent # <<>>
        BY <1>1, <1>3 DEF Waiting
    <2> QED
        BY <2>2, <2>3, <2>4 DEF OnItsWay
<1>9. pc'["session"] # "setFull"
    BY <1>4 DEF Threads
<1> QED
    BY <1>1, <1>2, <1>4, <1>8, <1>9 DEF Stream

\* t is behind setStage(Sending): what a step of it in the loop needs.
LEMMA InTheLoop ==
    ASSUME KInv, Undisturbed, Stream, NEW t \in Threads, pc[t] \in {"pop", "call", "rest", "setEmpty"}
    PROVE  /\ stage = "Sending" /\ OnItsWay /\ Turn(t)
           /\ pc \in [Threads -> Points] /\ hand \in [Threads -> Seq(Byte)]
           /\ \A u \in Threads : u # t => pc[u] = "idle" /\ hand[u] = <<>>
<1>1. Turn(t) /\ stage = "Sending"
    BY DEF Undisturbed, Turn, Where
<1>2. OnItsWay
    BY <1>1 DEF Stream
<1>3. pc \in [Threads -> Points] /\ hand \in [Threads -> Seq(Byte)]
    BY DEF KInv, TypeOK, Points
<1>4. \A u \in Threads : u # t => pc[u] = "idle" /\ hand[u] = <<>>
    BY <1>1 DEF KInv, HandsEmpty, Turn
<1> QED
    BY <1>1, <1>2, <1>3, <1>4

\* t goes on in the loop, and no byte is out of its order.
LEMMA LoopStream ==
    ASSUME KInv, Undisturbed, Stream, NEW t \in Threads, pc[t] \in {"pop", "call", "rest"},
           NEW to \in {"idle", "loop", "call", "rest", "setEmpty"}, pc' = [pc EXCEPT ![t] = to],
           NEW x \in Seq(Byte), hand' = [hand EXCEPT ![t] = x],
           UNCHANGED <<sent, stage, notices>>, wire' \in Seq(Byte), Len(wire') >= Len(wire),
           (wire' \o x) \o Content(bufferOut') = (wire \o hand[t]) \o Content(bufferOut)
    PROVE  Stream'
<1>1. /\ stage = "Sending" /\ OnItsWay /\ Turn(t)
      /\ pc \in [Threads -> Points] /\ hand \in [Threads -> Seq(Byte)]
      /\ \A u \in Threads : u # t => pc[u] = "idle" /\ hand[u] = <<>>
    BY InTheLoop
<1>2. \A u \in Threads : (u = t => pc'[u] = to /\ hand'[u] = x) /\ (u # t => pc'[u] = "idle" /\ hand'[u] = <<>>)
    BY <1>1
<1>3. Held = hand[t]
    BY <1>1, HeldInTurn
<1>4. Held' = x
    <2>1. x \o <<>> = x /\ <<>> \o x = x
        BY ConcatEmptySeq
    <2> QED
        BY <1>2, <2>1 DEF Held, Threads
<1>5. OnItsWay'
    <2>1. Len(wire') \in Nat /\ Len(wire) \in Nat /\ Len(Framed(Front(sent))) \in Nat
        <3>1. Front(sent) \in Vectors /\ wire \in Seq(Byte)
            BY <1>1, FrontLast DEF OnItsWay, KInv, TypeOK, Vectors
        <3>2. <<>> \in Seq(Byte)
            OBVIOUS
        <3>3. Framed(Front(sent)) \in Seq(Byte)
            BY <3>1, <3>2, FramedLast
        <3> QED
            BY <3>1, <3>3, LenProperties
    <2>2. Len(wire') >= Len(Framed(Front(sent)))
        BY <1>1, <2>1 DEF OnItsWay
    <2>3. (wire' \o Held') \o Content(bufferOut') = Framed(sent)
        BY <1>1, <1>3, <1>4 DEF OnItsWay
    <2> QED
        BY <1>1, <2>2, <2>3 DEF OnItsWay
<1>6. stage' = "Sending" /\ pc'["session"] # "setFull"
    BY <1>1, <1>2 DEF Threads
<1> QED
    BY <1>5, <1>6 DEF Stream

LEMMA ByteAssoc == \A s, t, u \in Seq(Byte) : (s \o t) \o u = s \o (t \o u)
BY ConcatAssociative

LEMMA PopStream ==
    ASSUME KInv, Undisturbed, Stream, NEW t \in Threads, Pop(t)
    PROVE  Stream'
<1>1. pc[t] = "pop" /\ UNCHANGED <<sent, stage, wire, notices>>
    BY DEF Pop
<1>2. hand[t] = <<>> /\ wire \in Seq(Byte) /\ Len(wire) \in Nat /\ hand \in [Threads -> Seq(Byte)]
    <2>1. wire \in Seq(Byte) /\ hand \in [Threads -> Seq(Byte)]
        BY DEF KInv, TypeOK
    <2>2. hand[t] = <<>>
        BY <1>1 DEF KInv, HandsEmpty
    <2>3. Len(wire) \in Nat
        BY <2>1, LenProperties
    <2> QED
        BY <2>1, <2>2, <2>3
<1>3. wire' \in Seq(Byte) /\ Len(wire') >= Len(wire)
    BY <1>1, <1>2
<1>4. CASE CanPopFront(bufferOut)
    <2> DEFINE x == Head(bufferOut.chunks)
    <2>1. /\ bufferOut' = AfterPopFront(bufferOut) /\ pc' = [pc EXCEPT ![t] = "call"]
          /\ hand' = [hand EXCEPT ![t] = x]
        BY <1>4 DEF Pop, Goto, Hold
    <2>2. bufferOut.chunks \in Vectors /\ bufferOut.size \in Nat /\ bufferOut.size = Len(Content(bufferOut))
        BY ContentType DEF KInv, SizeCounts
    <2>3. /\ x \in Seq(Byte) /\ bufferOut' \in [chunks : Vectors, size : Nat]
          /\ Content(bufferOut) = x \o Content(bufferOut')
        BY <1>4, <2>1, <2>2, PoppedFront
    <2>4. Content(bufferOut') \in Seq(Byte)
        BY <2>3, FlattenSeqType DEF Content, Vectors
    <2> HIDE DEF x
    <2>5. (wire' \o x) \o Content(bufferOut') = (wire \o hand[t]) \o Content(bufferOut)
        <3>1. wire \o hand[t] = wire
            BY <1>2, ConcatEmptySeq
        <3>2. (wire \o x) \o Content(bufferOut') = wire \o (x \o Content(bufferOut'))
            BY <1>2, <2>3, <2>4, ByteAssoc, Zenon
        <3> QED
            BY <1>1, <2>3, <3>1, <3>2
    <2> QED
        BY <1>1, <1>3, <2>1, <2>3, <2>5, LoopStream
<1>5. CASE ~CanPopFront(bufferOut)
    <2>1. UNCHANGED <<bufferOut, hand>> /\ pc' = [pc EXCEPT ![t] = "idle"]
        BY <1>5 DEF Pop, Goto
    <2>2. hand' = [hand EXCEPT ![t] = <<>>] /\ <<>> \in Seq(Byte)
        BY <1>2, <2>1
    <2>3. (wire' \o <<>>) \o Content(bufferOut') = (wire \o hand[t]) \o Content(bufferOut)
        BY <1>1, <1>2, <2>1
    <2> QED
        BY <1>1, <1>3, <2>1, <2>2, <2>3, LoopStream
<1> QED
    BY <1>4, <1>5

LEMMA CallStream ==
    ASSUME KInv, Undisturbed, Stream, NEW t \in Threads, Call(t)
    PROVE  Stream'
<1> DEFINE gone == SubSeq(hand[t], 1, Count(t))
           rest == SubSeq(hand[t], Count(t) + 1, Len(hand[t]))
<1>1. /\ pc[t] = "call" /\ wire' = wire \o gone
      /\ hand' = [hand EXCEPT ![t] = rest] /\ pc' = [pc EXCEPT ![t] = "rest"]
      /\ UNCHANGED <<sent, bufferOut, stage, notices>>
    BY DEF Call, Goto, Hold
<1>2. hand[t] \in Seq(Byte) /\ wire \in Seq(Byte) /\ room \in Nat /\ Len(hand[t]) \in Nat /\ Len(wire) \in Nat
    <2>1. hand[t] \in Seq(Byte) /\ wire \in Seq(Byte) /\ room \in Nat
        BY BoundsAssumption DEF KInv, TypeOK
    <2> QED
        BY <2>1
<1>3. Count(t) \in 0..Len(hand[t])
    BY <1>2 DEF Count
<1>4. gone \in Seq(Byte) /\ rest \in Seq(Byte) /\ gone \o rest = hand[t]
    BY <1>2, <1>3, CutInTwo
<1> HIDE DEF gone, rest
<1>5. wire' \in Seq(Byte) /\ Len(wire') >= Len(wire)
    <2>1. wire' \in Seq(Byte) /\ Len(wire') = Len(wire) + Len(gone) /\ Len(gone) \in Nat
        BY <1>1, <1>2, <1>4, ConcatProperties, LenProperties
    <2> QED
        BY <1>2, <2>1
<1>6. (wire' \o rest) \o Content(bufferOut') = (wire \o hand[t]) \o Content(bufferOut)
    <2>1. (wire \o gone) \o rest = wire \o (gone \o rest)
        BY <1>2, <1>4, ByteAssoc, Zenon
    <2>2. Content(bufferOut') = Content(bufferOut)
        BY <1>1
    <2> QED
        BY <1>1, <1>4, <2>1, <2>2
<1> QED
    BY <1>1, <1>4, <1>5, <1>6, LoopStream

LEMMA RestStream ==
    ASSUME KInv, Undisturbed, Stream, NEW t \in Threads, Rest(t)
    PROVE  Stream'
<1>1. pc[t] = "rest" /\ UNCHANGED <<sent, stage, wire, notices>>
    BY DEF Rest
<1>2. /\ wire \in Seq(Byte) /\ Len(wire) \in Nat /\ hand[t] \in Seq(Byte) /\ hand \in [Threads -> Seq(Byte)]
      /\ <<>> \in Seq(Byte)
    BY DEF KInv, TypeOK
<1>3. wire' \in Seq(Byte) /\ Len(wire') >= Len(wire)
    BY <1>1, <1>2
<1>4. CASE hand[t] # <<>>
    <2>1. /\ bufferOut' = PushFront(bufferOut, hand[t]) /\ hand' = [hand EXCEPT ![t] = <<>>]
          /\ pc' = [pc EXCEPT ![t] = "idle"]
        BY <1>4 DEF Rest, RestPushed, Goto, Hold
    <2>2. bufferOut.chunks \in Vectors /\ bufferOut.size \in Nat /\ bufferOut.size = Len(Content(bufferOut))
          /\ Content(bufferOut) \in Seq(Byte)
        BY ContentType DEF KInv, SizeCounts
    <2>3. Content(bufferOut') = hand[t] \o Content(bufferOut)
        BY <1>2, <2>1, <2>2, PushedFront
    <2>4. (wire' \o <<>>) \o Content(bufferOut') = (wire \o hand[t]) \o Content(bufferOut)
        <3>1. wire \o <<>> = wire
            BY <1>2, ConcatEmptySeq
        <3>2. wire \o (hand[t] \o Content(bufferOut)) = (wire \o hand[t]) \o Content(bufferOut)
            BY <1>2, <2>2, ByteAssoc, Zenon
        <3> QED
            BY <1>1, <2>3, <3>1, <3>2
    <2> QED
        BY <1>1, <1>2, <1>3, <2>1, <2>4, LoopStream
<1>5. CASE hand[t] = <<>>
    <2>1. UNCHANGED <<bufferOut, hand>> /\ pc' = [pc EXCEPT ![t] = AfterRest(t)]
        BY <1>5 DEF Rest, Goto
    <2>2. hand' = [hand EXCEPT ![t] = <<>>] /\ AfterRest(t) \in {"idle", "loop", "call", "rest", "setEmpty"}
        BY <1>2, <1>5, <2>1 DEF AfterRest
    <2>3. (wire' \o <<>>) \o Content(bufferOut') = (wire \o hand[t]) \o Content(bufferOut)
        BY <1>1, <1>5, <2>1
    <2> QED
        BY <1>1, <1>2, <1>3, <2>1, <2>2, <2>3, LoopStream
<1> QED
    BY <1>4, <1>5

\* The list is empty and so is the hand: the last packet is wholly on the wire.
LEMMA NotifyStream ==
    ASSUME KInv, Undisturbed, Stream, NEW t \in Threads, Notify(t)
    PROVE  Stream'
<1>1. /\ pc[t] = "notify" /\ notices' = notices + 1 /\ pc' = [pc EXCEPT ![t] = "idle"]
      /\ UNCHANGED <<sent, bufferOut, stage, hand, wire>>
    BY DEF Notify, Goto
<1>2. /\ OnItsWay /\ Turn(t) /\ pc \in [Threads -> Points] /\ stage = "Empty"
      /\ \A u \in Threads : u # t => pc[u] = "idle"
    BY <1>1 DEF Stream, Undisturbed, Turn, Where, KInv, TypeOK, Points
<1>3. Held = <<>> /\ bufferOut.chunks = <<>> /\ wire \in Seq(Byte)
    <2>1. hand[t] = <<>> /\ bufferOut.chunks = <<>> /\ wire \in Seq(Byte)
        BY <1>1, <1>2 DEF KInv, HandsEmpty, TypeOK, Turn, Where, list
    <2> QED
        BY <1>2, <2>1, HeldInTurn
<1>4. wire = Framed(sent)
    <2>1. (wire \o <<>>) \o <<>> = wire
        BY <1>3, ConcatEmptySeq
    <2> QED
        BY <1>2, <1>3, <2>1, FlattenNone DEF OnItsWay, Content
<1>5. AllGone'
    <2>1. Len(sent) \in Nat
        BY DEF KInv, TypeOK
    <2> QED
        BY <1>1, <1>2, <1>4, <2>1 DEF OnItsWay, AllGone
<1>6. \A u \in Threads : pc'[u] = "idle"
    BY <1>1, <1>2
<1> QED
    BY <1>1, <1>2, <1>5, <1>6 DEF Stream, Threads

LEMMA StreamStep ==
    ASSUME KInv, Undisturbed, Stream, [Next]_vars, ~disturbed'
    PROVE  Stream'
<1>1. CASE UNCHANGED vars
    BY <1>1 DEF vars, Stream, AllGone, Waiting, OnItsWay, Held, Content, list
<1>2. CASE Session \/ Writable \/ Drain
    BY <1>2, SendDataStream, QuietStream DEF Session, Threads
<1>3. ASSUME NEW t \in Threads, send(t)
      PROVE  Stream'
    BY <1>3, TestStream, PushHeaderStream, QuietStream, PopStream, CallStream, RestStream,
       NotifyStream DEF send
<1> QED
    BY <1>1, <1>2, <1>3 DEF Next

\* All of the above, as long as the threads do not disturb each other.
SInv == KInv /\ (~disturbed => Undisturbed /\ Stream)

LEMMA SInvHolds == Spec => []SInv
<1>1. Init => SInv
    BY KInvInit, UndisturbedInit, StreamInit DEF SInv
<1>2. SInv /\ [Next]_vars => SInv'
    BY KInvStep, NotYetDisturbed, UndisturbedStep, StreamStep DEF SInv
<1> QED
    BY <1>1, <1>2, PTL DEF Spec

\* What is on the wire is the packets up to the last one, and a part of the last.
LEMMA WireSoFar ==
    ASSUME KInv, Undisturbed, Stream
    PROVE  \/ AllGone
           \/ Waiting
           \/ OnItsWay
BY DEF Stream, KInv, TypeOK

LEMMA FramedParts ==
    ASSUME sent \in Vectors, sent # <<>>
    PROVE  /\ Framed(sent) = Framed(Front(sent)) \o Framing(Last(sent))
           /\ Framed(Front(sent)) \in Seq(Byte) /\ Framed(sent) \in Seq(Byte)
           /\ Framing(Last(sent)) \in Seq(Byte)
<1>1. Front(sent) \in Vectors /\ Last(sent) \in Seq(Byte) /\ sent = Append(Front(sent), Last(sent))
    BY FrontLast DEF Vectors
<1>2. Framing(Last(sent)) \in Seq(Byte)
    BY <1>1, FramingType
<1>3. Framed(Front(sent)) \in Seq(Byte) /\ Framed(sent) = Framed(Front(sent)) \o Framing(Last(sent))
    BY <1>1, FramedLast
<1> QED
    BY <1>2, <1>3, ConcatProperties

-----------------------------------------------------------------------------

\* For packets of any lengths and a socket that is full at any time: as long as the two
\* threads do not disturb each other, what ClientBuffer::send has put on the wire is the
\* packets in order, each behind its length, cut off somewhere.
THEOREM FramedHolds == Spec => []FramedUnlessDisturbed
<1>1. SInv => FramedUnlessDisturbed
    <2> SUFFICES ASSUME SInv, ~disturbed
                 PROVE  IsPrefix(wire, Framed(sent))
        BY DEF FramedUnlessDisturbed
    <2>1. KInv /\ Undisturbed /\ Stream /\ sent \in Vectors /\ wire \in Seq(Byte)
        BY DEF SInv, KInv, TypeOK, Vectors
    <2>2. CASE AllGone
        <3>1. wire \o <<>> = wire /\ <<>> \in Seq(Byte)
            BY <2>1, ConcatEmptySeq
        <3>2. IsPrefix(wire, wire \o <<>>)
            BY <2>1, <3>1, PrefixOfConcat
        <3> QED
            BY <2>2, <3>1, <3>2 DEF AllGone
    <2>3. CASE Waiting
        BY <2>1, <2>3, FramedParts, PrefixOfConcat DEF Waiting
    <2>4. CASE OnItsWay
        <3>1. Held \in Seq(Byte) /\ Content(bufferOut) \in Seq(Byte)
            <4>1. hand["session"] \in Seq(Byte) /\ hand["sender"] \in Seq(Byte)
                BY <2>1 DEF KInv, TypeOK, Threads
            <4> QED
                BY <2>1, <4>1, ConcatProperties, ContentType DEF KInv, Held
        <3>2. (wire \o Held) \o Content(bufferOut) = wire \o (Held \o Content(bufferOut))
            BY <2>1, <3>1, ByteAssoc, Zenon
        <3>3. Held \o Content(bufferOut) \in Seq(Byte)
            BY <3>1, ConcatProperties
        <3> QED
            BY <2>1, <2>4, <3>2, <3>3, PrefixOfConcat DEF OnItsWay
    <2> QED
        BY <2>1, <2>2, <2>3, <2>4, WireSoFar
<1> QED
    BY <1>1, SInvHolds, PTL

\* The session is told of a packet only when all of it is on the wire, once for each, and
\* an Empty bufferOut means that it has been told of all: so ProtocolClient sends the next
\* of its remaining packets neither into one that is half sent nor never.
THEOREM NoticesCountHolds == Spec => []NoticesCount
<1>1. SInv => NoticesCount
    <2> SUFFICES ASSUME SInv, ~disturbed
                 PROVE  /\ notices <= Len(sent)
                        /\ Len(Framed(SubSeq(sent, 1, notices))) <= Len(wire)
                        /\ (stage = "Empty" /\ pc["session"] = "idle" /\ pc["sender"] # "notify")
                            => notices = Len(sent)
        BY DEF NoticesCount
    <2>1. KInv /\ Undisturbed /\ Stream /\ sent \in Vectors /\ wire \in Seq(Byte)
        BY DEF SInv, KInv, TypeOK, Vectors
    <2>2. Len(sent) \in Nat /\ Len(wire) \in Nat
        BY <2>1, LenProperties DEF Vectors
    <2>3. (stage = "Empty" /\ pc["session"] = "idle" /\ pc["sender"] # "notify")
            => notices = Len(sent)
        BY <2>1 DEF Stream, AllGone, Threads
    <2>4. CASE AllGone
        <3>1. SubSeq(sent, 1, Len(sent)) = sent
            BY <2>1, SubSeqFull DEF Vectors
        <3>2. notices = Len(sent) /\ Framed(SubSeq(sent, 1, notices)) = wire
            BY <2>4, <3>1 DEF AllGone
        <3> HIDE DEF AllGone
        <3> QED
            BY <2>2, <2>3, <3>2
    <2>5. CASE Waiting \/ OnItsWay
        <3>1. sent # <<>> /\ notices = Len(sent) - 1 /\ Len(wire) >= Len(Framed(Front(sent)))
            <4>1. CASE Waiting
                BY <2>2, <4>1 DEF Waiting
            <4>2. CASE OnItsWay
                BY <4>2 DEF OnItsWay
            <4> QED
                BY <2>5, <4>1, <4>2
        <3>2. Front(sent) = SubSeq(sent, 1, notices)
            BY <3>1 DEF Front
        <3>3. Len(Framed(Front(sent))) \in Nat
            BY <2>1, <3>1, FramedParts, LenProperties
        <3> QED
            BY <2>2, <2>3, <3>1, <3>2, <3>3
    <2> QED
        BY <2>1, <2>4, <2>5, WireSoFar
<1> QED
    BY <1>1, SInvHolds, PTL
=============================================================================
