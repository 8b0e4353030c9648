--------------------------- MODULE BufferIn_proofs ---------------------------
(***************************************************************************)
(* Proofs about BufferIn, for all packets and all the ways in which the    *)
(* stream can be cut: the session and the Receiver thread agree on whose   *)
(* turn it is, no read asks for a negative number of bytes, the session    *)
(* gets packets of the lengths that the peer has sent unless a length came *)
(* in two pieces, and these packets themselves if no read was cut.         *)
(*                                                                         *)
(* What the peer has sent and the session has not got is at every moment   *)
(* in one place for each stage (Borders): in the stream alone, or its      *)
(* first packet is partly or wholly in bufferIn.                           *)
(***************************************************************************)
EXTENDS BufferIn, Lists_proofs

-----------------------------------------------------------------------------
(* Whose turn it is *)

\* recv(2) runs only on an Empty bufferIn and recv(remainingSize) only on one that
\* is Receiving: so the stage cannot be set by the session while a call runs.
CallFitsStage ==
    /\ pc = "header" => stage = "Empty"
    /\ pc = "payload" => stage = "Receiving"

TurnInv ==
    /\ stage \in {"Empty", "Receiving", "Full"}
    /\ pc \in {"idle", "header", "payload"}
    /\ notices \in 0..1 /\ taken \in BOOLEAN
    /\ CallFitsStage
    /\ NoticeIffFull
    /\ taken => notices = 0

turn == <<stage, pc, notices, taken>>

\* The steps that leave the bytes and the notice of a packet alone.
QueueOnly == PushOther \/ Wake \/ TakeOther \/ TakeClose \/ Erase

LEMMA TurnInit ==
    ASSUME Init
    PROVE  TurnInv
<1>1. stage = "Empty" /\ pc = "idle" /\ notices = 0
    BY DEF Init
<1>2. ~taken /\ taken \in BOOLEAN
    BY Zenon DEF Init
<1> QED
    BY <1>1, <1>2 DEF TurnInv, CallFitsStage, NoticeIffFull

LEMMA HeaderDoneKeepsTurn ==
    ASSUME TurnInv, NEW bytes, pc = "header", HeaderDone(bytes), UNCHANGED taken
    PROVE  TurnInv'
BY DEF TurnInv, CallFitsStage, NoticeIffFull, HeaderDone, Call

\* The notice is pushed in the step that makes bufferIn Full, and it was Receiving.
LEMMA PayloadDoneKeepsTurn ==
    ASSUME TurnInv, NEW bytes, pc = "payload", PayloadDone(bytes), UNCHANGED taken
    PROVE  TurnInv'
<1>1. stage = "Receiving" /\ notices = 0 /\ ~taken
    BY DEF TurnInv, CallFitsStage, NoticeIffFull
<1>2. pc' = "idle"
    BY DEF PayloadDone, Call
<1>3. \/ stage' = "Full" /\ notices' = 1
      \/ UNCHANGED <<stage, notices>>
    BY <1>1 DEF PayloadDone, NotifyClient
<1> QED
    BY <1>1, <1>2, <1>3 DEF TurnInv, CallFitsStage, NoticeIffFull

LEMMA ReturnKeepsTurn ==
    ASSUME TurnInv, NEW bytes, pc # "idle", Return(bytes), UNCHANGED taken
    PROVE  TurnInv'
BY HeaderDoneKeepsTurn, PayloadDoneKeepsTurn DEF Return, TurnInv

LEMMA TurnStep ==
    ASSUME TurnInv, [Next]_vars
    PROVE  TurnInv'
<1>1. ASSUME UNCHANGED turn
      PROVE  TurnInv'
    BY <1>1 DEF turn, TurnInv, CallFitsStage, NoticeIffFull
<1>2. CASE Send \/ Disconnect \/ Deliver
    BY <1>1, <1>2 DEF Send, Disconnect, Deliver, buffer, call, session, turn
<1>3. CASE Event
    <2>1. UNCHANGED <<stage, notices, taken>> /\ pc = "idle"
        BY <1>3 DEF Event, buffer, session
    <2>2. \/ pc' = "header" /\ stage = "Empty"
          \/ pc' = "payload" /\ stage = "Receiving"
          \/ pc' = "idle"
        BY <1>3, <2>1 DEF Event, AwaitsHeader, Call, call
    <2> QED
        BY <2>1, <2>2 DEF TurnInv, CallFitsStage, NoticeIffFull
<1>4. CASE ReadSome
    BY <1>1, <1>4 DEF ReadSome, buffer, session, turn
<1>5. CASE ReadDone \/ ReadAgain
    BY <1>5, ReturnKeepsTurn DEF ReadDone, ReadAgain
<1>6. CASE ReadEnd
    BY <1>6 DEF ReadEnd, buffer, session, Call, TurnInv, CallFitsStage, NoticeIffFull
<1>7. CASE Take
    BY <1>7 DEF Take, call, TurnInv, CallFitsStage, NoticeIffFull
<1>8. CASE Free
    <2>1. stage = "Full" /\ notices = 0 /\ pc = "idle"
        BY <1>8 DEF Free, TurnInv, CallFitsStage, NoticeIffFull
    <2>2. stage' = "Empty" /\ UNCHANGED <<pc, notices>>
        BY <1>8 DEF Free, call
    <2>3. ~taken' /\ taken' \in BOOLEAN
        BY <1>8, Zenon DEF Free
    <2> QED
        BY <2>1, <2>2, <2>3 DEF TurnInv, CallFitsStage, NoticeIffFull
<1>9. CASE QueueOnly \/ UNCHANGED vars
    BY <1>1, <1>9 DEF QueueOnly, PushOther, Wake, TakeOther, TakeClose, Erase, vars, buffer, call,
                      session, turn
<1> QED
    BY <1>2, <1>3, <1>4, <1>5, <1>6, <1>7, <1>8, <1>9 DEF Next, Receiver, Session, QueueOnly

THEOREM TurnsHold == Spec => []TurnInv
BY TurnInit, TurnStep, PTL DEF Spec

\* For packets and bytes of any kind, the session has been told of a packet exactly
\* while bufferIn is Full.
THEOREM NoticesHold == Spec => []NoticeIffFull
<1>1. TurnInv => NoticeIffFull
    BY DEF TurnInv
<1> QED
    BY <1>1, TurnsHold, PTL

-----------------------------------------------------------------------------
(* What pop(n) takes when it takes everything *)

\* What pop(n) does to the vectors at some places of a list, the greatest place last.
Before(n) == [taken |-> <<>>, left |-> n, rest |-> <<>>]
PopAt(q, n, P, f) ==
    [s \in SUBSET P |-> IF s = {} THEN Before(n) ELSE PopStep(f[s \ {Max(s)}], q[Max(s)])]

LEMMA PopAtAdds ==
    ASSUME NEW q, NEW n, NEW m \in Nat, NEW g, g = PopAt(q, n, 1..m, g)
    PROVE  \E h : h = PopAt(q, n, 1..(m + 1), h)
<1> DEFINE h == [s \in SUBSET (1..(m + 1)) |->
                     IF m + 1 \in s THEN PopStep(g[s \ {m + 1}], q[m + 1]) ELSE g[s]]
           H == PopAt(q, n, 1..(m + 1), h)
<1>1. ASSUME NEW s \in SUBSET (1..m)
      PROVE  /\ s \in SUBSET (1..(m + 1)) /\ m + 1 \notin s /\ h[s] = g[s]
             /\ g[s] = IF s = {} THEN Before(n) ELSE PopStep(g[s \ {Max(s)}], q[Max(s)])
    <2>1. s \in SUBSET (1..(m + 1)) /\ m + 1 \notin s
        OBVIOUS
    <2>2. g[s] = PopAt(q, n, 1..m, g)[s]
        BY Zenon
    <2> QED
        BY <2>1, <2>2 DEF PopAt
<1>2. ASSUME NEW s \in SUBSET (1..(m + 1))
      PROVE  h[s] = IF s = {} THEN Before(n) ELSE PopStep(h[s \ {Max(s)}], q[Max(s)])
    <2>1. CASE m + 1 \in s
        <3>1. m + 1 \in s /\ \A y \in s : m + 1 >= y
            BY <2>1
        <3>2. Max(s) = m + 1
            <4>1. Max(s) \in s /\ \A y \in s : Max(s) >= y
                BY <3>1 DEF Max
            <4>2. Max(s) >= m + 1 /\ m + 1 >= Max(s) /\ Max(s) \in 1..(m + 1)
                BY <3>1, <4>1
            <4> QED
                BY <4>2
        <3>3. s \ {m + 1} \in SUBSET (1..m)
            OBVIOUS
        <3>4. h[s \ {m + 1}] = g[s \ {m + 1}]
            BY <1>1, <3>3
        <3>5. h[s] = PopStep(g[s \ {m + 1}], q[m + 1])
            BY <2>1
        <3> QED
            BY <2>1, <3>2, <3>4, <3>5
    <2>2. CASE m + 1 \notin s
        <3>1. s \in SUBSET (1..m)
            BY <2>2
        <3>2. s \ {Max(s)} \in SUBSET (1..m)
            BY <3>1
        <3> HIDE DEF h
        <3> QED
            BY <1>1, <3>1, <3>2
    <2> QED
        BY <2>1, <2>2
<1>3. h = H
    BY <1>2 DEF PopAt
<1> QED
    BY <1>3, Zenon

LEMMA PopAtExists ==
    ASSUME NEW q, NEW n, NEW k \in Nat
    PROVE  \E g : g = PopAt(q, n, 1..k, g)
<1> DEFINE S == {i \in 1..(k + 1) : \E g : g = PopAt(q, n, 1..(i - 1), g)}
<1>1. 1 \in S
    <2> DEFINE g == [s \in SUBSET {} |-> Before(n)]
    <2>1. 1..(1 - 1) = {} /\ 1 \in 1..(k + 1)
        OBVIOUS
    <2>2. g = PopAt(q, n, {}, g)
        BY DEF PopAt
    <2> QED
        BY <2>1, <2>2
<1>2. ASSUME NEW i \in 2..(k + 1), i - 1 \in S
      PROVE  i \in S
    <2>1. i - 2 \in Nat /\ (i - 1) - 1 = i - 2 /\ (i - 2) + 1 = i - 1 /\ i \in 1..(k + 1)
        OBVIOUS
    <2>2. PICK g : g = PopAt(q, n, 1..(i - 2), g)
        BY <1>2, <2>1
    <2>3. \E h : h = PopAt(q, n, 1..((i - 2) + 1), h)
        BY <2>1, <2>2, PopAtAdds
    <2> QED
        BY <2>1, <2>3
<1>3. k + 1 \in S
    <2>1. k + 1 \in Nat /\ k + 1 >= 1 /\ k + 1 \in 1..(k + 1)
        OBVIOUS
    <2> HIDE DEF S
    <2>2. 1..(k + 1) \subseteq S
        BY <1>1, <1>2, <2>1, UpTo
    <2> QED
        BY <2>1, <2>2
<1>4. (k + 1) - 1 = k
    OBVIOUS
<1> QED
    BY <1>3, <1>4

LEMMA PopAll ==
    ASSUME NEW T, NEW b, b.chunks \in Seq(Seq(T))
    PROVE  Popped(b, Len(FlattenSeq(b.chunks))) = [taken |-> FlattenSeq(b.chunks), left |-> 0, rest |-> <<>>]
<1> DEFINE q == b.chunks
           n == Len(FlattenSeq(q))
           f == CHOOSE g : g = PopAt(q, n, DOMAIN q, g)
<1>1. Popped(b, n) = f[DOMAIN q]
    BY DEF Popped, FoldLeft, MapThenFoldSet, PopAt, Before
<1>2. DOMAIN q = 1..Len(q) /\ Len(q) \in Nat
    OBVIOUS
<1>3. f = PopAt(q, n, 1..Len(q), f)
    <2>1. \E g : g = PopAt(q, n, 1..Len(q), g)
        BY <1>2, PopAtExists
    <2> QED
        BY <1>2, <2>1
<1> HIDE DEF f
<1>4. \A s \in SUBSET (1..Len(q)) :
         f[s] = IF s = {} THEN Before(n) ELSE PopStep(f[s \ {Max(s)}], q[Max(s)])
    <2> TAKE s \in SUBSET (1..Len(q))
    <2>1. f[s] = PopAt(q, n, 1..Len(q), f)[s]
        BY <1>3, Zenon
    <2> QED
        BY <2>1 DEF PopAt
<1>5. CASE q = <<>>
    <2>1. FlattenSeq(q) = <<>> /\ n = 0 /\ 1..Len(q) = {}
        BY <1>5, FlattenNone
    <2>2. f[{}] = Before(n)
        BY <1>4, <2>1
    <2> QED
        BY <1>1, <1>2, <2>1, <2>2 DEF Before
<1>6. CASE q # <<>>
    <2>1. PICK p \in [1..Len(q) -> Seq(T)] : p[1] = q[1] /\ \A i \in 2..Len(q) : p[i] = p[i - 1] \o q[i]
        BY <1>6, FlattenParts
    <2>2. FlattenSeq(q) = p[Len(q)] /\ n = Len(p[Len(q)])
        BY <1>6, <2>1, FlattenIs
    <2>3. /\ Len(q) \in Nat \ {0} /\ Len(q) \in 1..Len(q) /\ \A i \in 1..Len(q) : q[i] \in Seq(T) /\ p[i] \in Seq(T)
          /\ \A i \in 1..Len(q) : Len(q[i]) \in Nat /\ Len(p[i]) \in Nat
          /\ n \in Nat
        <3>1. Len(q) \in Nat \ {0}
            BY <1>6, EmptySeq
        <3>2. \A i \in 1..Len(q) : q[i] \in Seq(T)
            BY ElementOfSeq
        <3>3. \A i \in 1..Len(q) : p[i] \in Seq(T)
            BY <2>1
        <3> HIDE DEF n, q
        <3>4. Len(q) \in 1..Len(q)
            BY <3>1
        <3> QED
            BY <2>2, <3>1, <3>2, <3>3, <3>4, LenProperties
    <2> HIDE DEF q, n
    <2>4. \A i \in 2..Len(q) : i - 1 \in 1..Len(q) /\ i \in 1..Len(q) /\ Len(p[i]) = Len(p[i - 1]) + Len(q[i])
        <3> TAKE i \in 2..Len(q)
        <3>1. i - 1 \in 1..Len(q) /\ i \in 1..Len(q)
            BY <2>3
        <3>2. p[i] = p[i - 1] \o q[i] /\ p[i - 1] \in Seq(T) /\ q[i] \in Seq(T)
            BY <2>1, <2>3, <3>1
        <3> QED
            BY <3>1, <3>2, ConcatProperties
    <2>5. \A i \in 1..Len(q) : Len(p[i]) <= n
        <3> DEFINE L == {i \in 1..Len(q) : ~(Len(p[i]) <= n)}
        <3> SUFFICES ASSUME L # {} PROVE FALSE
            OBVIOUS
        <3>1. PICK i \in L : \A j \in L : j <= i
            <4>1. L \in SUBSET (1..Len(q)) /\ Len(q) \in Nat
                BY <2>3
            <4> HIDE DEF L
            <4> QED
                BY <4>1, Greatest
        <3>2. i \in 1..Len(q) /\ i # Len(q)
            BY <2>2, <2>3
        <3>3. i + 1 \in 2..Len(q) /\ i + 1 \in 1..Len(q) /\ (i + 1) - 1 = i
            BY <2>3, <3>2
        <3>4. Len(p[i + 1]) = Len(p[i]) + Len(q[i + 1])
            BY <2>4, <3>3
        <3>5. i + 1 \notin L
            BY <2>3, <3>1, <3>2
        <3> QED
            BY <2>3, <3>1, <3>2, <3>3, <3>4, <3>5
    <2>6. \A i \in 1..Len(q) : Max(1..i) = i /\ (1..i) \ {i} = 1..(i - 1) /\ 1..i \in SUBSET (1..Len(q)) /\ 1..i # {}
        <3> TAKE i \in 1..Len(q)
        <3>1. i \in Nat /\ i >= 1 /\ i <= Len(q)
            BY <2>3
        <3>2. i \in 1..i /\ \A y \in 1..i : i >= y
            BY <3>1
        <3>3. Max(1..i) \in 1..i /\ \A y \in 1..i : Max(1..i) >= y
            BY <3>2 DEF Max
        <3>4. Max(1..i) = i
            <4>1. Max(1..i) >= i /\ i >= Max(1..i) /\ Max(1..i) \in 1..i
                BY <3>2, <3>3
            <4> QED
                BY <3>1, <4>1
        <3>5. (1..i) \ {i} = 1..(i - 1)
            BY <3>1
        <3>6. 1..i \in SUBSET (1..Len(q)) /\ 1..i # {}
            <4>1. \A y \in 1..i : y \in 1..Len(q)
                BY <2>3, <3>1
            <4> QED
                BY <3>2, <4>1
        <3> QED
            BY <3>4, <3>5, <3>6
    <2> DEFINE Done(i) == [taken |-> p[i], left |-> n - Len(p[i]), rest |-> <<>>]
               S == {i \in 1..Len(q) : f[1..i] = Done(i)}
    <2>7. ASSUME NEW i \in 1..Len(q), NEW t \in Seq(T), NEW l \in Nat, Len(q[i]) <= l,
                 f[1..(i - 1)] = [taken |-> t, left |-> l, rest |-> <<>>]
          PROVE  f[1..i] = [taken |-> t \o q[i], left |-> l - Len(q[i]), rest |-> <<>>]
        <3>1. f[1..i] = PopStep(f[1..(i - 1)], q[i])
            BY <1>4, <2>6
        <3> QED
            BY <2>7, <3>1 DEF PopStep
    <2>8. 1 \in S
        <3>1. 1 \in 1..Len(q) /\ 1..(1 - 1) = {} /\ {} \in SUBSET (1..Len(q))
            BY <2>3
        <3>2. f[1..(1 - 1)] = [taken |-> <<>>, left |-> n, rest |-> <<>>]
            BY <1>4, <3>1 DEF Before
        <3>3. <<>> \in Seq(T) /\ Len(q[1]) <= n
            BY <2>1, <2>5, <3>1
        <3>4. f[1..1] = [taken |-> <<>> \o q[1], left |-> n - Len(q[1]), rest |-> <<>>]
            BY <2>3, <2>7, <3>1, <3>2, <3>3
        <3>5. <<>> \o q[1] = p[1]
            BY <2>1, <2>3, <3>1
        <3> QED
            BY <2>1, <3>1, <3>4, <3>5
    <2>9. ASSUME NEW i \in 2..Len(q), i - 1 \in S
          PROVE  i \in S
        <3>1. i \in 1..Len(q) /\ i - 1 \in 1..Len(q) /\ Len(p[i]) = Len(p[i - 1]) + Len(q[i])
            BY <2>4
        <3>2. f[1..(i - 1)] = [taken |-> p[i - 1], left |-> n - Len(p[i - 1]), rest |-> <<>>]
            BY <2>9
        <3>3. n - Len(p[i - 1]) \in Nat /\ Len(q[i]) <= n - Len(p[i - 1]) /\ p[i - 1] \in Seq(T)
            <4>1. Len(p[i - 1]) \in Nat /\ Len(q[i]) \in Nat /\ n \in Nat /\ Len(p[i - 1]) <= n /\ Len(p[i]) <= n
                BY <2>3, <2>5, <3>1
            <4>2. n - Len(p[i - 1]) \in Nat /\ Len(q[i]) <= n - Len(p[i - 1])
                <5>1. \A a, c, d, m \in Nat : d = a + c /\ d <= m => m - a \in Nat /\ c <= m - a
                    OBVIOUS
                <5>2. Len(p[i]) \in Nat
                    BY <2>3, <3>1
                <5> QED
                    BY <3>1, <4>1, <5>1, <5>2, Zenon
            <4>3. p[i - 1] \in Seq(T)
                BY <2>3, <3>1
            <4> QED
                BY <4>2, <4>3
        <3>4. f[1..i] = [taken |-> p[i - 1] \o q[i], left |-> (n - Len(p[i - 1])) - Len(q[i]), rest |-> <<>>]
            BY <2>7, <3>1, <3>2, <3>3
        <3>5. p[i - 1] \o q[i] = p[i] /\ (n - Len(p[i - 1])) - Len(q[i]) = n - Len(p[i])
            <4>1. Len(p[i - 1]) \in Nat /\ Len(q[i]) \in Nat /\ n \in Nat
                BY <2>3, <3>1
            <4>2. p[i] = p[i - 1] \o q[i]
                BY <2>1
            <4> QED
                BY <3>1, <4>1, <4>2
        <3> QED
            BY <3>1, <3>4, <3>5
    <2>10. Len(q) \in S
        <3> HIDE DEF S
        <3> QED
            BY <2>3, <2>8, <2>9, UpTo
    <2>11. Done(Len(q)) = [taken |-> FlattenSeq(q), left |-> 0, rest |-> <<>>]
        BY <2>2, <2>3
    <2> QED
        BY <1>1, <1>2, <2>10, <2>11 DEF q, n
<1> QED
    BY <1>5, <1>6

-----------------------------------------------------------------------------
(* The stream of packets that are still to come *)

\* The frames of all packets but the first n.
Frames(s, n) == [i \in 1..(Len(s) - n) |-> Frame(s[n + i])]
Rest(s, n) == FlattenSeq(Frames(s, n))

LEMMA DivMod ==
    ASSUME NEW n \in Nat, NEW b \in Nat \ {0}
    PROVE  /\ n % b \in 0..(b - 1) /\ n \div b \in Nat /\ (n % b) + b * (n \div b) = n
           /\ n < b * b => n \div b \in 0..(b - 1)
<1>1. n % b \in 0..(b - 1) /\ n \div b \in Nat /\ (n % b) + b * (n \div b) = n
    OBVIOUS
<1>2. ASSUME n < b * b
      PROVE  n \div b \in 0..(b - 1)
    <2>1. \A q, r \in Nat : q >= b => b * q + r >= b * b
        OBVIOUS
    <2> QED
        BY <1>1, <1>2, <2>1
<1> QED
    BY <1>1, <1>2

LengthOf(p) == <<Len(p) % Base, Len(p) \div Base>>

LEMMA FrameParts ==
    ASSUME NEW p \in Packets
    PROVE  /\ p \in Seq(Bytes) /\ Len(p) \in Nat \ {0}
           /\ LengthOf(p) \in Seq(Bytes) /\ Len(LengthOf(p)) = 2 /\ SizeOf(LengthOf(p)) = Len(p)
           /\ Frame(p) = LengthOf(p) \o p /\ Frame(p) \in Seq(Bytes)
<1>1. p \in Seq(Bytes) /\ Len(p) \in Nat \ {0} /\ Len(p) < Base * Base /\ Base \in Nat \ {0}
    <2>1. p \in Seq(Bytes) /\ p # <<>> /\ Len(p) < Base * Base
        BY PacketsAssumption
    <2>2. Len(p) \in Nat \ {0}
        BY <2>1, EmptySeq, LenProperties
    <2> QED
        BY <2>1, <2>2, BaseAssumption
<1>2. /\ Len(p) % Base \in Bytes /\ Len(p) \div Base \in Bytes
      /\ (Len(p) % Base) + Base * (Len(p) \div Base) = Len(p)
    BY <1>1, DivMod DEF Bytes
<1>3. LengthOf(p) \in Seq(Bytes) /\ Len(LengthOf(p)) = 2 /\ LengthOf(p)[1] = Len(p) % Base
      /\ LengthOf(p)[2] = Len(p) \div Base
    BY <1>2 DEF LengthOf
<1>4. SizeOf(LengthOf(p)) = Len(p)
    BY <1>2, <1>3 DEF SizeOf
<1>5. Frame(p) = LengthOf(p) \o p
    BY DEF Frame, LengthOf
<1> QED
    BY <1>1, <1>3, <1>4, <1>5, ConcatTyped

LEMMA FramesType ==
    ASSUME NEW s \in Seq(Packets), NEW n \in 0..Len(s)
    PROVE  /\ Len(s) \in Nat /\ \A i \in 1..Len(s) : s[i] \in Packets
           /\ Frames(s, n) \in Seq(Seq(Bytes)) /\ Len(Frames(s, n)) = Len(s) - n
           /\ \A i \in 1..(Len(s) - n) : Frames(s, n)[i] = Frame(s[n + i])
           /\ Rest(s, n) \in Seq(Bytes)
<1>1. Len(s) \in Nat /\ n \in Nat /\ n <= Len(s) /\ \A i \in 1..Len(s) : s[i] \in Packets
    BY LenProperties, ElementOfSeq
<1>2. \A i \in 1..(Len(s) - n) : n + i \in 1..Len(s) /\ Frame(s[n + i]) \in Seq(Bytes)
    BY <1>1, FrameParts
<1>3. Len(s) - n \in Nat /\ Frames(s, n) \in [1..(Len(s) - n) -> Seq(Bytes)]
    <2>1. Len(s) - n \in Nat
        BY <1>1
    <2>2. \A i \in 1..(Len(s) - n) : Frame(s[n + i]) \in Seq(Bytes)
        BY <1>2
    <2> QED
        BY <2>1, <2>2, Zenon DEF Frames
<1>4. Frames(s, n) \in Seq(Seq(Bytes)) /\ Len(Frames(s, n)) = Len(s) - n
    BY <1>3
<1> QED
    BY <1>1, <1>4, FlattenSeqType DEF Rest, Frames

LEMMA RestNone ==
    ASSUME NEW s \in Seq(Packets)
    PROVE  Rest(s, Len(s)) = <<>>
<1>1. Frames(s, Len(s)) \in Seq(Seq(Bytes)) /\ Len(Frames(s, Len(s))) = 0
    BY FramesType, LenProperties
<1>2. Frames(s, Len(s)) = <<>>
    BY <1>1, EmptySeq
<1> QED
    BY <1>2, FlattenNone DEF Rest

LEMMA RestFirst ==
    ASSUME NEW s \in Seq(Packets), NEW n \in 0..(Len(s) - 1)
    PROVE  /\ s[n + 1] \in Packets /\ Rest(s, n + 1) \in Seq(Bytes)
           /\ Rest(s, n) = Frame(s[n + 1]) \o Rest(s, n + 1)
<1>1. /\ Len(s) \in Nat /\ n \in 0..Len(s) /\ n + 1 \in 0..Len(s) /\ n + 1 \in 1..Len(s) /\ n \in Nat
    BY LenProperties
<1> DEFINE a == Frames(s, n)
           b == Frames(s, n + 1)
           x == Frame(s[n + 1])
<1>2. /\ a \in Seq(Seq(Bytes)) /\ Len(a) = Len(s) - n /\ \A i \in 1..(Len(s) - n) : a[i] = Frame(s[n + i])
      /\ \A i \in 1..Len(s) : s[i] \in Packets
    BY <1>1, FramesType
<1>3. /\ b \in Seq(Seq(Bytes)) /\ Len(b) = Len(s) - (n + 1)
      /\ \A i \in 1..(Len(s) - (n + 1)) : b[i] = Frame(s[(n + 1) + i])
    BY <1>1, FramesType
<1>4. s[n + 1] \in Packets /\ x \in Seq(Bytes)
    BY <1>1, <1>2, FrameParts
<1> HIDE DEF a, b, x
<1>5. /\ <<x>> \in Seq(Seq(Bytes)) /\ Len(<<x>>) = 1 /\ <<x>>[1] = x
    BY <1>4
<1>6. /\ <<x>> \o b \in Seq(Seq(Bytes)) /\ Len(<<x>> \o b) = Len(s) - n
      /\ (<<x>> \o b)[1] = x /\ \A i \in 1..(Len(s) - (n + 1)) : (<<x>> \o b)[1 + i] = b[i]
    BY <1>1, <1>3, <1>5, ConcatTyped
<1>7. ASSUME NEW i \in 1..(Len(s) - n)
      PROVE  a[i] = (<<x>> \o b)[i]
    <2>1. CASE i = 1
        BY <1>2, <1>6, <2>1 DEF x
    <2>2. CASE i # 1
        <3>1. i - 1 \in 1..(Len(s) - (n + 1)) /\ 1 + (i - 1) = i /\ (n + 1) + (i - 1) = n + i
            BY <1>1, <2>2
        <3>2. (<<x>> \o b)[1 + (i - 1)] = b[i - 1] /\ b[i - 1] = Frame(s[(n + 1) + (i - 1)])
            BY <1>3, <1>6, <3>1
        <3> QED
            BY <1>2, <3>1, <3>2
    <2> QED
        BY <2>1, <2>2
<1>8. a = <<x>> \o b
    BY <1>2, <1>6, <1>7, SeqEqual
<1>9. FlattenSeq(a) = x \o FlattenSeq(b) /\ FlattenSeq(b) \in Seq(Bytes)
    BY <1>3, <1>4, <1>8, FlattenFirst, FlattenSeqType
<1> QED
    BY <1>4, <1>9 DEF Rest, a, b, x

LEMMA RestMore ==
    ASSUME NEW s \in Seq(Packets), NEW n \in 0..Len(s), NEW p \in Packets
    PROVE  Rest(Append(s, p), n) = Rest(s, n) \o Frame(p)
<1> DEFINE r == Append(s, p)
           a == Frames(s, n)
           b == Frames(r, n)
           x == Frame(p)
<1>1. /\ r \in Seq(Packets) /\ Len(r) = Len(s) + 1 /\ r[Len(s) + 1] = p /\ Len(s) \in Nat
      /\ \A i \in 1..Len(s) : r[i] = s[i]
    BY AppendProperties, LenProperties
<1> HIDE DEF r
<1>2. /\ a \in Seq(Seq(Bytes)) /\ Len(a) = Len(s) - n /\ \A i \in 1..(Len(s) - n) : a[i] = Frame(s[n + i])
    BY FramesType
<1>3. /\ b \in Seq(Seq(Bytes)) /\ Len(b) = Len(r) - n /\ \A i \in 1..(Len(r) - n) : b[i] = Frame(r[n + i])
    <2>1. n \in 0..Len(r)
        BY <1>1
    <2> QED
        BY <1>1, <2>1, FramesType
<1>4. x \in Seq(Bytes)
    BY FrameParts
<1> HIDE DEF a, b, x
<1>5. /\ Append(a, x) \in Seq(Seq(Bytes)) /\ Len(Append(a, x)) = Len(a) + 1 /\ Append(a, x)[Len(a) + 1] = x
      /\ \A i \in 1..Len(a) : Append(a, x)[i] = a[i]
    BY <1>2, <1>4, AppendProperties
<1>6. ASSUME NEW i \in 1..Len(b)
      PROVE  b[i] = Append(a, x)[i]
    <2>1. CASE i = Len(a) + 1
        BY <1>1, <1>2, <1>3, <1>5, <2>1 DEF x
    <2>2. CASE i # Len(a) + 1
        <3>1. i \in 1..Len(a) /\ n + i \in 1..Len(s) /\ i \in 1..(Len(r) - n) /\ i \in 1..(Len(s) - n)
            <4>1. Len(a) = Len(s) - n /\ Len(b) = (Len(s) + 1) - n /\ Len(r) = Len(s) + 1 /\ n \in 0..Len(s)
                BY <1>1, <1>2, <1>3
            <4>2. Len(s) \in Nat /\ i \in 1..((Len(s) + 1) - n) /\ i # (Len(s) - n) + 1
                BY <1>1, <2>2, <4>1
            <4>3. i \in 1..(Len(s) - n) /\ n + i \in 1..Len(s)
                BY <4>1, <4>2
            <4> QED
                BY <4>1, <4>2, <4>3
        <3>2. b[i] = Frame(r[n + i]) /\ a[i] = Frame(s[n + i]) /\ r[n + i] = s[n + i] /\ Append(a, x)[i] = a[i]
            BY <1>1, <1>2, <1>3, <1>5, <3>1
        <3> QED
            BY <3>2
    <2> QED
        BY <2>1, <2>2
<1>7. b = Append(a, x)
    <2>1. Len(b) = Len(Append(a, x))
        BY <1>1, <1>2, <1>3, <1>5
    <2> QED
        BY <1>3, <1>5, <1>6, <2>1, SeqEqual
<1> QED
    BY <1>2, <1>4, <1>7, FlattenLast DEF Rest, a, b, x, r
-----------------------------------------------------------------------------
(* Where the packets are *)

unread == socket \o coming

\* The packet that the session gets next.
Current == sent[Len(delivered) + 1]

Ready == stage = "Full" /\ ~taken
AtBorder == stage = "Empty" \/ taken

Typed ==
    /\ BytesTypeOK
    /\ delivered \in Seq(Seq(Bytes))
    /\ bufferIn.chunks \in Seq(Seq(Bytes)) /\ bufferIn.size = Len(Content(bufferIn))

\* No call waits for fewer bytes than none, and bufferIn is empty between packets.
Fits ==
    /\ pc = "idle" => local = <<>>
    /\ pc = "header" => Len(local) <= 2
    /\ stage = "Receiving" => bufferIn.size + Len(local) <= maxSize
    /\ AtBorder => bufferIn.chunks = <<>>
    /\ close => pc = "idle"
    /\ headerSplit => split

Measured ==
    /\ Len(delivered) <= Len(sent)
    /\ \A i \in DOMAIN delivered : Len(delivered[i]) = Len(sent[i])

\* Between packets the length of the next one is in the stream, or just read.
NextComes ==
    /\ local \o unread = Rest(sent, Len(delivered))
    /\ local # <<>> => Len(local) = 2 /\ room = 2

\* Some bytes u of the current packet are gone from the stream, as many as the
\* call and bufferIn have, be they the right ones or zeros.
PartRead(u) ==
    /\ Len(u) = bufferIn.size + Len(local)
    /\ u \o unread = Current \o Rest(sent, Len(delivered) + 1)

Borders ==
    /\ Measured
    /\ AtBorder /\ ~close => NextComes
    /\ stage = "Receiving" \/ Ready => Len(delivered) < Len(sent)
    /\ stage = "Receiving" => maxSize = Len(Current)
    /\ stage = "Receiving" /\ ~close => \E u \in Seq(Bytes) : PartRead(u)
    /\ Ready => bufferIn.size = Len(Current)
    /\ Ready /\ ~close => unread = Rest(sent, Len(delivered) + 1)

\* Until a read is cut, the bytes are the right ones.
Intact ==
    /\ \A i \in DOMAIN delivered : delivered[i] = sent[i]
    /\ stage = "Receiving" =>
         /\ bufferIn.chunks = <<>>
         /\ local # <<>> => local = Current /\ room = Len(Current)
    /\ Ready => Content(bufferIn) = Current

FInv ==
    /\ TurnInv /\ Typed /\ Fits
    /\ ~headerSplit => Borders
    /\ ~split => Intact

LEMMA FInvInit ==
    ASSUME Init
    PROVE  FInv
<1>1. /\ sent = <<>> /\ coming = <<>> /\ socket = <<>> /\ eof = "no"
      /\ bufferIn = EmptyBuffer /\ stage = "Empty" /\ maxSize = 0
      /\ pc = "idle" /\ local = <<>> /\ room = 0 /\ notices = 0 /\ delivered = <<>>
    BY DEF Init
<1>2. ~taken /\ ~close /\ ~split /\ ~headerSplit /\ {edge, close, taken, split, headerSplit} \subseteq BOOLEAN
    BY Zenon DEF Init
<1>3. \A T : <<>> \in Seq(T)
    OBVIOUS
<1>4. bufferIn.chunks = <<>> /\ bufferIn.size = 0 /\ Content(bufferIn) = <<>>
    BY <1>1, FlattenNone DEF EmptyBuffer, Content
<1>5. Typed
    BY <1>1, <1>2, <1>3, <1>4 DEF Typed, BytesTypeOK
<1>6. Fits
    BY <1>1, <1>2, <1>4 DEF Fits
<1>7. Rest(sent, Len(delivered)) = <<>> /\ local \o unread = <<>>
    <2>1. sent \in Seq(Packets) /\ Len(delivered) = Len(sent)
        BY <1>1, <1>3
    <2>2. Rest(sent, Len(delivered)) = <<>>
        BY <2>1, RestNone
    <2>3. <<>> \o <<>> = <<>>
        OBVIOUS
    <2> QED
        BY <1>1, <2>2, <2>3 DEF unread
<1>8. Borders /\ Intact
    BY <1>1, <1>2, <1>7 DEF Borders, Measured, NextComes, Ready, AtBorder, Intact
<1> QED
    BY <1>5, <1>6, <1>8, TurnInit DEF FInv

LEMMA BooleansKept ==
    ASSUME {edge, close, taken, split, headerSplit} \subseteq BOOLEAN, [Next]_vars
    PROVE  {edge', close', taken', split', headerSplit'} \subseteq BOOLEAN
<1>1. CASE Send \/ Disconnect \/ Deliver
    BY <1>1, Zenon DEF Send, Disconnect, Deliver, session, ghosts
<1>2. CASE Event
    BY <1>2, Zenon DEF Event, session, ghosts
<1>3. CASE ReadSome
    BY <1>3, Zenon DEF ReadSome, session
<1>4. CASE ReadDone \/ ReadAgain \/ ReadEnd
    BY <1>4, Zenon DEF ReadDone, ReadAgain, ReadEnd, session, ghosts
<1>5. CASE Take \/ Free
    BY <1>5, Zenon DEF Take, Free, ghosts
<1>6. CASE QueueOnly \/ UNCHANGED vars
    BY <1>6, Zenon DEF QueueOnly, PushOther, Wake, TakeOther, TakeClose, Erase, vars, session, ghosts
<1> QED
    BY <1>1, <1>2, <1>3, <1>4, <1>5, <1>6, Zenon DEF Next, Receiver, Session, QueueOnly

-----------------------------------------------------------------------------
(* One step of each *)

\* What the invariant is read from.
place == <<sent, bufferIn, stage, maxSize, pc, local, room, close, notices, taken, delivered,
           split, headerSplit>>

LEMMA BytesAssoc == \A s, t, u \in Seq(Bytes) : (s \o t) \o u = s \o (t \o u)
BY ConcatAssociative

LEMMA BytesBegin ==
    \A u, v \in Seq(Bytes) : Len(u) = Len(v) =>
        \A s, t \in Seq(Bytes) : u \o s = v \o t => u = v /\ s = t
BY SameBeginning

LEMMA StreamType ==
    ASSUME FInv
    PROVE  /\ unread \in Seq(Bytes) /\ local \in Seq(Bytes) /\ sent \in Seq(Packets)
           /\ Len(local) \in Nat /\ Len(sent) \in Nat /\ Len(delivered) \in Nat
           /\ bufferIn.size \in Nat
           /\ Borders => Len(delivered) \in 0..Len(sent) /\ Rest(sent, Len(delivered)) \in Seq(Bytes)
           /\ Borders /\ Len(delivered) < Len(sent) =>
                /\ Current \in Packets /\ Rest(sent, Len(delivered) + 1) \in Seq(Bytes)
                /\ Rest(sent, Len(delivered)) = Frame(Current) \o Rest(sent, Len(delivered) + 1)
<1>1. socket \in Seq(Bytes) /\ coming \in Seq(Bytes) /\ local \in Seq(Bytes) /\ sent \in Seq(Packets)
    BY DEF FInv, Typed, BytesTypeOK
<1>2. bufferIn.size \in Nat
    BY FlattenSeqType, LenProperties DEF FInv, Typed, Content
<1>3. Len(local) \in Nat /\ Len(sent) \in Nat /\ Len(delivered) \in Nat
    BY <1>1, LenProperties DEF FInv, Typed
<1>4. Borders => Len(delivered) \in 0..Len(sent) /\ Rest(sent, Len(delivered)) \in Seq(Bytes)
    <2>1. Borders => Len(delivered) \in 0..Len(sent)
        BY <1>3 DEF Borders, Measured
    <2> QED
        BY <1>1, <2>1, FramesType
<1>5. Borders /\ Len(delivered) < Len(sent) =>
        /\ Current \in Packets /\ Rest(sent, Len(delivered) + 1) \in Seq(Bytes)
        /\ Rest(sent, Len(delivered)) = Frame(Current) \o Rest(sent, Len(delivered) + 1)
    <2> SUFFICES ASSUME Borders, Len(delivered) < Len(sent)
                 PROVE  /\ Current \in Packets /\ Rest(sent, Len(delivered) + 1) \in Seq(Bytes)
                        /\ Rest(sent, Len(delivered)) = Frame(Current) \o Rest(sent, Len(delivered) + 1)
        OBVIOUS
    <2>1. Len(delivered) \in 0..(Len(sent) - 1)
        BY <1>3
    <2> QED
        BY <1>1, <2>1, RestFirst DEF Current
<1> QED
    BY <1>1, <1>2, <1>3, <1>4, <1>5, ConcatTyped DEF unread

LEMMA PlaceStays ==
    ASSUME FInv, [Next]_vars, UNCHANGED place, UNCHANGED unread,
           socket' \in Seq(Bytes), coming' \in Seq(Bytes), eof' \in {"no", "coming", "here"}
    PROVE  FInv'
<1>1. {edge', close', taken', split', headerSplit'} \subseteq BOOLEAN
    BY BooleansKept DEF FInv, Typed, BytesTypeOK
<1>2. Typed'
    BY <1>1 DEF FInv, Typed, BytesTypeOK, place, Content
<1>3. TurnInv' /\ Fits'
    BY TurnStep DEF FInv, Fits, place, AtBorder
<1>4. /\ Current' = Current /\ Ready' = Ready /\ AtBorder' = AtBorder /\ NextComes' = NextComes
      /\ Measured' = Measured /\ \A u : PartRead(u)' = PartRead(u)
    BY DEF place, Current, Ready, AtBorder, NextComes, Measured, PartRead, Rest, Frames
<1>5. Borders' = Borders
    BY <1>4, Zenon DEF Borders, place, Rest, Frames
<1>6. Intact' = Intact
    BY <1>4 DEF Intact, place, Content
<1>7. headerSplit' = headerSplit /\ split' = split
    BY DEF place
<1> QED
    BY <1>2, <1>3, <1>5, <1>6, <1>7, Zenon DEF FInv

LEMMA DisconnectFrames ==
    ASSUME FInv, Disconnect
    PROVE  FInv'
<1>1. UNCHANGED place /\ UNCHANGED unread /\ socket' = socket /\ coming' = coming /\ eof' = "coming"
    BY DEF Disconnect, buffer, call, session, ghosts, place, unread
<1>2. socket' \in Seq(Bytes) /\ coming' \in Seq(Bytes) /\ eof' \in {"no", "coming", "here"}
    BY <1>1 DEF FInv, Typed, BytesTypeOK
<1> QED
    BY <1>1, <1>2, PlaceStays DEF Next

LEMMA DeliverFrames ==
    ASSUME FInv, Deliver
    PROVE  FInv'
<1>1. UNCHANGED place
    BY DEF Deliver, buffer, call, session, ghosts, place
<1>2. socket \in Seq(Bytes) /\ coming \in Seq(Bytes) /\ eof \in {"no", "coming", "here"}
    BY DEF FInv, Typed, BytesTypeOK
<1>3. CASE socket' = socket /\ coming' = coming /\ eof' = "here"
    BY <1>1, <1>2, <1>3, PlaceStays DEF Next, unread
<1>4. ASSUME NEW k \in 1..Len(coming), socket' = socket \o SubSeq(coming, 1, k),
             coming' = SubSeq(coming, k + 1, Len(coming)), UNCHANGED eof
      PROVE  FInv'
    <2> DEFINE s == SubSeq(coming, 1, k)
               t == SubSeq(coming, k + 1, Len(coming))
    <2>1. s \in Seq(Bytes) /\ t \in Seq(Bytes) /\ s \o t = coming
        <3>1. k \in 0..Len(coming)
            BY <1>2, LenProperties
        <3> QED
            BY <1>2, <3>1, CutInTwo
    <2>2. socket' = socket \o s /\ coming' = t
        BY <1>4
    <2> HIDE DEF s, t
    <2>3. socket' \in Seq(Bytes) /\ coming' \in Seq(Bytes) /\ eof' \in {"no", "coming", "here"}
        BY <1>2, <1>4, <2>1, <2>2, ConcatTyped
    <2>4. UNCHANGED unread
        <3>1. (socket \o s) \o t = socket \o (s \o t)
            BY <1>2, <2>1, BytesAssoc, ZenonT(30)
        <3> QED
            BY <2>1, <2>2, <3>1, Zenon DEF unread
    <2> QED
        BY <1>1, <2>3, <2>4, PlaceStays DEF Next
<1> QED
    BY <1>3, <1>4 DEF Deliver

LEMMA SendFrames ==
    ASSUME FInv, Send
    PROVE  FInv'
<1>1. PICK p \in Packets : sent' = Append(sent, p) /\ coming' = coming \o Frame(p)
    BY DEF Send
<1>2. UNCHANGED <<eof, socket, bufferIn, stage, maxSize, pc, local, room, close, notices, taken,
                  delivered, split, headerSplit>>
    BY DEF Send, buffer, call, session, ghosts
<1>3. Frame(p) \in Seq(Bytes) /\ socket \in Seq(Bytes) /\ coming \in Seq(Bytes) /\ sent \in Seq(Packets)
    BY FrameParts DEF FInv, Typed, BytesTypeOK
<1>4. unread' = unread \o Frame(p)
    <2>1. (socket \o coming) \o Frame(p) = socket \o (coming \o Frame(p))
        BY <1>3, BytesAssoc, ZenonT(30)
    <2> QED
        BY <1>1, <1>2, <2>1, Zenon DEF unread
<1>5. {edge', close', taken', split', headerSplit'} \subseteq BOOLEAN
    BY BooleansKept DEF FInv, Typed, BytesTypeOK, Next
<1>6. Typed'
    <2>1. sent' \in Seq(Packets) /\ coming' \in Seq(Bytes)
        BY <1>1, <1>3, AppendProperties, ConcatTyped
    <2> QED
        BY <1>2, <1>5, <2>1 DEF FInv, Typed, BytesTypeOK, Content
<1>7. TurnInv' /\ Fits'
    BY <1>2, TurnStep DEF FInv, Fits, AtBorder, Next
<1>8. Len(sent') = Len(sent) + 1 /\ Len(sent) \in Nat /\ \A i \in 1..Len(sent) : sent'[i] = sent[i]
    BY <1>1, <1>3, AppendProperties, LenProperties
<1>9. ASSUME Borders
      PROVE  /\ Borders'
             /\ Len(delivered) < Len(sent) => Current' = Current
             /\ \A i \in DOMAIN delivered : sent'[i] = sent[i]
    <2>1. Len(delivered) \in 0..Len(sent) /\ Len(delivered) \in Nat /\ DOMAIN delivered = 1..Len(delivered)
        BY <1>9, StreamType, LenProperties DEF FInv, Typed
    <2>2. \A i \in DOMAIN delivered : i \in 1..Len(sent)
        BY <1>8, <2>1
    <2>3. Measured'
        BY <1>2, <1>8, <1>9, <2>1, <2>2 DEF Borders, Measured
    <2>4. /\ unread \in Seq(Bytes) /\ local \in Seq(Bytes)
          /\ Rest(sent', Len(delivered)) = Rest(sent, Len(delivered)) \o Frame(p)
        BY <1>1, <1>3, <2>1, StreamType, RestMore
    <2>5. ASSUME AtBorder, ~close
          PROVE  NextComes'
        <3>1. NextComes
            BY <1>9, <2>5 DEF Borders
        <3>2. (local \o unread) \o Frame(p) = local \o (unread \o Frame(p))
            BY <1>3, <2>4, BytesAssoc, ZenonT(30)
        <3> QED
            BY <1>2, <1>4, <2>4, <3>1, <3>2 DEF NextComes
    <2>6. ASSUME Len(delivered) < Len(sent)
          PROVE  /\ Current' = Current
                 /\ Rest(sent', Len(delivered) + 1) = Rest(sent, Len(delivered) + 1) \o Frame(p)
        <3>1. Len(delivered) + 1 \in 0..Len(sent) /\ Len(delivered) + 1 \in 1..Len(sent)
            BY <1>8, <2>1, <2>6
        <3>2. Rest(sent', Len(delivered) + 1) = Rest(sent, Len(delivered) + 1) \o Frame(p)
            BY <1>1, <1>3, <3>1, RestMore
        <3> QED
            BY <1>2, <1>8, <3>1, <3>2 DEF Current
    <2>7. ASSUME Len(delivered) < Len(sent), NEW u \in Seq(Bytes), PartRead(u)
          PROVE  PartRead(u)'
        <3>1. Current \in Packets /\ Rest(sent, Len(delivered) + 1) \in Seq(Bytes)
            BY <1>9, <2>7, StreamType
        <3>2. Current \in Seq(Bytes)
            BY <3>1, FrameParts
        <3>3. (u \o unread) \o Frame(p) = u \o (unread \o Frame(p))
            BY <1>3, <2>4, BytesAssoc, ZenonT(30)
        <3>4. (Current \o Rest(sent, Len(delivered) + 1)) \o Frame(p)
                = Current \o (Rest(sent, Len(delivered) + 1) \o Frame(p))
            BY <1>3, <3>1, <3>2, BytesAssoc, ZenonT(30)
        <3> QED
            BY <1>2, <1>4, <2>6, <2>7, <3>3, <3>4 DEF PartRead
    <2>8. (stage = "Receiving" \/ Ready) => Len(delivered) < Len(sent)
        BY <1>9 DEF Borders
    <2>9. stage' = stage /\ Ready' = Ready /\ AtBorder' = AtBorder /\ close' = close
        BY <1>2 DEF Ready, AtBorder
    <2>10. (stage = "Receiving" \/ Ready)' => Len(delivered)' < Len(sent)'
        BY <1>2, <1>8, <2>1, <2>8, <2>9
    <2>11. (stage = "Receiving")' => (maxSize = Len(Current))'
        BY <1>2, <1>9, <2>6, <2>8 DEF Borders
    <2>12. (stage = "Receiving" /\ ~close)' => (\E u \in Seq(Bytes) : PartRead(u))'
        BY <1>9, <2>7, <2>8, <2>9 DEF Borders
    <2>13. Ready' => (bufferIn.size = Len(Current))'
        BY <1>2, <1>9, <2>6, <2>8, <2>9 DEF Borders
    <2>14. (Ready /\ ~close)' => (unread = Rest(sent, Len(delivered) + 1))'
        BY <1>2, <1>4, <1>9, <2>6, <2>8, <2>9 DEF Borders
    <2>15. Borders'
        BY <2>3, <2>5, <2>9, <2>10, <2>11, <2>12, <2>13, <2>14 DEF Borders
    <2> QED
        BY <1>8, <2>2, <2>6, <2>15
<1>10. ASSUME Borders, Intact
       PROVE  Intact'
    <2>1. Ready' = Ready /\ ((stage = "Receiving" \/ Ready) => Current' = Current)
        BY <1>2, <1>9, <1>10 DEF Ready, Borders
    <2> QED
        BY <1>2, <1>9, <1>10, <2>1 DEF Intact, Content
<1> QED
    BY <1>2, <1>6, <1>7, <1>9, <1>10 DEF FInv, Fits

LEMMA EventFrames ==
    ASSUME FInv, Event
    PROVE  FInv'
<1>1. /\ UNCHANGED <<sent, coming, eof, socket, bufferIn, stage, maxSize, close, notices, taken, delivered,
                     split, headerSplit>>
      /\ pc = "idle"
    BY DEF Event, network, buffer, session, ghosts
<1>2. local = <<>> /\ local' = <<>>
    BY <1>1 DEF Event, Call, call, FInv, Fits
<1>3. \/ ~close /\ stage = "Empty" /\ pc' = "header" /\ room' = 2
      \/ ~close /\ stage = "Receiving" /\ pc' = "payload" /\ room' = remainingSize
      \/ pc' = "idle" /\ room' = room
    BY <1>1 DEF Event, AwaitsHeader, Call, call
<1>4. {edge', close', taken', split', headerSplit'} \subseteq BOOLEAN
    BY BooleansKept DEF FInv, Typed, BytesTypeOK, Next, Receiver
<1>5. room' \in Nat /\ pc' \in {"idle", "header", "payload"}
    <2>1. stage = "Receiving" => remainingSize \in Nat
        BY <1>2, StreamType, LenProperties DEF FInv, Fits, Typed, BytesTypeOK, remainingSize
    <2> QED
        BY <1>3, <2>1 DEF FInv, Typed, BytesTypeOK
<1>6. Typed'
    BY <1>1, <1>2, <1>4, <1>5 DEF FInv, Typed, BytesTypeOK, Content
<1>7. TurnInv' /\ Fits'
    <2>1. Len(local') = 0
        BY <1>2
    <2> QED
        BY <1>1, <1>2, <1>3, <2>1, TurnStep DEF FInv, Fits, AtBorder, Next, Receiver
<1>8. /\ Current' = Current /\ Ready' = Ready /\ AtBorder' = AtBorder /\ Measured' = Measured
      /\ unread' = unread /\ NextComes' = NextComes /\ \A u : PartRead(u)' = PartRead(u)
    BY <1>1, <1>2 DEF Current, Ready, AtBorder, NextComes, Measured, PartRead, Rest, Frames, unread
<1>9. Borders' = Borders
    BY <1>1, <1>8, Zenon DEF Borders, Rest, Frames
<1>10. Intact' = Intact
    BY <1>1, <1>2, <1>8 DEF Intact, Content
<1> QED
    BY <1>1, <1>6, <1>7, <1>9, <1>10, Zenon DEF FInv

LEMMA InACall ==
    ASSUME FInv, pc # "idle"
    PROVE  /\ \/ pc = "header" /\ stage = "Empty" /\ Wanted = 2 /\ AtBorder
              \/ pc = "payload" /\ stage = "Receiving" /\ Wanted = maxSize - bufferIn.size
           /\ Wanted \in Nat /\ Len(local) \in 0..Wanted /\ Remaining = Wanted - Len(local)
           /\ ~close /\ ~Ready /\ ~taken
<1>1. stage # "Full"
    BY DEF FInv, TurnInv, CallFitsStage
<1>2. ~taken
    BY <1>1 DEF FInv, TurnInv, NoticeIffFull
<1>3. Len(local) \in Nat /\ bufferIn.size \in Nat /\ maxSize \in Nat
    BY StreamType DEF FInv, Typed, BytesTypeOK
<1>4. \/ pc = "header" /\ stage = "Empty" /\ Len(local) <= 2
      \/ pc = "payload" /\ stage = "Receiving" /\ bufferIn.size + Len(local) <= maxSize
    BY DEF FInv, TurnInv, CallFitsStage, Fits
<1>5. ~close
    BY DEF FInv, Fits
<1> QED
    BY <1>1, <1>2, <1>3, <1>4, <1>5 DEF Wanted, Remaining, remainingSize, AtBorder, Ready

LEMMA ReadSomeFrames ==
    ASSUME FInv, ReadSome
    PROVE  FInv'
<1> DEFINE count == IF Len(socket) < Remaining THEN Len(socket) ELSE Remaining
           s == SubSeq(socket, 1, count)
           t == SubSeq(socket, count + 1, Len(socket))
<1>1. /\ pc # "idle" /\ Remaining > 0 /\ socket # <<>>
      /\ local' = local \o s /\ socket' = t /\ room' = Remaining
      /\ (split \/ count < Wanted) => split'
      /\ split => split'
      /\ headerSplit => headerSplit'
      /\ headerSplit' => headerSplit \/ (pc = "header" /\ count < Wanted)
      /\ (pc = "header" /\ count < Wanted) => headerSplit'
      /\ UNCHANGED <<sent, coming, eof, bufferIn, stage, maxSize, pc, close, notices, taken, delivered>>
    BY DEF ReadSome, network, buffer, session
<1>2. /\ \/ pc = "header" /\ stage = "Empty" /\ Wanted = 2 /\ AtBorder
         \/ pc = "payload" /\ stage = "Receiving" /\ Wanted = maxSize - bufferIn.size
      /\ Wanted \in Nat /\ Len(local) \in 0..Wanted /\ Remaining = Wanted - Len(local)
      /\ ~close /\ ~Ready /\ ~taken
    BY <1>1, InACall
<1>3. socket \in Seq(Bytes) /\ coming \in Seq(Bytes) /\ local \in Seq(Bytes) /\ Len(socket) \in Nat
    BY LenProperties DEF FInv, Typed, BytesTypeOK
<1>4. count \in 0..Len(socket) /\ count <= Remaining /\ count \in Nat
    BY <1>1, <1>2, <1>3
<1>5. s \in Seq(Bytes) /\ Len(s) = count /\ t \in Seq(Bytes) /\ s \o t = socket
    BY <1>3, <1>4, CutInTwo
<1> HIDE DEF count, s, t
<1>6. local' \in Seq(Bytes) /\ Len(local') = Len(local) + count
    BY <1>1, <1>3, <1>5, ConcatTyped
<1>7. unread' \in Seq(Bytes) /\ s \o unread' = unread
    <2>1. (s \o t) \o coming = s \o (t \o coming)
        BY <1>3, <1>5, BytesAssoc, ZenonT(30)
    <2>2. unread' = t \o coming
        BY <1>1 DEF unread
    <2> QED
        BY <1>3, <1>5, <2>1, <2>2, ConcatTyped DEF unread
<1>8. \A u \in Seq(Bytes) : (u \o s) \o unread' = u \o unread
    <2> TAKE u \in Seq(Bytes)
    <2>1. (u \o s) \o unread' = u \o (s \o unread')
        BY <1>5, <1>7, BytesAssoc, ZenonT(30)
    <2> QED
        BY <1>7, <2>1, Zenon
<1>9. {edge', close', taken', split', headerSplit'} \subseteq BOOLEAN
    BY BooleansKept DEF FInv, Typed, BytesTypeOK, Next, Receiver
<1>10. Typed'
    <2>1. socket' \in Seq(Bytes) /\ room' \in Nat
        BY <1>1, <1>2, <1>5
    <2> QED
        BY <1>1, <1>6, <1>9, <2>1 DEF FInv, Typed, BytesTypeOK, Content
<1>11. TurnInv' /\ Fits'
    <2>1. TurnInv'
        BY TurnStep DEF FInv, Next, Receiver
    <2>2. Len(local') <= Wanted
        BY <1>2, <1>4, <1>6
    <2>3. pc = "header" => Len(local') <= 2
        BY <1>2, <2>2
    <2>4. stage = "Receiving" => bufferIn.size + Len(local') <= maxSize
        <3>1. bufferIn.size \in Nat /\ maxSize \in Nat
            BY StreamType DEF FInv, Typed, BytesTypeOK
        <3> QED
            BY <1>2, <1>4, <1>6, <2>2, <3>1
    <2>5. headerSplit' => split'
        BY <1>1 DEF FInv, Fits
    <2> QED
        BY <1>1, <1>2, <2>1, <2>3, <2>4, <2>5 DEF FInv, Fits, AtBorder
<1>12. Current' = Current /\ ~Ready' /\ AtBorder' = AtBorder /\ Measured' = Measured /\ ~close'
    BY <1>1, <1>2 DEF Current, Ready, AtBorder, Measured
<1>13. ASSUME Borders, ~headerSplit'
       PROVE  Borders'
    <2>1. CASE pc = "header"
        <3>1. NextComes
            BY <1>2, <1>13, <2>1 DEF Borders
        <3>2. count = 2
            BY <1>1, <1>2, <1>4, <1>13, <2>1
        <3>3. Len(local) = 0 /\ Remaining = 2 /\ Len(local') = 2
            BY <1>2, <1>4, <1>6, <3>2, <2>1
        <3>4. local' \o unread' = local \o unread
            BY <1>1, <1>3, <1>8
        <3>5. NextComes'
            BY <1>1, <3>1, <3>3, <3>4 DEF NextComes
        <3>6. stage' = "Empty"
            BY <1>1, <1>2, <2>1
        <3> QED
            BY <1>12, <1>13, <3>5, <3>6 DEF Borders
    <2>2. CASE pc = "payload"
        <3>1. /\ stage = "Receiving" /\ stage' = "Receiving" /\ Len(delivered) < Len(sent)
              /\ maxSize = Len(Current) /\ ~AtBorder
            BY <1>1, <1>2, <1>13, <2>2 DEF Borders, AtBorder
        <3>2. PICK u \in Seq(Bytes) : PartRead(u)
            BY <1>2, <1>13, <3>1 DEF Borders
        <3>3. PICK v \in Seq(Bytes) : v = u \o s /\ Len(v) = Len(u) + count
            <4>1. u \o s \in Seq(Bytes) /\ Len(u \o s) = Len(u) + count
                BY <1>5, ConcatTyped
            <4> QED
                BY <4>1
        <3>4. Len(v) = bufferIn.size + Len(local')
            <4>1. bufferIn.size \in Nat /\ Len(local) \in Nat
                BY StreamType
            <4> QED
                BY <1>4, <1>6, <3>2, <3>3, <4>1 DEF PartRead
        <3>5. v \o unread' = Current \o Rest(sent, Len(delivered) + 1)
            BY <1>8, <3>2, <3>3 DEF PartRead
        <3>6. \E w \in Seq(Bytes) : PartRead(w)'
            BY <1>1, <1>12, <3>4, <3>5 DEF PartRead
        <3>7. maxSize' = Len(Current') /\ Len(delivered') < Len(sent')
            BY <1>1, <1>12, <3>1
        <3>8. ~AtBorder'
            BY <1>12, <3>1
        <3> QED
            BY <1>12, <1>13, <3>6, <3>7, <3>8 DEF Borders
    <2> QED
        BY <1>2, <2>1, <2>2
<1>14. ASSUME Borders, Intact, ~split'
       PROVE  Intact'
    <2>1. CASE pc = "header"
        BY <1>1, <1>2, <1>12, <1>14, <2>1 DEF Intact
    <2>2. CASE pc = "payload"
        <3>1. /\ stage = "Receiving" /\ Len(delivered) < Len(sent) /\ maxSize = Len(Current)
              /\ bufferIn.chunks = <<>>
            BY <1>2, <1>14, <2>2 DEF Borders, Intact
        <3>2. bufferIn.size = 0
            BY <3>1, FlattenNone DEF FInv, Typed, Content
        <3>3. count = Wanted /\ Len(local) = 0
            BY <1>1, <1>2, <1>4, <1>14
        <3>4. Wanted = Len(Current) /\ Remaining = Len(Current) /\ local = <<>>
            <4>1. maxSize \in Nat
                BY DEF FInv, Typed, BytesTypeOK
            <4> QED
                BY <1>2, <1>3, <2>2, <3>1, <3>2, <3>3, <4>1, EmptySeq
        <3>5. PICK u \in Seq(Bytes) : PartRead(u)
            BY <1>2, <1>14, <3>1 DEF Borders
        <3>6. u = <<>>
            <4>1. Len(u) = 0
                BY <3>2, <3>3, <3>5 DEF PartRead
            <4> QED
                BY <4>1, EmptySeq
        <3>7. Current \in Seq(Bytes) /\ Rest(sent, Len(delivered) + 1) \in Seq(Bytes)
            BY <1>14, <3>1, StreamType, FrameParts
        <3>8. s \o unread' = Current \o Rest(sent, Len(delivered) + 1)
            <4>1. unread \in Seq(Bytes)
                BY StreamType
            <4> QED
                BY <1>7, <3>5, <3>6, <4>1, ConcatEmptySeq DEF PartRead
        <3>9. s = Current
            <4>1. Len(s) = Len(Current)
                BY <1>5, <3>3, <3>4
            <4>2. \A a, b \in Seq(Bytes) : s \o a = Current \o b => s = Current /\ a = b
                BY <1>5, <3>7, <4>1, BytesBegin, ZenonT(30)
            <4> QED
                BY <1>7, <3>7, <3>8, <4>2, Zenon
        <3>10. local' = Current /\ room' = Len(Current)
            BY <1>1, <1>5, <3>4, <3>9, ConcatEmptySeq
        <3> QED
            BY <1>1, <1>12, <1>14, <3>1, <3>10 DEF Intact
    <2> QED
        BY <1>2, <2>1, <2>2
<1>15. ~headerSplit' => Borders'
    BY <1>1, <1>13 DEF FInv
<1>16. ~split' => Intact'
    BY <1>1, <1>14 DEF FInv, Fits
<1> QED
    BY <1>10, <1>11, <1>15, <1>16 DEF FInv

\* What recv(n) returns has as many bytes as it has got, and they are these if the
\* vector is large enough.
LEMMA ResultIs ==
    ASSUME local \in Seq(Bytes), NEW size \in Nat
    PROVE  /\ Result(size) \in Seq(Bytes) /\ Len(Result(size)) = Len(local)
           /\ size >= Len(local) => Result(size) = local
<1> DEFINE r == Result(size)
<1>1. Len(local) \in Nat /\ DOMAIN local = 1..Len(local) /\ \A i \in 1..Len(local) : local[i] \in Bytes
    BY LenProperties, ElementOfSeq
<1>2. 0 \in Bytes
    BY BaseAssumption DEF Bytes
<1>3. \A i \in 1..Len(local) : r[i] = (IF i <= size THEN local[i] ELSE 0) /\ r[i] \in Bytes
    BY <1>1, <1>2 DEF Result
<1>4. r \in [1..Len(local) -> Bytes]
    BY <1>1, <1>3 DEF Result
<1> HIDE DEF r
<1>5. r \in Seq(Bytes) /\ Len(r) = Len(local)
    BY <1>1, <1>4
<1>6. ASSUME size >= Len(local)
      PROVE  r = local
    <2>1. \A i \in 1..Len(local) : r[i] = local[i]
        BY <1>1, <1>3, <1>6
    <2> QED
        BY <1>5, <2>1, SeqEqual
<1> QED
    BY <1>5, <1>6 DEF r

LEMMA HeaderDoneFrames ==
    ASSUME FInv, pc = "header", NEW bytes \in Seq(Bytes), Len(bytes) = Len(local),
           ~headerSplit => bytes = local, HeaderDone(bytes), [Next]_vars,
           UNCHANGED <<network, socket, edge, close, taken, delivered, ghosts>>
    PROVE  FInv'
<1>1. /\ UNCHANGED <<sent, coming, eof, socket, bufferIn, close, taken, delivered, split, headerSplit, notices>>
      /\ local' = <<>>
    BY DEF HeaderDone, Call, network, ghosts
<1>2. stage = "Empty" /\ AtBorder /\ ~close /\ ~Ready /\ ~taken /\ Len(local) \in Nat
    BY InACall
<1>3. /\ local \in Seq(Bytes) /\ unread \in Seq(Bytes) /\ unread' = unread /\ sent \in Seq(Packets)
      /\ bufferIn.chunks = <<>> /\ bufferIn.size = 0
    <2>1. bufferIn.chunks = <<>>
        BY <1>2 DEF FInv, Fits
    <2>2. bufferIn.size = 0
        BY <2>1, FlattenNone DEF FInv, Typed, Content
    <2> QED
        BY <1>1, <2>1, <2>2, StreamType DEF unread
<1>4. {edge', close', taken', split', headerSplit'} \subseteq BOOLEAN
    BY BooleansKept DEF FInv, Typed, BytesTypeOK
<1>5. TurnInv'
    BY TurnStep DEF FInv
<1>6. Current' = Current /\ Measured' = Measured /\ ~close' /\ ~taken'
    BY <1>1, <1>2 DEF Current, Measured
<1>7. CASE bytes = <<>>
    <2>1. stage' = "Empty" /\ maxSize' = maxSize /\ pc' = "idle" /\ room' = 0 /\ local = <<>>
        BY <1>2, <1>3, <1>7, EmptySeq DEF HeaderDone, Call
    <2>2. Typed'
        BY <1>1, <1>4, <2>1 DEF FInv, Typed, BytesTypeOK, Content
    <2>3. Fits'
        BY <1>1, <1>3, <1>6, <2>1 DEF FInv, Fits
    <2>4. ASSUME Borders
          PROVE  Borders'
        <3>1. NextComes'
            BY <1>1, <1>2, <1>3, <2>1, <2>4 DEF Borders, NextComes
        <3> QED
            BY <1>6, <2>1, <2>4, <3>1 DEF Borders, Ready
    <2>5. ASSUME Intact
          PROVE  Intact'
        BY <1>1, <2>1, <2>5 DEF Intact, Ready
    <2> QED
        BY <1>1, <1>5, <2>2, <2>3, <2>4, <2>5 DEF FInv
<1>8. CASE bytes # <<>>
    <2>1. /\ stage' = "Receiving" /\ maxSize' = SizeOf(bytes) /\ pc' = "payload"
          /\ room' = SizeOf(bytes)
        BY <1>8 DEF HeaderDone, Call
    <2>2. SizeOf(bytes) \in Nat
        <3>1. Len(bytes) \in Nat \ {0} /\ \A i \in 1..Len(bytes) : bytes[i] \in Nat
            BY <1>8, EmptySeq, LenProperties, ElementOfSeq, BaseAssumption DEF Bytes
        <3>2. bytes[1] \in Nat
            BY <3>1
        <3>3. Len(bytes) > 1 => bytes[2] \in Nat /\ Base * bytes[2] \in Nat
            BY <3>1, BaseAssumption
        <3> QED
            BY <3>2, <3>3 DEF SizeOf
    <2>3. Typed'
        BY <1>1, <1>4, <2>1, <2>2 DEF FInv, Typed, BytesTypeOK, Content
    <2>4. Fits'
        <3>1. Len(local') = 0
            BY <1>1
        <3>2. bufferIn'.size + Len(local') <= maxSize'
            BY <1>1, <1>3, <2>1, <2>2, <3>1
        <3> QED
            BY <1>1, <1>3, <1>6, <2>1, <3>2 DEF FInv, Fits
    <2>5. ASSUME Borders, ~headerSplit
          PROVE  Borders'
        <3>1. /\ local \o unread = Rest(sent, Len(delivered)) /\ Len(local) = 2 /\ bytes = local
            BY <1>2, <1>8, <2>5 DEF Borders, NextComes
        <3>2. Len(delivered) < Len(sent)
            <4>1. Len(delivered) = Len(sent) => Rest(sent, Len(delivered)) = <<>>
                BY <1>3, RestNone
            <4>2. Len(local \o unread) # 0
                <5>1. Len(local \o unread) = Len(local) + Len(unread) /\ Len(unread) \in Nat
                    BY <1>3, ConcatTyped
                <5> QED
                    BY <3>1, <5>1
            <4>3. Len(delivered) # Len(sent)
                BY <3>1, <4>1, <4>2
            <4> QED
                BY <2>5, <4>3, StreamType DEF Borders, Measured
        <3>3. /\ Current \in Packets /\ Rest(sent, Len(delivered) + 1) \in Seq(Bytes)
              /\ Rest(sent, Len(delivered)) = Frame(Current) \o Rest(sent, Len(delivered) + 1)
            BY <2>5, <3>2, StreamType
        <3>4. /\ Current \in Seq(Bytes) /\ LengthOf(Current) \in Seq(Bytes) /\ Len(LengthOf(Current)) = 2
              /\ SizeOf(LengthOf(Current)) = Len(Current) /\ Frame(Current) = LengthOf(Current) \o Current
            BY <3>3, FrameParts
        <3>5. local \o unread = LengthOf(Current) \o (Current \o Rest(sent, Len(delivered) + 1))
            <4>1. (LengthOf(Current) \o Current) \o Rest(sent, Len(delivered) + 1)
                    = LengthOf(Current) \o (Current \o Rest(sent, Len(delivered) + 1))
                BY <3>3, <3>4, BytesAssoc, ZenonT(30)
            <4> QED
                BY <3>1, <3>3, <3>4, <4>1
        <3>6. Current \o Rest(sent, Len(delivered) + 1) \in Seq(Bytes)
            BY <3>3, <3>4, ConcatTyped
        <3>7. local = LengthOf(Current) /\ unread = Current \o Rest(sent, Len(delivered) + 1)
            <4>1. Len(local) = Len(LengthOf(Current))
                BY <3>1, <3>4
            <4>2. \A a, b \in Seq(Bytes) : local \o a = LengthOf(Current) \o b => local = LengthOf(Current) /\ a = b
                BY <1>3, <3>4, <4>1, BytesBegin, ZenonT(30)
            <4> QED
                BY <1>3, <3>5, <3>6, <4>2, Zenon
        <3>8. maxSize' = Len(Current')
            BY <1>6, <2>1, <3>1, <3>4, <3>7
        <3>9. <<>> \in Seq(Bytes) /\ PartRead(<<>>)'
            <4>1. Len(<<>>) = bufferIn'.size + Len(local')
                BY <1>1, <1>3
            <4>2. <<>> \o unread' = Current' \o Rest(sent', Len(delivered') + 1)
                BY <1>1, <1>3, <1>6, <3>7, ConcatEmptySeq
            <4> QED
                BY <4>1, <4>2 DEF PartRead
        <3>10. ~AtBorder' /\ ~Ready' /\ Len(delivered') < Len(sent')
            BY <1>1, <1>6, <2>1, <3>2 DEF AtBorder, Ready
        <3>11. (\E u \in Seq(Bytes) : PartRead(u))'
            BY <3>9
        <3> QED
            BY <1>6, <2>5, <3>8, <3>10, <3>11 DEF Borders
    <2>6. ASSUME Intact
          PROVE  Intact'
        BY <1>1, <1>3, <2>1, <2>6 DEF Intact, Ready
    <2> QED
        BY <1>1, <1>5, <2>3, <2>4, <2>5, <2>6 DEF FInv
<1> QED
    BY <1>7, <1>8

\* A call for the payload returns: all of the packet is in bufferIn now, or more of
\* it than before, or nothing has come.
LEMMA PayloadDoneFrames ==
    ASSUME FInv, pc = "payload", NEW bytes \in Seq(Bytes), Len(bytes) = Len(local),
           ~split => bytes = local, PayloadDone(bytes), [Next]_vars,
           UNCHANGED <<network, socket, edge, close, taken, delivered, ghosts>>
    PROVE  FInv'
<1>1. /\ UNCHANGED <<sent, coming, eof, socket, maxSize, close, taken, delivered, split, headerSplit>>
      /\ local' = <<>> /\ room' = 0 /\ pc' = "idle"
    BY DEF PayloadDone, Call, network, ghosts
<1>2. /\ stage = "Receiving" /\ ~close /\ ~taken /\ ~AtBorder /\ ~Ready
      /\ Len(local) \in Nat /\ bufferIn.size \in Nat /\ maxSize \in Nat
      /\ bufferIn.size + Len(local) <= maxSize /\ notices = 0
    <2>1. stage = "Receiving" /\ ~close /\ ~taken /\ ~Ready
        BY InACall
    <2> QED
        BY <2>1, StreamType DEF FInv, TurnInv, NoticeIffFull, Typed, BytesTypeOK, Fits, AtBorder
<1>3. /\ local \in Seq(Bytes) /\ unread \in Seq(Bytes) /\ unread' = unread /\ sent \in Seq(Packets)
    BY <1>1, StreamType DEF unread
<1>4. {edge', close', taken', split', headerSplit'} \subseteq BOOLEAN
    BY BooleansKept DEF FInv, Typed, BytesTypeOK
<1>5. TurnInv'
    BY TurnStep DEF FInv
<1>6. Current' = Current /\ Measured' = Measured /\ ~close' /\ ~taken'
    BY <1>1, <1>2 DEF Current, Measured
<1>7. CASE bytes = <<>>
    <2>1. UNCHANGED <<bufferIn, stage, notices>> /\ local = <<>>
        BY <1>2, <1>3, <1>7, EmptySeq DEF PayloadDone, Filled
    <2>2. Typed'
        BY <1>1, <1>4, <2>1 DEF FInv, Typed, BytesTypeOK, Content
    <2>3. Fits'
        BY <1>1, <1>2, <1>6, <2>1 DEF FInv, Fits, AtBorder
    <2>4. AtBorder' = AtBorder /\ Ready' = Ready /\ \A u : PartRead(u)' = PartRead(u)
        BY <1>1, <1>3, <1>6, <2>1 DEF AtBorder, Ready, PartRead, Rest, Frames
    <2>5. Borders => Borders'
        BY <1>1, <1>2, <1>6, <2>1, <2>4 DEF Borders
    <2>6. Intact => Intact'
        BY <1>1, <1>6, <2>1, <2>4 DEF Intact, Content
    <2> QED
        BY <1>1, <1>5, <2>2, <2>3, <2>5, <2>6 DEF FInv
<1>8. CASE bytes # <<>>
    <2>1. bufferIn' = PushBack(bufferIn, bytes)
        BY <1>8 DEF PayloadDone
    <2>2. /\ bufferIn'.chunks = Append(bufferIn.chunks, bytes) /\ bufferIn'.chunks \in Seq(Seq(Bytes))
          /\ bufferIn'.size = bufferIn.size + Len(local)
        BY <2>1, AppendProperties DEF PushBack, FInv, Typed
    <2>3. Content(bufferIn)' = Content(bufferIn) \o bytes /\ bufferIn'.size = Len(Content(bufferIn)')
        <3>1. Content(bufferIn)' = Content(bufferIn) \o bytes
            BY <2>2, FlattenLast DEF Content, FInv, Typed
        <3>2. Content(bufferIn) \in Seq(Bytes) /\ bufferIn.size = Len(Content(bufferIn))
            BY FlattenSeqType DEF Content, FInv, Typed
        <3>3. Len(Content(bufferIn) \o bytes) = Len(Content(bufferIn)) + Len(bytes)
            BY <3>2, ConcatProperties
        <3> QED
            BY <2>2, <3>1, <3>2, <3>3
    <2>4. local # <<>>
        BY <1>2, <1>3, <1>8, EmptySeq
    <2>5. stage' \in {"Empty", "Receiving", "Full"} /\ notices' \in 0..1
        BY <1>5 DEF TurnInv
    <2>6. Typed'
        BY <1>1, <1>4, <2>2, <2>3, <2>5 DEF FInv, Typed, BytesTypeOK, Content
    <2>7. CASE remainingSize = Len(bytes)
        <3>1. stage' = "Full" /\ ~AtBorder' /\ Ready'
            BY <1>6, <1>8, <2>7 DEF PayloadDone, Filled, AtBorder, Ready
        <3>2. bufferIn.size + Len(local) = maxSize
            BY <1>2, <2>7 DEF remainingSize
        <3>3. Fits'
            BY <1>1, <1>6, <3>1 DEF FInv, Fits
        <3>4. ASSUME Borders
              PROVE  Borders'
            <4>1. Len(delivered) < Len(sent) /\ maxSize = Len(Current)
                BY <1>2, <3>4 DEF Borders
            <4>2. PICK u \in Seq(Bytes) : PartRead(u)
                BY <1>2, <3>4 DEF Borders
            <4>3. Current \in Seq(Bytes) /\ Rest(sent, Len(delivered) + 1) \in Seq(Bytes)
                BY <3>4, <4>1, StreamType, FrameParts
            <4>4. unread = Rest(sent, Len(delivered) + 1)
                <5>1. Len(u) = Len(Current) /\ u \o unread = Current \o Rest(sent, Len(delivered) + 1)
                    BY <3>2, <4>1, <4>2 DEF PartRead
                <5>2. \A s, t \in Seq(Bytes) : u \o s = Current \o t => u = Current /\ s = t
                    <6> DEFINE c == Current
                    <6>1. c \in Seq(Bytes) /\ u \in Seq(Bytes) /\ Len(u) = Len(c)
                        BY <4>2, <4>3, <5>1
                    <6> HIDE DEF c
                    <6>2. \A s, t \in Seq(Bytes) : u \o s = c \o t => u = c /\ s = t
                        BY <6>1, BytesBegin, ZenonT(30)
                    <6> QED
                        BY <6>2, Zenon DEF c
                <5> QED
                    BY <1>3, <4>3, <5>1, <5>2, Zenon
            <4>5. bufferIn'.size = Len(Current') /\ unread' = Rest(sent', Len(delivered') + 1)
                  /\ Len(delivered') < Len(sent')
                BY <1>1, <1>3, <1>6, <2>2, <3>2, <4>1, <4>4
            <4> QED
                BY <1>6, <3>1, <3>4, <4>5 DEF Borders
        <3>5. ASSUME Borders, Intact, ~split
              PROVE  Intact'
            <4>1. bufferIn.chunks = <<>> /\ bytes = Current
                BY <1>2, <2>4, <3>5 DEF Intact
            <4>2. Content(bufferIn)' = Current'
                BY <1>6, <2>3, <4>1, FlattenNone, ConcatEmptySeq DEF Content
            <4> QED
                BY <1>1, <3>1, <3>5, <4>2 DEF Intact
        <3>6. ~split => Borders
            BY DEF FInv, Fits
        <3> QED
            BY <1>1, <1>5, <2>6, <3>3, <3>4, <3>5, <3>6 DEF FInv
    <2>8. CASE remainingSize # Len(bytes)
        <3>1. stage' = "Receiving" /\ ~AtBorder' /\ ~Ready'
            BY <1>2, <1>6, <2>8 DEF PayloadDone, Filled, AtBorder, Ready
        <3>2. bufferIn'.size + Len(local') <= maxSize' /\ bufferIn'.size + Len(local') = bufferIn.size + Len(local)
            <4>1. Len(local') = 0
                BY <1>1
            <4> QED
                BY <1>1, <1>2, <2>2, <4>1
        <3>3. Fits'
            BY <1>1, <1>6, <3>1, <3>2 DEF FInv, Fits
        <3>4. ASSUME Borders
              PROVE  Borders'
            <4>1. PICK u \in Seq(Bytes) : PartRead(u)
                BY <1>2, <3>4 DEF Borders
            <4>2. PartRead(u)'
                BY <1>1, <1>3, <1>6, <3>2, <4>1 DEF PartRead
            <4>3. (\E w \in Seq(Bytes) : PartRead(w))'
                BY <4>2
            <4>4. maxSize' = Len(Current') /\ Len(delivered') < Len(sent')
                BY <1>1, <1>2, <1>6, <3>4 DEF Borders
            <4> QED
                BY <1>6, <3>1, <3>4, <4>3, <4>4 DEF Borders
        <3>5. ASSUME Borders, Intact, ~split
              PROVE  FALSE
            <4>1. bufferIn.chunks = <<>> /\ local = Current /\ maxSize = Len(Current)
                BY <1>2, <2>4, <3>5 DEF Intact, Borders
            <4>2. bufferIn.size = 0
                BY <4>1, FlattenNone DEF FInv, Typed, Content
            <4> QED
                BY <1>2, <2>8, <4>1, <4>2 DEF remainingSize
        <3>6. ~split => Borders
            BY DEF FInv, Fits
        <3> QED
            BY <1>1, <1>5, <2>6, <3>3, <3>4, <3>5, <3>6 DEF FInv
    <2> QED
        BY <2>7, <2>8
<1> QED
    BY <1>7, <1>8

LEMMA ReadDoneFrames ==
    ASSUME FInv, ReadDone \/ ReadAgain
    PROVE  FInv'
<1>1. /\ pc # "idle"
      /\ \/ Remaining = 0 /\ Return(Result(room))
         \/ Remaining > 0 /\ Return(Result(Remaining))
      /\ UNCHANGED <<network, socket, edge, close, taken, delivered, ghosts>>
    BY DEF ReadDone, ReadAgain
<1>2. /\ \/ pc = "header" /\ stage = "Empty" /\ Wanted = 2 /\ AtBorder
         \/ pc = "payload" /\ stage = "Receiving" /\ Wanted = maxSize - bufferIn.size
      /\ Wanted \in Nat /\ Len(local) \in 0..Wanted /\ Remaining = Wanted - Len(local)
      /\ ~close
    BY <1>1, InACall
<1>3. local \in Seq(Bytes) /\ room \in Nat
    BY DEF FInv, Typed, BytesTypeOK
<1>4. PICK size \in Nat : /\ Return(Result(size))
                          /\ (Remaining = 0 /\ size = room) \/ (Remaining > 0 /\ size = Remaining)
    <2>1. Remaining \in Nat
        BY <1>2
    <2> QED
        BY <1>1, <1>3, <2>1, Zenon
<1> DEFINE bytes == Result(size)
<1>5. bytes \in Seq(Bytes) /\ Len(bytes) = Len(local) /\ (size >= Len(local) => bytes = local)
    BY <1>3, ResultIs
<1>6. [Next]_vars
    BY DEF Next, Receiver
<1>7. local = <<>> => Len(local) = 0
    OBVIOUS
<1>8. ASSUME pc = "header", ~headerSplit
      PROVE  size >= Len(local)
    <2>1. Borders /\ AtBorder
        BY <1>2, <1>8 DEF FInv
    <2>2. local # <<>> => Len(local) = 2 /\ room = 2
        BY <1>2, <2>1 DEF Borders, NextComes
    <2> QED
        BY <1>2, <1>3, <1>4, <1>7, <1>8, <2>2
<1>9. ASSUME pc = "payload", ~split
      PROVE  size >= Len(local)
    <2>1. Borders /\ Intact /\ stage = "Receiving"
        BY <1>2, <1>9 DEF FInv, Fits
    <2>2. local # <<>> => local = Current /\ room = Len(Current) /\ maxSize = Len(Current)
        BY <2>1 DEF Borders, Intact
    <2>3. bufferIn.size \in Nat
        BY StreamType
    <2> QED
        BY <1>2, <1>3, <1>4, <1>7, <1>9, <2>2, <2>3
<1> HIDE DEF bytes
<1>10. CASE pc = "header"
    <2>1. HeaderDone(bytes)
        BY <1>4, <1>10 DEF Return, bytes
    <2>2. ~headerSplit => bytes = local
        BY <1>5, <1>8, <1>10
    <2> QED
        BY <1>1, <1>5, <1>6, <1>10, <2>1, <2>2, HeaderDoneFrames
<1>11. CASE pc = "payload"
    <2>1. PayloadDone(bytes)
        BY <1>4, <1>11 DEF Return, bytes
    <2>2. ~split => bytes = local
        BY <1>5, <1>9, <1>11
    <2> QED
        BY <1>1, <1>5, <1>6, <1>11, <2>1, <2>2, PayloadDoneFrames
<1> QED
    BY <1>2, <1>10, <1>11

\* The end of the stream: what the call has read is lost, and no other call follows.
LEMMA ReadEndFrames ==
    ASSUME FInv, ReadEnd
    PROVE  FInv'
<1>1. /\ UNCHANGED <<sent, coming, eof, socket, bufferIn, stage, maxSize, notices, taken, delivered,
                     split, headerSplit>>
      /\ pc # "idle" /\ local' = <<>> /\ room' = 0 /\ pc' = "idle"
    BY DEF ReadEnd, Call, network, buffer, session, ghosts
<1>2. close'
    BY Zenon DEF ReadEnd
<1>3. /\ Len(local) \in Nat /\ bufferIn.size \in Nat /\ maxSize \in Nat /\ ~Ready
    BY <1>1, InACall, StreamType DEF FInv, Typed, BytesTypeOK
<1>4. {edge', close', taken', split', headerSplit'} \subseteq BOOLEAN
    BY BooleansKept DEF FInv, Typed, BytesTypeOK, Next, Receiver
<1>5. TurnInv'
    BY TurnStep DEF FInv, Next, Receiver
<1>6. Typed'
    BY <1>1, <1>4 DEF FInv, Typed, BytesTypeOK, Content
<1>7. Fits'
    <2>1. Len(local') = 0
        BY <1>1
    <2>2. stage = "Receiving" => bufferIn.size + Len(local') <= maxSize
        BY <1>3, <2>1 DEF FInv, Fits
    <2> QED
        BY <1>1, <2>2 DEF FInv, Fits, AtBorder
<1>8. Current' = Current /\ ~Ready' /\ Measured' = Measured
    BY <1>1, <1>3 DEF Current, Ready, Measured
<1>9. Borders => Borders'
    BY <1>1, <1>2, <1>8 DEF Borders
<1>10. Intact => Intact'
    BY <1>1, <1>8 DEF Intact, Content
<1> QED
    BY <1>1, <1>5, <1>6, <1>7, <1>9, <1>10 DEF FInv

LEMMA TakeFrames ==
    ASSUME FInv, Take
    PROVE  FInv'
<1>1. /\ UNCHANGED <<sent, coming, eof, socket, edge, stage, maxSize, pc, local, room, close, split, headerSplit>>
      /\ notices > 0 /\ delivered' = Append(delivered, Popped(bufferIn, bufferIn.size).taken)
      /\ bufferIn' = AfterPop(bufferIn, bufferIn.size)
    BY DEF Take, Emptied, network, call, ghosts
<1>2. ~taken /\ taken'
    <2>1. ~taken
        BY <1>1 DEF FInv, TurnInv
    <2> QED
        BY <2>1, Zenon DEF Take
<1>3. /\ stage = "Full" /\ Ready /\ ~AtBorder /\ pc = "idle" /\ local = <<>>
    BY <1>1, <1>2 DEF FInv, TurnInv, CallFitsStage, NoticeIffFull, Ready, AtBorder, Fits
<1>4. /\ Popped(bufferIn, bufferIn.size) = [taken |-> Content(bufferIn), left |-> 0, rest |-> <<>>]
      /\ Content(bufferIn) \in Seq(Bytes) /\ bufferIn.size \in Nat
    <2>1. bufferIn.chunks \in Seq(Seq(Bytes)) /\ bufferIn.size = Len(FlattenSeq(bufferIn.chunks))
        BY DEF FInv, Typed, Content
    <2> QED
        BY <2>1, PopAll, FlattenSeqType, LenProperties DEF Content
<1>5. delivered' = Append(delivered, Content(bufferIn)) /\ bufferIn'.chunks = <<>> /\ bufferIn'.size = 0
    BY <1>1, <1>4 DEF AfterPop, SizeAfterPop
<1>6. {edge', close', taken', split', headerSplit'} \subseteq BOOLEAN
    BY BooleansKept DEF FInv, Typed, BytesTypeOK, Next, Session
<1>7. TurnInv'
    BY TurnStep DEF FInv, Next, Session
<1>8. /\ delivered' \in Seq(Seq(Bytes)) /\ Len(delivered') = Len(delivered) + 1 /\ Len(delivered) \in Nat
      /\ delivered'[Len(delivered) + 1] = Content(bufferIn)
      /\ \A i \in 1..Len(delivered) : delivered'[i] = delivered[i]
      /\ DOMAIN delivered = 1..Len(delivered) /\ DOMAIN delivered' = 1..(Len(delivered) + 1)
    <2>1. delivered \in Seq(Seq(Bytes))
        BY DEF FInv, Typed
    <2> QED
        BY <1>4, <1>5, <2>1, AppendProperties, LenProperties
<1>9. Typed'
    <2>1. \A T : <<>> \in Seq(T)
        OBVIOUS
    <2>2. Content(bufferIn)' = <<>> /\ Len(<<>>) = 0
        BY <1>5, FlattenNone DEF Content
    <2>3. notices' \in 0..1
        BY <1>7 DEF TurnInv
    <2> QED
        BY <1>1, <1>5, <1>6, <1>8, <2>1, <2>2, <2>3 DEF FInv, Typed, BytesTypeOK
<1>10. Fits'
    BY <1>1, <1>3, <1>5 DEF FInv, Fits
<1>11. AtBorder' /\ ~Ready' /\ stage' = "Full"
    BY <1>1, <1>2, <1>3 DEF AtBorder, Ready
<1>12. ASSUME Borders
       PROVE  Borders'
    <2>1. Len(delivered) < Len(sent) /\ Len(Content(bufferIn)) = Len(Current)
        BY <1>3, <1>12 DEF Borders, FInv, Typed
    <2>2. Measured'
        <3>1. Len(delivered') <= Len(sent')
            BY <1>1, <1>8, <2>1, StreamType
        <3>2. ASSUME NEW i \in DOMAIN delivered'
              PROVE  Len(delivered'[i]) = Len(sent[i])
            <4>1. CASE i = Len(delivered) + 1
                BY <1>8, <2>1, <4>1 DEF Current
            <4>2. CASE i # Len(delivered) + 1
                <5>1. i \in 1..Len(delivered) /\ i \in DOMAIN delivered
                    BY <1>8, <4>2
                <5> QED
                    BY <1>8, <1>12, <5>1 DEF Borders, Measured
            <4> QED
                BY <4>1, <4>2
        <3> QED
            BY <1>1, <3>1, <3>2 DEF Measured
    <2>3. ASSUME ~close
          PROVE  NextComes'
        <3>1. unread = Rest(sent, Len(delivered) + 1)
            BY <1>3, <1>12, <2>3 DEF Borders
        <3>2. <<>> \o unread = unread
            BY StreamType, ConcatEmptySeq
        <3>3. unread' = unread /\ local' = <<>>
            BY <1>1, <1>3 DEF unread
        <3> QED
            BY <1>1, <1>8, <3>1, <3>2, <3>3 DEF NextComes
    <2> QED
        BY <1>1, <1>11, <2>2, <2>3 DEF Borders
<1>13. ASSUME Borders, Intact
       PROVE  Intact'
    <2>1. ASSUME NEW i \in DOMAIN delivered'
          PROVE  delivered'[i] = sent[i]
        <3>1. CASE i = Len(delivered) + 1
            BY <1>3, <1>8, <1>13, <3>1 DEF Intact, Current
        <3>2. CASE i # Len(delivered) + 1
            <4>1. i \in 1..Len(delivered) /\ i \in DOMAIN delivered
                BY <1>8, <3>2
            <4> QED
                BY <1>8, <1>13, <4>1 DEF Intact
        <3> QED
            BY <3>1, <3>2
    <2> QED
        BY <1>1, <1>11, <2>1 DEF Intact
<1>14. ~split => Borders
    BY DEF FInv, Fits
<1> QED
    BY <1>1, <1>7, <1>9, <1>10, <1>12, <1>13, <1>14 DEF FInv

LEMMA FreeFrames ==
    ASSUME FInv, Free
    PROVE  FInv'
<1>1. /\ UNCHANGED <<sent, coming, eof, socket, edge, bufferIn, maxSize, pc, local, room, close, notices,
                     delivered, split, headerSplit>>
      /\ stage' = "Empty"
    BY DEF Free, network, call, ghosts
<1>2. taken /\ ~taken'
    BY Zenon DEF Free
<1>3. {edge', close', taken', split', headerSplit'} \subseteq BOOLEAN
    BY BooleansKept DEF FInv, Typed, BytesTypeOK, Next, Session
<1>4. TurnInv'
    BY TurnStep DEF FInv, Next, Session
<1>5. Typed'
    BY <1>1, <1>3 DEF FInv, Typed, BytesTypeOK, Content
<1>6. AtBorder /\ AtBorder' /\ ~Ready' /\ pc = "idle"
    BY <1>1, <1>2 DEF AtBorder, Ready, FInv, TurnInv, CallFitsStage, NoticeIffFull
<1>7. Fits'
    BY <1>1, <1>6 DEF FInv, Fits
<1>8. Measured' = Measured /\ NextComes' = NextComes
    BY <1>1 DEF Measured, NextComes, Rest, Frames, unread
<1>9. Borders => Borders'
    BY <1>1, <1>6, <1>8 DEF Borders
<1>10. Intact => Intact'
    BY <1>1, <1>6 DEF Intact
<1> QED
    BY <1>1, <1>4, <1>5, <1>7, <1>9, <1>10 DEF FInv

LEMMA FInvHolds == Spec => []FInv
<1>1. ASSUME FInv, [Next]_vars
      PROVE  FInv'
    <2>1. CASE QueueOnly \/ UNCHANGED vars
        <3>1. UNCHANGED place /\ UNCHANGED <<socket, coming, eof>>
            BY <2>1 DEF QueueOnly, PushOther, Wake, TakeOther, TakeClose, Erase, vars, network,
                        buffer, call, session, ghosts, place
        <3>2. socket' \in Seq(Bytes) /\ coming' \in Seq(Bytes) /\ eof' \in {"no", "coming", "here"}
            BY <1>1, <3>1 DEF FInv, Typed, BytesTypeOK
        <3> QED
            BY <1>1, <3>1, <3>2, PlaceStays DEF unread
    <2>2. CASE Receiver
        BY <1>1, <2>2, EventFrames, ReadSomeFrames, ReadDoneFrames, ReadEndFrames DEF Receiver
    <2>3. CASE Session
        BY <1>1, <2>1, <2>3, TakeFrames, FreeFrames DEF Session, QueueOnly
    <2> QED
        BY <1>1, <2>1, <2>2, <2>3, SendFrames, DisconnectFrames, DeliverFrames DEF Next, QueueOnly
<1> QED
    BY <1>1, FInvInit, PTL DEF Spec

-----------------------------------------------------------------------------

\* One message is pushed or taken at a time, and taken only where there is one.
LEMMA MailTyped ==
    ASSUME MailTypeOK, [Next]_vars
    PROVE  MailTypeOK'
<1> DEFINE Numbers == {toPush', others', closes'} \subseteq Nat
           Flags == {queueEdge', woken', closing', gone'} \subseteq BOOLEAN
<1>1. CASE Send \/ Disconnect \/ Deliver \/ ReadSome
    BY <1>1, Zenon DEF Send, Disconnect, Deliver, ReadSome, mail, ending, MailTypeOK
<1>2. CASE Event \/ ReadEnd
    <2>1. UNCHANGED <<toPush, others>> /\ (closes' = closes + 1 \/ closes' = closes)
        BY <1>2 DEF Event, ReadEnd, NotifyClose
    <2>2. UNCHANGED <<woken, closing, gone>> /\ (queueEdge' = TRUE \/ queueEdge' = queueEdge)
        BY <1>2, Zenon DEF Event, ReadEnd, NotifyClose, ending
    <2>3. Numbers
        BY <2>1 DEF MailTypeOK
    <2>4. Flags
        BY <2>2, Zenon DEF MailTypeOK
    <2> QED
        BY <2>3, <2>4, Zenon DEF MailTypeOK
<1>3. CASE ReadDone \/ ReadAgain
    <2>1. UNCHANGED <<toPush, others, closes, woken, closing, gone>>
        BY <1>3, Zenon DEF ReadDone, ReadAgain, ending
    <2>2. queueEdge' = TRUE \/ queueEdge' = queueEdge
        BY <1>3, Zenon DEF ReadDone, ReadAgain, Return, HeaderDone, PayloadDone, NotifyClient
    <2> QED
        BY <2>1, <2>2, Zenon DEF MailTypeOK
<1>4. CASE PushOther
    <2>1. Numbers
        BY <1>4 DEF PushOther, MailTypeOK
    <2>2. Flags
        BY <1>4, Zenon DEF PushOther, MailTypeOK, ending
    <2> QED
        BY <2>1, <2>2, Zenon DEF MailTypeOK
<1>5. CASE Wake
    BY <1>5, Zenon DEF Wake, MailTypeOK, ending
<1>6. CASE TakeOther
    <2>1. Numbers
        BY <1>6 DEF TakeOther, MailTypeOK
    <2>2. Flags
        BY <1>6, Zenon DEF TakeOther, MailTypeOK, ending
    <2> QED
        BY <2>1, <2>2, Zenon DEF MailTypeOK
<1>7. CASE TakeClose
    <2>1. Numbers
        BY <1>7 DEF TakeClose, MailTypeOK
    <2>2. Flags
        BY <1>7, Zenon DEF TakeClose, MailTypeOK
    <2> QED
        BY <2>1, <2>2, Zenon DEF MailTypeOK
<1>8. CASE Take \/ Free \/ Erase \/ UNCHANGED vars
    BY <1>8, Zenon DEF Take, Free, Erase, vars, mail, ending, MailTypeOK
<1> QED
    BY <1>1, <1>2, <1>3, <1>4, <1>5, <1>6, <1>7, <1>8 DEF Next, Receiver, Session

\* Every variable keeps its type in every cut of the stream: no byte is out of range,
\* and no vector is ever resized to a negative number of bytes (remainingSize).
THEOREM TypeCorrect == Spec => []TypeOK
<1>1. FInv => BytesTypeOK
    BY DEF FInv, Typed
<1>2. ASSUME Init
      PROVE  MailTypeOK
    <2>1. {toPush, others, closes} \subseteq Nat
        BY <1>2, BoundsAssumption DEF Init
    <2>2. {queueEdge, woken, closing, gone} \subseteq BOOLEAN
        BY <1>2, Zenon DEF Init
    <2> QED
        BY <2>1, <2>2 DEF MailTypeOK
<1>3. ASSUME MailTypeOK, [Next]_vars
      PROVE  MailTypeOK'
    BY <1>3, MailTyped
<1>4. BytesTypeOK /\ MailTypeOK => TypeOK
    BY DEF TypeOK
<1> QED
    BY <1>1, <1>2, <1>3, <1>4, FInvHolds, PTL DEF Spec

\* For all packets and all cuts of the stream: unless the two bytes of a length came
\* apart, the session gets packets of the lengths that the peer has sent, in order,
\* although payloads come in pieces, with zeros in them, or end with the connection.
THEOREM BordersHold == Spec => []BordersKept
<1>1. FInv => BordersKept
    BY DEF FInv, Borders, Measured, BordersKept
<1> QED
    BY <1>1, FInvHolds, PTL

\* And as long as each read has got all of its bytes at once, it gets these packets
\* themselves: ClientBuffer::recv and recvData share bufferIn without a lock around
\* both, and lose, double and mix nothing.
THEOREM WholeReadsHold == Spec => []WholeReadsIntact
<1>1. FInv => WholeReadsIntact
    <2> SUFFICES ASSUME FInv, ~split
                 PROVE  IsPrefix(delivered, sent)
        BY DEF WholeReadsIntact
    <2>1. Measured /\ \A i \in DOMAIN delivered : delivered[i] = sent[i]
        BY DEF FInv, Fits, Borders, Intact
    <2>2. /\ delivered \in Seq(Seq(Bytes)) /\ sent \in Seq(Packets)
          /\ Len(delivered) \in Nat /\ Len(sent) \in Nat /\ Len(delivered) <= Len(sent)
        BY <2>1, StreamType DEF FInv, Typed, Measured
    <2>3. DOMAIN delivered = 1..Len(delivered) /\ \A i \in 1..Len(delivered) : sent[i] \in Packets
        BY <2>2
    <2> DEFINE s == SubSeq(sent, 1, Len(delivered))
    <2>4. s \in Seq(Packets) /\ Len(s) = Len(delivered) /\ \A i \in 1..Len(delivered) : s[i] = sent[i]
        BY <2>2, <2>3
    <2>5. s = delivered
        <3>1. s \in Seq(Packets) /\ Packets \subseteq Seq(Bytes)
            BY <2>4, PacketsAssumption
        <3>2. s \in Seq(Seq(Bytes))
            BY <3>1, SeqMonotonic
        <3> HIDE DEF s
        <3> QED
            BY <2>1, <2>2, <2>3, <2>4, <3>2, SeqEqual
    <2>6. SubSeq(delivered, 1, Len(delivered)) = delivered
        BY <2>2, SubSeqFull
    <2> QED
        BY <2>2, <2>5, <2>6 DEF IsPrefix
<1> QED
    BY <1>1, FInvHolds, PTL
=============================================================================
