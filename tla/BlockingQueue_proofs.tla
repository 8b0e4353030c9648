------------------------ MODULE BlockingQueue_proofs ------------------------
(***************************************************************************)
(* Theorems about BlockingQueue, for any number of producers and consumers *)
(* and any capacities.  The steps that matter to the data are the three    *)
(* that hold the mutex and change it (push, priorityPush, and a successful *)
(* pop); all others only move threads between the wait sets.               *)
(***************************************************************************)
EXTENDS BlockingQueue, FiniteSetTheorems, SequenceTheorems, TLAPS

data == <<queue, priority, pipe, sent, received, lost, overflowed>>

\* A step pushes, pushes with priority, takes a message, or leaves the data alone.
LEMMA StepKinds ==
    ASSUME [Next]_vars
    PROVE  \/ \E p \in Producers : Push(p)
           \/ \E p \in Producers : PriorityPush(p)
           \/ \E c \in Consumers : Take(c)
           \/ UNCHANGED data
BY DEF Next, vars, data, PushWaits, Pop, PopFor, MoveTo, Notify, NotifyOne, SpuriousWakeup

\* The two ways of taking a message.
LEMMA TakeKinds ==
    ASSUME NEW c \in Consumers, Take(c)
    PROVE  \/ \E m \in priority :
                /\ queue' = queue
                /\ priority' = priority \ {m}
                /\ PopByte(c, m)
           \/ /\ priority = {} /\ priority' = {}
              /\ queue # <<>>
              /\ queue' = Tail(queue)
              /\ PopByte(c, Head(queue))
<1>1. CASE priority # {}
    BY <1>1 DEF Take, Taken
<1>2. CASE priority = {}
    BY <1>2 DEF Take, Taken, Empty
<1> QED
    BY <1>1, <1>2

\* The next message of a producer that may still push.
LEMMA NextMessageType ==
    ASSUME TypeOK, NEW p \in Producers, NEW b \in BOOLEAN, sent[p] < MaxMessages
    PROVE  /\ NextMessage(p, b) \in Message
           /\ sent[p] \in Nat
           /\ [sent EXCEPT ![p] = @ + 1] \in [Producers -> 0..MaxMessages]
<1>1. sent[p] \in 0..MaxMessages
    BY DEF TypeOK
<1>2. sent[p] + 1 \in 1..MaxMessages /\ sent[p] + 1 \in 0..MaxMessages
    BY <1>1, QueueAssumption
<1> QED
    BY <1>1, <1>2 DEF NextMessage, Message, TypeOK

LEMMA PushByteType ==
    ASSUME TypeOK, NEW p \in Producers, PushByte(p)
    PROVE  pipe' \in 0..PipeCapacity /\ overflowed' \in BOOLEAN
<1>1. pipe \in 0..PipeCapacity /\ overflowed \in BOOLEAN
    BY DEF TypeOK
<1>2. CASE pipe < PipeCapacity /\ pipe' = pipe + 1 /\ overflowed' = overflowed
    BY <1>1, <1>2, QueueAssumption
<1>3. CASE overflowed' = TRUE /\ pipe' = pipe
    BY <1>1, <1>3
<1> QED
    BY <1>2, <1>3 DEF PushByte

LEMMA MessageFields ==
    ASSUME NEW m \in Message
    PROVE  m.from \in Producers /\ m.nr \in Nat
BY QueueAssumption DEF Message

LEMMA QueueElements ==
    ASSUME TypeOK, NEW j \in 1..Len(queue)
    PROVE  /\ queue[j] \in Message
           /\ queue[j].from \in Producers /\ queue[j].nr \in Nat
<1>1. queue[j] \in Message
    BY ElementOfSeq DEF TypeOK
<1> QED
    BY <1>1, MessageFields

-----------------------------------------------------------------------------
LEMMA TypeStep ==
    ASSUME TypeOK, [Next]_vars
    PROVE  TypeOK'
<1> USE DEF TypeOK
<1>1. pc' \in [Threads -> ProducerStates \cup ConsumerStates]
    BY DEF Next, vars, Push, PushByte, PushWaits, PriorityPush, Pop, PopFor, Take,
           PopByte, MoveTo, Notify, NotifyOne, SpuriousWakeup, Awake,
           ProducerStates, ConsumerStates
<1>2. CASE \E p \in Producers : Push(p)
    <2>1. PICK p \in Producers : Push(p)
        BY <1>2
    <2>2. NextMessage(p, FALSE) \in Message /\ sent' \in [Producers -> 0..MaxMessages]
        BY <2>1, NextMessageType DEF Push
    <2>3. queue' \in Seq(Message)
        <3>1. queue \in Seq(Message) /\ queue' = Append(queue, NextMessage(p, FALSE))
            BY <2>1 DEF Push
        <3> HIDE DEF TypeOK
        <3> QED
            BY <2>2, <3>1, AppendProperties
    <2>4. pipe' \in 0..PipeCapacity /\ overflowed' \in BOOLEAN
        BY <2>1, PushByteType DEF Push
    <2> QED
        BY <1>1, <2>1, <2>2, <2>3, <2>4 DEF Push
<1>3. CASE \E p \in Producers : PriorityPush(p)
    <2>1. PICK p \in Producers : PriorityPush(p)
        BY <1>3
    <2>2. NextMessage(p, TRUE) \in Message /\ sent' \in [Producers -> 0..MaxMessages]
        BY <2>1, NextMessageType DEF PriorityPush
    <2>3. pipe' \in 0..PipeCapacity /\ overflowed' \in BOOLEAN
        BY <2>1, PushByteType DEF PriorityPush
    <2> QED
        BY <1>1, <2>1, <2>2, <2>3 DEF PriorityPush
<1>4. CASE \E c \in Consumers : Take(c)
    <2>1. PICK c \in Consumers : Take(c)
        BY <1>4
    <2>2. PICK m \in Message :
              /\ queue' \in Seq(Message)
              /\ priority' \in SUBSET Message
              /\ PopByte(c, m)
        BY <2>1, TakeKinds
    <2>3. /\ pipe' \in 0..PipeCapacity
          /\ received' \in SUBSET Message
          /\ lost' \in SUBSET Message
        BY <2>2, QueueAssumption DEF PopByte
    <2> QED
        BY <1>1, <2>1, <2>2, <2>3 DEF Take
<1>5. CASE UNCHANGED data
    BY <1>1, <1>5 DEF data
<1> QED
    BY <1>2, <1>3, <1>4, <1>5, StepKinds

\* Every reachable state is well typed.
THEOREM TypeCorrect == Spec => []TypeOK
<1>1. Init => TypeOK
    <2> SUFFICES ASSUME Init PROVE TypeOK
        OBVIOUS
    <2>1. queue \in Seq(Message)
        BY EmptySeq DEF Init
    <2>2. pipe \in 0..PipeCapacity /\ sent \in [Producers -> 0..MaxMessages]
        BY QueueAssumption DEF Init
    <2>3. pc \in [Threads -> ProducerStates \cup ConsumerStates]
        BY DEF Init, ProducerStates
    <2>4. overflowed \in BOOLEAN
        BY DEF Init
    <2> QED
        BY <2>1, <2>2, <2>3, <2>4 DEF Init, TypeOK
<1> QED
    BY <1>1, TypeStep, PTL DEF Spec

\* push never exceeds the capacity.
THEOREM CapacityHolds == Spec => []CapacityKept
<1>1. Init => CapacityKept
    BY QueueAssumption DEF Init, CapacityKept
<1>2. ASSUME TypeOK, CapacityKept, [Next]_vars
      PROVE  CapacityKept'
    <2> USE DEF CapacityKept
    <2>1. CASE \E p \in Producers : Push(p)
        <3>1. PICK p \in Producers : Push(p)
            BY <2>1
        <3>2. Len(queue') = Len(queue) + 1
            BY <1>2, <3>1 DEF Push, TypeOK
        <3> QED
            BY <1>2, <3>1, <3>2, QueueAssumption DEF Push, NotFull, TypeOK
    <2>2. CASE \E p \in Producers : PriorityPush(p)
        BY <1>2, <2>2 DEF PriorityPush
    <2>3. CASE \E c \in Consumers : Take(c)
        <3>1. queue' = queue \/ (queue # <<>> /\ queue' = Tail(queue))
            BY <2>3, TakeKinds
        <3>2. Len(queue') <= Len(queue)
            BY <1>2, <3>1 DEF TypeOK
        <3> QED
            BY <1>2, <3>1, <3>2, QueueAssumption DEF TypeOK
    <2>4. CASE UNCHANGED data
        BY <1>2, <2>4 DEF data
    <2> QED
        BY <1>2, <2>1, <2>2, <2>3, <2>4, StepKinds
<1> QED
    BY <1>1, <1>2, TypeCorrect, PTL DEF Spec

-----------------------------------------------------------------------------
(* Order.  The inductive part of FifoOrder is that no message anywhere has a *)
(* number its producer has not reached, so that a new one is the largest.    *)

Kinds ==
    /\ \A m \in priority : m.prio
    /\ \A j \in 1..Len(queue) : ~queue[j].prio

Numbered ==
    /\ \A m \in priority \cup received \cup lost : m.nr <= sent[m.from]
    /\ \A j \in 1..Len(queue) : queue[j].nr <= sent[queue[j].from]

OrderInv == Kinds /\ Numbered /\ FifoOrder

LEMMA OrderStep ==
    ASSUME TypeOK, OrderInv, [Next]_vars
    PROVE  OrderInv'
<1> USE DEF OrderInv
<1>0. queue \in Seq(Message) /\ Len(queue) \in Nat
    BY DEF TypeOK
<1>1. CASE \E p \in Producers : Push(p)
    <2>1. PICK p \in Producers : Push(p)
        BY <1>1
    <2> DEFINE m == NextMessage(p, FALSE)
    <2>2. /\ queue' = Append(queue, m)
          /\ sent' = [sent EXCEPT ![p] = @ + 1]
          /\ UNCHANGED <<priority, received, lost>>
          /\ sent[p] < MaxMessages
        BY <2>1 DEF Push
    <2>3. m \in Message /\ sent[p] \in Nat
        BY <2>2, NextMessageType
    <2>4. m.from = p /\ m.nr = sent[p] + 1 /\ ~m.prio
        BY DEF NextMessage
    <2>5. /\ Len(queue') = Len(queue) + 1
          /\ queue'[Len(queue) + 1] = m
          /\ \A j \in 1..Len(queue) : queue'[j] = queue[j]
        BY <1>0, <2>2, <2>3, AppendProperties
    <2>6. \A q \in Producers :
            /\ sent[q] \in Nat /\ sent'[q] \in Nat
            /\ sent[q] <= sent'[q] /\ sent'[p] = sent[p] + 1
        BY <2>2, <2>3 DEF TypeOK
    <2>7. \A j \in 1..Len(queue) : queue[j].from \in Producers /\ queue[j].nr \in Nat
        BY QueueElements
    <2>8. \A x \in priority \cup received \cup lost : x.from \in Producers /\ x.nr \in Nat
        BY MessageFields DEF TypeOK
    <2> HIDE DEF m
    <2>12. \A j \in 1..Len(queue') : j \in 1..Len(queue) \/ j = Len(queue) + 1
        BY <1>0, <2>5
    <2>9. Kinds'
        BY <2>2, <2>4, <2>5, <2>12 DEF Kinds
    <2>10. Numbered'
        <3>1. \A x \in priority' \cup received' \cup lost' : x.nr <= sent'[x.from]
            BY <2>2, <2>6, <2>8 DEF Numbered
        <3>2. ASSUME NEW j \in 1..Len(queue')
              PROVE  queue'[j].nr <= sent'[queue'[j].from]
            <4>1. CASE j \in 1..Len(queue)
                BY <2>5, <2>6, <2>7, <4>1 DEF Numbered
            <4>2. CASE j = Len(queue) + 1
                BY <2>4, <2>5, <2>6, <4>2
            <4> QED
                BY <2>12, <4>1, <4>2
        <3> QED
            BY <3>1, <3>2 DEF Numbered
    <2>11. FifoOrder'
        <3> SUFFICES ASSUME NEW q \in Producers, NEW j \in 1..Len(queue'), queue'[j].from = q
                     PROVE  /\ \A i \in 1..(j - 1) :
                                  queue'[i].from = q => queue'[i].nr < queue'[j].nr
                            /\ \A x \in received' \cup lost' :
                                  (x.from = q /\ ~x.prio) => x.nr < queue'[j].nr
            BY DEF FifoOrder
        <3>1. CASE j = Len(queue) + 1
            <4>1. q = p /\ queue'[j] = m
                BY <2>4, <2>5, <3>1
            <4>2. ASSUME NEW i \in 1..(j - 1), queue'[i].from = q
                  PROVE  queue'[i].nr < queue'[j].nr
                <5>1. i \in 1..Len(queue) /\ queue'[i] = queue[i]
                    BY <1>0, <2>5, <3>1
                <5> QED
                    BY <2>3, <2>4, <2>7, <4>1, <4>2, <5>1 DEF Numbered
            <4>3. ASSUME NEW x \in received' \cup lost', x.from = q
                  PROVE  x.nr < queue'[j].nr
                BY <2>2, <2>3, <2>4, <2>8, <4>1, <4>3 DEF Numbered
            <4> QED
                BY <4>2, <4>3
        <3>2. CASE j \in 1..Len(queue)
            <4>1. \A i \in 1..(j - 1) : i \in 1..Len(queue)
                BY <1>0, <3>2
            <4> QED
                BY <2>2, <2>5, <3>2, <4>1 DEF FifoOrder
        <3> QED
            BY <1>0, <2>5, <3>1, <3>2
    <2> QED
        BY <2>9, <2>10, <2>11
<1>2. CASE \E p \in Producers : PriorityPush(p)
    <2>1. PICK p \in Producers : PriorityPush(p)
        BY <1>2
    <2> DEFINE m == NextMessage(p, TRUE)
    <2>2. /\ priority' = priority \cup {m}
          /\ sent' = [sent EXCEPT ![p] = @ + 1]
          /\ UNCHANGED <<queue, received, lost>>
          /\ sent[p] < MaxMessages
        BY <2>1 DEF PriorityPush
    <2>3. m.from = p /\ m.nr = sent[p] + 1 /\ m.prio /\ sent[p] \in Nat
        BY <2>2, NextMessageType DEF NextMessage
    <2>4. \A q \in Producers :
            /\ sent[q] \in Nat /\ sent'[q] \in Nat
            /\ sent[q] <= sent'[q] /\ sent'[p] = sent[p] + 1
        BY <2>2, <2>3 DEF TypeOK
    <2>5. \A j \in 1..Len(queue) : queue[j].from \in Producers /\ queue[j].nr \in Nat
        BY QueueElements
    <2>6. \A x \in priority \cup received \cup lost : x.from \in Producers /\ x.nr \in Nat
        BY MessageFields DEF TypeOK
    <2>7. Kinds'
        BY <2>2, <2>3 DEF Kinds
    <2> HIDE DEF m
    <2>8. Numbered'
        <3>1. ASSUME NEW x \in priority' \cup received' \cup lost'
              PROVE  x.nr <= sent'[x.from]
            <4>1. CASE x = m
                BY <2>3, <2>4, <4>1
            <4>2. CASE x \in priority \cup received \cup lost
                BY <2>4, <2>6, <4>2 DEF Numbered
            <4> QED
                BY <2>2, <4>1, <4>2
        <3>2. \A j \in 1..Len(queue') : queue'[j].nr <= sent'[queue'[j].from]
            BY <2>2, <2>4, <2>5 DEF Numbered
        <3> QED
            BY <3>1, <3>2 DEF Numbered
    <2>9. FifoOrder'
        BY <2>2 DEF FifoOrder
    <2> QED
        BY <2>7, <2>8, <2>9
<1>3. CASE \E c \in Consumers : Take(c)
    <2>1. PICK c \in Consumers : Take(c)
        BY <1>3
    <2>2. sent' = sent
        BY <2>1 DEF Take
    <2>3. ASSUME NEW m \in priority, queue' = queue, priority' = priority \ {m}, PopByte(c, m)
          PROVE  OrderInv'
        <3>1. received' \cup lost' = received \cup lost \cup {m}
            BY <2>3 DEF PopByte
        <3>2. Kinds' /\ Numbered'
            BY <2>2, <2>3, <3>1 DEF Kinds, Numbered
        <3>3. FifoOrder'
            BY <2>3, <3>1 DEF Kinds, FifoOrder
        <3> QED
            BY <3>2, <3>3
    <2>4. ASSUME priority' = {}, queue # <<>>, queue' = Tail(queue), PopByte(c, Head(queue))
          PROVE  OrderInv'
        <3>1. received' \cup lost' = received \cup lost \cup {queue[1]}
            BY <1>0, <2>4 DEF PopByte
        <3>2. /\ Len(queue') = Len(queue) - 1
              /\ \A j \in 1..Len(queue') : j + 1 \in 1..Len(queue) /\ queue'[j] = queue[j + 1]
              /\ 1 \in 1..Len(queue)
            BY <1>0, <2>4, HeadTailProperties, EmptySeq
        <3>3. Kinds'
            BY <2>4, <3>2 DEF Kinds
        <3>4. Numbered'
            BY <2>2, <2>4, <3>1, <3>2 DEF Numbered
        <3>5. FifoOrder'
            <4> SUFFICES ASSUME NEW q \in Producers, NEW j \in 1..Len(queue'), queue'[j].from = q
                         PROVE  /\ \A i \in 1..(j - 1) :
                                      queue'[i].from = q => queue'[i].nr < queue'[j].nr
                                /\ \A x \in received' \cup lost' :
                                      (x.from = q /\ ~x.prio) => x.nr < queue'[j].nr
                BY DEF FifoOrder
            <4>1. j + 1 \in 1..Len(queue) /\ queue'[j] = queue[j + 1] /\ queue[j + 1].from = q
                BY <3>2
            <4>2. /\ \A i \in 1..j : queue[i].from = q => queue[i].nr < queue[j + 1].nr
                  /\ \A x \in received \cup lost :
                        (x.from = q /\ ~x.prio) => x.nr < queue[j + 1].nr
                BY <4>1 DEF FifoOrder
            <4>3. ASSUME NEW i \in 1..(j - 1)
                  PROVE  i \in 1..Len(queue') /\ i + 1 \in 1..j /\ queue'[i] = queue[i + 1]
                BY <1>0, <3>2
            <4>4. 1 \in 1..j
                BY <1>0, <3>2
            <4> QED
                BY <3>1, <4>1, <4>2, <4>3, <4>4
        <3> QED
            BY <3>3, <3>4, <3>5
    <2> QED
        BY <2>1, <2>3, <2>4, TakeKinds
<1>4. CASE UNCHANGED data
    BY <1>4 DEF data, Kinds, Numbered, FifoOrder
<1> QED
    BY <1>1, <1>2, <1>3, <1>4, StepKinds

LEMMA OrderInvariant == Spec => []OrderInv
<1>1. Init => OrderInv
    BY EmptySeq DEF Init, OrderInv, Kinds, Numbered, FifoOrder
<1> QED
    BY <1>1, OrderStep, TypeCorrect, PTL DEF Spec

\* The ordinary messages of a producer are popped in the order it pushed them.
THEOREM OrderHolds == Spec => []FifoOrder
BY OrderInvariant, PTL DEF OrderInv

-----------------------------------------------------------------------------
(* The pipe counts the messages. *)

PipeInv == IsFiniteSet(priority) /\ PipeTracksMessages

\* A message that is pushed is not in the set yet.
LEMMA NextMessageIsNew ==
    ASSUME TypeOK, OrderInv, NEW p \in Producers, NEW b \in BOOLEAN
    PROVE  /\ NextMessage(p, b) \notin priority \cup received \cup lost
           /\ \A j \in 1..Len(queue) : queue[j] # NextMessage(p, b)
<1>1. sent[p] \in Nat
    BY QueueAssumption DEF TypeOK
<1>2. NextMessage(p, b).from = p /\ NextMessage(p, b).nr = sent[p] + 1
    BY DEF NextMessage
<1> QED
    BY <1>1, <1>2 DEF OrderInv, Numbered

LEMMA PushSize ==
    ASSUME TypeOK, OrderInv, PipeInv, NEW p \in Producers, Push(p) \/ PriorityPush(p)
    PROVE  IsFiniteSet(priority') /\ Size \in Nat /\ Size' = Size + 1
<1> USE DEF PipeInv, Size
<1>1. queue \in Seq(Message) /\ Len(queue) \in Nat /\ Cardinality(priority) \in Nat
    BY FS_CardinalityType DEF TypeOK
<1>2. CASE Push(p)
    <2>1. Len(queue') = Len(queue) + 1 /\ priority' = priority
        BY <1>1, <1>2 DEF Push
    <2> QED
        BY <1>1, <2>1
<1>3. CASE PriorityPush(p)
    <2>1. /\ queue' = queue
          /\ priority' = priority \cup {NextMessage(p, TRUE)}
        BY <1>3 DEF PriorityPush
    <2>2. NextMessage(p, TRUE) \notin priority
        BY NextMessageIsNew
    <2>3. IsFiniteSet(priority') /\ Cardinality(priority') = Cardinality(priority) + 1
        BY <2>1, <2>2, FS_AddElement
    <2> QED
        BY <1>1, <2>1, <2>3
<1> QED
    BY <1>2, <1>3

LEMMA TakeSize ==
    ASSUME TypeOK, PipeInv, NEW c \in Consumers, Take(c)
    PROVE  IsFiniteSet(priority') /\ Size \in Nat /\ Size' \in Nat /\ Size' = Size - 1
<1> USE DEF PipeInv, Size
<1>1. queue \in Seq(Message) /\ Len(queue) \in Nat /\ Cardinality(priority) \in Nat
    BY FS_CardinalityType DEF TypeOK
<1>2. ASSUME NEW m \in priority, queue' = queue, priority' = priority \ {m}
      PROVE  IsFiniteSet(priority') /\ Size' = Size - 1
    <2>1. IsFiniteSet(priority') /\ Cardinality(priority') = Cardinality(priority) - 1
        BY <1>2, FS_RemoveElement
    <2> QED
        BY <1>1, <1>2, <2>1
<1>3. ASSUME priority = {}, priority' = {}, queue # <<>>, queue' = Tail(queue)
      PROVE  IsFiniteSet(priority') /\ Size' = Size - 1
    <2>1. Len(queue') = Len(queue) - 1
        BY <1>1, <1>3, HeadTailProperties
    <2> QED
        BY <1>1, <1>3, <2>1
<1>4. IsFiniteSet(priority') /\ Size' = Size - 1
    BY <1>2, <1>3, TakeKinds
<1>5. Len(queue') \in Nat /\ Cardinality(priority') \in Nat
    <2>1. queue' \in Seq(Message)
        BY <1>1, TakeKinds, HeadTailProperties
    <2> QED
        BY <1>4, <2>1, LenProperties, FS_CardinalityType
<1> QED
    BY <1>1, <1>4, <1>5

LEMMA PipeStep ==
    ASSUME TypeOK, OrderInv, PipeInv, [Next]_vars
    PROVE  PipeInv'
<1> USE DEF PipeInv, PipeTracksMessages
<1>1. pipe \in Nat
    BY QueueAssumption DEF TypeOK
<1>2. ASSUME NEW p \in Producers, Push(p) \/ PriorityPush(p)
      PROVE  PipeInv'
    <2>1. \/ pipe' = pipe + 1 /\ overflowed' = overflowed
          \/ pipe' = pipe /\ overflowed'
        BY <1>2 DEF Push, PriorityPush, PushByte
    <2> QED
        BY <1>1, <1>2, <2>1, PushSize
<1>3. ASSUME NEW c \in Consumers, Take(c)
      PROVE  PipeInv'
    <2>1. overflowed' = overflowed
        BY <1>3 DEF Take
    <2>2. \/ pipe > 0 /\ pipe' = pipe - 1
          \/ pipe = 0 /\ pipe' = pipe
        BY <1>3 DEF Take, PopByte
    <2> QED
        BY <1>1, <1>3, <2>1, <2>2, TakeSize
<1>4. CASE UNCHANGED data
    BY <1>4 DEF data, Size
<1> QED
    BY <1>2, <1>3, <1>4, StepKinds

LEMMA PipeInvariant == Spec => []PipeInv
<1>1. Init => PipeInv
    BY FS_EmptySet DEF Init, PipeInv, PipeTracksMessages, Size
<1> QED
    BY <1>1, PipeStep, TypeCorrect, OrderInvariant, PTL DEF Spec

\* As long as no write to the pipe failed, epoll sees exactly the messages there
\* are; it never sees more.
THEOREM PipeExact == Spec => []PipeTracksMessages
BY PipeInvariant, PTL DEF PipeInv

-----------------------------------------------------------------------------
(* Refinement. *)

LEMMA StoredAfterPush ==
    ASSUME TypeOK, NEW p \in Producers, Push(p)
    PROVE  Stored' = Stored \cup {NextMessage(p, FALSE)}
<1> DEFINE m == NextMessage(p, FALSE)
<1>1. /\ queue \in Seq(Message) /\ m \in Message
      /\ queue' = Append(queue, m) /\ priority' = priority
    BY NextMessageType DEF Push, TypeOK
<1> HIDE DEF m
<1>2. /\ Len(queue') = Len(queue) + 1 /\ Len(queue) \in Nat
      /\ queue'[Len(queue) + 1] = m
      /\ \A j \in 1..Len(queue) : queue'[j] = queue[j]
    <2>1. Len(queue) \in Nat
        BY <1>1, LenProperties
    <2>2. /\ Len(Append(queue, m)) = Len(queue) + 1
          /\ \A j \in 1..Len(queue) : Append(queue, m)[j] = queue[j]
          /\ Append(queue, m)[Len(queue) + 1] = m
        BY <1>1, AppendProperties
    <2> QED
        BY <1>1, <2>1, <2>2
<1>3. DOMAIN queue = 1..Len(queue) /\ DOMAIN queue' = 1..Len(queue')
    <2>1. queue' \in Seq(Message)
        BY <1>1, AppendProperties
    <2> QED
        BY <1>1, <2>1, LenProperties
<1>4. Range(queue') = Range(queue) \cup {m}
    BY <1>2, <1>3 DEF Range
<1> QED
    BY <1>1, <1>4 DEF Stored, m

\* What is left to show of a pop once its message is known.
LEMMA TakenIsDeliveredOrLost ==
    ASSUME TypeOK, PipeInv, NEW c \in Consumers, Take(c),
           NEW m \in Stored, Promise!Due(m), Stored' = Stored \ {m}, PopByte(c, m)
    PROVE  Promise!Deliver(m) \/ Promise!Lose(m)
<1>1. Size \in Nat /\ Size' \in Nat /\ Size' = Size - 1
    BY TakeSize
<1>2. pipe \in Nat /\ pipe <= Size
    BY QueueAssumption DEF TypeOK, PipeInv, PipeTracksMessages
<1>3. sent' = sent
    BY DEF Take
<1> HIDE DEF Size
<1>4. CASE pipe > 0
    <2>1. pipe' = pipe - 1 /\ received' = received \cup {m} /\ lost' = lost
        BY <1>4 DEF PopByte
    <2>2. Size' - pipe' = Size - pipe
        BY <1>1, <1>2, <2>1
    <2> QED
        BY <1>3, <2>1, <2>2 DEF Promise!Deliver
<1>5. CASE pipe = 0
    <2>1. pipe' = pipe /\ received' = received /\ lost' = lost \cup {m}
        BY <1>5 DEF PopByte
    <2>2. Size' - pipe' = (Size - pipe) - 1 /\ Size - pipe > 0
        BY <1>1, <1>2, <1>5, <2>1
    <2> QED
        BY <1>3, <2>1, <2>2 DEF Promise!Lose
<1> QED
    BY <1>2, <1>4, <1>5

\* A pop takes a message that is due.
LEMMA TakeDelivers ==
    ASSUME TypeOK, OrderInv, PipeInv, NEW c \in Consumers, Take(c)
    PROVE  \E m \in Stored : Promise!Deliver(m) \/ Promise!Lose(m)
<1>1. queue \in Seq(Message) /\ Len(queue) \in Nat /\ DOMAIN queue = 1..Len(queue)
    BY LenProperties DEF TypeOK
<1>4. ASSUME NEW m \in priority, queue' = queue, priority' = priority \ {m}, PopByte(c, m)
      PROVE  \E x \in Stored : Promise!Deliver(x) \/ Promise!Lose(x)
    <2>3. m.prio /\ m \notin Range(queue)
        BY <1>1 DEF OrderInv, Kinds, Range
    <2>4. m \in Stored /\ Stored' = Stored \ {m}
        BY <1>4, <2>3 DEF Stored
    <2> QED
        BY <1>4, <2>3, <2>4, TakenIsDeliveredOrLost DEF Promise!Due
<1>5. ASSUME priority = {}, priority' = {}, queue # <<>>, queue' = Tail(queue),
             PopByte(c, Head(queue))
      PROVE  \E x \in Stored : Promise!Deliver(x) \/ Promise!Lose(x)
    <2> DEFINE m == queue[1]
    <2>1. /\ 1 \in 1..Len(queue) /\ Head(queue) = m
          /\ Len(queue') = Len(queue) - 1
          /\ \A j \in 1..Len(queue') : queue'[j] = queue[j + 1]
          /\ DOMAIN queue' = 1..Len(queue')
        BY <1>1, <1>5, HeadTailProperties, EmptySeq, LenProperties
    <2>3. ASSUME NEW j \in 1..Len(queue)
          PROVE  /\ ~queue[j].prio
                 /\ queue[j].from = m.from => (j = 1 \/ m.nr < queue[j].nr)
        <3>1. ~queue[j].prio
            BY DEF OrderInv, Kinds
        <3>2. queue[j].from \in Producers
            BY QueueElements
        <3>3. j = 1 \/ 1 \in 1..(j - 1)
            BY <1>1
        <3> QED
            BY <3>1, <3>2, <3>3 DEF OrderInv, FifoOrder
    <2>4. Stored = {queue[j] : j \in 1..Len(queue)}
        BY <1>1, <1>5 DEF Stored, Range
    <2>5. Stored' = {queue[j] : j \in 2..Len(queue)}
        <3>1. Stored' = {queue'[j] : j \in 1..Len(queue')}
            BY <1>5, <2>1 DEF Stored, Range
        <3>2. \A j \in 2..Len(queue) : j - 1 \in 1..Len(queue') /\ queue'[j - 1] = queue[j]
            BY <1>1, <2>1
        <3>3. \A j \in 1..Len(queue') : j + 1 \in 2..Len(queue) /\ queue'[j] = queue[j + 1]
            BY <1>1, <2>1
        <3> QED
            BY <3>1, <3>2, <3>3
    <2>6. m \in Stored /\ m \in Message /\ m.nr \in Nat
        BY <2>1, <2>4, QueueElements
    <2>7. \A j \in 2..Len(queue) : j \in 1..Len(queue) /\ queue[j] # m
        <3> SUFFICES ASSUME NEW j \in 2..Len(queue)
                     PROVE  j \in 1..Len(queue) /\ queue[j] # m
            OBVIOUS
        <3>1. j \in 1..Len(queue) /\ j # 1
            BY <1>1
        <3>2. queue[j].from = m.from => m.nr < queue[j].nr
            BY <2>3, <3>1
        <3> QED
            BY <2>6, <3>1, <3>2
    <2>8. Stored' = Stored \ {m}
        <3>1. \A j \in 1..Len(queue) : j = 1 \/ j \in 2..Len(queue)
            BY <1>1
        <3> QED
            BY <2>4, <2>5, <2>7, <3>1
    <2>9. Promise!Due(m)
        <3> SUFFICES ASSUME NEW x \in Stored
                     PROVE  ~x.prio /\ (x.from = m.from => m.nr <= x.nr)
            BY DEF Promise!Due
        <3>1. PICK j \in 1..Len(queue) : x = queue[j]
            BY <2>4
        <3>2. x.nr \in Nat
            BY <3>1, QueueElements
        <3> QED
            BY <2>3, <2>6, <3>1, <3>2
    <2> QED
        BY <1>5, <2>1, <2>6, <2>8, <2>9, TakenIsDeliveredOrLost
<1> QED
    BY <1>4, <1>5, TakeKinds

\* A push that throws dooms one message.
LEMMA PushDooms ==
    ASSUME TypeOK, OrderInv, PipeInv, NEW p \in Producers, Push(p) \/ PriorityPush(p)
    PROVE  (Size - pipe)' \in {Size - pipe, Size - pipe + 1}
<1>1. Size \in Nat /\ Size' = Size + 1
    BY PushSize
<1>2. pipe \in Nat
    BY QueueAssumption DEF TypeOK
<1>3. pipe' = pipe + 1 \/ pipe' = pipe
    BY DEF Push, PriorityPush, PushByte
<1> HIDE DEF Size
<1> QED
    BY <1>1, <1>2, <1>3

LEMMA StepRefines ==
    ASSUME TypeOK, OrderInv, PipeInv, [Next]_vars
    PROVE  [Promise!MailboxNext]_(Promise!mailboxVars)
<1> USE DEF Promise!MailboxNext, Promise!mailboxVars
<1>1. CASE \E p \in Producers : Push(p)
    <2>1. PICK p \in Producers : Push(p)
        BY <1>1
    <2>2. /\ sent[p] < MaxMessages
          /\ sent' = [sent EXCEPT ![p] = @ + 1]
          /\ received' = received /\ lost' = lost
        BY <2>1 DEF Push
    <2>3. Stored' = Stored \cup {[from |-> p, nr |-> sent[p] + 1, prio |-> FALSE]}
        BY <2>1, StoredAfterPush DEF NextMessage
    <2> QED
        BY <2>1, <2>2, <2>3, PushDooms DEF Promise!Put
<1>2. CASE \E p \in Producers : PriorityPush(p)
    <2>1. PICK p \in Producers : PriorityPush(p)
        BY <1>2
    <2>2. /\ sent[p] < MaxMessages
          /\ sent' = [sent EXCEPT ![p] = @ + 1]
          /\ received' = received /\ lost' = lost
          /\ queue' = queue
          /\ priority' = priority \cup {NextMessage(p, TRUE)}
        BY <2>1 DEF PriorityPush
    <2>3. Stored' = Stored \cup {[from |-> p, nr |-> sent[p] + 1, prio |-> TRUE]}
        BY <2>2 DEF Stored, NextMessage
    <2> QED
        BY <2>1, <2>2, <2>3, PushDooms DEF Promise!Put
<1>3. CASE \E c \in Consumers : Take(c)
    BY <1>3, TakeDelivers
<1>4. CASE UNCHANGED data
    BY <1>4 DEF data, Stored, Size
<1> QED
    BY <1>1, <1>2, <1>3, <1>4, StepKinds

\* The queue keeps the promise of Mailbox: no message is taken twice, only a push
\* that threw costs a message, priority messages come first, and the ordinary
\* messages of each thread stay in order.
THEOREM QueueIsMailbox == Spec => ImplementsMailbox
<1>1. Init => Promise!MailboxInit
    <2>1. Range(<<>>) = {}
        BY DEF Range
    <2>2. ASSUME Init PROVE Size - pipe = 0
        BY <2>2, FS_EmptySet DEF Init, Size
    <2> QED
        BY <2>1, <2>2 DEF Init, Promise!MailboxInit, Stored
<1> QED
    BY <1>1, StepRefines, TypeCorrect, OrderInvariant, PipeInvariant, PTL
       DEF Spec, ImplementsMailbox, Promise!MailboxSpec
=============================================================================
