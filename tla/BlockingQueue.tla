--------------------------- MODULE BlockingQueue ---------------------------
(***************************************************************************)
(* message/BlockingQueue.h with its pipe (buffer/PipeBuffer.cpp): a queue  *)
(* guarded by one mutex and two condition variables, and a pipe that holds *)
(* one byte for every message, so that epoll can wait for messages.        *)
(*                                                                         *)
(* What a thread does while it holds the mutex is one step; a notify comes *)
(* after the unlock and is a step of its own.  A thread in a condition     *)
(* variable's wait set leaves it when notified, when its time is up, or    *)
(* spuriously, and then tests its condition again under the mutex.  Two    *)
(* threads woken or arriving together take the mutex in any order.         *)
(***************************************************************************)
EXTENDS Integers, Sequences, FiniteSets, Functions

CONSTANTS
    Producers,      \* threads that call push and priorityPush
    Consumers,      \* threads that call pop and pop_for
    MaxQueueSize,   \* maxQueueSize: capacity for ordinary messages
    PipeCapacity,   \* bytes the pipe takes before write fails (it never blocks)
    MaxMessages     \* bound: messages one producer pushes

ASSUME QueueAssumption ==
    /\ MaxQueueSize \in Nat \ {0}
    /\ PipeCapacity \in Nat \ {0}
    /\ MaxMessages \in Nat
    /\ Producers \cap Consumers = {}

VARIABLES
    queue,          \* std::queue of ordinary messages
    priority,       \* std::set of priority messages, in no particular order
    pipe,           \* bytes in the pipe
    pc,             \* where each thread is
    sent,           \* messages each producer has put into the queue
    received,       \* history: messages returned by pop and pop_for
    lost,           \* history: messages removed by a pop that then threw
    overflowed      \* history: some pushByteToPipe has thrown

vars == <<queue, priority, pipe, pc, sent, received, lost, overflowed>>

Threads == Producers \cup Consumers
Message == [from : Producers, nr : 1..MaxMessages, prio : BOOLEAN]

\* "woken" and "timedWoken" threads have left the wait set and want the mutex.
ProducerStates == {"idle", "fullWait", "woken", "notify"}
ConsumerStates == {"idle", "emptyWait", "woken", "timedWait", "timedWoken", "notify"}

TypeOK ==
    /\ queue \in Seq(Message)
    /\ priority \in SUBSET Message
    /\ pipe \in 0..PipeCapacity
    /\ pc \in [Threads -> ProducerStates \cup ConsumerStates]
    /\ sent \in [Producers -> 0..MaxMessages]
    /\ received \in SUBSET Message
    /\ lost \in SUBSET Message
    /\ overflowed \in BOOLEAN

Init ==
    /\ queue = <<>>
    /\ priority = {}
    /\ pipe = 0
    /\ pc = [t \in Threads |-> "idle"]
    /\ sent = [p \in Producers |-> 0]
    /\ received = {}
    /\ lost = {}
    /\ overflowed = FALSE

NextMessage(p, b) == [from |-> p, nr |-> sent[p] + 1, prio |-> b]

-----------------------------------------------------------------------------
(* push and priorityPush *)

\* pushByteToPipe, still under the mutex.  When the pipe is full it throws: the
\* message stays where it was put, and the notify after the unlock is skipped.
PushByteForgets(p) ==
    /\ pipe' = pipe
    /\ pc' = [pc EXCEPT ![p] = "notify"]
    /\ UNCHANGED overflowed
PushByteBlind(p) ==
    /\ pipe' = IF pipe < PipeCapacity THEN pipe + 1 ELSE pipe
    /\ pc' = [pc EXCEPT ![p] = "idle"]
    /\ UNCHANGED overflowed
PushByte(p) ==
    \/ /\ pipe < PipeCapacity
       /\ pipe' = pipe + 1
       /\ pc' = [pc EXCEPT ![p] = "notify"]
       /\ UNCHANGED overflowed
    \/ /\ pipe = PipeCapacity
       /\ overflowed' = TRUE
       /\ pc' = [pc EXCEPT ![p] = "idle"]
       /\ UNCHANGED pipe

NotFull == Len(queue) < MaxQueueSize

\* push, entered or re-entered with the mutex held.
Push(p) ==
    /\ pc[p] \in {"idle", "woken"}
    /\ sent[p] < MaxMessages
    /\ NotFull
    /\ queue' = Append(queue, NextMessage(p, FALSE))
    /\ sent' = [sent EXCEPT ![p] = @ + 1]
    /\ PushByte(p)
    /\ UNCHANGED <<priority, received, lost>>

PushWaits(p) ==
    /\ pc[p] \in {"idle", "woken"}
    /\ sent[p] < MaxMessages
    /\ ~NotFull
    /\ pc' = [pc EXCEPT ![p] = "fullWait"]
    /\ UNCHANGED <<queue, priority, pipe, sent, received, lost, overflowed>>

\* The set compares addresses of fresh objects, so insert always succeeds.
PriorityPush(p) ==
    /\ pc[p] = "idle"
    /\ sent[p] < MaxMessages
    /\ priority' = priority \cup {NextMessage(p, TRUE)}
    /\ sent' = [sent EXCEPT ![p] = @ + 1]
    /\ PushByte(p)
    /\ UNCHANGED <<queue, received, lost>>

-----------------------------------------------------------------------------
(* pop and pop_for *)

Empty == queue = <<>> /\ priority = {}

\* popWithoutBlocking takes a priority message if there is one.
TakenNewest ==
    IF priority # {} THEN {[m |-> x, q |-> queue] : x \in priority}
    ELSE {[m |-> queue[Len(queue)], q |-> SubSeq(queue, 1, Len(queue) - 1)]}
TakenOrdinaryFirst ==
    IF queue # <<>> THEN {[m |-> Head(queue), q |-> Tail(queue)]}
    ELSE {[m |-> x, q |-> queue] : x \in priority}
Taken ==
    IF priority # {} THEN {[m |-> x, q |-> queue] : x \in priority}
    ELSE {[m |-> Head(queue), q |-> Tail(queue)]}

\* popByteFromPipe, after the message has left the queue.  When the pipe is
\* empty it throws: the message is gone and the notify is skipped.
PopByteNoNotify(c, m) ==
    /\ IF pipe > 0 THEN pipe' = pipe - 1 /\ received' = received \cup {m} /\ UNCHANGED lost
       ELSE lost' = lost \cup {m} /\ UNCHANGED <<pipe, received>>
    /\ pc' = [pc EXCEPT ![c] = "idle"]
PopByte(c, m) ==
    \/ /\ pipe > 0
       /\ pipe' = pipe - 1
       /\ received' = received \cup {m}
       /\ pc' = [pc EXCEPT ![c] = "notify"]
       /\ UNCHANGED lost
    \/ /\ pipe = 0
       /\ lost' = lost \cup {m}
       /\ pc' = [pc EXCEPT ![c] = "idle"]
       /\ UNCHANGED <<pipe, received>>

Take(c) ==
    /\ ~Empty
    /\ \E x \in Taken :
        /\ queue' = x.q
        /\ priority' = priority \ {x.m}
        /\ PopByte(c, x.m)
    /\ UNCHANGED <<sent, overflowed>>

MoveTo(t, state) ==
    /\ pc' = [pc EXCEPT ![t] = state]
    /\ UNCHANGED <<queue, priority, pipe, sent, received, lost, overflowed>>

Pop(c) ==
    /\ pc[c] \in {"idle", "woken"}
    /\ \/ Take(c)
       \/ Empty /\ MoveTo(c, "emptyWait")

\* pop_for: a positive time waits, and a time that is up tests once more.
PopFor(c) ==
    \/ pc[c] \in {"idle", "timedWoken"} /\ Take(c)
    \/ pc[c] \in {"idle", "timedWoken"} /\ Empty /\ MoveTo(c, "timedWait")
    \/ pc[c] = "timedWait" /\ Take(c)
    \/ pc[c] = "timedWait" /\ Empty /\ MoveTo(c, "idle")

-----------------------------------------------------------------------------
(* Condition variables *)

Awake(t) == IF pc[t] = "timedWait" THEN "timedWoken" ELSE "woken"

EmptyWaiters == {c \in Consumers : pc[c] \in {"emptyWait", "timedWait"}}
FullWaiters == {p \in Producers : pc[p] = "fullWait"}

\* t calls notify_one for the wait set W.
NotifyOne(t, W) ==
    /\ pc[t] = "notify"
    /\ \/ W = {} /\ pc' = [pc EXCEPT ![t] = "idle"]
       \/ \E w \in W : pc' = [pc EXCEPT ![t] = "idle", ![w] = Awake(w)]
    /\ UNCHANGED <<queue, priority, pipe, sent, received, lost, overflowed>>

Notify(t) ==
    \/ t \in Producers /\ NotifyOne(t, EmptyWaiters)
    \/ t \in Consumers /\ NotifyOne(t, FullWaiters)

SpuriousWakeup(t) ==
    /\ t \in EmptyWaiters \cup FullWaiters
    /\ MoveTo(t, Awake(t))

-----------------------------------------------------------------------------
Next ==
    \/ \E p \in Producers : Push(p) \/ PushWaits(p) \/ PriorityPush(p)
    \/ \E c \in Consumers : Pop(c) \/ PopFor(c)
    \/ \E t \in Threads : Notify(t) \/ SpuriousWakeup(t)

Spec == Init /\ [][Next]_vars

\* The scheduler runs every thread that can run.  BasicThread::operator() calls
\* pop_for again and again; a producer that is idle need not push.
Retry(p) == pc[p] = "woken" /\ (Push(p) \/ PushWaits(p))
Fairness ==
    /\ \A p \in Producers : WF_vars(Retry(p))
    /\ \A c \in Consumers : WF_vars(Pop(c) \/ PopFor(c))
    /\ \A t \in Threads : WF_vars(Notify(t))
FairSpec == Spec /\ Fairness

-----------------------------------------------------------------------------
(* Properties. *)

Stored == Range(queue) \cup priority
Size == Len(queue) + Cardinality(priority)

\* push never lets the queue grow beyond maxQueueSize, whoever takes the place
\* a woken producer was waiting for.
CapacityKept == Len(queue) <= MaxQueueSize

\* The pipe never holds more bytes than there are messages, so epoll reports no
\* queue that pop_for would find empty; and it holds exactly as many until some
\* write to it has failed.
PipeTracksMessages ==
    pipe <= Size /\ (~overflowed => pipe = Size)

\* The ordinary messages of one producer leave the queue in the order in which
\* push put them there, whatever the other threads do.
FifoOrder ==
    \A p \in Producers : \A j \in 1..Len(queue) : queue[j].from = p =>
        /\ \A i \in 1..(j - 1) : queue[i].from = p => queue[i].nr < queue[j].nr
        /\ \A m \in received \cup lost :
            (m.from = p /\ ~m.prio) => m.nr < queue[j].nr

\* A producer that waits for room in push gets to put its message into the queue,
\* unless some pop has thrown: such a pop makes room and skips its notify_one.
PushReturns ==
    \A p \in Producers : pc[p] = "fullWait" ~> (pc[p] \in {"idle", "notify"} \/ lost # {})

\* Every message pushed is taken, as long as the consumers keep popping, and
\* also when the pipe was full and the push has notified nobody.
EverythingPopped ==
    \A p \in Producers, n \in 1..MaxMessages :
        sent[p] >= n ~> \E m \in received \cup lost : m.from = p /\ m.nr = n

\* The queue keeps the promise of Mailbox, with the messages that have no byte in
\* the pipe for those that may be lost.
Promise == INSTANCE Mailbox WITH pending <- Stored, doomed <- Size - pipe
ImplementsMailbox == Promise!MailboxSpec
=============================================================================
