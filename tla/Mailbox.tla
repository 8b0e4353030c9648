------------------------------ MODULE Mailbox ------------------------------
(***************************************************************************)
(* What a message::BlockingQueue promises to the threads that use it:      *)
(* every message is taken once, priority messages before the others, and   *)
(* the ordinary messages of one thread in the order it pushed them.  A     *)
(* push that throws has stored its message all the same, and costs at most *)
(* one message, not always its own, that is taken and never returned.  No  *)
(* capacity, lock, condition variable or pipe appears.                     *)
(***************************************************************************)
EXTENDS Integers

CONSTANTS
    Producers,      \* threads that push
    MaxMessages     \* bound: messages one thread pushes

VARIABLES
    sent,           \* number of messages each thread has pushed
    pending,        \* messages pushed and not taken
    received,       \* messages returned
    lost,           \* messages taken by a pop that threw
    doomed          \* how many of the pending messages may still be lost

mailboxVars == <<sent, pending, received, lost, doomed>>

Message == [from : Producers, nr : 1..MaxMessages, prio : BOOLEAN]

MailboxInit ==
    /\ sent = [p \in Producers |-> 0]
    /\ pending = {} /\ received = {} /\ lost = {}
    /\ doomed = 0

\* The push returns, or it throws.
Put(p) ==
    /\ sent[p] < MaxMessages
    /\ sent' = [sent EXCEPT ![p] = @ + 1]
    /\ \E b \in BOOLEAN :
        pending' = pending \cup {[from |-> p, nr |-> sent[p] + 1, prio |-> b]}
    /\ doomed' \in {doomed, doomed + 1}
    /\ UNCHANGED <<received, lost>>

\* m may be taken next.
Due(m) ==
    \/ m.prio
    \/ \A x \in pending : ~x.prio /\ (x.from = m.from => m.nr <= x.nr)

Deliver(m) ==
    /\ Due(m)
    /\ pending' = pending \ {m}
    /\ received' = received \cup {m}
    /\ UNCHANGED <<sent, lost, doomed>>

Lose(m) ==
    /\ Due(m)
    /\ doomed > 0
    /\ doomed' = doomed - 1
    /\ pending' = pending \ {m}
    /\ lost' = lost \cup {m}
    /\ UNCHANGED <<sent, received>>

MailboxNext ==
    \/ \E p \in Producers : Put(p)
    \/ \E m \in pending : Deliver(m) \/ Lose(m)

MailboxSpec == MailboxInit /\ [][MailboxNext]_mailboxVars
=============================================================================
