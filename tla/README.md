# Locus: a TLA+ verification project

Locus is a network that passes on the positions of its users. A C++ server
(`src/server/src`) keeps one session for each TCP connection, a database of
clients, names and followers, and three threads around epoll. A Java client core
(`src/client`) talks to it with three threads of its own. This project models the
parts in which the order of events matters and the translation of packets between
the two programs, checks them with TLC and proves with TLAPS the safety properties of
the database and its file, the message queue, the buffers, the life of connections,
the keys of the handshake, the layers of a packet and the news between sessions.

Paths below are relative to `src/server/src` unless they start with `src/`;
Java files are in `src/client/src/main/java/com/github/koraxiss`.

## 1. The system

### How the parts interact

    peer --TCP--> Acceptor (Receiver thread) --AddClient--> ClientManager (Server thread)
                                                              | builds SimpleClient <- EncryptClient <- ProtocolClient
                                                              | pushes AddEPollEvent to the queues of the three threads
    Receiver thread: ClientBuffer::recv --PacketReceive, Close--> session's queue
    Server thread:   ProtocolClient::recv  (handshake, database, sendPacket -> ClientBuffer::send)
    Sender thread:   ClientBuffer::send    --PacketSend--> session's queue
    sessions:        database --Update--> queue of each follower; closeConnection --EraseClient--> ClientManager
    main:            close nr --EraseClient--> ClientManager; closeAll: Close to each thread, and join

Every arrow with a message is a `BlockingQueue` with a pipe, which an epoll of the
reading thread watches edge triggered. Threads share the `ClientBuffer` of a
client (its two buffers, their stages and its `close` flag), raw pointers to
clients in epoll and in messages, and the numbers of descriptors, which the
kernel reuses.

### Inventory

| Component | State | Operations | Hard behaviour | What makes it correct | Module |
|---|---|---|---|---|---|
| Client database (`database/ClientDataManager`, `ClientData`) | ids, names, positions, two lists per client, queue pointers | register, unregister, follow, rename, add position, get news | both lists and both name maps are updated separately; ids are `short`; queue pointers of destroyed sessions; reconnects | lists and maps agree, no dangling pointer, nobody is left behind without an Update | `ClientDataManager` |
| Message queue (`message/BlockingQueue.h`, `buffer/PipeBuffer`) | queue, set of priority messages, mutex, 2 condition variables, pipe | push, priorityPush, pop, pop_for | notify after unlock, full pipe, order of priority messages | exactly once, order per producer, nobody sleeps in vain, pipe and queue agree | `BlockingQueue`, `Mailbox` |
| Thread loops, epoll wrapper, acceptor, client manager (`server/`, `epoll/`), `main.cpp` | inboxes, epoll sets, batches, `clientsMap`, descriptors | accept, addClient, eraseClient, close, closeAll | destroyed objects in batches and messages, reused descriptors, blocking pushes, lost edges, shutdown | every descriptor has one owner, each client is registered once, an erase hits its client, joins return | `ServerCore`, `Connection` |
| Connection buffer (`client/ClientBuffer`, `SimpleClient`) | bufferIn, bufferOut, stages, `close` | recv, send, sendData, recvData | TCP pieces, partial writes, two threads in `send`, stages without a lock | packets keep their borders and bytes, one notice per packet | `BufferIn`, `BufferOut` |
| Byte containers (`buffer/Buffer`, `BlockingBuffer`) | list of vectors, counted size | push, pop, popAll | size and list are kept apart | size is the sum of the lengths, no byte lost | `Buffer`, used by the two above |
| Protocol session (`client/ProtocolClient`, `EncryptClient`, `Client`) | stage, keys, id, remaining packets | the handlers of the three handshake stages and of the stable stage | missing `break`, keys that change under packets, exceptions; Updates, notices and remaining packets of several sessions; erasure in between | both sides use the same key, identity only with the session key; news of a client reach its followers, and nobody else | `Handshake` (first three stages), `Session` and `Feed` (stable stage), `ClientDataManager` (database calls) |
| Java client core (`Client.java`, `LayerManager`, `CipherModule`, messengers) | two queues, `sending`, `receiveNext`, key state | main, reader and writer thread | flags set outside their locks, interrupts | the handshake ends, all threads stop | `Handshake`, `Layers` (`LayerManager`, `CipherModule`, packets) |
| Cryptography (`crypto/`) | keys, algorithm in use | use, encrypt, decrypt in blocks | key in use, lengths of blocks | see session; what is encrypted in several blocks comes out whole | `Handshake` (which key), `Layers` (blocks) |
| Packets, conversions (`packet/`, `Converter.h`, `BlockBuffer`) | - | layouts of fields | widths (`time_t` from 4 bytes), lengths, a reader that reads once | what one side writes the other reads | `Layers` |
| Database persistence (`database/Database`) | the file | load, save | saved only by a static destructor over the old file | a run starts with what the last saving run left; a key keeps its id | `Persistence` |
| Logger, key generator, `simple-client`, Android application | - | output; manual tools; a user interface not connected to the core | - | - | not modelled |

cereal, gtest and Crypto++ are git submodules or libraries and stay outside. The
hazards of the code, each at its line with the properties that watch it, are listed
in `PROJECT.json`.

## 2. Modules

`X_proofs` holds the theorems about `X`; `MCX` its instances for TLC. `Database_proofs`
is about ClientDataManager and Persistence, `Client_proofs` about Handshake and Layers,
and `Lists_proofs` holds the lemmas on numbers and sequences that the proofs about the
buffers, the layers and the sessions share.

**ClientDataManager.** One action per call that a session makes (RegisterClient,
Destroy, SetName, AddPosition, AddFollower, RemoveFollower, StopFollowing, Update).
All calls come from the Server thread, so a call is a step. An `if` that builds a
`runtime_error` without throwing it is a use of the iterator as in the code;
`IdsKnown` shows that it never happens. Ids wrap like a C++ `short` of the width
given. Positions are reduced to their times. The lists are kept for each pair of
clients, because `removeFollower` and `stopFollowing` remove every entry of a pair
and no code reads their order.

**Mailbox, BlockingQueue.** What a thread does under the mutex is a step, the
`notify_one` after the unlock is another, a wait set is the threads in `emptyWait`,
`timedWait` or `fullWait`; wakeups may be spurious. The pipe is a count of bytes: a
`write` to a full pipe throws after the message was queued, and a `pop` that finds
no byte throws after it removed the message, as in the code. `Mailbox` is the
promise: delivered once, priority messages first, in order for each producer, and
none lost beyond one for each push that found the pipe full (`doomed`).

**ServerCore.** One action per handler; `pc` has a place for each blocking push.
Each thread drains its inbox, calls `epoll_wait` once with a timeout of 0 and
handles a batch. Events are edges: an edge is set by every arrival and consumed by
the wait. `pop_for` takes one message for an edge, however many there are. An
object that was destroyed while an event or a message still points to it is
undefined behaviour: nothing comes of it, or the process dies (`Dies`). A packet to a
peer that has gone is refused the first time and a SIGPIPE the second
(`BrokenPipe`; nothing in the server handles the signal). Building a session may
throw, because its pipe needs two descriptors and no pipe is ever closed: the socket
is then closed with its buffer, and neither the map nor a message knows of it
(`AddClientFails`). A packet that arrives in the stage TestKey runs two stages for the
lack of a `break`, so one PacketReceive can answer and ask for the end of the session,
or ask twice (`Requests`). Packets are whole here and Updates are left out. The
commands `close nr` name any descriptor.

**Connection.** What ServerCore promises, without threads, queues, map or epoll: a
connection waits, is accepted under a descriptor that nobody else holds, served, and
gone; it may be refused while it waits, or given up before there is a session; requests to end it name a descriptor, may be late or repeated, and end only the
connection they were meant for (`Meant`); one that is meant for a connection does not
come to nothing. `Stage` in ServerCore reads a connection's stage from its object, its
descriptor and the backlog; the requests are the erase messages that are pending.

**BufferIn.** The Receiver thread in `recv()`, one system call a step, the two steps
of `recvData` in the Server thread, and the framing that `SimpleMessenger.java`
writes. `room` is the size that `std::vector` had after the last `resize`: bytes
behind it come back as zeros. The session is called through its queue, which other
messages share: `queueEdge` is set by every push, `Wake` spends it, and one message is
taken for it (`Take`, `TakeOther`, `TakeClose`), in no particular order. A packet whose
PacketReceive shares an edge waits for the next message of any kind.

**BufferOut.** `send()` in two threads, one step for each use of the stage, of the
(locked) buffer and of the socket; marking bufferOut as Empty and telling the session
are two of them. `disturbed` remembers that both threads have
been in it at once, or that a packet was put behind one that was not gone.

**Buffer.** The list of vectors and its counted size as operators, for BufferIn and
BufferOut. `BlockingBuffer` adds a mutex, so each operation is atomic there;
`popAll` is called on the buffers of packets, which belong to one thread.

**Handshake.** The session's handlers and the Java client's three threads. A packet
is its type and the key that opens it. A client step ends where another of its
threads can see the difference; `Thread.sleep` promises no order. The Java client is
assumed to read a packet whole (its two `input.read` are not repeated). The server does
not stop when the handshake is over: `receiveData` goes on into
`stableCommunication` with an empty buffer. The operator may erase the client at
any time. The session's queue holds its PacketReceive beside the PacketSend of every
answer, the greeting's included, with one message taken for an edge as in BufferIn: a
packet of the handshake can be left in the queue for ever (`Stranded`).

**Session, Feed.** The stable stage of several sessions together: a client sends a
place or a name, the database notes it, `notifyFollowers` pushes an Update to each
follower's queue, the follower's session asks for names and places, appends them to
`remainingPackets`, and sends one packet for each notice of its buffer. Handling a
message is one step and taking it another, because the Receiver and the Sender thread
push to the same queues meanwhile; `Writable` is the Sender thread when the socket has
room again. A full pipe throws out of `notifyFollowers` or out of the notice of a packet.
Sessions are erased at any time between two handlers and begun again. News are
numbered in the order in which they come in, which keeps what the database does with
them (only the newest, three times unless it is the only one) and drops the
coordinates. Whether a place is new is not a question of its number: it has a time,
which is what its sender makes of it (`time(nullptr)` of the server less an age that
the peer gives, in seconds), and is new to a watcher when that is later than the time
of the place the watcher has seen. A place of the same second, or an older one, is
passed over (`Overtaken`). `Feed` is the promise without
sessions, queues or sockets: a follower is shown what it may see, in order.
`allowed`, `dropped`, `caughtUp` and `cutShort` are history.

**Persistence.** EXTENDS ClientDataManager by the process around it: load at the
start, sessions, the destruction of the sessions left, `ofstream` (which empties the
file), the write, and a crash between any two steps. `Archive` is the list of members
in `serialize`, in which the queues are missing.

**Layers.** One packet on its way through the functions of the sender and of the
reader, in both directions: fields to bytes (`Pack`), blocks of RSA or AES
(`EncryptData`), the length in front (`Send`), one read or reads until the length is
reached (`ReceiveWhole`, `ReceivePart`, `ReceiveShifted`), decryption, parsing. A byte
is the name of its field and its place there; block, array and word sizes are those
of the code. Paddings and ciphertexts have no content.

## 3. Runs

All passing runs explore their whole instance. Deadlock is checked in the Queue run;
elsewhere the bounded inputs run out, so a last state without a successor is normal.

| Run | Asks | Bounds and why they are enough |
|---|---|---|
| DbNames | the name maps, the two lists and the queues agree; ids are known; no name is stolen | 2 keys and 2 names: taking, freeing, renaming onto each other, following both ways; 3 sessions: one key can have an old and a new session beside the other client. The `short` has 3 values, so that `nextId` wraps behind the second key |
| DbPositions | what a watcher has been sent, and that it will hear of news | 2 positions, of one client or one of each, with times in any order; 2 pending Updates, so that one collects what both announced |
| Queue | pipe and messages agree, order of each producer, refinement of Mailbox; every push returns, everything is popped | 2 places and a pipe of 2 bytes with priority messages beside the places: everybody waits for everybody, and the pipe overflows; 2 producers of 2 messages each, 2 consumers |
| CoreSafety | descriptors, registration, erasure; refinement of Connection | 2 connections on **one** descriptor (every reuse is a conflict), one packet in all, 2 equal erase messages, one command, shutdown at any time. With `Fds = {f1, f2}`, where they also live side by side, the invariants held too, over 13.8 million states; the run is kept at 2.9 million |
| CoreShutdown | the joins return, or the Server thread waits for a queue that nobody reads | 2 connections side by side or one after the other on 2 descriptors, without packets and commands, under fairness. Queues of **one** place, so that each of the three pushes of addClient can be the one that blocks, before or after the loop it waits for has ended |
| HandshakeRaces | keys, identity, the end of the handshake and of the client | one connection: nothing is shared between two, and what other sessions could push (Update) comes after the handshake |
| InFraming | borders and bytes of packets; who may touch bufferIn; arrival | a byte of 3 values, so that a packet of 4 bytes has a length with a high byte; 2 packets in all pieces; one more message in the session's queue, which is enough to take the edge of a packet, or to bring a stranded one. With `MaxOthers = 2` the run passes too (1.2 million states) |
| OutSending | no byte lost or doubled, order on the wire, notices, an edge for what is left | 2 packets of 1 or 2 bytes, a socket of 3 bytes: lengths and payloads are cut everywhere, and a packet can be put behind a half sent one. `View` drops the order of the wire once the threads have disturbed each other: the other properties hold there by their condition, and NothingLost does not see the order |
| Sessions | news are always on their way, are lost only for a cause that is named, and reach the followers; refinement of Feed | 2 clients, 2 packets, 3 sessions: somebody comes back. 2 times: a second place is earlier, of the same time, or later. Two databases to start with: `BothFollowA` (b follows a, and a itself: one notification for two queues, of which one can be full) and `FollowsUnnamed` (news of a client that cannot be named). A pipe of 2 bytes is full after a notice and an Update |
| Restarts | the database stays sound across runs, ids stay unique, a run starts from the last save | 2 runs of the server, so that the second one loads what the first one left, or its torn file; 2 keys, one name, 2 sessions; 4 values of the `short` |
| Layers | what was sent is what is parsed; the type survives; nothing is refused without a cause | the real sizes. Names around the edge of a block (14 to 16) and of the client's array (1022, 1023), and the empty one; no or one character of two bytes. Every cut of every read of the client |

The type invariants are proved (TypeCorrect in each module of proofs; `Packets` and the
invariant of Layers say what its data are), so no run lists them.

`QueueSize` stands for 1000. CoreSafety has 2: a queue can be full, and NoSelfBlock needs
that much. CoreShutdown has 1, because what it asks is what happens when a push finds
no room, and two connections fill no queue of two. `Shutdown` excuses one state, `Jammed`:
the Server thread waits for room in the queue of a loop that has ended, or in its own.
That the excuse is needed is `JoinsReturn` (below): the code has no way out of such a
wait, and main's join of the Server thread does not return. It takes as many clients,
added after the Receiver or the Sender has ended, as its queue has places. Its own queue
can only be meant in this run: NoSelfBlockHolds proves that for queues of two or more
the Server thread never waits for itself. With 3 connections on one descriptor and `QueueSize = 2`
the same holds (Shutdown over 1.6 million states, and JoinsReturn refuted at the push to
the Sender).

### What does not hold

One run shows a comment of the repository that the code does not keep (details under
"findings" in `PROJECT.json`): **CoreClosedErased**, that a closed connection is
notified (`ClientBuffer.cpp:96`). The Close message can be stranded behind another
one of the same edge.

More claims are stated at the ends of the modules and belong to no run. TLC refutes
each within seconds when it is added to the configuration named here:

| Definition, configuration | Claim | What happens |
|---|---|---|
| OneNewPositionOnce, DbPositions | one new position is returned once (`ClientDataManager_test.cpp:246`) | the loop never moves and returns it three times |
| LastRegisteredIsNotified, DbNames | the queue of an id is that of the last session (`ClientDataManager_test.cpp:71`) | `insert` keeps the old one; its destructor then removes it |
| DestroyUnregisters, DbNames with `ShortMax = 1` | the destructor unregisters (`ProtocolClient.cpp:24`) | not when the id is 0 or negative, which ids become when the `short` wraps |
| JoinsReturn, CoreShutdown | the joins return in any case (`main.cpp:62`) | addClient waits for room in the queue of a loop that has ended |
| SenderRegistersLive, CoreSafety | the buffer added to the sender exists (`ClientManager.cpp:100`) | it may be erased before the message is read |
| ParsesWholePackets, HandshakeRaces | parsing only after the whole packet (`main.cpp:83`) | the missing `break` parses an empty buffer and closes the connection |
| ReceivesCountBytes, InFraming | `receive count bytes` (`ClientBuffer.cpp:54`) | a packet in two pieces gets zeros in it |
| WireFramed, OutSending | sending ok (`main.cpp:84`) | two threads put two lengths in front of one packet |
| LostOnlyWithSession, Sessions | only the end of a session loses news of a client with a name | a place of the same time as the one before, or of an earlier one, is never sent |
| PlacesArrive, Layers | a location of the server arrives (LOCATION) | the client reads its floats from places 8 bytes apart |
| NamesArrive, Layers | the name of a new followed client arrives (NEW_FOLLOWED) | the server sends the bytes of the `std::string` object |
| PositionsAccepted, Layers | the server accepts the location of a client (MY_LOCATION) | the client's packet has 24 bytes of fields, the server wants 16 |
| AnyNameSent, Layers | any name can be sent (SET_NAME and the follower packets) | the client's array has a byte for each character; a character of two bytes does not fit |

### Fairness

- BlockingQueue: a woken producer tries again, consumers keep calling (the loop of
  `BasicThread`), a thread that owes a notify makes it. An idle producer owes nothing.
  `PushReturns` excuses a queue that has lost a message: the pop that threw did not
  notify, and a producer may wait on.
- Session: the Server thread's loop never stops, and sockets get room again because the
  peers read. Peers need not send, come or go. The Server thread's fairness is written
  out (`([]<>~ServerReady \/ []<><<ServerActs>>_server)`): `ServerReady` is
  ENABLED ServerStep, and only its steps change `taken` or add to `batch`. What
  `FollowersCatchUp` excuses is what the code loses: messages stranded in a queue whose
  edge is spent, a notification that a full pipe cut short, a session that no Update
  has reached since it began, news marked as seen in a session that ended, and a place
  whose time is not after that of one that was sent (`PassedOver`).
- ServerCore: the three loops never block in `epoll_wait`, so each thread always
  runs; main's join returns when it can. Peers and operator owe nothing.
- Handshake: every thread runs and the network delivers; the operator owes nothing, and
  the manager need not come to an erasure. Under this fairness the handshake ends unless
  one of three things happens: a signal of the Java client is lost, either
  `sending = true` after the writer's `sending = false` (`Client.java:64`, 194) or
  the reader's `receiveNext = false` after main's `true` (164, 127); or the session is
  not called for a packet, because the packet's notice came under one edge with that of
  an answer (`Stranded`). `HandshakeOrStall` says that there is nothing else; TLC refutes
  it without any one of the three.
- BufferIn: TCP delivers and the threads run, which for the session means: one message
  for each edge. `SentArrives` excuses a length that came in two pieces, bytes that no
  further edge announces (`Stranded`), and a PacketReceive whose edge another message
  has used up (`Unheard`), each of which TLC shows to be needed. The other messages are
  finitely many: if new ones came for ever, each could be taken instead of the packet's.
- BufferOut states no fairness: instead of "everything leaves", `RestHasEdge` says
  that what is left when both threads have gone will be announced by the socket.

## 4. Proofs

TLAPS checks the theorems for every value of the constants that satisfies the
assumptions in the modules (for example: `None` is no id; the range of a short
includes 0 and 1; a queue has a capacity of at least 1).

Each safety property and each refinement that a passing run checks is stated by a theorem.

**Database_proofs.** The inductive invariant of the database is
`IInv == TypeOK /\ FollowDuality /\ NameIndex /\ QueueLive /\ IdsKnown`. They need
each other: the name map can be inverted only if the client of a name is known, and
a step on the lists may only touch known ids. From it come TypeCorrect, ListsAgree,
NamesInverse, NoDanglingQueue and LookupsSucceed. Two properties of steps follow from
the same invariant: a name is never taken from its owner (NamesKept; only the owner's
own rename frees it), and the time up to which a watcher has news never goes back while
it is kept (TimesGrow; `SeenIsLater` says it of one `update()`). NobodyForgotten needs
`NotifyInv` on top: a session that has caught up is the owner of its queue entry, and each of
its watchers is fresh or an Update is pending; the lemmas NotifyReaches and
SeenIsFresh say what `notifyFollowers` and `update()` do for one watcher.

The second half is about the file. The invariant of a run, IInv with `IdsCounted` (the
clients that have an id have the first ones, all different, as long as there are some),
cannot be used across runs by itself: what a new
run loads is a record that was written by another one. So it is stated a second time
for an archive, and `FileInv` says that the file is torn, missing or such an archive,
and `FileIsSaved` that it is the last saved one. Loading turns one into the other;
`serialize` leaves out the queues, which are empty when a run begins. From it come
SoundAcrossRuns, IdsUniqueAcrossRuns and StartsFromLastSaveHolds.

**BlockingQueue_proofs.** TypeCorrect and CapacityHolds are inductive with the type.
OrderHolds strengthens the order of the queue with "everything received of a
producer is older than what is stored, and all of it is among the messages sent".
PipeExact counts the bytes against the messages; it needs that a new message is in
neither the queue nor the set (NextMessageIsNew). QueueIsMailbox is the
refinement: each step puts, delivers, loses a message or stutters, and it loses one
only when an earlier push found the pipe full.

**Lists_proofs.** What a list of vectors holds is `FlattenSeq`, a recursive function,
and the library's induction cannot be given a formula here. `UpTo` says induction with
a set instead and is proved from a least counterexample (`Least`, from the well-founded
order of the naturals); the lemmas on `FlattenSeq` (its parts, its first and its last
vector) rest on it.

**BufferIn_proofs.** NoticesHold and TurnsHold need to know where the Receiver thread
is: `CallFitsStage` says that `recv(2)` runs only on an Empty `bufferIn` and
`recv(remainingSize)` only on one that is Receiving, so that the one who sets the
stage is the one whose turn it is. The rest comes from `FInv`. `Typed` and `Fits` hold
always: the counted size is that of the bytes, no read asks for fewer bytes than none,
and bufferIn is empty between packets. `Borders` holds unless a length came in two
pieces, and says where the packet is that the session gets next: in the stream alone
(`NextComes`), or partly in bufferIn (`PartRead`), or wholly there. When a packet comes
in pieces the code has put zeros behind them, so bufferIn has not the bytes that are
gone from the stream but as many: `PartRead` says that there are some bytes of that
length which, put before the stream, give the packet and all behind it. `Intact` adds
the bytes themselves as long as no read was cut. That a `pop(n)` for the whole buffer returns
its whole content, however many vectors it is in, is `PopAll`. The session's queue is
beside all this: its steps move no byte (`QueueOnly`), and its counts have their types
(`MailTyped`). The assumption about
packets is that their lengths fit the two bytes they are written in. From it come
TypeCorrect, BordersHold and WholeReadsHold.

**BufferOut_proofs.** `KInv` holds whatever the two threads do to each other: every
byte of what was sent is in one place, on the wire, in bufferOut or in the hand of
a thread (`OncePlaced`), and the counted size is that of the bytes in the list
(`SizeCounts`). It gives TypeCorrect and NothingLostHolds. The
other properties are about `Undisturbed`, which holds until the threads disturb each
other: one thread has its turn and the other is idle (`Turn`), and the place of the
thread in `send()` says what the stage and the list of vectors can be (`Where`). The list
holds a header and a payload at most, none of them empty, so its counted size is the
sum of two lengths and is 0 exactly when the list is empty (`NeatEmpty`): a stage that
is Empty leaves nothing behind. With "a rest was left by a call that found too little
room" this gives RestHasEdgeHolds. `Stream` adds what is on the wire: all packets, each
behind its length (`AllGone`), all but the last, which has no length yet (`Waiting`), or
a part that the hand and bufferOut complete (`OnItsWay`); and the notices are as many as
the packets that are gone, but for one that a thread has yet to push. FramedHolds and
NoticesCountHolds follow.

**Client_proofs.** The handshake is a game of one ball: there is at most one packet,
order or message under way between the session and the client's three threads, and
`OneBall` lists the places it can be in (`OnWayToClient` to `Gone`). KeysMatch alone is
not inductive. Whether the writer uses the right key depends on what main took last
(`LastTaken`), because main may set the next key only when the writer has said that it
has sent, and the reader may fetch the next packet only when main has done with the last
(`ReaderInTurn`). The threads of a connection that was closed go on in any order; `Gone`
covers them. From it come TypeCorrect and KeysMatchHolds.

The second half is about Layers, for names of every length. What a layer does to a text
is a lemma about that text alone. AESRoundTrip: the blocks of a text decrypt to it and
to nothing else, because the padding of the last block is the only one that fits.
AESPartBegins: what is left when the client has read only a part of them gives a
beginning of the text, or fails. RSARoundTrip: parts of 53 bytes in slots of 128, which
the server cuts by its own block, are put together again. All three rest on
`FlattenCuts` of Lists_proofs (a sequence cut at given places and flattened is itself),
where the induction over the number of blocks is. CodesAgree compares the two tables of
type codes. Then `InStep` says at each step what `data` is in words of the packet: its bytes,
its blocks, the frame; after a cut, the first bytes of its blocks. `LayersInv` adds
the properties, and `LayersInvariant` is its proof, a step for each function. From it come
RoundTripHolds, TypeKeptHolds and FailsForCauseHolds. The only assumption is that lengths are
natural numbers; a name too long for the client's array is one of the causes that
FailsForCause names.

**Session_proofs.** For any finite set of clients, any relation between them and any
capacity of the pipes. `TInv` is the type with "a session that is handled exists"
(`Live`). NewsOnTheWayHolds follows every message that would bring news (`Told`) or
send what the session has collected (`Brought`) through the queue, the hand of the
Server thread and the socket. For the other two the lists of packets matter: `LInv` says
that what waits for a peer is in order, not older than what the peer or an ended
session had and not newer than what the follower may see, and that what a watcher may
see is the newest; `FInv` that news marked as seen were sent, lost with a session, or wait. The last news of a
client are new to a watcher, marked, or passed over, which is a matter of times alone
(`PlaceAdded`, `FoundAccounted`, `NothingNew`): nothing is assumed about the times of places.
A step only sends what waits and publishes (`SendingStep`), or handles an Update, or ends
a session (`StepKinds`). LostForCauseHolds and the refinement FeedKept follow: each
step shows a follower some packets of its list, takes news it may see, drops a list, or
stutters.

**ServerCore_proofs.** `Owners` follows a connection through its life: fresh, in the
hands of the acceptor, once in the queue of the manager, live in the map under its
own descriptor, dead without a descriptor; no descriptor has two connections. Its
last part, `EraseOwn`, is why a message that names only a descriptor is safe: what a
session has asked for finds that session or nobody, because priority messages come
first and so the next client enters the map only when no such message is left. From
it come DescriptorOwnedHolds and EraseHitsIssuerHolds. `Drained` is about the Server
thread's own queue: when the manager has its turn (`ManagerTurn`), what is in that
queue is a Close, or one client that was left behind a Close. ServerRegistersLiveHolds
and NoSelfBlockHolds (for queues of at least two) follow. `Way` is the path of one
client to one loop: owed by addClient, in the thread's queue, or in its epoll.
RegisteredOnceHolds follows from it; it needs `Owners` (a client that is added was
fresh) and `Drained` (a client in the hand of the Server thread is live). These proofs
carry `Types`, the part of TypeOK they need; TypeCorrect adds the counts (`Counted`: what
a socket holds and what the peers may still send are together no more than
MaxPackets), the bounded queues (`Filled`, `Mailed`) and the edges (`Flagged`).

ServerIsConnection is the refinement, one lemma for each kind of step. Most steps are
not seen, because they change neither object, descriptor, backlog nor the erase messages. `Owners`
gives the rest: an accepted descriptor is free, the client of a failing addClient had no
object and so is abandoned, a client that enters the map had a
descriptor and no object, a message of a session carries the descriptor that the
session has while it lives, and what `eraseClient` finds in the map under that descriptor
is the connection for which the message was meant. That a message comes to nothing only when
it is meant for nobody is where the map matters: a live connection is always in it.

Only model-checked is liveness, because fairness and ENABLED are beyond the prover: no
producer or consumer of the queue sleeps in vain (PushReturns, EverythingPopped), the joins
of main return (Shutdown), the handshake and the client end (HandshakeOrStall,
ClosedClientStops), packets and news arrive (SentArrives, FollowersCatchUp).

## 5. Plan

Done: the modules and proofs above. Two questions of liveness are left, both listed
among the hazards: the backlog of the acceptor, which takes one connection for each edge,
and the end of main's input, at which it spins.

Not modelled, and not planned:

- the ciphers themselves and the key generator (`Layers` has their block sizes,
  `Handshake` their keys);
- cereal's text format (a torn archive fails as a whole, see `Persistence`);
- logging, the manual test client, the Android user interface;
- what the Java client does with packets of the stable stage: it drops them, but for a
  NEW_FOLLOWED, which a missing `break` (`Client.java:101`) sends back to the server,
  whose `stableCommunication` logs it as a wrong packet.
