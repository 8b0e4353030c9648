------------------------- MODULE ClientDataManager -------------------------
(***************************************************************************)
(* The server's database (database/ClientDataManager.cpp, ClientData.cpp,  *)
(* Watcher.h) as the sessions of the server drive it                       *)
(* (client/ProtocolClient.cpp).  Every call comes from the Server thread,  *)
(* so a whole call is one step; the steps of the sessions interleave.      *)
(*                                                                         *)
(* A session stands for one ProtocolClient object whose handshake is over. *)
(* Positions are reduced to their times.  The lists `followers' and        *)
(* `following' are kept per pair of clients: how often b's list names a,   *)
(* and the watchers a's list holds for b.  Their order is never read, and  *)
(* ClientData removes all entries of a pair at once.                       *)
(***************************************************************************)
EXTENDS Integers, Sequences, FiniteSets

CONSTANTS
    Keys,           \* public keys, the identity of a client
    Names,          \* names a client may choose
    EmptyName,      \* the empty string, name of a client that chose none
    Sessions,       \* ProtocolClient objects (an object may be built again)
    None,           \* no entry in a map
    ShortMin,       \* the range of the C++ type short
    ShortMax,
    Times,          \* times a position may carry
    MaxUpdates,     \* bound: Update messages pending in one session's queue
    MaxWatchers,    \* bound: entries of one pair in followers and following
    MaxPositions    \* bound: positions kept in all

Short == ShortMin..ShortMax
AllNames == Names \cup {EmptyName}

ASSUME ShortAssumption ==
    ShortMin \in Int /\ ShortMax \in Int /\ ShortMin <= 0 /\ 1 <= ShortMax
ASSUME NoneAssumption == None \notin Short /\ None \notin Sessions
ASSUME NameAssumption == EmptyName \notin Names
ASSUME TimeAssumption == Times \subseteq Int
ASSUME BoundAssumption ==
    MaxUpdates \in Nat /\ MaxWatchers \in Nat /\ MaxPositions \in Nat

VARIABLES
    nextId,         \* the id the next unknown key gets
    clientsId,      \* key -> id
    clientsName,    \* name -> id
    known,          \* the ids that have an entry in clientsData
    name,           \* ClientData::name
    positions,      \* ClientData::positions, oldest first
    followers,      \* followers[b][a]: entries for a in the list of b
    following,      \* following[a][b]: watchers for b in the list of a
    clientsQueue,   \* id -> the session whose queue gets Update messages
    idOf,           \* ProtocolClient::id of a registered session
    updates,        \* Update messages in a session's queue
    caughtUp        \* history: an Update was handled since registration

maps    == <<nextId, clientsId, known>>
names   == <<clientsName, name>>
follows == <<followers, following>>
session == <<clientsQueue, idOf, caughtUp>>
vars    == <<maps, names, positions, follows, session, updates>>

Watcher == [time : Int, name : AllNames]

TypeOK ==
    /\ nextId \in Short
    /\ clientsId \in [Keys -> Short \cup {None}]
    /\ clientsName \in [AllNames -> Short \cup {None}]
    /\ known \in SUBSET Short
    /\ name \in [Short -> AllNames]
    /\ positions \in [Short -> Seq(Times)]
    /\ followers \in [Short -> [Short -> Nat]]
    /\ following \in [Short -> [Short -> Seq(Watcher)]]
    /\ clientsQueue \in [Short -> Sessions \cup {None}]
    /\ idOf \in [Sessions -> Short \cup {None}]
    /\ updates \in [Sessions -> Nat]
    /\ caughtUp \in [Sessions -> BOOLEAN]

Init ==
    /\ nextId = 1
    /\ clientsId = [k \in Keys |-> None]
    /\ clientsName = [n \in AllNames |-> None]
    /\ known = {}
    /\ name = [i \in Short |-> EmptyName]
    /\ positions = [i \in Short |-> <<>>]
    /\ followers = [i \in Short |-> [j \in Short |-> 0]]
    /\ following = [i \in Short |-> [j \in Short |-> <<>>]]
    /\ clientsQueue = [i \in Short |-> None]
    /\ idOf = [s \in Sessions |-> None]
    /\ updates = [s \in Sessions |-> 0]
    /\ caughtUp = [s \in Sessions |-> FALSE]

Registered(s) == idOf[s] # None

-----------------------------------------------------------------------------
(* Registration: selfRegister and the destructor of ProtocolClient. *)

\* nextId++ on a short.
Succ(i) == IF i = ShortMax THEN ShortMin ELSE i + 1

addClient(k) ==
    /\ clientsId' = [clientsId EXCEPT ![k] = nextId]
    /\ known' = known \cup {nextId}
    /\ nextId' = Succ(nextId)

\* clientsQueue.insert keeps the entry that is there.
QueueAfterRegister(i, s) ==
    [clientsQueue EXCEPT ![i] = IF @ = None THEN s ELSE @]

RegisterClient(s, k) ==
    LET isNew == clientsId[k] = None
        id    == IF isNew THEN nextId ELSE clientsId[k]
    IN  /\ ~Registered(s)
        /\ IF isNew THEN addClient(k) ELSE UNCHANGED maps
        /\ clientsQueue' = QueueAfterRegister(id, s)
        /\ idOf' = [idOf EXCEPT ![s] = id]
        /\ UNCHANGED <<names, positions, follows, updates, caughtUp>>

\* The destructor unregisters a positive id only.
QueueKeptOnDestroy(s) == clientsQueue
QueueAfterDestroy(s) ==
    IF idOf[s] > 0 THEN [clientsQueue EXCEPT ![idOf[s]] = None] ELSE clientsQueue

Destroy(s) ==
    /\ Registered(s)
    /\ clientsQueue' = QueueAfterDestroy(s)
    /\ idOf' = [idOf EXCEPT ![s] = None]
    /\ updates' = [updates EXCEPT ![s] = 0]
    /\ caughtUp' = [caughtUp EXCEPT ![s] = FALSE]
    /\ UNCHANGED <<maps, names, positions, follows>>

-----------------------------------------------------------------------------
(* Names and notification. *)

\* The queue registered for the id of s is that of s.
Online(s) == Registered(s) /\ clientsQueue[idOf[s]] = s

\* notifyFollowers pushes one Update for every entry of i's list whose id has
\* a queue.  A queue left behind by a destroyed session has no effect here.
PushedToFollowed(i) ==
    [s \in Sessions |-> IF Online(s) THEN Len(following[i][idOf[s]]) ELSE 0]
Pushed(i) == [s \in Sessions |-> IF Online(s) THEN followers[i][idOf[s]] ELSE 0]

notifyFollowers(i) ==
    /\ \A s \in Sessions : updates[s] + Pushed(i)[s] <= MaxUpdates
    /\ updates' = [s \in Sessions |-> updates[s] + Pushed(i)[s]]

NameFreeAlways(n) == TRUE
NameFree(n) == clientsName[n] = None

NamesKeepingOld(i, n) == [clientsName EXCEPT ![n] = i]
NamesAfterRename(i, n) ==
    [m \in AllNames |->
        CASE m = n -> i
          [] m # n /\ m = name[i] /\ m # EmptyName -> None
          [] OTHER -> clientsName[m]]

\* SET_NAME.  A name that is taken changes nothing, whatever the answer.
SetName(s, n) ==
    LET id == idOf[s] IN
    /\ Registered(s)
    /\ NameFree(n)
    /\ clientsName' = NamesAfterRename(id, n)
    /\ name' = [name EXCEPT ![id] = n]
    /\ notifyFollowers(id)
    /\ UNCHANGED <<maps, positions, follows, session>>

\* MY_LOCATION.
AddPosition(s, t) ==
    LET id == idOf[s] IN
    /\ Registered(s)
    /\ Cardinality(UNION {{i} \X DOMAIN positions[i] : i \in Short}) < MaxPositions
    /\ positions' = [positions EXCEPT ![id] = Append(@, t)]
    /\ notifyFollowers(id)
    /\ UNCHANGED <<maps, names, follows, session>>

-----------------------------------------------------------------------------
(* Following. *)

getNameId(n) == IF clientsName[n] = None THEN 0 ELSE clientsName[n]

\* The id a request names; the handlers ignore it unless it is positive.
AnyNamedId(n) == {getNameId(n)}
NamedId(n) == {id \in {getNameId(n)} : id > 0}

NewWatcher == [time |-> 0, name |-> EmptyName]

NoUpdateOfFollow(f) == updates
UpdatesAfterFollow(f) ==
    [s \in Sessions |-> IF Online(s) /\ idOf[s] = f THEN updates[s] + 1 ELSE updates[s]]

\* ADD_FOLLOWER.
AddFollower(s, n) ==
    LET id == idOf[s] IN
    /\ Registered(s)
    /\ \E f \in NamedId(n) :
        /\ followers[id][f] < MaxWatchers
        /\ \A r \in Sessions : UpdatesAfterFollow(f)[r] <= MaxUpdates
        /\ followers' = [followers EXCEPT ![id][f] = @ + 1]
        /\ following' = [following EXCEPT ![f][id] = Append(@, NewWatcher)]
        /\ updates' = UpdatesAfterFollow(f)
    /\ UNCHANGED <<maps, names, positions, session>>

\* b stops being sent the positions of a: both lists lose every entry.
UnfollowOneSide(a, b) ==
    /\ following' = [following EXCEPT ![b][a] = <<>>]
    /\ UNCHANGED followers
Unfollow(a, b) ==
    /\ followers' = [followers EXCEPT ![a][b] = 0]
    /\ following' = [following EXCEPT ![b][a] = <<>>]

\* REMOVE_FOLLOWER.
RemoveFollower(s, n) ==
    /\ Registered(s)
    /\ \E f \in NamedId(n) : Unfollow(idOf[s], f)
    /\ UNCHANGED <<maps, names, positions, session, updates>>

\* REMOVE_FOLLOWED.
StopFollowing(s, n) ==
    /\ Registered(s)
    /\ \E f \in NamedId(n) : Unfollow(f, idOf[s])
    /\ UNCHANGED <<maps, names, positions, session, updates>>

-----------------------------------------------------------------------------
(* Update: getNewNames and getNewPositions for the session's id. *)

LastTime(b) == positions[b][Len(positions[b])]

HasNewName(w, b) == name[b] # EmptyName /\ name[b] # w.name
HasNewPosition(w, b) ==
    /\ positions[b] # <<>>
    /\ name[b] # EmptyName
    /\ LastTime(b) > w.time

\* What getNewPositions returns for one watcher: its iterator is never moved.
NewPositions(w, b) ==
    IF HasNewPosition(w, b)
    THEN [j \in 1..(IF Len(positions[b]) = 1 THEN 1 ELSE 3) |-> LastTime(b)]
    ELSE <<>>

\* The watcher once both calls have gone over it.
SeenLast(w, b) ==
    [time |-> IF HasNewPosition(w, b) \/ positions[b] # <<>> THEN LastTime(b) ELSE w.time,
     name |-> name[b]]
Seen(w, b) ==
    [time |-> IF HasNewPosition(w, b) THEN LastTime(b) ELSE w.time,
     name |-> IF HasNewName(w, b) THEN name[b] ELSE w.name]

SeenAll(a) ==
    [b \in Short |-> [j \in 1..Len(following[a][b]) |-> Seen(following[a][b][j], b)]]

Update(s) ==
    /\ Registered(s)
    /\ updates[s] > 0
    /\ updates' = [updates EXCEPT ![s] = @ - 1]
    /\ following' = [following EXCEPT ![idOf[s]] = SeenAll(idOf[s])]
    /\ caughtUp' = [caughtUp EXCEPT ![s] = TRUE]
    /\ UNCHANGED <<maps, names, positions, followers, clientsQueue, idOf>>

-----------------------------------------------------------------------------
Next ==
    \E s \in Sessions :
        \/ \E k \in Keys : RegisterClient(s, k)
        \/ Destroy(s)
        \/ \E n \in AllNames :
            \/ SetName(s, n)
            \/ AddFollower(s, n)
            \/ RemoveFollower(s, n)
            \/ StopFollowing(s, n)
        \/ \E t \in Times : AddPosition(s, t)
        \/ Update(s)

Spec == Init /\ [][Next]_vars

-----------------------------------------------------------------------------
(* Properties. *)

\* The two lists agree: ClientData::followers of b ("i'm sending the location")
\* names a as often as ClientData::following of a ("they are sending the
\* location") holds watchers for b, whatever addFollower, removeFollower and
\* stopFollowing were called for, from either side.
FollowDuality ==
    \A a, b \in Short : followers[b][a] = Len(following[a][b])

\* clientsName and ClientData::name are inverse to each other on real names:
\* setName frees exactly the name its client held, so nobody holds a name that
\* resolves to another client or to nobody.
NameIndex ==
    \A n \in Names, i \in Short : clientsName[n] = i <=> name[i] = n

\* No step takes a name away from a client other than the one that renames
\* itself: a name passes from one client to another only by being free between.
NameNotStolen ==
    [][\A n \in Names :
        clientsName[n] # None =>
            \/ clientsName'[n] = clientsName[n]
            \/ clientsName'[n] = None /\ name'[clientsName[n]] # n]_vars

\* A queue pointer kept for a positive id belongs to a live session of that id:
\* notifyFollowers never pushes through a pointer to a destroyed ProtocolClient.
QueueLive ==
    \A i \in Short : (i > 0 /\ clientsQueue[i] # None) => idOf[clientsQueue[i]] = i

\* Every id the maps, the lists and the sessions hold has an entry in
\* clientsData.  The checks of ClientDataManager build a runtime_error without
\* throwing it and then use the iterator, so an unknown id would be undefined
\* behaviour.
IdsKnown ==
    /\ \A k \in Keys : clientsId[k] # None => clientsId[k] \in known
    /\ \A n \in AllNames : clientsName[n] # None => clientsName[n] \in known
    /\ \A s \in Sessions : Registered(s) => idOf[s] \in known
    /\ \A a, b \in Short :
        (followers[b][a] > 0 \/ following[a][b] # <<>>) => {a, b} \subseteq known

\* A watcher has nothing more to send for b.
Fresh(w, b) == ~HasNewName(w, b) /\ ~HasNewPosition(w, b)

\* Once a registered session has handled one Update it is never again behind a
\* client it follows without another Update in its queue: no call of setName,
\* addPosition or addFollower forgets to notify it, and update() leaves nothing
\* behind.  (Before its first Update a reconnected client may well be behind:
\* registering pushes none.)
BehindMeansNotified ==
    \A s \in Sessions :
        (Online(s) /\ caughtUp[s] /\ updates[s] = 0) =>
            \A b \in Short : \A j \in 1..Len(following[idOf[s]][b]) :
                Fresh(following[idOf[s]][b][j], b)

\* As long as a keeps the same watchers for b, none of them goes back in time:
\* a position reported late never makes getNewPositions send older ones again.
WatcherTimeGrows ==
    [][\A a, b \in Short :
        Len(following'[a][b]) >= Len(following[a][b]) =>
            \A j \in 1..Len(following[a][b]) :
                following'[a][b][j].time >= following[a][b][j].time]_vars

-----------------------------------------------------------------------------
(* What the comments and tests of the code say, and the code does not do. *)

\* ClientDataManager_test.cpp:246 to 248: with one new position getNewPositions
\* returns one.
OneNewPositionOnce ==
    \A a, b \in Short : \A j \in 1..Len(following[a][b]) :
        LET w == following[a][b][j] IN
        Len(NewPositions(w, b)) <=
            Cardinality({p \in 1..Len(positions[b]) : positions[b][p] > w.time})

\* ClientDataManager_test.cpp:57 and 71: the queue of an id is that of the
\* session registered last (the two lines are commented out in the test).
LastRegisteredIsNotified ==
    [][\A s \in Sessions :
        ~Registered(s) /\ Registered(s)' => clientsQueue'[idOf'[s]] = s]_vars

\* ProtocolClient.cpp:24 (uregister): the destructor removes the queue of its
\* session, whatever the id.
DestroyUnregisters ==
    \A i \in Short : clientsQueue[i] # None => idOf[clientsQueue[i]] = i
=============================================================================
