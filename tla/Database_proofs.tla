--------------------------- MODULE Database_proofs ---------------------------
(***************************************************************************)
(* Theorems about the database, for all keys, names, sessions, ranges of   *)
(* short and bounds: about ClientDataManager within one run of the server, *)
(* and about Persistence across any number of runs, crashes and torn files.*)
(*                                                                         *)
(* Within a run the inductive invariant is the conjunction of the type     *)
(* invariant, the agreement of the lists, the inverse name maps, the       *)
(* liveness of positive queue entries and the closure of ids; each part is *)
(* proved over one step from the parts it needs.                           *)
(*                                                                         *)
(* From run to run it is carried by the file.  So it is stated once more   *)
(* for an archive, without the queues and sessions that are not in it:     *)
(* writing takes it from the memory to the archive, loading brings it back.*)
(***************************************************************************)
EXTENDS Persistence, SequenceTheorems, FiniteSetTheorems, TLAPS

-----------------------------------------------------------------------------
(* What the calls of ClientDataManager do to the lists *)

\* A list keeps its length when every entry is rewritten.
LEMMA SeenAllType ==
    ASSUME TypeOK, NEW a \in Short
    PROVE  /\ SeenAll(a) \in [Short -> Seq(Watcher)]
           /\ \A b \in Short : Len(SeenAll(a)[b]) = Len(following[a][b])
<1> SUFFICES ASSUME NEW b \in Short
             PROVE  /\ SeenAll(a)[b] \in Seq(Watcher)
                    /\ Len(SeenAll(a)[b]) = Len(following[a][b])
    BY DEF SeenAll
<1> DEFINE ws == following[a][b]
<1>1. ws \in Seq(Watcher)
    BY DEF TypeOK
<1>2. Len(ws) \in Nat
    BY <1>1
<1>3. ASSUME NEW j \in 1..Len(ws)
      PROVE  Seen(ws[j], b) \in Watcher
    <2>1. ws[j] \in Watcher
        BY <1>1
    <2>2. CASE HasNewPosition(ws[j], b)
        <3>1. positions[b] \in Seq(Times) /\ positions[b] # <<>>
            BY <2>2 DEF TypeOK, HasNewPosition
        <3>2. Len(positions[b]) \in 1..Len(positions[b])
            BY <3>1, EmptySeq
        <3>3. LastTime(b) \in Times
            BY <3>1, <3>2, ElementOfSeq DEF LastTime
        <3>4. LastTime(b) \in Int
            BY <3>3, TimeAssumption
        <3> QED
            BY <2>1, <2>2, <3>4 DEF Seen, Watcher, TypeOK
    <2>3. CASE ~HasNewPosition(ws[j], b)
        BY <2>1, <2>3 DEF Seen, Watcher, TypeOK
    <2> QED
        BY <2>2, <2>3
<1>4. SeenAll(a)[b] = [j \in 1..Len(ws) |-> Seen(ws[j], b)]
    BY DEF SeenAll
<1>5. SeenAll(a)[b] \in [1..Len(ws) -> Watcher]
    BY <1>3, <1>4
<1> QED
    BY <1>2, <1>5

\* The id nextId moves to is again a short.
LEMMA SuccType ==
    ASSUME NEW i \in Short
    PROVE  Succ(i) \in Short
BY ShortAssumption DEF Succ, Short

\* A successful notification leaves counters.
LEMMA NotifyType ==
    ASSUME TypeOK, NEW i \in Short, notifyFollowers(i)
    PROVE  updates' \in [Sessions -> Nat]
<1> SUFFICES ASSUME NEW s \in Sessions
             PROVE  updates[s] + Pushed(i)[s] \in Nat
    BY DEF notifyFollowers
<1>1. Pushed(i)[s] \in Nat
    <2>1. CASE Online(s)
        <3>1. idOf[s] \in Short
            BY <2>1 DEF Online, Registered, TypeOK
        <3> QED
            BY <2>1, <3>1 DEF Pushed, TypeOK
    <2>2. CASE ~Online(s)
        BY <2>2 DEF Pushed
    <2> QED
        BY <2>1, <2>2
<1>2. updates[s] \in Nat
    BY DEF TypeOK
<1> QED
    BY <1>1, <1>2

\* The ids a request resolves to are positive shorts that own the name.
LEMMA NamedIdFacts ==
    ASSUME TypeOK, NEW n \in AllNames, NEW f \in NamedId(n)
    PROVE  f \in Short /\ f > 0 /\ clientsName[n] = f /\ clientsName[n] # None
BY NoneAssumption, ShortAssumption DEF NamedId, getNameId, TypeOK

LEMMA TypeInit ==
    ASSUME Init
    PROVE  TypeOK
<1>1. 1 \in Short
    BY ShortAssumption DEF Short
<1> QED
    BY <1>1 DEF Init, TypeOK, AllNames

LEMMA TypeStep ==
    ASSUME TypeOK, [Next]_vars
    PROVE  TypeOK'
<1> USE DEF TypeOK, maps, names, follows, session
<1>1. ASSUME NEW s \in Sessions, NEW k \in Keys, RegisterClient(s, k)
      PROVE  TypeOK'
    <2> DEFINE id == IF clientsId[k] = None THEN nextId ELSE clientsId[k]
    <2>1. id \in Short
        OBVIOUS
    <2>2. /\ nextId' \in Short
          /\ clientsId' \in [Keys -> Short \cup {None}]
          /\ known' \in SUBSET Short
        BY <1>1, SuccType DEF RegisterClient, addClient
    <2>3. clientsQueue' \in [Short -> Sessions \cup {None}]
        BY <1>1, <2>1 DEF RegisterClient, QueueAfterRegister
    <2>4. idOf' \in [Sessions -> Short \cup {None}]
        BY <1>1, <2>1 DEF RegisterClient
    <2> QED
        BY <1>1, <2>2, <2>3, <2>4 DEF RegisterClient
<1>2. ASSUME NEW s \in Sessions, Destroy(s)
      PROVE  TypeOK'
    BY <1>2 DEF Destroy, Registered, QueueAfterDestroy
<1>3. ASSUME NEW s \in Sessions, NEW n \in AllNames, SetName(s, n)
      PROVE  TypeOK'
    <2>1. idOf[s] \in Short
        BY <1>3 DEF SetName, Registered
    <2>2. updates' \in [Sessions -> Nat]
        BY <1>3, <2>1, NotifyType DEF SetName
    <2>3. clientsName' \in [AllNames -> Short \cup {None}]
        BY <1>3, <2>1 DEF SetName, NamesAfterRename
    <2> QED
        BY <1>3, <2>1, <2>2, <2>3 DEF SetName
<1>4. ASSUME NEW s \in Sessions, NEW t \in Times, AddPosition(s, t)
      PROVE  TypeOK'
    <2>1. idOf[s] \in Short
        BY <1>4 DEF AddPosition, Registered
    <2>2. updates' \in [Sessions -> Nat]
        BY <1>4, <2>1, NotifyType DEF AddPosition
    <2>3. Append(positions[idOf[s]], t) \in Seq(Times)
        BY <2>1
    <2> QED
        BY <1>4, <2>1, <2>2, <2>3 DEF AddPosition
<1>5. ASSUME NEW s \in Sessions, NEW n \in AllNames, AddFollower(s, n)
      PROVE  TypeOK'
    <2>1. idOf[s] \in Short
        BY <1>5 DEF AddFollower, Registered
    <2>2. PICK f \in NamedId(n) :
              /\ followers' = [followers EXCEPT ![idOf[s]][f] = @ + 1]
              /\ following' = [following EXCEPT ![f][idOf[s]] = Append(@, NewWatcher)]
              /\ updates' = UpdatesAfterFollow(f)
        BY <1>5 DEF AddFollower
    <2>3. f \in Short
        BY NamedIdFacts
    <2>4. NewWatcher \in Watcher
        BY DEF NewWatcher, Watcher, AllNames
    <2>5. following[f][idOf[s]] \in Seq(Watcher)
        BY <2>1, <2>3
    <2>6. Append(following[f][idOf[s]], NewWatcher) \in Seq(Watcher)
        BY <2>4, <2>5
    <2>7. following' \in [Short -> [Short -> Seq(Watcher)]]
        BY <2>1, <2>2, <2>3, <2>6
    <2>8. followers' \in [Short -> [Short -> Nat]]
        <3>1. followers[idOf[s]][f] + 1 \in Nat
            <4>1. followers[idOf[s]] \in [Short -> Nat]
                BY <2>1
            <4>2. followers[idOf[s]][f] \in Nat
                BY <2>3, <4>1
            <4> HIDE DEF TypeOK
            <4> QED
                BY <4>2
        <3>2. [followers[idOf[s]] EXCEPT ![f] = @ + 1] \in [Short -> Nat]
            BY <2>1, <2>3, <3>1
        <3> QED
            BY <2>1, <2>2, <2>3, <3>2
    <2>9. updates' \in [Sessions -> Nat]
        BY <2>2 DEF UpdatesAfterFollow
    <2> QED
        BY <1>5, <2>7, <2>8, <2>9 DEF AddFollower
<1>6. ASSUME NEW a \in Short, NEW b \in Short, Unfollow(a, b)
      PROVE  /\ followers' \in [Short -> [Short -> Nat]]
             /\ following' \in [Short -> [Short -> Seq(Watcher)]]
    BY <1>6, EmptySeq DEF Unfollow
<1>7. ASSUME NEW s \in Sessions, NEW n \in AllNames, RemoveFollower(s, n)
      PROVE  TypeOK'
    <2>1. idOf[s] \in Short
        BY <1>7 DEF RemoveFollower, Registered
    <2>2. PICK f \in NamedId(n) : Unfollow(idOf[s], f)
        BY <1>7 DEF RemoveFollower
    <2>3. f \in Short
        BY NamedIdFacts
    <2> QED
        BY <1>6, <1>7, <2>1, <2>2, <2>3 DEF RemoveFollower
<1>8. ASSUME NEW s \in Sessions, NEW n \in AllNames, StopFollowing(s, n)
      PROVE  TypeOK'
    <2>1. idOf[s] \in Short
        BY <1>8 DEF StopFollowing, Registered
    <2>2. PICK f \in NamedId(n) : Unfollow(f, idOf[s])
        BY <1>8 DEF StopFollowing
    <2>3. f \in Short
        BY NamedIdFacts
    <2> QED
        BY <1>6, <1>8, <2>1, <2>2, <2>3 DEF StopFollowing
<1>9. ASSUME NEW s \in Sessions, Update(s)
      PROVE  TypeOK'
    <2>1. idOf[s] \in Short
        BY <1>9 DEF Update, Registered
    <2>2. SeenAll(idOf[s]) \in [Short -> Seq(Watcher)]
        BY <2>1, SeenAllType
    <2>3. updates' \in [Sessions -> Nat]
        BY <1>9 DEF Update
    <2> QED
        BY <1>9, <2>1, <2>2, <2>3 DEF Update
<1>10. CASE UNCHANGED vars
    BY <1>10 DEF vars
<1> QED
    BY <1>1, <1>2, <1>3, <1>4, <1>5, <1>7, <1>8, <1>9, <1>10 DEF Next

\* Every reachable state is well typed, at every width of short: no operation
\* of ClientDataManager leaves the types of its members.
THEOREM TypeCorrect == Spec => []TypeOK
BY TypeInit, TypeStep, PTL DEF Spec

-----------------------------------------------------------------------------
\* The name maps stay inverse: only SetName touches them.
LEMMA NameIndexStep ==
    ASSUME TypeOK, NameIndex, [Next]_vars
    PROVE  NameIndex'
<1> USE DEF NameIndex, maps, names, follows, session
<1>1. ASSUME NEW s \in Sessions, NEW n \in AllNames, SetName(s, n)
      PROVE  NameIndex'
    <2> DEFINE id == idOf[s]
    <2>1. id \in Short
        BY <1>1 DEF SetName, Registered, TypeOK
    <2>2. /\ clientsName' = NamesAfterRename(id, n)
          /\ name' = [name EXCEPT ![id] = n]
          /\ clientsName[n] = None
        BY <1>1 DEF SetName, NameFree
    <2> SUFFICES ASSUME NEW m \in Names, NEW i \in Short
                 PROVE  clientsName'[m] = i <=> name'[i] = m
        OBVIOUS
    <2>3. m \in AllNames /\ m # EmptyName /\ i # None
        BY NameAssumption, NoneAssumption DEF AllNames
    <2>4. name'[i] = IF i = id THEN n ELSE name[i]
        BY <2>1, <2>2 DEF TypeOK
    <2>5. CASE m = n
        <3>1. clientsName'[m] = id
            BY <2>2, <2>3, <2>5 DEF NamesAfterRename
        <3>2. name[i] # m
            BY <2>2, <2>3, <2>5
        <3> QED
            BY <2>4, <2>5, <3>1, <3>2
    <2>6. CASE m # n /\ m = name[id]
        <3>1. clientsName'[m] = None
            BY <2>2, <2>3, <2>6 DEF NamesAfterRename
        <3>2. clientsName[m] = id
            BY <2>1, <2>6
        <3> QED
            BY <2>3, <2>4, <2>6, <3>1, <3>2
    <2>7. CASE m # n /\ m # name[id]
        <3>1. clientsName'[m] = clientsName[m]
            BY <2>2, <2>3, <2>7 DEF NamesAfterRename
        <3> QED
            BY <2>1, <2>4, <2>7, <3>1
    <2> QED
        BY <2>5, <2>6, <2>7
<1>2. CASE UNCHANGED names
    BY <1>2
<1>3. [Next]_vars =>
        \/ \E s \in Sessions, n \in AllNames : SetName(s, n)
        \/ UNCHANGED names
    BY DEF Next, vars, RegisterClient, Destroy, AddPosition, AddFollower,
           RemoveFollower, StopFollowing, Update
<1> QED
    BY <1>1, <1>2, <1>3

\* The two lists of a pair change together.
LEMMA FollowDualityStep ==
    ASSUME TypeOK, FollowDuality, [Next]_vars
    PROVE  FollowDuality'
<1> USE DEF FollowDuality, maps, names, follows, session
<1>1. ASSUME NEW s \in Sessions, NEW n \in AllNames, AddFollower(s, n)
      PROVE  FollowDuality'
    <2> DEFINE id == idOf[s]
    <2>1. id \in Short
        BY <1>1 DEF AddFollower, Registered, TypeOK
    <2>2. PICK f \in NamedId(n) :
              /\ followers' = [followers EXCEPT ![id][f] = @ + 1]
              /\ following' = [following EXCEPT ![f][id] = Append(@, NewWatcher)]
        BY <1>1 DEF AddFollower
    <2>3. f \in Short
        BY NamedIdFacts
    <2>4. Len(Append(following[f][id], NewWatcher)) = Len(following[f][id]) + 1
        BY <2>1, <2>3 DEF TypeOK
    <2> SUFFICES ASSUME NEW a \in Short, NEW b \in Short
                 PROVE  followers'[b][a] = Len(following'[a][b])
        OBVIOUS
    <2>5. CASE b = id /\ a = f
        <3>1. followers'[b][a] = followers[b][a] + 1
            BY <2>1, <2>2, <2>3, <2>5 DEF TypeOK
        <3>2. following'[a][b] = Append(following[f][id], NewWatcher)
            BY <2>1, <2>2, <2>3, <2>5 DEF TypeOK
        <3> QED
            BY <2>4, <2>5, <3>1, <3>2
    <2>6. CASE ~(b = id /\ a = f)
        BY <2>1, <2>2, <2>3, <2>6 DEF TypeOK
    <2> QED
        BY <2>5, <2>6
<1>2. ASSUME NEW a \in Short, NEW b \in Short, Unfollow(a, b)
      PROVE  FollowDuality'
    BY <1>2, EmptySeq DEF Unfollow, TypeOK
<1>3. ASSUME NEW s \in Sessions, NEW n \in AllNames,
             RemoveFollower(s, n) \/ StopFollowing(s, n)
      PROVE  FollowDuality'
    <2>1. idOf[s] \in Short
        BY <1>3 DEF RemoveFollower, StopFollowing, Registered, TypeOK
    <2>2. PICK f \in NamedId(n) : Unfollow(idOf[s], f) \/ Unfollow(f, idOf[s])
        BY <1>3 DEF RemoveFollower, StopFollowing
    <2>3. f \in Short
        BY NamedIdFacts
    <2> QED
        BY <1>2, <2>1, <2>2, <2>3
<1>4. ASSUME NEW s \in Sessions, Update(s)
      PROVE  FollowDuality'
    <2>1. idOf[s] \in Short
        BY <1>4 DEF Update, Registered, TypeOK
    <2>2. /\ followers' = followers
          /\ following' = [following EXCEPT ![idOf[s]] = SeenAll(idOf[s])]
        BY <1>4 DEF Update
    <2>3. \A b \in Short : Len(SeenAll(idOf[s])[b]) = Len(following[idOf[s]][b])
        BY <2>1, SeenAllType
    <2> QED
        BY <2>1, <2>2, <2>3 DEF TypeOK
<1>5. CASE UNCHANGED follows
    BY <1>5
<1>6. [Next]_vars =>
        \/ \E s \in Sessions, n \in AllNames :
            AddFollower(s, n) \/ RemoveFollower(s, n) \/ StopFollowing(s, n)
        \/ \E s \in Sessions : Update(s)
        \/ UNCHANGED follows
    BY DEF Next, vars, RegisterClient, Destroy, SetName, AddPosition
<1> QED
    BY <1>1, <1>3, <1>4, <1>5, <1>6

\* A positive entry of clientsQueue names the live session of that id.
LEMMA QueueLiveStep ==
    ASSUME TypeOK, QueueLive, [Next]_vars
    PROVE  QueueLive'
<1> USE DEF QueueLive, maps, names, follows, session
<1>1. ASSUME NEW s \in Sessions, NEW k \in Keys, RegisterClient(s, k)
      PROVE  QueueLive'
    <2> DEFINE id == IF clientsId[k] = None THEN nextId ELSE clientsId[k]
    <2>1. id \in Short
        BY DEF TypeOK
    <2>2. /\ idOf[s] = None
          /\ clientsQueue' = QueueAfterRegister(id, s)
          /\ idOf' = [idOf EXCEPT ![s] = id]
        BY <1>1 DEF RegisterClient, Registered
    <2> SUFFICES ASSUME NEW i \in Short, i > 0, clientsQueue'[i] # None
                 PROVE  idOf'[clientsQueue'[i]] = i
        OBVIOUS
    <2>3. CASE i = id /\ clientsQueue[i] = None
        BY <2>1, <2>2, <2>3 DEF QueueAfterRegister, TypeOK
    <2>4. CASE ~(i = id /\ clientsQueue[i] = None)
        <3>1. clientsQueue'[i] = clientsQueue[i]
            BY <2>1, <2>2, <2>4 DEF QueueAfterRegister, TypeOK
        <3>2. idOf[clientsQueue[i]] = i /\ i # None
            BY <3>1, NoneAssumption
        <3>3. clientsQueue[i] # s
            BY <2>2, <3>2
        <3> QED
            BY <2>2, <3>1, <3>2, <3>3 DEF TypeOK
    <2> QED
        BY <2>3, <2>4
<1>2. ASSUME NEW s \in Sessions, Destroy(s)
      PROVE  QueueLive'
    BY <1>2, NoneAssumption DEF Destroy, Registered, QueueAfterDestroy, TypeOK
<1>3. CASE UNCHANGED <<clientsQueue, idOf>>
    BY <1>3
<1>4. [Next]_vars =>
        \/ \E s \in Sessions : Destroy(s) \/ \E k \in Keys : RegisterClient(s, k)
        \/ UNCHANGED <<clientsQueue, idOf>>
    BY DEF Next, vars, SetName, AddPosition, AddFollower, RemoveFollower,
           StopFollowing, Update
<1> QED
    BY <1>1, <1>2, <1>3, <1>4

\* Ids enter the maps and lists only once clientsData has them.
LEMMA IdsKnownStep ==
    ASSUME TypeOK, IdsKnown, FollowDuality, [Next]_vars
    PROVE  IdsKnown'
<1> USE DEF maps, names, follows, session
<1> DEFINE KeysKnown == \A k \in Keys : clientsId[k] # None => clientsId[k] \in known
           NamesKnown == \A n \in AllNames : clientsName[n] # None => clientsName[n] \in known
           SessionsKnown == \A s \in Sessions : Registered(s) => idOf[s] \in known
           ListsKnown == \A a, b \in Short :
               (followers[b][a] > 0 \/ following[a][b] # <<>>) => {a, b} \subseteq known
<1>1. IdsKnown <=> KeysKnown /\ NamesKnown /\ SessionsKnown /\ ListsKnown
    BY DEF IdsKnown
<1>2. IdsKnown' <=> KeysKnown' /\ NamesKnown' /\ SessionsKnown' /\ ListsKnown'
    BY DEF IdsKnown
<1>3. ASSUME NEW s \in Sessions, NEW k \in Keys, RegisterClient(s, k)
      PROVE  IdsKnown'
    <2> DEFINE id == IF clientsId[k] = None THEN nextId ELSE clientsId[k]
    <2>1. known \subseteq known' /\ id \in known'
        BY <1>1, <1>3 DEF RegisterClient, addClient
    <2>2. KeysKnown'
        BY <1>1, <1>3, <2>1 DEF RegisterClient, addClient, TypeOK
    <2>3. SessionsKnown'
        BY <1>1, <1>3, <2>1 DEF RegisterClient, Registered, TypeOK
    <2>4. NamesKnown' /\ ListsKnown'
        BY <1>1, <1>3, <2>1 DEF RegisterClient
    <2> QED
        BY <1>2, <2>2, <2>3, <2>4
<1>4. ASSUME NEW s \in Sessions, Destroy(s)
      PROVE  IdsKnown'
    BY <1>1, <1>2, <1>4 DEF Destroy, Registered, TypeOK
<1>5. ASSUME NEW s \in Sessions, NEW n \in AllNames, SetName(s, n)
      PROVE  IdsKnown'
    <2>1. idOf[s] \in known
        BY <1>1, <1>5 DEF SetName
    <2>2. NamesKnown'
        BY <1>1, <1>5, <2>1 DEF SetName, NamesAfterRename
    <2> QED
        BY <1>1, <1>2, <1>5, <2>2 DEF SetName, Registered
<1>6. ASSUME NEW s \in Sessions, NEW n \in AllNames, AddFollower(s, n)
      PROVE  IdsKnown'
    <2>1. idOf[s] \in Short /\ idOf[s] \in known
        BY <1>1, <1>6 DEF AddFollower, Registered, TypeOK
    <2>2. PICK f \in NamedId(n) :
              /\ followers' = [followers EXCEPT ![idOf[s]][f] = @ + 1]
              /\ following' = [following EXCEPT ![f][idOf[s]] = Append(@, NewWatcher)]
        BY <1>6 DEF AddFollower
    <2>3. f \in Short /\ f \in known
        BY <1>1, NamedIdFacts
    <2>4. known' = known
        BY <1>6 DEF AddFollower
    <2>5. ASSUME NEW a \in Short, NEW b \in Short,
                 followers'[b][a] > 0 \/ following'[a][b] # <<>>
          PROVE  {a, b} \subseteq known
        <3>1. CASE b = idOf[s] /\ a = f
            BY <2>1, <2>3, <3>1
        <3>2. CASE ~(b = idOf[s] /\ a = f)
            <4>1. followers'[b][a] = followers[b][a] /\ following'[a][b] = following[a][b]
                BY <2>1, <2>2, <2>3, <3>2 DEF TypeOK
            <4> QED
                BY <1>1, <2>5, <4>1
        <3> QED
            BY <3>1, <3>2
    <2>6. ListsKnown'
        BY <2>4, <2>5
    <2>7. KeysKnown' /\ NamesKnown' /\ SessionsKnown'
        BY <1>1, <1>6 DEF AddFollower, Registered
    <2> QED
        BY <1>2, <2>6, <2>7
<1>7. ASSUME NEW a \in Short, NEW b \in Short, Unfollow(a, b), known' = known
      PROVE  ListsKnown'
    <2>1. ASSUME NEW c \in Short, NEW d \in Short,
                 followers'[d][c] > 0 \/ following'[c][d] # <<>>
          PROVE  {c, d} \subseteq known
        <3>1. /\ followers' = [followers EXCEPT ![a][b] = 0]
              /\ following' = [following EXCEPT ![b][a] = <<>>]
            BY <1>7 DEF Unfollow
        <3>2. ~(d = a /\ c = b)
            BY <2>1, <3>1 DEF TypeOK
        <3>3. followers'[d][c] = followers[d][c] /\ following'[c][d] = following[c][d]
            BY <3>1, <3>2 DEF TypeOK
        <3> QED
            BY <1>1, <2>1, <3>3
    <2> QED
        BY <1>7, <2>1
<1>8. ASSUME NEW s \in Sessions, NEW n \in AllNames,
             RemoveFollower(s, n) \/ StopFollowing(s, n)
      PROVE  IdsKnown'
    <2>1. idOf[s] \in Short
        BY <1>8 DEF RemoveFollower, StopFollowing, Registered, TypeOK
    <2>2. PICK f \in NamedId(n) : Unfollow(idOf[s], f) \/ Unfollow(f, idOf[s])
        BY <1>8 DEF RemoveFollower, StopFollowing
    <2>3. f \in Short
        BY NamedIdFacts
    <2>4. ListsKnown'
        BY <1>7, <1>8, <2>1, <2>2, <2>3 DEF RemoveFollower, StopFollowing
    <2>5. KeysKnown' /\ NamesKnown' /\ SessionsKnown'
        BY <1>1, <1>8 DEF RemoveFollower, StopFollowing, Registered
    <2> QED
        BY <1>2, <2>4, <2>5
<1>9. ASSUME NEW s \in Sessions, Update(s)
      PROVE  IdsKnown'
    <2>1. /\ known' = known /\ followers' = followers
          /\ KeysKnown' /\ NamesKnown' /\ SessionsKnown'
        BY <1>1, <1>9 DEF Update, Registered
    <2>2. FollowDuality'
        BY <1>9, FollowDualityStep DEF Next
    <2>3. TypeOK'
        BY <1>9, TypeStep DEF Next
    <2>4. ASSUME NEW a \in Short, NEW b \in Short,
                 followers'[b][a] > 0 \/ following'[a][b] # <<>>
          PROVE  {a, b} \subseteq known
        <3>1. followers'[b][a] = Len(following'[a][b])
            BY <2>2 DEF FollowDuality
        <3>2. following'[a][b] \in Seq(Watcher)
            BY <2>3 DEF TypeOK
        <3>3. followers'[b][a] > 0
            BY <2>4, <3>1, <3>2, EmptySeq
        <3> QED
            BY <1>1, <2>1, <3>3
    <2> QED
        BY <1>2, <2>1, <2>4
<1>10. ASSUME NEW s \in Sessions, NEW t \in Times, AddPosition(s, t)
       PROVE  IdsKnown'
    BY <1>1, <1>2, <1>10 DEF AddPosition, Registered
<1>11. CASE UNCHANGED vars
    BY <1>1, <1>2, <1>11 DEF vars, Registered
<1> QED
    BY <1>3, <1>4, <1>5, <1>6, <1>8, <1>9, <1>10, <1>11 DEF Next

-----------------------------------------------------------------------------
\* The inductive invariant.
IInv == TypeOK /\ FollowDuality /\ NameIndex /\ QueueLive /\ IdsKnown

LEMMA IInvInit ==
    ASSUME Init
    PROVE  IInv
<1>1. TypeOK
    BY TypeInit
<1>2. NameIndex
    BY NameAssumption, NoneAssumption DEF Init, NameIndex, AllNames
<1>3. FollowDuality
    BY EmptySeq DEF Init, FollowDuality
<1>4. QueueLive /\ IdsKnown
    BY DEF Init, QueueLive, IdsKnown, Registered
<1> QED
    BY <1>1, <1>2, <1>3, <1>4 DEF IInv

LEMMA IInvStep ==
    ASSUME IInv, [Next]_vars
    PROVE  IInv'
BY TypeStep, FollowDualityStep, NameIndexStep, QueueLiveStep, IdsKnownStep DEF IInv

THEOREM Inductive == Spec => []IInv
BY IInvInit, IInvStep, PTL DEF Spec

\* The follower list of one client and the watcher list of the other agree in
\* every reachable state, for any sequence of follow and unfollow requests.
THEOREM ListsAgree == Spec => []FollowDuality
BY Inductive, PTL DEF IInv

\* A name resolves to the one client that carries it, for any sequence of
\* renames.
THEOREM NamesInverse == Spec => []NameIndex
BY Inductive, PTL DEF IInv

\* No notification goes through the pointer of a destroyed session as long as
\* ids are positive.
THEOREM NoDanglingQueue == Spec => []QueueLive
BY Inductive, PTL DEF IInv

\* No operation looks up an id that clientsData does not have, so the checks
\* that build an exception without throwing it are never taken.
THEOREM LookupsSucceed == Spec => []IdsKnown
BY Inductive, PTL DEF IInv

-----------------------------------------------------------------------------
(* Notification.  Fresh is restated over values, so that it can be used for  *)
(* the state before a step and for the state after it.                       *)

FreshFor(w, n, ps) ==
    n # EmptyName => n = w.name /\ ~(ps # <<>> /\ ps[Len(ps)] > w.time)

Caught(s) == Online(s) /\ caughtUp[s] /\ updates[s] = 0

FollowsFresh(i) ==
    \A b \in Short : \A j \in 1..Len(following[i][b]) :
        FreshFor(following[i][b][j], name[b], positions[b])

\* A session that is gone has no history.
GoneNotCaughtUp == \A s \in Sessions : ~Registered(s) => ~caughtUp[s]

NotifyInv == GoneNotCaughtUp /\ \A s \in Sessions : Caught(s) => FollowsFresh(idOf[s])

LEMMA NotifyInvMeaning == NotifyInv => BehindMeansNotified
BY DEF NotifyInv, Caught, FollowsFresh, FreshFor, BehindMeansNotified, Fresh,
       HasNewName, HasNewPosition, LastTime

\* A notification reaches every caught-up follower: one that still has nothing
\* in its queue has no watcher for i.
LEMMA NotifyReaches ==
    ASSUME TypeOK, FollowDuality, NEW i \in Short, notifyFollowers(i),
           NEW s \in Sessions, Online(s), updates'[s] = 0
    PROVE  /\ updates[s] = 0
           /\ Len(following[idOf[s]][i]) = 0
<1>1. idOf[s] \in Short
    BY DEF Online, Registered, TypeOK
<1>2. updates'[s] = updates[s] + followers[i][idOf[s]]
    BY DEF notifyFollowers, Pushed
<1>3. updates[s] \in Nat /\ followers[i][idOf[s]] \in Nat
    BY <1>1 DEF TypeOK
<1>4. updates[s] = 0 /\ followers[i][idOf[s]] = 0
    BY <1>2, <1>3
<1> QED
    BY <1>1, <1>4 DEF FollowDuality

\* update() leaves nothing behind.
LEMMA SeenIsFresh ==
    ASSUME TypeOK, NEW a \in Short, NEW b \in Short,
           NEW j \in 1..Len(following[a][b])
    PROVE  FreshFor(SeenAll(a)[b][j], name[b], positions[b])
<1> DEFINE w == following[a][b][j]
<1>1. SeenAll(a)[b][j] = Seen(w, b)
    BY DEF SeenAll
<1>2. CASE positions[b] = <<>>
    BY <1>1, <1>2 DEF FreshFor, Seen, HasNewName, HasNewPosition
<1>3. CASE positions[b] # <<>>
    <2>1. positions[b] \in Seq(Times)
        BY DEF TypeOK
    <2>2. Len(positions[b]) \in 1..Len(positions[b])
        BY <1>3, <2>1, EmptySeq
    <2>3. LastTime(b) \in Int
        BY <2>1, <2>2, ElementOfSeq, TimeAssumption DEF LastTime
    <2> QED
        BY <1>1, <1>3, <2>3 DEF FreshFor, Seen, HasNewName, HasNewPosition, LastTime
<1> QED
    BY <1>2, <1>3

LEMMA NotifyStep ==
    ASSUME TypeOK, FollowDuality, NotifyInv, [Next]_vars
    PROVE  NotifyInv'
<1> USE DEF maps, names, follows, session
<1> DEFINE Goal == \A r \in Sessions : Caught(r)' => FollowsFresh(idOf[r])'
<1>1. ASSUME NEW s \in Sessions, NEW k \in Keys, RegisterClient(s, k)
      PROVE  NotifyInv'
    <2> DEFINE id == IF clientsId[k] = None THEN nextId ELSE clientsId[k]
    <2>1. /\ idOf[s] = None
          /\ clientsQueue' = QueueAfterRegister(id, s)
          /\ idOf' = [idOf EXCEPT ![s] = id]
          /\ UNCHANGED <<name, positions, following, updates, caughtUp>>
        BY <1>1 DEF RegisterClient, Registered
    <2>2. id \in Short
        BY DEF TypeOK
    <2>3. ~caughtUp[s]
        BY <2>1 DEF NotifyInv, GoneNotCaughtUp, Registered
    <2>4. ASSUME NEW r \in Sessions, Caught(r)'
          PROVE  Caught(r) /\ idOf'[r] = idOf[r]
        <3>1. r # s
            BY <2>1, <2>3, <2>4 DEF Caught
        <3>2. idOf'[r] = idOf[r] /\ idOf[r] \in Short
            BY <2>1, <2>4, <3>1 DEF Caught, Online, Registered, TypeOK
        <3>3. clientsQueue[idOf[r]] = r
            BY <2>1, <2>2, <2>4, <3>1, <3>2
               DEF Caught, Online, QueueAfterRegister, TypeOK
        <3> QED
            BY <2>1, <2>4, <3>2, <3>3 DEF Caught, Online, Registered
    <2>5. Goal
        BY <2>1, <2>4 DEF NotifyInv, FollowsFresh
    <2>6. GoneNotCaughtUp'
        BY <2>1, <2>2, NoneAssumption
           DEF NotifyInv, GoneNotCaughtUp, Registered, TypeOK
    <2> QED
        BY <2>5, <2>6 DEF NotifyInv
<1>2. ASSUME NEW s \in Sessions, Destroy(s)
      PROVE  NotifyInv'
    <2>1. /\ idOf' = [idOf EXCEPT ![s] = None]
          /\ updates' = [updates EXCEPT ![s] = 0]
          /\ caughtUp' = [caughtUp EXCEPT ![s] = FALSE]
          /\ clientsQueue' = QueueAfterDestroy(s)
          /\ UNCHANGED <<name, positions, following>>
        BY <1>2 DEF Destroy
    <2>2. GoneNotCaughtUp'
        BY <2>1 DEF NotifyInv, GoneNotCaughtUp, Registered, TypeOK
    <2>3. ASSUME NEW r \in Sessions, Caught(r)'
          PROVE  Caught(r) /\ idOf'[r] = idOf[r]
        <3>1. r # s
            BY <2>1, <2>3 DEF Caught, TypeOK
        <3>2. idOf'[r] = idOf[r] /\ idOf[r] \in Short
            BY <2>1, <2>3, <3>1 DEF Caught, Online, Registered, TypeOK
        <3>3. r # None
            BY NoneAssumption
        <3>4. clientsQueue[idOf[r]] = r
            BY <2>1, <2>3, <3>2, <3>3 DEF Caught, Online, QueueAfterDestroy, TypeOK
        <3> QED
            BY <2>1, <2>3, <3>1, <3>2, <3>4 DEF Caught, Online, Registered, TypeOK
    <2>4. Goal
        BY <2>1, <2>3 DEF NotifyInv, FollowsFresh
    <2> QED
        BY <2>2, <2>4 DEF NotifyInv
<1>3. ASSUME NEW i \in Short, notifyFollowers(i),
             UNCHANGED <<following, clientsQueue, idOf, caughtUp>>,
             \A b \in Short : b # i => name'[b] = name[b] /\ positions'[b] = positions[b]
      PROVE  NotifyInv'
    <2>1. GoneNotCaughtUp'
        BY <1>3 DEF NotifyInv, GoneNotCaughtUp, Registered
    <2>2. ASSUME NEW r \in Sessions, Caught(r)'
          PROVE  FollowsFresh(idOf[r])'
        <3>1. Online(r) /\ caughtUp[r] /\ updates'[r] = 0
            BY <1>3, <2>2 DEF Caught, Online, Registered
        <3>2. updates[r] = 0 /\ Len(following[idOf[r]][i]) = 0
            BY <1>3, <3>1, NotifyReaches
        <3>3. FollowsFresh(idOf[r])
            BY <3>1, <3>2 DEF NotifyInv, Caught
        <3> QED
            BY <1>3, <3>2, <3>3 DEF FollowsFresh
    <2> QED
        BY <2>1, <2>2 DEF NotifyInv
<1>4. ASSUME NEW s \in Sessions, NEW n \in AllNames, SetName(s, n)
      PROVE  NotifyInv'
    BY <1>3, <1>4 DEF SetName, Registered, TypeOK
<1>5. ASSUME NEW s \in Sessions, NEW t \in Times, AddPosition(s, t)
      PROVE  NotifyInv'
    BY <1>3, <1>5 DEF AddPosition, Registered, TypeOK
<1>6. ASSUME NEW s \in Sessions, NEW n \in AllNames, AddFollower(s, n)
      PROVE  NotifyInv'
    <2>1. idOf[s] \in Short
        BY <1>6 DEF AddFollower, Registered, TypeOK
    <2>2. PICK f \in NamedId(n) :
              /\ following' = [following EXCEPT ![f][idOf[s]] = Append(@, NewWatcher)]
              /\ updates' = UpdatesAfterFollow(f)
        BY <1>6 DEF AddFollower
    <2>3. f \in Short /\ UNCHANGED <<clientsQueue, idOf, caughtUp, name, positions>>
        BY <1>6, NamedIdFacts DEF AddFollower
    <2>4. GoneNotCaughtUp'
        BY <2>3 DEF NotifyInv, GoneNotCaughtUp, Registered
    <2>5. ASSUME NEW r \in Sessions, Caught(r)'
          PROVE  FollowsFresh(idOf[r])'
        <3>1. Online(r) /\ caughtUp[r] /\ updates'[r] = 0 /\ idOf[r] \in Short
            BY <2>3, <2>5 DEF Caught, Online, Registered, TypeOK
        <3>2. idOf[r] # f /\ updates[r] = 0
            BY <2>2, <3>1 DEF UpdatesAfterFollow, TypeOK
        <3>3. FollowsFresh(idOf[r])
            BY <3>1, <3>2 DEF NotifyInv, Caught
        <3>4. following'[idOf[r]] = following[idOf[r]]
            BY <2>2, <3>1, <3>2 DEF TypeOK
        <3> QED
            BY <2>3, <3>3, <3>4 DEF FollowsFresh
    <2> QED
        BY <2>4, <2>5 DEF NotifyInv
<1>7. ASSUME NEW a \in Short, NEW b \in Short, Unfollow(a, b),
             UNCHANGED <<clientsQueue, idOf, caughtUp, updates, name, positions>>
      PROVE  NotifyInv'
    <2>1. following' = [following EXCEPT ![b][a] = <<>>]
        BY <1>7 DEF Unfollow
    <2>2. GoneNotCaughtUp'
        BY <1>7 DEF NotifyInv, GoneNotCaughtUp, Registered
    <2>3. ASSUME NEW r \in Sessions, Caught(r)'
          PROVE  FollowsFresh(idOf[r])'
        <3>1. Caught(r) /\ idOf[r] \in Short
            BY <1>7, <2>3 DEF Caught, Online, Registered, TypeOK
        <3>2. FollowsFresh(idOf[r])
            BY <3>1 DEF NotifyInv
        <3>3. ASSUME NEW c \in Short, NEW j \in 1..Len(following'[idOf[r]][c])
              PROVE  /\ j \in 1..Len(following[idOf[r]][c])
                     /\ following'[idOf[r]][c][j] = following[idOf[r]][c][j]
            <4>1. ~(idOf[r] = b /\ c = a)
                BY <2>1, <3>1, <3>3, EmptySeq DEF TypeOK
            <4>2. following'[idOf[r]][c] = following[idOf[r]][c]
                BY <2>1, <3>1, <4>1 DEF TypeOK
            <4> QED
                BY <3>3, <4>2
        <3> QED
            BY <1>7, <3>2, <3>3 DEF FollowsFresh
    <2> QED
        BY <2>2, <2>3 DEF NotifyInv
<1>8. ASSUME NEW s \in Sessions, NEW n \in AllNames,
             RemoveFollower(s, n) \/ StopFollowing(s, n)
      PROVE  NotifyInv'
    <2>1. idOf[s] \in Short
        BY <1>8 DEF RemoveFollower, StopFollowing, Registered, TypeOK
    <2>2. PICK f \in NamedId(n) : Unfollow(idOf[s], f) \/ Unfollow(f, idOf[s])
        BY <1>8 DEF RemoveFollower, StopFollowing
    <2>3. f \in Short
        BY NamedIdFacts
    <2>4. UNCHANGED <<clientsQueue, idOf, caughtUp, updates, name, positions>>
        BY <1>8 DEF RemoveFollower, StopFollowing
    <2> QED
        BY <1>7, <2>1, <2>2, <2>3, <2>4
<1>9. ASSUME NEW s \in Sessions, Update(s)
      PROVE  NotifyInv'
    <2> DEFINE id == idOf[s]
    <2>1. id \in Short
        BY <1>9 DEF Update, Registered, TypeOK
    <2>2. /\ following' = [following EXCEPT ![id] = SeenAll(id)]
          /\ updates' = [updates EXCEPT ![s] = @ - 1]
          /\ caughtUp' = [caughtUp EXCEPT ![s] = TRUE]
          /\ UNCHANGED <<clientsQueue, idOf, name, positions>>
        BY <1>9 DEF Update
    <2>3. GoneNotCaughtUp'
        BY <1>9, <2>2 DEF NotifyInv, GoneNotCaughtUp, Update, Registered, TypeOK
    <2>4. ASSUME NEW r \in Sessions, Caught(r)'
          PROVE  FollowsFresh(idOf[r])'
        <3>1. idOf[r] \in Short /\ Online(r)
            BY <2>2, <2>4 DEF Caught, Online, Registered, TypeOK
        <3>2. CASE idOf[r] = id
            <4>1. following'[id] = SeenAll(id)
                BY <2>1, <2>2 DEF TypeOK
            <4>2. \A b \in Short : Len(SeenAll(id)[b]) = Len(following[id][b])
                BY <2>1, SeenAllType
            <4> QED
                BY <2>1, <2>2, <3>2, <4>1, <4>2, SeenIsFresh DEF FollowsFresh
        <3>3. CASE idOf[r] # id
            <4>1. Caught(r)
                BY <2>2, <2>4, <3>1, <3>3 DEF Caught, TypeOK
            <4>2. following'[idOf[r]] = following[idOf[r]]
                BY <2>1, <2>2, <3>1, <3>3 DEF TypeOK
            <4> QED
                BY <2>2, <4>1, <4>2 DEF NotifyInv, FollowsFresh
        <3> QED
            BY <3>2, <3>3
    <2> QED
        BY <2>3, <2>4 DEF NotifyInv
<1>10. CASE UNCHANGED vars
    BY <1>10 DEF vars, NotifyInv, GoneNotCaughtUp, Caught, Online, Registered, FollowsFresh
<1> QED
    BY <1>1, <1>2, <1>4, <1>5, <1>6, <1>8, <1>9, <1>10 DEF Next

\* A session that has handled an Update is never behind again without another
\* Update in its queue, however the calls of all sessions interleave.
THEOREM NobodyForgotten == Spec => []BehindMeansNotified
<1>1. Init => IInv /\ NotifyInv
    BY IInvInit DEF Init, NotifyInv, GoneNotCaughtUp, Caught
<1>2. IInv /\ NotifyInv /\ [Next]_vars => (IInv /\ NotifyInv)'
    BY IInvStep, NotifyStep DEF IInv
<1>3. Spec => [](IInv /\ NotifyInv)
    BY <1>1, <1>2, PTL DEF Spec
<1> QED
    BY <1>3, NotifyInvMeaning, PTL

-----------------------------------------------------------------------------
(* What a single call may never do *)

LEMMA RenameKeepsNames ==
    ASSUME IInv, [Next]_vars, NEW n \in Names, clientsName[n] # None
    PROVE  \/ clientsName'[n] = clientsName[n]
           \/ clientsName'[n] = None /\ name'[clientsName[n]] # n
<1>1. ASSUME NEW s \in Sessions, NEW m \in AllNames, SetName(s, m)
      PROVE  \/ clientsName'[n] = clientsName[n]
             \/ clientsName'[n] = None /\ name'[clientsName[n]] # n
    <2> DEFINE id == idOf[s]
    <2>1. /\ id \in Short /\ n \in AllNames /\ n # EmptyName
          /\ clientsName' = NamesAfterRename(id, m) /\ name' = [name EXCEPT ![id] = m]
          /\ n # m
        BY <1>1, NameAssumption DEF SetName, NameFree, Registered, IInv, TypeOK, AllNames
    <2>2. CASE n = name[id]
        <3>1. clientsName'[n] = None
            BY <2>1, <2>2 DEF NamesAfterRename
        <3>2. clientsName[n] = id
            BY <2>1, <2>2 DEF IInv, NameIndex
        <3>3. name'[id] = m
            BY <2>1 DEF IInv, TypeOK
        <3> QED
            BY <2>1, <3>1, <3>2, <3>3
    <2>3. CASE n # name[id]
        BY <2>1, <2>3 DEF NamesAfterRename
    <2> QED
        BY <2>2, <2>3
<1>2. CASE UNCHANGED clientsName
    BY <1>2
<1>3. [Next]_vars =>
        \/ \E s \in Sessions, m \in AllNames : SetName(s, m)
        \/ UNCHANGED clientsName
    BY DEF Next, vars, names, follows, session, RegisterClient, Destroy, AddPosition, AddFollower,
           RemoveFollower, StopFollowing, Update
<1> QED
    BY <1>1, <1>2, <1>3

\* No call of setName takes a name from a client other than its own: a name is free in
\* between, for any number of clients and names.
THEOREM NamesKept == Spec => NameNotStolen
<1>1. IInv /\ [Next]_vars =>
        [\A n \in Names :
            clientsName[n] # None =>
                \/ clientsName'[n] = clientsName[n]
                \/ clientsName'[n] = None /\ name'[clientsName[n]] # n]_vars
    BY RenameKeepsNames
<1> QED
    BY <1>1, Inductive, PTL DEF Spec, NameNotStolen

\* One watcher before and after update().
LEMMA SeenIsLater ==
    ASSUME TypeOK, NEW a \in Short, NEW b \in Short, NEW j \in 1..Len(following[a][b])
    PROVE  SeenAll(a)[b][j].time >= following[a][b][j].time
<1> DEFINE w == following[a][b][j]
<1>1. SeenAll(a)[b][j] = Seen(w, b)
    BY DEF SeenAll
<1>2. w.time \in Int
    <2>1. following[a][b] \in Seq(Watcher)
        BY DEF TypeOK
    <2>2. w \in Watcher
        BY <2>1, ElementOfSeq
    <2> QED
        BY <2>2 DEF Watcher
<1>3. CASE HasNewPosition(w, b)
    <2>1. positions[b] \in Seq(Times) /\ positions[b] # <<>> /\ LastTime(b) > w.time
        BY <1>3 DEF TypeOK, HasNewPosition
    <2>2. Len(positions[b]) \in 1..Len(positions[b])
        BY <2>1, EmptySeq
    <2>3. LastTime(b) \in Int
        BY <2>1, <2>2, ElementOfSeq, TimeAssumption DEF LastTime
    <2> QED
        BY <1>1, <1>2, <1>3, <2>1, <2>3 DEF Seen
<1>4. CASE ~HasNewPosition(w, b)
    BY <1>1, <1>2, <1>4 DEF Seen
<1> QED
    BY <1>3, <1>4

LEMMA WatchersGoOn ==
    ASSUME TypeOK, [Next]_vars, NEW a \in Short, NEW b \in Short,
           Len(following'[a][b]) >= Len(following[a][b]), NEW j \in 1..Len(following[a][b])
    PROVE  following'[a][b][j].time >= following[a][b][j].time
<1>1. /\ following[a][b] \in Seq(Watcher) /\ Len(following[a][b]) \in Nat
      /\ following[a][b][j].time \in Int /\ following[a][b][j].time >= following[a][b][j].time
    <2>1. following[a][b] \in Seq(Watcher)
        BY DEF TypeOK
    <2>2. following[a][b][j] \in Watcher
        BY <2>1, ElementOfSeq
    <2>3. following[a][b][j].time \in Int
        BY <2>2 DEF Watcher
    <2> QED
        BY <2>1, <2>3, LenProperties
<1>2. ASSUME following'[a][b] = following[a][b]
      PROVE  following'[a][b][j].time >= following[a][b][j].time
    BY <1>1, <1>2
<1>3. ASSUME NEW s \in Sessions, NEW n \in AllNames, AddFollower(s, n)
      PROVE  following'[a][b][j].time >= following[a][b][j].time
    <2>1. PICK f \in NamedId(n) : following' = [following EXCEPT ![f][idOf[s]] = Append(@, NewWatcher)]
        BY <1>3 DEF AddFollower
    <2>2. CASE a = f /\ b = idOf[s]
        <3>1. following'[a][b] = Append(following[a][b], NewWatcher)
            BY <2>1, <2>2 DEF TypeOK
        <3>2. following'[a][b][j] = following[a][b][j]
            BY <1>1, <3>1, AppendProperties
        <3> QED
            BY <1>1, <3>2
    <2>3. CASE ~(a = f /\ b = idOf[s])
        <3>1. following'[a][b] = following[a][b]
            BY <2>1, <2>3 DEF TypeOK
        <3> QED
            BY <1>2, <3>1
    <2> QED
        BY <2>2, <2>3
<1>4. ASSUME NEW c, NEW d, Unfollow(c, d)
      PROVE  following'[a][b][j].time >= following[a][b][j].time
    <2>1. following' = [following EXCEPT ![d][c] = <<>>]
        BY <1>4 DEF Unfollow
    <2>2. CASE a = d /\ b = c
        <3>1. following'[a][b] = <<>>
            BY <2>1, <2>2 DEF TypeOK
        <3> QED
            BY <1>1, <3>1
    <2>3. CASE ~(a = d /\ b = c)
        <3>1. following'[a][b] = following[a][b]
            BY <2>1, <2>3 DEF TypeOK
        <3> QED
            BY <1>2, <3>1
    <2> QED
        BY <2>2, <2>3
<1>5. ASSUME NEW s \in Sessions, Update(s)
      PROVE  following'[a][b][j].time >= following[a][b][j].time
    <2>1. following' = [following EXCEPT ![idOf[s]] = SeenAll(idOf[s])]
        BY <1>5 DEF Update
    <2>2. CASE a = idOf[s]
        <3>1. following'[a] = SeenAll(a)
            BY <2>1, <2>2 DEF TypeOK
        <3> QED
            BY <3>1, SeenIsLater
    <2>3. CASE a # idOf[s]
        <3>1. following'[a][b] = following[a][b]
            BY <2>1, <2>3 DEF TypeOK
        <3> QED
            BY <1>2, <3>1
    <2> QED
        BY <2>2, <2>3
<1>6. [Next]_vars =>
        \/ \E s \in Sessions, n \in AllNames : AddFollower(s, n)
        \/ \E c, d : Unfollow(c, d)
        \/ \E s \in Sessions : Update(s)
        \/ UNCHANGED following
    BY DEF Next, vars, names, follows, session, RegisterClient, Destroy, SetName, AddPosition,
           RemoveFollower, StopFollowing
<1> QED
    BY <1>2, <1>3, <1>4, <1>5, <1>6

\* As long as a client keeps a watcher, update() never takes it back in time, whatever
\* times the positions carry and in whichever order they are reported.
THEOREM TimesGrow == Spec => WatcherTimeGrows
<1>1. TypeOK /\ [Next]_vars =>
        [\A a, b \in Short :
            Len(following'[a][b]) >= Len(following[a][b]) =>
                \A j \in 1..Len(following[a][b]) :
                    following'[a][b][j].time >= following[a][b][j].time]_vars
    BY WatchersGoOn
<1> QED
    BY <1>1, TypeCorrect, PTL DEF Spec, WatcherTimeGrows

-----------------------------------------------------------------------------
(* The invariant of an archive *)

ListsOf(a) == \A i, j \in Short : a.followers[j][i] = Len(a.following[i][j])
NamesOf(a) == \A n \in Names, i \in Short : a.clientsName[n] = i <=> a.name[i] = n
KnownOf(a) ==
    /\ \A k \in Keys : a.clientsId[k] # None => a.clientsId[k] \in a.known
    /\ \A n \in AllNames : a.clientsName[n] # None => a.clientsName[n] \in a.known
    /\ \A i, j \in Short :
        (a.followers[j][i] > 0 \/ a.following[i][j] # <<>>) => {i, j} \subseteq a.known

Sound(a) == a \in Archives /\ ListsOf(a) /\ NamesOf(a) /\ KnownOf(a)

\* Ids are given out in order as long as there are some: the n clients that have
\* one have the first n, and different ones.
WithId(ids) == {k \in Keys : ids[k] # None}
IdsCounted(ids, next) ==
    LET n == Cardinality(WithId(ids)) IN
    Cardinality(Keys) <= ShortMax =>
        /\ \A k \in WithId(ids) : ids[k] \in 1..n
        /\ \A j, k \in WithId(ids) : j # k => ids[j] # ids[k]
        /\ n < ShortMax => next = n + 1

LEMMA EmptySound == Sound(EmptyArchive)
<1> DEFINE e == EmptyArchive
<1>1. 1 \in Short
    BY ShortAssumption DEF Short
<1>2. e \in Archives
    BY <1>1 DEF EmptyArchive, Archives, AllNames
<1>3. ListsOf(e)
    BY EmptySeq DEF EmptyArchive, ListsOf
<1>4. NamesOf(e)
    BY NameAssumption, NoneAssumption DEF EmptyArchive, NamesOf, AllNames
<1>5. KnownOf(e)
    BY DEF EmptyArchive, KnownOf
<1> QED
    BY <1>2, <1>3, <1>4, <1>5 DEF Sound

LEMMA EmptyCounted == IdsCounted(EmptyArchive.clientsId, EmptyArchive.nextId)
<1>1. WithId(EmptyArchive.clientsId) = {}
    BY DEF WithId, EmptyArchive
<1>2. Cardinality({}) = 0
    BY FS_EmptySet
<1> QED
    BY <1>1, <1>2 DEF IdsCounted, EmptyArchive

\* Writing: the archive of a sound memory is sound.
LEMMA ArchiveIsSound ==
    ASSUME IInv
    PROVE  Sound(Archive)
<1>1. Archive \in Archives
    BY DEF IInv, TypeOK, Archive, Archives
<1>2. ListsOf(Archive) /\ NamesOf(Archive)
    BY DEF IInv, FollowDuality, NameIndex, Archive, ListsOf, NamesOf
<1>3. KnownOf(Archive)
    BY DEF IInv, IdsKnown, Archive, KnownOf
<1> QED
    BY <1>1, <1>2, <1>3 DEF Sound

\* Loading: a sound archive makes a sound memory.
LEMMA MemoryIsSound ==
    ASSUME NEW a, Sound(a), Memory(a)
    PROVE  IInv'
<1>1. TypeOK'
    <2>1. /\ nextId' \in Short /\ clientsId' \in [Keys -> Short \cup {None}]
          /\ clientsName' \in [AllNames -> Short \cup {None}]
          /\ known' \in SUBSET Short /\ name' \in [Short -> AllNames]
          /\ positions' \in [Short -> Seq(Times)]
          /\ followers' \in [Short -> [Short -> Nat]]
          /\ following' \in [Short -> [Short -> Seq(Watcher)]]
        BY DEF Sound, Archives, Memory
    <2>2. /\ clientsQueue' \in [Short -> Sessions \cup {None}]
          /\ idOf' \in [Sessions -> Short \cup {None}]
          /\ updates' \in [Sessions -> Nat]
          /\ caughtUp' \in [Sessions -> BOOLEAN]
        BY DEF Memory
    <2> QED
        BY <2>1, <2>2 DEF TypeOK
<1>2. FollowDuality' /\ NameIndex'
    BY DEF Sound, ListsOf, NamesOf, Memory, FollowDuality, NameIndex
<1>3. QueueLive'
    BY DEF Memory, QueueLive
<1>4. IdsKnown'
    BY DEF Sound, KnownOf, Memory, IdsKnown, Registered
<1> QED
    BY <1>1, <1>2, <1>3, <1>4 DEF IInv

-----------------------------------------------------------------------------
(* Ids within a run *)

\* A session that registers a new key takes the next id; nothing else gives one.
LEMMA IdsCountedStep ==
    ASSUME TypeOK, IdsCounted(clientsId, nextId), [Next]_vars
    PROVE  IdsCounted(clientsId, nextId)'
<1>1. ASSUME UNCHANGED maps
      PROVE  IdsCounted(clientsId, nextId)'
    BY <1>1 DEF maps, IdsCounted, WithId
<1>2. ASSUME NEW s \in Sessions, NEW k \in Keys, RegisterClient(s, k)
      PROVE  IdsCounted(clientsId, nextId)'
    <2>1. CASE clientsId[k] # None
        BY <1>1, <1>2, <2>1 DEF RegisterClient
    <2>2. CASE clientsId[k] = None
        <3> DEFINE old == WithId(clientsId)
                   n == Cardinality(old)
        <3>1. clientsId' = [clientsId EXCEPT ![k] = nextId] /\ nextId' = Succ(nextId)
            BY <1>2, <2>2 DEF RegisterClient, addClient
        <3>2. nextId \in Short /\ nextId # None /\ clientsId \in [Keys -> Short \cup {None}]
            BY NoneAssumption DEF TypeOK
        <3>3. WithId(clientsId') = old \cup {k} /\ k \notin old
            BY <2>2, <3>1, <3>2 DEF WithId
        <3>4. IsFiniteSet(Keys) /\ IsFiniteSet(old) /\ old \subseteq Keys
            BY RestartAssumption, FS_Subset DEF WithId
        <3>5. IsFiniteSet(old \cup {k}) /\ old \cup {k} \subseteq Keys
            BY <3>4, FS_AddElement
        <3>6. n \in Nat /\ Cardinality(old \cup {k}) = n + 1
            BY <3>3, <3>4, FS_AddElement, FS_CardinalityType
        <3>7. n + 1 <= Cardinality(Keys) /\ Cardinality(Keys) \in Nat
            BY <3>4, <3>5, <3>6, FS_Subset, FS_CardinalityType
        <3>8. SUFFICES ASSUME Cardinality(Keys) <= ShortMax
                       PROVE  /\ \A j \in old \cup {k} : clientsId'[j] \in 1..(n + 1)
                              /\ \A i, j \in old \cup {k} : i # j => clientsId'[i] # clientsId'[j]
                              /\ n + 1 < ShortMax => nextId' = n + 2
            BY <3>3, <3>6 DEF IdsCounted
        <3>9. n < ShortMax /\ nextId = n + 1
            BY <3>6, <3>7, <3>8, ShortAssumption DEF IdsCounted
        <3>10. /\ \A j \in old : clientsId[j] \in 1..n
               /\ \A i, j \in old : i # j => clientsId[i] # clientsId[j]
            BY <3>8 DEF IdsCounted
        <3>11. \A j \in old : clientsId'[j] = clientsId[j]
            BY <3>1, <3>2, <3>3, <3>4
        <3>12. clientsId'[k] = n + 1
            BY <3>1, <3>2, <3>9
        <3>13. \A j \in old \cup {k} : clientsId'[j] \in 1..(n + 1)
            BY <3>6, <3>10, <3>11, <3>12
        <3>14. \A i, j \in old \cup {k} : i # j => clientsId'[i] # clientsId'[j]
            BY <3>6, <3>10, <3>11, <3>12
        <3>15. n + 1 < ShortMax => nextId' = n + 2
            BY <3>1, <3>6, <3>9, ShortAssumption DEF Succ
        <3> QED
            BY <3>13, <3>14, <3>15
    <2> QED
        BY <2>1, <2>2
<1>3. ASSUME NEW s \in Sessions, Destroy(s)
      PROVE  IdsCounted(clientsId, nextId)'
    BY <1>1, <1>3 DEF Destroy
<1>4. ASSUME NEW s \in Sessions, NEW n \in AllNames,
             SetName(s, n) \/ AddFollower(s, n) \/ RemoveFollower(s, n) \/ StopFollowing(s, n)
      PROVE  IdsCounted(clientsId, nextId)'
    BY <1>1, <1>4 DEF SetName, AddFollower, RemoveFollower, StopFollowing
<1>5. ASSUME NEW s \in Sessions, NEW t \in Times, AddPosition(s, t)
      PROVE  IdsCounted(clientsId, nextId)'
    BY <1>1, <1>5 DEF AddPosition
<1>6. ASSUME NEW s \in Sessions, Update(s)
      PROVE  IdsCounted(clientsId, nextId)'
    BY <1>1, <1>6 DEF Update
<1>7. CASE UNCHANGED vars
    BY <1>1, <1>7 DEF vars
<1> QED
    BY <1>2, <1>3, <1>4, <1>5, <1>6, <1>7 DEF Next

-----------------------------------------------------------------------------
(* The invariant across runs *)

MemoryInv == IInv /\ IdsCounted(clientsId, nextId)

Whole(f) == Sound(f) /\ IdsCounted(f.clientsId, f.nextId)
FileInv == file \in {None, Torn} \/ Whole(file)

RInv == RestartTypeOK /\ MemoryInv /\ FileInv

LEMMA LoadedIsWhole ==
    ASSUME FileInv
    PROVE  Whole(Loaded(file))
BY EmptySound, EmptyCounted DEF FileInv, Loaded, Whole

LEMMA MemoryOfWhole ==
    ASSUME NEW a, Whole(a), Memory(a)
    PROVE  MemoryInv'
<1>1. IInv'
    BY MemoryIsSound DEF Whole
<1>2. IdsCounted(clientsId, nextId)'
    BY DEF Whole, Memory, IdsCounted, WithId
<1> QED
    BY <1>1, <1>2 DEF MemoryInv

LEMMA MemoryStep ==
    ASSUME MemoryInv, [Next]_vars
    PROVE  MemoryInv'
BY IInvStep, IdsCountedStep DEF MemoryInv, IInv

\* A process that ends leaves an empty memory.
LEMMA StopKeeps ==
    ASSUME Stop
    PROVE  MemoryInv' /\ phase' = "down" /\ UNCHANGED starts
BY MemoryOfWhole, EmptySound, EmptyCounted DEF Stop, Whole

LEMMA RInvInit ==
    ASSUME RestartInit
    PROVE  RInv
<1>1. IInv
    BY IInvInit DEF RestartInit
<1>2. clientsId = EmptyArchive.clientsId /\ nextId = EmptyArchive.nextId
    BY DEF RestartInit, Init, EmptyArchive
<1>3. IdsCounted(clientsId, nextId)
    BY <1>2, EmptyCounted
<1>4. RestartTypeOK /\ FileInv
    BY RestartAssumption DEF RestartInit, RestartTypeOK, Phases, FileInv
<1> QED
    BY <1>1, <1>3, <1>4 DEF RInv, MemoryInv

LEMMA RInvStep ==
    ASSUME RInv, [RestartNext]_restartVars
    PROVE  RInv'
<1> USE DEF RInv
<1>1. ASSUME MemoryInv', phase' \in Phases, UNCHANGED <<file, starts>>
      PROVE  RInv'
    BY <1>1 DEF RestartTypeOK, FileInv
<1>2. CASE Start
    <2>1. MemoryInv'
        BY <1>2, LoadedIsWhole, MemoryOfWhole DEF Start
    <2>2. RestartTypeOK'
        BY <1>2, RestartAssumption DEF Start, RestartTypeOK, Phases
    <2>3. FileInv'
        BY <1>2 DEF Start, FileInv
    <2> QED
        BY <2>1, <2>2, <2>3
<1>3. CASE Serve
    <2>1. MemoryInv'
        BY <1>3, MemoryStep DEF Serve
    <2> QED
        BY <1>1, <1>3, <2>1 DEF Serve, process, RestartTypeOK
<1>4. CASE Leave
    <2>1. MemoryInv'
        BY <1>4, MemoryStep DEF Leave
    <2> QED
        BY <1>1, <1>4, <2>1 DEF Leave, Phases
<1>5. ASSUME NEW s \in Sessions, DestroyLeft(s)
      PROVE  RInv'
    <2>1. MemoryInv'
        BY <1>5, MemoryStep DEF DestroyLeft, Next
    <2> QED
        BY <1>1, <1>5, <2>1 DEF DestroyLeft, process, RestartTypeOK
<1>6. CASE Open
    <2>1. CASE phase' = "saving" /\ file' = Torn /\ UNCHANGED <<vars, starts, saved>>
        <3>1. MemoryInv'
            BY <2>1, MemoryStep
        <3>2. RestartTypeOK' /\ FileInv'
            BY <2>1 DEF RestartTypeOK, FileInv, Phases
        <3> QED
            BY <3>1, <3>2
    <2>2. CASE Stop /\ UNCHANGED <<file, saved>>
        BY <1>1, <2>2, StopKeeps DEF Phases
    <2> QED
        BY <1>6, <2>1, <2>2 DEF Open
<1>7. CASE Save
    <2>1. MemoryInv' /\ phase' = "down" /\ UNCHANGED starts /\ file' = Archive
        BY <1>7, StopKeeps DEF Save
    <2>2. Whole(Archive)
        BY ArchiveIsSound DEF MemoryInv, Whole, Archive
    <2>3. FileInv'
        BY <2>1, <2>2 DEF FileInv
    <2>4. RestartTypeOK'
        BY <2>1, <2>2 DEF RestartTypeOK, Phases, Whole, Sound
    <2> QED
        BY <2>1, <2>3, <2>4
<1>8. CASE Crash
    BY <1>1, <1>8, StopKeeps DEF Crash, Phases
<1>9. CASE UNCHANGED restartVars
    <2>1. MemoryInv'
        BY <1>9, MemoryStep DEF restartVars
    <2> QED
        BY <1>1, <1>9, <2>1 DEF restartVars, process, RestartTypeOK
<1> QED
    BY <1>2, <1>3, <1>4, <1>5, <1>6, <1>7, <1>8, <1>9 DEF RestartNext

\* The database that comes back is as sound as the one that was saved, in every
\* run of the server and whatever happened to the file in between.
THEOREM SoundAcrossRuns == RestartSpec => []DatabaseSound
<1>1. RInv => DatabaseSound
    BY DEF RInv, MemoryInv, IInv, DatabaseSound
<1> QED
    BY <1>1, RInvInit, RInvStep, PTL DEF RestartSpec

\* Two keys never get one id, in any run, as long as there are as many ids as
\* clients: the counter is in the archive with the map.
THEOREM IdsUniqueAcrossRuns == RestartSpec => []IdsUnique
<1>1. RInv => IdsUnique
    BY DEF RInv, MemoryInv, IdsCounted, WithId, IdsUnique
<1> QED
    BY <1>1, RInvInit, RInvStep, PTL DEF RestartSpec

-----------------------------------------------------------------------------
(* What a run starts with *)

Content(a) == <<a.nextId, a.clientsId, a.clientsName, a.known, a.name, a.positions,
                a.followers, a.following>>

\* A file that is whole is the one that was saved last.
FileIsSaved ==
    IF saved = {} THEN file \in {None, Torn}
    ELSE file = Torn \/ (file \notin {None, Torn} /\ saved = {Content(file)})

LEMMA FileIsSavedStep ==
    ASSUME RInv, FileIsSaved, [RestartNext]_restartVars
    PROVE  FileIsSaved'
<1>1. ASSUME UNCHANGED <<file, saved>>
      PROVE  FileIsSaved'
    BY <1>1 DEF FileIsSaved
<1>2. CASE Open
    BY <1>1, <1>2 DEF Open, FileIsSaved
<1>3. CASE Save
    <2>1. Archive \in Archives
        BY ArchiveIsSound DEF RInv, MemoryInv, Sound
    <2>2. Content(Archive) = database
        BY DEF Content, Archive, database
    <2> QED
        BY <1>3, <2>1, <2>2, RestartAssumption DEF Save, FileIsSaved
<1>4. CASE Start \/ Serve \/ Leave \/ Crash \/ \E s \in Sessions : DestroyLeft(s)
    BY <1>1, <1>4 DEF Start, Serve, Leave, Crash, DestroyLeft, process
<1>5. CASE UNCHANGED restartVars
    BY <1>1, <1>5 DEF restartVars, process
<1> QED
    BY <1>2, <1>3, <1>4, <1>5 DEF RestartNext

LEMMA StartLoadsSaved ==
    ASSUME FileIsSaved, [RestartNext]_restartVars, phase = "down", phase' = "serving"
    PROVE  IF saved = {} \/ file = Torn THEN known' = {} /\ nextId' = 1
           ELSE saved = {database'}
<1>1. Memory(Loaded(file))
    BY DEF RestartNext, Start, Serve, Leave, Open, Save, Crash, DestroyLeft, Stop, process,
           restartVars
<1>2. CASE saved = {} \/ file = Torn
    BY <1>1, <1>2 DEF FileIsSaved, Loaded, EmptyArchive, Memory
<1>3. CASE saved # {} /\ file # Torn
    <2>1. Loaded(file) = file /\ saved = {Content(file)}
        BY <1>3 DEF FileIsSaved, Loaded
    <2>2. database' = Content(file)
        BY <1>1, <2>1 DEF Memory, Content, database
    <2> QED
        BY <1>3, <2>1, <2>2
<1> QED
    BY <1>2, <1>3

\* A run starts with the whole database of the last run that saved one, or with
\* none when that was never or a later save was cut short.
THEOREM StartsFromLastSaveHolds == RestartSpec => StartsFromLastSave
<1>1. RestartInit => FileIsSaved
    BY DEF RestartInit, FileIsSaved
<1>2. FileIsSaved /\ [RestartNext]_restartVars =>
        [(phase = "down" /\ phase' = "serving") =>
            IF saved = {} \/ file = Torn THEN known' = {} /\ nextId' = 1
            ELSE saved = {database'}]_restartVars
    BY StartLoadsSaved
<1> QED
    BY <1>1, <1>2, RInvInit, RInvStep, FileIsSavedStep, PTL DEF RestartSpec, StartsFromLastSave
=============================================================================
