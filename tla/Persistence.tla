---------------------------- MODULE Persistence ----------------------------
(***************************************************************************)
(* The database across runs of the server: loading in the constructor of   *)
(* the static Database object, saving in its destructor                    *)
(* (database/Database.cpp), main around them (main.cpp), and a crash at    *)
(* any moment.                                                             *)
(*                                                                         *)
(* The constructor runs before the threads start, and the destructor after *)
(* main has joined them and destroyed the sessions.  std::ofstream empties *)
(* the file when it opens it, so from then until the last write the file   *)
(* holds no whole archive.  The archive of cereal parses the whole file    *)
(* before it loads any of it: a torn one throws and loads nothing, which   *)
(* the constructor catches.                                                *)
(***************************************************************************)
EXTENDS ClientDataManager

CONSTANTS
    Torn,           \* contents of a file that was not written to its end
    MaxStarts       \* bound: runs of the server

VARIABLES
    phase,          \* how far main is, "down" when there is no process
    file,           \* ClientDataManager.json: None, Torn or an archive
    starts,         \* runs so far
    saved           \* history: the database that the last run to save left, or none

process     == <<phase, file, starts, saved>>
restartVars == <<vars, process>>

database == <<nextId, clientsId, clientsName, known, name, positions, followers, following>>

\* ClientDataManager::serialize and ClientData::serialize: all but the queues.
ArchiveNoNextId ==
    [nextId |-> 1, clientsId |-> clientsId, clientsName |-> clientsName,
     known |-> known, name |-> name, positions |-> positions,
     followers |-> followers, following |-> following]
ArchiveNoNames ==
    [nextId |-> nextId, clientsId |-> clientsId,
     clientsName |-> [n \in AllNames |-> None],
     known |-> known, name |-> name, positions |-> positions,
     followers |-> followers, following |-> following]
ArchiveNoFollowing ==
    [nextId |-> nextId, clientsId |-> clientsId, clientsName |-> clientsName,
     known |-> known, name |-> name, positions |-> positions,
     followers |-> followers,
     following |-> [i \in Short |-> [j \in Short |-> <<>>]]]
Archive ==
    [nextId |-> nextId, clientsId |-> clientsId, clientsName |-> clientsName,
     known |-> known, name |-> name, positions |-> positions,
     followers |-> followers, following |-> following]

\* The members of a ClientDataManager before it loads.
EmptyArchive ==
    [nextId |-> 1, clientsId |-> [k \in Keys |-> None],
     clientsName |-> [n \in AllNames |-> None],
     known |-> {}, name |-> [i \in Short |-> EmptyName],
     positions |-> [i \in Short |-> <<>>],
     followers |-> [i \in Short |-> [j \in Short |-> 0]],
     following |-> [i \in Short |-> [j \in Short |-> <<>>]]]

Archives ==
    [nextId : Short, clientsId : [Keys -> Short \cup {None}],
     clientsName : [AllNames -> Short \cup {None}],
     known : SUBSET Short, name : [Short -> AllNames],
     positions : [Short -> Seq(Times)],
     followers : [Short -> [Short -> Nat]],
     following : [Short -> [Short -> Seq(Watcher)]]]

ASSUME RestartAssumption ==
    /\ MaxStarts \in Nat
    /\ IsFiniteSet(Keys)
    /\ None \notin Archives /\ Torn \notin Archives

\* The memory of a process with this database and no session.
Memory(db) ==
    /\ nextId' = db.nextId /\ clientsId' = db.clientsId
    /\ clientsName' = db.clientsName
    /\ known' = db.known /\ name' = db.name
    /\ positions' = db.positions
    /\ followers' = db.followers /\ following' = db.following
    /\ clientsQueue' = [i \in Short |-> None]
    /\ idOf' = [s \in Sessions |-> None]
    /\ updates' = [s \in Sessions |-> 0]
    /\ caughtUp' = [s \in Sessions |-> FALSE]

Phases == {"serving", "leaving", "saving", "down"}

RestartTypeOK ==
    /\ phase \in Phases
    /\ file \in {None, Torn} \/ file \in Archives
    /\ starts \in 0..MaxStarts

RestartInit ==
    /\ Init
    /\ phase = "down"
    /\ file = None
    /\ starts = 0
    /\ saved = {}

-----------------------------------------------------------------------------
(* Database::Database, before the threads of main. *)

Loaded(f) == IF f \in {None, Torn} THEN EmptyArchive ELSE f

Start ==
    /\ phase = "down" /\ starts < MaxStarts
    /\ phase' = "serving"
    /\ starts' = starts + 1
    /\ Memory(Loaded(file))
    /\ UNCHANGED <<file, saved>>

\* The sessions at work.
Serve == phase = "serving" /\ Next /\ UNCHANGED process

-----------------------------------------------------------------------------
(* The end of a run *)

\* main has joined the threads; the destructor of clientManager follows.
Leave ==
    /\ phase = "serving"
    /\ phase' = "leaving"
    /\ UNCHANGED <<vars, file, starts, saved>>

DestroyLeft(s) == phase = "leaving" /\ Destroy(s) /\ UNCHANGED process

\* The process is gone, and its memory with it.
Stop == phase' = "down" /\ Memory(EmptyArchive) /\ UNCHANGED starts

\* Database::~Database opens the file, which empties it, or cannot.
Open ==
    /\ phase = "leaving" /\ \A s \in Sessions : ~Registered(s)
    /\ \/ phase' = "saving" /\ file' = Torn /\ UNCHANGED <<vars, starts, saved>>
       \/ Stop /\ UNCHANGED <<file, saved>>

Save ==
    /\ phase = "saving"
    /\ file' = Archive
    /\ saved' = {database}
    /\ Stop

\* The process dies; or, in "saving", the disk is full, which nothing tests.
Crash == phase # "down" /\ Stop /\ UNCHANGED <<file, saved>>

RestartNext ==
    \/ Start \/ Serve \/ Leave \/ Open \/ Save \/ Crash
    \/ \E s \in Sessions : DestroyLeft(s)

RestartSpec == RestartInit /\ [][RestartNext]_restartVars

-----------------------------------------------------------------------------
(* Properties *)

\* What ClientDataManager keeps true within a run stays true when its database
\* comes back without its queues: nothing in it refers to a session, and no list
\* or map is left out of the archive that another one needs.
DatabaseSound ==
    RestartTypeOK /\ TypeOK /\ NameIndex /\ FollowDuality /\ QueueLive /\ IdsKnown

\* A run starts with the database that the last run to save left, whole, and
\* whatever happened to the runs in between; only a save that was begun and not
\* finished makes it start with none.
StartsFromLastSave ==
    [][(phase = "down" /\ phase' = "serving") =>
            IF saved = {} \/ file = Torn THEN known' = {} /\ nextId' = 1
            ELSE saved = {database'}]_restartVars

\* A key is one client for ever: two keys never share an id, in no run of the
\* server, as long as ids have not run out.
IdsUnique ==
    Cardinality(Keys) <= ShortMax =>
        \A j, k \in Keys : j # k /\ clientsId[j] # None => clientsId[j] # clientsId[k]
=============================================================================
