------------------------------ MODULE Sessions ------------------------------
(***************************************************************************)
(* The session core of the connector: the table of logged-in clients       *)
(* (ClientManager), the room tables (RoomManager), the message handlers    *)
(* that change them, the monitor goroutine that tears a client down, and   *)
(* the shutdown sequence of main.                                          *)
(*                                                                         *)
(* A Client object is created by the first Register message of a           *)
(* connection and is never shared between connections, so both are named   *)
(* by the same c \in Conns.  Per connection two goroutines run:            *)
(*   - the bdmsg pumper, which calls the handlers one after the other      *)
(*     (hpc[c] is its place between two critical sections of a handler);   *)
(*   - Client.monitor, started by the registration (mpc[c] is its place).  *)
(* A step is one critical section of a lock (or code between two of them). *)
(*                                                                         *)
(* bdmsg is not part of the repository and is modelled from its use: Stop  *)
(* only requests the end of the pumper (conn = "stopping"); the pumper     *)
(* goroutine may still pick queued messages, and closes StopD (conn =      *)
(* "stopped") when it leaves its loop, never in the middle of a handler;   *)
(* a panic that leaves a handler ends the pumper.                          *)
(*                                                                         *)
(* Abstracted: clocks (a heartbeat or an expiry may strike whenever its    *)
(* timer may), payloads, levels, versions, log output.  Messages that only *)
(* touch abstracted data (HeartBeat, RefreshToken, a Chat to the current   *)
(* room) are stuttering steps here unless they panic.                      *)
(***************************************************************************)
EXTENDS Integers, FiniteSets

CONSTANTS Conns,   \* connections that may ever be accepted
          Users,   \* user ids carried by Register messages
          Rooms,   \* room ids, the empty string excluded
          None     \* nil / the empty string

ASSUME ConstantsAssumption ==
    /\ IsFiniteSet(Conns)
    /\ None \notin Conns \cup Users \cup Rooms

VARIABLES
    conn,       \* bdmsg state of each connection
    handshaked, \* SClient.Handshaked()
    userData,   \* what Pumper.UserData() holds: the SClient, the Client or nil
    uid,        \* Client.ID, None while the connection has no Client
    roomId,     \* Client.roomId, None for the empty string
    clients,    \* ClientManager.clients
    rooms,      \* RoomManager.clients, the inner maps
    roomKeys,   \* RoomManager.clients, the keys of the outer map
    hpc,        \* place of the pumper goroutine inside a handler
    target,     \* roomId argument of the RoomManager.clientIn in progress
    mpc,        \* place of the monitor goroutine
    loginUsers, \* info.LoginUsers
    escaped,    \* connections on which a panic escaped a handler that recovers
    server,     \* place of main
    latest,     \* history: the last connection that registered each user
    entered     \* history: the last client that entered each room as each user

connVars == <<conn, handshaked, escaped>>
clientVars == <<userData, uid, loginUsers, mpc>>
roomVars == <<roomId, rooms, roomKeys, entered>>
handlerVars == <<hpc, target>>
tableVars == <<clients, latest>>
vars == <<connVars, clientVars, roomVars, handlerVars, tableVars, server>>

TypeOK ==
    /\ conn \in [Conns -> {"idle", "open", "stopping", "stopped"}]
    /\ handshaked \in [Conns -> BOOLEAN]
    /\ userData \in [Conns -> {"sclient", "client", "nil"}]
    /\ uid \in [Conns -> Users \cup {None}]
    /\ roomId \in [Conns -> Rooms \cup {None}]
    /\ clients \in [Users -> Conns \cup {None}]
    /\ rooms \in [Rooms -> [Users -> Conns \cup {None}]]
    /\ roomKeys \in SUBSET Rooms
    /\ hpc \in [Conns -> {"idle", "handshake", "enter"}]
    /\ target \in [Conns -> Rooms \cup {None}]
    /\ mpc \in [Conns -> {"none", "watch", "left", "removed", "done"}]
    /\ loginUsers \in Int
    /\ escaped \in SUBSET Conns
    /\ server \in {"running", "stopped", "closed", "exited"}
    /\ latest \in [Users -> Conns \cup {None}]
    /\ entered \in [Rooms -> [Users -> Conns \cup {None}]]

EmptyRoom == [u \in Users |-> None]

Init ==
    /\ conn = [c \in Conns |-> "idle"]
    /\ handshaked = [c \in Conns |-> FALSE]
    /\ userData = [c \in Conns |-> "sclient"]
    /\ uid = [c \in Conns |-> None]
    /\ roomId = [c \in Conns |-> None]
    /\ clients = [u \in Users |-> None]
    /\ rooms = [r \in Rooms |-> EmptyRoom]
    /\ roomKeys = {}
    /\ hpc = [c \in Conns |-> "idle"]
    /\ target = [c \in Conns |-> None]
    /\ mpc = [c \in Conns |-> "none"]
    /\ loginUsers = 0
    /\ escaped = {}
    /\ server = "running"
    /\ latest = [u \in Users |-> None]
    /\ entered = [r \in Rooms |-> EmptyRoom]

-----------------------------------------------------------------------------
(***************************************************************************)
(* The bdmsg server and pumper (external).                                 *)
(***************************************************************************)

\* Pumper.Stop() on every connection of S: a request, and idempotent.
Stop(S) ==
    conn' = [c \in Conns |->
                IF c \in S /\ conn[c] = "open" THEN "stopping" ELSE conn[c]]

\* The server accepts a connection and starts its pumper; the user data of
\* the pumper is the SClient until a registration replaces it.
Accept(c) ==
    /\ server = "running"
    /\ conn[c] = "idle"
    /\ conn' = [conn EXCEPT ![c] = "open"]
    /\ UNCHANGED <<handshaked, escaped, clientVars, roomVars, handlerVars,
                   tableVars, server>>

\* The pumper picks the next message: its goroutine is not inside a handler.
\* After Stop its select may still choose the message queue.
Picks(c) == conn[c] \in {"open", "stopping"} /\ hpc[c] = "idle"

\* The pumper goroutine sees the stop request and closes StopD.
PumperStops(c) ==
    /\ conn[c] = "stopping"
    /\ hpc[c] = "idle"
    /\ conn' = [conn EXCEPT ![c] = "stopped"]
    /\ UNCHANGED <<handshaked, escaped, clientVars, roomVars, handlerVars,
                   tableVars, server>>

\* The peer closes the connection, or reading or writing fails.
PeerGone(c) ==
    /\ conn[c] = "open"
    /\ Stop({c})
    /\ UNCHANGED <<handshaked, escaped, clientVars, roomVars, handlerVars,
                   tableVars, server>>

\* A panic leaves a handler: the pumper goroutine picks nothing more and its
\* own deferred code closes StopD.
PumperPanics(c) == conn' = [conn EXCEPT ![c] = "stopped"]

\* No Handshake() within the handshake timeout.
HandshakeTimeout(c) ==
    /\ conn[c] = "open"
    /\ ~handshaked[c]
    /\ Stop({c})
    /\ UNCHANGED <<handshaked, escaped, clientVars, roomVars, handlerVars,
                   tableVars, server>>

-----------------------------------------------------------------------------
(***************************************************************************)
(* ClientManager and the Register handler.                                 *)
(***************************************************************************)

\* A registration that leaves the previous connection of the user running.
Mutant_SupersededNobody(u) == {}

\* ClientManager.clientIn: the previous client of the id is told to stop.
Superseded(u) == {clients[u]} \ {None}

\* A LoginUsers that counts users instead of Client objects.
Mutant_CreateClientCountsUsers(c, u) ==
    /\ uid' = [uid EXCEPT ![c] = u]
    /\ userData' = [userData EXCEPT ![c] = "client"]
    /\ loginUsers' = loginUsers + (IF clients[u] = None THEN 1 ELSE 0)
    /\ mpc' = [mpc EXCEPT ![c] = "watch"]

\* createClient: a Client for every registration, counted in LoginUsers.
\* The monitor goroutine starts with it (clientIn, still under the lock).
CreateClient(c, u) ==
    /\ uid' = [uid EXCEPT ![c] = u]
    /\ userData' = [userData EXCEPT ![c] = "client"]
    /\ loginUsers' = loginUsers + 1
    /\ mpc' = [mpc EXCEPT ![c] = "watch"]

\* ClientManager.clientIn with a token that decrypts: under the lock, the
\* previous client is stopped and the new one takes its place in the table.
ClientIn(c, u) ==
    /\ Stop(Superseded(u))
    /\ CreateClient(c, u)
    /\ clients' = [clients EXCEPT ![u] = c]
    /\ latest' = [latest EXCEPT ![u] = c]

\* handleRegister with a valid message, up to the end of clientIn.  It does
\* not get here twice: the type assertion on the user data fails first
\* (GuardedHandlerEscapes).
HandleRegister(c, u) ==
    /\ Picks(c)
    /\ userData[c] = "sclient"
    /\ ~handshaked[c]
    /\ ClientIn(c, u)
    /\ hpc' = [hpc EXCEPT ![c] = "handshake"]
    /\ UNCHANGED <<handshaked, escaped, roomVars, target, server>>

\* The rest of handleRegister, outside the lock.
Handshake(c) ==
    /\ hpc[c] = "handshake"
    /\ handshaked' = [handshaked EXCEPT ![c] = TRUE]
    /\ hpc' = [hpc EXCEPT ![c] = "idle"]
    /\ UNCHANGED <<conn, escaped, clientVars, roomVars, target, tableVars,
                   server>>

\* handleRegister with an unparsable message or a token that does not
\* decrypt: the panic is recovered by the handler, which stops the pumper.
RegisterRejected(c) ==
    /\ Picks(c)
    /\ userData[c] = "sclient"
    /\ Stop({c})
    /\ UNCHANGED <<handshaked, escaped, clientVars, roomVars, handlerVars,
                   tableVars, server>>

\* Register on a registered connection, or RefreshToken on one that is not:
\* the type assertion on the user data panics above the deferred recover, so
\* the panic leaves the handler and ends the pumper.
GuardedHandlerEscapes(c) ==
    /\ Picks(c)
    /\ PumperPanics(c)
    /\ escaped' = escaped \cup {c}
    /\ UNCHANGED <<handshaked, clientVars, roomVars, handlerVars, tableVars,
                   server>>

\* handleRefreshToken with an unparsable message, or a token on which decrypt
\* panics.  (When decrypt returns an error the message is ignored.)
RefreshTokenRejected(c) ==
    /\ Picks(c)
    /\ userData[c] = "client"
    /\ Stop({c})
    /\ UNCHANGED <<handshaked, escaped, clientVars, roomVars, handlerVars,
                   tableVars, server>>

\* EnterRoom, Chat or HeartBeat before a registration, or EnterRoom or Chat
\* with an unparsable message: these handlers declare no recover.
OpenHandlerPanics(c) ==
    /\ Picks(c)
    /\ PumperPanics(c)
    /\ UNCHANGED <<handshaked, escaped, clientVars, roomVars, handlerVars,
                   tableVars, server>>

-----------------------------------------------------------------------------
(***************************************************************************)
(* RoomManager and the handlers that enter rooms.                          *)
(***************************************************************************)

\* A Leave that deletes by user id, whoever holds the slot.
Mutant_LeaveByUserId(r, c) ==
    LET without == [rooms[r] EXCEPT ![uid[c]] = None]
    IN  IF r # None /\ r \in roomKeys
        THEN /\ rooms' = [rooms EXCEPT ![r] = without]
             /\ roomKeys' = IF without = EmptyRoom THEN roomKeys \ {r}
                                                   ELSE roomKeys
        ELSE UNCHANGED <<rooms, roomKeys>>

\* RoomManager.ending(r, c): take c out of room r if the slot of its user id
\* is c's own, and drop a room that becomes empty.
Leave(r, c) ==
    LET u == uid[c]
        without == [rooms[r] EXCEPT ![u] = None]
    IN  IF r # None /\ rooms[r][u] = c
        THEN /\ rooms' = [rooms EXCEPT ![r] = without]
             /\ roomKeys' = IF without = EmptyRoom THEN roomKeys \ {r}
                                                   ELSE roomKeys
        ELSE UNCHANGED <<rooms, roomKeys>>

\* First critical section of RoomManager.clientIn.  It leaves the room being
\* entered, not the room the client is in.
BeginEnter(c, r) ==
    /\ Leave(r, c)
    /\ hpc' = [hpc EXCEPT ![c] = "enter"]
    /\ target' = [target EXCEPT ![c] = r]
    /\ UNCHANGED <<connVars, clientVars, roomId, entered, tableVars, server>>

\* handleEnterRoom.  With an empty room id clientIn only logs.
HandleEnterRoom(c, r) ==
    /\ Picks(c)
    /\ userData[c] = "client"
    /\ BeginEnter(c, r)

\* handleMsg: a Chat that names another room enters it.
HandleChat(c, r) ==
    /\ Picks(c)
    /\ userData[c] = "client"
    /\ r # roomId[c]
    /\ BeginEnter(c, r)

\* Second critical section of RoomManager.clientIn: the room's map is made
\* when missing, the slot of the user id becomes c.
FinishEnter(c) ==
    LET r == target[c]
        members == IF r \in roomKeys THEN rooms[r] ELSE EmptyRoom
    IN  /\ hpc[c] = "enter"
        /\ rooms' = [rooms EXCEPT ![r] = [members EXCEPT ![uid[c]] = c]]
        /\ roomKeys' = roomKeys \cup {r}
        /\ entered' = [entered EXCEPT ![r][uid[c]] = c]
        /\ roomId' = [roomId EXCEPT ![c] = r]
        /\ hpc' = [hpc EXCEPT ![c] = "idle"]
        /\ target' = [target EXCEPT ![c] = None]
        /\ UNCHANGED <<connVars, clientVars, tableVars, server>>

-----------------------------------------------------------------------------
(***************************************************************************)
(* Reasons to close a registered client, and its monitor goroutine.        *)
(***************************************************************************)

Tabled == {clients[u] : u \in Users} \ {None}

\* initHeartBeat: one tick closes the table's clients whose last heartbeat
\* is too old (which ones is left open here).
HeartBeatSweep(late) ==
    /\ late # {}
    /\ Stop(late)
    /\ UNCHANGED <<handshaked, escaped, clientVars, roomVars, handlerVars,
                   tableVars, server>>

\* The callback of a client's expireTimer.
SessionExpired(c) ==
    /\ uid[c] # None
    /\ conn[c] = "open"
    /\ Stop({c})
    /\ UNCHANGED <<handshaked, escaped, clientVars, roomVars, handlerVars,
                   tableVars, server>>

\* A monitor that forgets the room.
Mutant_MonitorKeepsRoom(c) ==
    /\ mpc[c] = "watch"
    /\ conn[c] = "stopped"
    /\ userData' = [userData EXCEPT ![c] = "nil"]
    /\ mpc' = [mpc EXCEPT ![c] = "left"]
    /\ UNCHANGED <<connVars, uid, loginUsers, roomVars, handlerVars,
                   tableVars, server>>

\* Client.monitor sees StopD; Client.ending drops the user data and leaves
\* the client's current room.
MonitorLeavesRoom(c) ==
    /\ mpc[c] = "watch"
    /\ conn[c] = "stopped"
    /\ userData' = [userData EXCEPT ![c] = "nil"]
    /\ Leave(roomId[c], c)
    /\ mpc' = [mpc EXCEPT ![c] = "left"]
    /\ UNCHANGED <<connVars, uid, loginUsers, roomId, entered, handlerVars,
                   tableVars, server>>

\* A removeClient that deletes by user id.
Mutant_RemoveClientByUserId(c) == clients' = [clients EXCEPT ![uid[c]] = None]

\* ClientManager.removeClient: delete the entry only while it is this client.
RemoveClient(c) ==
    clients' = IF clients[uid[c]] = c THEN [clients EXCEPT ![uid[c]] = None]
                                      ELSE clients

\* A monitor whose ending waits for a client that is still in the table.
Mutant_MonitorRemovesTabled(c) ==
    /\ mpc[c] = "left"
    /\ clients[uid[c]] = c
    /\ RemoveClient(c)
    /\ mpc' = [mpc EXCEPT ![c] = "removed"]
    /\ UNCHANGED <<connVars, userData, uid, loginUsers, roomVars, handlerVars,
                   latest, server>>

\* Client.ending continued.
MonitorRemoves(c) ==
    /\ mpc[c] = "left"
    /\ RemoveClient(c)
    /\ mpc' = [mpc EXCEPT ![c] = "removed"]
    /\ UNCHANGED <<connVars, userData, uid, loginUsers, roomVars, handlerVars,
                   latest, server>>

\* End of Client.ending: c.q, the timer, the wake-up of the sender goroutine
\* and the counter.
MonitorQuits(c) ==
    /\ mpc[c] = "removed"
    /\ mpc' = [mpc EXCEPT ![c] = "done"]
    /\ loginUsers' = loginUsers - 1
    /\ UNCHANGED <<connVars, userData, uid, roomVars, handlerVars, tableVars,
                   server>>

-----------------------------------------------------------------------------
(***************************************************************************)
(* main, after a signal.                                                   *)
(***************************************************************************)

\* connectS.Stop(): no more connections are accepted.
ServerStop ==
    /\ server = "running"
    /\ server' = "stopped"
    /\ UNCHANGED <<connVars, clientVars, roomVars, handlerVars, tableVars>>

\* A CloseAll that passes over the clients whose Register handler still runs.
Mutant_CloseAllHandshaked ==
    /\ server = "stopped"
    /\ Stop({c \in Tabled : handshaked[c]})
    /\ server' = "closed"
    /\ UNCHANGED <<handshaked, escaped, clientVars, roomVars, handlerVars,
                   tableVars>>

\* clientM.CloseAll(): closes the clients in the table at that moment.
CloseAll ==
    /\ server = "stopped"
    /\ Stop(Tabled)
    /\ server' = "closed"
    /\ UNCHANGED <<handshaked, escaped, clientVars, roomVars, handlerVars,
                   tableVars>>

\* connectS.WaitClients() returns once every pumper has stopped.
WaitClients ==
    /\ server = "closed"
    /\ \A c \in Conns : conn[c] \in {"idle", "stopped"}
    /\ server' = "exited"
    /\ UNCHANGED <<connVars, clientVars, roomVars, handlerVars, tableVars>>

\* The process has ended: the only state the system may rest in.
Exited == server = "exited" /\ UNCHANGED vars

-----------------------------------------------------------------------------
Pumper(c) ==
    \/ Accept(c)
    \/ PumperStops(c)
    \/ PeerGone(c)
    \/ HandshakeTimeout(c)

Handler(c) ==
    \/ \E u \in Users : HandleRegister(c, u)
    \/ Handshake(c)
    \/ RegisterRejected(c)
    \/ GuardedHandlerEscapes(c)
    \/ RefreshTokenRejected(c)
    \/ OpenHandlerPanics(c)
    \/ \E r \in Rooms : HandleEnterRoom(c, r)
    \/ \E r \in Rooms : HandleChat(c, r)
    \/ FinishEnter(c)

Monitor(c) ==
    \/ SessionExpired(c)
    \/ MonitorLeavesRoom(c)
    \/ MonitorRemoves(c)
    \/ MonitorQuits(c)

Next ==
    \/ \E c \in Conns : Pumper(c) \/ Handler(c) \/ Monitor(c)
    \/ \E late \in SUBSET Tabled : HeartBeatSweep(late)
    \/ ServerStop
    \/ CloseAll
    \/ WaitClients
    \/ Exited

Spec == Init /\ [][Next]_vars

-----------------------------------------------------------------------------
(***************************************************************************)
(* Properties.                                                             *)
(***************************************************************************)

\* ClientManager.clients holds, for every user, exactly the last connection
\* that registered it, from clientIn until that connection's own
\* removeClient: the late ending of a superseded connection never evicts its
\* successor, and no entry outlives its client.
RegistryExact ==
    \A u \in Users :
        clients[u] = IF latest[u] # None /\ mpc[latest[u]] \in {"watch", "left"}
                     THEN latest[u] ELSE None

\* Two registrations of one user id never both stay live: clientIn has told
\* the older one to stop before the newer one is in the table, even when the
\* two Register handlers and the older one's ending interleave.
OneLivePerUser ==
    \A c, d \in Conns :
        /\ c # d
        /\ uid[c] = uid[d]
        /\ uid[c] # None
        => ~(conn[c] = "open" /\ conn[d] = "open")

\* No registered connection is on its way out.
Quiet == \A c \in Conns : \/ mpc[c] \in {"none", "done"}
                          \/ mpc[c] = "watch" /\ conn[c] = "open"

\* info.LoginUsers, which the naming service publishes, never undercounts the
\* table, and equals its size whenever no client is being torn down.
LoginUsersTracks ==
    /\ Cardinality(Tabled) <= loginUsers
    /\ Quiet => loginUsers = Cardinality(Tabled)

\* The outer room map has a key exactly for the rooms with a member: ending
\* deletes the map of a room that becomes empty and never that of another.
RoomKeysTight ==
    \A r \in Rooms : r \in roomKeys <=> rooms[r] # EmptyRoom

\* Client.ending has left the client's current room.
Ended(c) == mpc[c] \in {"left", "removed", "done"}

\* A superseded connection of the same user entered c's room after c.
Overtaken(c) ==
    \E d \in Conns \ {c} :
        /\ entered[roomId[c]][uid[c]] = d
        /\ uid[d] = uid[c]
        /\ conn[d] # "open"

\* A live client with no handler in progress still owns its slot in the room
\* its roomId names: no leave or ending of another connection takes it away.
\* The one exception the code has: a superseded connection of the same user,
\* whose handler was still running, entered the room after it.
RoomSlotHeld ==
    \A c \in Conns :
        conn[c] = "open" /\ hpc[c] = "idle" /\ roomId[c] # None
        => rooms[roomId[c]][uid[c]] = c \/ Overtaken(c)

\* After Client.ending has left the room, a dead client can only still be
\* found in rooms it had switched away from, never in the last room it
\* entered.  (clientIn does not leave the previous room, so those remain.)
GhostOnlyAfterSwitch ==
    \A r \in Rooms, u \in Users, c \in Conns :
        rooms[r][u] = c /\ Ended(c) => roomId[c] # r

\* "The defer must be declared first, otherwise the panic cannot be
\* captured", say the comments of the handlers that recover: none of their
\* panics escapes them.
GuardedPanicsCaptured == escaped = {}

\* A registered client that is told to stop is torn down completely: out of
\* the table, its goroutines told, LoginUsers decremented.
StopCompletes ==
    \A c \in Conns :
        uid[c] # None /\ conn[c] = "stopping" ~> mpc[c] = "done"

\* What the table promises to its users: one holder per user id, replaced
\* only together with a stop request, released only after one.
Login == INSTANCE SingleLogin
         WITH holder <- clients,
              used <- {c \in Conns : uid[c] # None},
              over <- {c \in Conns : conn[c] \in {"stopping", "stopped"}}

\* The session core implements the abstract single-login specification.
ImplementsSingleLogin == Login!Spec

-----------------------------------------------------------------------------
(***************************************************************************)
(* The inductive invariant behind the theorems of SessionsProofs.          *)
(***************************************************************************)

\* How the goroutines of one connection are coupled: a Client exists from the
\* registration on, only its monitor outlives the pumper, and a handler in
\* progress keeps the pumper from stopping.
Lifecycle ==
    \A c \in Conns :
        /\ (uid[c] = None) <=> (mpc[c] = "none")
        /\ (uid[c] = None) <=> (userData[c] = "sclient")
        /\ (userData[c] = "client") <=> (mpc[c] = "watch")
        /\ conn[c] = "idle" => uid[c] = None
        /\ uid[c] = None => roomId[c] = None
        /\ Ended(c) => conn[c] = "stopped"
        /\ hpc[c] # "idle" => conn[c] \in {"open", "stopping"} /\ uid[c] # None
        /\ hpc[c] = "handshake" => roomId[c] = None
        /\ (hpc[c] = "enter") <=> (target[c] # None)

\* Every registered connection but the latest of its user was told to stop.
LatestOnly ==
    /\ \A u \in Users : latest[u] # None => uid[latest[u]] = u
    /\ \A c \in Conns : uid[c] # None => latest[uid[c]] = c \/ conn[c] # "open"

\* A room slot holds a client of the slot's user.
SlotsKeyed ==
    \A r \in Rooms, u \in Users :
        rooms[r][u] # None => uid[rooms[r][u]] = u

\* Conjoined, these are preserved by every step.
IInv ==
    /\ TypeOK
    /\ Lifecycle
    /\ LatestOnly
    /\ RegistryExact
    /\ SlotsKeyed
    /\ RoomKeysTight
    /\ RoomSlotHeld
    /\ GhostOnlyAfterSwitch
=============================================================================
