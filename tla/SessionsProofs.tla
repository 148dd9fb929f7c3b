--------------------------- MODULE SessionsProofs ---------------------------
(***************************************************************************)
(* Theorems about Sessions, and about what the shutdown of main leaves     *)
(* open, for every set of connections, users and rooms.                    *)
(***************************************************************************)
EXTENDS Shutdown, FiniteSetTheorems, TLAPS

\* The ways a step may move the bdmsg state of the connections: accept, a
\* stop request, or the pumper ending outside a handler.
ConnMoves ==
    /\ conn' \in [Conns -> {"idle", "open", "stopping", "stopped"}]
    /\ \A c \in Conns :
        \/ conn'[c] = conn[c]
        \/ conn[c] = "idle" /\ conn'[c] = "open"
        \/ conn[c] = "open" /\ conn'[c] = "stopping"
        \/ conn[c] \in {"open", "stopping"} /\ hpc[c] = "idle" /\ conn'[c] = "stopped"

\* Stop (bdmsg) only turns open connections into stopping ones.
LEMMA StopMoves ==
    ASSUME TypeOK, NEW S, Stop(S)
    PROVE  ConnMoves
BY DEF TypeOK, Stop, ConnMoves

\* A step that only moves connection states (and flags no invariant reads)
\* preserves the inductive invariant: teardown has not begun for a
\* connection that is still running, and nothing returns to "open".
LEMMA ConnStep ==
    ASSUME IInv, ConnMoves,
           handshaked' \in [Conns -> BOOLEAN],
           escaped' \in SUBSET Conns,
           server' \in {"running", "stopped", "closed", "exited"},
           UNCHANGED <<clientVars, roomVars, handlerVars, tableVars>>
    PROVE  IInv'
<1> USE DEF clientVars, roomVars, handlerVars, tableVars
<1>1. TypeOK'
  BY DEF IInv, TypeOK, ConnMoves
<1>2. Lifecycle'
  BY DEF IInv, TypeOK, Lifecycle, ConnMoves, Ended
<1>3. LatestOnly'
  BY DEF IInv, TypeOK, Lifecycle, LatestOnly, ConnMoves
<1>4. RegistryExact' /\ SlotsKeyed' /\ RoomKeysTight' /\ GhostOnlyAfterSwitch'
  BY DEF IInv, RegistryExact, SlotsKeyed, RoomKeysTight, GhostOnlyAfterSwitch,
         Ended, EmptyRoom
<1>5. RoomSlotHeld'
  <2> SUFFICES ASSUME NEW c \in Conns,
                      conn'[c] = "open", hpc[c] = "idle", roomId[c] # None
               PROVE  rooms[roomId[c]][uid[c]] = c \/ Overtaken(c)'
    BY DEF RoomSlotHeld
  <2>1. conn[c] = "open"
    BY DEF IInv, Lifecycle, ConnMoves
  <2>2. \A d \in Conns : conn[d] # "open" /\ uid[d] # None => conn'[d] # "open"
    BY DEF IInv, Lifecycle, ConnMoves
  <2>3. uid[c] # None
    BY DEF IInv, Lifecycle
  <2> QED
    BY <2>1, <2>2, <2>3 DEF IInv, RoomSlotHeld, Overtaken
<1> QED
  BY <1>1, <1>2, <1>3, <1>4, <1>5 DEF IInv

\* The actions of bdmsg, of the expiry timer and of the panicking handlers
\* are steps of that kind.
LEMMA ConnActions ==
    ASSUME IInv, NEW c \in Conns,
           \/ Pumper(c) \/ RegisterRejected(c) \/ GuardedHandlerEscapes(c)
           \/ RefreshTokenRejected(c) \/ OpenHandlerPanics(c)
           \/ SessionExpired(c)
    PROVE  IInv'
<1> USE DEF IInv, TypeOK, connVars
<1>1. CASE Accept(c)
  BY <1>1, ConnStep DEF Accept, ConnMoves
<1>2. CASE PumperStops(c)
  BY <1>2, ConnStep DEF PumperStops, ConnMoves
<1>3. CASE PeerGone(c)
  BY <1>3, ConnStep, StopMoves DEF PeerGone
<1>4. CASE HandshakeTimeout(c)
  BY <1>4, ConnStep, StopMoves DEF HandshakeTimeout
<1>5. CASE RegisterRejected(c)
  BY <1>5, ConnStep, StopMoves DEF RegisterRejected
<1>6. CASE GuardedHandlerEscapes(c)
  <2>1. ConnMoves
    BY <1>6 DEF GuardedHandlerEscapes, Picks, PumperPanics, ConnMoves
  <2> QED
    BY <1>6, <2>1, ConnStep DEF GuardedHandlerEscapes
<1>7. CASE RefreshTokenRejected(c)
  BY <1>7, ConnStep, StopMoves DEF RefreshTokenRejected
<1>8. CASE OpenHandlerPanics(c)
  <2>1. ConnMoves
    BY <1>8 DEF OpenHandlerPanics, Picks, PumperPanics, ConnMoves
  <2> QED
    BY <1>8, <2>1, ConnStep DEF OpenHandlerPanics
<1>9. CASE SessionExpired(c)
  BY <1>9, ConnStep, StopMoves DEF SessionExpired
<1> QED
  BY <1>1, <1>2, <1>3, <1>4, <1>5, <1>6, <1>7, <1>8, <1>9 DEF Pumper

\* handleRegister / clientIn: whoever held the user before is told to stop,
\* or has been removed, in which case its pumper has already stopped.
LEMMA RegisterStep ==
    ASSUME IInv, NEW c \in Conns, NEW u \in Users, HandleRegister(c, u)
    PROVE  IInv'
<1> USE ConstantsAssumption
<1> USE DEF HandleRegister, ClientIn, CreateClient, roomVars
<1>1. ConnMoves
  BY StopMoves DEF IInv
<1>2. uid[c] = None /\ mpc[c] = "none" /\ roomId[c] = None /\ target[c] = None
  BY DEF IInv, Lifecycle, TypeOK, Picks
<1>3. TypeOK'
  <2>1. conn' \in [Conns -> {"idle", "open", "stopping", "stopped"}]
    BY <1>1 DEF ConnMoves
  <2>2. /\ uid' \in [Conns -> Users \cup {None}]
        /\ userData' \in [Conns -> {"sclient", "client", "nil"}]
        /\ mpc' \in [Conns -> {"none", "watch", "left", "removed", "done"}]
        /\ hpc' \in [Conns -> {"idle", "handshake", "enter"}]
        /\ loginUsers' \in Int
    BY DEF IInv, TypeOK
  <2>3. /\ clients' \in [Users -> Conns \cup {None}]
        /\ latest' \in [Users -> Conns \cup {None}]
    BY DEF IInv, TypeOK
  <2> QED
    BY <2>1, <2>2, <2>3 DEF IInv, TypeOK
<1>4. conn[c] \in {"open", "stopping"} /\ conn'[c] \in {"open", "stopping"}
  BY <1>1 DEF Stop, Picks, IInv, TypeOK
<1>5. Lifecycle'
  <2>1. \A d \in Conns \ {c} :
          /\ uid'[d] = uid[d] /\ mpc'[d] = mpc[d] /\ userData'[d] = userData[d]
          /\ hpc'[d] = hpc[d]
    BY DEF IInv, TypeOK
  <2>2. /\ uid'[c] = u /\ mpc'[c] = "watch" /\ userData'[c] = "client"
        /\ hpc'[c] = "handshake"
    BY DEF IInv, TypeOK
  <2> QED
    BY <1>1, <1>2, <1>4, <2>1, <2>2 DEF IInv, Lifecycle, ConnMoves, Ended
<1>6. \A d \in Conns : uid[d] = u => conn'[d] # "open"
  <2> SUFFICES ASSUME NEW d \in Conns, uid[d] = u
               PROVE  conn'[d] # "open"
    OBVIOUS
  <2>1. CASE latest[u] = d /\ clients[u] = d
    BY <2>1 DEF Stop, Superseded, IInv, TypeOK
  <2>2. CASE latest[u] = d /\ clients[u] # d
    <3>1. Ended(d)
      BY <2>2 DEF IInv, RegistryExact, Lifecycle, TypeOK, Ended
    <3> QED
      BY <3>1, <1>1 DEF IInv, Lifecycle, ConnMoves
  <2>3. CASE latest[u] # d
    <3>1. conn[d] # "open" /\ conn[d] # "idle"
      BY <2>3 DEF IInv, LatestOnly, Lifecycle
    <3> QED
      BY <3>1, <1>1 DEF ConnMoves
  <2> QED
    BY <2>1, <2>2, <2>3
<1>7. LatestOnly'
  <2>1. \A v \in Users : latest'[v] # None => uid'[latest'[v]] = v
    BY <1>2 DEF IInv, TypeOK, LatestOnly
  <2>2. ASSUME NEW d \in Conns, uid'[d] # None
        PROVE  latest'[uid'[d]] = d \/ conn'[d] # "open"
    BY <1>1, <1>6, <2>2 DEF IInv, TypeOK, LatestOnly, Lifecycle, ConnMoves
  <2> QED
    BY <2>1, <2>2 DEF LatestOnly
<1>8. RegistryExact'
  BY <1>2 DEF IInv, TypeOK, RegistryExact, LatestOnly
<1>9. SlotsKeyed' /\ RoomKeysTight'
  <2>1. RoomKeysTight'
    BY DEF IInv, RoomKeysTight, EmptyRoom
  <2>2. SlotsKeyed'
    BY <1>2 DEF IInv, TypeOK, SlotsKeyed
  <2> QED
    BY <2>1, <2>2
<1>10. GhostOnlyAfterSwitch'
  <2>1. \A d \in Conns : Ended(d)' => Ended(d)
    BY <1>2 DEF IInv, TypeOK, Ended
  <2>2. rooms' = rooms /\ roomId' = roomId
    OBVIOUS
  <2> QED
    BY <2>1, <2>2 DEF IInv, GhostOnlyAfterSwitch
<1>11. RoomSlotHeld'
  <2> SUFFICES ASSUME NEW d \in Conns,
                      conn'[d] = "open", hpc'[d] = "idle", roomId[d] # None
               PROVE  rooms[roomId[d]][uid'[d]] = d \/ Overtaken(d)'
    BY DEF RoomSlotHeld
  <2>1. d # c /\ uid'[d] = uid[d] /\ hpc[d] = "idle" /\ conn[d] = "open"
    BY <1>1, <1>2 DEF IInv, TypeOK, Lifecycle, ConnMoves
  <2>2. \A e \in Conns : uid[e] = uid[d] =>
          /\ e # c /\ uid'[e] = uid[e]
          /\ conn[e] # "open" => conn'[e] # "open"
    BY <1>1, <1>2, <2>1 DEF IInv, TypeOK, Lifecycle, ConnMoves
  <2> QED
    BY <2>1, <2>2 DEF IInv, RoomSlotHeld, Overtaken
<1> QED
  BY <1>3, <1>5, <1>7, <1>8, <1>9, <1>10, <1>11 DEF IInv

\* RoomManager.ending empties at most the leaving client's own slot, and
\* keeps the outer map tight.
LEMMA LeaveEffect ==
    ASSUME TypeOK, RoomKeysTight,
           NEW c \in Conns, uid[c] \in Users,
           NEW r \in Rooms \cup {None}, Leave(r, c)
    PROVE  /\ rooms' \in [Rooms -> [Users -> Conns \cup {None}]]
           /\ roomKeys' \in SUBSET Rooms
           /\ \A q \in Rooms, v \in Users :
                rooms'[q][v] = IF q = r /\ v = uid[c] /\ rooms[q][v] = c
                               THEN None ELSE rooms[q][v]
           /\ RoomKeysTight'
<1> USE ConstantsAssumption
<1> DEFINE without == [rooms[r] EXCEPT ![uid[c]] = None]
<1>1. CASE ~(r # None /\ rooms[r][uid[c]] = c)
  <2>1. rooms' = rooms /\ roomKeys' = roomKeys
    BY <1>1 DEF Leave
  <2> QED
    BY <1>1, <2>1 DEF TypeOK, RoomKeysTight, EmptyRoom
<1>2. CASE r # None /\ rooms[r][uid[c]] = c
  <2>1. /\ r \in Rooms
        /\ rooms' = [rooms EXCEPT ![r] = without]
        /\ roomKeys' = IF without = EmptyRoom THEN roomKeys \ {r} ELSE roomKeys
    BY <1>2 DEF Leave
  <2>2. without \in [Users -> Conns \cup {None}]
    BY <2>1 DEF TypeOK
  <2>3. \A v \in Users : without[v] = IF v = uid[c] THEN None ELSE rooms[r][v]
    BY <2>1 DEF TypeOK
  <2>4. \A q \in Rooms : rooms'[q] = IF q = r THEN without ELSE rooms[q]
    BY <2>1 DEF TypeOK
  <2>5. rooms' \in [Rooms -> [Users -> Conns \cup {None}]]
    BY <2>1, <2>2 DEF TypeOK
  <2>6. r \in roomKeys
    BY <1>2, <2>1 DEF RoomKeysTight, EmptyRoom
  <2>7. RoomKeysTight'
    BY <2>1, <2>4, <2>6 DEF RoomKeysTight, EmptyRoom
  <2>8. roomKeys' \in SUBSET Rooms
    BY <2>1 DEF TypeOK
  <2> QED
    BY <1>2, <2>3, <2>4, <2>5, <2>7, <2>8
<1> QED
  BY <1>1, <1>2

\* The tail of handleRegister.
LEMMA HandshakeStep ==
    ASSUME IInv, NEW c \in Conns, Handshake(c)
    PROVE  IInv'
<1> USE DEF Handshake, clientVars, roomVars, tableVars
<1>1. TypeOK'
  BY DEF IInv, TypeOK
<1>2. Lifecycle'
  BY DEF IInv, TypeOK, Lifecycle, Ended
<1>3. LatestOnly' /\ RegistryExact' /\ SlotsKeyed' /\ RoomKeysTight' /\ GhostOnlyAfterSwitch'
  BY DEF IInv, LatestOnly, RegistryExact, SlotsKeyed, RoomKeysTight,
         GhostOnlyAfterSwitch, Ended, EmptyRoom
<1>4. RoomSlotHeld'
  <2>1. roomId[c] = None
    BY DEF IInv, Lifecycle
  <2>2. \A d \in Conns \ {c} : hpc'[d] = hpc[d]
    BY DEF IInv, TypeOK
  <2> QED
    BY <2>1, <2>2 DEF IInv, RoomSlotHeld, Overtaken
<1> QED
  BY <1>1, <1>2, <1>3, <1>4 DEF IInv

\* First half of RoomManager.clientIn, for handleEnterRoom and handleMsg.
LEMMA BeginEnterStep ==
    ASSUME IInv, NEW c \in Conns, NEW r \in Rooms,
           Picks(c), userData[c] = "client", BeginEnter(c, r)
    PROVE  IInv'
<1> USE ConstantsAssumption
<1> USE DEF BeginEnter, connVars, clientVars, tableVars
<1>1. uid[c] \in Users /\ mpc[c] = "watch"
  BY DEF IInv, TypeOK, Lifecycle
<1>2. /\ rooms' \in [Rooms -> [Users -> Conns \cup {None}]]
      /\ roomKeys' \in SUBSET Rooms
      /\ \A q \in Rooms, v \in Users :
           rooms'[q][v] = IF q = r /\ v = uid[c] /\ rooms[q][v] = c
                          THEN None ELSE rooms[q][v]
      /\ RoomKeysTight'
  BY <1>1, LeaveEffect DEF IInv
<1>3. TypeOK'
  BY <1>2 DEF IInv, TypeOK
<1>4. Lifecycle'
  BY <1>1 DEF IInv, TypeOK, Lifecycle, Picks, Ended
<1>5. LatestOnly' /\ RegistryExact'
  BY DEF IInv, LatestOnly, RegistryExact
<1>6. SlotsKeyed'
  BY <1>2 DEF IInv, SlotsKeyed
<1>7. GhostOnlyAfterSwitch'
  BY <1>2 DEF IInv, GhostOnlyAfterSwitch, Ended
<1>8. RoomSlotHeld'
  <2> SUFFICES ASSUME NEW d \in Conns,
                      conn[d] = "open", hpc'[d] = "idle", roomId[d] # None
               PROVE  rooms'[roomId[d]][uid[d]] = d \/ Overtaken(d)'
    BY DEF RoomSlotHeld
  <2>1. d # c /\ hpc[d] = "idle"
    BY DEF IInv, TypeOK
  <2>2. uid[d] \in Users /\ roomId[d] \in Rooms
    BY DEF IInv, TypeOK, Lifecycle
  <2>3. Overtaken(d)' <=> Overtaken(d)
    BY DEF Overtaken
  <2> QED
    BY <1>2, <2>1, <2>2, <2>3 DEF IInv, RoomSlotHeld
<1> QED
  BY <1>2, <1>3, <1>4, <1>5, <1>6, <1>7, <1>8 DEF IInv

\* Second half of RoomManager.clientIn.  A live client of the same user that
\* loses its slot here loses it to a superseded connection, because two
\* registrations of a user are never both live.
LEMMA FinishEnterStep ==
    ASSUME IInv, NEW c \in Conns, FinishEnter(c)
    PROVE  IInv'
<1> USE ConstantsAssumption
<1> USE DEF connVars, clientVars, tableVars
<1> DEFINE r == target[c]
           members == IF r \in roomKeys THEN rooms[r] ELSE EmptyRoom
<1>1. /\ hpc[c] = "enter"
      /\ rooms' = [rooms EXCEPT ![r] = [members EXCEPT ![uid[c]] = c]]
      /\ roomKeys' = roomKeys \cup {r}
      /\ entered' = [entered EXCEPT ![r][uid[c]] = c]
      /\ roomId' = [roomId EXCEPT ![c] = r]
      /\ hpc' = [hpc EXCEPT ![c] = "idle"]
      /\ target' = [target EXCEPT ![c] = None]
      /\ UNCHANGED <<connVars, clientVars, tableVars, server>>
  BY DEF FinishEnter
<1> HIDE DEF members
<1>2. r \in Rooms /\ uid[c] \in Users /\ ~Ended(c) /\ mpc[c] # "none"
  BY <1>1 DEF IInv, TypeOK, Lifecycle
<1>3. members = rooms[r] /\ members \in [Users -> Conns \cup {None}]
  BY <1>2 DEF members, IInv, TypeOK, RoomKeysTight
<1>4. /\ rooms' \in [Rooms -> [Users -> Conns \cup {None}]]
      /\ \A q \in Rooms, v \in Users :
           rooms'[q][v] = IF q = r /\ v = uid[c] THEN c ELSE rooms[q][v]
      /\ \A q \in Rooms : q # r => rooms'[q] = rooms[q]
  BY <1>1, <1>2, <1>3 DEF IInv, TypeOK
<1>12. /\ entered' \in [Rooms -> [Users -> Conns \cup {None}]]
       /\ \A q \in Rooms, v \in Users :
            entered'[q][v] = IF q = r /\ v = uid[c] THEN c ELSE entered[q][v]
  BY <1>1, <1>2 DEF IInv, TypeOK
<1>5. TypeOK'
  BY <1>1, <1>2, <1>4, <1>12 DEF IInv, TypeOK
<1>6. Lifecycle'
  BY <1>1, <1>2 DEF IInv, TypeOK, Lifecycle, Ended
<1>7. LatestOnly' /\ RegistryExact'
  BY <1>1 DEF IInv, LatestOnly, RegistryExact
<1>8. SlotsKeyed'
  BY <1>1, <1>2, <1>4 DEF IInv, SlotsKeyed
<1>9. RoomKeysTight'
  <2>1. rooms'[r] # EmptyRoom
    BY <1>2, <1>4 DEF EmptyRoom
  <2> QED
    BY <1>1, <1>2, <1>4, <2>1 DEF IInv, RoomKeysTight, EmptyRoom
<1>10. GhostOnlyAfterSwitch'
  <2>1. \A d \in Conns \ {c} : roomId'[d] = roomId[d]
    BY <1>1 DEF IInv, TypeOK
  <2> QED
    BY <1>1, <1>2, <1>4, <2>1 DEF IInv, GhostOnlyAfterSwitch, Ended
<1>11. RoomSlotHeld'
  <2> SUFFICES ASSUME NEW d \in Conns,
                      conn[d] = "open", hpc'[d] = "idle", roomId'[d] # None
               PROVE  rooms'[roomId'[d]][uid[d]] = d \/ Overtaken(d)'
    BY <1>1 DEF RoomSlotHeld
  <2>1. CASE d = c
    BY <2>1, <1>1, <1>2, <1>4 DEF IInv, TypeOK
  <2>2. CASE d # c
    <3>1. hpc[d] = "idle" /\ roomId'[d] = roomId[d] /\ roomId[d] \in Rooms /\ uid[d] \in Users
      BY <2>2, <1>1 DEF IInv, TypeOK, Lifecycle
    <3>2. uid[c] = uid[d] => conn[c] # "open"
      BY <2>2, <1>2, <3>1 DEF IInv, LatestOnly, TypeOK
    <3>3. CASE roomId[d] = r /\ uid[d] = uid[c]
      <4>1. entered'[roomId'[d]][uid'[d]] = c /\ uid'[c] = uid'[d] /\ conn'[c] # "open"
        BY <1>1, <1>12, <3>1, <3>2, <3>3
      <4> QED
        BY <2>2, <4>1 DEF Overtaken
    <3>4. CASE ~(roomId[d] = r /\ uid[d] = uid[c])
      <4>1. /\ rooms'[roomId[d]][uid[d]] = rooms[roomId[d]][uid[d]]
            /\ entered'[roomId[d]][uid[d]] = entered[roomId[d]][uid[d]]
        BY <1>4, <1>12, <3>1, <3>4
      <4>2. Overtaken(d) => Overtaken(d)'
        BY <1>1, <3>1, <4>1 DEF Overtaken
      <4> QED
        BY <3>1, <4>1, <4>2 DEF IInv, RoomSlotHeld
    <3> QED
      BY <3>3, <3>4
  <2> QED
    BY <2>1, <2>2
<1> QED
  BY <1>5, <1>6, <1>7, <1>8, <1>9, <1>10, <1>11 DEF IInv

\* Client.ending, first part.
LEMMA MonitorLeavesRoomStep ==
    ASSUME IInv, NEW c \in Conns, MonitorLeavesRoom(c)
    PROVE  IInv'
<1> USE ConstantsAssumption
<1> USE DEF MonitorLeavesRoom, connVars, handlerVars, tableVars
<1>1. uid[c] \in Users /\ roomId[c] \in Rooms \cup {None} /\ hpc[c] = "idle" /\ ~Ended(c)
  BY DEF IInv, TypeOK, Lifecycle, Ended
<1>2. /\ rooms' \in [Rooms -> [Users -> Conns \cup {None}]]
      /\ roomKeys' \in SUBSET Rooms
      /\ \A q \in Rooms, v \in Users :
           rooms'[q][v] = IF q = roomId[c] /\ v = uid[c] /\ rooms[q][v] = c
                          THEN None ELSE rooms[q][v]
      /\ RoomKeysTight'
  BY <1>1, LeaveEffect DEF IInv
<1>3. TypeOK'
  BY <1>2 DEF IInv, TypeOK
<1>4. Lifecycle'
  BY <1>1 DEF IInv, TypeOK, Lifecycle, Ended
<1>5. LatestOnly'
  BY DEF IInv, LatestOnly
<1>6. RegistryExact'
  BY DEF IInv, TypeOK, RegistryExact
<1>7. SlotsKeyed'
  BY <1>2 DEF IInv, SlotsKeyed
<1>8. \A d \in Conns \ {c} : Ended(d)' <=> Ended(d)
  BY DEF IInv, TypeOK, Ended
<1>9. Ended(c)'
  BY DEF IInv, TypeOK, Ended
<1>10. GhostOnlyAfterSwitch'
  <2> SUFFICES ASSUME NEW q \in Rooms, NEW v \in Users, NEW d \in Conns,
                      rooms'[q][v] = d, Ended(d)'
               PROVE  roomId[d] # q
    BY DEF GhostOnlyAfterSwitch
  <2>1. rooms[q][v] = d /\ ~(q = roomId[c] /\ v = uid[c] /\ d = c)
    BY <1>2
  <2>2. CASE d = c
    BY <2>1, <2>2 DEF IInv, SlotsKeyed
  <2>3. CASE d # c
    BY <2>1, <2>3, <1>8 DEF IInv, GhostOnlyAfterSwitch
  <2> QED
    BY <2>2, <2>3
<1>11. RoomSlotHeld'
  <2> SUFFICES ASSUME NEW d \in Conns,
                      conn[d] = "open", hpc[d] = "idle", roomId[d] # None
               PROVE  rooms'[roomId[d]][uid[d]] = d \/ Overtaken(d)'
    BY DEF RoomSlotHeld
  <2>1. d # c /\ uid[d] \in Users /\ roomId[d] \in Rooms
    BY DEF IInv, TypeOK, Lifecycle
  <2>2. Overtaken(d)' <=> Overtaken(d)
    BY DEF Overtaken
  <2> QED
    BY <1>2, <2>1, <2>2 DEF IInv, RoomSlotHeld
<1> QED
  BY <1>2, <1>3, <1>4, <1>5, <1>6, <1>7, <1>10, <1>11 DEF IInv

\* Client.ending, second and third part: removeClient and the counter.
LEMMA MonitorEndsStep ==
    ASSUME IInv, NEW c \in Conns, MonitorRemoves(c) \/ MonitorQuits(c)
    PROVE  IInv'
<1> USE ConstantsAssumption
<1> USE DEF MonitorRemoves, MonitorQuits, RemoveClient, connVars, roomVars,
            handlerVars, tableVars
<1>1. uid[c] \in Users /\ Ended(c)
  BY DEF IInv, TypeOK, Lifecycle, Ended
<1>2. \A d \in Conns : Ended(d)' <=> Ended(d)
  BY DEF IInv, TypeOK, Ended
<1>3. TypeOK'
  <2>0. /\ mpc \in [Conns -> {"none", "watch", "left", "removed", "done"}]
        /\ loginUsers \in Int
    BY DEF IInv, TypeOK
  <2>1. /\ mpc' \in [Conns -> {"none", "watch", "left", "removed", "done"}]
        /\ loginUsers' \in Int
    <3>1. \/ mpc' = [mpc EXCEPT ![c] = "removed"] /\ loginUsers' = loginUsers
          \/ mpc' = [mpc EXCEPT ![c] = "done"] /\ loginUsers' = loginUsers - 1
      OBVIOUS
    <3> HIDE DEF MonitorRemoves, MonitorQuits
    <3> QED
      BY <2>0, <3>1
  <2>2. clients' \in [Users -> Conns \cup {None}]
    BY <1>1 DEF IInv, TypeOK
  <2>3. UNCHANGED <<conn, handshaked, escaped, userData, uid, roomId, rooms, roomKeys,
                    entered, hpc, target, latest, server>>
    OBVIOUS
  <2> HIDE DEF MonitorRemoves, MonitorQuits
  <2> QED
    BY <2>1, <2>2, <2>3 DEF IInv, TypeOK
<1>4. Lifecycle'
  BY <1>2 DEF IInv, TypeOK, Lifecycle
<1>5. LatestOnly'
  BY DEF IInv, LatestOnly
<1>6. RegistryExact'
  <2> SUFFICES ASSUME NEW u \in Users
               PROVE  clients'[u] = IF latest[u] # None /\ mpc'[latest[u]] \in {"watch", "left"}
                                    THEN latest[u] ELSE None
    BY DEF RegistryExact
  <2>1. CASE u = uid[c] /\ latest[u] = c
    BY <2>1 DEF IInv, TypeOK, RegistryExact
  <2>2. CASE u = uid[c] /\ latest[u] # c
    BY <2>2 DEF IInv, TypeOK, RegistryExact
  <2>3. CASE u # uid[c]
    BY <1>1, <2>3 DEF IInv, TypeOK, RegistryExact, LatestOnly
  <2> QED
    BY <2>1, <2>2, <2>3
<1>7. SlotsKeyed' /\ RoomKeysTight'
  BY DEF IInv, SlotsKeyed, RoomKeysTight, EmptyRoom
<1>8. GhostOnlyAfterSwitch' /\ RoomSlotHeld'
  BY <1>2 DEF IInv, GhostOnlyAfterSwitch, RoomSlotHeld, Overtaken
<1> QED
  BY <1>3, <1>4, <1>5, <1>6, <1>7, <1>8 DEF IInv

-----------------------------------------------------------------------------
\* The inductive invariant holds in a connector that has just started.
LEMMA IInvInit == Init => IInv
<1> SUFFICES ASSUME Init PROVE IInv
  OBVIOUS
<1> USE DEF Init, EmptyRoom
<1>1. TypeOK
  BY DEF TypeOK
<1>2. Lifecycle /\ LatestOnly /\ RegistryExact
  BY ConstantsAssumption DEF Lifecycle, LatestOnly, RegistryExact, Ended
<1>3. SlotsKeyed /\ RoomKeysTight /\ RoomSlotHeld /\ GhostOnlyAfterSwitch
  BY DEF SlotsKeyed, RoomKeysTight, RoomSlotHeld, GhostOnlyAfterSwitch, Ended
<1> QED
  BY <1>1, <1>2, <1>3 DEF IInv

\* Every step of the handlers, the monitors, bdmsg and main preserves it.
LEMMA IInvStep == IInv /\ [Next]_vars => IInv'
<1> SUFFICES ASSUME IInv, [Next]_vars PROVE IInv'
  OBVIOUS
<1>1. ASSUME NEW c \in Conns, Pumper(c) PROVE IInv'
  BY <1>1, ConnActions
<1>2. ASSUME NEW c \in Conns, Handler(c) PROVE IInv'
  <2>1. CASE \E u \in Users : HandleRegister(c, u)
    BY <2>1, RegisterStep
  <2>2. CASE Handshake(c)
    BY <2>2, HandshakeStep
  <2>3. CASE \/ RegisterRejected(c) \/ GuardedHandlerEscapes(c)
             \/ RefreshTokenRejected(c) \/ OpenHandlerPanics(c)
    BY <2>3, ConnActions
  <2>4. CASE \E r \in Rooms : HandleEnterRoom(c, r) \/ HandleChat(c, r)
    BY <2>4, BeginEnterStep DEF HandleEnterRoom, HandleChat
  <2>5. CASE FinishEnter(c)
    BY <2>5, FinishEnterStep
  <2> QED
    BY <1>2, <2>1, <2>2, <2>3, <2>4, <2>5 DEF Handler
<1>3. ASSUME NEW c \in Conns, Monitor(c) PROVE IInv'
  BY <1>3, ConnActions, MonitorLeavesRoomStep, MonitorEndsStep DEF Monitor
<1>4. CASE \E silent \in SUBSET Tabled : HeartBeatSweep(silent)
  <2>1. PICK silent \in SUBSET Tabled : HeartBeatSweep(silent)
    BY <1>4
  <2>2. ConnMoves
    BY <2>1, StopMoves DEF HeartBeatSweep, IInv
  <2> QED
    BY <2>1, <2>2, ConnStep DEF HeartBeatSweep, IInv, TypeOK
<1>5. CASE ServerStop
  BY <1>5, ConnStep DEF ServerStop, ConnMoves, connVars, IInv, TypeOK
<1>6. CASE CloseAll
  BY <1>6, ConnStep, StopMoves DEF CloseAll, IInv, TypeOK
<1>7. CASE WaitClients
  BY <1>7, ConnStep DEF WaitClients, ConnMoves, connVars, IInv, TypeOK
<1>8. CASE UNCHANGED vars
  BY <1>8, ConnStep DEF vars, connVars, ConnMoves, IInv, TypeOK
<1> QED
  BY <1>1, <1>2, <1>3, <1>4, <1>5, <1>6, <1>7, <1>8 DEF Next, Exited

\* Type correctness and the inductive invariant, for every instance.
THEOREM InductiveInvariant == Spec => []IInv
BY IInvInit, IInvStep, PTL DEF Spec

\* The client table holds exactly the last registration of every user until
\* that registration's own teardown.
THEOREM RegistryIsExact == Spec => []RegistryExact
<1>1. IInv => RegistryExact
  BY DEF IInv
<1> QED
  BY <1>1, InductiveInvariant, PTL

\* Two registrations of a user id are never both live.
THEOREM OneLive == Spec => []OneLivePerUser
<1>1. IInv => OneLivePerUser
  BY DEF IInv, LatestOnly, OneLivePerUser
<1> QED
  BY <1>1, InductiveInvariant, PTL

\* A live client keeps its room slot unless a superseded connection of its
\* own user took it; and the outer room map has exactly the non-empty rooms.
THEOREM RoomTables == Spec => [](RoomSlotHeld /\ RoomKeysTight)
<1>1. IInv => RoomSlotHeld /\ RoomKeysTight
  BY DEF IInv
<1> QED
  BY <1>1, InductiveInvariant, PTL

\* Client.ending never leaves a dead client in the last room it entered.
THEOREM NoGhostInLastRoom == Spec => []GhostOnlyAfterSwitch
<1>1. IInv => GhostOnlyAfterSwitch
  BY DEF IInv
<1> QED
  BY <1>1, InductiveInvariant, PTL

-----------------------------------------------------------------------------
\* The clients that createClient has counted and ending has not.
LoggedIn == {c \in Conns : mpc[c] \in {"watch", "left", "removed"}}

\* info.LoginUsers is the number of Client objects that have not ended.
Counted == loginUsers = Cardinality(LoggedIn)

\* Clients are created by the Register handler and ended by their monitor;
\* no other step touches the counter.
LEMMA LoggedInStep ==
    ASSUME IInv, [Next]_vars,
           ~ \E c \in Conns, u \in Users : HandleRegister(c, u),
           ~ \E c \in Conns : MonitorQuits(c)
    PROVE  loginUsers' = loginUsers /\ LoggedIn' = LoggedIn
<1> USE DEF IInv, TypeOK, LoggedIn, clientVars
<1>1. CASE UNCHANGED <<loginUsers, mpc>>
  BY <1>1
<1>2. ASSUME NEW c \in Conns, Pumper(c) PROVE UNCHANGED <<loginUsers, mpc>>
  BY <1>2 DEF Pumper, Accept, PumperStops, PeerGone, HandshakeTimeout
<1>3. ASSUME NEW c \in Conns, Handler(c) PROVE UNCHANGED <<loginUsers, mpc>>
  BY <1>3 DEF Handler, Handshake, RegisterRejected, GuardedHandlerEscapes,
              RefreshTokenRejected, OpenHandlerPanics, HandleEnterRoom, HandleChat,
              BeginEnter, FinishEnter
<1>4. ASSUME NEW c \in Conns, Monitor(c) PROVE loginUsers' = loginUsers /\ LoggedIn' = LoggedIn
  BY <1>4 DEF Monitor, SessionExpired, MonitorLeavesRoom, MonitorRemoves
<1>5. ASSUME (\E S \in SUBSET Tabled : HeartBeatSweep(S)) \/ ServerStop \/ CloseAll \/ WaitClients
      PROVE UNCHANGED <<loginUsers, mpc>>
  BY <1>5 DEF HeartBeatSweep, ServerStop, CloseAll, WaitClients
<1>6. ASSUME UNCHANGED vars PROVE UNCHANGED <<loginUsers, mpc>>
  BY <1>6 DEF vars
<1> QED
  BY <1>1, <1>2, <1>3, <1>4, <1>5, <1>6 DEF Next, Exited

\* The counter stays exact: a registration adds a new Client, the end of
\* ending takes away its own.
LEMMA CountedStep == IInv /\ Counted /\ [Next]_vars => Counted'
<1> SUFFICES ASSUME IInv, Counted, [Next]_vars PROVE Counted'
  OBVIOUS
<1>0. IsFiniteSet(LoggedIn) /\ loginUsers \in Int /\ mpc \in [Conns -> {"none", "watch", "left", "removed", "done"}]
  <2>1. LoggedIn \subseteq Conns
    BY DEF LoggedIn
  <2> QED
    BY <2>1, ConstantsAssumption, FS_Subset DEF IInv, TypeOK
<1>1. ASSUME NEW c \in Conns, NEW u \in Users, HandleRegister(c, u) PROVE Counted'
  <2>1. mpc[c] = "none" /\ mpc' = [mpc EXCEPT ![c] = "watch"] /\ loginUsers' = loginUsers + 1
    BY <1>1 DEF HandleRegister, ClientIn, CreateClient, IInv, Lifecycle
  <2>2. LoggedIn' = LoggedIn \cup {c} /\ c \notin LoggedIn
    BY <1>0, <2>1 DEF LoggedIn
  <2> QED
    BY <1>0, <2>1, <2>2, FS_AddElement DEF Counted
<1>2. ASSUME NEW c \in Conns, MonitorQuits(c) PROVE Counted'
  <2>1. mpc[c] = "removed" /\ mpc' = [mpc EXCEPT ![c] = "done"] /\ loginUsers' = loginUsers - 1
    BY <1>2 DEF MonitorQuits
  <2>2. LoggedIn' = LoggedIn \ {c} /\ c \in LoggedIn
    BY <1>0, <2>1 DEF LoggedIn
  <2> QED
    BY <1>0, <2>1, <2>2, FS_RemoveElement DEF Counted
<1> QED
  BY <1>1, <1>2, LoggedInStep DEF Counted

\* info.LoginUsers never undercounts the client table, and is its size when
\* no client is being torn down.
THEOREM LoginUsersTheorem == Spec => []LoginUsersTracks
<1>1. Init => Counted
  <2> SUFFICES ASSUME Init PROVE LoggedIn = {} /\ loginUsers = 0
    BY FS_EmptySet DEF Counted
  <2> QED
    BY DEF Init, LoggedIn
<1>2. IInv /\ Counted => LoginUsersTracks
  <2> SUFFICES ASSUME IInv, Counted PROVE LoginUsersTracks
    OBVIOUS
  <2>1. Tabled \subseteq LoggedIn
    BY DEF Tabled, LoggedIn, IInv, TypeOK, RegistryExact
  <2>2. IsFiniteSet(LoggedIn)
    BY ConstantsAssumption, FS_Subset DEF LoggedIn
  <2>3. Cardinality(Tabled) <= loginUsers
    BY <2>1, <2>2, FS_Subset DEF Counted
  <2>4. ASSUME Quiet PROVE LoggedIn \subseteq Tabled
    <3> SUFFICES ASSUME NEW c \in LoggedIn PROVE c \in Tabled
      OBVIOUS
    <3>1. c \in Conns /\ mpc[c] = "watch" /\ conn[c] = "open"
      BY <2>4 DEF LoggedIn, Quiet
    <3>2. uid[c] \in Users /\ latest[uid[c]] = c
      BY <3>1 DEF IInv, TypeOK, Lifecycle, LatestOnly
    <3>3. clients[uid[c]] = c /\ c # None
      BY <3>1, <3>2, ConstantsAssumption DEF IInv, RegistryExact
    <3> QED
      BY <3>2, <3>3 DEF Tabled
  <2>5. Quiet => loginUsers = Cardinality(Tabled)
    <3> SUFFICES ASSUME Quiet PROVE LoggedIn = Tabled
      BY DEF Counted
    <3> QED
      BY <2>1, <2>4
  <2> QED
    BY <2>3, <2>5 DEF LoginUsersTracks
<1> QED
  BY <1>1, <1>2, CountedStep, InductiveInvariant, PTL DEF Spec

-----------------------------------------------------------------------------
\* The connections that have a Client, and those told to stop.
Used == {c \in Conns : uid[c] # None}
Over == {c \in Conns : conn[c] \in {"stopping", "stopped"}}

\* A step that leaves the table and the Clients alone and stops some
\* connections is a step or a stutter of SingleLogin.
LEMMA EndStep ==
    ASSUME ConnMoves, UNCHANGED <<clients, uid>>
    PROVE  [Login!Next]_(Login!vars)
<1>1. Over' = Over \cup (Over' \ Over) /\ Over' \ Over \in SUBSET Conns
  BY DEF Over, ConnMoves
<1>2. \E S \in SUBSET Conns : Over' = Over \cup S
  BY <1>1
<1>3. \E S \in SUBSET Conns : Login!End(S)
  BY <1>2 DEF Login!End, Over
<1> QED
  BY <1>3 DEF Login!Next

\* clientIn takes the user over and stops the previous holder in one step.
LEMMA LogInStep ==
    ASSUME IInv, NEW c \in Conns, NEW u \in Users, HandleRegister(c, u)
    PROVE  Login!LogIn(u, c)
<1> USE ConstantsAssumption
<1>1. uid[c] = None /\ uid' = [uid EXCEPT ![c] = u]
  BY DEF HandleRegister, ClientIn, CreateClient, IInv, Lifecycle
<1>2. Used' = Used \cup {c} /\ c \notin Used
  BY <1>1 DEF Used, IInv, TypeOK
<1>3. Superseded(u) \subseteq Conns /\ \A d \in Superseded(u) : conn[d] # "idle"
  <2> SUFFICES ASSUME clients[u] # None
               PROVE  clients[u] \in Conns /\ conn[clients[u]] # "idle"
    BY DEF Superseded
  <2>1. clients[u] \in Conns /\ clients[u] = latest[u]
    BY DEF IInv, TypeOK, RegistryExact
  <2> QED
    BY <2>1 DEF IInv, LatestOnly, Lifecycle
<1>4. Over' = Over \cup Superseded(u)
  BY <1>3 DEF HandleRegister, ClientIn, Stop, Over, IInv, TypeOK
<1> QED
  BY <1>2, <1>4 DEF HandleRegister, ClientIn, Login!LogIn, Used, Over, Superseded

\* removeClient releases a user only after its holder has stopped.
LEMMA LogOutStep ==
    ASSUME IInv, NEW c \in Conns, MonitorRemoves(c)
    PROVE  [Login!Next]_(Login!vars)
<1> USE DEF MonitorRemoves, RemoveClient, connVars
<1>1. uid[c] \in Users /\ conn[c] = "stopped"
  BY DEF IInv, TypeOK, Lifecycle, Ended
<1>2. CASE clients[uid[c]] = c
  <2>1. Login!LogOut(uid[c])
    BY <1>1, <1>2 DEF Login!LogOut
  <2> QED
    BY <1>1, <2>1 DEF Login!Next
<1>3. CASE clients[uid[c]] # c
  BY <1>3 DEF Login!vars
<1> QED
  BY <1>2, <1>3

\* The session core implements SingleLogin: one holder per user id, replaced
\* only together with a stop request, released only after one.
THEOREM Refinement == Spec => ImplementsSingleLogin
<1>1. Init => Login!Init
  BY DEF Init, Login!Init
<1>2. IInv /\ [Next]_vars => [Login!Next]_(Login!vars)
  <2> SUFFICES ASSUME IInv, [Next]_vars PROVE [Login!Next]_(Login!vars)
    OBVIOUS
  <2> USE DEF connVars, clientVars, roomVars, handlerVars, tableVars
  <2>0. TypeOK
    BY DEF IInv
  <2>1. ASSUME NEW c \in Conns, Pumper(c) PROVE [Login!Next]_(Login!vars)
    <3>1. CASE Accept(c)
      BY <3>1, <2>0, EndStep DEF Accept, ConnMoves, TypeOK
    <3>2. CASE PumperStops(c)
      BY <3>2, <2>0, EndStep DEF PumperStops, ConnMoves, TypeOK
    <3>3. CASE PeerGone(c)
      BY <3>3, <2>0, EndStep, StopMoves DEF PeerGone
    <3>4. CASE HandshakeTimeout(c)
      BY <3>4, <2>0, EndStep, StopMoves DEF HandshakeTimeout
    <3> QED
      BY <2>1, <3>1, <3>2, <3>3, <3>4 DEF Pumper
  <2>2. ASSUME NEW c \in Conns, Handler(c) PROVE [Login!Next]_(Login!vars)
    <3>1. CASE \E u \in Users : HandleRegister(c, u)
      BY <3>1, LogInStep DEF Login!Next
    <3>2. CASE Handshake(c) \/ FinishEnter(c)
      BY <3>2 DEF Handshake, FinishEnter, Login!vars
    <3>3. CASE RegisterRejected(c) \/ RefreshTokenRejected(c)
      BY <3>3, <2>0, EndStep, StopMoves DEF RegisterRejected, RefreshTokenRejected
    <3>4. CASE GuardedHandlerEscapes(c) \/ OpenHandlerPanics(c)
      <4>1. ConnMoves
        BY <3>4, <2>0 DEF GuardedHandlerEscapes, OpenHandlerPanics, Picks,
                          PumperPanics, ConnMoves, TypeOK
      <4> QED
        BY <3>4, <4>1, EndStep DEF GuardedHandlerEscapes, OpenHandlerPanics
    <3>5. CASE \E r \in Rooms : HandleEnterRoom(c, r) \/ HandleChat(c, r)
      BY <3>5 DEF HandleEnterRoom, HandleChat, BeginEnter, Login!vars
    <3> QED
      BY <2>2, <3>1, <3>2, <3>3, <3>4, <3>5 DEF Handler
  <2>3. ASSUME NEW c \in Conns, Monitor(c) PROVE [Login!Next]_(Login!vars)
    <3>1. CASE SessionExpired(c)
      BY <3>1, <2>0, EndStep, StopMoves DEF SessionExpired
    <3>2. CASE MonitorLeavesRoom(c) \/ MonitorQuits(c)
      BY <3>2 DEF MonitorLeavesRoom, MonitorQuits, Login!vars
    <3> QED
      BY <2>3, <3>1, <3>2, LogOutStep DEF Monitor
  <2>4. CASE \E silent \in SUBSET Tabled : HeartBeatSweep(silent)
    <3>1. PICK silent \in SUBSET Tabled : HeartBeatSweep(silent)
      BY <2>4
    <3> QED
      BY <3>1, <2>0, EndStep, StopMoves DEF HeartBeatSweep
  <2>5. CASE CloseAll
    BY <2>5, <2>0, EndStep, StopMoves DEF CloseAll
  <2>6. CASE ServerStop \/ WaitClients \/ UNCHANGED vars
    BY <2>6 DEF ServerStop, WaitClients, vars, Login!vars
  <2> QED
    BY <2>1, <2>2, <2>3, <2>4, <2>5, <2>6 DEF Next, Exited
<1> QED
  BY <1>1, <1>2, InductiveInvariant, PTL DEF Spec, ImplementsSingleLogin, Login!Spec

-----------------------------------------------------------------------------
(***************************************************************************)
(* The shutdown sequence.                                                  *)
(***************************************************************************)

\* main has exited: no pumper runs any more, so nothing registers.
NobodyServed ==
    server = "exited" => \A c \in Conns : conn[c] \in {"idle", "stopped"}

\* The inductive invariant: that of Sessions, and what CloseAll achieved.
ShutdownInv == IInv /\ NobodyServed /\ OnlyLateRemain

\* Only the server accepts, and it no longer does when main shuts down; so a
\* step of anybody but main opens no connection after that.
LEMMA NothingOpens ==
    ASSUME IInv, Next, server # "running"
    PROVE  /\ \A c \in Conns : conn'[c] = "open" => conn[c] = "open"
           /\ \A c \in Conns : conn[c] \in {"idle", "stopped"} => conn'[c] = conn[c]
<1> USE DEF IInv, TypeOK, connVars
<1>1. ASSUME NEW S, Stop(S)
      PROVE  /\ \A c \in Conns : conn'[c] = "open" => conn[c] = "open"
             /\ \A c \in Conns : conn[c] \in {"idle", "stopped"} => conn'[c] = conn[c]
  BY <1>1 DEF Stop
<1>2. ASSUME NEW c \in Conns, conn[c] \in {"open", "stopping"},
             conn' = [conn EXCEPT ![c] = "stopped"]
      PROVE  /\ \A d \in Conns : conn'[d] = "open" => conn[d] = "open"
             /\ \A d \in Conns : conn[d] \in {"idle", "stopped"} => conn'[d] = conn[d]
  BY <1>2
<1>3. ASSUME NEW c \in Conns, Pumper(c)
      PROVE  (\E S : Stop(S)) \/ (conn[c] = "stopping" /\ conn' = [conn EXCEPT ![c] = "stopped"])
  BY <1>3 DEF Pumper, Accept, PumperStops, PeerGone, HandshakeTimeout
<1>4. ASSUME NEW c \in Conns, Handler(c)
      PROVE  \/ \E S : Stop(S)
             \/ conn[c] \in {"open", "stopping"} /\ conn' = [conn EXCEPT ![c] = "stopped"]
             \/ conn' = conn
  BY <1>4 DEF Handler, HandleRegister, ClientIn, Handshake, RegisterRejected,
              GuardedHandlerEscapes, RefreshTokenRejected, OpenHandlerPanics, Picks,
              PumperPanics, HandleEnterRoom, HandleChat, BeginEnter, FinishEnter
<1>5. ASSUME NEW c \in Conns, Monitor(c) PROVE (\E S : Stop(S)) \/ conn' = conn
  BY <1>5 DEF Monitor, SessionExpired, MonitorLeavesRoom, MonitorRemoves, MonitorQuits
<1>6. ASSUME \/ \E S \in SUBSET Tabled : HeartBeatSweep(S)
             \/ ServerStop \/ CloseAll \/ WaitClients \/ Exited
      PROVE  (\E S : Stop(S)) \/ conn' = conn
  BY <1>6 DEF HeartBeatSweep, ServerStop, CloseAll, WaitClients, Exited, vars
<1> QED
  BY <1>1, <1>2, <1>3, <1>4, <1>5, <1>6 DEF Next

\* main moves on by its own three steps, and only a Register handler that
\* picked its message gives a connection a Client.
LEMMA ServerMoves ==
    ASSUME IInv, Next
    PROVE  /\ \/ server' = server \/ ServerStop \/ CloseAll \/ WaitClients
           /\ \A c \in Conns : \/ uid'[c] = uid[c]
                               \/ conn[c] \in {"open", "stopping"} /\ uid[c] = None
<1> USE DEF IInv, TypeOK, clientVars
<1>1. ASSUME NEW c \in Conns, NEW u \in Users, HandleRegister(c, u)
      PROVE  server' = server /\ \A d \in Conns : uid'[d] = uid[d] \/
                 (conn[d] \in {"open", "stopping"} /\ uid[d] = None)
  BY <1>1 DEF HandleRegister, Picks, ClientIn, CreateClient, Lifecycle
<1>2. ASSUME NEW c \in Conns, Pumper(c) \/ Monitor(c) PROVE UNCHANGED <<server, uid>>
  BY <1>2 DEF Pumper, Accept, PumperStops, PeerGone, HandshakeTimeout, Monitor,
              SessionExpired, MonitorLeavesRoom, MonitorRemoves, MonitorQuits
<1>3. ASSUME NEW c \in Conns, Handler(c), ~ \E u \in Users : HandleRegister(c, u)
      PROVE  UNCHANGED <<server, uid>>
  BY <1>3 DEF Handler, Handshake, RegisterRejected, GuardedHandlerEscapes,
              RefreshTokenRejected, OpenHandlerPanics, HandleEnterRoom, HandleChat,
              BeginEnter, FinishEnter
<1>4. ASSUME (\E S \in SUBSET Tabled : HeartBeatSweep(S)) \/ Exited
      PROVE  UNCHANGED <<server, uid>>
  BY <1>4 DEF HeartBeatSweep, Exited, vars
<1>5. ASSUME ServerStop \/ CloseAll \/ WaitClients PROVE uid' = uid
  BY <1>5 DEF ServerStop, CloseAll, WaitClients
<1> QED
  BY <1>1, <1>2, <1>3, <1>4, <1>5 DEF Next

\* Every step, with the memory of late registrations, preserves it.
LEMMA ShutdownStep == ShutdownInv /\ [SNext]_svars => ShutdownInv'
<1> SUFFICES ASSUME ShutdownInv, [SNext]_svars PROVE ShutdownInv'
  OBVIOUS
<1>1. IInv /\ IInv'
  BY IInvStep DEF ShutdownInv, SNext, svars
<1>2. CASE UNCHANGED svars
  BY <1>1, <1>2 DEF svars, vars, connVars, clientVars, ShutdownInv, NobodyServed, OnlyLateRemain
<1>3. CASE SNext
  <2>0. Next /\ Remember
    BY <1>3 DEF SNext
  <2>1. CASE server = "running"
    <3>1. server' \in {"running", "stopped"}
      BY <1>1, <2>0, <2>1, ServerMoves DEF ServerStop, CloseAll, WaitClients
    <3> QED
      BY <1>1, <3>1 DEF ShutdownInv, NobodyServed, OnlyLateRemain
  <2>2. CASE server # "running"
    <3>1. /\ \A c \in Conns : conn'[c] = "open" => conn[c] = "open"
          /\ \A c \in Conns : conn[c] \in {"idle", "stopped"} => conn'[c] = conn[c]
      BY <1>1, <2>0, <2>2, NothingOpens
    <3>2. NobodyServed'
      BY <1>1, <2>0, <2>2, <3>1, ServerMoves DEF ShutdownInv, NobodyServed,
         ServerStop, CloseAll, WaitClients, connVars
    <3>3. OnlyLateRemain'
      <4>1. CASE CloseAll
        <5> SUFFICES ASSUME NEW c \in Conns, conn'[c] = "open", uid'[c] # None PROVE FALSE
          BY DEF OnlyLateRemain
        <5>1. uid[c] # None /\ conn[c] = "open" /\ c \notin Tabled
          BY <1>1, <3>1, <4>1 DEF CloseAll, Stop, clientVars, IInv, TypeOK
        <5>2. uid[c] \in Users /\ latest[uid[c]] = c /\ mpc[c] = "watch"
          <6>1. uid[c] \in Users /\ latest[uid[c]] = c
            BY <1>1, <5>1 DEF IInv, TypeOK, LatestOnly
          <6>2. mpc[c] # "none" /\ ~Ended(c)
            BY <1>1, <5>1 DEF IInv, Lifecycle
          <6>3. mpc[c] \in {"none", "watch", "left", "removed", "done"}
            BY <1>1 DEF IInv, TypeOK
          <6> QED
            BY <6>1, <6>2, <6>3 DEF Ended
        <5>3. clients[uid[c]] = c /\ c # None
          BY <1>1, <5>2, ConstantsAssumption DEF IInv, RegistryExact
        <5> QED
          BY <5>1, <5>2, <5>3 DEF Tabled
      <4>2. CASE ~CloseAll
        <5>1. server' \in {"closed", "exited"} => server \in {"closed", "exited"}
          BY <1>1, <2>0, <2>2, <4>2, ServerMoves DEF ServerStop, WaitClients
        <5> SUFFICES ASSUME server' \in {"closed", "exited"}, NEW c \in Conns,
                            conn'[c] = "open", uid'[c] # None
                     PROVE  c \in late'
          BY DEF OnlyLateRemain
        <5>2. conn[c] = "open" /\ server \in {"closed", "exited"}
          BY <3>1, <5>1
        <5>3. server = "closed"
          BY <5>2 DEF ShutdownInv, NobodyServed
        <5>4. uid[c] = None \/ c \in late
          BY <5>2 DEF ShutdownInv, OnlyLateRemain
        <5> QED
          BY <2>0, <5>3, <5>4 DEF Remember
      <4> QED
        BY <4>1, <4>2
    <3> QED
      BY <1>1, <3>2, <3>3 DEF ShutdownInv
  <2> QED
    BY <2>1, <2>2
<1> QED
  BY <1>2, <1>3

\* Once CloseAll has returned, every connection that nobody has told to stop
\* has no Client or registered after CloseAll looked at the table, although
\* registrations, takeovers and teardowns overlap with CloseAll.
THEOREM OnlyLateRemainTheorem == SSpec => []OnlyLateRemain
<1>1. SInit => ShutdownInv
  BY IInvInit DEF SInit, ShutdownInv, NobodyServed, OnlyLateRemain, Init
<1>2. ShutdownInv => OnlyLateRemain
  BY DEF ShutdownInv
<1> QED
  BY <1>1, <1>2, ShutdownStep, PTL DEF SSpec
=============================================================================
