--------------------------- MODULE DeliveryProofs ---------------------------
(***************************************************************************)
(* Theorems about Delivery for every set of connections, users and rooms   *)
(* and any number of messages: whom deliverToUser, deliverToRoom and       *)
(* deliverToWorld push to, how often, and in which order.                  *)
(*                                                                         *)
(* The invariant has three layers on top of IInv of Sessions, each         *)
(* preserved by a step with the help of the ones before it.                *)
(***************************************************************************)
EXTENDS Delivery, SessionsProofs, SequenceTheorems

\* The ways a message reaches a client.
Ways == {"user", World} \cup Rooms

\* The places of the subscriber goroutine inside deliverToRoom.
InRoom == {"collect", "each", "helloRoom"}

DeliveryTypes ==
    /\ n \in Nat
    /\ to \in Target
    /\ dpc \in {"idle", "user", "helloUser", "room"} \cup InRoom
    /\ orphan \in BOOLEAN
    /\ userIds \in Seq(Users)
    /\ found \in Conns \cup {None}
    /\ inbox \in [Conns -> Seq(Nat \X Ways)]
    /\ steady \in SUBSET Conns
    /\ present \in SUBSET Conns

\* What the locals of the subscriber hold at each of its places.
Locals ==
    /\ dpc \in InRoom => to.room \in Rooms
    /\ dpc = "helloUser" => to.user \in Users
    /\ found # None => dpc \in {"helloUser", "helloRoom"} /\ uid[found] \in Users
    /\ orphan => dpc = "collect" /\ present = {}
    /\ present # {} => dpc \in InRoom
    /\ userIds # <<>> => dpc \in {"each", "helloRoom"}

\* The clients of the histories hold their user id, those of present also
\* the slot of the room.
Held ==
    /\ \A c \in steady : uid[c] \in Users /\ clients[uid[c]] = c
    /\ \A c \in present :
        /\ uid[c] \in Users
        /\ clients[uid[c]] = c
        /\ rooms[to.room][uid[c]] = c

\* Whoever is in a room, collected from it, looked up for it or pushed to
\* has entered it.
Entrants ==
    /\ \A r \in Rooms, u \in Users : rooms[r][u] # None => entered[r][u] # None
    /\ \A i \in DOMAIN userIds : entered[to.room][userIds[i]] # None
    /\ dpc = "helloRoom" /\ found # None => entered[to.room][uid[found]] # None
    /\ \A c \in Conns : inbox[c] # <<>> => uid[c] \in Users
    /\ RoomPrivacy

\* First layer.
PlaceInv ==
    /\ DeliveryTypes
    /\ Locals
    /\ Held
    /\ Entrants

\* The message under way was pushed to c in one way.
Has(c, how) == \E i \in DOMAIN inbox[c] : inbox[c][i] = <<n, how>>

\* The user id of c is still to be looked up.
Waits(c) == \E i \in DOMAIN userIds : userIds[i] = uid[c]

\* A push of the message under way that may be in an inbox at this place.
Pushed(c, how) ==
    \/ dpc = "idle"
    \/ dpc \in {"room"} \cup InRoom /\ how = "user"
    \/ dpc \in {"each", "helloRoom"} /\ how = to.room /\ ~Waits(c)

\* Second layer: no inbox is ahead of the message under way, no user id is
\* listed twice, and the client looked up for the room had its turn before.
OnceInv ==
    /\ \A i, j \in DOMAIN userIds : i # j => userIds[i] # userIds[j]
    /\ dpc = "helloRoom" /\ found # None => ~Waits(found) /\ ~Has(found, to.room)
    /\ \A c \in Conns : \A i \in DOMAIN inbox[c] :
        /\ inbox[c][i][1] <= n
        /\ inbox[c][i][1] = n => Pushed(c, inbox[c][i][2])
    /\ InboxOrder

\* Third layer: the clients of the histories are served.
ServedInv ==
    /\ \A c \in steady :
        uid[c] = to.user => /\ dpc = "helloUser" => found = c
                            /\ UserDone => Has(c, "user")
    /\ \A c \in present :
        dpc \in {"each", "helloRoom"} =>
            \/ Waits(c)
            \/ Has(c, to.room)
            \/ dpc = "helloRoom" /\ found = c
    /\ \A c \in present :
        uid[c] = to.room =>
            \/ Has(c, to.room)
            \/ /\ \A d \in Conns : ~Has(d, to.room)
               /\ dpc = "each" => userIds # <<>> /\ userIds[1] = to.room
               /\ dpc = "helloRoom" => found = c

-----------------------------------------------------------------------------
\* ClientManager.clients maps a user id to a client of that user, so a client
\* of the table is found under its own id.
TableKeyed ==
    /\ \A u \in Users : clients[u] # None =>
        clients[u] \in Conns /\ uid[clients[u]] = u
    /\ \A c \in Tabled : c \in Conns /\ uid[c] \in Users /\ clients[uid[c]] = c

\* The table is keyed that way, because it holds the last registration of
\* each user (RegistryExact).
LEMMA TableFacts == IInv => TableKeyed
<1> SUFFICES ASSUME IInv PROVE TableKeyed
  OBVIOUS
<1>1. ASSUME NEW u \in Users, clients[u] # None
      PROVE  clients[u] \in Conns /\ uid[clients[u]] = u
  <2>1. clients[u] = latest[u] /\ latest[u] # None
    BY <1>1 DEF IInv, RegistryExact
  <2>2. uid[latest[u]] = u
    BY <2>1 DEF IInv, LatestOnly
  <2> QED
    BY <1>1, <2>1, <2>2 DEF IInv, TypeOK
<1> QED
  BY <1>1 DEF Tabled, TableKeyed

\* What the handlers and the monitors do to a client's id and to the rooms:
\* an id is given once, a room once entered stays entered, and only entering
\* fills a slot.
SlotMoves ==
    /\ \A c \in Conns : uid[c] # None => uid'[c] = uid[c]
    /\ \A r \in Rooms, u \in Users :
        /\ entered[r][u] # None => entered'[r][u] # None
        /\ rooms'[r][u] # None => rooms[r][u] # None \/ entered'[r][u] # None

\* RoomManager.clientIn and RoomManager.ending on the slots.
LEMMA RoomMoves ==
    ASSUME IInv, NEW c \in Conns,
           \/ \E r \in Rooms : HandleEnterRoom(c, r) \/ HandleChat(c, r)
           \/ FinishEnter(c)
           \/ MonitorLeavesRoom(c)
    PROVE  SlotMoves
<1> USE ConstantsAssumption
<1>0. TypeOK /\ RoomKeysTight /\ Lifecycle
  BY DEF IInv
<1>1. CASE \E r \in Rooms : HandleEnterRoom(c, r) \/ HandleChat(c, r)
  <2>1. PICK r \in Rooms : userData[c] = "client" /\ BeginEnter(c, r)
    BY <1>1 DEF HandleEnterRoom, HandleChat
  <2>2. uid[c] \in Users
    BY <1>0, <2>1 DEF Lifecycle, TypeOK
  <2>3. Leave(r, c) /\ UNCHANGED <<uid, entered>>
    BY <2>1 DEF BeginEnter, clientVars
  <2>4. r \in Rooms \cup {None}
    OBVIOUS
  <2>5. \A q \in Rooms, v \in Users :
            rooms'[q][v] = IF q = r /\ v = uid[c] /\ rooms[q][v] = c
                           THEN None ELSE rooms[q][v]
    BY <1>0, <2>2, <2>3, <2>4, LeaveEffect
  <2> QED
    BY <2>3, <2>5 DEF SlotMoves
<1>2. CASE FinishEnter(c)
  <2> DEFINE r == target[c]
             members == IF r \in roomKeys THEN rooms[r] ELSE EmptyRoom
  <2>1. r \in Rooms /\ uid[c] \in Users
    BY <1>0, <1>2 DEF FinishEnter, Lifecycle, TypeOK
  <2>2. /\ rooms' = [rooms EXCEPT ![r] = [members EXCEPT ![uid[c]] = c]]
        /\ entered' = [entered EXCEPT ![r][uid[c]] = c]
        /\ uid' = uid
    BY <1>2 DEF FinishEnter, clientVars
  <2>3. members \in [Users -> Conns \cup {None}]
    BY <1>0, <2>1 DEF TypeOK, EmptyRoom
  <2>4. \A v \in Users : members[v] # None => rooms[r][v] # None
    BY DEF EmptyRoom
  <2> HIDE DEF members, r
  <2>5. \A q \in Rooms, v \in Users :
            rooms'[q][v] = IF q # r THEN rooms[q][v]
                           ELSE IF v = uid[c] THEN c ELSE members[v]
    BY <1>0, <2>1, <2>2, <2>3 DEF TypeOK
  <2>6. \A q \in Rooms, v \in Users :
            entered'[q][v] = IF q = r /\ v = uid[c] THEN c ELSE entered[q][v]
    BY <1>0, <2>1, <2>2 DEF TypeOK
  <2> QED
    BY <2>2, <2>4, <2>5, <2>6 DEF SlotMoves
<1>3. CASE MonitorLeavesRoom(c)
  <2>1. uid[c] \in Users /\ roomId[c] \in Rooms \cup {None}
    BY <1>0, <1>3 DEF MonitorLeavesRoom, Lifecycle, TypeOK
  <2>2. Leave(roomId[c], c) /\ UNCHANGED <<uid, entered>>
    BY <1>3 DEF MonitorLeavesRoom
  <2>3. \A q \in Rooms, v \in Users :
            rooms'[q][v] = IF q = roomId[c] /\ v = uid[c] /\ rooms[q][v] = c
                           THEN None ELSE rooms[q][v]
    BY <1>0, <2>1, <2>2, LeaveEffect
  <2> QED
    BY <2>2, <2>3 DEF SlotMoves
<1> QED
  BY <1>1, <1>2, <1>3

\* Every step of the session core moves ids and slots that way.
LEMMA SessionMoves ==
    ASSUME IInv, [Next]_vars
    PROVE  SlotMoves
<1> USE DEF connVars, clientVars, roomVars, handlerVars, tableVars
<1>1. ASSUME UNCHANGED <<uid, rooms, entered>> PROVE SlotMoves
  BY <1>1 DEF SlotMoves
<1>2. ASSUME NEW c \in Conns, Pumper(c) PROVE SlotMoves
  BY <1>1, <1>2 DEF Pumper, Accept, PumperStops, PeerGone, HandshakeTimeout
<1>3. ASSUME NEW c \in Conns, Handler(c) PROVE SlotMoves
  <2>1. ASSUME NEW u \in Users, HandleRegister(c, u) PROVE SlotMoves
    <3>1. uid[c] = None
      BY <2>1 DEF HandleRegister, IInv, Lifecycle
    <3>2. uid' = [uid EXCEPT ![c] = u] /\ UNCHANGED <<rooms, entered>>
      BY <2>1 DEF HandleRegister, ClientIn, CreateClient
    <3> QED
      BY <3>1, <3>2 DEF SlotMoves, IInv, TypeOK
  <2>2. CASE \/ Handshake(c) \/ RegisterRejected(c) \/ GuardedHandlerEscapes(c)
             \/ RefreshTokenRejected(c) \/ OpenHandlerPanics(c)
    BY <1>1, <2>2 DEF Handshake, RegisterRejected, GuardedHandlerEscapes,
                      RefreshTokenRejected, OpenHandlerPanics
  <2> QED
    BY <1>3, <2>1, <2>2, RoomMoves DEF Handler
<1>4. ASSUME NEW c \in Conns, Monitor(c) PROVE SlotMoves
  <2>1. CASE SessionExpired(c) \/ MonitorRemoves(c) \/ MonitorQuits(c)
    BY <1>1, <2>1 DEF SessionExpired, MonitorRemoves, MonitorQuits
  <2> QED
    BY <1>4, <2>1, RoomMoves DEF Monitor
<1>5. CASE \/ \E silent \in SUBSET Tabled : HeartBeatSweep(silent)
           \/ ServerStop \/ CloseAll \/ WaitClients \/ Exited \/ UNCHANGED vars
  BY <1>1, <1>5 DEF HeartBeatSweep, ServerStop, CloseAll, WaitClients, Exited, vars
<1> QED
  BY <1>2, <1>3, <1>4, <1>5 DEF Next

-----------------------------------------------------------------------------
\* The message under way is appended to the queues of the clients of S.
PushTo(S, how) ==
    inbox' = [c \in Conns |-> IF c \in S THEN Append(inbox[c], <<n, how>>)
                                         ELSE inbox[c]]

\* ServerHello on the client found, or on none.
LEMMA HelloPushes ==
    ASSUME DeliveryTypes, NEW c \in Conns \cup {None}, NEW how, Hello(c, how)
    PROVE  PushTo({c} \ {None}, how)
BY ConstantsAssumption DEF DeliveryTypes, Hello, PushTo

\* What a push leaves in the queues: what was there, and one entry more at
\* the end of those it appends to.
Grown(S, how) ==
    /\ inbox' \in [Conns -> Seq(Nat \X Ways)]
    /\ \A c \in Conns \ S : inbox'[c] = inbox[c]
    /\ \A c \in S : Len(inbox[c]) + 1 \in DOMAIN inbox'[c]
                    /\ inbox'[c][Len(inbox[c]) + 1] = <<n, how>>
    /\ \A c \in Conns : \A i \in DOMAIN inbox[c] :
        i \in DOMAIN inbox'[c] /\ inbox'[c][i] = inbox[c][i] /\ i < Len(inbox[c]) + 1
    /\ \A c \in Conns : \A i \in DOMAIN inbox'[c] :
        \/ i \in DOMAIN inbox[c]
        \/ c \in S /\ i = Len(inbox[c]) + 1 /\ inbox'[c][i] = <<n, how>>

\* The queues grow that way (Client.a appends to Client.queue).
LEMMA PushFacts ==
    ASSUME DeliveryTypes, NEW S \in SUBSET Conns, NEW how \in Ways, PushTo(S, how)
    PROVE  Grown(S, how)
<1>1. <<n, how>> \in Nat \X Ways
  BY DEF DeliveryTypes
<1>2. \A c \in Conns : inbox[c] \in Seq(Nat \X Ways)
  BY DEF DeliveryTypes
<1>3. ASSUME NEW c \in Conns
      PROVE  /\ Append(inbox[c], <<n, how>>) \in Seq(Nat \X Ways)
             /\ Len(inbox[c]) \in Nat
             /\ DOMAIN inbox[c] = 1..Len(inbox[c])
             /\ DOMAIN Append(inbox[c], <<n, how>>) = 1..(Len(inbox[c]) + 1)
             /\ Append(inbox[c], <<n, how>>)[Len(inbox[c]) + 1] = <<n, how>>
             /\ \A i \in 1..Len(inbox[c]) :
                    Append(inbox[c], <<n, how>>)[i] = inbox[c][i]
  BY <1>1, <1>2
<1>4. \A c \in Conns : inbox'[c] = IF c \in S THEN Append(inbox[c], <<n, how>>)
                                              ELSE inbox[c]
  BY DEF PushTo
<1>5. inbox' \in [Conns -> Seq(Nat \X Ways)]
  BY <1>2, <1>3 DEF PushTo
<1>6. ASSUME NEW c \in Conns, NEW i \in DOMAIN inbox[c]
      PROVE  /\ i \in DOMAIN inbox'[c] /\ inbox'[c][i] = inbox[c][i]
             /\ i < Len(inbox[c]) + 1
  <2>0. i \in 1..Len(inbox[c]) /\ i \in 1..(Len(inbox[c]) + 1) /\ i < Len(inbox[c]) + 1
    BY <1>3
  <2>1. CASE c \in S
    BY <1>3, <1>4, <2>0, <2>1
  <2>2. CASE c \notin S
    BY <1>4, <2>0, <2>2
  <2> QED
    BY <2>1, <2>2
<1>7. ASSUME NEW c \in Conns, NEW i \in DOMAIN inbox'[c]
      PROVE  \/ i \in DOMAIN inbox[c]
             \/ c \in S /\ i = Len(inbox[c]) + 1 /\ inbox'[c][i] = <<n, how>>
  <2>1. CASE c \in S
    <3>1. i \in 1..Len(inbox[c]) \/ i = Len(inbox[c]) + 1
      <4>1. i \in 1..(Len(inbox[c]) + 1) /\ Len(inbox[c]) \in Nat
        BY <1>3, <1>4, <2>1
      <4> QED
        BY <4>1
    <3> QED
      BY <1>3, <1>4, <1>6, <2>1, <3>1
  <2>2. CASE c \notin S
    BY <1>4, <2>2
  <2> QED
    BY <2>1, <2>2
<1>8. ASSUME NEW c \in S
      PROVE  Len(inbox[c]) + 1 \in DOMAIN inbox'[c]
             /\ inbox'[c][Len(inbox[c]) + 1] = <<n, how>>
  <2>1. c \in Conns /\ Len(inbox[c]) \in Nat
    BY <1>3
  <2>2. Len(inbox[c]) + 1 \in 1..(Len(inbox[c]) + 1)
    BY <2>1
  <2> QED
    BY <1>3, <1>4, <2>1, <2>2
<1> QED
  BY <1>4, <1>5, <1>6, <1>7, <1>8 DEF Grown

-----------------------------------------------------------------------------
\* A step of the session core keeps the first layer: whoever leaves the table
\* or the room leaves the histories, and a deleted map takes everybody along.
LEMMA PlaceSession ==
    ASSUME IInv, IInv', TableKeyed', PlaceInv, SessionStep
    PROVE  PlaceInv'
<1> USE ConstantsAssumption
<1>0. DeliveryTypes /\ Locals /\ Held /\ Entrants
  BY DEF PlaceInv
<1>1. UNCHANGED <<n, to, dpc, userIds, found, inbox>>
  BY DEF SessionStep, subscriberVars
<1>2. /\ steady' = {c \in steady : c \in Tabled'}
      /\ present' = {c \in present : c \in Here(to.room)'}
  BY DEF SessionStep
<1>3. orphan' = (orphan \/ (dpc = "collect" /\ to.room \notin roomKeys'))
  BY DEF SessionStep
<1>4. SlotMoves
  BY SessionMoves DEF SessionStep
<1>5. \A c \in Conns : uid[c] \in Users => uid'[c] = uid[c]
  BY <1>4 DEF SlotMoves
<1>6. DeliveryTypes'
  <2>1. orphan' \in BOOLEAN
    BY <1>0, <1>3 DEF DeliveryTypes
  <2> QED
    BY <1>0, <1>1, <1>2, <2>1 DEF DeliveryTypes, Target
<1>7. Held'
  BY <1>1, <1>2 DEF Held, Here, TableKeyed
<1>8. Locals'
  <2>1. present' \subseteq present
    BY <1>2
  <2>2. dpc = "collect" /\ to.room \notin roomKeys' => present' = {}
    <3> SUFFICES ASSUME dpc = "collect", to.room \notin roomKeys', NEW c \in present'
                 PROVE  FALSE
      OBVIOUS
    <3>1. to.room \in Rooms
      BY <1>0 DEF Locals, InRoom
    <3>2. rooms'[to.room] = EmptyRoom'
      BY <3>1 DEF IInv, RoomKeysTight
    <3>3. uid'[c] \in Users /\ rooms'[to.room][uid'[c]] = c /\ c \in Conns
      BY <1>1, <1>6, <1>7 DEF Held, DeliveryTypes
    <3> QED
      BY <3>2, <3>3 DEF EmptyRoom
  <2>3. orphan' => dpc = "collect" /\ present' = {}
    BY <1>0, <1>3, <2>1, <2>2 DEF Locals
  <2>4. found # None => uid'[found] \in Users
    BY <1>0, <1>5 DEF Locals, DeliveryTypes
  <2> QED
    BY <1>0, <1>1, <2>1, <2>3, <2>4 DEF Locals
<1>9. Entrants'
  <2>1. \A i \in DOMAIN userIds : userIds[i] \in Users
    BY <1>0 DEF DeliveryTypes
  <2>2. userIds # <<>> => to.room \in Rooms
    BY <1>0 DEF Locals, InRoom
  <2>3. \A i \in DOMAIN userIds : entered'[to.room][userIds[i]] # None
    <3> TAKE i \in DOMAIN userIds
    <3>1. userIds # <<>>
      OBVIOUS
    <3> QED
      BY <1>0, <1>4, <2>1, <2>2, <3>1 DEF Entrants, SlotMoves
  <2>4. dpc = "helloRoom" /\ found # None => entered'[to.room][uid'[found]] # None
    <3> HAVE dpc = "helloRoom" /\ found # None
    <3>1. to.room \in Rooms /\ found \in Conns /\ uid[found] \in Users
      BY <1>0 DEF Locals, InRoom, DeliveryTypes
    <3> QED
      BY <1>0, <1>4, <1>5, <3>1 DEF Entrants, SlotMoves
  <2>5. \A r \in Rooms, u \in Users : rooms'[r][u] # None => entered'[r][u] # None
    BY <1>0, <1>4 DEF Entrants, SlotMoves
  <2>6. \A c \in Conns : inbox[c] # <<>> => uid[c] \in Users /\ uid'[c] \in Users
    BY <1>0, <1>5 DEF Entrants
  <2>7. RoomPrivacy'
    <3> SUFFICES ASSUME NEW c \in Conns, NEW i \in DOMAIN inbox[c],
                        inbox[c][i][2] \in Rooms
                 PROVE  entered'[inbox[c][i][2]][uid'[c]] # None
      BY <1>1 DEF RoomPrivacy
    <3>1. inbox[c] # <<>>
      OBVIOUS
    <3>2. uid[c] \in Users /\ uid'[c] = uid[c]
      BY <1>5, <2>6, <3>1
    <3>3. entered[inbox[c][i][2]][uid[c]] # None
      BY <1>0 DEF Entrants, RoomPrivacy
    <3> QED
      BY <1>4, <3>2, <3>3 DEF SlotMoves
  <2> QED
    BY <1>1, <2>3, <2>4, <2>5, <2>6, <2>7 DEF Entrants
<1> QED
  BY <1>6, <1>7, <1>8, <1>9 DEF PlaceInv

\* A push to clients that have entered the room, or that is not for a room,
\* keeps the inboxes private.
LEMMA PrivacyKept ==
    ASSUME PlaceInv, NEW S \in SUBSET Conns, NEW how \in Ways, PushTo(S, how),
           UNCHANGED <<uid, entered>>,
           \A c \in S : uid[c] \in Users /\ (how \in Rooms => entered[how][uid[c]] # None)
    PROVE  RoomPrivacy' /\ \A c \in Conns : inbox'[c] # <<>> => uid[c] \in Users
<1>0. DeliveryTypes /\ Entrants
  BY DEF PlaceInv
<1>f. Grown(S, how)
  BY <1>0, PushFacts
<1>1. ASSUME NEW c \in Conns, NEW i \in DOMAIN inbox'[c], inbox'[c][i][2] \in Rooms
      PROVE  entered[inbox'[c][i][2]][uid[c]] # None
  <2>1. CASE i \in DOMAIN inbox[c]
    BY <1>0, <1>1, <1>f, <2>1 DEF Entrants, RoomPrivacy, Grown
  <2>2. CASE i \notin DOMAIN inbox[c]
    BY <1>1, <1>f, <2>2 DEF Grown
  <2> QED
    BY <2>1, <2>2
<1>2. ASSUME NEW c \in Conns, inbox'[c] # <<>> PROVE uid[c] \in Users
  <2>1. CASE c \in S
    BY <2>1
  <2>2. CASE c \notin S
    BY <1>0, <1>2, <1>f, <2>2 DEF Entrants, Grown
  <2> QED
    BY <2>1, <2>2
<1> QED
  BY <1>1, <1>2 DEF RoomPrivacy

\* The inner map of a room is finite: its slots hold different clients.
LEMMA ListedFinite ==
    ASSUME IInv, to.room \in Rooms
    PROVE  IsFiniteSet(Listed)
<1> DEFINE S == {u \in Users : rooms[to.room][u] # None}
           f == [u \in S |-> rooms[to.room][u]]
<1>1. f \in [S -> Conns]
  BY DEF IInv, TypeOK
<1>2. \A u \in S : uid[f[u]] = u
  BY DEF IInv, SlotsKeyed
<1>3. f \in Injection(S, Conns)
  BY <1>1, <1>2 DEF Injection, IsInjective
<1>4. IsFiniteSet(S)
  BY <1>3, FS_Injection, ConstantsAssumption
<1> QED
  BY <1>4, FS_EmptySet DEF Listed

\* A step of the subscriber goroutine keeps the first layer.
LEMMA PlaceSubscriber ==
    ASSUME IInv, PlaceInv, Subscriber
    PROVE  PlaceInv'
<1> USE ConstantsAssumption, DeliveryAssumption
<1>0. DeliveryTypes /\ Locals /\ Held /\ Entrants
  BY DEF PlaceInv
<1>k. TableKeyed
  BY TableFacts
<1>v. UNCHANGED <<uid, clients, rooms, roomKeys, entered>>
  BY DEF Subscriber, Receive, DeliverToUser, HelloUser, NoRoom, DeliverToWorld,
         LookRoom, RoomMissing, Collect, LookupNext, HelloRoom, RoomServed,
         vars, clientVars, roomVars, tableVars
<1>s. Tabled \subseteq Conns
  BY <1>k DEF TableKeyed
<1>1. ASSUME NEW m \in Target, Receive(m) PROVE PlaceInv'
  <2>1. dpc = "idle" /\ dpc' = "user" /\ n' = n + 1 /\ to' = m /\ steady' = Tabled
        /\ UNCHANGED <<userIds, found, inbox, orphan, present>>
    BY <1>1 DEF Receive
  <2>2. userIds = <<>> /\ found = None /\ ~orphan /\ present = {}
    BY <1>0, <2>1 DEF Locals, InRoom
  <2>3. DeliveryTypes'
    BY <1>0, <2>1, <1>s DEF DeliveryTypes, InRoom
  <2>4. Locals'
    BY <2>1, <2>2 DEF Locals, InRoom
  <2>5. Held'
    BY <1>v, <1>k, <2>1, <2>2 DEF Held, TableKeyed
  <2>6. Entrants'
    BY <1>0, <1>v, <2>1, <2>2 DEF Entrants, RoomPrivacy
  <2> QED
    BY <2>3, <2>4, <2>5, <2>6 DEF PlaceInv
<1>2. CASE DeliverToUser
  <2>1. dpc = "user" /\ to.user # None /\ found' = clients[to.user] /\ dpc' = "helloUser"
        /\ UNCHANGED <<n, to, userIds, inbox, orphan, steady, present>>
    BY <1>2 DEF DeliverToUser, historyVars
  <2>2. userIds = <<>> /\ ~orphan /\ present = {} /\ to.user \in Users
    BY <1>0, <2>1 DEF Locals, InRoom, DeliveryTypes, Target
  <2>3. found' \in Conns \cup {None} /\ (found' # None => uid[found'] \in Users)
    BY <1>k, <2>1, <2>2 DEF TableKeyed
  <2>4. DeliveryTypes'
    BY <1>0, <2>1, <2>3 DEF DeliveryTypes, InRoom
  <2>5. Locals'
    BY <1>v, <2>1, <2>2, <2>3 DEF Locals, InRoom
  <2>6. Held' /\ Entrants'
    BY <1>0, <1>v, <2>1, <2>2 DEF Held, Entrants, RoomPrivacy
  <2> QED
    BY <2>4, <2>5, <2>6 DEF PlaceInv
<1>3. CASE HelloUser \/ HelloRoom
  <2> DEFINE how == IF dpc = "helloUser" THEN "user" ELSE to.room
             S == {found} \ {None}
  <2>1. dpc \in {"helloUser", "helloRoom"} /\ Hello(found, how) /\ found' = None
        /\ dpc' = (IF dpc = "helloUser" THEN "room" ELSE "each")
        /\ UNCHANGED <<n, to, userIds, orphan, steady, present>>
    BY <1>3 DEF HelloUser, HelloRoom, historyVars
  <2>2. how \in Ways /\ S \in SUBSET Conns /\ found \in Conns \cup {None}
    BY <1>0, <2>1 DEF Ways, Locals, InRoom, DeliveryTypes
  <2>3. PushTo(S, how)
    BY <1>0, <2>1, <2>2, HelloPushes
  <2>4. \A c \in S : uid[c] \in Users /\ (how \in Rooms => entered[how][uid[c]] # None)
    BY <1>0, <2>1 DEF Locals, Entrants
  <2> HIDE DEF how, S
  <2>5. RoomPrivacy' /\ \A c \in Conns : inbox'[c] # <<>> => uid[c] \in Users
    BY <1>v, <2>2, <2>3, <2>4, PrivacyKept
  <2>6. inbox' \in [Conns -> Seq(Nat \X Ways)]
    BY <1>0, <2>2, <2>3, PushFacts DEF Grown
  <2>7. DeliveryTypes'
    BY <1>0, <2>1, <2>6 DEF DeliveryTypes, InRoom
  <2>8. Locals'
    BY <1>0, <2>1 DEF Locals, InRoom
  <2>9. Held'
    BY <1>0, <1>v, <2>1 DEF Held
  <2>10. Entrants'
    BY <1>0, <1>v, <2>1, <2>5 DEF Entrants
  <2> QED
    BY <2>7, <2>8, <2>9, <2>10 DEF PlaceInv
<1>e. ASSUME Ends, UNCHANGED <<n, userIds, found>>, found = None, userIds = <<>>,
             inbox' \in [Conns -> Seq(Nat \X Ways)],
             RoomPrivacy' /\ \A c \in Conns : inbox'[c] # <<>> => uid[c] \in Users
      PROVE  PlaceInv'
  <2>1. DeliveryTypes'
    BY <1>0, <1>e DEF DeliveryTypes, Ends, Target
  <2>2. Locals' /\ Held'
    BY <1>e DEF Locals, Held, Ends, InRoom
  <2>3. Entrants'
    BY <1>0, <1>v, <1>e DEF Entrants
  <2> QED
    BY <2>1, <2>2, <2>3 DEF PlaceInv
<1>4. CASE NoRoom \/ RoomMissing \/ RoomServed
  <2>1. dpc \in {"user", "room", "each"} /\ Ends /\ UNCHANGED <<n, userIds, found, inbox>>
        /\ (dpc = "each" => userIds = <<>>)
    BY <1>4 DEF NoRoom, RoomMissing, RoomServed, AtRoom
  <2>2. found = None /\ userIds = <<>>
    BY <1>0, <2>1 DEF Locals
  <2>3. inbox' \in [Conns -> Seq(Nat \X Ways)] /\ RoomPrivacy'
        /\ \A c \in Conns : inbox'[c] # <<>> => uid[c] \in Users
    BY <1>0, <1>v, <2>1 DEF DeliveryTypes, Entrants, RoomPrivacy
  <2> QED
    BY <1>e, <2>1, <2>2, <2>3
<1>5. CASE DeliverToWorld
  <2>1. dpc \in {"user", "room"} /\ Ends /\ UNCHANGED <<n, userIds, found>>
        /\ PushTo(Tabled, World)
    BY <1>5 DEF DeliverToWorld, AtRoom, PushTo
  <2>2. found = None /\ userIds = <<>>
    BY <1>0, <2>1 DEF Locals
  <2>3. World \in Ways /\ World \notin Rooms /\ Tabled \in SUBSET Conns
    BY <1>s DEF Ways
  <2>4. \A c \in Tabled : uid[c] \in Users
    BY <1>k DEF TableKeyed
  <2>5. inbox' \in [Conns -> Seq(Nat \X Ways)]
    BY <1>0, <2>1, <2>3, PushFacts DEF Grown
  <2>6. RoomPrivacy' /\ \A c \in Conns : inbox'[c] # <<>> => uid[c] \in Users
    BY <1>v, <2>1, <2>3, <2>4, PrivacyKept
  <2> QED
    BY <1>e, <2>1, <2>2, <2>5, <2>6
<1>6. CASE LookRoom
  <2>1. dpc \in {"user", "room"} /\ to.room \in roomKeys /\ dpc' = "collect"
        /\ present' = Here(to.room) /\ UNCHANGED <<n, to, userIds, found, inbox, orphan, steady>>
    BY <1>6 DEF LookRoom, AtRoom
  <2>2. userIds = <<>> /\ found = None /\ ~orphan /\ to.room \in Rooms
    BY <1>0, <2>1 DEF Locals, InRoom, IInv, TypeOK
  <2>3. DeliveryTypes'
    BY <1>0, <1>s, <2>1 DEF DeliveryTypes, InRoom, Here
  <2>4. Locals'
    BY <2>1, <2>2 DEF Locals, InRoom
  <2>5. Held'
    BY <1>0, <1>v, <1>k, <2>1 DEF Held, Here, TableKeyed
  <2>6. Entrants'
    BY <1>0, <1>v, <2>1, <2>2 DEF Entrants, RoomPrivacy
  <2> QED
    BY <2>3, <2>4, <2>5, <2>6 DEF PlaceInv
<1>7. CASE Collect
  <2>1. dpc = "collect" /\ userIds' \in ServingOrders(to.room, Listed)
        /\ orphan' = FALSE
        /\ dpc' = "each" /\ UNCHANGED <<n, to, found, inbox, steady, present>>
    BY <1>7 DEF Collect
  <2>2. userIds' \in [1..Cardinality(Listed) -> Listed]
    BY <2>1 DEF ServingOrders
  <2>3. Listed \subseteq {u \in Users : rooms[to.room][u] # None} /\ to.room \in Rooms
        /\ found = None
    BY <1>0, <2>1 DEF Listed, Locals, InRoom
  <2>4. userIds' \in Seq(Users) /\ \A i \in DOMAIN userIds' : userIds'[i] \in Listed
    <3>1. IsFiniteSet(Listed)
      BY <2>3, ListedFinite
    <3>2. Cardinality(Listed) \in Nat
      BY <3>1, FS_CardinalityType
    <3> HIDE DEF Listed
    <3> QED
      BY <2>2, <2>3, <3>2
  <2>5. DeliveryTypes'
    BY <1>0, <2>1, <2>4 DEF DeliveryTypes, InRoom
  <2>6. Locals'
    BY <1>0, <2>1, <2>3 DEF Locals, InRoom
  <2>7. Held'
    BY <1>0, <1>v, <2>1 DEF Held
  <2>8. Entrants'
    BY <1>0, <1>v, <2>1, <2>3, <2>4 DEF Entrants, RoomPrivacy
  <2> QED
    BY <2>5, <2>6, <2>7, <2>8 DEF PlaceInv
<1>8. CASE LookupNext
  <2>1. dpc = "each" /\ userIds # <<>> /\ found' = clients[Head(userIds)]
        /\ userIds' = Tail(userIds) /\ dpc' = "helloRoom"
        /\ UNCHANGED <<n, to, inbox, orphan, steady, present>>
    BY <1>8 DEF LookupNext, historyVars
  <2>2. /\ Head(userIds) \in Users /\ Head(userIds) = userIds[1] /\ 1 \in DOMAIN userIds
        /\ userIds' \in Seq(Users)
        /\ \A i \in DOMAIN userIds' : i + 1 \in DOMAIN userIds /\ userIds'[i] = userIds[i + 1]
    BY <1>0, <2>1 DEF DeliveryTypes
  <2>3. found' \in Conns \cup {None}
        /\ (found' # None => uid[found'] = Head(userIds) /\ uid[found'] \in Users)
    BY <1>k, <2>1, <2>2 DEF TableKeyed
  <2>4. DeliveryTypes'
    BY <1>0, <2>1, <2>2, <2>3 DEF DeliveryTypes, InRoom
  <2>5. Locals'
    BY <1>0, <1>v, <2>1, <2>3 DEF Locals, InRoom
  <2>6. Held'
    BY <1>0, <1>v, <2>1 DEF Held
  <2>7. Entrants'
    BY <1>0, <1>v, <2>1, <2>2, <2>3 DEF Entrants, RoomPrivacy
  <2> QED
    BY <2>4, <2>5, <2>6, <2>7 DEF PlaceInv
<1> QED
  BY <1>1, <1>2, <1>3, <1>4, <1>5, <1>6, <1>7, <1>8 DEF Subscriber

-----------------------------------------------------------------------------
\* A push to clients whose queue holds nothing of the message under way, or
\* only the copy for the user when this is not another one, keeps every queue
\* in the order of arrival.
LEMMA OrderPush ==
    ASSUME DeliveryTypes, OnceInv, NEW S \in SUBSET Conns, NEW how \in Ways,
           Grown(S, how), n' = n,
           \A c \in S : \A i \in DOMAIN inbox[c] :
                \/ inbox[c][i][1] < n
                \/ inbox[c][i][1] = n /\ inbox[c][i][2] = "user" /\ how # "user"
    PROVE  /\ InboxOrder'
           /\ \A c \in Conns : \A i \in DOMAIN inbox'[c] :
                \/ i \in DOMAIN inbox[c] /\ inbox'[c][i] = inbox[c][i]
                \/ c \in S /\ inbox'[c][i] = <<n, how>>
<1>1. \A c \in Conns : \A i \in DOMAIN inbox'[c] :
        \/ i \in DOMAIN inbox[c] /\ inbox'[c][i] = inbox[c][i]
        \/ c \in S /\ inbox'[c][i] = <<n, how>>
  BY DEF Grown
<1>2. ASSUME NEW c \in Conns, NEW i \in DOMAIN inbox'[c], NEW j \in DOMAIN inbox'[c], i < j
      PROVE  \/ inbox'[c][i][1] < inbox'[c][j][1]
             \/ /\ inbox'[c][i][1] = inbox'[c][j][1]
                /\ inbox'[c][i][2] = "user"
                /\ inbox'[c][j][2] # "user"
  <2>1. CASE j \in DOMAIN inbox[c]
    <3>1. i \in DOMAIN inbox[c]
      <4>1. inbox[c] \in Seq(Nat \X Ways)
        BY DEF DeliveryTypes
      <4>2. i \in DOMAIN inbox[c] \/ i = Len(inbox[c]) + 1
        BY DEF Grown
      <4>3. j \in 1..Len(inbox[c]) /\ Len(inbox[c]) \in Nat
        BY <2>1, <4>1
      <4> QED
        BY <1>2, <4>2, <4>3
    <3>2. inbox'[c][i] = inbox[c][i] /\ inbox'[c][j] = inbox[c][j]
      BY <2>1, <3>1 DEF Grown
    <3> QED
      BY <1>2, <2>1, <3>1, <3>2 DEF OnceInv, InboxOrder
  <2>2. CASE j \notin DOMAIN inbox[c]
    <3>1. c \in S /\ j = Len(inbox[c]) + 1 /\ inbox'[c][j] = <<n, how>>
      BY <2>2 DEF Grown
    <3>2. i \in DOMAIN inbox[c]
      <4>1. i \in DOMAIN inbox[c] \/ i = Len(inbox[c]) + 1
        BY DEF Grown
      <4>2. inbox[c] \in Seq(Nat \X Ways)
        BY DEF DeliveryTypes
      <4>3. Len(inbox[c]) \in Nat
        BY <4>2
      <4> QED
        BY <1>2, <3>1, <4>1, <4>3
    <3>3. inbox'[c][i] = inbox[c][i]
      BY <3>2 DEF Grown
    <3> QED
      BY <3>1, <3>2, <3>3
  <2> QED
    BY <2>1, <2>2
<1> QED
  BY <1>1, <1>2 DEF InboxOrder

\* A step of the session core keeps the second layer: it changes no id of a
\* client that was found or pushed to.
LEMMA OnceSession ==
    ASSUME IInv, PlaceInv, OnceInv, SessionStep
    PROVE  OnceInv'
<1>0. DeliveryTypes /\ Locals /\ Entrants
  BY DEF PlaceInv
<1>1. UNCHANGED <<n, to, dpc, userIds, found, inbox>>
  BY DEF SessionStep, subscriberVars
<1>2. SlotMoves
  BY SessionMoves DEF SessionStep
<1>3. \A c \in Conns : uid[c] \in Users => uid'[c] = uid[c]
  BY <1>2, ConstantsAssumption DEF SlotMoves
<1>4. InboxOrder'
  BY <1>1 DEF OnceInv, InboxOrder
<1>5. ASSUME NEW c \in Conns, NEW i \in DOMAIN inbox[c], inbox[c][i][1] = n
      PROVE  Pushed(c, inbox[c][i][2])'
  <2>1. inbox[c] # <<>>
    OBVIOUS
  <2>2. uid'[c] = uid[c]
    BY <1>0, <1>3, <2>1 DEF Entrants
  <2>3. Pushed(c, inbox[c][i][2])
    BY <1>5 DEF OnceInv
  <2> QED
    BY <1>1, <2>2, <2>3 DEF Pushed, Waits
<1>6. dpc = "helloRoom" /\ found # None => (~Waits(found) /\ ~Has(found, to.room))'
  <2> HAVE dpc = "helloRoom" /\ found # None
  <2>1. uid'[found] = uid[found]
    BY <1>0, <1>3 DEF Locals, DeliveryTypes
  <2> QED
    BY <1>1, <2>1 DEF OnceInv, Waits, Has
<1>7. \A c \in Conns : \A i \in DOMAIN inbox[c] : inbox[c][i][1] <= n
  BY DEF OnceInv
<1>8. \A i, j \in DOMAIN userIds : i # j => userIds[i] # userIds[j]
  BY DEF OnceInv
<1>9. ASSUME NEW c \in Conns, NEW i \in DOMAIN inbox'[c], inbox'[c][i][1] = n'
      PROVE  Pushed(c, inbox[c][i][2])'
  BY <1>1, <1>5, <1>9
<1> QED
  BY <1>1, <1>4, <1>6, <1>7, <1>8, <1>9 DEF OnceInv

\* A step of the subscriber goroutine keeps the second layer.
LEMMA OnceSubscriber ==
    ASSUME IInv, PlaceInv, OnceInv, Subscriber
    PROVE  OnceInv'
<1> USE ConstantsAssumption, DeliveryAssumption
<1>0. DeliveryTypes /\ Locals /\ Entrants
  BY DEF PlaceInv
<1>k. TableKeyed
  BY TableFacts
<1>v. UNCHANGED <<uid, clients, rooms, roomKeys, entered>>
  BY DEF Subscriber, Receive, DeliverToUser, HelloUser, NoRoom, DeliverToWorld,
         LookRoom, RoomMissing, Collect, LookupNext, HelloRoom, RoomServed,
         vars, clientVars, roomVars, tableVars
<1>t. \A c \in Conns : \A i \in DOMAIN inbox[c] :
        inbox[c][i] \in Nat \X Ways /\ inbox[c][i][1] \in Nat /\ inbox[c][i][1] <= n
  BY <1>0 DEF OnceInv, DeliveryTypes
<1>n. n \in Nat
  BY <1>0 DEF DeliveryTypes
<1>p. \A c \in Conns : \A i \in DOMAIN inbox[c] :
        inbox[c][i][1] = n => Pushed(c, inbox[c][i][2])
  BY DEF OnceInv
<1>1. ASSUME NEW m \in Target, Receive(m) PROVE OnceInv'
  <2>1. dpc = "idle" /\ dpc' = "user" /\ n' = n + 1 /\ UNCHANGED <<userIds, found, inbox>>
    BY <1>1 DEF Receive
  <2>2. \A c \in Conns : \A i \in DOMAIN inbox[c] :
            inbox[c][i][1] <= n + 1 /\ inbox[c][i][1] # n + 1
    BY <1>n, <1>t
  <2> QED
    BY <2>1, <2>2 DEF OnceInv, InboxOrder
<1>2. CASE DeliverToUser
  <2>1. dpc = "user" /\ dpc' = "helloUser" /\ UNCHANGED <<n, to, userIds, inbox>>
    BY <1>2 DEF DeliverToUser
  <2>2. \A c \in Conns : \A i \in DOMAIN inbox[c] : inbox[c][i][1] # n
    BY <1>p, <2>1 DEF Pushed, InRoom
  <2> QED
    BY <2>1, <2>2 DEF OnceInv, InboxOrder
<1>3. CASE HelloUser
  <2>1. dpc = "helloUser" /\ dpc' = "room" /\ Hello(found, "user") /\ found' = None
        /\ UNCHANGED <<n, to, userIds>>
    BY <1>3 DEF HelloUser
  <2>2. "user" \in Ways /\ {found} \ {None} \in SUBSET Conns /\ found \in Conns \cup {None}
    BY <1>0 DEF Ways, DeliveryTypes
  <2>3. PushTo({found} \ {None}, "user")
    BY <1>0, <2>1, <2>2, HelloPushes
  <2>4. Grown({found} \ {None}, "user")
    BY <1>0, <2>2, <2>3, PushFacts
  <2>5. \A c \in Conns : \A i \in DOMAIN inbox[c] : inbox[c][i][1] < n
    <3>1. \A c \in Conns : \A i \in DOMAIN inbox[c] : inbox[c][i][1] # n
      BY <1>p, <2>1 DEF Pushed, InRoom
    <3> QED
      BY <1>n, <1>t, <3>1
  <2>6. /\ InboxOrder'
        /\ \A c \in Conns : \A i \in DOMAIN inbox'[c] :
            \/ i \in DOMAIN inbox[c] /\ inbox'[c][i] = inbox[c][i]
            \/ c \in {found} \ {None} /\ inbox'[c][i] = <<n, "user">>
    <3>1. \A c \in {found} \ {None} : \A i \in DOMAIN inbox[c] :
            \/ inbox[c][i][1] < n
            \/ inbox[c][i][1] = n /\ inbox[c][i][2] = "user" /\ "user" # "user"
      BY <2>2, <2>5
    <3>2. n' = n
      BY <2>1
    <3> QED
      BY <1>0, <2>2, <2>4, <3>1, <3>2, OrderPush
  <2>7. \A c \in Conns : \A i \in DOMAIN inbox'[c] :
            inbox'[c][i][1] <= n /\ (inbox'[c][i][1] = n => inbox'[c][i][2] = "user")
    <3> TAKE c \in Conns
    <3> TAKE i \in DOMAIN inbox'[c]
    <3>1. CASE i \in DOMAIN inbox[c] /\ inbox'[c][i] = inbox[c][i]
      BY <1>n, <1>t, <2>5, <3>1
    <3>2. CASE inbox'[c][i] = <<n, "user">>
      BY <1>n, <3>2
    <3> QED
      BY <2>6, <3>1, <3>2
  <2>8. \A i, j \in DOMAIN userIds : i # j => userIds[i] # userIds[j]
    BY DEF OnceInv
  <2> QED
    BY <2>1, <2>6, <2>7, <2>8 DEF OnceInv, Pushed
<1>4. CASE HelloRoom
  <2>1. dpc = "helloRoom" /\ dpc' = "each" /\ Hello(found, to.room) /\ found' = None
        /\ UNCHANGED <<n, to, userIds>>
    BY <1>4 DEF HelloRoom
  <2>2. to.room \in Rooms /\ to.room \in Ways /\ {found} \ {None} \in SUBSET Conns
        /\ found \in Conns \cup {None}
    BY <1>0, <2>1 DEF Ways, DeliveryTypes, Locals, InRoom
  <2>3. PushTo({found} \ {None}, to.room)
    BY <1>0, <2>1, <2>2, HelloPushes
  <2>4. Grown({found} \ {None}, to.room)
    BY <1>0, <2>2, <2>3, PushFacts
  <2>5. ASSUME NEW c \in {found} \ {None}, NEW i \in DOMAIN inbox[c]
        PROVE  \/ inbox[c][i][1] < n
               \/ inbox[c][i][1] = n /\ inbox[c][i][2] = "user" /\ to.room # "user"
    <3>1. c = found /\ c \in Conns /\ found # None
      BY <2>2
    <3>2. inbox[c][i] # <<n, to.room>>
      BY <2>1, <3>1 DEF OnceInv, Has
    <3>3. CASE inbox[c][i][1] = n
      <4>1. inbox[c][i][2] # to.room
        BY <1>t, <3>1, <3>2, <3>3
      <4>2. inbox[c][i][2] = "user"
        BY <1>p, <2>1, <3>1, <3>3, <4>1 DEF Pushed
      <4> QED
        BY <2>2, <3>3, <4>2
    <3> QED
      BY <1>n, <1>t, <3>1, <3>3
  <2>6. /\ InboxOrder'
        /\ \A c \in Conns : \A i \in DOMAIN inbox'[c] :
            \/ i \in DOMAIN inbox[c] /\ inbox'[c][i] = inbox[c][i]
            \/ c \in {found} \ {None} /\ inbox'[c][i] = <<n, to.room>>
    <3>1. n' = n
      BY <2>1
    <3> QED
      BY <1>0, <2>2, <2>4, <2>5, <3>1, OrderPush
  <2>7. ASSUME NEW c \in Conns, NEW i \in DOMAIN inbox'[c]
        PROVE  /\ inbox'[c][i][1] <= n
               /\ inbox'[c][i][1] = n => Pushed(c, inbox'[c][i][2])
    <3>1. CASE i \in DOMAIN inbox[c] /\ inbox'[c][i] = inbox[c][i]
      BY <1>p, <1>t, <3>1
    <3>2. CASE c \in {found} \ {None} /\ inbox'[c][i] = <<n, to.room>>
      <4>1. ~Waits(c)
        BY <2>1, <3>2 DEF OnceInv
      <4> QED
        BY <1>0, <2>1, <3>2, <4>1 DEF Pushed, DeliveryTypes
    <3> QED
      BY <2>6, <3>1, <3>2
  <2>8. \A i, j \in DOMAIN userIds : i # j => userIds[i] # userIds[j]
    BY DEF OnceInv
  <2>9. ASSUME NEW c \in Conns, NEW i \in DOMAIN inbox'[c], inbox'[c][i][1] = n
        PROVE  Pushed(c, inbox[c][i][2])'
    <3>1. Pushed(c, inbox'[c][i][2])
      BY <2>7, <2>9
    <3> QED
      BY <1>v, <2>1, <3>1 DEF Pushed, Waits, InRoom
  <2> QED
    BY <2>1, <2>6, <2>7, <2>8, <2>9 DEF OnceInv
<1>5. CASE NoRoom \/ RoomMissing \/ RoomServed
  <2>1. dpc' = "idle" /\ UNCHANGED <<n, userIds, found, inbox>>
    BY <1>5 DEF NoRoom, RoomMissing, RoomServed, Ends
  <2> QED
    BY <1>t, <2>1 DEF OnceInv, Pushed, InboxOrder
<1>6. CASE DeliverToWorld
  <2>1. dpc \in {"user", "room"} /\ dpc' = "idle" /\ UNCHANGED <<n, userIds, found>>
        /\ PushTo(Tabled, World)
    BY <1>6 DEF DeliverToWorld, AtRoom, PushTo, Ends
  <2>2. World \in Ways /\ Tabled \in SUBSET Conns /\ World # "user"
    BY <1>k DEF Ways, TableKeyed
  <2>3. Grown(Tabled, World)
    BY <1>0, <2>1, <2>2, PushFacts
  <2>4. \A c \in Conns : \A i \in DOMAIN inbox[c] :
            \/ inbox[c][i][1] < n
            \/ inbox[c][i][1] = n /\ inbox[c][i][2] = "user"
    <3>1. \A c \in Conns : \A i \in DOMAIN inbox[c] : inbox[c][i][1] = n => inbox[c][i][2] = "user"
      BY <1>p, <2>1 DEF Pushed, InRoom
    <3> QED
      BY <1>n, <1>t, <3>1
  <2>5. /\ InboxOrder'
        /\ \A c \in Conns : \A i \in DOMAIN inbox'[c] :
            \/ i \in DOMAIN inbox[c] /\ inbox'[c][i] = inbox[c][i]
            \/ c \in Tabled /\ inbox'[c][i] = <<n, World>>
    <3>1. \A c \in Tabled : \A i \in DOMAIN inbox[c] :
            \/ inbox[c][i][1] < n
            \/ inbox[c][i][1] = n /\ inbox[c][i][2] = "user" /\ World # "user"
      BY <2>2, <2>4
    <3>2. n' = n
      BY <2>1
    <3> QED
      BY <1>0, <2>2, <2>3, <3>1, <3>2, OrderPush
  <2>6. \A c \in Conns : \A i \in DOMAIN inbox'[c] : inbox'[c][i][1] <= n
    <3> TAKE c \in Conns
    <3> TAKE i \in DOMAIN inbox'[c]
    <3>1. CASE i \in DOMAIN inbox[c] /\ inbox'[c][i] = inbox[c][i]
      BY <1>t, <3>1
    <3>2. CASE inbox'[c][i] = <<n, World>>
      BY <1>n, <3>2
    <3> QED
      BY <2>5, <3>1, <3>2
  <2>7. \A i, j \in DOMAIN userIds : i # j => userIds[i] # userIds[j]
    BY DEF OnceInv
  <2> QED
    BY <2>1, <2>5, <2>6, <2>7 DEF OnceInv, Pushed
<1>7. CASE LookRoom
  <2>1. dpc \in {"user", "room"} /\ dpc' = "collect" /\ UNCHANGED <<n, to, userIds, found, inbox>>
    BY <1>7 DEF LookRoom, AtRoom
  <2>2. \A c \in Conns : \A i \in DOMAIN inbox[c] : inbox[c][i][1] = n => inbox[c][i][2] = "user"
    BY <1>p, <2>1 DEF Pushed, InRoom
  <2> QED
    BY <2>1, <2>2 DEF OnceInv, Pushed, InRoom, InboxOrder
<1>8. CASE Collect
  <2>1. dpc = "collect" /\ dpc' = "each" /\ userIds' \in ServingOrders(to.room, Listed)
        /\ UNCHANGED <<n, to, found, inbox>>
    BY <1>8 DEF Collect
  <2>2. \A i, j \in DOMAIN userIds' : i # j => userIds'[i] # userIds'[j]
    BY <2>1 DEF ServingOrders
  <2>3. \A c \in Conns : \A i \in DOMAIN inbox[c] : inbox[c][i][1] = n => inbox[c][i][2] = "user"
    BY <1>p, <2>1 DEF Pushed
  <2> QED
    BY <2>1, <2>2, <2>3 DEF OnceInv, Pushed, InRoom, InboxOrder
<1>9. CASE LookupNext
  <2>1. dpc = "each" /\ userIds # <<>> /\ found' = clients[Head(userIds)]
        /\ userIds' = Tail(userIds) /\ dpc' = "helloRoom" /\ UNCHANGED <<n, to, inbox>>
    BY <1>9 DEF LookupNext
  <2>2. /\ Head(userIds) \in Users /\ Head(userIds) = userIds[1] /\ 1 \in DOMAIN userIds
        /\ \A i \in DOMAIN userIds' : i + 1 \in DOMAIN userIds /\ userIds'[i] = userIds[i + 1]
                                      /\ i + 1 # 1 /\ i \in Nat
    BY <1>0, <2>1 DEF DeliveryTypes
  <2>3. \A i, j \in DOMAIN userIds' : i # j => userIds'[i] # userIds'[j]
    <3> SUFFICES ASSUME NEW i \in DOMAIN userIds', NEW j \in DOMAIN userIds', i # j
                 PROVE  userIds'[i] # userIds'[j]
      OBVIOUS
    <3>1. i + 1 # j + 1
      BY <2>2
    <3> QED
      BY <2>2, <3>1 DEF OnceInv
  <2>4. ASSUME found' # None PROVE ~Waits(found)' /\ ~Has(found, to.room)'
    <3>1. found' \in Conns /\ uid[found'] = userIds[1]
      BY <1>k, <2>1, <2>2, <2>4 DEF TableKeyed
    <3>2. \A i \in DOMAIN userIds' : userIds'[i] # userIds[1]
      BY <2>2 DEF OnceInv
    <3>3. ~Waits(found)'
      BY <1>v, <3>1, <3>2 DEF Waits
    <3>4. to.room # "user"
      BY <1>0, <2>1 DEF Locals, InRoom
    <3>5. \A i \in DOMAIN inbox[found'] : inbox[found'][i] # <<n, to.room>>
      <4> SUFFICES ASSUME NEW i \in DOMAIN inbox[found'], inbox[found'][i] = <<n, to.room>>
                   PROVE  FALSE
        OBVIOUS
      <4>1. Pushed(found', to.room)
        BY <1>p, <3>1
      <4>2. ~(\E j \in DOMAIN userIds : userIds[j] = uid[found'])
        BY <2>1, <3>4, <4>1 DEF Pushed, Waits
      <4> QED
        BY <2>2, <3>1, <4>2
    <3> QED
      BY <2>1, <3>3, <3>5 DEF Has
  <2>5. ASSUME NEW c \in Conns, NEW i \in DOMAIN inbox[c], inbox[c][i][1] = n
        PROVE  Pushed(c, inbox[c][i][2])'
    <3>1. Pushed(c, inbox[c][i][2])
      BY <1>p, <2>5
    <3> QED
      BY <1>v, <2>1, <2>2, <3>1 DEF Pushed, Waits, InRoom
  <2>6. InboxOrder'
    BY <2>1 DEF OnceInv, InboxOrder
  <2> QED
    BY <1>t, <2>1, <2>3, <2>4, <2>5, <2>6 DEF OnceInv
<1> QED
  BY <1>1, <1>2, <1>3, <1>4, <1>5, <1>6, <1>7, <1>8, <1>9 DEF Subscriber

-----------------------------------------------------------------------------
\* A step of the session core keeps the third layer: the clients that stay in
\* the histories keep their ids.
LEMMA ServedSession ==
    ASSUME IInv, PlaceInv, ServedInv, SessionStep
    PROVE  ServedInv'
<1>0. DeliveryTypes /\ Held
  BY DEF PlaceInv
<1>1. UNCHANGED <<n, to, dpc, userIds, found, inbox>>
  BY DEF SessionStep, subscriberVars
<1>2. steady' \subseteq steady /\ present' \subseteq present
  BY DEF SessionStep
<1>3. SlotMoves
  BY SessionMoves DEF SessionStep
<1>4. \A c \in steady \cup present : uid'[c] = uid[c]
  BY <1>0, <1>3, ConstantsAssumption DEF SlotMoves, Held, DeliveryTypes
<1> QED
  BY <1>1, <1>2, <1>4 DEF ServedInv, UserDone, Has, Waits

\* What was pushed stays pushed.
LEMMA HasKept ==
    ASSUME DeliveryTypes, NEW S \in SUBSET Conns, NEW how \in Ways, Grown(S, how), n' = n
    PROVE  /\ \A c \in Conns, w \in Ways : Has(c, w) => Has(c, w)'
           /\ \A c \in S : Has(c, how)'
<1>1. ASSUME NEW c \in Conns, NEW w \in Ways, Has(c, w) PROVE Has(c, w)'
  BY <1>1 DEF Grown, Has
<1>2. ASSUME NEW c \in S PROVE Has(c, how)'
  BY DEF Grown, Has
<1> QED
  BY <1>1, <1>2

\* deliverToRoom lists every user of the map in hand: an order without
\* repetition that is as long as the map has keys leaves out none.
LEMMA AllListed ==
    ASSUME NEW r, NEW S, IsFiniteSet(S), NEW s \in ServingOrders(r, S)
    PROVE  \A u \in S : \E i \in DOMAIN s : s[i] = u
<1> DEFINE k == Cardinality(S)
<1>1. k \in Nat
  BY FS_CardinalityType
<1>2. s \in [1..k -> S] /\ \A i, j \in 1..k : i # j => s[i] # s[j]
  BY DEF ServingOrders
<1>3. s \in Injection(1..k, S)
  BY <1>2 DEF Injection, IsInjective
<1>4. Cardinality(1..k) = k
  BY <1>1, FS_Interval
<1> HIDE DEF k
<1>5. s \in Surjection(1..k, S)
  BY <1>3, <1>4, FS_Injection DEF k
<1> QED
  BY <1>2, <1>5 DEF Surjection

\* A step of the subscriber goroutine keeps the third layer.
LEMMA ServedSubscriber ==
    ASSUME IInv, PlaceInv, OnceInv, ServedInv, Subscriber
    PROVE  ServedInv'
<1> USE ConstantsAssumption, DeliveryAssumption
<1>0. DeliveryTypes /\ Locals /\ Held
  BY DEF PlaceInv
<1>v. UNCHANGED <<uid, clients, rooms, roomKeys, entered>>
  BY DEF Subscriber, Receive, DeliverToUser, HelloUser, NoRoom, DeliverToWorld,
         LookRoom, RoomMissing, Collect, LookupNext, HelloRoom, RoomServed,
         vars, clientVars, roomVars, tableVars
<1>s. steady \subseteq Conns /\ present \subseteq Conns
  BY <1>0 DEF DeliveryTypes
<1>p. \A c \in Conns : \A i \in DOMAIN inbox[c] :
        inbox[c][i][1] = n => Pushed(c, inbox[c][i][2])
  BY DEF OnceInv
<1>1. ASSUME NEW m \in Target, Receive(m) PROVE ServedInv'
  <2>1. dpc = "idle" /\ dpc' = "user" /\ UNCHANGED present
    BY <1>1 DEF Receive
  <2>2. present = {}
    BY <1>0, <2>1 DEF Locals, InRoom
  <2> QED
    BY <2>1, <2>2 DEF ServedInv, UserDone
<1>2. CASE DeliverToUser
  <2>1. dpc = "user" /\ dpc' = "helloUser" /\ found' = clients[to.user]
        /\ UNCHANGED <<to, steady, present>>
    BY <1>2 DEF DeliverToUser, historyVars
  <2>2. present = {}
    BY <1>0, <2>1 DEF Locals, InRoom
  <2>3. \A c \in steady : uid[c] = to.user => found' = c
    BY <1>0, <2>1 DEF Held
  <2> QED
    BY <1>v, <2>1, <2>2, <2>3 DEF ServedInv, UserDone
<1>3. CASE HelloUser
  <2>1. dpc = "helloUser" /\ dpc' = "room" /\ Hello(found, "user")
        /\ UNCHANGED <<n, to, steady, present>>
    BY <1>3 DEF HelloUser, historyVars
  <2>2. "user" \in Ways /\ {found} \ {None} \in SUBSET Conns /\ found \in Conns \cup {None}
    BY <1>0 DEF Ways, DeliveryTypes
  <2>3. PushTo({found} \ {None}, "user")
    BY <1>0, <2>1, <2>2, HelloPushes
  <2>4. Grown({found} \ {None}, "user")
    BY <1>0, <2>2, <2>3, PushFacts
  <2>5. \A c \in {found} \ {None} : Has(c, "user")'
    <3>1. n' = n
      BY <2>1
    <3> QED
      BY <1>0, <2>2, <2>4, <3>1, HasKept
  <2>6. present = {}
    BY <1>0, <2>1 DEF Locals, InRoom
  <2>7. \A c \in steady : uid[c] = to.user => Has(c, "user")'
    BY <1>s, <2>1, <2>5 DEF ServedInv
  <2> QED
    BY <1>v, <2>1, <2>6, <2>7 DEF ServedInv
<1>4. CASE NoRoom \/ DeliverToWorld \/ RoomMissing \/ RoomServed
  <2>1. steady' = {} /\ present' = {}
    BY <1>4 DEF NoRoom, DeliverToWorld, RoomMissing, RoomServed, Ends
  <2> QED
    BY <2>1 DEF ServedInv
<1>5. CASE LookRoom
  <2>1. dpc' = "collect" /\ UNCHANGED <<n, to, userIds, found, inbox, steady>>
        /\ (dpc = "room" \/ (dpc = "user" /\ to.user = None)) /\ to.room \in roomKeys
    BY <1>5 DEF LookRoom, AtRoom
  <2>2. to.room \in Rooms
    BY <2>1 DEF IInv, TypeOK
  <2>3. \A c \in steady : uid[c] = to.user => Has(c, "user")
    BY <1>0, <2>1 DEF ServedInv, UserDone, Held
  <2>4. \A d \in Conns : ~Has(d, to.room)
    BY <1>p, <2>1, <2>2 DEF Has, Pushed, InRoom
  <2> QED
    BY <1>v, <2>1, <2>3, <2>4 DEF ServedInv, Has
<1>6. CASE Collect
  <2>1. dpc = "collect" /\ dpc' = "each" /\ userIds' \in ServingOrders(to.room, Listed)
        /\ UNCHANGED <<n, to, found, inbox, steady, present>>
    BY <1>6 DEF Collect
  <2>2. to.room \in Rooms
    BY <1>0, <2>1 DEF Locals, InRoom
  <2>3. \A c \in present : uid[c] \in Listed
    BY <1>0, <1>s DEF Locals, Held, Listed
  <2>4. IsFiniteSet(Listed)
    BY <2>2, ListedFinite
  <2>5. \A u \in Listed : \E i \in DOMAIN userIds' : userIds'[i] = u
    BY <2>1, <2>4, AllListed
  <2>6. \A c \in present : Waits(c)'
    BY <1>v, <2>3, <2>5 DEF Waits
  <2>7. \A d \in Conns : ~Has(d, to.room)
    BY <1>p, <2>1, <2>2 DEF Has, Pushed
  <2>8. to.room \in Listed => userIds' # <<>> /\ userIds'[1] = to.room
    <3> HAVE to.room \in Listed
    <3>1. userIds'[1] = to.room
      BY <2>1 DEF ServingOrders
    <3>2. PICK i \in DOMAIN userIds' : userIds'[i] = to.room
      BY <2>5
    <3>3. userIds' # <<>>
      BY <3>2
    <3> QED
      BY <3>1, <3>3
  <2>9. \A c \in steady : uid[c] = to.user => Has(c, "user")
    BY <2>1 DEF ServedInv, UserDone
  <2> QED
    BY <1>v, <2>1, <2>3, <2>6, <2>7, <2>8, <2>9 DEF ServedInv, Has
<1>7. CASE LookupNext
  <2>1. dpc = "each" /\ userIds # <<>> /\ found' = clients[Head(userIds)]
        /\ userIds' = Tail(userIds) /\ dpc' = "helloRoom"
        /\ UNCHANGED <<n, to, inbox, steady, present>>
    BY <1>7 DEF LookupNext, historyVars
  <2>2. /\ Head(userIds) = userIds[1]
        /\ \A i \in DOMAIN userIds : i # 1 =>
            i - 1 \in DOMAIN userIds' /\ userIds'[i - 1] = userIds[i]
    <3>1. userIds \in Seq(Users) /\ DOMAIN userIds = 1..Len(userIds)
      BY <1>0 DEF DeliveryTypes
    <3>2. /\ Head(userIds) = userIds[1] /\ Len(userIds) \in Nat
          /\ DOMAIN Tail(userIds) = 1..(Len(userIds) - 1)
          /\ \A i \in 1..(Len(userIds) - 1) : Tail(userIds)[i] = userIds[i + 1]
      BY <2>1, <3>1
    <3>3. ASSUME NEW i \in DOMAIN userIds, i # 1
          PROVE  i - 1 \in DOMAIN userIds' /\ userIds'[i - 1] = userIds[i]
      <4>1. i \in 1..Len(userIds) /\ i - 1 \in 1..(Len(userIds) - 1) /\ (i - 1) + 1 = i
        BY <3>1, <3>2, <3>3
      <4>2. Tail(userIds)[i - 1] = userIds[(i - 1) + 1]
        BY <3>2, <4>1
      <4> QED
        BY <2>1, <3>2, <4>1, <4>2
    <3> QED
      BY <3>2, <3>3
  <2>3. \A c \in present : userIds[1] = uid[c] => found' = c
    BY <1>0, <2>1, <2>2 DEF Held
  <2>4. \A c \in present : Waits(c) => Waits(c)' \/ found' = c
    <3> SUFFICES ASSUME NEW c \in present, NEW i \in DOMAIN userIds, userIds[i] = uid[c]
                 PROVE  Waits(c)' \/ found' = c
      BY DEF Waits
    <3>1. CASE i = 1
      BY <2>3, <3>1
    <3>2. CASE i # 1
      BY <1>v, <2>2, <3>2 DEF Waits
    <3> QED
      BY <3>1, <3>2
  <2>5. \A c \in steady : uid[c] = to.user => Has(c, "user")
    BY <2>1 DEF ServedInv, UserDone
  <2>6. \A c \in present : Waits(c)' \/ Has(c, to.room) \/ found' = c
    BY <2>1, <2>4 DEF ServedInv
  <2>7. \A c \in present : uid[c] = to.room =>
            Has(c, to.room) \/ (found' = c /\ \A d \in Conns : ~Has(d, to.room))
    BY <2>1, <2>3 DEF ServedInv
  <2> QED
    BY <1>v, <2>1, <2>5, <2>6, <2>7 DEF ServedInv, Has
<1>8. CASE HelloRoom
  <2>1. dpc = "helloRoom" /\ dpc' = "each" /\ Hello(found, to.room)
        /\ UNCHANGED <<n, to, userIds, steady, present>>
    BY <1>8 DEF HelloRoom, historyVars
  <2>2. to.room \in Ways /\ {found} \ {None} \in SUBSET Conns /\ found \in Conns \cup {None}
        /\ "user" \in Ways
    BY <1>0, <2>1 DEF Ways, DeliveryTypes, Locals, InRoom
  <2>3. PushTo({found} \ {None}, to.room)
    BY <1>0, <2>1, <2>2, HelloPushes
  <2>4. Grown({found} \ {None}, to.room)
    BY <1>0, <2>2, <2>3, PushFacts
  <2>5. /\ \A c \in Conns, w \in Ways : Has(c, w) => Has(c, w)'
        /\ \A c \in {found} \ {None} : (\E i \in DOMAIN inbox'[c] : inbox'[c][i] = <<n, to.room>>)
    <3>1. n' = n
      BY <2>1
    <3>2. \A c \in Conns, w \in Ways : Has(c, w) => Has(c, w)'
      BY <1>0, <2>2, <2>4, <3>1, HasKept
    <3>3. \A c \in {found} \ {None} : (\E i \in DOMAIN inbox'[c] : inbox'[c][i] = <<n, to.room>>)
      BY <2>4 DEF Grown
    <3> QED
      BY <3>2, <3>3
  <2>6. \A c \in Conns : Has(c, to.room) \/ found = c => Has(c, to.room)'
    BY <2>1, <2>2, <2>5, SMTT(30) DEF Has
  <2>7. \A c \in steady : uid[c] = to.user => Has(c, "user")'
    BY <1>s, <2>1, <2>2, <2>5 DEF ServedInv, UserDone
  <2>8. \A c \in present : Waits(c) \/ Has(c, to.room)'
    BY <1>s, <2>1, <2>6 DEF ServedInv
  <2>9. \A c \in present : uid[c] = to.room => Has(c, to.room)'
    BY <1>s, <2>1, <2>6 DEF ServedInv
  <2> QED
    BY <1>v, <2>1, <2>7, <2>8, <2>9 DEF ServedInv, Waits
<1> QED
  BY <1>1, <1>2, <1>3, <1>4, <1>5, <1>6, <1>7, <1>8 DEF Subscriber

-----------------------------------------------------------------------------
\* The inductive invariant of the delivery.
DeliveryInv ==
    /\ IInv
    /\ PlaceInv
    /\ OnceInv
    /\ ServedInv

\* A started server, before the first message.
LEMMA DeliveryStarts == DeliveryInit => DeliveryInv
<1> SUFFICES ASSUME DeliveryInit PROVE DeliveryInv
  OBVIOUS
<1> USE DEF DeliveryInit
<1>1. IInv
  BY IInvInit
<1>2. PlaceInv
  <2>1. DeliveryTypes
    <3>1. inbox \in [Conns -> Seq(Nat \X Ways)]
      OBVIOUS
    <3>2. orphan \in BOOLEAN
      OBVIOUS
    <3>3. to \in Target /\ userIds \in Seq(Users) /\ n \in Nat
      BY DEF Target
    <3> QED
      BY <3>1, <3>2, <3>3 DEF DeliveryTypes
  <2>2. Locals /\ Held
    <3>1. ~orphan /\ dpc \notin InRoom
      BY DEF InRoom
    <3> QED
      BY <3>1 DEF Locals, Held
  <2>3. Entrants
    BY DEF Entrants, RoomPrivacy, Init, EmptyRoom
  <2> QED
    BY <2>1, <2>2, <2>3 DEF PlaceInv
<1>3. OnceInv
  BY DEF OnceInv, InboxOrder
<1>4. ServedInv
  BY DEF ServedInv
<1> QED
  BY <1>1, <1>2, <1>3, <1>4 DEF DeliveryInv

\* Every step, of a session goroutine or of the subscriber, keeps the three
\* layers and the invariant of the session core below them.
LEMMA DeliveryStep == DeliveryInv /\ [DeliveryNext]_deliveryVars => DeliveryInv'
<1>k. IInv' => TableKeyed'
  BY TableFacts, PTL
<1> SUFFICES ASSUME DeliveryInv, [DeliveryNext]_deliveryVars PROVE DeliveryInv'
  OBVIOUS
<1>0. IInv /\ PlaceInv /\ OnceInv /\ ServedInv
  BY DEF DeliveryInv
<1>1. CASE SessionStep
  <2>1. IInv'
    BY <1>0, <1>1, IInvStep DEF SessionStep
  <2> QED
    BY <1>0, <1>1, <1>k, <2>1, PlaceSession, OnceSession, ServedSession DEF DeliveryInv
<1>2. CASE Subscriber
  <2>1. UNCHANGED vars
    BY <1>2 DEF Subscriber, Receive, DeliverToUser, HelloUser, NoRoom,
                DeliverToWorld, LookRoom, RoomMissing, Collect, LookupNext,
                HelloRoom, RoomServed
  <2>2. IInv'
    BY <1>0, <2>1, IInvStep
  <2> QED
    BY <1>0, <1>2, <2>2, PlaceSubscriber, OnceSubscriber, ServedSubscriber DEF DeliveryInv
<1>3. CASE UNCHANGED deliveryVars
  <2>1. UNCHANGED vars
        /\ UNCHANGED <<n, to, dpc, userIds, found, inbox, orphan, steady, present>>
    BY <1>3 DEF deliveryVars, subscriberVars, historyVars
  <2>2. IInv'
    BY <1>0, <2>1, IInvStep
  <2>3. UNCHANGED <<uid, clients, rooms, entered>>
    BY <2>1 DEF vars, clientVars, roomVars, tableVars
  <2>4. PlaceInv'
    BY <1>0, <2>1, <2>3 DEF PlaceInv, DeliveryTypes, Locals, Held, Entrants, RoomPrivacy
  <2>5. OnceInv'
    BY <1>0, <2>1, <2>3 DEF OnceInv, InboxOrder, Pushed, Waits, Has
  <2>6. ServedInv'
    BY <1>0, <2>1, <2>3 DEF ServedInv, UserDone, Waits, Has
  <2> QED
    BY <2>2, <2>4, <2>5, <2>6 DEF DeliveryInv
<1> QED
  BY <1>1, <1>2, <1>3 DEF DeliveryNext

\* The three layers hold in every state the connector reaches.
THEOREM DeliveryInvariant == DeliverySpec => []DeliveryInv
BY DeliveryStarts, DeliveryStep, PTL DEF DeliverySpec

\* A client is pushed the messages of a room only if its user has entered the
\* room: deliverToRoom never reaches beyond the room's own members, also when
\* it works on a map or on user ids that are out of date.
THEOREM RoomPrivacyTheorem == DeliverySpec => []RoomPrivacy
<1>1. DeliveryInv => RoomPrivacy
  BY DEF DeliveryInv, PlaceInv, Entrants
<1> QED
  BY <1>1, DeliveryInvariant, PTL

\* Every client is pushed messages in the order in which handleSubscription
\* took them, and none twice in the same way.
THEOREM InboxOrderTheorem == DeliverySpec => []InboxOrder
<1>1. DeliveryInv => InboxOrder
  BY DEF DeliveryInv, OnceInv
<1> QED
  BY <1>1, DeliveryInvariant, PTL

\* Of the message under way a queue holds one copy of each kind or none.
LEMMA OneCopy ==
    ASSUME InboxOrder, DeliveryTypes, NEW c \in Conns, NEW how
    PROVE  Copies(c, how) = IF Has(c, how) THEN 1 ELSE 0
<1> DEFINE I == {i \in DOMAIN inbox[c] : inbox[c][i] = <<n, how>>}
<1>1. CASE ~Has(c, how)
  <2>1. I = {}
    BY <1>1 DEF Has
  <2> QED
    BY <1>1, <2>1, FS_EmptySet DEF Copies
<1>2. CASE Has(c, how)
  <2>1. PICK i \in DOMAIN inbox[c] : inbox[c][i] = <<n, how>>
    BY <1>2 DEF Has
  <2>2. \A j \in I : j = i
    <3> SUFFICES ASSUME NEW j \in DOMAIN inbox[c], inbox[c][j] = <<n, how>>, j # i
                 PROVE  FALSE
      OBVIOUS
    <3>1. DOMAIN inbox[c] \subseteq Nat /\ n \in Nat
      BY DEF DeliveryTypes
    <3>2. inbox[c][i][1] = n /\ inbox[c][j][1] = n
          /\ inbox[c][i][2] = how /\ inbox[c][j][2] = how
      BY <2>1
    <3>3. i < j \/ j < i
      BY <3>1
    <3> QED
      BY <3>1, <3>2, <3>3 DEF InboxOrder
  <2>3. I = {i}
    BY <2>1, <2>2
  <2>4. Cardinality({i}) = 1
    BY FS_Singleton
  <2> QED
    BY <1>2, <2>3, <2>4 DEF Copies
<1> QED
  BY <1>1, <1>2

\* The client that holds the user id of a message from its arrival on is
\* pushed it exactly once by deliverToUser.
THEOREM UserServedTheorem == DeliverySpec => []UserServed
<1>1. DeliveryInv => UserServed
  <2> SUFFICES ASSUME DeliveryInv, NEW c \in steady, UserDone, uid[c] = to.user
               PROVE  Copies(c, "user") = 1
    BY DEF UserServed
  <2>1. c \in Conns /\ DeliveryTypes /\ InboxOrder
    BY DEF DeliveryInv, PlaceInv, DeliveryTypes, OnceInv
  <2>2. Has(c, "user")
    BY DEF DeliveryInv, ServedInv
  <2> QED
    BY <2>1, <2>2, OneCopy
<1> QED
  BY <1>1, DeliveryInvariant, PTL

\* A client that stays in the room while deliverToRoom runs is pushed the
\* message exactly once, when its turn comes and not before.
THEOREM MembersServedTheorem == DeliverySpec => []MembersServed
<1>1. DeliveryInv => MembersServed
  <2> SUFFICES ASSUME DeliveryInv, dpc = "each", NEW c \in present
               PROVE  Copies(c, to.room) = IF Waits(c) THEN 0 ELSE 1
    BY DEF MembersServed, Waits
  <2>1. c \in Conns /\ DeliveryTypes /\ InboxOrder
    BY DEF DeliveryInv, PlaceInv, DeliveryTypes, OnceInv
  <2>2. Waits(c) \/ Has(c, to.room)
    BY DEF DeliveryInv, ServedInv
  <2>3. Has(c, to.room) => ~Waits(c)
    <3> SUFFICES ASSUME NEW i \in DOMAIN inbox[c], inbox[c][i] = <<n, to.room>>
                 PROVE  ~Waits(c)
      BY DEF Has
    <3>1. Pushed(c, to.room)
      BY <2>1 DEF DeliveryInv, OnceInv
    <3>2. to.room # "user"
      BY DeliveryAssumption DEF DeliveryInv, PlaceInv, Locals, InRoom
    <3> QED
      BY <3>1, <3>2 DEF Pushed
  <2> QED
    BY <2>1, <2>2, <2>3, OneCopy
<1> QED
  BY <1>1, DeliveryInvariant, PTL

\* Nobody is pushed a message for a room before the owner of the room, when
\* the owner is there (deliverToRoom puts its user id first).
THEOREM OwnerFirstTheorem == DeliverySpec => []OwnerFirst
<1>1. DeliveryInv => OwnerFirst
  <2> SUFFICES ASSUME DeliveryInv, NEW c \in present, NEW d \in Conns,
                      uid[c] = to.room, Copies(d, to.room) > 0
               PROVE  Copies(c, to.room) = 1
    BY DEF OwnerFirst
  <2>1. c \in Conns /\ DeliveryTypes /\ InboxOrder
    BY DEF DeliveryInv, PlaceInv, DeliveryTypes, OnceInv
  <2>2. Has(d, to.room)
    BY <2>1, OneCopy
  <2>3. Has(c, to.room)
    BY <2>2 DEF DeliveryInv, ServedInv
  <2> QED
    BY <2>1, <2>3, OneCopy
<1> QED
  BY <1>1, DeliveryInvariant, PTL
=============================================================================
