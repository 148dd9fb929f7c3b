------------------------------ MODULE Delivery ------------------------------
(***************************************************************************)
(* The subscriber goroutine: it receives messages of the router over redis *)
(* and delivers each to a user, a room or the world, while the goroutines  *)
(* of Sessions change the client table and the room tables under it.       *)
(*                                                                         *)
(* deliverToRoom takes the room's inner map in one critical section and    *)
(* reads it in a second; in between the map may have been emptied, deleted *)
(* and made anew, and then the one in hand is an orphan.  The user ids it  *)
(* collects are looked up one by one in the client table, so a push goes   *)
(* to whoever holds the id by then.  A lookup and the ServerHello on what  *)
(* it found are two steps.  (deliverToWorld holds the table's lock.)       *)
(*                                                                         *)
(* What becomes of a message in Client.queue is the subject of PushQueue.  *)
(* A message is taken as FromRouterMessage.Unmarshal leaves it.            *)
(***************************************************************************)
EXTENDS Sessions, Sequences

CONSTANTS World,       \* the room id "world"
          MaxMessages  \* bound: messages received

ASSUME DeliveryAssumption ==
    /\ World \notin Rooms \cup {None}
    /\ "user" \notin Rooms \cup {World}  \* the tag of a push to a user
    /\ MaxMessages \in Nat

VARIABLES
    n,        \* number of the message being handled
    to,       \* its ToUserId and ToRoomId
    dpc,      \* place of the subscriber goroutine
    orphan,   \* userIdToClientMap is no longer the map of the room
    userIds,  \* user ids deliverToRoom has still to look up
    found,    \* the client a lookup has returned
    inbox,    \* what ServerHello was called with on each client
    steady,   \* history: clients in the table since the message arrived
    present   \* history: clients in the table and in the room since
              \* deliverToRoom looked at the room

subscriberVars == <<n, to, dpc, userIds, found, inbox>>
historyVars == <<orphan, steady, present>>
deliveryVars == <<vars, subscriberVars, historyVars>>

Target == [user : Users \cup {None}, room : Rooms \cup {None, World}]

DeliveryInit ==
    /\ Init
    /\ n = 0
    /\ to = [user |-> None, room |-> None]
    /\ dpc = "idle"
    /\ orphan = FALSE
    /\ userIds = <<>>
    /\ found = None
    /\ inbox = [c \in Conns |-> <<>>]
    /\ steady = {}
    /\ present = {}

-----------------------------------------------------------------------------
\* The clients that hold their user id and are found in room r.
Here(r) == {c \in Tabled : rooms[r][uid[c]] = c}

\* The orders in which a room's users may be served without an owner.
Mutant_ServingOrdersAny(r, S) ==
    {s \in [1..Cardinality(S) -> S] :
        \A i, j \in DOMAIN s : i # j => s[i] # s[j]}

\* The user ids of a map with the keys S in the order deliverToRoom appends
\* them: the owner of the room first, the others in the map's random order.
\* The owner of a room is the user whose id is the room id.
ServingOrders(r, S) ==
    {s \in [1..Cardinality(S) -> S] :
        /\ \A i, j \in DOMAIN s : i # j => s[i] # s[j]
        /\ r \in S => s[1] = r}

\* A ServerHello that pushes at the front of the queue.
Mutant_HelloInFront(c, how) ==
    inbox' = IF c = None THEN inbox
                         ELSE [inbox EXCEPT ![c] = << <<n, how>> >> \o @]

\* ServerHello on the client a lookup returned, if it returned one.
Hello(c, how) ==
    inbox' = IF c = None THEN inbox
                         ELSE [inbox EXCEPT ![c] = Append(@, <<n, how>>)]

Runs == server # "exited"

\* subscribe and handleSubscription: the next message of the channel.
Receive(m) ==
    /\ Runs
    /\ dpc = "idle"
    /\ n < MaxMessages
    /\ n' = n + 1
    /\ to' = m
    /\ dpc' = "user"
    /\ steady' = Tabled
    /\ UNCHANGED <<vars, userIds, found, inbox, orphan, present>>

\* deliverToUser: the lookup.
DeliverToUser ==
    /\ Runs
    /\ dpc = "user"
    /\ to.user # None
    /\ found' = clients[to.user]
    /\ dpc' = "helloUser"
    /\ UNCHANGED <<vars, n, to, userIds, inbox, historyVars>>

HelloUser ==
    /\ Runs
    /\ dpc = "helloUser"
    /\ Hello(found, "user")
    /\ found' = None
    /\ dpc' = "room"
    /\ UNCHANGED <<vars, n, to, userIds, historyVars>>

\* A room stage that does not wait for the user stage.
Mutant_AtRoomSkipsUser == Runs /\ dpc \in {"user", "room"}

\* The second condition of handleSubscription is next.
AtRoom == Runs /\ (dpc = "room" \/ (dpc = "user" /\ to.user = None))

\* handleSubscription returns.
Ends ==
    /\ dpc' = "idle"
    /\ to' = [user |-> None, room |-> None]
    /\ orphan' = FALSE
    /\ steady' = {}
    /\ present' = {}

NoRoom ==
    /\ AtRoom
    /\ to.room = None
    /\ Ends
    /\ UNCHANGED <<vars, n, userIds, found, inbox>>

\* deliverToWorld: every client of the table, under the table's lock.
DeliverToWorld ==
    /\ AtRoom
    /\ to.room = World
    /\ inbox' = [c \in Conns |-> IF c \in Tabled THEN Append(inbox[c], <<n, World>>)
                                                 ELSE inbox[c]]
    /\ Ends
    /\ UNCHANGED <<vars, n, userIds, found>>

\* deliverToRoom, first critical section: the room has a map.
LookRoom ==
    /\ AtRoom
    /\ to.room \in roomKeys
    /\ dpc' = "collect"
    /\ present' = Here(to.room)
    /\ UNCHANGED <<vars, n, to, userIds, found, inbox, orphan, steady>>

\* ... or it has none.
RoomMissing ==
    /\ AtRoom
    /\ to.room \in Rooms \ roomKeys
    /\ Ends
    /\ UNCHANGED <<vars, n, userIds, found, inbox>>

\* The keys of the wrong map.
Mutant_ListedEverybody == {u \in Users : clients[u] # None}

\* The keys of the inner map in hand; an orphan is empty.
Listed == IF orphan THEN {} ELSE {u \in Users : rooms[to.room][u] # None}

\* deliverToRoom, second critical section.
Collect ==
    /\ Runs
    /\ dpc = "collect"
    /\ userIds' \in ServingOrders(to.room, Listed)
    /\ orphan' = FALSE
    /\ dpc' = "each"
    /\ UNCHANGED <<vars, n, to, found, inbox, steady, present>>

\* A loop that ends at the first user who is not found.
Mutant_LookupNextBreaks ==
    /\ Runs
    /\ dpc = "each"
    /\ userIds # <<>>
    /\ found' = clients[Head(userIds)]
    /\ userIds' = IF found' = None THEN <<>> ELSE Tail(userIds)
    /\ dpc' = "helloRoom"
    /\ UNCHANGED <<vars, n, to, inbox, historyVars>>

\* deliverToSingleClient for the next user id: the lookup.
LookupNext ==
    /\ Runs
    /\ dpc = "each"
    /\ userIds # <<>>
    /\ found' = clients[Head(userIds)]
    /\ userIds' = Tail(userIds)
    /\ dpc' = "helloRoom"
    /\ UNCHANGED <<vars, n, to, inbox, historyVars>>

HelloRoom ==
    /\ Runs
    /\ dpc = "helloRoom"
    /\ Hello(found, to.room)
    /\ found' = None
    /\ dpc' = "each"
    /\ UNCHANGED <<vars, n, to, userIds, historyVars>>

RoomServed ==
    /\ Runs
    /\ dpc = "each"
    /\ userIds = <<>>
    /\ Ends
    /\ UNCHANGED <<vars, n, userIds, found, inbox>>

Subscriber ==
    \/ \E m \in Target : Receive(m)
    \/ DeliverToUser
    \/ HelloUser
    \/ NoRoom
    \/ DeliverToWorld
    \/ LookRoom
    \/ RoomMissing
    \/ Collect
    \/ LookupNext
    \/ HelloRoom
    \/ RoomServed

\* A step of the session core, and what it means for the message under way:
\* the deletion of the room's map turns the one in hand into an orphan.
SessionStep ==
    /\ Next
    /\ UNCHANGED subscriberVars
    /\ orphan' = (orphan \/ (dpc = "collect" /\ to.room \notin roomKeys'))
    /\ steady' = {c \in steady : c \in Tabled'}
    /\ present' = {c \in present : c \in Here(to.room)'}

DeliveryNext == SessionStep \/ Subscriber

DeliverySpec == DeliveryInit /\ [][DeliveryNext]_deliveryVars

-----------------------------------------------------------------------------
(***************************************************************************)
(* Properties.                                                             *)
(***************************************************************************)

\* How often the message under way was pushed to c in one way.
Copies(c, how) == Cardinality({i \in DOMAIN inbox[c] : inbox[c][i] = <<n, how>>})

\* The subscriber has finished with the user of the message.
UserDone == dpc \in {"room", "collect", "each", "helloRoom"}

\* A message for a user is pushed, exactly once, to a client that holds the
\* user id from the arrival of the message on.
UserServed ==
    \A c \in steady :
        UserDone /\ uid[c] = to.user => Copies(c, "user") = 1

\* A client that stays in the table and in the room while a message for the
\* room is delivered gets it exactly once: after its turn one copy, before
\* its turn none, whoever enters, leaves, logs in or ends around it, and
\* also when the room's map was deleted and made anew before.
MembersServed ==
    dpc = "each" =>
        \A c \in present :
            Copies(c, to.room) =
                IF \E i \in DOMAIN userIds : userIds[i] = uid[c] THEN 0 ELSE 1

\* The owner of the room, when it is there, is served before anybody else.
OwnerFirst ==
    \A c \in present, d \in Conns :
        /\ uid[c] = to.room
        /\ d # c
        /\ Copies(d, to.room) > 0
        => Copies(c, to.room) = 1

\* A client receives the messages of a room only if its user has entered the
\* room once, on this or on an earlier connection.
RoomPrivacy ==
    \A c \in Conns : \A i \in DOMAIN inbox[c] :
        inbox[c][i][2] \in Rooms => entered[inbox[c][i][2]][uid[c]] # None

\* Every client is pushed the messages in the order they arrived in, and
\* none twice, except once as the user and once as a member of the room (or
\* of the world) when the message names both.
InboxOrder ==
    \A c \in Conns : \A i, j \in DOMAIN inbox[c] :
        i < j => \/ inbox[c][i][1] < inbox[c][j][1]
                 \/ /\ inbox[c][i][1] = inbox[c][j][1]
                    /\ inbox[c][i][2] = "user"
                    /\ inbox[c][j][2] # "user"
=============================================================================
