--------------------------- MODULE RouterMessage ---------------------------
(***************************************************************************)
(* One message from the router on its way through the codecs: Unmarshal    *)
(* with its fallback to the deprecated fields, the choice of the targets,  *)
(* convert, and Marshal, which the sender goroutines of all the targeted   *)
(* clients call on one shared ToClientMessage and which keeps its result.  *)
(*                                                                         *)
(* Of encoding/json the module has what matters here: a syntax error fills *)
(* nothing; a value of the wrong type leaves its field out, fills the      *)
(* others and is reported; two fields with one tag are both left out.      *)
(***************************************************************************)
EXTENDS Naturals, FiniteSets

CONSTANTS Ids,      \* user and room ids
          World,    \* the room id "world"
          Texts,    \* contents, not empty
          Empty,    \* the empty string
          Missing,  \* no such key in params
          Senders   \* the clients the message is pushed to

ASSUME RouterAssumption ==
    /\ World \in Ids
    /\ {Empty, Missing} \cap (Ids \cup Texts) = {}
    /\ Empty # Missing
    /\ IsFiniteSet(Senders)

Names == Ids \cup {Empty}

\* FromRouterMessage, times and message id left out.
Fields == [toUserId : Names, toRoomId : Names, params : Texts \cup {Empty, Missing},
           userId : Names, roomId : Names, content : Texts \cup {Empty}]

Forms == {"valid", "mistyped", "garbled"}
Blank == [toUserId |-> Empty, toRoomId |-> Empty, params |-> Missing,
          userId |-> Empty, roomId |-> Empty, content |-> Empty]

VARIABLES
    form,       \* how the payload is broken, if at all
    payload,    \* what its fields hold
    message,    \* the FromRouterMessage after Unmarshal
    stage,      \* "none", "decoded" or "pushed"
    hello,      \* the shared ToClientMessage
    serialized, \* serializedBytes: 0 for nil, else which run produced it
    runs,       \* calls of json.Marshal
    spc,        \* place of each sender: "idle", "missed" or "done"
    got         \* which bytes each sender got from Marshal, 0 for none

vars == <<form, payload, message, stage, hello, serialized, runs, spc, got>>

-----------------------------------------------------------------------------
\* json.Unmarshal.
Decoded(f, p) == IF f = "garbled" THEN Blank ELSE p

\* A fallback that takes the content for the addressee.
Mutant_FallbackToContent(d) ==
    [d EXCEPT !.toUserId = IF d.content # Empty THEN d.content ELSE @]

\* The statements under result != nil.  The last one, meant for the content,
\* stores what params holds, nothing, in ToUserId.
Fallback(d) ==
    LET user == IF d.userId # Empty /\ d.toUserId = Empty THEN d.userId ELSE d.toUserId
        room == IF d.roomId # Empty /\ d.toRoomId = Empty THEN d.roomId ELSE d.toRoomId
        unsaid == d.content # Empty /\ d.params \in {Missing, Empty}
    IN  [d EXCEPT !.toUserId = IF unsaid THEN Empty ELSE user, !.toRoomId = room]

\* FromRouterMessage.Unmarshal.
Unmarshal(f, p) == IF f = "valid" THEN p ELSE Fallback(Decoded(f, p))

\* handleSubscription receives a payload; the error of Unmarshal is dropped.
Receive(f, p) ==
    /\ stage = "none"
    /\ form' = f
    /\ payload' = p
    /\ message' = Unmarshal(f, p)
    /\ stage' = "decoded"
    /\ UNCHANGED <<hello, serialized, runs, spc, got>>

\* Whom handleSubscription turns to.
Users(m) == {m.toUserId} \ {Empty}
Rooms(m) == {m.toRoomId} \ {Empty, World}
ToWorld(m) == m.toRoomId = World

\* convert: the deprecated fields repeat the current ones.
Convert(m) ==
    [ToUserId |-> m.toUserId, ToRoomId |-> m.toRoomId, Params |-> m.params,
     UserId |-> m.toUserId, RoomId |-> m.toRoomId,
     Content |-> IF m.params = Missing THEN Empty ELSE m.params, Importance |-> 0]

\* The message is pushed to its targets, if it has any.  deliverToUser,
\* deliverToRoom and deliverToWorld make one object each for all the clients
\* they serve; the module follows one of them.
Push ==
    /\ stage = "decoded"
    /\ Users(message) # {} \/ Rooms(message) # {} \/ ToWorld(message)
    /\ hello' = Convert(message)
    /\ stage' = "pushed"
    /\ UNCHANGED <<form, payload, message, serialized, runs, spc, got>>

-----------------------------------------------------------------------------
\* The json tags of ToClientMessage.
Tag == [ToUserId |-> "toUserId", ToRoomId |-> "toRoomId", Params |-> "params",
        UserId |-> "userId", RoomId |-> "roomId", Content |-> "content",
        Importance |-> "content"]

\* The fields json.Marshal writes.
Written == {f \in DOMAIN Tag : \A g \in DOMAIN Tag \ {f} : Tag[g] # Tag[f]}

\* What the peer of a client finds in the bytes.
Wire == [t \in {Tag[f] : f \in Written} |-> hello[CHOOSE f \in Written : Tag[f] = t]]

\* Marshal under the read lock: bytes made earlier are returned.
MarshalReads(s) ==
    /\ stage = "pushed"
    /\ spc[s] = "idle"
    /\ spc' = [spc EXCEPT ![s] = IF serialized # 0 THEN "done" ELSE "missed"]
    /\ got' = [got EXCEPT ![s] = serialized]
    /\ UNCHANGED <<form, payload, message, stage, hello, serialized, runs>>

\* Marshal under the write lock without looking again.
Mutant_MarshalBlindly(s) ==
    /\ spc[s] = "missed"
    /\ runs' = runs + 1
    /\ serialized' = runs'
    /\ got' = [got EXCEPT ![s] = serialized']
    /\ spc' = [spc EXCEPT ![s] = "done"]
    /\ UNCHANGED <<form, payload, message, stage, hello>>

\* Marshal under the write lock: look again, then encode and keep.
MarshalEncodes(s) ==
    /\ spc[s] = "missed"
    /\ runs' = IF serialized = 0 THEN runs + 1 ELSE runs
    /\ serialized' = IF serialized = 0 THEN runs' ELSE serialized
    /\ got' = [got EXCEPT ![s] = serialized']
    /\ spc' = [spc EXCEPT ![s] = "done"]
    /\ UNCHANGED <<form, payload, message, stage, hello>>

Init ==
    /\ form = "valid"
    /\ payload = Blank
    /\ message = Blank
    /\ stage = "none"
    /\ hello = Convert(Blank)
    /\ serialized = 0
    /\ runs = 0
    /\ spc = [s \in Senders |-> "idle"]
    /\ got = [s \in Senders |-> 0]

Next ==
    \/ \E f \in Forms, p \in Fields : Receive(f, p)
    \/ Push
    \/ \E s \in Senders : MarshalReads(s) \/ MarshalEncodes(s)

Spec == Init /\ [][Next]_vars

-----------------------------------------------------------------------------
\* However broken the payload, the message goes to nobody it does not name,
\* no user, no room and not the world: the fallback of Unmarshal, run on what
\* was filled before the error, turns no content into an addressee.
OnlyNamedTargets ==
    stage # "none" =>
        /\ Users(message) \subseteq {payload.toUserId, payload.userId}
        /\ Rooms(message) \subseteq {payload.toRoomId, payload.roomId}
        /\ ToWorld(message) => World \in {payload.toRoomId, payload.roomId}
        /\ form = "garbled" => Users(message) \cup Rooms(message) = {} /\ ~ToWorld(message)

\* All clients a message is pushed to send the same bytes, encoded once,
\* although their goroutines reach the empty cache together; and what their
\* peers read in a message whose payload was valid is what the router wrote,
\* under the current names and under the deprecated ones.
EncodedOnce ==
    /\ runs <= 1
    /\ \A s \in Senders : spc[s] = "done" => got[s] = serialized /\ serialized # 0
    /\ stage = "pushed" /\ form = "valid" =>
        /\ Wire["toUserId"] = payload.toUserId /\ Wire["toRoomId"] = payload.toRoomId
        /\ Wire["userId"] = payload.toUserId /\ Wire["roomId"] = payload.toRoomId
        /\ Wire["params"] = payload.params
=============================================================================
