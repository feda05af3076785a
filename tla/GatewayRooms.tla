---------------------------- MODULE GatewayRooms ----------------------------
(***************************************************************************)
(* Who hears what is said in one conversation: the sockets of its room,    *)
(* which a client asks to join and leave (RealtimeGateway), and those of   *)
(* the users' rooms, to which RealtimePublisher publishes as well.         *)
(*                                                                         *)
(* A Request is one conversation:join; its phase names what it awaits.  A  *)
(* Message is one publication, of a message, of a receipt, or of the       *)
(* message of a missed call.  Memberships change in ConversationService.   *)
(***************************************************************************)
EXTENDS Integers, FiniteSets

CONSTANTS
    User, Socket,
    UserOf,     \* whose socket it is
    Request, Message

NoSocket == "none"

VARIABLES
    member,     \* the users that are participants
    link,       \* per socket: "new", "connected", "gone"
    room,       \* the sockets in the room of the conversation
    request,    \* the joins under way
    message,    \* the publications: their kind, phase and recipients
    told,       \* per message and socket: how often it was emitted to it
    entitled,   \* history: sockets whose user was a member when a join looked,
                \*   since they last left
    steady      \* history: per message, the users that have been members
                \*   since it began

vars == <<member, link, room, request, message, told, entitled, steady>>

Connected == {s \in Socket : link[s] = "connected"}

Init ==
    /\ member \in SUBSET User
    /\ link = [s \in Socket |-> "new"]
    /\ room = {}
    /\ request = [r \in Request |-> [phase |-> "idle", socket |-> NoSocket]]
    /\ message = [m \in Message |->
                     [phase |-> "idle", kind |-> "none", to |-> {}]]
    /\ told = [m \in Message |-> [s \in Socket |-> 0]]
    /\ entitled = {}
    /\ steady = [m \in Message |-> {}]

-----------------------------------------------------------------------------
(* handleConnection joins the room of the user, before it tells of his     *)
(* presence. *)
Connect(s) ==
    /\ link[s] = "new"
    /\ link' = [link EXCEPT ![s] = "connected"]
    /\ UNCHANGED <<member, room, request, message, told, entitled, steady>>

(* Socket.IO takes a socket that is gone out of its rooms. *)
Disconnect(s) ==
    /\ link[s] = "connected"
    /\ link' = [link EXCEPT ![s] = "gone"]
    /\ room' = room \ {s}
    /\ UNCHANGED <<member, request, message, told, entitled, steady>>

AddParticipant(u) ==
    /\ u \notin member
    /\ member' = member \cup {u}
    /\ UNCHANGED <<link, room, request, message, told, entitled, steady>>

(* Removed or left: his sockets stay in the room. *)
RemoveParticipant(u) ==
    /\ u \in member
    /\ member' = member \ {u}
    /\ steady' = [m \in Message |-> IF message[m].phase = "over" THEN steady[m]
                                    ELSE steady[m] \ {u}]
    /\ UNCHANGED <<link, room, request, message, told, entitled>>

-----------------------------------------------------------------------------
(* handleJoinConversation. *)
AskToJoin(r, s) ==
    /\ request[r].phase = "idle"
    /\ s \in Connected
    /\ request' = [request EXCEPT ![r] = [phase |-> "find", socket |-> s]]
    /\ UNCHANGED <<member, link, room, message, told, entitled, steady>>

(* findById finds the conversations of the user only, or fails. *)
FindById(r) ==
    LET s == request[r].socket IN
    /\ request[r].phase = "find"
    /\ \/ /\ UserOf[s] \in member
          /\ request' = [request EXCEPT ![r].phase = "join"]
          /\ entitled' = entitled \cup {s}
       \/ /\ request' = [request EXCEPT ![r].phase = "over"]
          /\ UNCHANGED entitled
    /\ UNCHANGED <<member, link, room, message, told, steady>>

(* Only then is the socket, if it is still there, put into the room.  The  *)
(* lookup of the members' presence that follows may fail, and the client is*)
(* answered with an error; he is in the room all the same.                 *)
Join(r) ==
    LET s == request[r].socket IN
    /\ request[r].phase = "join"
    /\ room' = room \cup ({s} \cap Connected)
    /\ request' = [request EXCEPT ![r].phase = "over"]
    /\ UNCHANGED <<member, link, message, told, entitled, steady>>

(* handleLeaveConversation asks nobody. *)
LeaveRoom(s) ==
    /\ s \in room
    /\ room' = room \ {s}
    /\ entitled' = {t \in entitled : t # s \/
                       \E r \in Request : request[r] = [phase |-> "join", socket |-> s]}
    /\ UNCHANGED <<member, link, request, message, told, steady>>

-----------------------------------------------------------------------------
(* sendMessage reads the participants before the message is created, and   *)
(* publishes to those; a receipt is published to the participants that     *)
(* publish reads itself.  Each may fail.                                   *)
Begin(m, kind) ==
    /\ message[m].phase = "idle"
    /\ message' = [message EXCEPT ![m] =
           [phase |-> IF kind = "receipt" THEN "emit" ELSE "create",
            kind |-> kind, to |-> member]]
    /\ steady' = [steady EXCEPT ![m] = member]
    /\ UNCHANGED <<member, link, room, request, told, entitled>>

Create(m) ==
    /\ message[m].phase = "create"
    /\ \E phase \in {"emit", "over"} :
           message' = [message EXCEPT ![m].phase = phase]
    /\ UNCHANGED <<member, link, room, request, told, entitled, steady>>

InUserRooms(users) == {s \in Connected : UserOf[s] \in users}

ReachedRoom(m) == room                                          \* mutant

(* One emission to several rooms reaches a socket once. *)
Reached(m) == room \cup InUserRooms(message[m].to)

Emit(m) ==
    /\ message[m].phase = "emit"
    /\ told' = [told EXCEPT ![m] =
           [s \in Socket |-> @[s] + IF s \in Reached(m) THEN 1 ELSE 0]]
    /\ message' = [message EXCEPT ![m].phase =
           IF message[m].kind = "missed" THEN "again" ELSE "over"]
    /\ UNCHANGED <<member, link, room, request, entitled, steady>>

(* When sendMessage has returned, the listener of missed calls emits the   *)
(* message to the room a second time.                                      *)
EmitAgain(m) ==
    /\ message[m].phase = "again"
    /\ told' = [told EXCEPT ![m] =
           [s \in Socket |-> @[s] + IF s \in room THEN 1 ELSE 0]]
    /\ message' = [message EXCEPT ![m].phase = "over"]
    /\ UNCHANGED <<member, link, room, request, entitled, steady>>

-----------------------------------------------------------------------------
Next ==
    \/ \E s \in Socket : Connect(s) \/ Disconnect(s) \/ LeaveRoom(s)
    \/ \E u \in User : AddParticipant(u) \/ RemoveParticipant(u)
    \/ \E r \in Request :
        \/ \E s \in Socket : AskToJoin(r, s)
        \/ FindById(r) \/ Join(r)
    \/ \E m \in Message :
        \/ \E kind \in {"message", "receipt", "missed"} : Begin(m, kind)
        \/ Create(m) \/ Emit(m) \/ EmitAgain(m)

Spec == Init /\ [][Next]_vars

-----------------------------------------------------------------------------
(* A publication reaches, at that moment, every connected socket of those  *)
(* that have been members since it began, in the room or not; it reaches   *)
(* nobody else than the members it found when it began, and sockets that   *)
(* a member had put into the room; and it reaches each once - the message  *)
(* of a missed call twice, in the room.                                    *)
PublicationsReachMembers ==
    [][\A m \in Message : told'[m] # told[m] =>
        /\ Emit(m) => \A s \in Connected :
              UserOf[s] \in steady[m] => told'[m][s] > told[m][s]
        /\ \A s \in Socket : told'[m][s] > told[m][s] =>
              /\ link[s] = "connected"
              /\ UserOf[s] \in message[m].to \/ s \in entitled
              /\ told'[m][s] = 1 \/ message[m].kind = "missed"]_vars
=============================================================================
