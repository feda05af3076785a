------------------------------- MODULE Presence -------------------------------
(***************************************************************************)
(* Presence: InMemoryPresenceStore, PresenceService and the connection     *)
(* handlers of RealtimeGateway, in one project.                            *)
(*                                                                         *)
(* A connection or disconnection changes the store at once; if it is the   *)
(* user's first or last socket, the handler then awaits the update of the  *)
(* user's row and the query for the rooms of his contacts, and broadcasts. *)
(* The handlers of different sockets interleave in their awaits, and the   *)
(* process may die in them, which empties the store and keeps the rows.    *)
(***************************************************************************)
EXTENDS Integers, FiniteSets, Connections

CONSTANTS
    NoUser,
    Failures,       \* the database may reject a call
    MaxCrashes      \* bound: the restarts

Stamp == 0..Cardinality(Socket)
Never == 0

ASSUME PresenceAssumption ==
    /\ IsFiniteSet(Socket)
    /\ UserOf \in [Socket -> User]
    /\ NoUser \notin User
    /\ Failures \in BOOLEAN
    /\ MaxCrashes \in Nat

VARIABLES
    userSockets,    \* per user, the ids of his sockets
    socketToUser,   \* per socket, its user, or NoUser
    isOnline,       \* per user, communicationUser.isOnline
    lastSeenAt,     \* per user, communicationUser.lastSeenAt
    shown,          \* the users whose last broadcast was presence:online
    arrival,        \* per socket, where its handleConnection stands
    departure,      \* per socket, where its handleDisconnect stands
    leftAt,         \* per socket, the lastSeenAt of its handleDisconnect
    clock,
    crashes,
    blurred         \* history: the users whose latest transition overlapped
                    \* another one, or met a failure or a crash

store == <<userSockets, socketToUser>>
rows == <<isOnline, lastSeenAt>>
vars == <<store, rows, shown, link, arrival, departure, leftAt, clock,
          crashes, blurred>>

(* The store's isOnline. *)
Online(u) == userSockets[u] # {}

Awaiting == {"write", "rooms"}

(* Transitions of a user that are not broadcast yet. *)
UnderWay(u) ==
    \E s \in Socket : UserOf[s] = u /\
        (arrival[s] \in Awaiting \/ departure[s] \in Awaiting)

(* History: a transition begins. *)
Transit(u) ==
    blurred' = IF UnderWay(u) THEN blurred \cup {u} ELSE blurred \ {u}

Blur(u) == blurred' = blurred \cup {u}

-----------------------------------------------------------------------------
Init ==
    /\ userSockets = [u \in User |-> {}]
    /\ socketToUser = [s \in Socket |-> NoUser]
    /\ isOnline = [u \in User |-> FALSE]
    /\ lastSeenAt = [u \in User |-> Never]
    /\ shown = {}
    /\ link = [s \in Socket |-> "new"]
    /\ arrival = [s \in Socket |-> "none"]
    /\ departure = [s \in Socket |-> "none"]
    /\ leftAt = [s \in Socket |-> Never]
    /\ clock = 0
    /\ crashes = 0
    /\ blurred = {}

AddSocket(s) ==
    /\ userSockets' = [userSockets EXCEPT ![UserOf[s]] = @ \cup {s}]
    /\ socketToUser' = [socketToUser EXCEPT ![s] = UserOf[s]]

RemoveSocketById(s) ==
    /\ userSockets' = [userSockets EXCEPT ![socketToUser[s]] = @ \ {s}]
    /\ socketToUser' = [socketToUser EXCEPT ![s] = NoUser]

(* handleConnection up to its first await of the database. *)
Connect(s) ==
    LET u == UserOf[s] IN
    /\ link[s] = "new"
    /\ link' = [link EXCEPT ![s] = "connected"]
    /\ AddSocket(s)
    /\ IF Online(u)
       THEN /\ arrival' = [arrival EXCEPT ![s] = "done"]
            /\ UNCHANGED blurred
       ELSE /\ arrival' = [arrival EXCEPT ![s] = "write"]
            /\ Transit(u)
    /\ UNCHANGED <<rows, shown, departure, leftAt, clock, crashes>>

(* The last socket of the user: the moment is taken down. *)
Leave(s) ==
    IF userSockets[socketToUser[s]] = {s}
    THEN /\ departure' = [departure EXCEPT ![s] = "write"]
         /\ leftAt' = [leftAt EXCEPT ![s] = clock + 1]
         /\ clock' = clock + 1
         /\ Transit(socketToUser[s])
    ELSE /\ departure' = [departure EXCEPT ![s] = "done"]
         /\ UNCHANGED <<leftAt, clock, blurred>>

(* handleDisconnect up to its first await. *)
Disconnect(s) ==
    /\ link[s] = "connected"
    /\ link' = [link EXCEPT ![s] = "gone"]
    /\ RemoveSocketById(s)
    /\ Leave(s)
    /\ UNCHANGED <<rows, shown, arrival, crashes>>

(* The update of the row; its failure is logged, and the handler goes on. *)
WriteOnline(s) ==
    LET u == UserOf[s] IN
    /\ arrival[s] = "write"
    /\ arrival' = [arrival EXCEPT ![s] = "rooms"]
    /\ \/ isOnline' = [isOnline EXCEPT ![u] = TRUE] /\ UNCHANGED blurred
       \/ Failures /\ Blur(u) /\ UNCHANGED isOnline
    /\ UNCHANGED <<store, lastSeenAt, shown, link, departure, leftAt, clock,
                   crashes>>

ForgetLastSeen(s) ==                                            \* mutant
    LET u == UserOf[s] IN
    /\ departure[s] = "write"
    /\ departure' = [departure EXCEPT ![s] = "rooms"]
    /\ isOnline' = [isOnline EXCEPT ![u] = FALSE]
    /\ UNCHANGED <<store, lastSeenAt, shown, link, arrival, leftAt, clock,
                   crashes, blurred>>

WriteOffline(s) ==
    LET u == UserOf[s] IN
    /\ departure[s] = "write"
    /\ departure' = [departure EXCEPT ![s] = "rooms"]
    /\ \/ /\ isOnline' = [isOnline EXCEPT ![u] = FALSE]
          /\ lastSeenAt' = [lastSeenAt EXCEPT ![u] = leftAt[s]]
          /\ UNCHANGED blurred
       \/ Failures /\ Blur(u) /\ UNCHANGED rows
    /\ UNCHANGED <<store, shown, link, arrival, leftAt, clock, crashes>>

TellNobody(s) ==                                                \* mutant
    /\ arrival[s] = "rooms"
    /\ arrival' = [arrival EXCEPT ![s] = "done"]
    /\ UNCHANGED <<store, rows, shown, link, departure, leftAt, clock,
                   crashes, blurred>>

(* getUserConversationRooms and the broadcast; a failure of the query is   *)
(* logged, and nothing is broadcast.                                       *)
TellOnline(s) ==
    LET u == UserOf[s] IN
    /\ arrival[s] = "rooms"
    /\ arrival' = [arrival EXCEPT ![s] = "done"]
    /\ \/ shown' = shown \cup {u} /\ UNCHANGED blurred
       \/ Failures /\ Blur(u) /\ UNCHANGED shown
    /\ UNCHANGED <<store, rows, link, departure, leftAt, clock, crashes>>

TellOffline(s) ==
    LET u == UserOf[s] IN
    /\ departure[s] = "rooms"
    /\ departure' = [departure EXCEPT ![s] = "done"]
    /\ \/ shown' = shown \ {u} /\ UNCHANGED blurred
       \/ Failures /\ Blur(u) /\ UNCHANGED shown
    /\ UNCHANGED <<store, rows, link, arrival, leftAt, clock, crashes>>

(* The process dies with its connections and handlers; a new one starts    *)
(* with an empty store and does not look at the rows.                      *)
Crash ==
    /\ crashes < MaxCrashes
    /\ crashes' = crashes + 1
    /\ userSockets' = [u \in User |-> {}]
    /\ socketToUser' = [s \in Socket |-> NoUser]
    /\ link' = [s \in Socket |-> IF link[s] = "new" THEN "new" ELSE "gone"]
    /\ arrival' = [s \in Socket |->
                    IF arrival[s] = "none" THEN "none" ELSE "done"]
    /\ departure' = [s \in Socket |->
                    IF departure[s] = "none" THEN "none" ELSE "done"]
    /\ blurred' = blurred \cup {u \in User : Online(u) \/ UnderWay(u)}
    /\ UNCHANGED <<rows, shown, leftAt, clock>>

-----------------------------------------------------------------------------
Continue(s) ==
    WriteOnline(s) \/ TellOnline(s) \/ WriteOffline(s) \/ TellOffline(s)

Next ==
    \/ \E s \in Socket : Connect(s) \/ Disconnect(s) \/ Continue(s)
    \/ Crash

Spec == Init /\ [][Next]_vars

(* The database answers, one way or the other. *)
FairSpec == Spec /\ \A s \in Socket : WF_vars(Continue(s))

-----------------------------------------------------------------------------
Stage == {"none", "write", "rooms", "done"}

TypeOK ==
    /\ userSockets \in [User -> SUBSET Socket]
    /\ socketToUser \in [Socket -> User \cup {NoUser}]
    /\ isOnline \in [User -> BOOLEAN]
    /\ lastSeenAt \in [User -> Stamp]
    /\ shown \subseteq User
    /\ link \in [Socket -> {"new", "connected", "gone"}]
    /\ arrival \in [Socket -> Stage]
    /\ departure \in [Socket -> Stage]
    /\ leftAt \in [Socket -> Stamp]
    /\ clock \in Stamp
    /\ crashes \in 0..MaxCrashes
    /\ blurred \subseteq User

(* The two maps of the store agree with each other and with the actual     *)
(* connections, so the last tab, and only the last, makes a user offline.  *)
StoreIsActual ==
    \A s \in Socket, u \in User :
        /\ s \in userSockets[u] <=> socketToUser[s] = u
        /\ s \in userSockets[u] <=> link[s] = "connected" /\ UserOf[s] = u

(* When nothing is under way for a user, what his contacts were told last  *)
(* and what the database says is true, unless his latest transitions       *)
(* overlapped or met a failure or a crash.                                 *)
TrueUnlessBlurred ==
    \A u \in User : ~UnderWay(u) /\ u \notin blurred =>
        (u \in shown <=> Online(u)) /\ (isOnline[u] <=> Online(u))

(* And the last-seen time of a user who is offline is that of his final    *)
(* disconnection.                                                          *)
LastSeenIsFinal ==
    \A u \in User : ~UnderWay(u) /\ u \notin blurred /\ ~Online(u) =>
        \A s \in Socket : UserOf[s] = u => leftAt[s] <= lastSeenAt[u]

(* The two together: the row of a user tells the truth about him. *)
RowIsTrue == TrueUnlessBlurred /\ LastSeenIsFinal

(* A user who comes online and stays is shown so in the end. *)
ArrivalIsTold ==
    \A u \in User :
        Online(u) ~> (u \in shown \/ ~Online(u) \/ u \in blurred)
=============================================================================
