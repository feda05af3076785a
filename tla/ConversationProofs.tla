-------------------------- MODULE ConversationProofs --------------------------
(***************************************************************************)
(* Proofs about what the members see of a conversation and of each         *)
(* other: Presence, Typing, GatewayRooms, MessageHistory and               *)
(* ConversationList, for any users, sockets, messages, calls and pages,    *)
(* rejected database calls and restarts. Each part has an inductive        *)
(* invariant of its own; the parts do not meet.                            *)
(***************************************************************************)
EXTENDS Conversations, Typing, Sorting, SequenceTheorems, FiniteSetTheorems,
        TLAPS

-----------------------------------------------------------------------------
(***************************************************************************)
(* Presence. For a user who is not blurred at most one transition is       *)
(* under way, its direction is what the store says, and the row follows    *)
(* the broadcast's direction before the broadcast is made.                 *)
(***************************************************************************)
Of(u) == {s \in Socket : UserOf[s] = u}

(* A connection or a disconnection of s that has not said all it will. *)
Flying(s) == arrival[s] \in Awaiting \/ departure[s] \in Awaiting

Alone(s, u) == \A t \in Of(u) : t # s => ~Flying(t)

(* What a socket has been through. *)
LivesKnown ==
    \A s \in Socket :
        /\ link[s] = "new" => arrival[s] = "none"
        /\ link[s] # "gone" => departure[s] = "none" /\ leftAt[s] = Never
        /\ leftAt[s] <= clock

Left == {s \in Socket : leftAt[s] # Never}

ClockCounts == clock = Cardinality(Left)

(* An arrival that awaits the store is alone and its user is there. *)
ArrivalSound(u) ==
    \A s \in Of(u) : arrival[s] \in Awaiting =>
        /\ Online(u)
        /\ departure[s] \notin Awaiting
        /\ Alone(s, u)
        /\ arrival[s] = "rooms" => isOnline[u]

(* A departure that awaits the store is the user's last one; when it goes  *)
(* on to the rooms it has written the time.                                *)
DepartureSound(u) ==
    \A s \in Of(u) : departure[s] \in Awaiting =>
        /\ ~Online(u)
        /\ arrival[s] \notin Awaiting
        /\ Alone(s, u)
        /\ \A t \in Of(u) : leftAt[t] <= leftAt[s]
        /\ departure[s] = "rooms" => ~isOnline[u] /\ lastSeenAt[u] = leftAt[s]

(* When nothing is under way, row and broadcast say what is so. *)
RestSound(u) ==
    ~UnderWay(u) =>
        /\ u \in shown <=> Online(u)
        /\ isOnline[u] <=> Online(u)
        /\ ~Online(u) => \A s \in Of(u) : leftAt[s] <= lastSeenAt[u]

Sound(u) ==
    u \notin blurred => ArrivalSound(u) /\ DepartureSound(u) /\ RestSound(u)

Inv ==
    /\ TypeOK
    /\ LivesKnown
    /\ ClockCounts
    /\ StoreIsActual
    /\ \A u \in User : Sound(u)

-----------------------------------------------------------------------------
LEMMA StampType ==
  /\ Stamp \subseteq Nat /\ Never \in Stamp
  /\ \A n \in Nat : n <= Cardinality(Socket) => n \in Stamp
  <1>1. Cardinality(Socket) \in Nat
    BY PresenceAssumption, FS_CardinalityType DEF PresenceAssumption
  <1> QED
    BY <1>1 DEF Stamp, Never

LEMMA UserKnown ==
  ASSUME NEW s \in Socket
  PROVE  UserOf[s] \in User /\ s \in Of(UserOf[s])
  BY PresenceAssumption DEF PresenceAssumption, Of

(* A departing socket finds room on the clock. *)
LEMMA LeavingCounts ==
  ASSUME TypeOK, ClockCounts, NEW s \in Socket, s \notin Left,
         Left' = Left \cup {s}, clock' = clock + 1
  PROVE  clock' \in Stamp /\ clock' = Cardinality(Left') /\ clock' # Never
  <1>1. Left \in SUBSET Socket /\ IsFiniteSet(Socket)
    BY PresenceAssumption DEF Left, PresenceAssumption
  <1>2. IsFiniteSet(Left)
    BY <1>1, FS_Subset
  <1>3. Cardinality(Left \cup {s}) = Cardinality(Left) + 1
    BY <1>2, FS_AddElement
  <1>4. (Left \cup {s}) \in SUBSET Socket
    BY <1>1
  <1>5. Cardinality(Left \cup {s}) <= Cardinality(Socket)
    BY <1>1, <1>4, FS_Subset
  <1>6. clock \in Nat
    BY StampType DEF TypeOK
  <1> QED
    BY <1>3, <1>5, <1>6, StampType DEF ClockCounts, Never

LEMMA InitHolds == Init => Inv
  <1> SUFFICES ASSUME Init PROVE Inv
    OBVIOUS
  <1>1. TypeOK
    BY StampType, PresenceAssumption
       DEF Init, TypeOK, Stage, PresenceAssumption, Never
  <1>2. LivesKnown
    BY DEF Init, LivesKnown, Never
  <1>3. ClockCounts
    <2>1. Left = {}
      BY DEF Init, Left
    <2> QED
      BY <2>1, FS_EmptySet DEF Init, ClockCounts
  <1>4. StoreIsActual
    BY PresenceAssumption DEF Init, StoreIsActual, PresenceAssumption
  <1>5. ASSUME NEW u \in User PROVE Sound(u)
    <2>1. ArrivalSound(u) /\ DepartureSound(u)
      BY DEF Init, ArrivalSound, DepartureSound, Awaiting, Of
    <2>2. RestSound(u)
      BY DEF Init, RestSound, Online, Of, Never
    <2> QED
      BY <2>1, <2>2 DEF Sound
  <1> QED
    BY <1>1, <1>2, <1>3, <1>4, <1>5 DEF Inv

-----------------------------------------------------------------------------
(* A step that changes nothing that matters to a user leaves him sound. *)
LEMMA SameKeeps ==
  ASSUME NEW u \in User, Sound(u),
         \A s \in Of(u) :
            /\ arrival'[s] \in Awaiting <=> arrival[s] \in Awaiting
            /\ arrival'[s] = "rooms" <=> arrival[s] = "rooms"
            /\ \/ departure'[s] = departure[s]
               \/ {departure'[s], departure[s]} \cap Awaiting = {}
            /\ leftAt'[s] = leftAt[s],
         Online(u)' <=> Online(u),
         isOnline'[u] = isOnline[u], lastSeenAt'[u] = lastSeenAt[u],
         u \in shown' <=> u \in shown,
         u \in blurred => u \in blurred'
  PROVE  Sound(u)'
  <1> SUFFICES ASSUME u \notin blurred'
               PROVE  ArrivalSound(u)' /\ DepartureSound(u)' /\ RestSound(u)'
    BY DEF Sound
  <1>1. ArrivalSound(u) /\ DepartureSound(u) /\ RestSound(u)
    BY DEF Sound
  <1>2. \A s \in Of(u) : Flying(s)' <=> Flying(s)
    BY DEF Flying, Awaiting
  <1>3. \A s \in Of(u) : Alone(s, u)' <=> Alone(s, u)
    BY <1>2 DEF Alone, Of
  <1>4. ArrivalSound(u)'
    BY <1>1, <1>3 DEF ArrivalSound, Of, Awaiting
  <1>5. DepartureSound(u)'
    BY <1>1, <1>3 DEF DepartureSound, Of, Awaiting
  <1>6. UnderWay(u)' <=> UnderWay(u)
    BY <1>2 DEF UnderWay, Flying, Of
  <1>7. RestSound(u)'
    BY <1>1, <1>6 DEF RestSound, Of
  <1> QED
    BY <1>4, <1>5, <1>7

(* What a handler of one socket does is no matter to other users. *)
LEMMA OthersKeep ==
  ASSUME Inv, NEW s \in Socket, NEW v \in User, v # UserOf[s],
         \A t \in Socket : t # s =>
            /\ arrival'[t] = arrival[t] /\ departure'[t] = departure[t]
            /\ leftAt'[t] = leftAt[t],
         userSockets'[v] = userSockets[v],
         isOnline'[v] = isOnline[v], lastSeenAt'[v] = lastSeenAt[v],
         v \in shown' <=> v \in shown, v \in blurred' <=> v \in blurred
  PROVE  Sound(v)'
  <1>1. \A t \in Of(v) : t \in Socket /\ t # s
    BY DEF Of
  <1>2. Online(v)' <=> Online(v)
    BY DEF Online
  <1>3. Sound(v)
    BY DEF Inv
  <1> QED
    BY <1>1, <1>2, <1>3, SameKeeps

-----------------------------------------------------------------------------
(* Alone before a transition begins: nobody of the user is flying. *)
LEMMA QuietUser ==
  ASSUME NEW u \in User, ~UnderWay(u), NEW t \in Of(u)
  PROVE  ~Flying(t)
  BY DEF UnderWay, Flying, Of

LEMMA ConnectStore ==
  ASSUME Inv, NEW s \in Socket, Connect(s)
  PROVE  /\ TypeOK' /\ LivesKnown' /\ ClockCounts' /\ StoreIsActual'
  <1> DEFINE u == UserOf[s]
  <1>0. TypeOK /\ u \in User
    BY UserKnown DEF Inv
  <1>1. /\ link[s] = "new" /\ link' = [link EXCEPT ![s] = "connected"]
        /\ userSockets' = [userSockets EXCEPT ![u] = userSockets[u] \cup {s}]
        /\ socketToUser' = [socketToUser EXCEPT ![s] = u]
        /\ UNCHANGED <<isOnline, lastSeenAt, shown, departure, leftAt, clock,
               crashes>>
        /\ \/ arrival' = [arrival EXCEPT ![s] = "done"] /\ UNCHANGED blurred
           \/ arrival' = [arrival EXCEPT ![s] = "write"] /\ Transit(u)
    BY DEF Connect, AddSocket, rows
  <1>2. blurred' \subseteq User
    BY <1>0, <1>1 DEF TypeOK, Transit
  <1>3. arrival' \in [Socket -> Stage]
    BY <1>0, <1>1 DEF TypeOK, Stage
  <1>4. TypeOK'
    BY <1>0, <1>1, <1>2, <1>3 DEF TypeOK
  <1>5. LivesKnown'
    BY <1>0, <1>1 DEF Inv, LivesKnown, TypeOK
  <1>6. ClockCounts'
    BY <1>1 DEF Inv, ClockCounts, Left
  <1>7. StoreIsActual'
    BY <1>0, <1>1, PresenceAssumption
       DEF Inv, StoreIsActual, TypeOK, PresenceAssumption
  <1> QED
    BY <1>4, <1>5, <1>6, <1>7

LEMMA ConnectSound ==
  ASSUME Inv, NEW s \in Socket, Connect(s), NEW v \in User
  PROVE  Sound(v)'
  <1> DEFINE u == UserOf[s]
  <1>0. TypeOK /\ u \in User /\ s \in Of(u)
    BY UserKnown DEF Inv
  <1>1. /\ link[s] = "new"
        /\ userSockets' = [userSockets EXCEPT ![u] = userSockets[u] \cup {s}]
        /\ UNCHANGED <<isOnline, lastSeenAt, shown, departure, leftAt, clock>>
    BY DEF Connect, AddSocket, rows
  <1>2. arrival[s] = "none" /\ departure[s] = "none" /\ leftAt[s] = Never
    BY <1>1 DEF Inv, LivesKnown
  <1>3. Online(u)' /\ s \in userSockets'[u]
    BY <1>0, <1>1 DEF Online, TypeOK
  <1>4. CASE v # u
    <2>1. \A t \in Socket : t # s => arrival'[t] = arrival[t]
      BY <1>0 DEF Connect, TypeOK
    <2>2. v \in blurred' <=> v \in blurred
      BY <1>4 DEF Connect, Transit
    <2>3. userSockets'[v] = userSockets[v]
      BY <1>0, <1>1, <1>4 DEF TypeOK
    <2> HIDE DEF u
    <2> QED
      BY <1>1, <1>4, <2>1, <2>2, <2>3, OthersKeep DEF u
  <1>5. CASE v = u /\ Online(u)
    <2>1. arrival' = [arrival EXCEPT ![s] = "done"] /\ UNCHANGED blurred
      BY <1>5 DEF Connect
    <2>2. \A t \in Of(u) :
            /\ arrival'[t] \in Awaiting <=> arrival[t] \in Awaiting
            /\ arrival'[t] = "rooms" <=> arrival[t] = "rooms"
      BY <1>0, <1>2, <2>1 DEF TypeOK, Awaiting, Of
    <2>3. Sound(u)
      BY <1>0 DEF Inv
    <2> QED
      BY <1>0, <1>1, <1>3, <1>5, <2>1, <2>2, <2>3, SameKeeps
  <1>6. CASE v = u /\ ~Online(u)
    <2>1. arrival' = [arrival EXCEPT ![s] = "write"] /\ Transit(u)
      BY <1>6 DEF Connect
    <2>2. CASE UnderWay(u)
      BY <1>6, <2>1, <2>2 DEF Transit, Sound
    <2>3. CASE ~UnderWay(u)
      <3>1. \A t \in Of(u) : ~Flying(t)
        BY <1>0, <2>3, QuietUser
      <3>2. /\ arrival'[s] = "write" /\ departure'[s] = "none"
            /\ \A t \in Of(u) : t # s => ~Flying(t)'
        BY <1>0, <1>1, <1>2, <2>1, <3>1 DEF TypeOK, Of, Flying
      <3>3. ArrivalSound(u)'
        BY <1>3, <3>2 DEF ArrivalSound, Alone, Flying, Of, Awaiting
      <3>4. DepartureSound(u)'
        BY <3>2 DEF DepartureSound, Flying, Of, Awaiting
      <3>5. RestSound(u)'
        BY <1>0, <3>2 DEF RestSound, UnderWay, Of, Awaiting
      <3> QED
        BY <1>6, <3>3, <3>4, <3>5 DEF Sound
    <2> QED
      BY <2>2, <2>3
  <1> QED
    BY <1>4, <1>5, <1>6

-----------------------------------------------------------------------------
(* A connected socket is registered for its user. *)
LEMMA Registered ==
  ASSUME Inv, NEW s \in Socket, link[s] = "connected"
  PROVE  /\ socketToUser[s] = UserOf[s] /\ s \in userSockets[UserOf[s]]
         /\ departure[s] = "none" /\ leftAt[s] = Never
  <1>1. s \in userSockets[UserOf[s]]
    BY UserKnown DEF Inv, StoreIsActual
  <1> QED
    BY <1>1, UserKnown DEF Inv, StoreIsActual, LivesKnown

(* What a disconnection does, with the user spelled out. *)
LEMMA DisconnectDoes ==
  ASSUME Inv, NEW s \in Socket, Disconnect(s)
  PROVE  /\ link[s] = "connected" /\ link' = [link EXCEPT ![s] = "gone"]
         /\ userSockets' = [userSockets EXCEPT ![UserOf[s]] =
                                userSockets[UserOf[s]] \ {s}]
         /\ socketToUser' = [socketToUser EXCEPT ![s] = NoUser]
         /\ UNCHANGED <<isOnline, lastSeenAt, shown, arrival, crashes>>
         /\ \/ /\ userSockets[UserOf[s]] = {s}
               /\ departure' = [departure EXCEPT ![s] = "write"]
               /\ leftAt' = [leftAt EXCEPT ![s] = clock + 1]
               /\ clock' = clock + 1
               /\ Transit(UserOf[s])
            \/ /\ userSockets[UserOf[s]] # {s}
               /\ departure' = [departure EXCEPT ![s] = "done"]
               /\ UNCHANGED <<leftAt, clock, blurred>>
  <1>1. link[s] = "connected"
    BY DEF Disconnect
  <1>2. socketToUser[s] = UserOf[s]
    BY <1>1, Registered
  <1> QED
    BY <1>1, <1>2 DEF Disconnect, RemoveSocketById, Leave, rows

LEMMA DisconnectStore ==
  ASSUME Inv, NEW s \in Socket, Disconnect(s)
  PROVE  /\ TypeOK' /\ LivesKnown' /\ ClockCounts' /\ StoreIsActual'
  <1> DEFINE u == UserOf[s]
  <1>0. TypeOK /\ u \in User
    BY UserKnown DEF Inv
  <1>1. /\ link[s] = "connected" /\ link' = [link EXCEPT ![s] = "gone"]
        /\ userSockets' = [userSockets EXCEPT ![u] = userSockets[u] \ {s}]
        /\ socketToUser' = [socketToUser EXCEPT ![s] = NoUser]
        /\ UNCHANGED <<isOnline, lastSeenAt, shown, arrival, crashes>>
    BY DisconnectDoes
  <1>2. leftAt[s] = Never /\ clock \in Nat
    BY <1>0, <1>1, Registered, StampType DEF TypeOK
  <1>3. StoreIsActual'
    BY <1>0, <1>1, Registered, PresenceAssumption
       DEF Inv, StoreIsActual, TypeOK, PresenceAssumption
  <1>4. CASE /\ departure' = [departure EXCEPT ![s] = "write"]
             /\ leftAt' = [leftAt EXCEPT ![s] = clock + 1]
             /\ clock' = clock + 1 /\ Transit(u)
    <2>1. Left' = Left \cup {s} /\ s \notin Left
      <3>1. leftAt'[s] # Never /\ \A t \in Socket : t # s =>
                leftAt'[t] = leftAt[t]
        BY <1>0, <1>2, <1>4 DEF TypeOK, Never
      <3> QED
        BY <1>2, <3>1 DEF Left
    <2>2. clock' \in Stamp /\ ClockCounts'
      BY <1>0, <1>4, <2>1, LeavingCounts DEF ClockCounts, Inv
    <2>3. leftAt' \in [Socket -> Stamp] /\ departure' \in [Socket -> Stage]
      BY <1>0, <1>4, <2>2 DEF TypeOK, Stage
    <2>4. blurred' \subseteq User
      BY <1>0, <1>4 DEF TypeOK, Transit
    <2>5. TypeOK'
      BY <1>0, <1>1, <2>2, <2>3, <2>4 DEF TypeOK
    <2>6. \A t \in Socket : leftAt[t] \in Nat
      BY <1>0, StampType DEF TypeOK
    <2>7. LivesKnown'
      BY <1>0, <1>1, <1>2, <1>4, <2>6 DEF Inv, LivesKnown, TypeOK
    <2> QED
      BY <1>3, <2>2, <2>5, <2>7
  <1>5. CASE /\ departure' = [departure EXCEPT ![s] = "done"]
             /\ UNCHANGED <<leftAt, clock, blurred>>
    <2>1. departure' \in [Socket -> Stage]
      BY <1>0, <1>5 DEF TypeOK, Stage
    <2>2. TypeOK'
      BY <1>0, <1>1, <1>5, <2>1 DEF TypeOK
    <2>3. ClockCounts'
      BY <1>5 DEF Inv, ClockCounts, Left
    <2>4. LivesKnown'
      BY <1>0, <1>1, <1>5 DEF Inv, LivesKnown, TypeOK
    <2> QED
      BY <1>3, <2>2, <2>3, <2>4
  <1> QED
    BY <1>4, <1>5, DisconnectDoes

LEMMA DisconnectSound ==
  ASSUME Inv, NEW s \in Socket, Disconnect(s), NEW v \in User
  PROVE  Sound(v)'
  <1> DEFINE u == UserOf[s]
  <1>0. TypeOK /\ u \in User /\ s \in Of(u)
    BY UserKnown DEF Inv
  <1>1. /\ link[s] = "connected"
        /\ userSockets' = [userSockets EXCEPT ![u] = userSockets[u] \ {s}]
        /\ UNCHANGED <<isOnline, lastSeenAt, shown, arrival>>
    BY DisconnectDoes
  <1>2. /\ departure[s] = "none" /\ leftAt[s] = Never
        /\ s \in userSockets[u]
    BY <1>1, Registered
  <1>3. CASE v # u
    <2>1. \A t \in Socket : t # s =>
             departure'[t] = departure[t] /\ leftAt'[t] = leftAt[t]
      BY <1>0, DisconnectDoes DEF TypeOK
    <2>2. v \in blurred' <=> v \in blurred
      BY <1>3, DisconnectDoes DEF Transit
    <2>3. userSockets'[v] = userSockets[v]
      BY <1>0, <1>1, <1>3 DEF TypeOK
    <2> HIDE DEF u
    <2> QED
      BY <1>1, <1>3, <2>1, <2>2, <2>3, OthersKeep DEF u
  <1>4. CASE v = u /\ userSockets[u] # {s}
    <2>1. /\ departure' = [departure EXCEPT ![s] = "done"]
          /\ UNCHANGED <<leftAt, clock, blurred>>
      BY <1>4, DisconnectDoes
    <2>2. \A t \in Of(u) :
            departure'[t] = departure[t]
              \/ {departure'[t], departure[t]} \cap Awaiting = {}
      BY <1>0, <1>2, <2>1 DEF TypeOK, Awaiting, Of
    <2>3. Online(u)' <=> Online(u)
      BY <1>0, <1>1, <1>2, <1>4 DEF TypeOK, Online
    <2>4. Sound(u)
      BY <1>0 DEF Inv
    <2> QED
      BY <1>0, <1>1, <1>4, <2>1, <2>2, <2>3, <2>4, SameKeeps
  <1>5. CASE v = u /\ userSockets[u] = {s}
    <2>1. /\ departure' = [departure EXCEPT ![s] = "write"]
          /\ leftAt' = [leftAt EXCEPT ![s] = clock + 1]
          /\ Transit(u)
      BY <1>5, DisconnectDoes
    <2>2. CASE UnderWay(u)
      BY <1>5, <2>1, <2>2 DEF Transit, Sound
    <2>3. CASE ~UnderWay(u)
      <3>1. \A t \in Of(u) : ~Flying(t)
        BY <1>0, <2>3, QuietUser
      <3>2. /\ departure'[s] = "write" /\ leftAt'[s] = clock + 1
            /\ \A t \in Of(u) : t # s =>
                  ~Flying(t)' /\ leftAt'[t] = leftAt[t]
        BY <1>0, <1>1, <2>1, <3>1 DEF TypeOK, Of, Flying
      <3>3. arrival'[s] \notin Awaiting
        BY <1>0, <1>1, <3>1 DEF Flying
      <3>4. ~Online(u)'
        BY <1>0, <1>1, <1>5 DEF Online, TypeOK
      <3>5. \A t \in Of(u) : leftAt'[t] <= leftAt'[s]
        <4>1. clock \in Nat /\ \A t \in Of(u) : leftAt[t] \in Nat
                  /\ leftAt[t] <= clock
          BY <1>0, StampType DEF TypeOK, Of, Inv, LivesKnown
        <4> QED
          BY <3>2, <4>1
      <3>6. ArrivalSound(u)'
        BY <3>2, <3>3 DEF ArrivalSound, Flying, Of
      <3>7. DepartureSound(u)'
        BY <3>2, <3>3, <3>4, <3>5 DEF DepartureSound, Alone, Flying, Of,
           Awaiting
      <3>8. RestSound(u)'
        BY <1>0, <3>2 DEF RestSound, UnderWay, Of, Awaiting
      <3> QED
        BY <1>5, <3>6, <3>7, <3>8 DEF Sound
    <2> QED
      BY <2>2, <2>3
  <1> QED
    BY <1>3, <1>4, <1>5

-----------------------------------------------------------------------------
(* The awaits of a handler: types and the store are not at stake. *)
LEMMA ContinueStore ==
  ASSUME Inv, NEW s \in Socket, Continue(s)
  PROVE  TypeOK' /\ LivesKnown' /\ ClockCounts' /\ StoreIsActual'
  <1>0. TypeOK /\ UserOf[s] \in User
    BY UserKnown DEF Inv
  <1>1. UNCHANGED <<userSockets, socketToUser, link, leftAt, clock, crashes>>
    BY DEF Continue, WriteOnline, TellOnline, WriteOffline, TellOffline, store
  <1>2. arrival' \in [Socket -> Stage] /\ departure' \in [Socket -> Stage]
    BY <1>0 DEF Continue, WriteOnline, TellOnline, WriteOffline, TellOffline,
               TypeOK, Stage
  <1>3. isOnline' \in [User -> BOOLEAN] /\ lastSeenAt' \in [User -> Stamp]
    BY ZenonT(40), <1>0 DEF Continue, WriteOnline, TellOnline, WriteOffline, TellOffline,
               TypeOK, rows
  <1>4. shown' \subseteq User /\ blurred' \subseteq User
    BY <1>0 DEF Continue, WriteOnline, TellOnline, WriteOffline, TellOffline,
               TypeOK, Blur
  <1>5. TypeOK'
    BY <1>0, <1>1, <1>2, <1>3, <1>4 DEF TypeOK
  <1>6. ClockCounts' /\ StoreIsActual'
    BY <1>1 DEF Inv, ClockCounts, Left, StoreIsActual
  <1>7. LivesKnown'
    <2>1. \A t \in Socket :
            /\ arrival[t] = "none" => arrival'[t] = "none"
            /\ departure[t] = "none" => departure'[t] = "none"
      BY <1>0 DEF Continue, WriteOnline, TellOnline, WriteOffline, TellOffline,
                 TypeOK
    <2> QED
      BY <1>1, <2>1 DEF Inv, LivesKnown
  <1> QED
    BY <1>5, <1>6, <1>7

LEMMA ContinueOthers ==
  ASSUME Inv, NEW s \in Socket, Continue(s), NEW v \in User, v # UserOf[s]
  PROVE  Sound(v)'
  <1>0. TypeOK
    BY DEF Inv
  <1>1. UNCHANGED <<userSockets, leftAt>>
    BY DEF Continue, WriteOnline, TellOnline, WriteOffline, TellOffline, store
  <1>2. \A t \in Socket : t # s =>
            arrival'[t] = arrival[t] /\ departure'[t] = departure[t]
    BY <1>0 DEF Continue, WriteOnline, TellOnline, WriteOffline, TellOffline,
               TypeOK
  <1>3. isOnline'[v] = isOnline[v] /\ lastSeenAt'[v] = lastSeenAt[v]
    BY <1>0 DEF Continue, WriteOnline, TellOnline, WriteOffline, TellOffline,
               TypeOK, rows
  <1>4. (v \in shown' <=> v \in shown) /\ (v \in blurred' <=> v \in blurred)
    BY DEF Continue, WriteOnline, TellOnline, WriteOffline, TellOffline, Blur
  <1> QED
    BY <1>1, <1>2, <1>3, <1>4, OthersKeep

LEMMA WriteOnlineSound ==
  ASSUME Inv, NEW s \in Socket, WriteOnline(s)
  PROVE  Sound(UserOf[s])'
  <1> DEFINE u == UserOf[s]
  <1>0. TypeOK /\ u \in User /\ s \in Of(u)
    BY UserKnown DEF Inv
  <1>1. /\ arrival[s] = "write" /\ arrival' = [arrival EXCEPT ![s] = "rooms"]
        /\ UNCHANGED <<userSockets, lastSeenAt, shown, departure, leftAt>>
    BY DEF WriteOnline, store
  <1> SUFFICES ASSUME u \notin blurred' PROVE Sound(u)'
    BY DEF Sound
  <1>2. isOnline' = [isOnline EXCEPT ![u] = TRUE] /\ blurred' = blurred
    BY DEF WriteOnline, Blur
  <1>3. /\ Online(u) /\ departure[s] \notin Awaiting /\ Alone(s, u)
    BY <1>0, <1>1, <1>2 DEF Inv, Sound, ArrivalSound, Awaiting
  <1>4. /\ arrival'[s] = "rooms" /\ isOnline'[u] /\ Online(u)'
        /\ \A t \in Of(u) : t # s => ~Flying(t)'
    BY <1>0, <1>1, <1>2, <1>3 DEF TypeOK, Alone, Flying, Of, Online
  <1>5. ArrivalSound(u)'
    BY <1>1, <1>3, <1>4 DEF ArrivalSound, Alone, Flying, Of
  <1>6. DepartureSound(u)'
    BY <1>1, <1>3, <1>4 DEF DepartureSound, Flying, Of
  <1>7. RestSound(u)'
    BY <1>0, <1>4 DEF RestSound, UnderWay, Of, Awaiting
  <1> QED
    BY <1>5, <1>6, <1>7 DEF Sound

LEMMA TellOnlineSound ==
  ASSUME Inv, NEW s \in Socket, TellOnline(s)
  PROVE  Sound(UserOf[s])'
  <1> DEFINE u == UserOf[s]
  <1>0. TypeOK /\ u \in User /\ s \in Of(u)
    BY UserKnown DEF Inv
  <1>1. /\ arrival[s] = "rooms" /\ arrival' = [arrival EXCEPT ![s] = "done"]
        /\ UNCHANGED <<userSockets, isOnline, lastSeenAt, departure, leftAt>>
    BY DEF TellOnline, store, rows
  <1> SUFFICES ASSUME u \notin blurred' PROVE Sound(u)'
    BY DEF Sound
  <1>2. shown' = shown \cup {u} /\ blurred' = blurred
    BY DEF TellOnline, Blur
  <1>3. /\ Online(u) /\ departure[s] \notin Awaiting /\ Alone(s, u)
               /\ isOnline[u]
    BY <1>0, <1>1, <1>2 DEF Inv, Sound, ArrivalSound, Awaiting
  <1>4. \A t \in Of(u) : ~Flying(t)'
    BY <1>0, <1>1, <1>3 DEF TypeOK, Alone, Flying, Of, Awaiting
  <1>5. ArrivalSound(u)' /\ DepartureSound(u)'
    BY <1>4 DEF ArrivalSound, DepartureSound, Flying, Of
  <1>6. RestSound(u)'
    BY <1>1, <1>2, <1>3 DEF RestSound, Online
  <1> QED
    BY <1>5, <1>6 DEF Sound

LEMMA WriteOfflineSound ==
  ASSUME Inv, NEW s \in Socket, WriteOffline(s)
  PROVE  Sound(UserOf[s])'
  <1> DEFINE u == UserOf[s]
  <1>0. TypeOK /\ u \in User /\ s \in Of(u)
    BY UserKnown DEF Inv
  <1>1. /\ departure[s] = "write"
               /\ departure' = [departure EXCEPT ![s] = "rooms"]
        /\ UNCHANGED <<userSockets, shown, arrival, leftAt>>
    BY DEF WriteOffline, store
  <1> SUFFICES ASSUME u \notin blurred' PROVE Sound(u)'
    BY DEF Sound
  <1>2. /\ isOnline' = [isOnline EXCEPT ![u] = FALSE] /\ blurred' = blurred
        /\ lastSeenAt' = [lastSeenAt EXCEPT ![u] = leftAt[s]]
    BY DEF WriteOffline, Blur
  <1>3. /\ ~Online(u) /\ arrival[s] \notin Awaiting /\ Alone(s, u)
        /\ \A t \in Of(u) : leftAt[t] <= leftAt[s]
    BY <1>0, <1>1, <1>2 DEF Inv, Sound, DepartureSound, Awaiting
  <1>4. /\ departure'[s] = "rooms" /\ ~isOnline'[u] /\ ~Online(u)'
        /\ lastSeenAt'[u] = leftAt'[s]
        /\ \A t \in Of(u) : t # s => ~Flying(t)'
    BY <1>0, <1>1, <1>2, <1>3 DEF TypeOK, Alone, Flying, Of, Online
  <1>5. ArrivalSound(u)'
    BY <1>1, <1>3, <1>4 DEF ArrivalSound, Flying, Of
  <1>6. DepartureSound(u)'
    BY <1>1, <1>3, <1>4 DEF DepartureSound, Alone, Flying, Of
  <1>7. RestSound(u)'
    BY <1>0, <1>4 DEF RestSound, UnderWay, Of, Awaiting
  <1> QED
    BY <1>5, <1>6, <1>7 DEF Sound

LEMMA TellOfflineSound ==
  ASSUME Inv, NEW s \in Socket, TellOffline(s)
  PROVE  Sound(UserOf[s])'
  <1> DEFINE u == UserOf[s]
  <1>0. TypeOK /\ u \in User /\ s \in Of(u)
    BY UserKnown DEF Inv
  <1>1. /\ departure[s] = "rooms"
               /\ departure' = [departure EXCEPT ![s] = "done"]
        /\ UNCHANGED <<userSockets, isOnline, lastSeenAt, arrival, leftAt>>
    BY DEF TellOffline, store, rows
  <1> SUFFICES ASSUME u \notin blurred' PROVE Sound(u)'
    BY DEF Sound
  <1>2. shown' = shown \ {u} /\ blurred' = blurred
    BY DEF TellOffline, Blur
  <1>3. /\ ~Online(u) /\ arrival[s] \notin Awaiting /\ Alone(s, u)
               /\ ~isOnline[u]
        /\ lastSeenAt[u] = leftAt[s]
        /\ \A t \in Of(u) : leftAt[t] <= leftAt[s]
    BY <1>0, <1>1, <1>2 DEF Inv, Sound, DepartureSound, Awaiting
  <1>4. \A t \in Of(u) : ~Flying(t)'
    BY <1>0, <1>1, <1>3 DEF TypeOK, Alone, Flying, Of, Awaiting
  <1>5. ArrivalSound(u)' /\ DepartureSound(u)'
    BY <1>4 DEF ArrivalSound, DepartureSound, Flying, Of
  <1>6. RestSound(u)'
    BY <1>1, <1>2, <1>3 DEF RestSound, Online, Of
  <1> QED
    BY <1>5, <1>6 DEF Sound

-----------------------------------------------------------------------------
(* A restart blurs those whose connections or transitions it cuts off. *)
LEMMA CrashKeeps ==
  ASSUME Inv, Crash
  PROVE  Inv'
  <1>0. TypeOK
    BY DEF Inv
  <1>1. /\ userSockets' = [u \in User |-> {}]
        /\ socketToUser' = [s \in Socket |-> NoUser]
        /\ link' = [s \in Socket |-> IF link[s] = "new" THEN "new" ELSE "gone"]
        /\ arrival' = [s \in Socket |->
                        IF arrival[s] = "none" THEN "none" ELSE "done"]
        /\ departure' = [s \in Socket |->
                        IF departure[s] = "none" THEN "none" ELSE "done"]
        /\ blurred' = blurred \cup {u \in User : Online(u) \/ UnderWay(u)}
        /\ UNCHANGED <<isOnline, lastSeenAt, shown, leftAt, clock>>
        /\ crashes < MaxCrashes /\ crashes' = crashes + 1
    BY DEF Crash, rows
  <1>2. TypeOK'
    BY <1>0, <1>1, PresenceAssumption DEF TypeOK, Stage, PresenceAssumption
  <1>3. LivesKnown'
    BY <1>1 DEF Inv, LivesKnown
  <1>4. ClockCounts'
    BY <1>1 DEF Inv, ClockCounts, Left
  <1>5. StoreIsActual'
    BY <1>1, PresenceAssumption DEF StoreIsActual, PresenceAssumption
  <1>6. ASSUME NEW u \in User PROVE Sound(u)'
    <2> SUFFICES ASSUME u \notin blurred' PROVE Sound(u)'
      BY DEF Sound
    <2>1. ~Online(u) /\ ~UnderWay(u) /\ RestSound(u)
      BY <1>1 DEF Inv, Sound
    <2>2. ~Online(u)'
      BY <1>1 DEF Online
    <2>3. ArrivalSound(u)' /\ DepartureSound(u)'
      BY <1>1 DEF ArrivalSound, DepartureSound, Of, Awaiting
    <2>4. RestSound(u)'
      BY <1>1, <2>1, <2>2 DEF RestSound, Of
    <2> QED
      BY <2>3, <2>4 DEF Sound
  <1> QED
    BY <1>2, <1>3, <1>4, <1>5, <1>6 DEF Inv

LEMMA NextKeeps == Inv /\ [Next]_vars => Inv'
  <1> SUFFICES ASSUME Inv, [Next]_vars PROVE Inv'
    OBVIOUS
  <1>1. ASSUME NEW s \in Socket, Connect(s) PROVE Inv'
    BY <1>1, ConnectStore, ConnectSound DEF Inv
  <1>2. ASSUME NEW s \in Socket, Disconnect(s) PROVE Inv'
    BY <1>2, DisconnectStore, DisconnectSound DEF Inv
  <1>3. ASSUME NEW s \in Socket, Continue(s) PROVE Inv'
    <2>1. Sound(UserOf[s])'
      BY <1>3, WriteOnlineSound, TellOnlineSound, WriteOfflineSound,
         TellOfflineSound DEF Continue
    <2>2. \A v \in User : Sound(v)'
      BY <1>3, <2>1, ContinueOthers
    <2> QED
      BY <1>3, <2>2, ContinueStore DEF Inv
  <1>4. CASE Crash
    BY <1>4, CrashKeeps
  <1>5. CASE UNCHANGED vars
    <2>1. UNCHANGED <<userSockets, socketToUser, isOnline, lastSeenAt, shown,
                      link, arrival, departure, leftAt, clock, crashes,
                          blurred>>
      BY <1>5 DEF vars, store, rows
    <2>2. TypeOK' /\ LivesKnown' /\ ClockCounts' /\ StoreIsActual'
      BY <2>1 DEF Inv, TypeOK, LivesKnown, ClockCounts, StoreIsActual, Left
    <2>3. ASSUME NEW u \in User PROVE Sound(u)'
      <3>1. Sound(u) /\ (Online(u)' <=> Online(u))
        BY <2>1 DEF Inv, Online
      <3> QED
        BY <2>1, <3>1, SameKeeps
    <2> QED
      BY <2>2, <2>3 DEF Inv
  <1> QED
    BY <1>1, <1>2, <1>3, <1>4, <1>5 DEF Next

-----------------------------------------------------------------------------
THEOREM InvHolds == Spec => []Inv
  BY InitHolds, NextKeeps, PTL DEF Spec

(* Every variable keeps its type; the clock has room for all departures. *)
THEOREM TypeCorrect == Spec => []TypeOK
  BY InvHolds, PTL DEF Inv

(* The store's two maps match the connections there are. *)
THEOREM StoreActual == Spec => []StoreIsActual
  BY InvHolds, PTL DEF Inv

(* What contacts and database were told is true of a user whose latest     *)
(* transition was undisturbed.                                             *)
THEOREM TruthUnlessBlurred == Spec => []TrueUnlessBlurred
  <1>1. Inv => TrueUnlessBlurred
    BY DEF Inv, Sound, RestSound, TrueUnlessBlurred
  <1> QED
    BY InvHolds, <1>1, PTL

(* The last-seen time of such a user is that of his final disconnection. *)
THEOREM LastSeenFinal == Spec => []LastSeenIsFinal
  <1>1. Inv => LastSeenIsFinal
    BY DEF Inv, Sound, RestSound, LastSeenIsFinal, Of
  <1> QED
    BY InvHolds, <1>1, PTL

(* The row of a user is true, and its last-seen time that of his departure,*)
(* if his latest transition was undisturbed.                               *)
THEOREM RowTrue == Spec => []RowIsTrue
  <1>1. TrueUnlessBlurred /\ LastSeenIsFinal => RowIsTrue
    BY DEF RowIsTrue
  <1> QED
    BY <1>1, TruthUnlessBlurred, LastSeenFinal, PTL

-----------------------------------------------------------------------------
(***************************************************************************)
(* Typing. Every step treats an entry, its timer and what the others       *)
(* were told alike, so the three invariants are inductive together; what   *)
(* they need besides is that an event under way knows its socket and       *)
(* conversation.                                                           *)
(***************************************************************************)
EventsKnow ==
    \A h \in Handler : handler[h].phase = "waiting" =>
        handler[h].socket \in Socket /\ handler[h].conversation \in Conversation

TypingInv ==
    /\ TypingTypeOK
    /\ EventsKnow
    /\ OneTimerEach
    /\ ShownIsTyping

-----------------------------------------------------------------------------
LEMMA TypingInitHolds == TypingInit => TypingInv
  <1> SUFFICES ASSUME TypingInit PROVE TypingInv
    OBVIOUS
  <1>1. TypingTypeOK
    BY DEF TypingInit, TypingTypeOK, HandlerRecord
  <1>2. EventsKnow
    BY DEF TypingInit, EventsKnow
  <1>3. OneTimerEach /\ ShownIsTyping
    BY DEF TypingInit, OneTimerEach, ShownIsTyping, IsTyping
  <1> QED
    BY <1>1, <1>2, <1>3 DEF TypingInv

(* The key of an event under way is one. *)
LEMMA KeyKnown ==
  ASSUME TypingInv, NEW h \in Handler, handler[h].phase = "waiting"
  PROVE  KeyOf(h) \in Key /\ handler[h].socket \in Socket
  BY TypingAssumption DEF TypingInv, EventsKnow, KeyOf, Key, TypingAssumption

(* Once answered, an event is of no further concern. *)
LEMMA SettleKeeps ==
  ASSUME TypingInv, NEW h \in Handler, Settle(h)
  PROVE  handler' \in [Handler -> HandlerRecord] /\ EventsKnow'
  <1>1. handler[h] \in HandlerRecord
    BY DEF TypingInv, TypingTypeOK
  <1>2. [handler[h] EXCEPT !.phase = "done"] \in HandlerRecord
    BY <1>1 DEF HandlerRecord
  <1>3. /\ handler'[h] = [handler[h] EXCEPT !.phase = "done"]
        /\ handler'[h].phase = "done"
        /\ \A g \in Handler : g # h => handler'[g] = handler[g]
    BY <1>1 DEF Settle, TypingInv, TypingTypeOK, HandlerRecord
  <1>4. handler' \in [Handler -> HandlerRecord]
    BY <1>2 DEF Settle, TypingInv, TypingTypeOK
  <1>5. EventsKnow'
    BY <1>3 DEF TypingInv, EventsKnow
  <1> QED
    BY <1>4, <1>5

LEMMA ReceiveKeeps ==
  ASSUME TypingInv, NEW h \in Handler, NEW kind \in {"start", "stop"},
         NEW s \in Socket, NEW c \in Conversation, Receive(h, kind, s, c)
  PROVE  TypingInv'
  <1> DEFINE new == [phase |-> "waiting", kind |-> kind, socket |-> s,
                     conversation |-> c]
  <1>1. handler' = [handler EXCEPT ![h] = new]
    BY DEF Receive
  <1>2. UNCHANGED <<link, typing, tracked, armed, started>>
    BY DEF Receive
  <1>3. new \in HandlerRecord /\ new.socket \in Socket
            /\ new.conversation \in Conversation
    BY DEF HandlerRecord
  <1>4. /\ handler'[h] = new
        /\ \A g \in Handler : g # h => handler'[g] = handler[g]
    BY <1>1 DEF TypingInv, TypingTypeOK
  <1> HIDE DEF new
  <1>5. TypingTypeOK'
    BY <1>1, <1>2, <1>3 DEF TypingInv, TypingTypeOK
  <1>6. EventsKnow'
    BY <1>3, <1>4 DEF TypingInv, EventsKnow
  <1>7. OneTimerEach' /\ ShownIsTyping'
    BY <1>2 DEF TypingInv, OneTimerEach, ShownIsTyping, IsTyping
  <1> QED
    BY <1>5, <1>6, <1>7 DEF TypingInv

-----------------------------------------------------------------------------
(* A typing:start leaves one entry with one timer, and tells the others. *)
LEMMA StartKeeps ==
  ASSUME TypingInv, NEW h \in Handler, Start(h)
  PROVE  TypingInv'
  <1> DEFINE k == KeyOf(h)
             s == handler[h].socket
  <1>1. k \in Key /\ s \in Socket
    BY KeyKnown DEF Start
  <1>2. handler' \in [Handler -> HandlerRecord] /\ EventsKnow'
    BY SettleKeeps DEF Start
  <1>3. /\ typing' = [typing EXCEPT ![k] = s]
        /\ started' = [started EXCEPT ![k] = started[k] + 1]
        /\ link' = link
    BY DEF Start, Begin, Refresh
  <1>4. \/ /\ ~IsTyping(k)
           /\ armed' = [armed EXCEPT ![k] = armed[k] + 1]
           /\ tracked' = [tracked EXCEPT ![s] = tracked[s] \cup {k}]
        \/ IsTyping(k) /\ UNCHANGED <<tracked, armed>>
    BY DEF Start, Begin, Refresh
  <1>5. /\ link \in [Socket -> {"new", "connected", "gone"}]
        /\ typing \in [Key -> Socket \cup {NoSocket}]
        /\ tracked \in [Socket -> SUBSET Key]
        /\ armed \in [Key -> Nat] /\ started \in [Key -> Nat]
    BY DEF TypingInv, TypingTypeOK
  <1> HIDE DEF k, s
  <1>6. tracked' \in [Socket -> SUBSET Key] /\ armed' \in [Key -> Nat]
    BY <1>1, <1>4, <1>5
  <1>7. TypingTypeOK'
    BY <1>1, <1>2, <1>3, <1>5, <1>6 DEF TypingTypeOK
  <1>8. \A x \in Key : /\ x # k => typing'[x] = typing[x]
                       /\ x = k => typing'[x] = s
                       /\ x # k => started'[x] = started[x]
                              /\ armed'[x] = armed[x]
    BY <1>1, <1>3, <1>4, <1>5
  <1>9. started'[k] # 0 /\ s # NoSocket
    BY <1>1, <1>3, <1>5, TypingAssumption DEF TypingAssumption
  <1>10. armed'[k] = 1
    BY <1>1, <1>4, <1>5 DEF TypingInv, OneTimerEach
  <1>11. OneTimerEach'
    BY <1>8, <1>9, <1>10 DEF TypingInv, OneTimerEach, IsTyping
  <1>12. ShownIsTyping'
    BY <1>8, <1>9 DEF TypingInv, ShownIsTyping, IsTyping
  <1> QED
    BY <1>2, <1>7, <1>11, <1>12 DEF TypingInv

(* Some entries go, with their timers, and the others are told so. *)
LEMMA RemovalKeeps ==
  ASSUME TypingInv, NEW K \in SUBSET Key, \A k \in K : IsTyping(k),
         typing' = [k \in Key |-> IF k \in K THEN NoSocket ELSE typing[k]],
         armed' = [k \in Key |-> IF k \in K THEN armed[k] - 1 ELSE armed[k]],
         TellStopped(K), tracked' \in [Socket -> SUBSET Key],
         link' \in [Socket -> {"new", "connected", "gone"}],
         handler' \in [Handler -> HandlerRecord], EventsKnow'
  PROVE  TypingInv'
  <1>1. /\ typing \in [Key -> Socket \cup {NoSocket}]
        /\ armed \in [Key -> Nat] /\ started \in [Key -> Nat]
    BY DEF TypingInv, TypingTypeOK
  <1>2. \A k \in K : armed[k] = 1
    BY DEF TypingInv, OneTimerEach
  <1>3. started' = [k \in Key |-> IF k \in K THEN 0 ELSE started[k]]
    BY DEF TellStopped
  <1>4. armed' \in [Key -> Nat] /\ \A k \in K : armed'[k] = 0
    BY <1>1, <1>2
  <1>5. typing' \in [Key -> Socket \cup {NoSocket}] /\ started' \in [Key -> Nat]
    BY <1>1, <1>3
  <1>6. TypingTypeOK'
    BY <1>4, <1>5 DEF TypingTypeOK
  <1>7. OneTimerEach'
    BY <1>4 DEF TypingInv, OneTimerEach, IsTyping
  <1>8. ShownIsTyping'
    BY <1>3 DEF TypingInv, ShownIsTyping, IsTyping
  <1> QED
    BY <1>6, <1>7, <1>8 DEF TypingInv

(* Deleting one entry is a removal. *)
LEMMA DeleteRemoves ==
  ASSUME TypingInv, NEW k \in Key, Delete(k)
  PROVE  /\ typing' = [x \in Key |-> IF x \in {k} THEN NoSocket ELSE typing[x]]
         /\ tracked' \in [Socket -> SUBSET Key]
  BY DEF TypingInv, TypingTypeOK, Delete

LEMMA StopKeeps ==
  ASSUME TypingInv, NEW h \in Handler, Stop(h)
  PROVE  TypingInv'
  <1> DEFINE k == KeyOf(h)
  <1>1. k \in Key
    BY KeyKnown DEF Stop
  <1>2. handler' \in [Handler -> HandlerRecord] /\ EventsKnow'
    BY SettleKeeps DEF Stop
  <1>3. link' = link /\ link \in [Socket -> {"new", "connected", "gone"}]
    BY DEF Stop, TypingInv, TypingTypeOK
  <1>4. CASE IsTyping(k)
    <2>1. /\ Delete(k) /\ TellStopped({k})
          /\ armed' = [armed EXCEPT ![k] = armed[k] - 1]
      BY <1>4 DEF Stop
    <2>2. armed' = [x \in Key |-> IF x \in {k} THEN armed[x] - 1 ELSE armed[x]]
      BY <1>1, <2>1 DEF TypingInv, TypingTypeOK
    <2>3. {k} \in SUBSET Key /\ \A x \in {k} : IsTyping(x)
      BY <1>1, <1>4
    <2> HIDE DEF k
    <2> QED
      BY <1>1, <1>2, <1>3, <2>1, <2>2, <2>3, DeleteRemoves, RemovalKeeps
  <1>5. CASE ~IsTyping(k)
    <2>1. UNCHANGED <<typing, tracked, armed, started>>
      BY <1>5 DEF Stop
    <2>2. TypingTypeOK'
      BY <1>2, <1>3, <2>1 DEF TypingInv, TypingTypeOK
    <2>3. OneTimerEach' /\ ShownIsTyping'
      BY <2>1 DEF TypingInv, OneTimerEach, ShownIsTyping, IsTyping
    <2> QED
      BY <1>2, <2>2, <2>3 DEF TypingInv
  <1> QED
    BY <1>4, <1>5

(* A timer that fires finds its entry. *)
LEMMA ExpireKeeps ==
  ASSUME TypingInv, NEW k \in Key, Expire(k)
  PROVE  TypingInv'
  <1>1. IsTyping(k)
    BY DEF TypingInv, TypingTypeOK, OneTimerEach, Expire
  <1>2. /\ Delete(k) /\ TellStopped({k})
        /\ armed' = [armed EXCEPT ![k] = armed[k] - 1]
        /\ UNCHANGED <<link, handler>>
    BY <1>1 DEF Expire
  <1>3. armed' = [x \in Key |-> IF x \in {k} THEN armed[x] - 1 ELSE armed[x]]
    BY <1>2 DEF TypingInv, TypingTypeOK
  <1>4. /\ link' \in [Socket -> {"new", "connected", "gone"}]
        /\ handler' \in [Handler -> HandlerRecord] /\ EventsKnow'
    BY <1>2 DEF TypingInv, TypingTypeOK, EventsKnow
  <1>5. {k} \in SUBSET Key /\ \A x \in {k} : IsTyping(x)
    BY <1>1
  <1> QED
    BY <1>2, <1>3, <1>4, <1>5, DeleteRemoves, RemovalKeeps

LEMMA CleanupSocketKeeps ==
  ASSUME TypingInv, NEW s \in Socket, CleanupSocket(s)
  PROVE  TypingInv'
  <1>1. EndedBy(s) \in SUBSET Key /\ \A k \in EndedBy(s) : IsTyping(k)
    BY TypingAssumption DEF TypingInv, TypingTypeOK, EndedBy, IsTyping,
       TypingAssumption
  <1>2. tracked' \in [Socket -> SUBSET Key]
    BY DEF CleanupSocket, TypingInv, TypingTypeOK
  <1>3. link' \in [Socket -> {"new", "connected", "gone"}]
    BY DEF CleanupSocket, TypingInv, TypingTypeOK
  <1>4. handler' \in [Handler -> HandlerRecord] /\ EventsKnow'
    BY DEF CleanupSocket, TypingInv, TypingTypeOK, EventsKnow
  <1>5. /\ typing' = [k \in Key |-> IF k \in EndedBy(s) THEN NoSocket
               ELSE typing[k]]
        /\ armed' = [k \in Key |-> IF k \in EndedBy(s) THEN armed[k] - 1
               ELSE armed[k]]
        /\ TellStopped(EndedBy(s))
    BY DEF CleanupSocket
  <1> HIDE DEF EndedBy
  <1> QED
    BY <1>1, <1>2, <1>3, <1>4, <1>5, RemovalKeeps

LEMMA QuietKeeps ==
  ASSUME TypingInv, UNCHANGED <<typing, tracked, armed, started>>,
         link' \in [Socket -> {"new", "connected", "gone"}],
         handler' \in [Handler -> HandlerRecord], EventsKnow'
  PROVE  TypingInv'
  <1>1. TypingTypeOK'
    BY DEF TypingInv, TypingTypeOK
  <1>2. OneTimerEach' /\ ShownIsTyping'
    BY DEF TypingInv, OneTimerEach, ShownIsTyping, IsTyping
  <1> QED
    BY <1>1, <1>2 DEF TypingInv

LEMMA OpenKeeps ==
  ASSUME TypingInv, NEW s \in Socket, Open(s)
  PROVE  TypingInv'
  <1>1. link' \in [Socket -> {"new", "connected", "gone"}]
    BY DEF Open, TypingInv, TypingTypeOK
  <1>2. handler' \in [Handler -> HandlerRecord] /\ EventsKnow'
    BY DEF Open, TypingInv, TypingTypeOK, EventsKnow
  <1> QED
    BY <1>1, <1>2, QuietKeeps DEF Open

LEMMA RefuseKeeps ==
  ASSUME TypingInv, NEW h \in Handler, Refuse(h)
  PROVE  TypingInv'
  <1>1. link' \in [Socket -> {"new", "connected", "gone"}]
    BY DEF Refuse, TypingInv, TypingTypeOK
  <1> QED
    BY <1>1, SettleKeeps, QuietKeeps DEF Refuse

LEMMA TypingNextKeeps == TypingInv /\ [TypingNext]_typingVars => TypingInv'
  <1> SUFFICES ASSUME TypingInv, [TypingNext]_typingVars PROVE TypingInv'
    OBVIOUS
  <1>1. ASSUME NEW s \in Socket, Open(s) \/ CleanupSocket(s) PROVE TypingInv'
    BY <1>1, OpenKeeps, CleanupSocketKeeps
  <1>2. ASSUME NEW h \in Handler, Handle(h) PROVE TypingInv'
    BY <1>2, StartKeeps, StopKeeps, RefuseKeeps DEF Handle
  <1>3. ASSUME NEW h \in Handler, NEW kind \in {"start", "stop"},
               NEW s \in Socket, NEW c \in Conversation, Receive(h, kind, s, c)
        PROVE  TypingInv'
    BY <1>3, ReceiveKeeps
  <1>4. ASSUME NEW k \in Key, Expire(k) PROVE TypingInv'
    BY <1>4, ExpireKeeps
  <1>5. CASE UNCHANGED typingVars
    <2>1. /\ link' \in [Socket -> {"new", "connected", "gone"}]
          /\ handler' \in [Handler -> HandlerRecord] /\ EventsKnow'
      BY <1>5 DEF typingVars, TypingInv, TypingTypeOK, EventsKnow
    <2> QED
      BY <1>5, <2>1, QuietKeeps DEF typingVars
  <1> QED
    BY <1>1, <1>2, <1>3, <1>4, <1>5 DEF TypingNext

-----------------------------------------------------------------------------
THEOREM TypingInvHolds == TypingSpec => []TypingInv
  BY TypingInitHolds, TypingNextKeeps, PTL DEF TypingSpec

(* Every variable keeps its type; in particular no timer is cleared that   *)
(* is not armed.                                                           *)
THEOREM TypingTypeCorrect == TypingSpec => []TypingTypeOK
  BY TypingInvHolds, PTL DEF TypingInv

(* Timers and entries correspond one to one, whatever refreshes, stops and *)
(* disconnects interleave.                                                 *)
THEOREM TimersMatch == TypingSpec => []OneTimerEach
  BY TypingInvHolds, PTL DEF TypingInv

(* What the others were told last is what the store holds. *)
THEOREM ShownInStep == TypingSpec => []ShownIsTyping
  BY TypingInvHolds, PTL DEF TypingInv

(* An entry goes by the user's stop, its timer or its own socket's end. *)
LEMMA EndsHaveCause ==
  ASSUME TypingInv, [TypingNext]_typingVars, NEW k \in Key, IsTyping(k),
         ~IsTyping(k)'
  PROVE  \/ Expire(k)
         \/ \E h \in Handler : Stop(h) /\ KeyOf(h) = k
         \/ link[typing[k]] # "gone" /\ link'[typing[k]] = "gone"
  <1>0. typing \in [Key -> Socket \cup {NoSocket}] /\ typing[k] # typing'[k]
    BY DEF TypingInv, TypingTypeOK, IsTyping
  <1>1. CASE \E h \in Handler : Stop(h)
    <2>1. PICK h \in Handler : Stop(h)
      BY <1>1
    <2>2. KeyOf(h) \in Key
      BY <2>1, KeyKnown DEF Stop
    <2>3. typing' = typing \/ typing' = [typing EXCEPT ![KeyOf(h)] = NoSocket]
      BY <2>1 DEF Stop, Delete
    <2>4. KeyOf(h) = k
      BY <1>0, <2>2, <2>3
    <2> QED
      BY <2>1, <2>4
  <1>2. CASE \E h \in Handler : Start(h)
    <2>1. PICK h \in Handler : Start(h)
      BY <1>2
    <2>2. KeyOf(h) \in Key /\ handler[h].socket \in Socket
      BY <2>1, KeyKnown DEF Start
    <2>3. typing' = [typing EXCEPT ![KeyOf(h)] = handler[h].socket]
      BY <2>1 DEF Start, Begin, Refresh
    <2>4. typing'[k] \in Socket
      BY <1>0, <2>2, <2>3
    <2> QED
      BY <2>4, TypingAssumption DEF IsTyping, TypingAssumption
  <1>3. CASE \E x \in Key : Expire(x)
    <2>1. PICK x \in Key : Expire(x)
      BY <1>3
    <2>2. typing' = typing \/ typing' = [typing EXCEPT ![x] = NoSocket]
      BY <2>1 DEF Expire, Delete
    <2>3. x = k
      BY <1>0, <2>2
    <2> QED
      BY <2>1, <2>3
  <1>4. CASE \E s \in Socket : CleanupSocket(s)
    <2>1. PICK s \in Socket : CleanupSocket(s)
      BY <1>4
    <2>2. typing[k] = s
      BY <1>0, <2>1 DEF CleanupSocket, EndedBy
    <2>3. link[s] # "gone" /\ link'[s] = "gone"
      BY <2>1 DEF CleanupSocket, TypingInv, TypingTypeOK
    <2> QED
      BY <2>2, <2>3
  <1>5. CASE typing' = typing
    BY <1>0, <1>5
  <1>6. ASSUME NEW s \in Socket, Open(s) PROVE typing' = typing
    BY <1>6 DEF Open
  <1>7. ASSUME NEW h \in Handler, Refuse(h) PROVE typing' = typing
    BY <1>7 DEF Refuse
  <1>8. ASSUME NEW h \in Handler, NEW kind \in {"start", "stop"},
               NEW s \in Socket, NEW c \in Conversation, Receive(h, kind, s, c)
        PROVE  typing' = typing
    BY <1>8 DEF Receive
  <1> QED
    BY <1>1, <1>2, <1>3, <1>4, <1>5, <1>6, <1>7, <1>8
       DEF TypingNext, Handle, typingVars

(* A typing indicator ends only for one of its three causes: its timer, a  *)
(* stop of its own key, or the end of its socket.                          *)
THEOREM EndsCaused == TypingSpec => EndsForCause
  <1>1. TypingInv /\ [TypingNext]_typingVars =>
          [\A k \in Key : IsTyping(k) /\ ~IsTyping(k)' =>
            \/ Expire(k)
            \/ \E h \in Handler : Stop(h) /\ KeyOf(h) = k
            \/ link[typing[k]] # "gone" /\ link'[typing[k]] = "gone"]_typingVars
    BY EndsHaveCause
  <1> QED
    BY TypingInvHolds, <1>1, PTL DEF TypingSpec, EndsForCause

-----------------------------------------------------------------------------
(***************************************************************************)
(* Rooms. A socket is in the room because a member put it there, and a     *)
(* publication keeps the recipients it found until it is emitted.          *)
(***************************************************************************)
JoinRecord == [phase : {"idle", "find", "join", "over"},
    socket : Client \cup {"none"}]
PublicationRecord ==
    [phase : {"idle", "create", "emit", "again", "over"},
     kind : {"none", "message", "receipt", "missed"}, to : SUBSET Member]

RoomsTypeOK ==
    /\ member \in SUBSET Member
    /\ line \in [Client -> {"new", "connected", "gone"}]
    /\ room \in SUBSET Client
    /\ joining \in [Request -> JoinRecord]
    /\ message \in [Publication -> PublicationRecord]
    /\ told \in [Publication -> [Client -> Nat]]
    /\ entitled \in SUBSET Client
    /\ steady \in [Publication -> SUBSET Member]

(* Whoever is in the room, or about to be, a member entitled, and the      *)
(* socket is still connected.                                              *)
RoomEntitled ==
    /\ room \subseteq entitled
    /\ \A s \in room : line[s] = "connected"
    /\ \A r \in Request : joining[r].phase = "join" =>
           joining[r].socket \in entitled
    /\ \A r \in Request : joining[r].phase = "find" =>
           joining[r].socket \in Client

(* Nobody is told before the publication is emitted; until then it keeps   *)
(* the members who stayed, and only a missed call is told twice.           *)
PublicationSound ==
    \A m \in Publication :
        /\ message[m].phase \in {"idle", "create", "emit"} =>
              \A s \in Client : told[m][s] = 0
        /\ message[m].phase = "again" => message[m].kind = "missed"
        /\ message[m].phase \in {"create", "emit"} =>
               steady[m] \subseteq message[m].to

RoomsInv == RoomsTypeOK /\ RoomEntitled /\ PublicationSound

LEMMA RoomsInitHolds == Rooms!Init => RoomsInv
  <1> SUFFICES ASSUME Rooms!Init PROVE RoomsInv
    OBVIOUS
  <1>1. RoomsTypeOK
    BY DEF Rooms!Init, RoomsTypeOK, JoinRecord, PublicationRecord,
       Rooms!NoSocket
  <1>2. RoomEntitled
    BY DEF Rooms!Init, RoomEntitled
  <1>3. PublicationSound
    BY DEF Rooms!Init, PublicationSound
  <1> QED
    BY <1>1, <1>2, <1>3 DEF RoomsInv

LEMMA MembersKeep ==
  ASSUME RoomsInv, NEW u \in Member,
         Rooms!AddParticipant(u) \/ Rooms!RemoveParticipant(u)
  PROVE  RoomsInv'
  <1>1. /\ member' \in SUBSET Member
               /\ steady' \in [Publication -> SUBSET Member]
        /\ \A m \in Publication : steady'[m] \subseteq steady[m]
    BY DEF RoomsInv, RoomsTypeOK, Rooms!AddParticipant, Rooms!RemoveParticipant
  <1>2. UNCHANGED <<line, room, joining, message, told, entitled>>
    BY DEF Rooms!AddParticipant, Rooms!RemoveParticipant
  <1>3. RoomsTypeOK'
    BY <1>1, <1>2 DEF RoomsInv, RoomsTypeOK
  <1>4. RoomEntitled'
    BY <1>2 DEF RoomsInv, RoomEntitled
  <1>5. PublicationSound'
    BY <1>1, <1>2 DEF RoomsInv, PublicationSound
  <1> QED
    BY <1>3, <1>4, <1>5 DEF RoomsInv

(* A step that leaves memberships and publications alone. *)
LEMMA JoiningKeeps ==
  ASSUME RoomsInv, UNCHANGED <<member, message, told, steady>>,
         line' \in [Client -> {"new", "connected", "gone"}],
         room' \in SUBSET Client, entitled' \in SUBSET Client,
         joining' \in [Request -> JoinRecord], RoomEntitled'
  PROVE  RoomsInv'
  <1>1. RoomsTypeOK'
    BY DEF RoomsInv, RoomsTypeOK
  <1>2. PublicationSound'
    BY DEF RoomsInv, PublicationSound
  <1> QED
    BY <1>1, <1>2 DEF RoomsInv

LEMMA SocketKeeps ==
  ASSUME RoomsInv, NEW s \in Client, Rooms!Connect(s) \/ Rooms!Disconnect(s)
  PROVE  RoomsInv'
  <1>1. /\ line' \in [Client -> {"new", "connected", "gone"}]
        /\ \A t \in Client : t # s => line'[t] = line[t]
        /\ line'[s] = "connected" \/ s \notin room'
        /\ room' \subseteq room
        /\ UNCHANGED <<member, message, told, steady, joining, entitled>>
    BY DEF RoomsInv, RoomsTypeOK, Rooms!Connect, Rooms!Disconnect
  <1>2. RoomEntitled'
    BY <1>1 DEF RoomsInv, RoomsTypeOK, RoomEntitled
  <1> QED
    BY <1>1, <1>2, JoiningKeeps DEF RoomsInv, RoomsTypeOK

LEMMA RequestKeeps ==
  ASSUME RoomsInv, NEW r \in Request,
         \/ \E s \in Client : Rooms!AskToJoin(r, s)
         \/ Rooms!FindById(r)
         \/ Rooms!Join(r)
  PROVE  RoomsInv'
  <1>1. CASE \E s \in Client : Rooms!AskToJoin(r, s)
    <2>1. PICK s \in Client : Rooms!AskToJoin(r, s)
      BY <1>1
    <2>2. joining' = [joining EXCEPT ![r] = [phase |-> "find", socket |-> s]]
          /\ UNCHANGED <<member, line, room, message, told, entitled, steady>>
      BY <2>1 DEF Rooms!AskToJoin
    <2>3. joining' \in [Request -> JoinRecord]
      BY <2>2 DEF RoomsInv, RoomsTypeOK, JoinRecord
    <2>4. RoomEntitled'
      BY SMTT(30), <2>2 DEF RoomsInv, RoomsTypeOK, RoomEntitled, JoinRecord
    <2> QED
      BY <2>2, <2>3, <2>4, JoiningKeeps DEF RoomsInv, RoomsTypeOK
  <1>2. CASE Rooms!FindById(r)
    <2>1. joining[r].phase = "find" /\ joining[r].socket \in Client
      BY <1>2 DEF Rooms!FindById, RoomsInv, RoomEntitled
    <2>2. /\ UNCHANGED <<member, line, room, message, told, steady>>
          /\ \/ /\ joining' = [joining EXCEPT ![r].phase = "join"]
                /\ entitled' = entitled \cup {joining[r].socket}
             \/ /\ joining' = [joining EXCEPT ![r].phase = "over"]
                /\ entitled' = entitled
      BY <1>2 DEF Rooms!FindById
    <2>3. joining' \in [Request -> JoinRecord] /\ entitled' \in SUBSET Client
      BY <2>1, <2>2 DEF RoomsInv, RoomsTypeOK, JoinRecord
    <2>4. RoomEntitled'
      BY ZenonT(40), <2>1, <2>2 DEF RoomsInv, RoomsTypeOK, RoomEntitled, JoinRecord
    <2> QED
      BY <2>2, <2>3, <2>4, JoiningKeeps DEF RoomsInv, RoomsTypeOK
  <1>3. CASE Rooms!Join(r)
    <2>1. joining[r].phase = "join" /\ joining[r].socket \in entitled
      BY <1>3 DEF Rooms!Join, RoomsInv, RoomEntitled
    <2>2. /\ UNCHANGED <<member, line, entitled, message, told, steady>>
          /\ joining' = [joining EXCEPT ![r].phase = "over"]
          /\ room' = room \cup ({joining[r].socket} \cap Rooms!Connected)
      BY <1>3 DEF Rooms!Join
    <2>3. joining' \in [Request -> JoinRecord] /\ room' \in SUBSET Client
      BY <2>1, <2>2 DEF RoomsInv, RoomsTypeOK, JoinRecord
    <2>4. RoomEntitled'
      BY SMTT(30), <2>1, <2>2 DEF RoomsInv, RoomsTypeOK, RoomEntitled, JoinRecord,
         Rooms!Connected
    <2> QED
      BY <2>2, <2>3, <2>4, JoiningKeeps DEF RoomsInv, RoomsTypeOK
  <1> QED
    BY <1>1, <1>2, <1>3

LEMMA LeaveRoomKeeps ==
  ASSUME RoomsInv, NEW s \in Client, Rooms!LeaveRoom(s)
  PROVE  RoomsInv'
  <1>1. /\ UNCHANGED <<member, line, joining, message, told, steady>>
        /\ room' = room \ {s}
        /\ entitled' = {t \in entitled : t # s \/
              \E r \in Request : joining[r] = [phase |-> "join", socket |-> s]}
    BY DEF Rooms!LeaveRoom
  <1>2. ASSUME NEW r \in Request, joining[r].phase = "join"
        PROVE  joining[r].socket \in entitled'
    <2>1. joining[r] = [phase |-> "join", socket |-> joining[r].socket]
      BY <1>2 DEF RoomsInv, RoomsTypeOK, JoinRecord
    <2>2. joining[r].socket \in entitled
      BY <1>2 DEF RoomsInv, RoomEntitled
    <2> QED
      BY <1>1, <2>1, <2>2
  <1>3. RoomEntitled'
    BY <1>1, <1>2 DEF RoomsInv, RoomEntitled
  <1> QED
    BY <1>1, <1>3, JoiningKeeps DEF RoomsInv, RoomsTypeOK

(* A step of a publication that leaves the others alone. *)
LEMMA OnePublicationKeeps ==
  ASSUME RoomsInv, NEW m \in Publication, NEW new \in PublicationRecord,
         NEW counts \in [Client -> Nat], NEW since \in SUBSET Member,
         UNCHANGED <<member, line, room, joining, entitled>>,
         message' = [message EXCEPT ![m] = new],
         told' = [told EXCEPT ![m] = counts],
         steady' = [steady EXCEPT ![m] = since],
         new.phase \in {"idle", "create", "emit"} =>
             \A s \in Client : counts[s] = 0,
         new.phase = "again" => new.kind = "missed",
         new.phase \in {"create", "emit"} => since \subseteq new.to
  PROVE  RoomsInv'
  <1>1. /\ message' \in [Publication -> PublicationRecord]
        /\ message'[m] = new
        /\ \A n \in Publication : n # m => message'[n] = message[n]
    BY DEF RoomsInv, RoomsTypeOK
  <1>2. /\ told' \in [Publication -> [Client -> Nat]]
        /\ told'[m] = counts
        /\ \A n \in Publication : n # m => told'[n] = told[n]
    BY DEF RoomsInv, RoomsTypeOK
  <1>3. /\ steady' \in [Publication -> SUBSET Member]
        /\ steady'[m] = since
        /\ \A n \in Publication : n # m => steady'[n] = steady[n]
    BY DEF RoomsInv, RoomsTypeOK
  <1>4. RoomsTypeOK'
    BY <1>1, <1>2, <1>3 DEF RoomsInv, RoomsTypeOK
  <1>5. RoomEntitled'
    BY DEF RoomsInv, RoomEntitled
  <1>6. PublicationSound'
    <2> SUFFICES ASSUME NEW n \in Publication
                 PROVE  PublicationSound!(n)'
      BY DEF PublicationSound
    <2>1. CASE n = m
      BY <1>1, <1>2, <1>3, <2>1
    <2>2. CASE n # m
      BY <1>1, <1>2, <1>3, <2>2 DEF RoomsInv, PublicationSound
    <2> QED
      BY <2>1, <2>2
  <1> QED
    BY <1>4, <1>5, <1>6 DEF RoomsInv

LEMMA PublicationKeeps ==
  ASSUME RoomsInv, NEW m \in Publication,
         \/ \E kind \in {"message", "receipt", "missed"} : Rooms!Begin(m, kind)
         \/ Rooms!Create(m) \/ Rooms!Emit(m) \/ Rooms!EmitAgain(m)
  PROVE  RoomsInv'
  <1>0. /\ member \in SUBSET Member
        /\ message \in [Publication -> PublicationRecord]
        /\ message[m] \in PublicationRecord
        /\ told \in [Publication -> [Client -> Nat]]
        /\ told[m] \in [Client -> Nat]
        /\ steady \in [Publication -> SUBSET Member]
        /\ steady[m] \in SUBSET Member
        /\ told' = told => told' = [told EXCEPT ![m] = told[m]]
        /\ steady' = steady => steady' = [steady EXCEPT ![m] = steady[m]]
    BY DEF RoomsInv, RoomsTypeOK
  <1>1. ASSUME NEW kind \in {"message", "receipt", "missed"},
               Rooms!Begin(m, kind)
        PROVE  RoomsInv'
    <2> DEFINE new == [phase |-> IF kind = "receipt" THEN "emit" ELSE "create",
                       kind |-> kind, to |-> member]
    <2>1. /\ message' = [message EXCEPT ![m] = new]
          /\ steady' = [steady EXCEPT ![m] = member]
          /\ told' = told
          /\ UNCHANGED <<member, line, room, joining, entitled>>
          /\ message[m].phase = "idle"
      BY <1>1 DEF Rooms!Begin
    <2>2. /\ new \in PublicationRecord /\ new.to = member
          /\ new.phase # "again"
      BY <1>0 DEF PublicationRecord
    <2>3. \A s \in Client : told[m][s] = 0
      BY <2>1 DEF RoomsInv, PublicationSound
    <2> HIDE DEF new
    <2> QED
      BY <1>0, <2>1, <2>2, <2>3, OnePublicationKeeps
  <1>2. CASE Rooms!Create(m)
    <2>1. PICK phase \in {"emit", "over"} :
            message' = [message EXCEPT ![m].phase = phase]
      BY <1>2 DEF Rooms!Create
    <2> DEFINE new == [message[m] EXCEPT !.phase = phase]
    <2>2. /\ message' = [message EXCEPT ![m] = new]
          /\ UNCHANGED <<member, line, room, joining, told, entitled, steady>>
          /\ message[m].phase = "create"
      BY <1>2, <2>1 DEF Rooms!Create
    <2>3. /\ new \in PublicationRecord /\ new.phase # "again"
          /\ new.to = message[m].to
      BY <1>0 DEF PublicationRecord
    <2>4. (\A s \in Client : told[m][s] = 0)
              /\ steady[m] \subseteq message[m].to
      BY <2>2 DEF RoomsInv, PublicationSound
    <2> HIDE DEF new
    <2> QED
      BY <1>0, <2>2, <2>3, <2>4, OnePublicationKeeps
  <1>3. CASE Rooms!Emit(m)
    <2> DEFINE next == IF message[m].kind = "missed" THEN "again" ELSE "over"
               new == [message[m] EXCEPT !.phase = next]
               counts == [s \in Client |->
                            told[m][s] + IF s \in Rooms!Reached(m) THEN 1
                                ELSE 0]
    <2>1. /\ message' = [message EXCEPT ![m] = new]
          /\ told' = [told EXCEPT ![m] = counts]
          /\ UNCHANGED <<member, line, room, joining, entitled, steady>>
      BY <1>3 DEF Rooms!Emit
    <2>2. /\ new \in PublicationRecord
          /\ new.phase \in {"again", "over"}
          /\ new.phase = "again" => new.kind = "missed"
      BY <1>0 DEF PublicationRecord
    <2>3. counts \in [Client -> Nat]
      BY <1>0
    <2> HIDE DEF new, counts
    <2> QED
      BY <1>0, <2>1, <2>2, <2>3, OnePublicationKeeps
  <1>4. CASE Rooms!EmitAgain(m)
    <2> DEFINE new == [message[m] EXCEPT !.phase = "over"]
               counts == [s \in Client |-> told[m][s] + IF s \in room THEN 1
                   ELSE 0]
    <2>1. /\ message' = [message EXCEPT ![m] = new]
          /\ told' = [told EXCEPT ![m] = counts]
          /\ UNCHANGED <<member, line, room, joining, entitled, steady>>
      BY <1>4 DEF Rooms!EmitAgain
    <2>2. new \in PublicationRecord /\ new.phase = "over"
      BY <1>0 DEF PublicationRecord
    <2>3. counts \in [Client -> Nat]
      BY <1>0
    <2> HIDE DEF new, counts
    <2> QED
      BY <1>0, <2>1, <2>2, <2>3, OnePublicationKeeps
  <1> QED
    BY <1>1, <1>2, <1>3, <1>4

LEMMA RoomsNextKeeps == RoomsInv /\ [Rooms!Next]_(Rooms!vars) => RoomsInv'
  <1> SUFFICES ASSUME RoomsInv, [Rooms!Next]_(Rooms!vars) PROVE RoomsInv'
    OBVIOUS
  <1>1. CASE UNCHANGED Rooms!vars
    BY <1>1 DEF Rooms!vars, RoomsInv, RoomsTypeOK, RoomEntitled,
       PublicationSound
  <1>2. CASE Rooms!Next
    BY <1>2, MembersKeep, SocketKeeps, RequestKeeps, LeaveRoomKeeps,
       PublicationKeeps DEF Rooms!Next
  <1> QED
    BY <1>1, <1>2

(* A publication goes to the connected sockets of the room and of those    *)
(* that it names.                                                          *)
LEMMA ToldReached ==
  ASSUME RoomsInv, [Rooms!Next]_(Rooms!vars), NEW m \in Publication,
         told'[m] # told[m]
  PROVE  /\ Rooms!Emit(m) \/ Rooms!EmitAgain(m)
  <1>1. ASSUME NEW n \in Publication, n # m, Rooms!Emit(n) \/ Rooms!EmitAgain(n)
        PROVE  told'[m] = told[m]
    BY <1>1 DEF RoomsInv, RoomsTypeOK, Rooms!Emit, Rooms!EmitAgain
  <1>2. told' # told
    OBVIOUS
  <1> QED
    BY <1>1, <1>2 DEF Rooms!Next, Rooms!vars, Rooms!Connect, Rooms!Disconnect,
       Rooms!LeaveRoom, Rooms!AddParticipant, Rooms!RemoveParticipant,
       Rooms!AskToJoin, Rooms!FindById, Rooms!Join, Rooms!Begin, Rooms!Create

LEMMA EmitReaches ==
  ASSUME RoomsInv, NEW m \in Publication, Rooms!Emit(m)
  PROVE  /\ \A s \in Rooms!Connected :
              ClientOf[s] \in steady[m] => told'[m][s] > told[m][s]
         /\ \A s \in Client : told'[m][s] > told[m][s] =>
              /\ line[s] = "connected"
              /\ ClientOf[s] \in message[m].to \/ s \in entitled
              /\ told'[m][s] = 1
  <1>1. message[m].phase = "emit"
    BY DEF Rooms!Emit
  <1>2. steady[m] \subseteq message[m].to /\ \A s \in Client : told[m][s] = 0
    BY <1>1 DEF RoomsInv, PublicationSound
  <1>3. told'[m] = [s \in Client |->
                      told[m][s] + IF s \in Rooms!Reached(m) THEN 1 ELSE 0]
    BY DEF Rooms!Emit, RoomsInv, RoomsTypeOK
  <1>4. \A s \in Client : told'[m][s] = IF s \in Rooms!Reached(m) THEN 1 ELSE 0
    BY <1>2, <1>3
  <1>5. \A s \in Rooms!Connected : s \in Client /\ line[s] = "connected"
    BY DEF Rooms!Connected
  <1>6. \A s \in Rooms!Connected :
          ClientOf[s] \in steady[m] => s \in Rooms!Reached(m)
    BY <1>2 DEF Rooms!Reached, Rooms!InUserRooms
  <1>7. \A s \in Rooms!Reached(m) :
          /\ line[s] = "connected"
          /\ ClientOf[s] \in message[m].to \/ s \in entitled
    BY <1>5 DEF Rooms!Reached, Rooms!InUserRooms, RoomsInv, RoomEntitled
  <1> QED
    BY <1>2, <1>4, <1>5, <1>6, <1>7

LEMMA EmitAgainReaches ==
  ASSUME RoomsInv, NEW m \in Publication, Rooms!EmitAgain(m)
  PROVE  /\ message[m].kind = "missed"
         /\ ~Rooms!Emit(m)
         /\ \A s \in Client : told'[m][s] > told[m][s] =>
              line[s] = "connected" /\ s \in entitled
  <1>1. message[m].phase = "again"
    BY DEF Rooms!EmitAgain
  <1>2. message[m].kind = "missed" /\ ~Rooms!Emit(m)
    BY <1>1 DEF RoomsInv, PublicationSound, Rooms!Emit
  <1>3. \A s \in Client : told'[m][s] = told[m][s] + IF s \in room THEN 1 ELSE 0
    BY DEF Rooms!EmitAgain, RoomsInv, RoomsTypeOK
  <1>4. \A s \in Client : told[m][s] \in Nat
    BY DEF RoomsInv, RoomsTypeOK
  <1>5. \A s \in Client : told'[m][s] > told[m][s] => s \in room
    BY <1>3, <1>4
  <1> QED
    BY <1>2, <1>5 DEF RoomsInv, RoomEntitled

(* The inductive invariant of the rooms, for any sockets and publications. *)
THEOREM RoomsInvHolds == Rooms!Spec => []RoomsInv
  BY RoomsInitHolds, RoomsNextKeeps, PTL DEF Rooms!Spec

(* Every connected socket of a steady member is told, and nobody else but  *)
(* a recipient found by the query or a socket that is entitled.            *)
THEOREM PublicationsReach == Rooms!Spec => PublicationsReachMembers
  <1> DEFINE Reaches(m) ==
        /\ Rooms!Emit(m) => \A s \in Rooms!Connected :
              ClientOf[s] \in steady[m] => told'[m][s] > told[m][s]
        /\ \A s \in Client : told'[m][s] > told[m][s] =>
              /\ line[s] = "connected"
              /\ ClientOf[s] \in message[m].to \/ s \in entitled
              /\ told'[m][s] = 1 \/ message[m].kind = "missed"
  <1>1. ASSUME RoomsInv, [Rooms!Next]_(Rooms!vars)
        PROVE  [\A m \in Publication : told'[m] # told[m] =>
            Reaches(m)]_(Rooms!vars)
    BY <1>1, ToldReached, EmitReaches, EmitAgainReaches
  <1> QED
    BY RoomsInvHolds, <1>1, PTL
       DEF Rooms!Spec, PublicationsReachMembers, Rooms!PublicationsReachMembers

-----------------------------------------------------------------------------
(***************************************************************************)
(* Sorting. The place of a row is the number of rows before it, which      *)
(* for a strict order numbers the rows from one.                           *)
(***************************************************************************)
StrictOrder(S, order) ==
    /\ \A a \in S : <<a, a>> \notin order
    /\ \A a, b, c \in S : <<a, b>> \in order /\ <<b, c>> \in order =>
           <<a, c>> \in order
    /\ \A a, b \in S : a # b => <<a, b>> \in order \/ <<b, a>> \in order

Place(S, order, m) == Cardinality(Before(S, order, m)) + 1

(* Rows with a strict order have different places, in that order. *)
LEMMA PlacesDiffer ==
  ASSUME NEW S, IsFiniteSet(S), NEW order, StrictOrder(S, order),
         NEW a \in S, NEW b \in S
  PROVE  /\ Place(S, order, a) \in 1..Cardinality(S)
         /\ <<a, b>> \in order <=> Place(S, order, a) < Place(S, order, b)
         /\ Place(S, order, a) = Place(S, order, b) => a = b
  <1> DEFINE Front(m) == Before(S, order, m)
  <1>1. ASSUME NEW m \in S
        PROVE  /\ IsFiniteSet(Front(m)) /\ Cardinality(Front(m)) \in Nat
               /\ Cardinality(Front(m)) < Cardinality(S)
    <2>1. Front(m) \in SUBSET S /\ m \notin Front(m)
      BY <1>1 DEF Before, StrictOrder
    <2> HIDE DEF Front
    <2>2. IsFiniteSet(Front(m)) /\ Cardinality(Front(m)) <= Cardinality(S)
          /\ (Cardinality(S) = Cardinality(Front(m)) => S = Front(m))
      BY <2>1, FS_Subset
    <2>3. Cardinality(Front(m)) \in Nat /\ Cardinality(S) \in Nat
      BY <2>2, FS_CardinalityType
    <2> QED
      BY <2>1, <2>2, <2>3, <1>1
  <1>2. ASSUME NEW m \in S, NEW n \in S, <<m, n>> \in order
        PROVE  Cardinality(Front(m)) < Cardinality(Front(n))
    <2>1. Front(m) \in SUBSET Front(n) /\ m \in Front(n) /\ m \notin Front(m)
      BY <1>2 DEF Before, StrictOrder
    <2> HIDE DEF Front
    <2>2. Cardinality(Front(m)) <= Cardinality(Front(n))
          /\ (Cardinality(Front(n)) = Cardinality(Front(m)) =>
                 Front(n) = Front(m))
      BY <2>1, <1>1, FS_Subset
    <2> QED
      BY <2>1, <2>2, <1>1
  <1>3. a # b => <<a, b>> \in order \/ <<b, a>> \in order
    BY DEF StrictOrder
  <1>4. /\ Cardinality(Front(a)) \in Nat /\ Cardinality(Front(b)) \in Nat
        /\ Cardinality(S) \in Nat /\ Cardinality(Front(a)) < Cardinality(S)
    BY <1>1, FS_CardinalityType
  <1>5. /\ <<a, b>> \in order => Cardinality(Front(a)) < Cardinality(Front(b))
        /\ <<b, a>> \in order => Cardinality(Front(b)) < Cardinality(Front(a))
    BY <1>2
  <1>6. <<a, a>> \notin order
    BY DEF StrictOrder
  <1> HIDE DEF Front
  <1>7. /\ Place(S, order, a) = Cardinality(Front(a)) + 1
        /\ Place(S, order, b) = Cardinality(Front(b)) + 1
    BY DEF Front, Place
  <1>8. a = b => ~(Place(S, order, a) < Place(S, order, b))
    BY <1>4, <1>7
  <1> QED
    BY <1>3, <1>4, <1>5, <1>6, <1>7, <1>8

(* So the places enumerate the rows, and sorting them is a bijection. *)
LEMMA SortedSorts ==
  ASSUME NEW S, IsFiniteSet(S), NEW order, StrictOrder(S, order)
  PROVE  /\ Cardinality(S) \in Nat
         /\ Sorted(S, order) \in [1..Cardinality(S) -> S]
         /\ \A i, j \in 1..Cardinality(S) :
              i < j => <<Sorted(S, order)[i], Sorted(S, order)[j]>> \in order
         /\ \A m \in S : /\ Place(S, order, m) \in 1..Cardinality(S)
                         /\ Sorted(S, order)[Place(S, order, m)] = m
  <1> DEFINE P(m) == Place(S, order, m)
             N == Cardinality(S)
             f == [m \in S |-> P(m)]
  <1>1. N \in Nat
    BY FS_CardinalityType
  <1>2. \A a, b \in S : /\ P(a) \in 1..N
                        /\ <<a, b>> \in order <=> P(a) < P(b)
                        /\ P(a) = P(b) => a = b
    BY PlacesDiffer
  <1>3. \A i \in 1..N : \E m \in S : P(m) = i
    <2>0. IsFiniteSet(1..N) /\ Cardinality(1..N) = N
      BY <1>1, FS_Interval
    <2> HIDE DEF P, N
    <2>1. f \in Injection(S, 1..N)
      BY <1>2 DEF Injection, IsInjective
    <2>3. f \in Surjection(S, 1..N)
      <3> HIDE DEF f
      <3>1. Cardinality(S) = Cardinality(1..N) <=> f \in Surjection(S, 1..N)
        BY <2>0, <2>1, FS_Injection
      <3> QED
        BY <3>1, <2>0 DEF N
    <2> QED
      BY <2>3 DEF Surjection
  <1>4. \A m \in S : Cardinality(Before(S, order, m)) \in Nat
    <2> SUFFICES ASSUME NEW m \in S
                 PROVE  Cardinality(Before(S, order, m)) \in Nat
      OBVIOUS
    <2>1. Before(S, order, m) \in SUBSET S
      BY DEF Before
    <2>2. IsFiniteSet(Before(S, order, m))
      BY <2>1, FS_Subset
    <2> QED
      BY <2>2, FS_CardinalityType
  <1>5. \A i \in 1..N : /\ Sorted(S, order)[i] \in S
                        /\ P(Sorted(S, order)[i]) = i
    <2> SUFFICES ASSUME NEW i \in 1..N
                 PROVE  /\ Sorted(S, order)[i] \in S
                        /\ P(Sorted(S, order)[i]) = i
      OBVIOUS
    <2>1. PICK m \in S : P(m) = i
      BY <1>3
    <2>2. Cardinality(Before(S, order, m)) = i - 1
      BY <2>1, <1>4 DEF Place
    <2>3. Sorted(S, order)[i] =
            CHOOSE x \in S : Cardinality(Before(S, order, x)) = i - 1
      BY DEF Sorted
    <2>4. /\ Sorted(S, order)[i] \in S
          /\ Cardinality(Before(S, order, Sorted(S, order)[i])) = i - 1
      BY <2>2, <2>3
    <2> QED
      BY <2>4, <1>1 DEF Place
  <1>6. Sorted(S, order) \in [1..N -> S]
    <2>1. Sorted(S, order) = [i \in 1..N |-> Sorted(S, order)[i]]
      BY DEF Sorted
    <2> QED
      BY <2>1, <1>5
  <1>7. \A i, j \in 1..N :
          i < j => <<Sorted(S, order)[i], Sorted(S, order)[j]>> \in order
    BY <1>2, <1>5
  <1>8. \A m \in S : P(m) \in 1..N /\ Sorted(S, order)[P(m)] = m
    BY <1>2, <1>5
  <1> QED
    BY <1>1, <1>6, <1>7, <1>8

-----------------------------------------------------------------------------
(***************************************************************************)
(* History. A call that is to write a deleted message is known to race     *)
(* with the deletion; what a call will broadcast is current unless the     *)
(* message is astray; and a walk holds what lies from its cursor on, and   *)
(* the rest is older than the cursor.                                      *)
(***************************************************************************)
RowRecord == [stored : BOOLEAN, at : Nat, text : Call \cup {"sent"},
              deletedAt : Call \cup {"none"}]
View == [text : Call \cup {"sent", "none"}, deletedAt : Call \cup {"none"}]
CallRecord ==
    [phase : {"idle", "over"}]
    \cup [phase : {"write"}, message : History!Message, kind : {"edit",
        "delete"}, live : BOOLEAN]
    \cup [phase : {"tell"}, message : History!Message, event : View]

WalkRecord ==
    [phase : {"idle", "reading", "read"}, cursor : 0..LastMessage,
     items : Seq(History!Message), began : SUBSET History!Message]

HistoryTypeOK ==
    /\ row \in [History!Message -> RowRecord]
    /\ now \in Nat
    /\ call \in [Call -> CallRecord]
    /\ screen \in [History!Message -> View]
    /\ walk \in WalkRecord
    /\ rewritten \subseteq History!Message
    /\ astray \subseteq History!Message

(* What a call is to write is stored; if it is deleted by then, the call   *)
(* counts as one that rewrites.                                            *)
DeletedKnown ==
    /\ \A m \in History!Message :
        /\ row[m].stored => row[m].at # 0
        /\ row[m].deletedAt # "none" => row[m].stored = TRUE
    /\ now # 0
    /\ \A c \in Call : call[c].phase = "write" =>
        /\ row[call[c].message].stored = TRUE
        /\ row[call[c].message].deletedAt # "none" =>
               call[c].message \in rewritten

(* The event that a call is about to broadcast shows the row of a message  *)
(* that is not astray.                                                     *)
EventsCurrent ==
    \A c \in Call : call[c].phase = "tell" /\ call[c].message \notin astray =>
        call[c].event = History!Format(row[call[c].message])

(* With no event on the way, the screens show the row of such a message. *)
ScreensCurrent ==
    \A m \in History!Message \ astray :
        (\A c \in Call : call[c].phase = "tell" => call[c].message # m)
            => screen[m] = History!Format(row[m])

Read(m) == \E i \in 1..Len(walk.items) : walk.items[i] = m

(* The walk holds rows in order, back to its cursor, and of those that it  *)
(* began with it lacks only the older ones.                                *)
WalkSound ==
    /\ walk.began \subseteq History!Stored
    /\ \A i \in 1..Len(walk.items) : walk.items[i] \in History!Stored
    /\ \A i, j \in 1..Len(walk.items) :
          i < j => History!Newer(walk.items[j], walk.items[i])
    /\ walk.phase = "idle" => walk.cursor = 0
    /\ walk.phase # "read" /\ walk.cursor = 0 => Len(walk.items) = 0
    /\ walk.phase # "read" /\ walk.cursor # 0 =>
          Len(walk.items) # 0 /\ walk.items[1] = walk.cursor
    /\ \A m \in walk.began :
          Read(m) \/ (walk.phase # "read" /\ History!Older(walk.cursor, m))

HistoryInv == HistoryTypeOK /\ DeletedKnown /\ EventsCurrent /\ ScreensCurrent
    /\ WalkSound

(* What the formatting of a row yields. *)
LEMMA FormatView ==
  ASSUME NEW r \in RowRecord
  PROVE  History!Format(r) \in View
  BY DEF RowRecord, View, History!Format, History!None

LEMMA HistoryInitHolds == HistoryAssumption /\ History!Init => HistoryInv
  <1> SUFFICES ASSUME HistoryAssumption, History!Init PROVE HistoryInv
    OBVIOUS
  <1>1. HistoryTypeOK
    <2>1. [phase |-> "idle"] \in CallRecord
      BY DEF CallRecord
    <2>2. call \in [Call -> CallRecord]
      BY <2>1 DEF History!Init
    <2>3. walk \in WalkRecord
      BY DEF History!Init, WalkRecord, HistoryAssumption
    <2> QED
      BY <2>2, <2>3
         DEF History!Init, HistoryTypeOK, RowRecord, View, History!None
  <1>2. DeletedKnown
    BY DEF History!Init, DeletedKnown, History!None
  <1>3. EventsCurrent /\ ScreensCurrent
    BY DEF History!Init, EventsCurrent, ScreensCurrent, History!Format,
       History!None
  <1>4. WalkSound
    <2>1. /\ walk.items = <<>> /\ walk.phase = "idle" /\ walk.cursor = 0
          /\ walk.began = {}
      BY DEF History!Init
    <2>2. Len(walk.items) = 0
      BY <2>1
    <2> QED
      BY <1>1, <2>1, <2>2 DEF HistoryTypeOK, WalkSound
  <1> QED
    BY <1>1, <1>2, <1>3, <1>4 DEF HistoryInv

(* What is known of a call in its phases. *)
LEMMA CallKnown ==
  ASSUME HistoryInv, NEW c \in Call
  PROVE  /\ call[c] \in CallRecord
         /\ call[c].phase = "write" =>
               /\ call[c].message \in History!Message
               /\ call[c].kind \in {"edit", "delete"}
               /\ call[c].live \in BOOLEAN
         /\ call[c].phase = "tell" =>
               /\ call[c].message \in History!Message
               /\ call[c].event \in View
  <1>1. call[c] \in CallRecord
    BY DEF HistoryInv, HistoryTypeOK
  <1> QED
    BY <1>1 DEF CallRecord

LEMMA RowKnown ==
  ASSUME HistoryInv, NEW m \in History!Message
  PROVE  row[m] \in RowRecord
  BY DEF HistoryInv, HistoryTypeOK

(* A walk rests on what is stored, which stays where it is. *)
LEMMA WalkStays ==
  ASSUME HistoryInv, UNCHANGED walk,
         \A m \in History!Stored : m \in History!Stored'
             /\ row'[m].at = row[m].at
  PROVE  WalkSound'
  <1>1. \A m, n \in History!Stored : History!Newer(m, n)' <=>
            History!Newer(m, n)
    BY DEF History!Newer
  <1>2. walk.phase # "read" /\ walk.cursor # 0 => walk.cursor \in History!Stored
    <2> SUFFICES ASSUME walk.phase # "read", walk.cursor # 0
                 PROVE  walk.cursor \in History!Stored
      OBVIOUS
    <2>1. walk.items[1] = walk.cursor /\ Len(walk.items) # 0
      BY DEF HistoryInv, WalkSound
    <2>2. Len(walk.items) \in Nat
      BY DEF HistoryInv, HistoryTypeOK, WalkSound, WalkRecord
    <2> QED
      BY <2>1, <2>2 DEF HistoryInv, WalkSound
  <1>3. \A m \in walk.began : m \in History!Stored
    BY DEF HistoryInv, WalkSound
  <1>4. \A m \in walk.began :
          Read(m)' \/ (walk.phase # "read" /\ History!Older(walk.cursor, m)')
    <2> SUFFICES ASSUME NEW m \in walk.began
                 PROVE  Read(m)' \/ (walk.phase # "read"
                                       /\ History!Older(walk.cursor, m)')
      OBVIOUS
    <2>1. Read(m) \/ (walk.phase # "read" /\ History!Older(walk.cursor, m))
      BY DEF HistoryInv, WalkSound
    <2>2. Read(m) => Read(m)'
      BY DEF Read
    <2>3. CASE walk.phase # "read" /\ History!Older(walk.cursor, m)
      BY <1>1, <1>2, <1>3, <2>3 DEF History!Older
    <2> QED
      BY <2>1, <2>2, <2>3
  <1>5. /\ walk'.began \subseteq History!Stored'
        /\ \A i \in 1..Len(walk.items) : walk.items[i] \in History!Stored
    BY DEF HistoryInv, WalkSound
  <1> QED
    BY <1>1, <1>4, <1>5 DEF HistoryInv, WalkSound

(* A message that is begun or committed. *)
LEMMA SentKeeps ==
  ASSUME HistoryAssumption, HistoryInv, NEW m \in History!Message,
         History!Stamp(m) \/ History!Commit(m)
  PROVE  HistoryInv'
  <1>1. /\ UNCHANGED <<now, call, screen, walk, rewritten, astray>>
        /\ ~(row[m].stored = TRUE)
        /\ \/ row' = [row EXCEPT ![m].at = now] /\ row[m].at = 0
           \/ row' = [row EXCEPT ![m].stored = TRUE] /\ row[m].at # 0
    <2>1. CASE History!Stamp(m)
      BY <2>1 DEF History!Stamp, HistoryInv, DeletedKnown
    <2>2. CASE History!Commit(m)
      BY <2>2 DEF History!Commit
    <2> QED
      BY <2>1, <2>2
  <1>2. row[m] \in RowRecord /\ now \in Nat /\ now # 0
    BY RowKnown DEF HistoryInv, HistoryTypeOK, DeletedKnown
  <1>3. /\ row'[m] \in RowRecord
        /\ row'[m].at # 0
        /\ row'[m].text = row[m].text /\ row'[m].deletedAt = row[m].deletedAt
        /\ \A n \in History!Message : n # m => row'[n] = row[n]
        /\ row' \in [History!Message -> RowRecord]
    <2>1. CASE row' = [row EXCEPT ![m].at = now]
      <3>1. [row[m] EXCEPT !.at = now] \in RowRecord
        BY <1>2 DEF RowRecord
      <3> QED
        BY <1>2, <2>1, <3>1 DEF HistoryInv, HistoryTypeOK, RowRecord
    <2>2. CASE row' = [row EXCEPT ![m].stored = TRUE] /\ row[m].at # 0
      <3>1. [row[m] EXCEPT !.stored = TRUE] \in RowRecord
        BY <1>2 DEF RowRecord
      <3> QED
        BY <1>2, <2>2, <3>1 DEF HistoryInv, HistoryTypeOK, RowRecord
    <2> QED
      BY <1>1, <2>1, <2>2
  <1>4. HistoryTypeOK'
    BY <1>1, <1>3 DEF HistoryInv, HistoryTypeOK
  <1>5. row[m].deletedAt = "none"
    BY <1>1 DEF HistoryInv, DeletedKnown
  <1>6. ASSUME NEW n \in History!Message
        PROVE  History!Format(row'[n]) = History!Format(row[n])
    BY <1>3 DEF History!Format
  <1>7. DeletedKnown'
    <2>1. ASSUME NEW n \in History!Message
          PROVE  /\ row'[n].stored => row'[n].at # 0
                 /\ row'[n].deletedAt # "none" => row'[n].stored = TRUE
                 /\ row[n].stored = TRUE => row'[n].stored = TRUE
                 /\ row'[n].deletedAt = row[n].deletedAt
      BY <1>1, <1>3, <1>5 DEF HistoryInv, DeletedKnown
    <2>2. ASSUME NEW c \in Call, call[c].phase = "write"
          PROVE  /\ row'[call[c].message].stored = TRUE
                 /\ row'[call[c].message].deletedAt # "none" =>
                       call[c].message \in rewritten
      <3>1. call[c].message \in History!Message
        BY <2>2, CallKnown
      <3> QED
        BY <2>1, <2>2, <3>1 DEF HistoryInv, DeletedKnown
    <2> QED
      BY <1>1, <1>2, <2>1, <2>2 DEF DeletedKnown
  <1>8. EventsCurrent'
    BY <1>1, <1>6, CallKnown DEF HistoryInv, EventsCurrent
  <1>9. ScreensCurrent'
    BY <1>1, <1>6 DEF HistoryInv, ScreensCurrent
  <1>10. WalkSound'
    <2>1. \A n \in History!Stored : n \in History!Message /\ n # m
      BY <1>1 DEF History!Stored
    <2>2. \A n \in History!Stored : n \in History!Stored'
              /\ row'[n].at = row[n].at
      BY <1>3, <2>1 DEF History!Stored
    <2> QED
      BY <1>1, <2>2, WalkStays
  <1> QED
    BY <1>4, <1>7, <1>8, <1>9, <1>10 DEF HistoryInv

(* A call that leaves the rows alone: what it becomes must be right.       *)
LEMMA CallMoves ==
  ASSUME HistoryInv, NEW c \in Call, NEW new \in CallRecord,
         call' = [call EXCEPT ![c] = new],
         UNCHANGED <<row, now, walk, rewritten, astray>>,
         screen' \in [History!Message -> View],
         new.phase = "write" =>
            /\ row[new.message].stored = TRUE
            /\ row[new.message].deletedAt # "none" => new.message \in rewritten,
         new.phase = "tell" => new.event = History!Format(row[new.message]),
         \A m \in History!Message :
            \/ screen'[m] = History!Format(row[m])
            \/ screen'[m] = screen[m] /\ ~(call[c].phase = "tell"
                   /\ call[c].message = m)
            \/ m \in astray
  PROVE  HistoryInv'
  <1>1. /\ call' \in [Call -> CallRecord]
        /\ call'[c] = new /\ \A d \in Call : d # c => call'[d] = call[d]
    BY DEF HistoryInv, HistoryTypeOK
  <1>2. HistoryTypeOK'
    BY <1>1 DEF HistoryInv, HistoryTypeOK
  <1>3. DeletedKnown'
    BY <1>1 DEF HistoryInv, DeletedKnown
  <1>4. EventsCurrent'
    BY <1>1 DEF HistoryInv, EventsCurrent
  <1>5. ScreensCurrent'
    <2> SUFFICES ASSUME NEW m \in History!Message \ astray,
                        \A d \in Call : call'[d].phase = "tell" =>
                            call'[d].message # m
                 PROVE  screen'[m] = History!Format(row[m])
      BY DEF ScreensCurrent
    <2>1. \A d \in Call : d # c => (call[d].phase = "tell" =>
              call[d].message # m)
      BY <1>1
    <2>2. CASE screen'[m] = screen[m] /\ ~(call[c].phase = "tell"
              /\ call[c].message = m)
      BY <2>1, <2>2 DEF HistoryInv, ScreensCurrent
    <2> QED
      BY <2>2
  <1>6. WalkSound'
    BY WalkStays DEF History!Stored
  <1> QED
    BY <1>2, <1>3, <1>4, <1>5, <1>6 DEF HistoryInv

LEMMA FindKeeps ==
  ASSUME HistoryInv, NEW c \in Call, NEW m \in History!Message,
         NEW kind \in {"edit", "delete"}, NEW live \in BOOLEAN,
         History!Find(c, kind, m, live)
  PROVE  HistoryInv'
  <1> DEFINE copy == [phase |-> "write", message |-> m, kind |-> kind,
          live |-> live]
             again == [phase |-> "tell", message |-> m,
                 event |-> History!Format(row[m])]
             over == [phase |-> "over"]
  <1>1. /\ UNCHANGED <<row, now, screen, walk, rewritten, astray>>
        /\ call[c].phase = "idle" /\ row[m].stored = TRUE
    BY RowKnown DEF History!Find, RowRecord
  <1>2. \/ call' = [call EXCEPT ![c] = copy] /\ row[m].deletedAt = "none"
        \/ call' = [call EXCEPT ![c] = again]
        \/ call' = [call EXCEPT ![c] = over]
    BY DEF History!Find, History!Modifiable, History!None
  <1>3. /\ copy \in CallRecord /\ again \in CallRecord /\ over \in CallRecord
        /\ copy.phase = "write" /\ copy.message = m
        /\ again.phase = "tell" /\ again.message = m
        /\ again.event = History!Format(row[m])
        /\ over.phase = "over"
    BY RowKnown, FormatView DEF CallRecord
  <1>4. /\ screen' \in [History!Message -> View]
        /\ \A n \in History!Message :
              screen'[n] = screen[n] /\ ~(call[c].phase = "tell"
                  /\ call[c].message = n)
    BY <1>1 DEF HistoryInv, HistoryTypeOK
  <1> HIDE DEF copy, again, over
  <1>5. CASE call' = [call EXCEPT ![c] = copy] /\ row[m].deletedAt = "none"
    BY <1>1, <1>3, <1>4, <1>5, CallMoves
  <1>6. CASE call' = [call EXCEPT ![c] = again]
    BY <1>1, <1>3, <1>4, <1>6, CallMoves
  <1>7. CASE call' = [call EXCEPT ![c] = over]
    BY <1>1, <1>3, <1>4, <1>7, CallMoves
  <1> QED
    BY <1>2, <1>5, <1>6, <1>7

LEMMA RejectKeeps ==
  ASSUME HistoryInv, NEW c \in Call, History!Reject(c)
  PROVE  HistoryInv'
  <1> DEFINE over == [phase |-> "over"]
  <1>1. /\ call' = [call EXCEPT ![c] = over] /\ call[c].phase = "write"
        /\ UNCHANGED <<row, now, screen, walk, rewritten, astray>>
    BY DEF History!Reject, History!Over
  <1>2. over \in CallRecord /\ over.phase = "over"
    BY DEF CallRecord
  <1>3. /\ screen' \in [History!Message -> View]
        /\ \A n \in History!Message :
              screen'[n] = screen[n] /\ ~(call[c].phase = "tell"
                  /\ call[c].message = n)
    BY <1>1 DEF HistoryInv, HistoryTypeOK
  <1> HIDE DEF over
  <1> QED
    BY <1>1, <1>2, <1>3, CallMoves

LEMMA TellKeeps ==
  ASSUME HistoryInv, NEW c \in Call, History!Tell(c)
  PROVE  HistoryInv'
  <1> DEFINE over == [phase |-> "over"]
             m == call[c].message
  <1>1. /\ call' = [call EXCEPT ![c] = over] /\ call[c].phase = "tell"
        /\ screen' = [screen EXCEPT ![m] = call[c].event]
        /\ UNCHANGED <<row, now, walk, rewritten, astray>>
    BY DEF History!Tell, History!Over
  <1>2. over \in CallRecord /\ over.phase = "over"
    BY DEF CallRecord
  <1>3. m \in History!Message /\ call[c].event \in View
    BY <1>1, CallKnown
  <1>4. m \in astray \/ call[c].event = History!Format(row[m])
    BY <1>1 DEF HistoryInv, EventsCurrent
  <1> HIDE DEF over, m
  <1>5. /\ screen' \in [History!Message -> View]
        /\ screen'[m] = call[c].event
        /\ \A n \in History!Message : n # m => screen'[n] = screen[n]
    BY <1>1, <1>3 DEF HistoryInv, HistoryTypeOK
  <1>6. \A n \in History!Message :
            \/ screen'[n] = History!Format(row[n])
            \/ screen'[n] = screen[n] /\ ~(call[c].phase = "tell"
                   /\ call[c].message = n)
            \/ n \in astray
    BY <1>4, <1>5 DEF m
  <1> QED
    BY <1>1, <1>2, <1>5, <1>6, CallMoves

LEMMA WriteKeeps ==
  ASSUME HistoryInv, NEW c \in Call, History!Write(c)
  PROVE  HistoryInv'
  <1> DEFINE m == call[c].message
             written == IF call[c].kind = "edit"
                        THEN [row[m] EXCEPT !.text = c]
                        ELSE [row[m] EXCEPT !.deletedAt = c]
             tell == [phase |-> "tell", message |-> m,
                      event |-> History!Format(written)]
             over == [phase |-> "over"]
  <1>1. /\ call[c].phase = "write"
        /\ row' = [row EXCEPT ![m] = written]
        /\ rewritten' = IF History!Others(c, "write") # {}
               THEN rewritten \cup {m}
                        ELSE rewritten
        /\ UNCHANGED <<now, screen, walk>>
        /\ \/ /\ call' = [call EXCEPT ![c] = tell]
              /\ astray' = IF History!Others(c, "tell") # {}
                     THEN astray \cup {m}
                           ELSE astray \ {m}
           \/ /\ call' = [call EXCEPT ![c] = over]
              /\ astray' = astray \cup {m}
    BY DEF History!Write, History!Over, History!Event
  <1>2. m \in History!Message /\ row[m] \in RowRecord /\ row[m].stored = TRUE
    BY <1>1, CallKnown, RowKnown DEF HistoryInv, DeletedKnown
  <1>3. /\ written \in RowRecord /\ written.at = row[m].at
               /\ written.stored = TRUE
    BY <1>2 DEF RowRecord
  <1>4. /\ tell \in CallRecord /\ tell.phase = "tell" /\ tell.message = m
        /\ tell.event = History!Format(written)
        /\ over \in CallRecord /\ over.phase = "over"
    BY <1>2, <1>3, FormatView DEF CallRecord
  <1>5. \A d \in Call : \A phase : d \in History!Others(c, phase) <=>
            d # c /\ call[d].phase = phase /\ call[d].message = m
    BY DEF History!Others
  <1>6. \A n : n \in rewritten => n \in rewritten'
    BY <1>1
  <1> HIDE DEF m, written, tell, over
  <1>7. /\ row' \in [History!Message -> RowRecord] /\ row'[m] = written
        /\ \A n \in History!Message : n # m => row'[n] = row[n]
    BY <1>1, <1>2, <1>3 DEF HistoryInv, HistoryTypeOK
  <1>8. /\ call' \in [Call -> CallRecord]
        /\ call'[c] = tell \/ call'[c] = over
        /\ \A d \in Call : d # c => call'[d] = call[d]
    BY <1>1, <1>4 DEF HistoryInv, HistoryTypeOK
  <1>9. HistoryTypeOK'
    BY <1>1, <1>2, <1>7, <1>8 DEF HistoryInv, HistoryTypeOK
  <1>10. DeletedKnown'
    <2>1. ASSUME NEW n \in History!Message
          PROVE  /\ row'[n].stored => row'[n].at # 0
                 /\ row'[n].deletedAt # "none" => row'[n].stored = TRUE
      BY <1>2, <1>3, <1>7 DEF HistoryInv, DeletedKnown
    <2>2. ASSUME NEW d \in Call, call'[d].phase = "write"
          PROVE  /\ row'[call'[d].message].stored = TRUE
                 /\ row'[call'[d].message].deletedAt # "none" =>
                       call'[d].message \in rewritten'
      <3>1. d # c /\ call'[d] = call[d]
        BY <1>4, <1>8, <2>2
      <3>2. call[d].message \in History!Message
        BY <2>2, <3>1, CallKnown
      <3>3. CASE call[d].message = m
        <4>1. d \in History!Others(c, "write")
          BY <1>5, <2>2, <3>1, <3>3
        <4> QED
          BY <1>1, <1>3, <1>7, <3>1, <3>3, <4>1
      <3>4. CASE call[d].message # m
        BY <1>6, <1>7, <2>2, <3>1, <3>2, <3>4 DEF HistoryInv, DeletedKnown
      <3> QED
        BY <3>3, <3>4
    <2> QED
      BY <1>1, <2>1, <2>2 DEF HistoryInv, DeletedKnown
  <1>11. EventsCurrent'
    <2> SUFFICES ASSUME NEW d \in Call, call'[d].phase = "tell",
                        call'[d].message \notin astray'
                 PROVE  call'[d].event = History!Format(row'[call'[d].message])
      BY DEF EventsCurrent
    <2>1. CASE d = c
      BY <1>4, <1>7, <1>8, <2>1
    <2>2. CASE d # c
      <3>1. call'[d] = call[d] /\ call[d].message \in History!Message
        BY <1>8, <2>2, CallKnown
      <3>2. CASE call[d].message = m
        <4>1. d \in History!Others(c, "tell")
          BY <1>5, <2>2, <3>1, <3>2
        <4> QED
          BY <1>1, <3>1, <3>2, <4>1
      <3>3. CASE call[d].message # m
        <4>1. call[d].message \notin astray
          BY <1>1, <3>1, <3>3
        <4> QED
          BY <1>7, <3>1, <3>3, <4>1 DEF HistoryInv, EventsCurrent
      <3> QED
        BY <3>2, <3>3
    <2> QED
      BY <2>1, <2>2
  <1>12. ScreensCurrent'
    <2> SUFFICES ASSUME NEW n \in History!Message \ astray',
                        \A d \in Call : call'[d].phase = "tell" =>
                            call'[d].message # n
                 PROVE  screen[n] = History!Format(row'[n])
      BY <1>1 DEF ScreensCurrent
    <2>1. CASE n = m
      BY <1>1, <1>4, <1>8, <2>1
    <2>2. CASE n # m
      <3>1. n \notin astray
        BY <1>1, <2>2
      <3>2. \A d \in Call : call[d].phase = "tell" => call[d].message # n
        BY <1>1, <1>8
      <3> QED
        BY <1>7, <2>2, <3>1, <3>2 DEF HistoryInv, ScreensCurrent
    <2> QED
      BY <2>1, <2>2
  <1>13. WalkSound'
    <2>1. \A n \in History!Stored : n \in History!Stored'
              /\ row'[n].at = row[n].at
      BY <1>2, <1>3, <1>7 DEF History!Stored
    <2> QED
      BY <1>1, <2>1, WalkStays
  <1> QED
    BY <1>9, <1>10, <1>11, <1>12, <1>13 DEF HistoryInv

(* The rows that a page behind the cursor is taken from. *)
Found(cursor) == {m \in History!Stored : History!Older(cursor, m)}

LEMMA HistoryCounts ==
  \A S : History!Cardinality(S) = Cardinality(S)
  BY DEF History!Cardinality, Cardinality

(* The rows that a query finds, sorted. *)
LEMMA RowsSorted ==
  ASSUME HistoryAssumption, HistoryInv, NEW S \in SUBSET History!Stored
  PROVE  /\ Cardinality(S) \in Nat
         /\ History!Sorted(S, History!NewestFirst) \in [1..Cardinality(S) -> S]
         /\ \A i, j \in 1..Cardinality(S) : i < j =>
              History!Newer(History!Sorted(S, History!NewestFirst)[i],
                            History!Sorted(S, History!NewestFirst)[j])
         /\ \A m \in S : \E i \in 1..Cardinality(S) :
              History!Sorted(S, History!NewestFirst)[i] = m
  <1> DEFINE order == History!NewestFirst
  <1>1. IsFiniteSet(S)
    <2>1. IsFiniteSet(1..LastMessage)
      BY FS_Interval DEF HistoryAssumption
    <2>2. S \in SUBSET (1..LastMessage)
      BY DEF History!Stored, History!Message
    <2> QED
      BY <2>1, <2>2, FS_Subset
  <1>2. \A m \in S : m \in Int /\ row[m].at \in Nat /\ m \in History!Message
    BY DEF History!Stored, History!Message, HistoryInv, HistoryTypeOK, RowRecord
  <1>3. \A a, b \in S : <<a, b>> \in order <=> History!Newer(a, b)
    BY <1>2 DEF History!NewestFirst
  <1>4. StrictOrder(S, order)
    BY <1>2, <1>3 DEF StrictOrder, History!Newer
  <1>5. History!Sorted(S, order) = Sorted(S, order)
    BY DEF History!Sorted, Sorted, History!Before, Before,
           History!Cardinality, Cardinality
  <1> HIDE DEF order
  <1>6. /\ Cardinality(S) \in Nat
        /\ Sorted(S, order) \in [1..Cardinality(S) -> S]
        /\ \A i, j \in 1..Cardinality(S) :
              i < j => <<Sorted(S, order)[i], Sorted(S, order)[j]>> \in order
        /\ \A m \in S : /\ Place(S, order, m) \in 1..Cardinality(S)
                        /\ Sorted(S, order)[Place(S, order, m)] = m
    BY <1>1, <1>4, SortedSorts
  <1>7. \A m \in S : \E i \in 1..Cardinality(S) : Sorted(S, order)[i] = m
    BY <1>6
  <1>8. \A i, j \in 1..Cardinality(S) :
          i < j => History!Newer(Sorted(S, order)[i], Sorted(S, order)[j])
    BY <1>3, <1>6
  <1> QED
    BY <1>5, <1>6, <1>7, <1>8 DEF order

(* What a page holds: some of the rows, up to the first that is older than *)
(* its next cursor.                                                        *)
LEMMA PageSound ==
  ASSUME HistoryAssumption, HistoryInv, NEW cursor
  PROVE  LET page == History!FindMessages(cursor)
             found == Found(cursor)
         IN  /\ page.items \in Seq(found)
             /\ \A i, j \in 1..Len(page.items) :
                  i < j => History!Newer(page.items[j], page.items[i])
             /\ page.next # 0 =>
                  /\ page.next \in found
                  /\ Len(page.items) # 0
                  /\ page.items[1] = page.next
             /\ \A m \in found :
                  \/ \E i \in 1..Len(page.items) : page.items[i] = m
                  \/ page.next # 0 /\ History!Newer(page.next, m)
             /\ found # {} =>
                  /\ Len(page.items) # 0
                  /\ \A m \in found : m = page.items[Len(page.items)]
                       \/ History!Newer(page.items[Len(page.items)], m)
  <1> DEFINE found == Found(cursor)
             sorted == History!Sorted(found, History!NewestFirst)
             N == Cardinality(found)
             K == IF N < Limit + 1 THEN N ELSE Limit + 1
             n == IF N > Limit THEN Limit ELSE N
             query == History!Query(cursor, Limit + 1)
             part == IF Len(query) > Limit THEN SubSeq(query, 1, Limit)
                 ELSE query
             page == History!FindMessages(cursor)
  <1>1. found \in SUBSET History!Stored
    BY DEF Found
  <1>2. /\ N \in Nat
        /\ sorted \in [1..N -> found]
        /\ \A i, j \in 1..N : i < j => History!Newer(sorted[i], sorted[j])
        /\ \A m \in found : \E i \in 1..N : sorted[i] = m
    BY <1>1, RowsSorted
  <1>3. Limit \in Nat \ {0}
    BY DEF HistoryAssumption
  <1>4. query = SubSeq(sorted, 1, IF Len(sorted) < Limit + 1 THEN Len(sorted)
            ELSE Limit + 1)
    BY DEF History!Query, Found
  <1>5. page = [items |-> [i \in 1..Len(part) |-> part[Len(part) + 1 - i]],
                next |-> IF Len(query) > Limit THEN part[Len(part)] ELSE 0]
    BY DEF History!FindMessages
  <1>6. \A m \in found : m # 0 /\ m \in Int
    BY <1>1 DEF History!Stored, History!Message
  <1> HIDE DEF sorted, N, found, query, part, page
  <1>7. Len(sorted) = N /\ \A i \in 1..N : sorted[i] \in found
    BY <1>2
  <1>8. /\ query \in Seq(found) /\ Len(query) = K
        /\ \A i \in 1..K : query[i] = sorted[i]
    <2>1. query = SubSeq(sorted, 1, K)
      BY <1>4, <1>7
    <2>2. K \in Nat /\ K <= N
      BY <1>2, <1>3
    <2>3. \A i \in 1..K : sorted[i] \in found
      BY <1>2, <1>7, <2>2
    <2> HIDE DEF K
    <2> QED
      BY <2>1, <2>2, <2>3, SubSeqProperties
  <1>9. K > Limit <=> N > Limit
    BY <1>2, <1>3
  <1>10. /\ part \in Seq(found) /\ Len(part) = n
         /\ \A i \in 1..n : part[i] = sorted[i]
    <2>1. CASE N > Limit
      <3>1. part = SubSeq(query, 1, Limit) /\ K = Limit + 1 /\ n = Limit
        BY <1>2, <1>3, <1>8, <1>9, <2>1 DEF part
      <3>2. \A i \in 1..Limit : query[i] = sorted[i] /\ sorted[i] \in found
        BY <1>2, <1>3, <1>7, <1>8, <2>1, <3>1
      <3> HIDE DEF K, n
      <3> QED
        BY <1>3, <3>1, <3>2, SubSeqProperties
    <2>2. CASE ~(N > Limit)
      <3>1. part = query /\ K = N /\ n = N
        BY <1>2, <1>3, <1>8, <1>9, <2>2 DEF part
      <3> QED
        BY <1>8, <3>1
    <2> QED
      BY <2>1, <2>2
  <1>11. n \in Nat /\ n <= N /\ (N > Limit => n = Limit) /\ (N > 0 => n > 0)
         /\ (~(N > Limit) => n = N)
    BY <1>2, <1>3
  <1> HIDE DEF K, n
  <1>12. /\ page.items = [i \in 1..n |-> part[n + 1 - i]]
         /\ page.next = IF N > Limit THEN part[n] ELSE 0
    BY <1>5, <1>8, <1>9, <1>10
  <1>13. \A i \in 1..n : n + 1 - i \in 1..n /\ n + 1 - i \in 1..N
    BY <1>2, <1>11
  <1>14. /\ page.items \in Seq(found) /\ Len(page.items) = n
         /\ \A i \in 1..n : page.items[i] = sorted[n + 1 - i]
    <2>1. \A i \in 1..n : part[n + 1 - i] = sorted[n + 1 - i]
              /\ sorted[n + 1 - i] \in found
      BY <1>7, <1>10, <1>13
    <2>2. page.items \in [1..n -> found]
      BY <1>12, <2>1
    <2> QED
      BY <1>11, <1>12, <2>1, <2>2
  <1>15. \A i, j \in 1..n : i < j => History!Newer(page.items[j], page.items[i])
    <2> SUFFICES ASSUME NEW i \in 1..n, NEW j \in 1..n, i < j
                 PROVE  History!Newer(page.items[j], page.items[i])
      OBVIOUS
    <2>1. /\ n + 1 - i \in 1..N /\ n + 1 - j \in 1..N /\ n + 1 - j < n + 1 - i
      BY <1>2, <1>11
    <2>2. History!Newer(sorted[n + 1 - j], sorted[n + 1 - i])
      BY <1>2, <2>1
    <2> QED
      BY <1>14, <2>2
  <1>16. page.next # 0 =>
           /\ N > Limit /\ n = Limit /\ page.next = sorted[n]
                  /\ page.next \in found
           /\ n # 0 /\ page.items[1] = page.next
    <2> SUFFICES ASSUME page.next # 0
                 PROVE  /\ N > Limit /\ n = Limit /\ page.next = sorted[n]
                        /\ page.next \in found
                        /\ n # 0 /\ page.items[1] = page.next
      OBVIOUS
    <2>1. N > Limit /\ n = Limit /\ n \in 1..n /\ 1 \in 1..n /\ n \in 1..N
      BY <1>2, <1>3, <1>11, <1>12
    <2>2. page.next = part[n] /\ part[n] = sorted[n]
      BY <1>10, <1>12, <2>1
    <2>3. page.items[1] = sorted[n + 1 - 1]
      BY <1>14, <2>1
    <2>4. n + 1 - 1 = n /\ n # 0
      BY <1>3, <2>1
    <2> QED
      BY <1>7, <2>1, <2>2, <2>3, <2>4
  <1>17. ASSUME NEW m \in found
         PROVE  \/ \E i \in 1..n : page.items[i] = m
                \/ page.next # 0 /\ History!Newer(page.next, m)
    <2>1. PICK k \in 1..N : sorted[k] = m
      BY <1>2
    <2>2. CASE k <= n
      <3>1. n + 1 - k \in 1..n /\ n + 1 - (n + 1 - k) = k
        BY <1>2, <1>11, <2>2
      <3>2. page.items[n + 1 - k] = sorted[k]
        BY <1>14, <3>1
      <3> QED
        BY <2>1, <3>1, <3>2
    <2>3. CASE ~(k <= n)
      <3>1. N > Limit /\ n \in 1..N /\ n < k /\ n \in 1..n
        BY <1>2, <1>3, <1>11, <2>3
      <3>2. page.next = sorted[n] /\ sorted[n] \in found
        BY <1>7, <1>10, <1>12, <3>1
      <3>3. History!Newer(sorted[n], sorted[k])
        BY <1>2, <3>1
      <3> QED
        BY <1>6, <2>1, <3>2, <3>3
    <2> QED
      BY <2>2, <2>3
  <1>18. found # {} =>
           /\ n # 0
           /\ \A m \in found : m = page.items[n]
                  \/ History!Newer(page.items[n], m)
    <2> SUFFICES ASSUME NEW x \in found
                 PROVE  /\ n # 0
                        /\ \A m \in found :
                             \/ m = page.items[n]
                             \/ History!Newer(page.items[n], m)
      OBVIOUS
    <2>1. PICK k \in 1..N : sorted[k] = x
      BY <1>2
    <2>2. n \in 1..n /\ n + 1 - n = 1 /\ 1 \in 1..N /\ n # 0
      BY <1>2, <1>11
    <2>3. page.items[n] = sorted[1]
      BY <1>14, <2>2
    <2>4. ASSUME NEW m \in found PROVE m = sorted[1]
                 \/ History!Newer(sorted[1], m)
      <3>1. PICK j \in 1..N : sorted[j] = m
        BY <1>2
      <3>2. j = 1 \/ 1 < j
        BY <1>2
      <3> QED
        BY <1>2, <2>2, <3>1, <3>2
    <2> QED
      BY <2>2, <2>3, <2>4
  <1>19. Len(page.items) = n
    BY <1>14
  <1>20. /\ page.items \in Seq(found)
         /\ \A i, j \in 1..Len(page.items) :
              i < j => History!Newer(page.items[j], page.items[i])
         /\ page.next # 0 =>
              /\ page.next \in found
              /\ Len(page.items) # 0
              /\ page.items[1] = page.next
         /\ \A m \in found :
              \/ \E i \in 1..Len(page.items) : page.items[i] = m
              \/ page.next # 0 /\ History!Newer(page.next, m)
         /\ found # {} =>
              /\ Len(page.items) # 0
              /\ \A m \in found : m = page.items[Len(page.items)]
                   \/ History!Newer(page.items[Len(page.items)], m)
    BY <1>14, <1>15, <1>16, <1>17, <1>18, <1>19
  <1> QED
    BY <1>20 DEF page, found

LEMMA StartWalkKeeps ==
  ASSUME HistoryInv, History!StartWalk
  PROVE  HistoryInv'
  <1>1. /\ walk.phase = "idle"
        /\ walk' = [walk EXCEPT !.phase = "reading", !.began = History!Stored]
        /\ UNCHANGED <<row, now, call, screen, rewritten, astray>>
    BY DEF History!StartWalk
  <1>2. walk \in WalkRecord
    BY DEF HistoryInv, HistoryTypeOK
  <1>3. History!Stored \in SUBSET History!Message
            /\ History!Stored' = History!Stored
    BY <1>1 DEF History!Stored
  <1>4. /\ walk' \in WalkRecord
        /\ walk'.phase = "reading" /\ walk'.began = History!Stored
        /\ walk'.cursor = walk.cursor /\ walk'.items = walk.items
    BY <1>1, <1>2, <1>3 DEF WalkRecord
  <1>5. walk.cursor = 0
    BY <1>1 DEF HistoryInv, WalkSound
  <1>6. \A m, n : History!Newer(m, n)' <=> History!Newer(m, n)
    BY <1>1 DEF History!Newer
  <1>7. WalkSound'
    BY <1>1, <1>3, <1>4, <1>5, <1>6 DEF HistoryInv, WalkSound, History!Older
  <1> QED
    BY <1>1, <1>4, <1>7 DEF HistoryInv, HistoryTypeOK, DeletedKnown,
       EventsCurrent,
       ScreensCurrent, History!Format

LEMMA ReadPageKeeps ==
  ASSUME HistoryAssumption, HistoryInv, History!ReadPage
  PROVE  HistoryInv'
  <1> DEFINE page == History!FindMessages(walk.cursor)
             found == Found(walk.cursor)
             old == walk.items
             new == page.items \o walk.items
             P == Len(page.items)
             L == Len(walk.items)
  <1>1. /\ walk.phase = "reading"
        /\ walk' = [walk EXCEPT !.items = new, !.cursor = page.next,
                                !.phase = IF page.next = 0 THEN "read"
                                          ELSE walk.phase]
        /\ UNCHANGED <<row, now, call, screen, rewritten, astray>>
    BY DEF History!ReadPage
  <1>2. /\ walk \in WalkRecord /\ old \in Seq(History!Message) /\ L \in Nat
        /\ \A i \in 1..L : old[i] \in History!Stored
        /\ \A i, j \in 1..L : i < j => History!Newer(old[j], old[i])
        /\ walk.cursor = 0 => L = 0
        /\ walk.cursor # 0 => L # 0 /\ old[1] = walk.cursor
        /\ \A m \in walk.began : Read(m) \/ History!Older(walk.cursor, m)
        /\ walk.began \subseteq History!Stored
    BY <1>1 DEF HistoryInv, HistoryTypeOK, WalkSound, WalkRecord
  <1>3. /\ page.items \in Seq(found)
        /\ \A i, j \in 1..P : i < j => History!Newer(page.items[j],
               page.items[i])
        /\ page.next # 0 =>
              page.next \in found /\ P # 0 /\ page.items[1] = page.next
        /\ \A m \in found : \/ \E i \in 1..P : page.items[i] = m
                            \/ page.next # 0 /\ History!Newer(page.next, m)
    BY PageSound
  <1>4. found \subseteq History!Stored
            /\ History!Stored \subseteq History!Message
    BY DEF Found, History!Stored
  <1>5. P \in Nat /\ page.items \in Seq(History!Message)
        /\ \A i \in 1..P : page.items[i] \in found
    BY <1>3, <1>4
  <1> HIDE DEF page, found, old, new, P, L
  <1>6. /\ new \in Seq(History!Message) /\ Len(new) = P + L
        /\ \A i \in 1..P + L : new[i] = IF i <= P THEN page.items[i]
               ELSE old[i - P]
    BY <1>2, <1>5, ConcatProperties DEF new, P, L, old
  <1>7. page.next \in 0..LastMessage
    <2>1. page.next # 0 => page.next \in History!Message
      BY <1>3, <1>4
    <2>2. LastMessage \in Nat
      BY DEF HistoryAssumption
    <2> QED
      BY <2>1, <2>2 DEF History!Message
  <1>8. /\ walk' \in WalkRecord
        /\ walk'.items = new /\ walk'.cursor = page.next
        /\ walk'.phase = IF page.next = 0 THEN "read" ELSE "reading"
        /\ walk'.began = walk.began
    BY <1>1, <1>2, <1>6, <1>7 DEF WalkRecord
  <1>9. /\ \A m, n : History!Newer(m, n)' <=> History!Newer(m, n)
        /\ History!Stored' = History!Stored
    BY <1>1 DEF History!Newer, History!Stored
  <1>10. \A i \in 1..P + L :
           /\ i <= P => i \in 1..P /\ new[i] = page.items[i]
           /\ ~(i <= P) => i - P \in 1..L /\ new[i] = old[i - P]
    BY <1>2, <1>5, <1>6
  <1>11. \A i \in 1..P + L : new[i] \in History!Stored
    BY <1>2, <1>4, <1>5, <1>10
  <1>12. \A m \in History!Stored : m \in Int /\ row[m].at \in Nat
    BY DEF History!Stored, History!Message, HistoryInv, HistoryTypeOK, RowRecord
  <1>13. \A a, b, c \in History!Stored :
           History!Newer(a, b) /\ History!Newer(b, c) => History!Newer(a, c)
    BY <1>12 DEF History!Newer
  <1>14. ASSUME NEW i \in 1..P + L, NEW j \in 1..P + L, i < j
         PROVE  History!Newer(new[j], new[i])
    <2>1. CASE j <= P
      <3>1. i <= P
        BY <1>5, <1>14, <2>1
      <3> QED
        BY <1>3, <1>10, <1>14, <2>1, <3>1
    <2>2. CASE ~(i <= P)
      <3>1. ~(j <= P) /\ i - P < j - P
        BY <1>2, <1>5, <1>14, <2>2
      <3> QED
        BY <1>2, <1>10, <2>2, <3>1
    <2>3. CASE i <= P /\ ~(j <= P)
      <3>1. new[i] = page.items[i] /\ new[i] \in found
        BY <1>5, <1>10, <2>3
      <3>2. new[j] = old[j - P] /\ j - P \in 1..L
        BY <1>10, <2>3
      <3>3. walk.cursor # 0 /\ old[1] = walk.cursor /\ 1 \in 1..L
        BY <1>2, <3>2
      <3>4. History!Newer(walk.cursor, new[i])
        BY <3>1, <3>3 DEF found, Found, History!Older
      <3>5. new[j] = walk.cursor \/ History!Newer(new[j], walk.cursor)
        <4>1. j - P = 1 \/ 1 < j - P
          BY <3>2, <1>2
        <4> QED
          BY <1>2, <3>2, <3>3, <4>1
      <3>6. walk.cursor \in History!Stored
        BY <1>2, <3>3
      <3> QED
        BY <1>11, <1>13, <3>4, <3>5, <3>6
    <2> QED
      BY <2>1, <2>2, <2>3
  <1>15. page.next # 0 => Len(new) # 0 /\ new[1] = page.next
    <2> SUFFICES ASSUME page.next # 0 PROVE Len(new) # 0 /\ new[1] = page.next
      OBVIOUS
    <2>1. P # 0 /\ page.items[1] = page.next
      BY <1>3
    <2>2. 1 \in 1..P + L /\ 1 <= P /\ P + L # 0
      BY <1>2, <1>5, <2>1
    <2> QED
      BY <1>6, <1>10, <2>1, <2>2
  <1>16. ASSUME NEW m \in walk.began
         PROVE  (\E i \in 1..P + L : new[i] = m)
                  \/ (page.next # 0 /\ History!Newer(page.next, m))
    <2>1. CASE Read(m)
      <3>1. PICK i \in 1..L : old[i] = m
        BY <2>1 DEF Read, L, old
      <3>2. \E j \in 1..P + L : ~(j <= P) /\ j - P = i
        <4>1. P + i \in 1..P + L /\ ~(P + i <= P) /\ P + i - P = i
          BY <1>2, <1>5
        <4> QED
          BY <1>2, <1>5, <4>1
      <3> QED
        BY <1>10, <3>1, <3>2
    <2>2. CASE History!Older(walk.cursor, m)
      <3>1. m \in found
        BY <1>2, <2>2 DEF found, Found
      <3>2. CASE \E i \in 1..P : page.items[i] = m
        <4>1. PICK i \in 1..P : page.items[i] = m
          BY <3>2
        <4>2. i \in 1..P + L /\ i <= P
          BY <1>2, <1>5
        <4> QED
          BY <1>10, <4>1, <4>2
      <3> QED
        BY <1>3, <3>1, <3>2
    <2> QED
      BY <1>2, <2>1, <2>2
  <1>17. WalkSound'
    <2>1. walk'.began \subseteq History!Stored'
      BY <1>2, <1>8, <1>9
    <2>2. \A i \in 1..Len(walk'.items) : walk'.items[i] \in History!Stored'
      BY <1>6, <1>8, <1>9, <1>11
    <2>3. \A i, j \in 1..Len(walk'.items) :
            i < j => History!Newer(walk.items[j], walk.items[i])'
      <3>1. \A i, j : History!Newer(walk.items[j], walk.items[i])' <=>
                        History!Newer(new[j], new[i])
        BY <1>1, <1>8 DEF History!Newer
      <3> QED
        BY <1>6, <1>8, <1>14, <3>1
    <2>4. /\ walk'.phase # "idle"
          /\ walk'.phase # "read" => walk'.cursor # 0
          /\ walk'.cursor # 0 =>
               walk'.phase # "read" /\ Len(walk'.items) # 0
                   /\ walk'.items[1] = walk'.cursor
      BY <1>8, <1>15
    <2>5. \A m \in walk'.began :
            Read(m)' \/ (walk'.phase # "read" /\ History!Older(walk.cursor, m)')
      <3> SUFFICES ASSUME NEW m \in walk.began
                   PROVE  Read(m)' \/ (walk'.phase # "read"
                                         /\ History!Older(walk.cursor, m)')
        BY <1>8
      <3>1. (\E i \in 1..P + L : new[i] = m) => Read(m)'
        BY <1>6, <1>8 DEF Read
      <3>2. page.next # 0 /\ History!Newer(page.next, m) =>
              walk'.phase # "read" /\ History!Older(walk.cursor, m)'
        BY <1>1, <1>8 DEF History!Older, History!Newer
      <3> QED
        BY <1>16, <3>1, <3>2
    <2> QED
      BY <2>1, <2>2, <2>3, <2>4, <2>5 DEF WalkSound
  <1> QED
    BY <1>1, <1>8, <1>17 DEF HistoryInv, HistoryTypeOK, DeletedKnown,
       EventsCurrent,
       ScreensCurrent, History!Format

LEMMA TickKeeps ==
  ASSUME HistoryInv, History!Tick
  PROVE  HistoryInv'
  <1>1. now' = now + 1 /\ UNCHANGED <<row, call, screen, walk, rewritten,
            astray>>
    BY DEF History!Tick
  <1>2. now' \in Nat /\ now' # 0
    BY <1>1 DEF HistoryInv, HistoryTypeOK
  <1>3. WalkSound'
    BY <1>1, WalkStays DEF History!Stored
  <1> QED
    BY <1>1, <1>2, <1>3 DEF HistoryInv, HistoryTypeOK, DeletedKnown,
       EventsCurrent,
       ScreensCurrent, History!Format

LEMMA HistoryNextKeeps ==
  HistoryAssumption /\ HistoryInv /\ [History!Next]_(History!vars) =>
      HistoryInv'
  <1> SUFFICES ASSUME HistoryAssumption, HistoryInv,
                      [History!Next]_(History!vars)
               PROVE  HistoryInv'
    OBVIOUS
  <1>1. CASE UNCHANGED History!vars
    <2>1. UNCHANGED <<row, now, call, screen, walk, rewritten, astray>>
      BY <1>1 DEF History!vars
    <2>2. WalkSound'
      BY <2>1, WalkStays DEF History!Stored
    <2> QED
      BY <2>1, <2>2 DEF HistoryInv, HistoryTypeOK, DeletedKnown, EventsCurrent,
         ScreensCurrent, History!Format
  <1>2. ASSUME NEW c \in Call, NEW m \in History!Message,
               \/ History!EditByRest(c, m) \/ History!DeleteByRest(c, m)
               \/ History!EditBySocket(c, m) \/ History!DeleteBySocket(c, m)
        PROVE  HistoryInv'
    BY <1>2, FindKeeps DEF History!EditByRest, History!DeleteByRest,
       History!EditBySocket, History!DeleteBySocket
  <1>3. ASSUME NEW c \in Call,
               History!Write(c) \/ History!Reject(c) \/ History!Tell(c)
        PROVE  HistoryInv'
    BY <1>3, WriteKeeps, RejectKeeps, TellKeeps
  <1>4. ASSUME NEW m \in History!Message, History!Stamp(m) \/ History!Commit(m)
        PROVE  HistoryInv'
    BY <1>4, SentKeeps
  <1> QED
    BY <1>1, <1>2, <1>3, <1>4, TickKeeps, StartWalkKeeps, ReadPageKeeps
       DEF History!Next

(* The inductive invariant of the history, for any number of messages,     *)
(* calls and any size of a page.                                           *)
THEOREM HistoryInvHolds == History!Spec => []HistoryInv
  <1>1. History!Init => HistoryInv
    BY HistoryAssumption, HistoryInitHolds
  <1>2. HistoryInv /\ [History!Next]_(History!vars) => HistoryInv'
    BY HistoryAssumption, HistoryNextKeeps
  <1> QED
    BY <1>1, <1>2, PTL DEF History!Spec

(* A walk back through the pages has seen every message it began with,     *)
(* each once and in order, though messages are edited, sent and deleted    *)
(* between its pages.                                                      *)
THEOREM WalkComplete == History!Spec => []WalkIsComplete
  <1>1. HistoryInv => WalkIsComplete
    BY DEF HistoryInv, WalkSound, Read, WalkIsComplete, History!WalkIsComplete
  <1> QED
    BY <1>1, HistoryInvHolds, PTL

(* The preview of a conversation is the last row of its first page. *)
LEMMA PreviewCurrent ==
  ASSUME HistoryAssumption, HistoryInv, Cardinality(History!LastIncluded) = 1,
         NEW m \in History!LastIncluded
  PROVE  LET page == History!FindMessages(0) IN m = page.items[Len(page.items)]
  <1> DEFINE page == History!FindMessages(0)
             last == page.items[Len(page.items)]
  <1>1. Found(0) = History!Stored
    BY DEF Found, History!Older
  <1>2. m \in History!Stored
    BY DEF History!LastIncluded
  <1>3. /\ page.items \in Seq(History!Stored)
        /\ Len(page.items) # 0
        /\ m = last \/ History!Newer(last, m)
    BY <1>1, <1>2, PageSound
  <1>4. last \in History!Stored
    <2>1. Len(page.items) \in 1..Len(page.items)
      BY <1>3
    <2> QED
      BY <1>3, <2>1, ElementOfSeq
  <1>5. ASSUME History!Newer(last, m) PROVE last = m
    <2>1. \A n \in History!Stored : row[n].at \in Nat /\ n \in Int
      BY DEF History!Stored, History!Message, HistoryInv, HistoryTypeOK,
         RowRecord
    <2>2. row[last].at >= row[m].at
      BY <1>2, <1>4, <1>5, <2>1 DEF History!Newer
    <2>3. last \in History!LastIncluded
      BY <1>2, <1>4, <2>1, <2>2 DEF History!LastIncluded
    <2>4. IsFiniteSet(History!LastIncluded)
      <3>1. IsFiniteSet(1..LastMessage)
        BY FS_Interval DEF HistoryAssumption
      <3>2. History!LastIncluded \in SUBSET (1..LastMessage)
        BY DEF History!LastIncluded, History!Stored, History!Message
      <3> QED
        BY <3>1, <3>2, FS_Subset
    <2>5. PICK x : History!LastIncluded = {x}
      BY <2>4, FS_Singleton
    <2> QED
      BY <2>3, <2>5
  <1> QED
    BY <1>3, <1>5

(* The screens show a message as it is stored once the events on it are    *)
(* told, unless it went astray: changed by REST, by a call that failed     *)
(* after its write, or by two whose events cross.  The preview is the last *)
(* message of the history's first page.                                    *)
THEOREM ViewsCurrent == History!Spec => []ViewsAreCurrent
  <1>1. ASSUME HistoryInv PROVE ViewsAreCurrent
    <2>1. \A m \in History!Stored \ astray :
            (\A c \in Call : call[c].phase = "tell" => call[c].message # m)
              => screen[m] = History!Format(row[m])
      BY <1>1 DEF HistoryInv, ScreensCurrent, History!Stored
    <2>2. \A m : History!Preview(m) = History!FindMessageById(m)
      BY DEF History!Preview, History!FindMessageById, History!Format,
         History!None
    <2>3. Cardinality(History!LastIncluded) = 1 =>
            LET page == History!FindMessages(0) IN
            \A m \in History!LastIncluded : m = page.items[Len(page.items)]
      BY <1>1, HistoryAssumption, PreviewCurrent
    <2> QED
      BY <2>1, <2>2, <2>3, HistoryCounts
         DEF ViewsAreCurrent, History!ViewsAreCurrent
  <1> QED
    BY <1>1, HistoryInvHolds, PTL

(* Only a call that has crossed the deletion writes a deleted row. *)
LEMMA DeletionKept ==
  ASSUME HistoryInv, [History!Next]_(History!vars), NEW m \in History!Message,
         row[m].deletedAt # History!None
  PROVE  row'[m] = row[m] \/ m \in rewritten'
  <1>1. row[m].stored = TRUE /\ row[m].at # 0 /\ row[m].deletedAt # "none"
    BY DEF HistoryInv, DeletedKnown, History!None
  <1>2. ASSUME NEW n \in History!Message, History!Stamp(n) \/ History!Commit(n)
        PROVE  row'[m] = row[m]
    <2>1. n # m /\ \E r : row' = [row EXCEPT ![n] = r]
      BY <1>1, <1>2 DEF History!Stamp, History!Commit
    <2> QED
      BY <2>1 DEF HistoryInv, HistoryTypeOK
  <1>3. ASSUME NEW c \in Call, History!Write(c)
        PROVE  row'[m] = row[m] \/ m \in rewritten'
    <2>1. /\ call[c].phase = "write"
          /\ \E r : row' = [row EXCEPT ![call[c].message] = r]
          /\ rewritten \subseteq rewritten'
      BY <1>3 DEF History!Write
    <2>2. CASE call[c].message = m
      BY <1>1, <2>1, <2>2 DEF HistoryInv, DeletedKnown
    <2>3. CASE call[c].message # m
      BY <2>1, <2>3 DEF HistoryInv, HistoryTypeOK
    <2> QED
      BY <2>2, <2>3
  <1>4. CASE row' = row
    BY <1>4
  <1> QED
    BY <1>2, <1>3, <1>4 DEF History!Next, History!vars, History!Tick,
       History!Find,
       History!EditByRest, History!DeleteByRest, History!EditBySocket,
       History!DeleteBySocket, History!Reject, History!Tell, History!StartWalk,
       History!ReadPage

(* A deleted message stays as it was deleted, unless a call that had read  *)
(* it before writes it.                                                    *)
THEOREM DeletionStood == History!Spec => DeletionStands
  <1>1. HistoryInv /\ [History!Next]_(History!vars) =>
          [\A m \in History!Message : row[m].deletedAt # History!None =>
              row'[m] = row[m] \/ m \in rewritten']_(History!vars)
    BY DeletionKept
  <1> QED
    BY <1>1, HistoryInvHolds, PTL
       DEF History!Spec, DeletionStands, History!DeletionStands

-----------------------------------------------------------------------------
(***************************************************************************)
(* List. What a reader has not seen of the untouched conversations lies    *)
(* behind the pages he has passed, because those of a later date than such *)
(* a conversation become only more; a page that ends among those of its    *)
(* own date shows it or not, and the conversation is torn.  Counts of pages*)
(* are right because a page's count and rows differ only where the reading *)
(* slipped.                                                                *)
(***************************************************************************)
ReaderRecord ==
    [phase : {"idle", "reading", "over"}, page : Nat \ {0},
        count : Nat \cup {-1},
     rows : BOOLEAN, saw : SUBSET Entry]
ListTypeOK ==
    /\ updatedAt \in [Entry -> Nat]
    /\ listed \in SUBSET Entry
    /\ reader \in ReaderRecord
    /\ untouched \subseteq Entry
    /\ torn \subseteq Entry
    /\ slipped \in BOOLEAN

(* How many conversations the pages that have been read must have shown.   *)
Passed == (IF reader.rows THEN reader.page ELSE reader.page - 1) * PageLimit

(* What the reader has not seen of the untouched conversations is not yet  *)
(* ahead of his place.                                                     *)
UnseenAhead ==
    /\ untouched \subseteq listed
    /\ reader.phase = "idle" => reader.page = 1 /\ reader.rows = FALSE
           /\ reader.count = -1
    /\ reader.phase = "reading" =>
        /\ reader.count = -1 \/ reader.rows = FALSE
        /\ ~slipped =>
            /\ reader.count # -1 => reader.count = Cardinality(listed)
            /\ \A c \in (untouched \ torn) \ reader.saw :
                   Cardinality(List!Later(c)) >= Passed
ListInv == ListTypeOK /\ UnseenAhead /\ List!UntouchedAreSeen

LEMMA ListCounts == \A S : List!Cardinality(S) = Cardinality(S)
  BY DEF List!Cardinality, Cardinality

LEMMA ListInitHolds == ListAssumption /\ List!Init => ListInv
  <1> SUFFICES ASSUME ListAssumption, List!Init PROVE ListInv
    OBVIOUS
  <1>1. ListTypeOK
    <2>1. updatedAt \in [Entry -> 1..LastUpdate] /\ LastUpdate \in Nat
      BY DEF List!Init, ListAssumption
    <2>2. updatedAt \in [Entry -> Nat]
      BY <2>1
    <2>3. reader \in ReaderRecord
      BY DEF List!Init, ReaderRecord, List!Unread
    <2> QED
      BY <2>2, <2>3 DEF List!Init, ListTypeOK
  <1>2. UnseenAhead /\ List!UntouchedAreSeen
    BY DEF List!Init, UnseenAhead, List!UntouchedAreSeen, List!Unread
  <1> QED
    BY <1>1, <1>2 DEF ListInv

LEMMA LaterFinite ==
  ASSUME ListAssumption, ListTypeOK, NEW c
  PROVE  /\ IsFiniteSet(listed) /\ Cardinality(listed) \in Nat
         /\ IsFiniteSet(List!Later(c)) /\ Cardinality(List!Later(c)) \in Nat
         /\ IsFiniteSet(List!NotEarlier(c))
         /\ Cardinality(List!NotEarlier(c)) \in Nat
  <1>1. IsFiniteSet(listed)
    BY FS_Subset DEF ListAssumption, ListTypeOK
  <1>2. List!Later(c) \in SUBSET listed /\ List!NotEarlier(c) \in SUBSET listed
    BY DEF List!Later, List!NotEarlier
  <1>3. IsFiniteSet(List!Later(c)) /\ IsFiniteSet(List!NotEarlier(c))
    BY <1>1, <1>2, FS_Subset
  <1> QED
    BY <1>1, <1>3, FS_CardinalityType

(* A conversation of the list is not later than itself. *)
LEMMA LaterIsLess ==
  ASSUME ListAssumption, ListTypeOK, NEW c \in listed
  PROVE  Cardinality(List!Later(c)) < Cardinality(listed)
  <1>1. IsFiniteSet(listed) /\ List!Later(c) \in SUBSET listed
    BY LaterFinite DEF List!Later
  <1>2. c \notin List!Later(c)
    BY DEF List!Later, ListTypeOK
  <1>3. List!Later(c) # listed
    BY <1>2
  <1>4. /\ Cardinality(List!Later(c)) <= Cardinality(listed)
        /\ Cardinality(List!Later(c)) # Cardinality(listed)
    BY <1>1, <1>3, FS_Subset
  <1> QED
    BY <1>4, LaterFinite

(* If c is among the first n rows, so is all that is later. *)
LEMMA SeenBefore ==
  ASSUME ListAssumption, ListTypeOK, NEW n \in Nat,
         NEW S \in List!Beginnings(n), NEW c \in S
  PROVE  Cardinality(List!Later(c)) < n
  <1>1. /\ S \in SUBSET listed
        /\ Cardinality(S) = IF n < Cardinality(listed) THEN n
                            ELSE Cardinality(listed)
        /\ \A a \in S, d \in listed \ S : updatedAt[a] >= updatedAt[d]
    BY ListCounts DEF List!Beginnings, List!Begins
  <1>2. IsFiniteSet(S) /\ Cardinality(S) \in Nat /\ Cardinality(S) <= n
    <2>1. IsFiniteSet(S)
      BY <1>1, LaterFinite, FS_Subset
    <2>2. Cardinality(listed) \in Nat
      BY LaterFinite
    <2> QED
      BY <1>1, <2>1, <2>2
  <1>3. List!Later(c) \in SUBSET S
    <2> SUFFICES ASSUME NEW d \in listed, updatedAt[d] > updatedAt[c],
                        d \notin S
                 PROVE  FALSE
      BY DEF List!Later
    <2>1. updatedAt[c] >= updatedAt[d]
      BY <1>1
    <2>2. updatedAt[c] \in Nat /\ updatedAt[d] \in Nat
      BY <1>1 DEF ListTypeOK
    <2> QED
      BY <2>1, <2>2
  <1>4. List!Later(c) # S
    BY <1>1 DEF List!Later, ListTypeOK
  <1>5. /\ Cardinality(List!Later(c)) <= Cardinality(S)
        /\ Cardinality(List!Later(c)) # Cardinality(S)
    BY <1>2, <1>3, <1>4, FS_Subset
  <1>6. Cardinality(List!Later(c)) \in Nat
    BY LaterFinite
  <1> QED
    BY <1>2, <1>5, <1>6

(* If c is not among them, they are of no earlier date. *)
LEMMA UnseenAfter ==
  ASSUME ListAssumption, ListTypeOK, NEW n \in Nat,
         NEW S \in List!Beginnings(n), NEW c \in listed \ S
  PROVE  n < Cardinality(List!NotEarlier(c))
  <1>1. /\ S \in SUBSET listed
        /\ Cardinality(S) = IF n < Cardinality(listed) THEN n
                            ELSE Cardinality(listed)
        /\ \A a \in S, d \in listed \ S : updatedAt[a] >= updatedAt[d]
    BY ListCounts DEF List!Beginnings, List!Begins
  <1>2. IsFiniteSet(listed) /\ Cardinality(listed) \in Nat
    BY LaterFinite
  <1>3. Cardinality(S) < Cardinality(listed) /\ Cardinality(S) \in Nat
    <2>1. S # listed
      OBVIOUS
    <2>2. IsFiniteSet(S)
      BY <1>1, <1>2, FS_Subset
    <2> QED
      BY <1>1, <1>2, <2>1, <2>2, FS_Subset, FS_CardinalityType
  <1>4. Cardinality(S) = n
    BY <1>1, <1>2, <1>3
  <1>5. S \in SUBSET List!NotEarlier(c) /\ S # List!NotEarlier(c)
    BY <1>1 DEF List!NotEarlier, ListTypeOK
  <1>6. /\ Cardinality(S) <= Cardinality(List!NotEarlier(c))
        /\ Cardinality(S) # Cardinality(List!NotEarlier(c))
    BY <1>5, LaterFinite, FS_Subset
  <1> QED
    BY <1>4, <1>6, LaterFinite

(* What a page does not show of the rows from its offset on is behind it,  *)
(* but for those that its end parts from others of their date.             *)
LEMMA OnPage ==
  ASSUME ListAssumption, ListTypeOK, NEW c \in listed, NEW page \in Nat \ {0},
         NEW before \in List!Beginnings((page - 1) * PageLimit),
         NEW upTo \in List!Beginnings(page * PageLimit),
         (page - 1) * PageLimit <= Cardinality(List!Later(c)),
         c \notin upTo \ before, c \notin List!Parted(page * PageLimit)
  PROVE  page * PageLimit <= Cardinality(List!Later(c))
  <1>1. (page - 1) * PageLimit \in Nat /\ page * PageLimit \in Nat
    BY DEF ListAssumption
  <1>2. Cardinality(List!Later(c)) \in Nat
    BY LaterFinite
  <1>3. c \notin before
    <2> SUFFICES ASSUME c \in before PROVE FALSE
      OBVIOUS
    <2>1. Cardinality(List!Later(c)) < (page - 1) * PageLimit
      BY <1>1, SeenBefore
    <2> QED
      BY <1>1, <1>2, <2>1
  <1>4. page * PageLimit < Cardinality(List!NotEarlier(c))
    BY <1>1, <1>3, UnseenAfter
  <1>5. ~(Cardinality(List!Later(c)) < page * PageLimit)
    BY <1>4, ListCounts DEF List!Parted
  <1> QED
    BY <1>1, <1>2, <1>5

(* A step of the others: the reader waits, nothing passes over an entry he *)
(* has not seen.                                                           *)
LEMMA OthersKeepList ==
  ASSUME ListAssumption, ListInv, ListTypeOK', reader' = reader,
         torn' = torn,
         untouched' \subseteq untouched, untouched' \subseteq listed',
         slipped => slipped',
         reader.phase = "reading" /\ ~slipped' =>
            /\ reader.count = -1 \/ listed' = listed
            /\ \A c \in untouched' : List!Later(c) \subseteq List!Later(c)'
  PROVE  ListInv'
  <1>1. ASSUME reader.phase = "reading", ~slipped'
        PROVE  /\ reader'.count # -1 => reader'.count = Cardinality(listed')
               /\ \A c \in (untouched' \ torn') \ reader'.saw :
                     Cardinality(List!Later(c)') >= Passed'
    <2>1. reader.count # -1 => reader.count = Cardinality(listed)
      BY <1>1 DEF ListInv, UnseenAhead
    <2>2. Passed' = Passed
      BY DEF Passed
    <2>3. ASSUME NEW c \in (untouched' \ torn) \ reader.saw
          PROVE  Cardinality(List!Later(c)') >= Passed
      <3>1. c \in (untouched \ torn) \ reader.saw
        OBVIOUS
      <3>2. Cardinality(List!Later(c)) >= Passed
        BY <1>1, <3>1 DEF ListInv, UnseenAhead
      <3>3. IsFiniteSet(List!Later(c)') /\ Cardinality(List!Later(c)') \in Nat
        <4>1. IsFiniteSet(listed')
          BY FS_Subset DEF ListAssumption, ListTypeOK
        <4>2. List!Later(c)' \in SUBSET listed'
          BY DEF List!Later
        <4>3. IsFiniteSet(List!Later(c)')
          BY <4>1, <4>2, FS_Subset
        <4> QED
          BY <4>3, FS_CardinalityType
      <3>4. List!Later(c) \in SUBSET List!Later(c)'
        BY <1>1, <2>3
      <3>5. Cardinality(List!Later(c)) <= Cardinality(List!Later(c)')
        BY <3>3, <3>4, FS_Subset
      <3>6. Cardinality(List!Later(c)) \in Nat
        BY LaterFinite DEF ListInv
      <3>7. Passed \in Int
        <4>1. reader.page \in Nat /\ PageLimit \in Nat
          BY DEF ListInv, ListTypeOK, ReaderRecord, ListAssumption
        <4> QED
          BY <4>1 DEF Passed
      <3> QED
        BY <3>2, <3>3, <3>5, <3>6, <3>7
    <2> QED
      BY <1>1, <2>1, <2>2, <2>3
  <1>2. UnseenAhead'
    BY <1>1 DEF ListInv, UnseenAhead
  <1>3. List!UntouchedAreSeen'
    BY DEF ListInv, List!UntouchedAreSeen
  <1> QED
    BY <1>2, <1>3 DEF ListInv

LEMMA TouchKeeps ==
  ASSUME ListAssumption, ListInv, NEW c \in Entry, NEW t \in 1..LastUpdate,
         List!Touch(c, t)
  PROVE  ListInv'
  <1>1. /\ updatedAt' = [updatedAt EXCEPT ![c] = t]
        /\ untouched' = untouched \ {c}
        /\ slipped' = (slipped \/ (reader.phase = "reading" /\ c \in listed
                                     /\ t < updatedAt[c]))
        /\ UNCHANGED <<listed, reader, torn>>
    BY DEF List!Touch, List!Reading
  <1>2. t \in Nat /\ updatedAt \in [Entry -> Nat]
    BY DEF ListInv, ListTypeOK, ListAssumption
  <1>3. ListTypeOK'
    BY <1>1, <1>2 DEF ListInv, ListTypeOK
  <1>4. updatedAt'[c] = t /\ \A d \in Entry : d # c =>
            updatedAt'[d] = updatedAt[d]
    BY <1>1, <1>2
  <1>5. untouched' \subseteq listed'
    BY <1>1 DEF ListInv, UnseenAhead
  <1>6. ASSUME reader.phase = "reading", ~slipped', NEW d \in untouched'
        PROVE  List!Later(d) \subseteq List!Later(d)'
    <2>1. d \in Entry /\ d # c
      BY <1>1 DEF ListInv, ListTypeOK
    <2>2. c \in listed => ~(t < updatedAt[c])
      BY <1>1, <1>6
    <2>3. listed \subseteq Entry
      BY DEF ListInv, ListTypeOK
    <2> QED
      BY <1>1, <1>2, <1>4, <2>1, <2>2, <2>3 DEF List!Later
  <1> QED
    BY <1>1, <1>3, <1>5, <1>6, OthersKeepList

LEMMA JoinOrLeaveKeeps ==
  ASSUME ListAssumption, ListInv, NEW c \in Entry, List!Join(c) \/ List!Leave(c)
  PROVE  ListInv'
  <1>1. /\ UNCHANGED <<updatedAt, reader, torn>>
        /\ listed' \in SUBSET Entry
        /\ untouched' \subseteq untouched
        /\ slipped' \in BOOLEAN
        /\ slipped => slipped'
    BY DEF List!Join, List!Leave, List!Uncounted, List!Reading, ListInv,
       ListTypeOK
  <1>2. ListTypeOK'
    BY <1>1 DEF ListInv, ListTypeOK
  <1>3. untouched' \subseteq listed'
    BY DEF List!Join, List!Leave, ListInv, UnseenAhead
  <1>4. reader.phase = "reading" /\ ~slipped' =>
            /\ reader.count = -1 \/ listed' = listed
            /\ \A d \in untouched' : List!Later(d) \subseteq List!Later(d)'
    BY <1>1 DEF List!Join, List!Leave, List!Uncounted, List!Reading,
       List!Unread, List!Later
  <1> QED
    BY <1>1, <1>2, <1>3, <1>4, OthersKeepList

LEMMA StartKeepsList ==
  ASSUME ListAssumption, ListInv, List!Start
  PROVE  ListInv'
  <1>1. /\ reader.phase = "idle"
        /\ reader' = [reader EXCEPT !.phase = "reading"]
        /\ untouched' = listed
        /\ UNCHANGED <<updatedAt, listed, torn, slipped>>
    BY DEF List!Start
  <1>2. /\ reader \in ReaderRecord
        /\ reader.page = 1 /\ reader.rows = FALSE /\ reader.count = -1
    BY <1>1 DEF ListInv, ListTypeOK, UnseenAhead
  <1>3. /\ reader' \in ReaderRecord
        /\ reader'.phase = "reading"
        /\ reader'.page = 1 /\ reader'.rows = FALSE /\ reader'.count = -1
    BY <1>1, <1>2 DEF ReaderRecord
  <1>4. ListTypeOK'
    BY <1>1, <1>3 DEF ListInv, ListTypeOK
  <1>5. Passed' = 0
    BY <1>3 DEF Passed, ListAssumption
  <1>6. \A c : /\ List!Later(c)' = List!Later(c)
               /\ Cardinality(List!Later(c)) \in Nat
    BY <1>1, LaterFinite DEF List!Later, ListInv
  <1>7. \A c : Cardinality(List!Later(c)') >= 0
    BY <1>6
  <1>8. UnseenAhead'
    BY <1>1, <1>3, <1>5, <1>7 DEF UnseenAhead
  <1>9. List!UntouchedAreSeen'
    BY <1>3 DEF List!UntouchedAreSeen
  <1> QED
    BY <1>4, <1>8, <1>9 DEF ListInv

(* Whole pages below a number. *)
LEMMA Quotient ==
  ASSUME NEW a \in Nat, NEW k \in Nat, NEW n \in Nat \ {0}, k * n <= a
  PROVE  k <= a \div n
  <1> DEFINE q == a \div n
             r == a % n
  <1>1. q \in Nat /\ r \in Nat /\ a = n * q + r /\ r < n
    OBVIOUS
  <1> HIDE DEF q, r
  <1>2. CASE q + 1 <= k
    <2>1. PICK d \in Nat : k = q + 1 + d
      <3>1. k - (q + 1) \in Nat /\ k = q + 1 + (k - (q + 1))
        BY <1>1, <1>2
      <3> QED
        BY <3>1
    <2>2. k * n = n * q + n + d * n
      BY <1>1, <2>1
    <2>3. n * q \in Nat /\ d * n \in Nat
      BY <1>1
    <2> QED
      BY <1>1, <2>2, <2>3
  <1>3. CASE ~(q + 1 <= k)
    BY <1>1, <1>3 DEF q
  <1> QED
    BY <1>2, <1>3

(* A list with rows behind the page has a next page. *)
LEMMA MorePages ==
  ASSUME ListAssumption, NEW page \in Nat \ {0}, NEW count \in Nat,
         page * PageLimit < count
  PROVE  List!HasNextPage(page, count)
  <1> DEFINE passed == page * PageLimit
  <1>1. PageLimit \in Nat \ {0} /\ passed \in Nat
            /\ (page + 1) * PageLimit = passed + PageLimit
    BY DEF ListAssumption
  <1> HIDE DEF passed
  <1>2. passed < count
    BY DEF passed
  <1>3. (page + 1) * PageLimit <= count + PageLimit - 1
    BY <1>1, <1>2
  <1>4. count + PageLimit - 1 \in Nat /\ page + 1 \in Nat
    BY <1>1
  <1>5. page + 1 <= (count + PageLimit - 1) \div PageLimit
    BY <1>1, <1>3, <1>4, Quotient
  <1>6. count # 0
    BY <1>1, <1>2
  <1>7. (count + PageLimit - 1) \div PageLimit \in Int
    BY <1>1, <1>4
  <1> QED
    BY <1>5, <1>6, <1>7 DEF List!HasNextPage, List!TotalPages

(* An answer to a query, with which the page may be complete. *)
LEMMA AnswerKeeps ==
  ASSUME ListAssumption, ListInv, NEW r \in ReaderRecord,
         r.phase = "reading", List!Answer(r),
         UNCHANGED <<updatedAt, listed, untouched, slipped>>,
         torn \subseteq torn', torn' \subseteq Entry,
         r.count = -1 \/ r.count = Cardinality(listed) \/ slipped,
         r.page = reader.page,
         ~slipped => \A c \in (untouched \ torn') \ r.saw :
                        Cardinality(List!Later(c)) >=
                          (IF r.rows THEN r.page ELSE r.page - 1) * PageLimit
  PROVE  ListInv'
  <1>0. \A c : List!Later(c)' = List!Later(c)
    BY DEF List!Later
  <1>1. untouched \subseteq listed
    BY DEF ListInv, UnseenAhead
  <1>2. CASE r.count = -1 \/ ~r.rows
    <2>1. reader' = r
      BY <1>2 DEF List!Answer, List!Unread
    <2>2. ListTypeOK'
      BY <2>1 DEF ListInv, ListTypeOK
    <2>3. UnseenAhead'
      BY <1>0, <1>1, <1>2, <2>1 DEF UnseenAhead, Passed, ReaderRecord
    <2>4. List!UntouchedAreSeen'
      BY <2>1 DEF List!UntouchedAreSeen
    <2> QED
      BY <2>2, <2>3, <2>4 DEF ListInv
  <1>3. CASE r.count # -1 /\ r.rows
    <2> DEFINE next == IF List!HasNextPage(r.page, r.count) THEN "reading"
            ELSE "over"
    <2>1. reader' = [r EXCEPT !.page = r.page + 1, !.count = -1, !.rows = FALSE,
                              !.phase = next]
      BY <1>3 DEF List!Answer, List!Unread
    <2> HIDE DEF next
    <2>2. /\ reader' \in ReaderRecord
          /\ reader'.phase = next /\ reader'.page = r.page + 1
                 /\ reader'.count = -1
          /\ reader'.rows = FALSE /\ reader'.saw = r.saw
      <3>1. next \in {"reading", "over"}
        BY DEF next
      <3>2. r.page + 1 \in Nat \ {0} /\ r.saw \in SUBSET Entry
        BY DEF ReaderRecord
      <3>3. reader' = [phase |-> next, page |-> r.page + 1, count |-> -1,
                       rows |-> FALSE, saw |-> r.saw]
        BY <2>1 DEF ReaderRecord
      <3> QED
        BY <3>1, <3>2, <3>3 DEF ReaderRecord
    <2>3. ListTypeOK'
      BY <2>2 DEF ListInv, ListTypeOK
    <2>4. r.page \in Nat \ {0} /\ r.count \in Nat /\ PageLimit \in Nat
      BY <1>3 DEF ReaderRecord, ListAssumption
    <2>5. Passed' = r.page * PageLimit
      BY <2>2, <2>4 DEF Passed
    <2>6. ~slipped => \A c \in (untouched \ torn') \ r.saw :
                         Cardinality(List!Later(c)) >= r.page * PageLimit
      BY <1>3
    <2>7. UnseenAhead'
      BY <1>0, <1>1, <2>2, <2>5, <2>6 DEF UnseenAhead, next
    <2>8. List!UntouchedAreSeen'
      <3> SUFFICES ASSUME ~slipped, next = "over", NEW c \in untouched,
                          c \notin torn', c \notin r.saw
                   PROVE  FALSE
        BY <2>2 DEF List!UntouchedAreSeen
      <3>1. Cardinality(List!Later(c)) < r.count
        BY <1>1, <1>3, LaterIsLess DEF ListInv
      <3>2. Cardinality(List!Later(c)) \in Nat
        BY LaterFinite DEF ListInv
      <3>3. r.page * PageLimit <= Cardinality(List!Later(c))
                /\ r.page * PageLimit \in Int
        BY <2>4, <2>6
      <3>4. r.page * PageLimit < r.count
        BY <2>4, <3>1, <3>2, <3>3
      <3>5. List!HasNextPage(r.page, r.count)
        BY <2>4, <3>4, MorePages
      <3>6. next = "reading"
        BY <3>5 DEF next
      <3> QED
        BY <3>6
    <2> QED
      BY <2>3, <2>7, <2>8 DEF ListInv
  <1> QED
    BY <1>2, <1>3

LEMMA CountKeeps ==
  ASSUME ListAssumption, ListInv, List!Count
  PROVE  ListInv'
  <1> DEFINE r == [reader EXCEPT !.count = Cardinality(listed)]
  <1>1. /\ reader.phase = "reading" /\ reader.count = -1
        /\ List!Answer(r)
        /\ UNCHANGED <<updatedAt, listed, untouched, torn, slipped>>
    BY ListCounts DEF List!Count, List!Reading, List!Unread
  <1>2. reader \in ReaderRecord
    BY DEF ListInv, ListTypeOK
  <1>3. Cardinality(listed) \in Nat
    BY LaterFinite DEF ListInv
  <1>4. /\ r \in ReaderRecord /\ r.phase = "reading"
        /\ r.count = Cardinality(listed) /\ r.page = reader.page
        /\ r.rows = reader.rows /\ r.saw = reader.saw
    BY <1>1, <1>2, <1>3 DEF ReaderRecord
  <1>5. ~slipped => \A c \in (untouched \ torn) \ reader.saw :
           Cardinality(List!Later(c)) >=
             (IF reader.rows THEN reader.page ELSE reader.page - 1) * PageLimit
    BY <1>1 DEF ListInv, UnseenAhead, Passed
  <1>6. torn \subseteq torn' /\ torn' \subseteq Entry
    BY <1>1 DEF ListInv, ListTypeOK
  <1> HIDE DEF r
  <1> QED
    BY <1>1, <1>4, <1>5, <1>6, AnswerKeeps

LEMMA FindManyKeeps ==
  ASSUME ListAssumption, ListInv, List!FindMany
  PROVE  ListInv'
  <1> DEFINE end == reader.page * PageLimit
  <1>1. PICK before \in List!Beginnings((reader.page - 1) * PageLimit),
             upTo \in List!Beginnings(end) :
          List!Answer([reader EXCEPT !.rows = TRUE,
                                     !.saw = @ \cup (upTo \ before)])
    BY DEF List!FindMany
  <1> DEFINE r == [reader EXCEPT !.rows = TRUE,
                                 !.saw = reader.saw \cup (upTo \ before)]
  <1>2. /\ reader.phase = "reading" /\ ~reader.rows
        /\ List!Answer(r)
        /\ torn' = torn \cup List!Parted(end)
        /\ UNCHANGED <<updatedAt, listed, untouched, slipped>>
    BY <1>1 DEF List!FindMany, List!Reading
  <1>3. /\ reader \in ReaderRecord /\ listed \subseteq Entry
        /\ reader.page \in Nat \ {0} /\ reader.saw \subseteq Entry
        /\ upTo \subseteq listed /\ List!Parted(end) \subseteq listed
    BY DEF ListInv, ListTypeOK, ReaderRecord, List!Beginnings, List!Parted
  <1>4. /\ r \in ReaderRecord /\ r.phase = "reading" /\ r.rows = TRUE
        /\ r.count = reader.count /\ r.page = reader.page
        /\ r.saw = reader.saw \cup (upTo \ before)
    BY <1>2, <1>3 DEF ReaderRecord
  <1>5. ASSUME ~slipped, NEW c \in (untouched \ torn') \ r.saw
        PROVE  Cardinality(List!Later(c)) >= r.page * PageLimit
    <2>1. /\ c \in listed /\ c \in (untouched \ torn) \ reader.saw
          /\ c \notin upTo \ before /\ c \notin List!Parted(end)
      BY <1>2, <1>4, <1>5 DEF ListInv, UnseenAhead
    <2>2. Cardinality(List!Later(c)) >= (reader.page - 1) * PageLimit
      BY <1>2, <1>5, <2>1 DEF ListInv, UnseenAhead, Passed
    <2>3. /\ Cardinality(List!Later(c)) \in Nat
          /\ (reader.page - 1) * PageLimit \in Int
          /\ reader.page * PageLimit \in Int
      BY <1>3, LaterFinite DEF ListInv, ListAssumption
    <2>4. (reader.page - 1) * PageLimit <= Cardinality(List!Later(c))
      BY <2>2, <2>3
    <2>5. reader.page * PageLimit <= Cardinality(List!Later(c))
      BY <1>3, <2>1, <2>4, OnPage DEF ListInv
    <2> QED
      BY <1>4, <2>3, <2>5
  <1>6. r.count = -1 \/ r.count = Cardinality(listed) \/ slipped
    BY <1>2, <1>4 DEF ListInv, UnseenAhead
  <1>7. torn \subseteq torn' /\ torn' \subseteq Entry
    BY <1>2, <1>3 DEF ListInv, ListTypeOK
  <1> HIDE DEF r
  <1> QED
    BY <1>2, <1>4, <1>5, <1>6, <1>7, AnswerKeeps

LEMMA ListNextKeeps == ListAssumption /\ ListInv /\ [List!Next]_(List!vars) =>
    ListInv'
  <1> SUFFICES ASSUME ListAssumption, ListInv, [List!Next]_(List!vars)
                      PROVE ListInv'
    OBVIOUS
  <1>1. CASE UNCHANGED List!vars
    BY <1>1 DEF List!vars, ListInv, ListTypeOK, UnseenAhead,
                List!UntouchedAreSeen, List!Later, Passed
  <1>2. CASE List!Next
    BY <1>2, TouchKeeps, JoinOrLeaveKeeps, StartKeepsList,
       CountKeeps, FindManyKeeps DEF List!Next
  <1> QED
    BY <1>1, <1>2

(* A reader who reads to the last page has seen every conversation that    *)
(* was listed all along and not touched, unless one left the list or went  *)
(* back in it behind his pages, one came between a page's count and its    *)
(* rows, or a page ended among conversations of its date.                  *)
THEOREM UntouchedSeen == List!Spec => []UntouchedAreSeen
  <1>1. List!Init => ListInv
    BY ListAssumption, ListInitHolds
  <1>2. ListInv /\ [List!Next]_(List!vars) => ListInv'
    BY ListAssumption, ListNextKeeps
  <1>3. ListInv => UntouchedAreSeen
    BY DEF ListInv, UntouchedAreSeen
  <1> QED
    BY <1>1, <1>2, <1>3, PTL DEF List!Spec
=============================================================================
