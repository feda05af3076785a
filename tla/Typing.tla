-------------------------------- MODULE Typing --------------------------------
(***************************************************************************)
(* Typing indicators: InMemoryTypingStore, TypingService and the typing    *)
(* handlers of RealtimeGateway, in one project.                            *)
(*                                                                         *)
(* A handler first awaits conversationService.findById; everything after   *)
(* the answer - the store, its timer, the broadcast - runs before the      *)
(* event loop takes the next event, and is one step.  A socket may         *)
(* disconnect while its handlers wait.                                     *)
(***************************************************************************)
EXTENDS Integers, Connections

CONSTANTS
    Conversation,
    NoSocket,
    Handler         \* bound: the typing:start and typing:stop events

Key == Conversation \X User

ASSUME TypingAssumption ==
    /\ UserOf \in [Socket -> User]
    /\ NoSocket \notin Socket

VARIABLES
    typing,         \* conversationTyping: the socket of an entry, or NoSocket
    tracked,        \* socketTyping: per socket, the keys of entries it started
    armed,          \* per key, the timers that may still fire
    started,        \* per key, typing:started since the last typing:stopped
    handler         \* the events: what they ask and where they stand

typingVars == <<link, typing, tracked, armed, started, handler>>

IsTyping(k) == typing[k] # NoSocket

(* The user's key in the conversation that an event is about. *)
KeyOf(h) == <<handler[h].conversation, UserOf[handler[h].socket]>>

Settle(h) == handler' = [handler EXCEPT ![h].phase = "done"]

(* What stopTyping and an expiring timer do to an entry that exists: the   *)
(* socket that refreshed it last forgets it.                               *)
Delete(k) ==
    /\ typing' = [typing EXCEPT ![k] = NoSocket]
    /\ tracked' = [s \in Socket |->
                      IF s = typing[k] THEN tracked[s] \ {k} ELSE tracked[s]]

TellStopped(K) ==
    started' = [k \in Key |-> IF k \in K THEN 0 ELSE started[k]]

-----------------------------------------------------------------------------
TypingInit ==
    /\ link = [s \in Socket |-> "new"]
    /\ typing = [k \in Key |-> NoSocket]
    /\ tracked = [s \in Socket |-> {}]
    /\ armed = [k \in Key |-> 0]
    /\ started = [k \in Key |-> 0]
    /\ handler = [h \in Handler |-> [phase |-> "idle", kind |-> "none",
                     socket |-> NoSocket, conversation |-> "none"]]

Open(s) ==
    /\ link[s] = "new"
    /\ link' = [link EXCEPT ![s] = "connected"]
    /\ UNCHANGED <<typing, tracked, armed, started, handler>>

(* typing:start or typing:stop arrives, and membership is looked up. *)
Receive(h, kind, s, c) ==
    /\ handler[h].phase = "idle"
    /\ link[s] = "connected"
    /\ handler' = [handler EXCEPT ![h] = [phase |-> "waiting", kind |-> kind,
                                          socket |-> s, conversation |-> c]]
    /\ UNCHANGED <<link, typing, tracked, armed, started>>

(* No such conversation, not a member, or the database failed. *)
Refuse(h) ==
    /\ handler[h].phase = "waiting"
    /\ Settle(h)
    /\ UNCHANGED <<link, typing, tracked, armed, started>>

(* startTyping of a key that has an entry: the timer is replaced, and the  *)
(* entry is now this socket's, which does not track it.                    *)
Refresh(h) ==
    LET k == KeyOf(h) IN
    /\ IsTyping(k)
    /\ typing' = [typing EXCEPT ![k] = handler[h].socket]
    /\ UNCHANGED <<tracked, armed>>

BeginUntimed(h) ==                                              \* mutant
    LET k == KeyOf(h) IN
    /\ ~IsTyping(k)
    /\ typing' = [typing EXCEPT ![k] = handler[h].socket]
    /\ armed' = [armed EXCEPT ![k] =
            IF link[handler[h].socket] = "connected" THEN @ + 1 ELSE @]
    /\ tracked' = [tracked EXCEPT ![handler[h].socket] = @ \cup {k}]

Begin(h) ==
    LET k == KeyOf(h)
        s == handler[h].socket IN
    /\ ~IsTyping(k)
    /\ typing' = [typing EXCEPT ![k] = s]
    /\ armed' = [armed EXCEPT ![k] = @ + 1]
    /\ tracked' = [tracked EXCEPT ![s] = @ \cup {k}]

(* The rest of typing:start.  The gateway broadcasts for a new entry and,  *)
(* since the user is typing after it, for a refreshed one.                 *)
Start(h) ==
    /\ handler[h].phase = "waiting"
    /\ handler[h].kind = "start"
    /\ Begin(h) \/ Refresh(h)
    /\ started' = [started EXCEPT ![KeyOf(h)] = @ + 1]
    /\ Settle(h)
    /\ UNCHANGED link

(* The rest of typing:stop, silent for a user who is not typing. *)
Stop(h) ==
    LET k == KeyOf(h) IN
    /\ handler[h].phase = "waiting"
    /\ handler[h].kind = "stop"
    /\ IF IsTyping(k)
       THEN /\ Delete(k)
            /\ armed' = [armed EXCEPT ![k] = @ - 1]
            /\ TellStopped({k})
       ELSE UNCHANGED <<typing, tracked, armed, started>>
    /\ Settle(h)
    /\ UNCHANGED link

ExpireAnyway(k) ==                                              \* mutant
    /\ armed[k] > 0
    /\ armed' = [armed EXCEPT ![k] = @ - 1]
    /\ TellStopped({k})
    /\ UNCHANGED <<link, typing, tracked, handler>>

(* The timer of an entry fires. *)
Expire(k) ==
    /\ armed[k] > 0
    /\ armed' = [armed EXCEPT ![k] = @ - 1]
    /\ IF IsTyping(k) THEN Delete(k) ELSE UNCHANGED <<typing, tracked>>
    /\ TellStopped({k})
    /\ UNCHANGED <<link, handler>>

EndedByAny(s) == {k \in tracked[s] : IsTyping(k)}                \* mutant

(* cleanupSocket: the entries the socket started and still holds. *)
EndedBy(s) == {k \in tracked[s] : typing[k] = s}

CleanupSocket(s) ==
    /\ link[s] = "connected"
    /\ link' = [link EXCEPT ![s] = "gone"]
    /\ typing' = [k \in Key |-> IF k \in EndedBy(s) THEN NoSocket ELSE typing[k]]
    /\ armed' = [k \in Key |-> IF k \in EndedBy(s) THEN armed[k] - 1 ELSE armed[k]]
    /\ tracked' = [tracked EXCEPT ![s] = {}]
    /\ TellStopped(EndedBy(s))
    /\ UNCHANGED handler

-----------------------------------------------------------------------------
Handle(h) == Start(h) \/ Stop(h) \/ Refuse(h)

TypingNext ==
    \/ \E s \in Socket : Open(s) \/ CleanupSocket(s)
    \/ \E h \in Handler : Handle(h)
    \/ \E h \in Handler, kind \in {"start", "stop"}, s \in Socket,
          c \in Conversation : Receive(h, kind, s, c)
    \/ \E k \in Key : Expire(k)

TypingSpec == TypingInit /\ [][TypingNext]_typingVars

(* setTimeout fires. *)
FairTypingSpec == TypingSpec /\ \A k \in Key : WF_typingVars(Expire(k))

-----------------------------------------------------------------------------
HandlerRecord ==
    [phase : {"idle", "waiting", "done"}, kind : {"none", "start", "stop"},
     socket : Socket \cup {NoSocket}, conversation : Conversation \cup {"none"}]

TypingTypeOK ==
    /\ link \in [Socket -> {"new", "connected", "gone"}]
    /\ typing \in [Key -> Socket \cup {NoSocket}]
    /\ tracked \in [Socket -> SUBSET Key]
    /\ armed \in [Key -> Nat]
    /\ started \in [Key -> Nat]
    /\ handler \in [Handler -> HandlerRecord]

(* Every entry has exactly one timer and every timer an entry: a timer     *)
(* that a refresh, stop or disconnect failed to clear would cut the next   *)
(* entry short, and an entry without one would stay for ever.              *)
OneTimerEach ==
    \A k \in Key : armed[k] = IF IsTyping(k) THEN 1 ELSE 0

(* The others see a user typing exactly while the store has his entry,     *)
(* also when he typed in two tabs or the socket went away first.           *)
ShownIsTyping ==
    \A k \in Key : started[k] # 0 <=> IsTyping(k)

(* A user stops typing by a stop of his own, by the timer, or because the  *)
(* socket that typed last is gone: a closing tab does not end what another *)
(* tab types.                                                              *)
EndsForCause ==
    [][\A k \in Key : IsTyping(k) /\ ~IsTyping(k)' =>
          \/ Expire(k)
          \/ \E h \in Handler : Stop(h) /\ KeyOf(h) = k
          \/ link[typing[k]] # "gone" /\ link'[typing[k]] = "gone"]_typingVars

(* No indicator stays: a user shown as typing is later shown as not, even  *)
(* if his socket disconnected before its typing:start was worked on.       *)
IndicatorEnds ==
    \A k \in Key : started[k] # 0 ~> started[k] = 0
=============================================================================
