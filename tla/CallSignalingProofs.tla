------------------------ MODULE CallSignalingProofs ------------------------
(***************************************************************************)
(* Proofs about CallSignaling, for any set of users, conversations and     *)
(* calls.  Inv is inductive whatever the CallStore does; Serial adds what  *)
(* holds when a store promise settles before any other event is served,    *)
(* as it does with InMemoryCallStore.                                      *)
(***************************************************************************)
EXTENDS CallSignaling, TLAPS

(* Until startCall has settled, nothing else knows its id. *)
Fresh ==
    \A id \in CallId : starting[id] # "settled" =>
        /\ status[id] = "IDLE"
        /\ id \notin timers
        /\ \A p \in pending : p.id # id
        /\ missed[id] = "none"

(* The timer of a call fires at most once, while the call rings. *)
TimeoutOnce ==
    \A p \in pending : p.kind = "timeout" =>
        /\ p.id \notin timers
        /\ p.user = NoUser
        /\ p.seen = "RINGING"
        /\ missed[p.id] = "none"

ArmedNotMissed == \A id \in timers : missed[id] = "none"

(* How often the missed-call message was emitted, by the listener's step. *)
MessageCount ==
    \A id \in CallId :
        messages[id] = CASE missed[id] = "saved" -> 1
                         [] missed[id] = "done"  -> 2
                         [] OTHER                -> 0

Inv ==
    /\ TypeOK
    /\ Fresh
    /\ TimersAreForRinging
    /\ TimeoutOnce
    /\ ArmedNotMissed
    /\ MessageCount
    /\ RingingIsTimed

(* With a store that does not yield, one handler is under way at a time, so*)
(* what it has read still holds when it acts on it.                        *)
OneAtATime ==
    /\ \A p, q \in pending : p = q
    /\ \A id \in CallId : starting[id] = "receiverFree" =>
            /\ pending = {}
            /\ \A id2 \in CallId : starting[id2] = "receiverFree" => id2 = id

ReadsAreCurrent ==
    /\ \A p \in pending : p.seen = status[p.id]
    /\ \A id \in CallId : starting[id] = "receiverFree" => ~Busy(receiver[id])

AcceptedToldOnce ==
    \A id \in CallId, u \in User :
        "accepted" \in told[id][u] => status[id] \notin {"IDLE", "RINGING"}

Serial ==
    /\ OneAtATime
    /\ ReadsAreCurrent
    /\ AcceptedToldOnce
    /\ NoCrossedCalls
    /\ AnsweredIsNotMissed
-----------------------------------------------------------------------------
(* Helpers *)

LEMMA TransitionsAreStates ==
    \A s \in CallState : ValidTransitions[s] \subseteq CallState
BY DEF ValidTransitions, CallState

LEMMA TargetIsState ==
    \A kind \in Kind : Target(kind) \in CallState \ Active
                       \/ (kind = "accept" /\ Target(kind) = "ACCEPTED")
BY DEF Kind, Target, CallState, Active

LEMMA TellType ==
    ASSUME told \in [CallId -> [User -> SUBSET Event]],
           NEW id \in CallId, NEW users, NEW event \in Event,
           Tell(id, users, event)
    PROVE  told' \in [CallId -> [User -> SUBSET Event]]
BY DEF Tell

-----------------------------------------------------------------------------
(* Init and every action keep the types. *)

LEMMA InitType == Init => TypeOK
BY CallAssumption DEF Init, TypeOK, CallState, StartStep, ListenerStep, Event

LEMMA StartingType ==
    ASSUME TypeOK, NEW id \in CallId, Starting(id), MessageCount
    PROVE  TypeOK'
<1>1. ASSUME NEW u \in User, StartCall(id, u) PROVE TypeOK'
  BY <1>1 DEF TypeOK, StartCall, StartStep
<1>2. ASSUME NEW c \in Conversation, NEW r \in User, ConversationRead(id, c, r)
      PROVE  TypeOK'
  BY <1>2 DEF TypeOK, ConversationRead, StartStep
<1>3. CASE ConversationRefused(id)
  BY <1>3 DEF TypeOK, ConversationRefused, StartStep
<1>4. CASE ReceiverBusy(id)
  <2>1. told' \in [CallId -> [User -> SUBSET Event]]
    BY <1>4, TellType DEF TypeOK, ReceiverBusy, Event
  <2> QED
    BY <1>4, <2>1 DEF TypeOK, ReceiverBusy, StartStep, CallState
<1>5. CASE ReceiverFree(id)
  BY <1>5 DEF TypeOK, ReceiverFree, StartStep
<1>6. CASE Ring(id)
  <2>1. told' \in [CallId -> [User -> SUBSET Event]]
    BY <1>6, TellType DEF TypeOK, Ring, Event
  <2> QED
    BY <1>6, <2>1 DEF TypeOK, Ring, ArmTimer, StartStep, CallState
<1> QED
  BY <1>1, <1>2, <1>3, <1>4, <1>5, <1>6 DEF Starting

LEMMA RequestType ==
    ASSUME TypeOK, NEW kind \in Kind, NEW u \in User, NEW id \in CallId,
           Request(kind, u, id)
    PROVE  TypeOK'
<1>1. [kind |-> kind, user |-> u, id |-> id, seen |-> status[id]] \in Operation
  BY DEF TypeOK, Operation
<1> QED
  BY <1>1 DEF TypeOK, Request

LEMMA TimerFiresType ==
    ASSUME TypeOK, NEW id \in CallId, TimerFires(id)
    PROVE  TypeOK'
<1>1. [kind |-> "timeout", user |-> NoUser, id |-> id, seen |-> status[id]]
        \in Operation
  BY DEF TypeOK, Operation, Kind
<1> QED
  BY <1>1 DEF TypeOK, TimerFires, ClearTimer

LEMMA FinishingType ==
    ASSUME TypeOK, NEW p \in pending, Finishing(p)
    PROVE  TypeOK'
<1>0. p \in Operation /\ p.id \in CallId /\ p.kind \in Kind
  BY DEF TypeOK, Operation
<1>1. CASE CallMissing(p)
  <2>1. told' \in [CallId -> [User -> SUBSET Event]]
    BY <1>0, <1>1, TellType DEF TypeOK, CallMissing, Event
  <2> QED
    BY <1>1, <2>1 DEF TypeOK, CallMissing
<1>2. CASE Refuse(p)
  BY <1>2 DEF TypeOK, Refuse
<1>3. CASE Accept(p)
  <2>1. told' \in [CallId -> [User -> SUBSET Event]]
    BY <1>0, <1>3, TellType DEF TypeOK, Accept, Event
  <2> QED
    BY <1>0, <1>3, <2>1 DEF TypeOK, Accept, ClearTimer, CallState
<1>4. CASE Terminate(p)
  <2>1. TerminalEvent(p.kind) \in Event
    BY DEF TerminalEvent, Event
  <2>2. told' \in [CallId -> [User -> SUBSET Event]]
    BY <1>0, <1>4, <2>1, TellType DEF TypeOK, Terminate
  <2>3. status' \in [CallId -> CallState]
    BY <1>0, <1>4, TargetIsState DEF TypeOK, Terminate, Removed, CallState
  <2> QED
    BY <1>4, <2>2, <2>3 DEF TypeOK, Terminate, ClearTimer
<1>5. CASE Expire(p)
  BY <1>0, <1>5 DEF TypeOK, Expire, Removed, CallState, ListenerStep
<1> QED
  BY <1>1, <1>2, <1>3, <1>4, <1>5 DEF Finishing

LEMMA ListeningType ==
    ASSUME TypeOK, MessageCount, NEW id \in CallId, Listening(id)
    PROVE  TypeOK'
<1>1. CASE SaveMissedCall(id)
  <2>1. messages[id] = 0
    BY <1>1 DEF SaveMissedCall, MessageCount
  <2> QED
    BY <1>1, <2>1 DEF TypeOK, SaveMissedCall, ListenerStep
<1>2. CASE AnnounceMissedCall(id)
  <2>1. messages[id] = 1
    BY <1>2 DEF AnnounceMissedCall, MessageCount
  <2>2. told' \in [CallId -> [User -> SUBSET Event]]
    BY <1>2, TellType DEF TypeOK, AnnounceMissedCall, Event
  <2>3. messages' \in [CallId -> 0..2]
    BY <1>2, <2>1 DEF TypeOK, AnnounceMissedCall
  <2>4. missed' \in [CallId -> ListenerStep]
    BY <1>2 DEF TypeOK, AnnounceMissedCall, ListenerStep
  <2> QED
    BY <1>2, <2>2, <2>3, <2>4 DEF TypeOK, AnnounceMissedCall
<1>3. CASE MissedCallFails(id)
  BY <1>3 DEF TypeOK, MissedCallFails, ListenerStep
<1> QED
  BY <1>1, <1>2, <1>3 DEF Listening

LEMMA NextType ==
    ASSUME TypeOK, MessageCount, [Next]_vars
    PROVE  TypeOK'
<1>1. CASE UNCHANGED vars
  BY <1>1 DEF TypeOK, vars
<1> QED
  BY <1>1, StartingType, RequestType, TimerFiresType, FinishingType,
     ListeningType DEF Next

-----------------------------------------------------------------------------
(* Inv is inductive. *)

LEMMA InitInv == Init => Inv
<1> SUFFICES ASSUME Init PROVE Inv
  OBVIOUS
<1>1. TypeOK
  BY InitType
<1>2. Fresh /\ TimersAreForRinging /\ TimeoutOnce /\ ArmedNotMissed
  BY DEF Init, Fresh, TimersAreForRinging, TimeoutOnce, ArmedNotMissed
<1>3. MessageCount /\ RingingIsTimed
  BY DEF Init, MessageCount, RingingIsTimed
<1> QED
  BY <1>1, <1>2, <1>3 DEF Inv

LEMMA StartingInv ==
    ASSUME Inv, NEW id \in CallId, Starting(id)
    PROVE  Inv'
<1>1. TypeOK'
  BY StartingType DEF Inv
<1>2. CASE \/ \E u \in User : StartCall(id, u)
           \/ \E c \in Conversation, r \in User : ConversationRead(id, c, r)
           \/ ConversationRefused(id)
           \/ ReceiverFree(id)
  <2>1. /\ UNCHANGED <<status, timers, pending, missed, messages>>
        /\ starting[id] # "settled"
        /\ \A i \in CallId \ {id} : starting'[i] = starting[i]
    BY <1>2 DEF Inv, TypeOK, StartCall, ConversationRead, ConversationRefused,
                ReceiverFree
  <2> QED
    BY <1>1, <2>1 DEF Inv, Fresh, TimersAreForRinging, TimeoutOnce,
                      ArmedNotMissed, MessageCount, RingingIsTimed
<1>3. CASE ReceiverBusy(id)
  <2>1. /\ UNCHANGED <<timers, pending, missed, messages>>
        /\ starting[id] # "settled" /\ starting'[id] = "settled"
        /\ status'[id] = "BUSY"
        /\ \A i \in CallId \ {id} :
              starting'[i] = starting[i] /\ status'[i] = status[i]
    BY <1>3 DEF Inv, TypeOK, ReceiverBusy
  <2>2. Fresh'
    BY <2>1 DEF Inv, Fresh
  <2>3. TimeoutOnce' /\ ArmedNotMissed' /\ MessageCount'
    BY <2>1 DEF Inv, Fresh, TimeoutOnce, ArmedNotMissed, MessageCount
  <2>4. TimersAreForRinging' /\ RingingIsTimed'
    BY <2>1 DEF Inv, TypeOK, Fresh, TimersAreForRinging, RingingIsTimed
  <2> QED
    BY <1>1, <2>2, <2>3, <2>4 DEF Inv
<1>4. CASE Ring(id)
  <2>1. /\ UNCHANGED <<pending, missed, messages>>
        /\ starting[id] # "settled" /\ starting'[id] = "settled"
        /\ status'[id] = "RINGING"
        /\ timers' = timers \cup {id}
        /\ \A i \in CallId \ {id} :
              starting'[i] = starting[i] /\ status'[i] = status[i]
    BY <1>4 DEF Inv, TypeOK, Ring, ArmTimer
  <2>2. Fresh'
    BY <2>1 DEF Inv, Fresh
  <2>3. TimeoutOnce' /\ ArmedNotMissed' /\ MessageCount'
    BY <2>1 DEF Inv, Fresh, TimeoutOnce, ArmedNotMissed, MessageCount
  <2>4. TimersAreForRinging' /\ RingingIsTimed'
    BY <2>1 DEF Inv, TypeOK, Fresh, TimersAreForRinging, RingingIsTimed
  <2> QED
    BY <1>1, <2>2, <2>3, <2>4 DEF Inv
<1> QED
  BY <1>2, <1>3, <1>4 DEF Starting

LEMMA RequestInv ==
    ASSUME Inv, NEW kind \in Kind, NEW u \in User, NEW id \in CallId,
           Request(kind, u, id)
    PROVE  Inv'
<1> DEFINE q == [kind |-> kind, user |-> u, id |-> id, seen |-> status[id]]
<1>1. /\ UNCHANGED <<status, starting, timers, missed, messages>>
      /\ pending' = pending \cup {q}
      /\ q.kind # "timeout" /\ q.id = id /\ status[id] # "IDLE"
  BY DEF Request
<1>2. TypeOK'
  BY RequestType DEF Inv
<1>3. Fresh'
  BY <1>1 DEF Inv, Fresh
<1>4. TimeoutOnce'
  BY <1>1 DEF Inv, TimeoutOnce
<1> QED
  BY <1>1, <1>2, <1>3, <1>4
  DEF Inv, TimersAreForRinging, ArmedNotMissed, MessageCount, RingingIsTimed

LEMMA TimerFiresInv ==
    ASSUME Inv, NEW id \in CallId, TimerFires(id)
    PROVE  Inv'
<1> DEFINE q == [kind |-> "timeout", user |-> NoUser, id |-> id,
                 seen |-> status[id]]
<1>1. /\ UNCHANGED <<status, starting, missed, messages>>
      /\ pending' = pending \cup {q}
      /\ timers' = timers \ {id} /\ id \in timers
      /\ q.kind = "timeout" /\ q.id = id /\ q.user = NoUser /\ q.seen = "RINGING"
  BY DEF TimerFires, ClearTimer, Inv, TimersAreForRinging
<1>2. TypeOK'
  BY TimerFiresType DEF Inv
<1>3. Fresh'
  BY <1>1 DEF Inv, Fresh
<1>4. TimeoutOnce'
  BY <1>1 DEF Inv, TimeoutOnce, ArmedNotMissed
<1>5. RingingIsTimed'
  BY <1>1 DEF Inv, RingingIsTimed
<1> QED
  BY <1>1, <1>2, <1>3, <1>4, <1>5
  DEF Inv, TimersAreForRinging, ArmedNotMissed, MessageCount

LEMMA FinishingInv ==
    ASSUME Inv, NEW p \in pending, Finishing(p)
    PROVE  Inv'
<1>0. p.id \in CallId /\ starting[p.id] = "settled"
  BY DEF Inv, TypeOK, Operation, Fresh
<1>1. TypeOK'
  BY FinishingType DEF Inv
<1>2. CASE CallMissing(p) \/ Refuse(p)
  <2>1. /\ UNCHANGED <<status, starting, timers, missed, messages>>
        /\ pending' = pending \ {p}
    BY <1>2 DEF CallMissing, Refuse
  <2>2. p.kind # "timeout"
    BY <1>2 DEF CallMissing, Refuse, Entitled, Valid, Inv, TimeoutOnce, Active
  <2> QED
    BY <1>1, <2>1, <2>2 DEF Inv, Fresh, TimersAreForRinging, TimeoutOnce,
                            ArmedNotMissed, MessageCount, RingingIsTimed
<1>3. CASE Accept(p) \/ Terminate(p)
  <2>1. /\ UNCHANGED <<starting, missed, messages>>
        /\ pending' = pending \ {p}
        /\ timers' = timers \ {p.id}
        /\ p.kind # "timeout"
    BY <1>3 DEF Accept, Terminate, ClearTimer
  <2>2. /\ \A i \in CallId \ {p.id} : status'[i] = status[i]
        /\ status'[p.id] # "RINGING"
    BY <1>0, <1>3 DEF Accept, Terminate, Removed, Target, Inv, TypeOK, Active
  <2>3. Fresh'
    BY <1>0, <2>1, <2>2 DEF Inv, Fresh
  <2>4. RingingIsTimed'
    BY <2>1, <2>2 DEF Inv, RingingIsTimed
  <2> QED
    BY <1>1, <2>1, <2>2, <2>3, <2>4
    DEF Inv, TypeOK, TimersAreForRinging, TimeoutOnce, ArmedNotMissed,
        MessageCount
<1>4. CASE Expire(p)
  <2>1. /\ UNCHANGED <<starting, timers, messages>>
        /\ pending' = pending \ {p}
        /\ p.kind = "timeout"
        /\ p.id \notin timers /\ p.user = NoUser /\ p.seen = "RINGING"
        /\ missed[p.id] = "none" /\ missed'[p.id] = "running"
        /\ \A i \in CallId \ {p.id} : missed'[i] = missed[i]
    BY <1>0, <1>4 DEF Expire, Inv, TimeoutOnce, TypeOK
  <2>2. /\ \A i \in CallId \ {p.id} : status'[i] = status[i]
        /\ status'[p.id] # "RINGING"
    BY <1>0, <1>4 DEF Expire, Removed, Inv, TypeOK, Active
  <2>3. TimeoutOnce'
    <3> SUFFICES ASSUME NEW q \in pending', q.kind = "timeout"
                 PROVE  /\ q.id \notin timers' /\ q.user = NoUser
                        /\ q.seen = "RINGING" /\ missed'[q.id] = "none"
      BY DEF TimeoutOnce
    <3>1. q \in pending /\ q # p /\ q \in Operation /\ p \in Operation
      BY <2>1 DEF Inv, TypeOK
    <3>2. q.user = NoUser /\ q.seen = "RINGING" /\ q.id \notin timers
          /\ missed[q.id] = "none"
      BY <3>1 DEF Inv, TimeoutOnce
    <3>3. q.id # p.id
      BY <2>1, <3>1, <3>2 DEF Operation
    <3> QED
      BY <2>1, <3>1, <3>2, <3>3 DEF Operation
  <2>4. Fresh'
    BY <1>0, <2>1, <2>2 DEF Inv, Fresh
  <2>5. MessageCount'
    BY <2>1 DEF Inv, MessageCount
  <2>6. RingingIsTimed'
    BY <2>1, <2>2 DEF Inv, RingingIsTimed
  <2> QED
    BY <1>1, <2>1, <2>2, <2>3, <2>4, <2>5, <2>6
    DEF Inv, TypeOK, TimersAreForRinging, ArmedNotMissed
<1> QED
  BY <1>2, <1>3, <1>4 DEF Finishing

LEMMA ListeningInv ==
    ASSUME Inv, NEW id \in CallId, Listening(id)
    PROVE  Inv'
<1>1. TypeOK'
  BY ListeningType DEF Inv
<1>2. /\ UNCHANGED <<status, starting, timers, pending>>
      /\ missed[id] # "none"
      /\ \A i \in CallId \ {id} :
            missed'[i] = missed[i] /\ messages'[i] = messages[i]
  BY DEF Listening, SaveMissedCall, AnnounceMissedCall, MissedCallFails, Inv,
         TypeOK
<1>3. MessageCount'
  <2>1. messages'[id] = CASE missed'[id] = "saved" -> 1
                          [] missed'[id] = "done"  -> 2
                          [] OTHER                 -> 0
    BY DEF Listening, SaveMissedCall, AnnounceMissedCall, MissedCallFails, Inv,
           TypeOK, MessageCount
  <2> QED
    BY <1>2, <2>1 DEF Inv, MessageCount
<1>4. Fresh' /\ TimeoutOnce' /\ ArmedNotMissed'
  BY <1>2 DEF Inv, TypeOK, Operation, Fresh, TimeoutOnce, ArmedNotMissed
<1> QED
  BY <1>1, <1>2, <1>3, <1>4 DEF Inv, TimersAreForRinging, RingingIsTimed

LEMMA NextInv == Inv /\ [Next]_vars => Inv'
<1> SUFFICES ASSUME Inv, [Next]_vars PROVE Inv'
  OBVIOUS
<1>1. CASE UNCHANGED vars
  BY <1>1 DEF Inv, vars, TypeOK, Fresh, TimersAreForRinging, TimeoutOnce,
              ArmedNotMissed, MessageCount, RingingIsTimed
<1> QED
  BY <1>1, StartingInv, RequestInv, TimerFiresInv, FinishingInv, ListeningInv
  DEF Next

LEMMA InvHolds == Spec => []Inv
BY InitInv, NextInv, PTL DEF Spec

(* Every variable keeps its type; in particular no sequence of operations  *)
(* makes a call take a status that CallState does not have.                *)
THEOREM TypeCorrect == Spec => []TypeOK
BY InvHolds, PTL DEF Inv

(* A RINGING call always has its timer, whatever is interleaved with what: *)
(* no accept, reject, cancel or end can leave a call ringing unattended.   *)
(* And a timer is only ever armed for a call that rings.                   *)
THEOREM RingingTimed == Spec => []TimersMatchRinging
BY InvHolds, PTL DEF Inv, TimersMatchRinging

-----------------------------------------------------------------------------
(* Serial is inductive when the store does not yield. *)

LEMMA InitSerial == Init => Serial
BY DEF Init, Serial, OneAtATime, ReadsAreCurrent, AcceptedToldOnce,
       NoCrossedCalls, AnsweredIsNotMissed, ActiveCalls, Active

LEMMA TellOthers ==
    ASSUME told \in [CallId -> [User -> SUBSET Event]],
           NEW id \in CallId, NEW users, NEW event, event # "accepted",
           Tell(id, users, event)
    PROVE  \A i \in CallId, u \in User :
              "accepted" \in told'[i][u] => "accepted" \in told[i][u]
BY DEF Tell

(* One handler at a time: a step that another event may start is taken only*)
(* when nothing is under way.                                              *)
LEMMA QuietSerial ==
    ASSUME ~StoreYields, Quiet
    PROVE  pending = {} /\ \A id \in CallId : starting[id] # "receiverFree"
BY DEF Quiet

LEMMA StartingSerial ==
    ASSUME ~StoreYields, Inv, Serial, NEW id \in CallId, Starting(id)
    PROVE  Serial'
<1>1. CASE \/ \E u \in User : StartCall(id, u)
           \/ \E c \in Conversation, r \in User : ConversationRead(id, c, r)
           \/ ConversationRefused(id)
  <2>1. /\ pending = {} /\ UNCHANGED <<status, pending, missed, told>>
        /\ \A i \in CallId : starting'[i] # "receiverFree"
        /\ starting[id] # "settled"
        /\ \A i \in CallId \ {id} :
              caller'[i] = caller[i] /\ receiver'[i] = receiver[i]
    BY <1>1, QuietSerial DEF Inv, TypeOK, StartCall, ConversationRead,
                             ConversationRefused
  <2>2. status[id] \notin Active
    BY <2>1 DEF Inv, Fresh, Active
  <2>3. NoCrossedCalls'
    BY <2>1, <2>2 DEF Serial, NoCrossedCalls, ActiveCalls, Parties
  <2> QED
    BY <2>1, <2>3 DEF Serial, OneAtATime, ReadsAreCurrent, AcceptedToldOnce,
                      AnsweredIsNotMissed
<1>2. CASE ReceiverBusy(id)
  <2>1. /\ pending = {} /\ UNCHANGED <<pending, missed, caller, receiver>>
        /\ \A i \in CallId : starting'[i] # "receiverFree"
        /\ status'[id] = "BUSY"
        /\ \A i \in CallId \ {id} : status'[i] = status[i]
    BY <1>2, QuietSerial DEF Inv, TypeOK, ReceiverBusy
  <2>2. \A i \in CallId, u \in User :
            "accepted" \in told'[i][u] => "accepted" \in told[i][u]
    BY <1>2, TellOthers DEF Inv, TypeOK, ReceiverBusy
  <2>3. NoCrossedCalls'
    BY <2>1 DEF Serial, NoCrossedCalls, ActiveCalls, Active, Parties
  <2> QED
    BY <2>1, <2>2, <2>3 DEF Serial, OneAtATime, ReadsAreCurrent,
                            AcceptedToldOnce, AnsweredIsNotMissed
<1>3. CASE ReceiverFree(id)
  <2>1. /\ pending = {}
        /\ UNCHANGED <<status, pending, missed, told, caller, receiver>>
        /\ \A i \in CallId \ {id} : starting'[i] # "receiverFree"
        /\ ~Busy(receiver[id])
    BY <1>3, QuietSerial DEF Inv, TypeOK, ReceiverFree
  <2>2. ~Busy(receiver[id])'
    BY <2>1 DEF Busy, ActiveCalls, Parties
  <2> QED
    BY <2>1, <2>2 DEF Serial, OneAtATime, ReadsAreCurrent, AcceptedToldOnce,
                      AnsweredIsNotMissed, NoCrossedCalls, ActiveCalls, Parties
<1>4. CASE Ring(id)
  <2>1. /\ pending = {} /\ UNCHANGED <<pending, missed, caller, receiver>>
        /\ \A i \in CallId : starting'[i] # "receiverFree"
        /\ starting[id] = "receiverFree" /\ ~Busy(receiver[id])
        /\ status'[id] = "RINGING"
        /\ \A i \in CallId \ {id} : status'[i] = status[i]
    BY <1>4 DEF Inv, TypeOK, Ring, Serial, OneAtATime, ReadsAreCurrent
  <2>2. \A i \in CallId, u \in User :
            "accepted" \in told'[i][u] => "accepted" \in told[i][u]
    BY <1>4, TellOthers DEF Inv, TypeOK, Ring
  <2>3. NoCrossedCalls'
    BY <2>1 DEF Serial, NoCrossedCalls, Busy, ActiveCalls, Active, Parties
  <2>4. status[id] = "IDLE"
    BY <2>1 DEF Inv, Fresh
  <2> QED
    BY <2>1, <2>2, <2>3, <2>4 DEF Serial, OneAtATime, ReadsAreCurrent,
                                  AcceptedToldOnce, AnsweredIsNotMissed
<1> QED
  BY <1>1, <1>2, <1>3, <1>4 DEF Starting

LEMMA ReadingSerial ==
    ASSUME ~StoreYields, Inv, Serial, NEW id \in CallId,
           TimerFires(id) \/ \E kind \in Kind, u \in User : Request(kind, u, id)
    PROVE  Serial'
<1>1. /\ pending = {}
      /\ UNCHANGED <<status, caller, receiver, starting, missed, told>>
      /\ \A i \in CallId : starting[i] # "receiverFree"
      /\ \E q : pending' = {q} /\ q.id = id /\ q.seen = status[id]
  <2>1. CASE TimerFires(id)
    <3> DEFINE q == [kind |-> "timeout", user |-> NoUser, id |-> id,
                     seen |-> status[id]]
    <3>1. pending = {} /\ pending' = {q} /\ q.id = id /\ q.seen = status[id]
      BY <2>1, QuietSerial DEF TimerFires
    <3> QED
      BY <2>1, <3>1, QuietSerial DEF TimerFires
  <2>2. CASE \E kind \in Kind, u \in User : Request(kind, u, id)
    <3>1. PICK kind \in Kind, u \in User : Request(kind, u, id)
      BY <2>2
    <3> DEFINE q == [kind |-> kind, user |-> u, id |-> id, seen |-> status[id]]
    <3>2. pending = {} /\ pending' = {q} /\ q.id = id /\ q.seen = status[id]
      BY <3>1, QuietSerial DEF Request
    <3> QED
      BY <3>1, <3>2, QuietSerial DEF Request
  <2> QED
    BY <2>1, <2>2
<1> QED
  BY <1>1 DEF Serial, OneAtATime, ReadsAreCurrent, AcceptedToldOnce,
              AnsweredIsNotMissed, NoCrossedCalls, ActiveCalls, Parties

LEMMA FinishingSerial ==
    ASSUME ~StoreYields, Inv, Serial, NEW p \in pending, Finishing(p)
    PROVE  Serial'
<1>0. /\ pending' = {}
      /\ UNCHANGED <<starting, caller, receiver>>
      /\ \A i \in CallId : starting[i] # "receiverFree"
      /\ p.id \in CallId
      /\ p.seen = status[p.id]
  BY DEF Serial, OneAtATime, ReadsAreCurrent, Finishing, CallMissing, Refuse,
         Accept, Terminate, Expire, Inv, TypeOK, Operation
<1>1. /\ \A i \in CallId \ {p.id} : status'[i] = status[i]
      /\ status'[p.id] \in Active => status[p.id] \in Active
      /\ status[p.id] \notin {"IDLE", "RINGING"}
            => status'[p.id] \notin {"IDLE", "RINGING"}
  BY <1>0 DEF Finishing, CallMissing, Refuse, Accept, Terminate, Expire,
              Removed, Target, Inv, TypeOK, Active
<1>2. NoCrossedCalls'
  BY <1>0, <1>1 DEF Serial, NoCrossedCalls, ActiveCalls, Parties
<1>3. AcceptedToldOnce' /\ AnsweredIsNotMissed'
  <2>1. CASE Accept(p)
    <3>1. /\ \A i \in CallId \ {p.id} : told'[i] = told[i]
          /\ status'[p.id] = "ACCEPTED" /\ UNCHANGED missed
      BY <1>0, <2>1 DEF Accept, Tell, Inv, TypeOK
    <3>2. status[p.id] = "RINGING"
      BY <1>0, <2>1 DEF Accept, Valid, Target, ValidTransitions, Active,
                        CallState
    <3>3. missed[p.id] = "none"
      BY <1>0, <3>2 DEF Inv, RingingIsTimed, ArmedNotMissed, TimeoutOnce
    <3> QED
      BY <1>1, <3>1, <3>3 DEF Serial, AcceptedToldOnce, AnsweredIsNotMissed
  <2>2. CASE CallMissing(p) \/ Refuse(p) \/ Terminate(p)
    <3>1. \A i \in CallId, u \in User :
              "accepted" \in told'[i][u] => "accepted" \in told[i][u]
      BY <1>0, <2>2, TellOthers
      DEF CallMissing, Refuse, Terminate, TerminalEvent, Inv, TypeOK
    <3>2. UNCHANGED missed
      BY <2>2 DEF CallMissing, Refuse, Terminate
    <3> QED
      BY <1>1, <3>1, <3>2 DEF Serial, AcceptedToldOnce, AnsweredIsNotMissed
  <2>3. CASE Expire(p)
    <3>1. /\ UNCHANGED told /\ status[p.id] = "RINGING"
          /\ \A i \in CallId \ {p.id} : missed'[i] = missed[i]
      BY <1>0, <2>3 DEF Expire, Valid, Inv, TypeOK
    <3> QED
      BY <1>1, <3>1 DEF Serial, AcceptedToldOnce, AnsweredIsNotMissed
  <2> QED
    BY <2>1, <2>2, <2>3 DEF Finishing
<1> QED
  BY <1>0, <1>2, <1>3 DEF Serial, OneAtATime, ReadsAreCurrent

LEMMA ListeningSerial ==
    ASSUME ~StoreYields, Inv, Serial, NEW id \in CallId, Listening(id)
    PROVE  Serial'
<1>1. /\ pending = {} /\ UNCHANGED <<status, caller, receiver, starting, pending>>
      /\ \A i \in CallId : starting[i] # "receiverFree"
      /\ missed[id] # "none"
      /\ \A i \in CallId \ {id} : missed'[i] = missed[i]
  BY QuietSerial DEF Listening, SaveMissedCall, AnnounceMissedCall,
                     MissedCallFails, Inv, TypeOK
<1>2. \A i \in CallId, u \in User :
          "accepted" \in told'[i][u] => "accepted" \in told[i][u]
  BY TellOthers DEF Listening, SaveMissedCall, AnnounceMissedCall,
                    MissedCallFails, Inv, TypeOK
<1> QED
  BY <1>1, <1>2 DEF Serial, OneAtATime, ReadsAreCurrent, AcceptedToldOnce,
                    AnsweredIsNotMissed, NoCrossedCalls, ActiveCalls, Parties

LEMMA NextSerial == ~StoreYields /\ Inv /\ Serial /\ [Next]_vars => Serial'
<1> SUFFICES ASSUME ~StoreYields, Inv, Serial, [Next]_vars PROVE Serial'
  OBVIOUS
<1>1. CASE UNCHANGED vars
  BY <1>1 DEF vars, Serial, OneAtATime, ReadsAreCurrent, AcceptedToldOnce,
              AnsweredIsNotMissed, NoCrossedCalls, ActiveCalls, Parties, Busy
<1> QED
  BY <1>1, StartingSerial, ReadingSerial, FinishingSerial, ListeningSerial
  DEF Next

LEMMA SerialHolds == ASSUME ~StoreYields PROVE Spec => []Serial
<1>1. Inv /\ Serial /\ [Next]_vars => Serial'
  BY NextSerial
<1> QED
  BY <1>1, InitSerial, InvHolds, PTL DEF Spec

(* With a store that settles its promises before other events run, the two *)
(* busy checks make sure that no user is rung by two calls and that two    *)
(* users never ring each other, however many attempts race over the        *)
(* database awaits of startCall.                                           *)
THEOREM CallsDoNotCross == ASSUME ~StoreYields PROVE Spec => []NoCrossedCalls
BY SerialHolds, PTL DEF Serial

(* With such a store, an answered call never produces a missed call. *)
THEOREM AnsweredNotMissed ==
    ASSUME ~StoreYields PROVE Spec => []AnsweredIsNotMissed
BY SerialHolds, PTL DEF Serial

-----------------------------------------------------------------------------
(* Refinement: a handler's last step is the step of the session, and what  *)
(* it does before is a stutter.  Besides Inv and Serial this needs to know *)
(* who takes part in an attempt, that an operation is about a call that was*)
(* announced, and that a missed call is over.                              *)

PartiesDiffer ==
    \A id \in CallId :
        /\ starting[id] \in {"conversation", "presence", "receiverFree"} =>
                caller[id] \in User
        /\ starting[id] \in {"presence", "receiverFree"} =>
                receiver[id] \in User /\ caller[id] # receiver[id]

AnnouncedOnly == \A p \in pending : p.seen \notin {"IDLE", "BUSY"}

MissedIsOver ==
    \A id \in CallId : missed[id] # "none" => status[id] = "ENDED"

Outcome == PartiesDiffer /\ AnnouncedOnly /\ MissedIsOver

LEMMA InitOutcome == Init => Outcome
BY DEF Init, Outcome, PartiesDiffer, AnnouncedOnly, MissedIsOver

LEMMA StartingOutcome ==
    ASSUME Inv, Outcome, NEW id \in CallId, Starting(id)
    PROVE  Outcome'
<1>1. /\ UNCHANGED <<pending, missed>>
      /\ missed[id] = "none"
      /\ \A i \in CallId \ {id} : status'[i] = status[i]
  BY DEF Starting, StartCall, ConversationRead, ConversationRefused,
         ReceiverBusy, ReceiverFree, Ring, Inv, TypeOK, Fresh
<1>2. \A i \in CallId \ {id} :
          /\ starting'[i] = starting[i]
          /\ caller'[i] = caller[i] /\ receiver'[i] = receiver[i]
  BY DEF Starting, StartCall, ConversationRead, ConversationRefused,
         ReceiverBusy, ReceiverFree, Ring, Inv, TypeOK
<1>3. /\ starting'[id] \in {"conversation", "presence", "receiverFree"} =>
            caller'[id] \in User
      /\ starting'[id] \in {"presence", "receiverFree"} =>
            receiver'[id] \in User /\ caller'[id] # receiver'[id]
  <2>1. ASSUME NEW u \in User, StartCall(id, u)
        PROVE  caller'[id] = u /\ starting'[id] = "conversation"
    BY <2>1 DEF StartCall, Inv, TypeOK
  <2>2. ASSUME NEW c \in Conversation, NEW r \in User,
               ConversationRead(id, c, r)
        PROVE  /\ caller'[id] = caller[id] /\ receiver'[id] = r
               /\ caller[id] \in User /\ caller[id] # r
    BY <2>2 DEF ConversationRead, Inv, TypeOK, Outcome, PartiesDiffer
  <2>3. CASE ReceiverFree(id)
    BY <2>3 DEF ReceiverFree, Inv, TypeOK, Outcome, PartiesDiffer
  <2>4. CASE ConversationRefused(id) \/ ReceiverBusy(id) \/ Ring(id)
    BY <2>4 DEF ConversationRefused, ReceiverBusy, Ring, Inv, TypeOK
  <2> QED
    BY <2>1, <2>2, <2>3, <2>4 DEF Starting
<1> QED
  BY <1>1, <1>2, <1>3 DEF Outcome, PartiesDiffer, AnnouncedOnly, MissedIsOver

LEMMA ReadingOutcome ==
    ASSUME Inv, Outcome, NEW id \in CallId,
           TimerFires(id) \/ \E kind \in Kind, u \in User : Request(kind, u, id)
    PROVE  Outcome'
<1>1. UNCHANGED <<status, caller, receiver, starting, missed>>
  BY DEF TimerFires, Request
<1>2. AnnouncedOnly'
  BY DEF TimerFires, Request, Inv, TimersAreForRinging, Outcome, AnnouncedOnly
<1> QED
  BY <1>1, <1>2 DEF Outcome, PartiesDiffer, MissedIsOver

LEMMA FinishingOutcome ==
    ASSUME Inv, Serial, Outcome, NEW p \in pending, Finishing(p)
    PROVE  Outcome'
<1>1. /\ UNCHANGED <<caller, receiver, starting>>
      /\ pending' \subseteq pending
  BY DEF Finishing, CallMissing, Refuse, Accept, Terminate, Expire
<1>2. p.id \in CallId /\ p.seen = status[p.id]
  BY DEF Inv, TypeOK, Operation, Serial, ReadsAreCurrent
<1>3. MissedIsOver'
  <2>1. CASE UNCHANGED <<status, missed>>
    BY <2>1 DEF Outcome, MissedIsOver
  <2>2. CASE Accept(p) \/ Terminate(p)
    <3>1. /\ UNCHANGED missed
          /\ status[p.id] \in Active
          /\ \A i \in CallId \ {p.id} : status'[i] = status[i]
      BY <1>2, <2>2 DEF Accept, Terminate, Removed, Inv, TypeOK
    <3> QED
      BY <3>1 DEF Outcome, MissedIsOver, Active
  <2>3. CASE Expire(p)
    <3>1. /\ status'[p.id] = "ENDED"
          /\ \A i \in CallId \ {p.id} :
                status'[i] = status[i] /\ missed'[i] = missed[i]
      BY <1>2, <2>3 DEF Expire, Removed, Inv, TypeOK
    <3> QED
      BY <3>1 DEF Outcome, MissedIsOver
  <2> QED
    BY <2>1, <2>2, <2>3 DEF Finishing, CallMissing, Refuse
<1> QED
  BY <1>1, <1>3 DEF Outcome, PartiesDiffer, AnnouncedOnly

LEMMA NextOutcome ==
    Inv /\ Serial /\ Outcome /\ [Next]_vars => Outcome'
<1> SUFFICES ASSUME Inv, Serial, Outcome, [Next]_vars PROVE Outcome'
  OBVIOUS
<1>1. CASE UNCHANGED vars
  BY <1>1 DEF vars, Outcome, PartiesDiffer, AnnouncedOnly, MissedIsOver
<1>2. ASSUME NEW id \in CallId, Listening(id) PROVE Outcome'
  <2>1. /\ UNCHANGED <<status, caller, receiver, starting, pending>>
        /\ \A i \in CallId : missed'[i] # "none" => missed[i] # "none"
    BY <1>2 DEF Listening, SaveMissedCall, AnnounceMissedCall,
                MissedCallFails, Inv, TypeOK
  <2> QED
    BY <2>1 DEF Outcome, PartiesDiffer, AnnouncedOnly, MissedIsOver
<1> QED
  BY <1>1, <1>2, StartingOutcome, ReadingOutcome, FinishingOutcome DEF Next

LEMMA OutcomeHolds == ASSUME ~StoreYields PROVE Spec => []Outcome
BY InitOutcome, NextOutcome, InvHolds, SerialHolds, PTL DEF Spec

LEMMA InitRefines == Init => Session!Init
BY DEF Init, Session!Init, KnownCaller, KnownReceiver, KnownOf

(* Of a call that has an outcome the session knows the users. *)
LEMMA PartiesKnown ==
    ASSUME NEW id \in CallId, status[id] # "IDLE"
    PROVE  /\ KnownCaller[id] = caller[id] /\ KnownReceiver[id] = receiver[id]
           /\ Session!Parties(id) = Parties(id)
BY DEF KnownCaller, KnownReceiver, KnownOf, Session!Parties, Parties

LEMMA BusyIsInCall == \A u : Session!InCall(u) <=> Busy(u)
BY PartiesKnown DEF Session!InCall, Busy, ActiveCalls, Active

LEMMA UsersStay ==
    ASSUME UNCHANGED <<caller, receiver>>,
           \A id \in CallId : status'[id] = "IDLE" <=> status[id] = "IDLE"
    PROVE  UNCHANGED <<KnownCaller, KnownReceiver>>
BY DEF KnownCaller, KnownReceiver, KnownOf

(* A call changes and its users are told: the shape of every step of the   *)
(* session that is not an attempt.                                         *)
LEMMA MoveRefines ==
    ASSUME TypeOK, NEW id \in CallId, NEW from, status[id] \in from,
           "IDLE" \notin from, NEW to, to # "IDLE",
           status' = [status EXCEPT ![id] = to],
           UNCHANGED <<caller, receiver>>
    PROVE  Session!Move(id, from, to)
<1>1. \A i \in CallId : status'[i] = "IDLE" <=> status[i] = "IDLE"
  BY DEF TypeOK
<1> QED
  BY <1>1, UsersStay DEF Session!Move

LEMMA StartingRefines ==
    ASSUME Inv, Serial, Outcome, NEW id \in CallId, Starting(id)
    PROVE  [Session!Next]_<<status, KnownCaller, KnownReceiver, told>>
<1> DEFINE a == caller[id]
           b == receiver[id]
<1>1. status[id] = "IDLE"
  BY DEF Starting, StartCall, ConversationRead, ConversationRefused,
         ReceiverBusy, ReceiverFree, Ring, Inv, Fresh
<1>2. CASE \/ \E u \in User : StartCall(id, u)
           \/ \E c \in Conversation, r \in User : ConversationRead(id, c, r)
           \/ ConversationRefused(id) \/ ReceiverFree(id)
  <2>1. /\ UNCHANGED <<status, told>>
        /\ \A i \in CallId \ {id} :
              caller'[i] = caller[i] /\ receiver'[i] = receiver[i]
    BY <1>2 DEF StartCall, ConversationRead, ConversationRefused,
                ReceiverFree, Inv, TypeOK
  <2> QED
    BY <1>1, <2>1 DEF KnownCaller, KnownReceiver, KnownOf
<1>3. ASSUME NEW to \in {"BUSY", "RINGING"}, a \in User, b \in User, a # b,
             status' = [status EXCEPT ![id] = to],
             UNCHANGED <<caller, receiver>>
      PROVE  Session!Attempt(id, a, b, to)
  <2>1. /\ KnownCaller' = [KnownCaller EXCEPT ![id] = a]
        /\ KnownReceiver' = [KnownReceiver EXCEPT ![id] = b]
    BY <1>3 DEF KnownCaller, KnownReceiver, KnownOf, Inv, TypeOK
  <2> QED
    BY <1>1, <1>3, <2>1 DEF Session!Attempt
<1>4. CASE ReceiverBusy(id)
  <2>1. a \in User /\ b \in User /\ a # b
    BY <1>4 DEF ReceiverBusy, Outcome, PartiesDiffer
  <2>2. Session!Attempt(id, a, b, "BUSY")
    BY <1>3, <1>4, <2>1 DEF ReceiverBusy
  <2>3. Session!Tell(id, Session!Listening(id, a), "busy")
    BY <1>4, <2>1 DEF ReceiverBusy, Tell, Session!Tell, Session!Listening,
                      OverRest, Inv, TypeOK
  <2>4. Session!InCall(b)
    BY <1>4, BusyIsInCall DEF ReceiverBusy
  <2> QED
    BY <2>1, <2>2, <2>3, <2>4 DEF Session!FindBusy, Session!Next
<1>5. CASE Ring(id)
  <2>1. a \in User /\ b \in User /\ a # b
    BY <1>5 DEF Ring, Outcome, PartiesDiffer
  <2>2. Session!Attempt(id, a, b, "RINGING")
    BY <1>3, <1>5, <2>1 DEF Ring
  <2>3. Session!Tell(id, Session!Listening(id, b), "incoming")
    BY <1>5, <2>1 DEF Ring, Tell, Session!Tell, Session!Listening, OverRest,
                      Inv, TypeOK
  <2>4. ~Session!InCall(b)
    BY <1>5, BusyIsInCall DEF Ring, Serial, ReadsAreCurrent
  <2> QED
    BY <2>1, <2>2, <2>3, <2>4 DEF Session!Ring, Session!Next
<1> QED
  BY <1>2, <1>4, <1>5 DEF Starting

LEMMA FinishingRefines ==
    ASSUME Inv, Serial, Outcome, NEW p \in pending, Finishing(p)
    PROVE  [Session!Next]_<<status, KnownCaller, KnownReceiver, told>>
<1> DEFINE id == p.id
<1>1. /\ id \in CallId /\ p.seen = status[id]
      /\ status[id] \notin {"IDLE", "BUSY"}
      /\ p.kind \in Kind /\ p.user \in User \cup {NoUser}
  BY DEF Inv, TypeOK, Operation, Serial, ReadsAreCurrent, Outcome,
         AnnouncedOnly
<1>2. UNCHANGED <<caller, receiver>>
  BY DEF Finishing, CallMissing, Refuse, Accept, Terminate, Expire
<1>3. /\ KnownReceiver[id] = receiver[id]
      /\ Session!Parties(id) = Parties(id)
  BY <1>1, PartiesKnown
<1>4. CASE UNCHANGED <<status, told>>
  BY <1>2, <1>4, UsersStay
<1>5. CASE CallMissing(p) /\ p.kind = "reject"
  <2>1. status[id] \in {"REJECTED", "CANCELLED", "ENDED"}
    BY <1>1, <1>5 DEF CallMissing, Active, Inv, TypeOK, CallState
  <2>2. UNCHANGED <<status, KnownCaller, KnownReceiver>>
    BY <1>2, <1>5, UsersStay DEF CallMissing
  <2>3. Tell(id, {p.user}, "rejected")
    BY <1>5 DEF CallMissing
  <2>4. CASE p.user \in User
    <3>1. Session!RejectLate(id, p.user)
      BY <2>1, <2>2, <2>3 DEF Session!RejectLate, Session!Tell, Tell
    <3> QED
      BY <1>1, <2>4, <3>1 DEF Session!Next
  <2>5. CASE p.user \notin User
    <3>1. \A u \in User : u \notin {p.user}
      BY <2>5
    <3>2. told' = told
      BY <2>3, <3>1 DEF Tell, Inv, TypeOK
    <3> QED
      BY <2>2, <3>2
  <2> QED
    BY <2>4, <2>5
<1>6. CASE Accept(p)
  <2>1. status[id] = "RINGING"
    BY <1>1, <1>6 DEF Accept, Valid, Target, ValidTransitions, Active,
                      CallState
  <2>2. /\ status' = [status EXCEPT ![id] = "ACCEPTED"]
        /\ Tell(id, Parties(id), "accepted")
    BY <1>1, <1>6, <2>1 DEF Accept, Notified, Active
  <2>3. Session!Move(id, {"RINGING"}, "ACCEPTED")
    BY <1>1, <1>2, <2>1, <2>2, MoveRefines DEF Inv
  <2>4. Session!Answer(id)
    BY <1>3, <2>2, <2>3 DEF Session!Answer, Session!Tell, Tell
  <2> QED
    BY <1>1, <2>4 DEF Session!Next
<1>7. CASE Terminate(p)
  <2> DEFINE to == Target(p.kind)
  <2>1. /\ status[id] \in {"RINGING", "ACCEPTED"}
        /\ status' = [status EXCEPT ![id] = to]
        /\ to \in ValidTransitions[status[id]]
        /\ Tell(id, Notified(p), TerminalEvent(p.kind))
    BY <1>1, <1>7 DEF Terminate, Removed, Valid, Active
  <2>2. CASE p.kind = "reject"
    <3>1. to = "REJECTED" /\ status[id] = "RINGING"
      BY <2>1, <2>2 DEF Target, ValidTransitions, CallState
    <3>2. Session!Move(id, {"RINGING"}, "REJECTED")
      BY <1>1, <1>2, <2>1, <3>1, MoveRefines DEF Inv
    <3>3. Session!Decline(id)
      BY <1>3, <2>1, <2>2, <3>2
         DEF Session!Decline, Session!Tell, Tell, Notified, TerminalEvent
    <3> QED
      BY <1>1, <3>3 DEF Session!Next
  <2>3. CASE p.kind = "cancel"
    <3>1. to = "CANCELLED" /\ status[id] = "RINGING"
      BY <2>1, <2>3 DEF Target, ValidTransitions, CallState
    <3>2. Session!Move(id, {"RINGING"}, "CANCELLED")
      BY <1>1, <1>2, <2>1, <3>1, MoveRefines DEF Inv
    <3>3. Session!Withdraw(id)
      BY <1>3, <2>1, <2>3, <3>2
         DEF Session!Withdraw, Session!Tell, Tell, Notified, TerminalEvent
    <3> QED
      BY <1>1, <3>3 DEF Session!Next
  <2>4. CASE p.kind = "end"
    <3>1. to = "ENDED"
      BY <2>4 DEF Target
    <3>2. Session!Move(id, {"RINGING", "ACCEPTED"}, "ENDED")
      BY <1>1, <1>2, <2>1, <3>1, MoveRefines DEF Inv
    <3>3. Session!HangUp(id)
      BY <1>3, <2>1, <2>4, <3>2
         DEF Session!HangUp, Session!Tell, Tell, Notified, TerminalEvent
    <3> QED
      BY <1>1, <3>3 DEF Session!Next
  <2> QED
    BY <1>7, <2>2, <2>3, <2>4 DEF Terminate
<1>8. CASE Expire(p)
  <2>1. /\ status[id] = "RINGING" /\ UNCHANGED told
        /\ status' = [status EXCEPT ![id] = "ENDED"]
    BY <1>1, <1>8 DEF Expire, Valid, Removed, Active
  <2>2. Session!Move(id, {"RINGING"}, "ENDED")
    BY <1>1, <1>2, <2>1, MoveRefines DEF Inv
  <2> QED
    BY <1>1, <2>1, <2>2 DEF Session!Miss, Session!Next
<1> QED
  BY <1>4, <1>5, <1>6, <1>7, <1>8 DEF Finishing, CallMissing, Refuse

LEMMA ListeningRefines ==
    ASSUME Serial, Outcome, NEW id \in CallId, Listening(id)
    PROVE  [Session!Next]_<<status, KnownCaller, KnownReceiver, told>>
<1>1. UNCHANGED <<status, KnownCaller, KnownReceiver>>
  BY UsersStay DEF Listening, SaveMissedCall, AnnounceMissedCall,
                   MissedCallFails
<1>2. CASE UNCHANGED told
  BY <1>1, <1>2
<1>3. CASE AnnounceMissedCall(id)
  <2>1. missed[id] # "none" /\ Tell(id, Parties(id), "ended")
    BY <1>3 DEF AnnounceMissedCall
  <2>2. status[id] = "ENDED"
    BY <2>1 DEF Outcome, MissedIsOver
  <2>3. \A u \in User : "accepted" \notin told[id][u]
    BY <2>1 DEF Serial, AnsweredIsNotMissed
  <2>4. Session!TellMissed(id)
    BY <1>1, <2>1, <2>2, <2>3, PartiesKnown
       DEF Session!TellMissed, Session!Tell, Tell
  <2> QED
    BY <2>4 DEF Session!Next
<1> QED
  BY <1>2, <1>3 DEF Listening, SaveMissedCall, MissedCallFails

LEMMA NextRefines ==
    Inv /\ Serial /\ Outcome /\ [Next]_vars =>
        [Session!Next]_<<status, KnownCaller, KnownReceiver, told>>
<1> SUFFICES ASSUME Inv, Serial, Outcome, [Next]_vars
             PROVE  [Session!Next]_<<status, KnownCaller, KnownReceiver, told>>
  OBVIOUS
<1>1. CASE UNCHANGED vars
  BY <1>1, UsersStay DEF vars
<1>2. ASSUME NEW id \in CallId,
             \/ TimerFires(id)
             \/ \E kind \in Kind, u \in User : Request(kind, u, id)
      PROVE  UNCHANGED <<status, KnownCaller, KnownReceiver, told>>
  BY <1>2, UsersStay DEF TimerFires, Request
<1> QED
  BY <1>1, <1>2, StartingRefines, FinishingRefines, ListeningRefines DEF Next

(* With such a store the call handlers implement a session whose every     *)
(* step is atomic: whoever is rung is in no other call, a change is checked*)
(* against the call itself although the handler checked a copy, and each   *)
(* outcome is told as it happens, but for a missed call, which is told     *)
(* later and only if it was never accepted.                                *)
THEOREM CallsAtomic == ASSUME ~StoreYields PROVE Spec => CallsAreAtomic
<1>1. Init => Session!Init
  BY InitRefines
<1>2. Inv /\ Serial /\ Outcome /\ [Next]_vars =>
          [Session!Next]_<<status, KnownCaller, KnownReceiver, told>>
  BY NextRefines
<1> QED
  BY <1>1, <1>2, InvHolds, SerialHolds, OutcomeHolds, PTL
     DEF Spec, CallsAreAtomic, Session!Spec
=============================================================================
