--------------------------- MODULE CallSignaling ---------------------------
(***************************************************************************)
(* One-to-one call signaling: CallSignalingService with its CallStore, the *)
(* call handlers of RealtimeGateway and the missed-call listener that the  *)
(* gateway registers.                                                      *)
(*                                                                         *)
(* A call id stands for one call attempt: it names the startCall invocation*)
(* while that is running and the CallSession afterwards.  Handlers are cut *)
(* where they suspend.  A database await always lets other handlers run.   *)
(* An await on the CallStore lets them run only if StoreYields is TRUE: the*)
(* interface is Promise based, but InMemoryCallStore settles its promises  *)
(* in microtasks, so with it a handler continues before any other event.   *)
(*                                                                         *)
(* All users belong to one project.                                        *)
(***************************************************************************)
EXTENDS Naturals, FiniteSets

CONSTANTS
    User,           \* communication users of the project
    CallId,         \* call attempts, each id is used once
    Conversation,   \* conversations a client may name in call:start
    Members,        \* Members[c]: the active participants of c
    Direct,         \* the conversations of type DIRECT
    NoUser,         \* "not known yet"
    StoreYields,    \* other handlers run while a CallStore promise settles
    DatabaseFails,  \* the writes of the missed-call listener may fail
    RestCalls,      \* the attempts made through POST calls/start
    MaxPending      \* bound: client operations at a CallStore await

ASSUME CallAssumption ==
    /\ NoUser \notin User
    /\ Members \in [Conversation -> SUBSET User]
    /\ Direct \subseteq Conversation
    /\ StoreYields \in BOOLEAN
    /\ DatabaseFails \in BOOLEAN
    /\ RestCalls \subseteq CallId
    /\ MaxPending \in Nat

VARIABLES
    status,     \* CallState of each call; IDLE: not created
    caller,     \* the user that started the attempt
    receiver,   \* the target, once the conversation is read
    starting,   \* where the startCall invocation of the id stands
    timers,     \* ringingTimeouts: the ids with an armed timer
    pending,    \* operations between their getCall and their effect
    missed,     \* progress of the missed-call listener of the id
    messages,   \* message:new emissions to the conversation room for it
    told        \* told[id][u]: the call events sent to u's room about id

vars == <<status, caller, receiver, starting, timers, pending, missed,
          messages, told>>

CallState == {"IDLE", "RINGING", "ACCEPTED", "REJECTED", "CANCELLED",
              "ENDED", "BUSY"}
Active == {"RINGING", "ACCEPTED"}
Event == {"incoming", "busy", "accepted", "rejected", "cancelled", "ended"}
Kind == {"accept", "reject", "cancel", "end", "timeout"}
Operation == [kind : Kind, user : User \cup {NoUser}, id : CallId,
              seen : CallState]
StartStep == {"unused", "conversation", "presence", "receiverFree", "settled"}
ListenerStep == {"none", "running", "saved", "done", "failed"}

(* VALID_CALL_TRANSITIONS *)
ValidTransitions ==
    [s \in CallState |->
        CASE s = "IDLE"     -> {"RINGING", "BUSY"}
          [] s = "RINGING"  -> {"ACCEPTED", "REJECTED", "CANCELLED", "ENDED"}
          [] s = "ACCEPTED" -> {"ENDED"}
          [] OTHER          -> {}]

-----------------------------------------------------------------------------
(* The CallStore keeps exactly the active calls: the terminal transitions  *)
(* delete the record, so a status outside Active means "not in the store". *)
Parties(id) == {caller[id], receiver[id]}

ActiveCalls == {id \in CallId : status[id] \in Active}

BusyAsReceiver(u) == \E id \in ActiveCalls : u = receiver[id]    \* mutant

Busy(u) == \E id \in ActiveCalls : u \in Parties(id)

(* The status an operation leads to, and who may ask for it. *)
Target(kind) ==
    CASE kind = "accept" -> "ACCEPTED"
      [] kind = "reject" -> "REJECTED"
      [] kind = "cancel" -> "CANCELLED"
      [] OTHER           -> "ENDED"

Entitled(p) ==
    CASE p.kind \in {"accept", "reject"} -> p.user = receiver[p.id]
      [] p.kind = "cancel"               -> p.user = caller[p.id]
      [] p.kind = "end"                  -> p.user \in Parties(p.id)
      [] p.kind = "timeout"              -> TRUE

Unvalidated(p) == TRUE                                          \* mutant

Valid(p) ==
    IF p.kind = "timeout" THEN p.seen = "RINGING"
                          ELSE Target(p.kind) \in ValidTransitions[p.seen]

(* No handler is waiting for a promise that the store has already settled. *)
AlwaysQuiet == TRUE                                             \* mutant

Quiet ==
    \/ StoreYields
    \/ /\ pending = {}
       /\ \A id \in CallId : starting[id] # "receiverFree"

(* The REST handler answers its caller and sends no event to anybody. *)
OverRest(id) == IF id \in RestCalls THEN User ELSE {}

Tell(id, users, event) ==
    told' = [told EXCEPT ![id] =
                [u \in User |-> IF u \in users THEN @[u] \cup {event}
                                                ELSE @[u]]]

-----------------------------------------------------------------------------
Init ==
    /\ status = [id \in CallId |-> "IDLE"]
    /\ caller = [id \in CallId |-> NoUser]
    /\ receiver = [id \in CallId |-> NoUser]
    /\ starting = [id \in CallId |-> "unused"]
    /\ timers = {}
    /\ pending = {}
    /\ missed = [id \in CallId |-> "none"]
    /\ messages = [id \in CallId |-> 0]
    /\ told = [id \in CallId |-> [u \in User |-> {}]]

-----------------------------------------------------------------------------
(* startCall *)

(* The caller is in no active call: go and read the conversation.  (A busy *)
(* caller is refused at once and nothing changes.)                         *)
StartCall(id, u) ==
    /\ Quiet
    /\ starting[id] = "unused"
    /\ ~Busy(u)
    /\ starting' = [starting EXCEPT ![id] = "conversation"]
    /\ caller' = [caller EXCEPT ![id] = u]
    /\ UNCHANGED <<status, receiver, timers, pending, missed, messages, told>>

(* findById answered with a direct conversation of the caller and its      *)
(* other participant: go and read the presence of that participant.        *)
ConversationRead(id, c, r) ==
    /\ Quiet
    /\ starting[id] = "conversation"
    /\ caller[id] \in Members[c]
    /\ c \in Direct
    /\ r \in Members[c] \ {caller[id]}
    /\ receiver' = [receiver EXCEPT ![id] = r]
    /\ starting' = [starting EXCEPT ![id] = "presence"]
    /\ UNCHANGED <<status, caller, timers, pending, missed, messages, told>>

(* findById failed, or answered with a conversation that cannot be called. *)
ConversationRefused(id) ==
    /\ Quiet
    /\ starting[id] = "conversation"
    /\ starting' = [starting EXCEPT ![id] = "settled"]
    /\ UNCHANGED <<status, caller, receiver, timers, pending, missed,
                   messages, told>>

(* The presence is read and the receiver is in another call. *)
ReceiverBusy(id) ==
    /\ Quiet
    /\ starting[id] = "presence"
    /\ Busy(receiver[id])
    /\ status' = [status EXCEPT ![id] = "BUSY"]
    /\ starting' = [starting EXCEPT ![id] = "settled"]
    /\ Tell(id, {caller[id]} \ OverRest(id), "busy")
    /\ UNCHANGED <<caller, receiver, timers, pending, missed, messages>>

(* The presence is read and the receiver is free. *)
ReceiverFree(id) ==
    /\ Quiet
    /\ starting[id] = "presence"
    /\ ~Busy(receiver[id])
    /\ starting' = [starting EXCEPT ![id] = "receiverFree"]
    /\ UNCHANGED <<status, caller, receiver, timers, pending, missed,
                   messages, told>>

ArmTimer(id) == timers' = timers \cup {id}

(* createCall, the ringing timeout and call:incoming.  The id is random, so*)
(* nobody can name the call before it is announced.                        *)
Ring(id) ==
    /\ starting[id] = "receiverFree"
    /\ status' = [status EXCEPT ![id] = "RINGING"]
    /\ ArmTimer(id)
    /\ starting' = [starting EXCEPT ![id] = "settled"]
    /\ Tell(id, {receiver[id]} \ OverRest(id), "incoming")
    /\ UNCHANGED <<caller, receiver, pending, missed, messages>>

-----------------------------------------------------------------------------
(* acceptCall, rejectCall, cancelCall, endCall and the ringing timeout *)

ClearTimer(id) == timers' = timers \ {id}

(* A client's operation reads the call.  Clients know the ids that were    *)
(* announced to them; any user may send one.                               *)
Request(kind, u, id) ==
    /\ Quiet
    /\ status[id] \notin {"IDLE", "BUSY"}
    /\ kind # "timeout"
    /\ Cardinality(pending) < MaxPending
    /\ pending' = pending \cup
            {[kind |-> kind, user |-> u, id |-> id, seen |-> status[id]]}
    /\ UNCHANGED <<status, caller, receiver, starting, timers, missed,
                   messages, told>>

(* The timer of the id fires: its entry goes and the call is read. *)
TimerFires(id) ==
    /\ Quiet
    /\ id \in timers
    /\ ClearTimer(id)
    /\ pending' = pending \cup {[kind |-> "timeout", user |-> NoUser,
                                 id |-> id, seen |-> status[id]]}
    /\ UNCHANGED <<status, caller, receiver, starting, missed, messages, told>>

(* The call was not there: accept throws, reject answers the sender with   *)
(* a made-up session, cancel and end send to the empty user id only, and   *)
(* the timeout returns.                                                    *)
CallMissing(p) ==
    /\ p \in pending
    /\ p.seen \notin Active
    /\ pending' = pending \ {p}
    /\ IF p.kind = "reject" THEN Tell(p.id, {p.user}, "rejected")
                            ELSE UNCHANGED told
    /\ UNCHANGED <<status, caller, receiver, starting, timers, missed, messages>>

(* A sender that is not entitled, a transition that is not in the table, or*)
(* a timeout that finds the call answered: an exception or a plain return. *)
Refuse(p) ==
    /\ p \in pending
    /\ p.seen \in Active
    /\ ~(Entitled(p) /\ Valid(p))
    /\ pending' = pending \ {p}
    /\ UNCHANGED <<status, caller, receiver, starting, timers, missed,
                   messages, told>>

(* The gateway sends accepted, rejected and ended to both users, cancelled *)
(* to the receiver only.                                                   *)
NotifiedCaller(p) == {caller[p.id]}                             \* mutant

Notified(p) == IF p.kind = "cancel" THEN {receiver[p.id]} ELSE Parties(p.id)

(* updateCall returns null when the call went away since it was read, and  *)
(* acceptCall then throws after it has cleared the timer.                  *)
Accept(p) ==
    /\ p \in pending
    /\ p.kind = "accept"
    /\ p.seen \in Active /\ Entitled(p) /\ Valid(p)
    /\ pending' = pending \ {p}
    /\ ClearTimer(p.id)
    /\ IF status[p.id] \in Active
       THEN /\ status' = [status EXCEPT ![p.id] = "ACCEPTED"]
            /\ Tell(p.id, Notified(p), "accepted")
       ELSE UNCHANGED <<status, told>>
    /\ UNCHANGED <<caller, receiver, starting, missed, messages>>

(* deleteCall does nothing when the call is gone. *)
Kept(id, final) == status                                       \* mutant

Removed(id, final) ==
    IF status[id] \in Active THEN [status EXCEPT ![id] = final] ELSE status

TerminalEvent(kind) ==
    CASE kind = "reject" -> "rejected"
      [] kind = "cancel" -> "cancelled"
      [] OTHER           -> "ended"

Terminate(p) ==
    /\ p \in pending
    /\ p.kind \in {"reject", "cancel", "end"}
    /\ p.seen \in Active /\ Entitled(p) /\ Valid(p)
    /\ pending' = pending \ {p}
    /\ ClearTimer(p.id)
    /\ status' = Removed(p.id, Target(p.kind))
    /\ Tell(p.id, Notified(p), TerminalEvent(p.kind))
    /\ UNCHANGED <<caller, receiver, starting, missed, messages>>

(* handleRingingTimeout after its read: only a call that was ringing is    *)
(* deleted, and the gateway's listener starts.                             *)
Expire(p) ==
    /\ p \in pending
    /\ p.kind = "timeout"
    /\ p.seen \in Active /\ Entitled(p) /\ Valid(p)
    /\ pending' = pending \ {p}
    /\ status' = Removed(p.id, "ENDED")
    /\ missed' = [missed EXCEPT ![p.id] = "running"]
    /\ UNCHANGED <<caller, receiver, starting, timers, messages, told>>

-----------------------------------------------------------------------------
(* The gateway's onCallTimeout listener *)

(* sendMessage has stored the missed-call message and published it. *)
SaveMissedCall(id) ==
    /\ Quiet
    /\ missed[id] = "running"
    /\ missed' = [missed EXCEPT ![id] = "saved"]
    /\ messages' = [messages EXCEPT ![id] = @ + 1]
    /\ UNCHANGED <<status, caller, receiver, starting, timers, pending, told>>

(* The listener emits the message itself, then call:ended to both users. *)
AnnounceMissedCall(id) ==
    /\ Quiet
    /\ missed[id] = "saved"
    /\ missed' = [missed EXCEPT ![id] = "done"]
    /\ messages' = [messages EXCEPT ![id] = @ + 1]
    /\ Tell(id, Parties(id), "ended")
    /\ UNCHANGED <<status, caller, receiver, starting, timers, pending>>

(* A rejected promise leaves the listener; handleRingingTimeout logs it. *)
MissedCallFails(id) ==
    /\ Quiet
    /\ DatabaseFails
    /\ missed[id] = "running"
    /\ missed' = [missed EXCEPT ![id] = "failed"]
    /\ UNCHANGED <<status, caller, receiver, starting, timers, pending,
                   messages, told>>

-----------------------------------------------------------------------------
Starting(id) ==
    \/ \E u \in User : StartCall(id, u)
    \/ \E c \in Conversation, r \in User : ConversationRead(id, c, r)
    \/ ConversationRefused(id)
    \/ ReceiverBusy(id)
    \/ ReceiverFree(id)
    \/ Ring(id)

Finishing(p) ==
    CallMissing(p) \/ Refuse(p) \/ Accept(p) \/ Terminate(p) \/ Expire(p)

Listening(id) ==
    SaveMissedCall(id) \/ AnnounceMissedCall(id) \/ MissedCallFails(id)

Next ==
    \/ \E id \in CallId : Starting(id) \/ TimerFires(id) \/ Listening(id)
    \/ \E kind \in Kind, u \in User, id \in CallId : Request(kind, u, id)
    \/ \E p \in pending : Finishing(p)

Spec == Init /\ [][Next]_vars

(* Node's event loop: settled promises, due timers and answered database   *)
(* calls are served between client events, however many of those arrive.   *)
(* Clients may never act.                                                  *)
Fairness ==
    /\ \A id \in CallId :
        /\ WF_vars(Ring(id))
        /\ SF_vars(TimerFires(id))
        /\ SF_vars(Listening(id))
    /\ \A p \in Operation : WF_vars(Finishing(p))

FairSpec == Spec /\ Fairness

-----------------------------------------------------------------------------
TypeOK ==
    /\ status \in [CallId -> CallState]
    /\ caller \in [CallId -> User \cup {NoUser}]
    /\ receiver \in [CallId -> User \cup {NoUser}]
    /\ starting \in [CallId -> StartStep]
    /\ timers \subseteq CallId
    /\ pending \subseteq Operation
    /\ missed \in [CallId -> ListenerStep]
    /\ messages \in [CallId -> 0..2]
    /\ told \in [CallId -> [User -> SUBSET Event]]

(* No call rings for ever: while a call is RINGING its timer is armed, or  *)
(* the timer has fired and handleRingingTimeout is about to delete it.     *)
RingingIsTimed ==
    \A id \in CallId : status[id] = "RINGING" =>
        \/ id \in timers
        \/ \E p \in pending : p.kind = "timeout" /\ p.id = id /\ p.seen = "RINGING"

(* No timer outlives the ringing it was armed for: accept, reject, cancel  *)
(* and end clear it before the call leaves RINGING.                        *)
TimersAreForRinging == \A id \in timers : status[id] = "RINGING"

(* Timers and ringing calls go together, also over a store that lets other *)
(* handlers run between the read of a call and what is done to it.         *)
TimersMatchRinging == RingingIsTimed /\ TimersAreForRinging

(* What the two isUserBusy checks of startCall achieve between them: of two*)
(* active calls, at least one has a receiver the other knows nothing about,*)
(* so nobody is rung by two calls and two users never ring each other.     *)
NoCrossedCalls ==
    \A id1, id2 \in ActiveCalls : id1 # id2 =>
        \/ receiver[id1] \notin Parties(id2)
        \/ receiver[id2] \notin Parties(id1)

(* A call that was answered is never reported as missed. *)
AnsweredIsNotMissed ==
    \A id \in CallId, u \in User :
        "accepted" \in told[id][u] => missed[id] = "none"

(* An attempt whose outcome is open is not a call that anybody knows of. *)
KnownOf(user) ==
    [id \in CallId |-> IF status[id] = "IDLE" THEN NoUser ELSE user[id]]

KnownCaller == KnownOf(caller)
KnownReceiver == KnownOf(receiver)

Session == INSTANCE CallSession
           WITH caller <- KnownCaller, receiver <- KnownReceiver

(* The handlers of a call, which read it, await and act on their copy, look*)
(* like steps that happen at once: the receiver is free when he is rung,   *)
(* VALID_CALL_TRANSITIONS holds of the call itself and not of the copy, and*)
(* every outcome is told to those whom it concerns.                        *)
CallsAreAtomic == Session!Spec

(* Every call stops ringing, whether or not a client ever reacts. *)
RingingEnds ==
    \A id \in CallId : status[id] = "RINGING" ~> status[id] # "RINGING"

(* A receiver that was told of an incoming call is told how it went on, on *)
(* every device, so that the device stops ringing; only a missed call whose*)
(* message cannot be stored leaves it ringing.                             *)
ReceiverStopsRinging ==
    \A id \in CallId, u \in User :
        "incoming" \in told[id][u] ~>
            \/ told[id][u] \cap {"accepted", "rejected", "cancelled", "ended"} # {}
            \/ missed[id] = "failed"
=============================================================================
