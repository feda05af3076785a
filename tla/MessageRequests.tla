--------------------------- MODULE MessageRequests ---------------------------
(***************************************************************************)
(* Message requests and the direct conversations they lead to:             *)
(* MessageRequestService and ConversationService.createDirect, for the     *)
(* users of one project.                                                   *)
(*                                                                         *)
(* An Op is one call of the API.  Nothing is kept in memory between its    *)
(* database calls, and nothing locks the rows: a phase names the database  *)
(* call an Op awaits, and any other Op may run before the answer.  A       *)
(* process that dies leaves its Ops unfinished, as a rejected call does.   *)
(***************************************************************************)
EXTENDS Naturals, FiniteSets

CONSTANTS
    User,
    Op,         \* bound: the calls
    Failures    \* database calls may be rejected, a write after it commits

ASSUME RequestAssumption == Failures \in BOOLEAN

(* The unique index [senderId, receiverId]: a request is named by its two  *)
(* users, in order; ids tell it from an earlier one that was deleted.      *)
Way == {w \in User \X User : w[1] # w[2]}
Sender(w) == w[1]
Receiver(w) == w[2]
Back(w) == <<w[2], w[1]>>
Both(w) == {w[1], w[2]}

VARIABLES
    request,    \* the message_requests collection
    direct,     \* per two users, the Ops that created a conversation of them
    op,         \* the calls: what they do and where they stand
    raced,      \* history: users of whom two creations overlapped
    crossed,    \* history: users of whom two sends overlapped
    stranded    \* history: users whose accepting call failed half-way

vars == <<request, direct, op, raced, crossed, stranded>>

Pending(w) == request[w].status = "PENDING"

Enter(o, phase) == op' = [op EXCEPT ![o].phase = phase]

(* The row the call read is still there. *)
Same(o) ==
    LET w == op[o].way IN
    request[w].status # "ABSENT" /\ request[w].id = op[o].id

SetStatus(o, status) ==
    request' = [request EXCEPT ![op[o].way].status = status]

Idle == [phase |-> "idle", kind |-> "none", user |-> "none", way |-> <<>>,
         id |-> 0]

-----------------------------------------------------------------------------
Init ==
    /\ request = [w \in Way |-> [status |-> "ABSENT", id |-> 0]]
    /\ direct = [p \in {Both(w) : w \in Way} |-> {}]
    /\ op = [o \in Op |-> Idle]
    /\ raced = {}
    /\ crossed = {}
    /\ stranded = {}

Kind == {"send", "accept", "reject", "cancel", "connect"}

(* The first database call of each operation.  Clients answer a request    *)
(* that they were shown; it may be gone when it is read.                   *)
First ==
    [send |-> "talking", accept |-> "asked", reject |-> "asked",
     cancel |-> "lookup", connect |-> "find"]

Start(o, kind, u, w) ==
    /\ op[o].phase = "idle"
    /\ u \in Both(w)
    /\ kind \in {"send", "connect"} => u = Sender(w)
    /\ kind \in {"accept", "reject"} => request[w].status # "ABSENT"
    /\ op' = [op EXCEPT ![o] = [phase |-> First[kind], kind |-> kind,
                    user |-> u, way |-> w, id |-> request[w].id]]
    /\ UNCHANGED <<request, direct, raced, crossed, stranded>>

-----------------------------------------------------------------------------
(* sendRequest *)

(* The two have a conversation: conflict. *)
Talking(o) ==
    /\ op[o].phase = "talking"
    /\ Enter(o, IF direct[Both(op[o].way)] = {} THEN "reverse" ELSE "failed")
    /\ UNCHANGED <<request, direct, raced, crossed, stranded>>

IgnoreReverse(o) ==                                             \* mutant
    /\ op[o].phase = "reverse"
    /\ Enter(o, "forward")
    /\ UNCHANGED <<request, direct, raced, crossed, stranded>>

(* A pending request the other way is accepted instead, and the send goes  *)
(* on as acceptRequest.                                                    *)
ReadReverse(o) ==
    LET w == Back(op[o].way) IN
    /\ op[o].phase = "reverse"
    /\ IF Pending(w)
       THEN op' = [op EXCEPT ![o] = [phase |-> "asked", kind |-> "accept",
                       user |-> op[o].user, way |-> w, id |-> request[w].id]]
       ELSE Enter(o, "forward")
    /\ UNCHANGED <<request, direct, raced, crossed, stranded>>

(* An earlier request of the same way: only a rejected one is sent again. *)
ReadForward(o) ==
    LET w == op[o].way IN
    /\ op[o].phase = "forward"
    /\ op' = [op EXCEPT ![o].id = request[w].id, ![o].phase =
                CASE request[w].status = "ABSENT"   -> "create"
                  [] request[w].status = "REJECTED" -> "resend"
                  [] OTHER                          -> "failed"]
    /\ UNCHANGED <<request, direct, raced, crossed, stranded>>

Sending(o) == op[o].phase \in {"forward", "create", "resend"}

(* History: the other user's send has read the reverse way already. *)
Cross(o) ==
    crossed' = IF \E q \in Op : Sending(q) /\ op[q].way = Back(op[o].way)
               THEN crossed \cup {Both(op[o].way)} ELSE crossed

(* Create, unless the unique index has the two users by now. *)
CreateRequest(o) ==
    LET w == op[o].way IN
    /\ op[o].phase = "create"
    /\ request[w].status = "ABSENT"
    /\ request' = [request EXCEPT ![w] =
                    [status |-> "PENDING", id |-> @.id + 1]]
    /\ Cross(o)
    /\ UNCHANGED <<direct, raced>>

Resend(o) ==
    /\ op[o].phase = "resend"
    /\ Same(o)
    /\ SetStatus(o, "PENDING")
    /\ Cross(o)
    /\ UNCHANGED <<direct, raced>>

-----------------------------------------------------------------------------
(* acceptRequest, rejectRequest and cancelRequest *)

(* An accepted request needs no mark. *)
AcceptNext(o) ==
    IF request[op[o].way].status = "ACCEPTED" THEN "find" ELSE "mark"

(* The request must be there and the caller its receiver; rejectRequest    *)
(* does not look at the status.                                            *)
ReadAsked(o) ==
    /\ op[o].phase = "asked"
    /\ Enter(o, CASE ~Same(o)                                -> "failed"
                  [] op[o].user # Receiver(op[o].way)        -> "failed"
                  [] op[o].kind = "reject"                   -> "refuse"
                  [] OTHER                                   -> AcceptNext(o))
    /\ UNCHANGED <<request, direct, raced, crossed, stranded>>

MarkAccepted(o) ==
    /\ op[o].phase = "mark"
    /\ Same(o)
    /\ SetStatus(o, "ACCEPTED")
    /\ UNCHANGED <<direct, raced, crossed>>

MarkRejected(o) ==
    /\ op[o].phase = "refuse"
    /\ Same(o)
    /\ SetStatus(o, "REJECTED")
    /\ UNCHANGED <<direct, raced, crossed>>

(* Either user may cancel, and the request of either way is found. *)
FindCancelled(o, w) ==
    /\ op[o].phase = "lookup"
    /\ Both(w) = Both(op[o].way)
    /\ request[w].status # "ABSENT"
    /\ op' = [op EXCEPT ![o].phase = "delete", ![o].way = w,
                        ![o].id = request[w].id]
    /\ UNCHANGED <<request, direct, raced, crossed, stranded>>

(* Nothing to cancel is success. *)
CancelNothing(o) ==
    /\ op[o].phase = "lookup"
    /\ \A w \in {op[o].way, Back(op[o].way)} : request[w].status = "ABSENT"
    /\ Enter(o, "done")
    /\ UNCHANGED <<request, direct, raced, crossed, stranded>>

DeleteRequest(o) ==
    /\ op[o].phase = "delete"
    /\ Same(o)
    /\ SetStatus(o, "ABSENT")
    /\ UNCHANGED <<direct, raced, crossed>>

-----------------------------------------------------------------------------
(* createDirect *)

Connecting(o) == op[o].phase = "connect"

FindNothing(o) ==                                               \* mutant
    LET p == Both(op[o].way) IN
    /\ op[o].phase = "find"
    /\ Enter(o, "connect")
    /\ raced' = IF \E q \in Op : Connecting(q) /\ Both(op[q].way) = p
                THEN raced \cup {p} ELSE raced
    /\ UNCHANGED <<request, direct, crossed, stranded>>

(* The conversation the two have, of whichever call, is returned. *)
FindDirect(o) ==
    LET p == Both(op[o].way) IN
    /\ op[o].phase = "find"
    /\ IF direct[p] = {}
       THEN /\ Enter(o, "connect")
            /\ raced' = IF \E q \in Op : Connecting(q) /\ Both(op[q].way) = p
                        THEN raced \cup {p} ELSE raced
       ELSE Enter(o, "done") /\ UNCHANGED raced
    /\ UNCHANGED <<request, direct, crossed, stranded>>

(* No unique index covers two users: this creates in any case. *)
CreateDirect(o) ==
    /\ op[o].phase = "connect"
    /\ direct' = [direct EXCEPT ![Both(op[o].way)] = @ \cup {o}]
    /\ UNCHANGED <<request, raced, crossed>>

-----------------------------------------------------------------------------
Read(o) ==
    \/ Talking(o) \/ ReadReverse(o) \/ ReadForward(o) \/ ReadAsked(o)
    \/ \E w \in Way : FindCancelled(o, w)
    \/ CancelNothing(o)
    \/ FindDirect(o)

Write(o) ==
    \/ CreateRequest(o) \/ Resend(o) \/ MarkAccepted(o) \/ MarkRejected(o)
    \/ DeleteRequest(o) \/ CreateDirect(o)

AnswerMarked(o) == "done"                                       \* mutant

(* acceptRequest goes on to createDirect; every other write is the last. *)
AfterWrite(o) == IF op[o].phase = "mark" THEN "find" ELSE "done"

Written(o) ==
    /\ Write(o)
    /\ Enter(o, AfterWrite(o))
    /\ UNCHANGED stranded

(* The row is gone, or the unique index holds it already. *)
WriteRefused(o) ==
    /\ \/ op[o].phase \in {"resend", "mark", "refuse", "delete"} /\ ~Same(o)
       \/ op[o].phase = "create" /\ request[op[o].way].status # "ABSENT"
    /\ Enter(o, "failed")
    /\ UNCHANGED <<request, direct, raced, crossed, stranded>>

(* A database call of o is not answered yet. *)
Waiting(o) == op[o].phase \notin {"idle", "done", "failed"}

(* History: a call that fails while it accepts or connects. *)
Strand(o) ==
    stranded' = IF op[o].phase \in {"mark", "find", "connect"}
                THEN stranded \cup {Both(op[o].way)} ELSE stranded

(* A database call is rejected, a write perhaps after it has committed. *)
Rejected(o) ==
    /\ Failures
    /\ Waiting(o)
    /\ Write(o) \/ UNCHANGED <<request, direct, raced, crossed>>
    /\ Enter(o, "failed")
    /\ Strand(o)

-----------------------------------------------------------------------------
Next ==
    \/ \E o \in Op, kind \in Kind, u \in User, w \in Way : Start(o, kind, u, w)
    \/ \E o \in Op : Read(o) \/ Written(o) \/ WriteRefused(o) \/ Rejected(o)

Spec == Init /\ [][Next]_vars

-----------------------------------------------------------------------------
Phase == {"talking", "reverse", "forward", "create", "resend", "asked", "mark",
          "refuse", "lookup", "delete", "find", "connect", "done", "failed"}
Request == [status : {"ABSENT", "PENDING", "ACCEPTED", "REJECTED"}, id : Nat]
Call == [phase : Phase, kind : Kind, user : User, way : Way, id : Nat]
People == {Both(w) : w \in Way}

TypeOK ==
    /\ request \in [Way -> Request]
    /\ direct \in [People -> SUBSET Op]
    /\ op \in [Op -> Call \cup {Idle}]
    /\ raced \subseteq People
    /\ crossed \subseteq People
    /\ stranded \subseteq People

(* createDirect returns the conversation that is there: two users have two *)
(* direct conversations only if two calls had both found none before either*)
(* created one, by whatever requests, answers and retries it came to that. *)
ConnectedOnce ==
    \A p \in People \ raced : \A a, b \in direct[p] : a = b

(* Two users with a pending request each way have sent them at once: a send*)
(* that follows the other is turned into its acceptance, also after        *)
(* rejections, cancellations and resends.                                  *)
MutualIsRace ==
    \A w \in Way : Pending(w) /\ Pending(Back(w)) => Both(w) \in crossed

(* An accepted request has its conversation or a call at work on it, unless*)
(* such a call has failed half-way.                                        *)
AcceptedIsConnected ==
    \A w \in Way : request[w].status = "ACCEPTED" =>
        \/ direct[Both(w)] # {}
        \/ \E o \in Op : /\ op[o].phase \in {"find", "connect"}
                         /\ Both(op[o].way) = Both(w)
        \/ Both(w) \in stranded

(* Whoever was told that he accepted, or opened, a conversation has one,   *)
(* also when an earlier acceptance had failed half-way.                    *)
AnsweredIsConnected ==
    \A o \in Op :
        op[o].phase = "done" /\ op[o].kind \in {"accept", "connect"} =>
            direct[Both(op[o].way)] # {}

(* The two together: an acceptance makes the conversation it promises. *)
AcceptanceConnects == AcceptedIsConnected /\ AnsweredIsConnected
=============================================================================
