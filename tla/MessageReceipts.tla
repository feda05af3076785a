--------------------------- MODULE MessageReceipts ---------------------------
(***************************************************************************)
(* MessageReceiptService: markDelivered, markRead and markMessagesAsRead   *)
(* of one conversation, called concurrently by the devices of its users,   *)
(* over REST or sockets.                                                   *)
(*                                                                         *)
(* Messages are numbered in the order of (createdAt, id), in which they    *)
(* need not reach the database.  A time stamp is a value of clock, which   *)
(* advances with every `new Date()`; 0 is null.  An Op is one call.  Per   *)
(* message it upserts a receipt - a lookup and then a create, which fails  *)
(* on the unique index if another call was faster - and sets readAt where  *)
(* it is null; the messages of a bulk call are worked on in parallel.      *)
(***************************************************************************)
EXTENDS Integers, FiniteSets

CONSTANTS
    User,
    LastMessage,    \* bound: the messages are 1..LastMessage
    Author,         \* Author[m]: the sender of m
    Op,             \* bound: the calls
    Failures        \* the database may reject a call

Message == 1..LastMessage
NoMessage == 0
Never == 0
Stamp == 0..Cardinality(Op)

ASSUME ReceiptAssumption ==
    /\ LastMessage \in Nat
    /\ Author \in [Message -> User]
    /\ IsFiniteSet(Op)
    /\ Failures \in BOOLEAN

VARIABLES
    stored,         \* the messages that reached the database
    receipts,       \* per message and user: deliveredAt and readAt
    lastRead,       \* per user: lastReadMessageId and lastReadAt
    clock,
    op,             \* the calls: what they were asked and where they stand
    stage           \* per call and message: the work on that receipt

vars == <<stored, receipts, lastRead, clock, op, stage>>

NoReceipt == [delivered |-> Never, read |-> Never]

Exists(m, u) == receipts[m][u] # NoReceipt

(* The where clause shared by the bulk call and the unread counts. *)
Unread(u) ==
    {m \in stored : Author[m] # u /\ receipts[m][u].read = Never}

UnreadUpTo(u, t) == {m \in Unread(u) : t # NoMessage => m <= t}

Latest(S) == CHOOSE m \in S : \A n \in S : n <= m

Busy(o) == {m \in Message : stage[o][m] \in {"look", "insert", "update"}}

Write(m, u, r) == receipts' = [receipts EXCEPT ![m][u] = r]

Advance(o, m, s) == stage' = [stage EXCEPT ![o][m] = s]

(* A call is asked for, with the time it takes. *)
Begin(o, kind, u, target, work) ==
    /\ clock' = clock + 1
    /\ op' = [op EXCEPT ![o] = [phase |-> "working", kind |-> kind, user |-> u,
                                target |-> target, now |-> clock + 1]]
    /\ stage' = [stage EXCEPT ![o] =
                    [m \in Message |-> IF m \in work THEN "look" ELSE "none"]]

-----------------------------------------------------------------------------
Init ==
    /\ stored = {}
    /\ receipts = [m \in Message |-> [u \in User |-> NoReceipt]]
    /\ lastRead = [u \in User |-> [message |-> NoMessage, at |-> Never]]
    /\ clock = 0
    /\ op = [o \in Op |-> [phase |-> "idle", kind |-> "none", user |-> "none",
                           target |-> NoMessage, now |-> Never]]
    /\ stage = [o \in Op |-> [m \in Message |-> "none"]]

Store(m) ==
    /\ m \notin stored
    /\ stored' = stored \cup {m}
    /\ UNCHANGED <<receipts, lastRead, clock, op, stage>>

(* markDelivered and markRead of a message of somebody else; a sender is   *)
(* refused and changes nothing.                                            *)
StartOne(o, kind, u, m) ==
    /\ op[o].phase = "idle"
    /\ m \in stored
    /\ Author[m] # u
    /\ Begin(o, kind, u, m, {m})
    /\ UNCHANGED <<stored, receipts, lastRead>>

(* markMessagesAsRead, up to a stored message t or to the end.  With       *)
(* nothing to do it returns, and leaves the read pointer.                  *)
StartBulk(o, u, t) ==
    LET work == UnreadUpTo(u, t) IN
    /\ op[o].phase = "idle"
    /\ t \in stored \cup {NoMessage}
    /\ work # {}
    /\ Begin(o, "bulk", u, IF t = NoMessage THEN Latest(work) ELSE t, work)
    /\ UNCHANGED <<stored, receipts, lastRead>>

LookExisting(o, m) ==                                           \* mutant
    /\ stage[o][m] = "look"
    /\ Advance(o, m, IF Exists(m, op[o].user) THEN "done" ELSE "insert")
    /\ UNCHANGED <<stored, receipts, lastRead, clock, op>>

(* The lookup of the upsert.  markDelivered stops at any receipt, as its   *)
(* own findUnique does: none is stored without deliveredAt.                *)
Look(o, m) ==
    LET r == receipts[m][op[o].user] IN
    /\ stage[o][m] = "look"
    /\ Advance(o, m, IF ~Exists(m, op[o].user) THEN "insert"
                     ELSE IF op[o].kind = "delivered" \/ r.read # Never
                     THEN "done" ELSE "update")
    /\ UNCHANGED <<stored, receipts, lastRead, clock, op>>

Insert(o, m) ==
    LET now == op[o].now IN
    /\ stage[o][m] = "insert"
    /\ ~Exists(m, op[o].user)
    /\ Write(m, op[o].user, [delivered |-> now, read |->
                 IF op[o].kind = "delivered" THEN Never ELSE now])
    /\ Advance(o, m, "done")
    /\ UNCHANGED <<stored, lastRead, clock, op>>

(* The call is rejected; what is under way for other messages goes on. *)
Abandon(o, m) ==
    /\ Advance(o, m, "done")
    /\ op' = [op EXCEPT ![o].phase = "failed"]
    /\ UNCHANGED <<stored, receipts, lastRead, clock>>

Duplicate(o, m) ==
    /\ stage[o][m] = "insert"
    /\ Exists(m, op[o].user)
    /\ Abandon(o, m)

Rejected(o, m) ==
    /\ Failures
    /\ m \in Busy(o)
    /\ Abandon(o, m)

UpdateAlways(o, m) ==                                           \* mutant
    LET u == op[o].user IN
    /\ stage[o][m] = "update"
    /\ Write(m, u, [receipts[m][u] EXCEPT !.read = op[o].now])
    /\ Advance(o, m, "done")
    /\ UNCHANGED <<stored, lastRead, clock, op>>

(* updateMany where readAt is null.  The deliveredAt it writes is that of  *)
(* the copy, which has not changed since.                                  *)
Update(o, m) ==
    LET u == op[o].user IN
    /\ stage[o][m] = "update"
    /\ IF receipts[m][u].read = Never
       THEN Write(m, u, [receipts[m][u] EXCEPT !.read = op[o].now])
       ELSE UNCHANGED receipts
    /\ Advance(o, m, "done")
    /\ UNCHANGED <<stored, lastRead, clock, op>>

(* markDelivered returns the receipt it found or created. *)
ReturnDelivered(o) ==
    /\ op[o].phase = "working"
    /\ op[o].kind = "delivered"
    /\ Busy(o) = {}
    /\ op' = [op EXCEPT ![o].phase = "done"]
    /\ UNCHANGED <<stored, receipts, lastRead, clock, stage>>

PointFirst(o) ==                                                \* mutant
    LET u == op[o].user IN
    /\ op[o].phase = "working"
    /\ op[o].kind # "delivered"
    /\ lastRead' = [lastRead EXCEPT ![u] =
                        [message |-> op[o].target, at |-> op[o].now]]
    /\ op' = [op EXCEPT ![o].phase = "done"]
    /\ UNCHANGED <<stored, receipts, clock, stage>>

(* updateParticipantReadPointer, which overwrites whatever pointer is      *)
(* there and whose failure is only logged.  markRead dates the pointer by  *)
(* the receipt, a bulk call by its own time.                               *)
Point(o) ==
    LET u == op[o].user
        m == op[o].target IN
    /\ op[o].phase = "working"
    /\ op[o].kind # "delivered"
    /\ Busy(o) = {}
    /\ \/ lastRead' = [lastRead EXCEPT ![u] = [message |-> m, at |->
              IF op[o].kind = "read" THEN receipts[m][u].read ELSE op[o].now]]
       \/ Failures /\ UNCHANGED lastRead
    /\ op' = [op EXCEPT ![o].phase = "done"]
    /\ UNCHANGED <<stored, receipts, clock, stage>>

-----------------------------------------------------------------------------
Start(o) ==
    \E u \in User :
        \/ \E m \in Message, kind \in {"delivered", "read"} :
                StartOne(o, kind, u, m)
        \/ \E t \in Message \cup {NoMessage} : StartBulk(o, u, t)

Work(o) ==
    \/ \E m \in Message :
            Look(o, m) \/ Insert(o, m) \/ Duplicate(o, m) \/ Rejected(o, m)
              \/ Update(o, m)
    \/ ReturnDelivered(o)
    \/ Point(o)

Next ==
    \/ \E m \in Message : Store(m)
    \/ \E o \in Op : Start(o) \/ Work(o)

Spec == Init /\ [][Next]_vars

-----------------------------------------------------------------------------
Receipt == [delivered : Stamp, read : Stamp]
OpRecord ==
    [phase : {"idle", "working", "done", "failed"},
     kind : {"none", "delivered", "read", "bulk"}, user : User \cup {"none"},
     target : Message \cup {NoMessage}, now : Stamp]

TypeOK ==
    /\ stored \subseteq Message
    /\ receipts \in [Message -> [User -> Receipt]]
    /\ lastRead \in [User -> [message : Message \cup {NoMessage}, at : Stamp]]
    /\ clock \in Stamp
    /\ op \in [Op -> OpRecord]
    /\ stage \in [Op -> [Message ->
            {"none", "look", "insert", "update", "done"}]]

(* READ satisfies DELIVERED, and nobody has receipts for messages of their *)
(* own, or for messages that are not there.                                *)
ReceiptsAreSane ==
    \A m \in Message, u \in User :
        /\ Exists(m, u) => m \in stored /\ Author[m] # u
        /\ receipts[m][u].read # Never => receipts[m][u].delivered # Never

(* The message a user is said to have read last is one that he has read,   *)
(* or one of his own: no call moves the pointer before its receipts, and   *)
(* no receipt is taken back.                                               *)
PointerIsRead ==
    \A u \in User :
        LET m == lastRead[u].message IN
        m # NoMessage => Author[m] = u \/ receipts[m][u].read # Never

(* A call that was answered with success has done its work, whichever      *)
(* calls of the same user it raced.                                        *)
AnsweredIsDone ==
    \A o \in Op : op[o].phase = "done" =>
        \A m \in Message : stage[o][m] # "none" =>
            IF op[o].kind = "delivered"
            THEN receipts[m][op[o].user].delivered # Never
            ELSE receipts[m][op[o].user].read # Never

(* Receipts are monotonic: a time of delivery or of reading, once there,   *)
(* keeps its first value; READ never regresses to DELIVERED.               *)
StampsPersist ==
    [][\A m \in Message, u \in User :
        /\ receipts[m][u].delivered # Never =>
              receipts'[m][u].delivered = receipts[m][u].delivered
        /\ receipts[m][u].read # Never =>
              receipts'[m][u].read = receipts[m][u].read]_vars
=============================================================================
