--------------------------- MODULE GroupMembership ---------------------------
(***************************************************************************)
(* The participants of one group: ConversationService.createGroup,         *)
(* addParticipant, removeParticipant and leaveConversation.                *)
(*                                                                         *)
(* Each call reads all participants at once, decides on that copy and then *)
(* writes row by row, by row id; other calls run between any two of its    *)
(* database calls.  A call that is refused on its copy changes nothing and *)
(* does not appear.                                                        *)
(***************************************************************************)
EXTENDS Naturals, FiniteSets

CONSTANTS
    User,
    Creator,
    Op,         \* bound: the calls that are not refused at once
    Failures    \* database calls may be rejected, a write after it commits

ASSUME GroupAssumption ==
    /\ Creator \in User
    /\ Failures \in BOOLEAN

VARIABLES
    member,     \* per user, the row of conversation_participants
    joins,      \* rows created since the group: joinedAt and ids grow with it
    op,         \* the calls: what they decided and where they stand
    stale       \* history: a write undid what a departure under way relies on

vars == <<member, joins, op, stale>>

Members == {u \in User : member[u].role # "NONE"}
Admins == {u \in User : member[u].role = "ADMIN"}

(* The row of u with this id is still there. *)
There(u, id) == u \in Members /\ member[u].id = id

Departing(o) == op[o].phase \in {"promote", "delete"}
Enter(o, phase) == op' = [op EXCEPT ![o].phase = phase]

Idle == [phase |-> "idle", kind |-> "none", role |-> "NONE",
         target |-> Creator, id |-> 0, heir |-> Creator, heirId |-> 0]

-----------------------------------------------------------------------------
(* createGroup: the creator is the admin, all joined at once. *)
Init ==
    /\ \E others \in SUBSET (User \ {Creator}) :
        /\ others # {}
        /\ member = [u \in User |->
              [id |-> 0, role |-> IF u = Creator THEN "ADMIN"
                                  ELSE IF u \in others THEN "MEMBER"
                                  ELSE "NONE"]]
    /\ joins = 0
    /\ op = [o \in Op |-> Idle]
    /\ stale = FALSE

(* The call has read all rows, and decided what to write. *)
Begin(o, phase, kind, role, t, h) ==
    /\ op[o].phase = "idle"
    /\ op' = [op EXCEPT ![o] =
                [phase |-> phase, kind |-> kind, role |-> role, target |-> t,
                 id |-> member[t].id, heir |-> h, heirId |-> member[h].id]]
    /\ UNCHANGED <<member, joins, stale>>

(* addParticipant: an admin adds a user who is no member yet. *)
ReadToAdd(o, u, t, role) ==
    /\ u \in Admins
    /\ t \notin Members
    /\ Begin(o, "create", "add", role, t, t)

RemoveAnyAdmin(o, u, t) ==                                      \* mutant
    /\ u \in Admins
    /\ t \in Members
    /\ Begin(o, "delete", "remove", "NONE", t, t)

(* removeParticipant: an admin removes a member, himself included, but not *)
(* the only admin while others remain.                                     *)
ReadToRemove(o, u, t) ==
    /\ u \in Admins
    /\ t \in Members
    /\ ~(Admins = {t} /\ Members # {t})
    /\ Begin(o, "delete", "remove", "NONE", t, t)

(* Those who joined no later than any other. *)
Eldest(S) == {u \in S : \A v \in S : member[u].id <= member[v].id}

(* leaveConversation: the only admin is first succeeded by the eldest of   *)
(* the others; rows made together with the group are equally old.          *)
ReadToLeave(o, u) ==
    LET others == Members \ {u} IN
    /\ u \in Members
    /\ IF Admins = {u} /\ others # {}
       THEN \E h \in Eldest(others) :
                Begin(o, "promote", "leave", "NONE", u, h)
       ELSE Begin(o, "delete", "leave", "NONE", u, u)

-----------------------------------------------------------------------------
(* History: a member who comes when all others have left, or leave, after  *)
(* the copy that the adding call decided on.                               *)
ComesLate ==
    \/ Members = {}
    \/ \E q \in Op : Departing(q) /\ Members = {op[q].target}

(* Unless the unique index has the user by now. *)
Create(o) ==
    LET t == op[o].target IN
    /\ op[o].phase = "create"
    /\ t \notin Members
    /\ joins' = joins + 1
    /\ member' = [member EXCEPT ![t] = [id |-> joins + 1, role |-> op[o].role]]
    /\ stale' = (stale \/ ComesLate)

Promote(o) ==
    LET h == op[o].heir IN
    /\ op[o].phase = "promote"
    /\ There(h, op[o].heirId)
    /\ member' = [member EXCEPT ![h].role = "ADMIN"]
    /\ UNCHANGED <<joins, stale>>

(* History: an admin goes while another departure counts on him, or may.   *)
GoesToo(o) ==
    /\ op[o].target \in Admins
    /\ \E q \in Op \ {o} : Departing(q) /\ op[q].target # op[o].target

Delete(o) ==
    LET t == op[o].target IN
    /\ op[o].phase = "delete"
    /\ There(t, op[o].id)
    /\ member' = [member EXCEPT ![t].role = "NONE"]
    /\ stale' = (stale \/ GoesToo(o))
    /\ UNCHANGED joins

Write(o) == Create(o) \/ Promote(o) \/ Delete(o)

(* The heir is followed by the deletion, every other write by the update   *)
(* of the conversation's updatedAt.                                        *)
AfterWrite(o) == IF op[o].phase = "promote" THEN "delete" ELSE "touch"

Written(o) ==
    /\ Write(o)
    /\ Enter(o, AfterWrite(o))

Touch(o) ==
    /\ op[o].phase = "touch"
    /\ Enter(o, "done")
    /\ UNCHANGED <<member, joins, stale>>

(* The row is gone, or the unique index holds the user already. *)
WriteRefused(o) ==
    /\ \/ op[o].phase = "create" /\ op[o].target \in Members
       \/ op[o].phase = "promote" /\ ~There(op[o].heir, op[o].heirId)
       \/ op[o].phase = "delete" /\ ~There(op[o].target, op[o].id)
    /\ Enter(o, "failed")
    /\ UNCHANGED <<member, joins, stale>>

(* A database call is rejected, a write perhaps after it has committed. *)
Rejected(o) ==
    /\ Failures
    /\ op[o].phase \in {"create", "promote", "delete", "touch"}
    /\ Write(o) \/ UNCHANGED <<member, joins, stale>>
    /\ Enter(o, "failed")

-----------------------------------------------------------------------------
Next ==
    \/ \E o \in Op, u \in User, t \in User :
        \/ \E role \in {"MEMBER", "ADMIN"} : ReadToAdd(o, u, t, role)
        \/ ReadToRemove(o, u, t)
    \/ \E o \in Op, u \in User : ReadToLeave(o, u)
    \/ \E o \in Op : Written(o) \/ Touch(o) \/ WriteRefused(o) \/ Rejected(o)

Spec == Init /\ [][Next]_vars

-----------------------------------------------------------------------------
Row == [id : Nat, role : {"NONE", "MEMBER", "ADMIN"}]
Call == [phase : {"idle", "create", "promote", "delete", "touch", "done",
                  "failed"},
         kind : {"none", "add", "remove", "leave"},
         role : {"NONE", "MEMBER", "ADMIN"},
         target : User, id : Nat, heir : User, heirId : Nat]

TypeOK ==
    /\ member \in [User -> Row]
    /\ joins \in Nat
    /\ op \in [Op -> Call]
    /\ stale \in BOOLEAN

(* A group with members has an admin, through any sequence of joining,     *)
(* leaving and removing and with calls that fail half-way and are repeated,*)
(* unless a write undid what a departure under way had found in its copy.  *)
AdminRemains == stale \/ Members = {} \/ Admins # {}

(* Whoever was told that he left, or removed a member, left nothing of the *)
(* membership he was told of; only a later one may be there.               *)
AnsweredIsGone ==
    \A o \in Op :
        op[o].phase = "done" /\ op[o].kind \in {"remove", "leave"} =>
            ~There(op[o].target, op[o].id)
=============================================================================
