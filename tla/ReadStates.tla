------------------------------ MODULE ReadStates ------------------------------
(***************************************************************************)
(* What a user is told of his reading while receipt calls are under way:   *)
(* getConversationReadState, which asks for the read pointer and for the   *)
(* unread count at once and answers when both are there.  getUnreadCount   *)
(* and getUserUnreadCounts are its second half.                            *)
(*                                                                         *)
(* The reader asks again whenever he likes.  His view is the question      *)
(* under way, or the last answer; `settled` and `known` are history.       *)
(***************************************************************************)
EXTENDS MessageReceipts

CONSTANTS
    Reader,         \* bound: the users who ask
    MaxCalls        \* bound: the calls of a behaviour in which somebody asks

ASSUME ReaderAssumption == Reader \subseteq User /\ MaxCalls \in Nat

VARIABLE view       \* per reader:
                    \*   asked:   there is a question
                    \*   pending: the queries that have not answered
                    \*   pointer: lastReadMessageId and lastReadAt
                    \*   unread:  the messages counted
                    \*   known:   the messages stored when he asked
                    \*   settled: those he had every reason to take for read

readVars == <<vars, view>>

Queries == {"pointer", "unread"}
NoPointer == [message |-> NoMessage, at |-> Never]

(* Read by a call that was answered, or left out of the answer before. *)
Settled(u) ==
    {m \in Message : \E o \in Op :
        /\ op[o].phase = "done"
        /\ op[o].user = u
        /\ op[o].kind # "delivered"
        /\ stage[o][m] # "none"}
      \cup {m \in view[u].known \ view[u].unread : Author[m] # u}

ReadInit ==
    /\ Init
    /\ view = [u \in Reader |-> [asked |-> FALSE, pending |-> {},
                pointer |-> NoPointer, unread |-> {}, known |-> {},
                settled |-> {}]]

(* getConversationReadState, past its check of the membership. *)
Ask(u) ==
    /\ clock <= MaxCalls
    /\ view[u].pending = {}
    /\ view' = [view EXCEPT ![u] =
            [asked |-> TRUE, pending |-> Queries, pointer |-> NoPointer,
             unread |-> {}, known |-> stored, settled |-> Settled(u)]]
    /\ UNCHANGED vars

ReadPointer(u) ==
    /\ "pointer" \in view[u].pending
    /\ view' = [view EXCEPT ![u].pending = @ \ {"pointer"},
                            ![u].pointer = lastRead[u]]
    /\ UNCHANGED vars

CountDelivered(u) ==                                            \* mutant
    /\ "unread" \in view[u].pending
    /\ view' = [view EXCEPT ![u].pending = @ \ {"unread"},
                            ![u].unread = {m \in Unread(u) : ~Exists(m, u)}]
    /\ UNCHANGED vars

(* The messages of others that have no receipt of his with a readAt. *)
CountUnread(u) ==
    /\ "unread" \in view[u].pending
    /\ view' = [view EXCEPT ![u].pending = @ \ {"unread"},
                            ![u].unread = Unread(u)]
    /\ UNCHANGED vars

Asking == \E u \in Reader : view[u].asked

ReadNext ==
    \/ Next /\ UNCHANGED view /\ (Asking => clock' <= MaxCalls)
    \/ \E u \in Reader : Ask(u) \/ ReadPointer(u) \/ CountUnread(u)

ReadSpec == ReadInit /\ [][ReadNext]_readVars

-----------------------------------------------------------------------------
ViewRecord ==
    [asked : BOOLEAN, pending : SUBSET Queries,
     pointer : [message : Message \cup {NoMessage}, at : Stamp],
     unread : SUBSET Message, known : SUBSET Message,
     settled : SUBSET Message]

ViewTypeOK == view \in [Reader -> ViewRecord]

(* The message the reader is said to have read last is one he has read, or *)
(* his own.                                                                *)
PointerIsBacked(u) ==
    LET m == view[u].pointer.message IN
    m # NoMessage => Author[m] = u \/ receipts[m][u].read # Never

(* The count leaves out what an answered call has read and what an earlier *)
(* count left out, and has every message the reader could know of that is  *)
(* unread to this moment.                                                  *)
CountIsCurrent(u) ==
    LET v == view[u] IN
    v.asked /\ "unread" \notin v.pending =>
        /\ v.unread \cap v.settled = {}
        /\ v.known \cap Unread(u) \subseteq v.unread

(* A read state is true, although its halves are queried apart and receipt *)
(* calls of the same user race them: no message comes back into the count, *)
(* none is lost from it, and the pointer is at a message that is read.     *)
ReadStateIsTrue ==
    \A u \in Reader : PointerIsBacked(u) /\ CountIsCurrent(u)
=============================================================================
