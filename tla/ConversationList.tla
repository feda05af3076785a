-------------------------- MODULE ConversationList --------------------------
(***************************************************************************)
(* ConversationService.findUserConversations: a user pages through his     *)
(* conversations by page number, the most recently updated first, while    *)
(* messages move conversations to the front, and he joins and leaves some. *)
(*                                                                         *)
(* A page is made of two queries that run at the same time and see         *)
(* different states: a count, and the rows after an offset.  Conversations *)
(* updated at one time have no order: every query may put them differently.*)
(***************************************************************************)
EXTENDS Integers, FiniteSets

CONSTANTS
    Conversation,
    PageLimit,      \* the rows of a page
    LastUpdate      \* bound: the times, and values of updatedAt, are
                    \*   1..LastUpdate

Unread == -1        \* a query that has not been answered

VARIABLES
    updatedAt,      \* per conversation
    listed,         \* the conversations the user is a member of
    reader,         \* the client: its page, the answers it has, what it saw
    untouched,      \* history: listed since the reader began, and not moved
    torn,           \* history: a page that was read ended among those with
                    \*   the updatedAt of this one
    slipped         \* history: during the reading an entry left or moved
                    \*   back, or one came between a count and its rows

vars == <<updatedAt, listed, reader, untouched, torn, slipped>>

(* S begins the list in some order of the query, which is by updatedAt     *)
(* alone.                                                                  *)
Begins(S) == \A c \in S, d \in listed \ S : updatedAt[c] >= updatedAt[d]

(* What the first n rows may be. *)
Beginnings(n) ==
    {S \in SUBSET listed :
        /\ Cardinality(S) = IF n < Cardinality(listed) THEN n
                            ELSE Cardinality(listed)
        /\ Begins(S)}

Later(c) == {d \in listed : updatedAt[d] > updatedAt[c]}
NotEarlier(c) == {d \in listed : updatedAt[d] >= updatedAt[c]}

(* Conversations of one date that the end of the first n rows parts. *)
Parted(n) ==
    {c \in listed : /\ Cardinality(Later(c)) < n
                    /\ n < Cardinality(NotEarlier(c))}

TotalFullPages(count) == count \div PageLimit                   \* mutant

TotalPages(count) ==
    IF count = 0 THEN 1 ELSE (count + PageLimit - 1) \div PageLimit

HasNextPage(page, count) == page < TotalPages(count)

Reading == reader.phase = "reading"

(* An entry that came when the count is known and the rows are not. *)
Uncounted == Reading /\ reader.count # Unread

Init ==
    /\ updatedAt \in [Conversation -> 1..LastUpdate]
    /\ listed \in SUBSET Conversation
    /\ reader = [phase |-> "idle", page |-> 1, count |-> Unread,
                 rows |-> FALSE, saw |-> {}]
    /\ untouched = {}
    /\ torn = {}
    /\ slipped = FALSE

-----------------------------------------------------------------------------
(* A message, or a change of the group, takes the time and then writes it. *)
(* A handler may be held up in between, so that the date it writes is of   *)
(* any time: that of another conversation, or one before the date it       *)
(* replaces.                                                               *)
Touch(c, t) ==
    /\ updatedAt' = [updatedAt EXCEPT ![c] = t]
    /\ untouched' = untouched \ {c}
    /\ slipped' = (slipped \/ (Reading /\ c \in listed /\ t < updatedAt[c]))
    /\ UNCHANGED <<listed, reader, torn>>

(* He creates a conversation, or is added to one. *)
Join(c) ==
    /\ c \notin listed
    /\ listed' = listed \cup {c}
    /\ slipped' = (slipped \/ Uncounted)
    /\ UNCHANGED <<updatedAt, reader, untouched, torn>>

(* He leaves a conversation, or is removed from it. *)
Leave(c) ==
    /\ c \in listed
    /\ listed' = listed \ {c}
    /\ untouched' = untouched \ {c}
    /\ slipped' = (slipped \/ Reading)
    /\ UNCHANGED <<updatedAt, reader, torn>>

-----------------------------------------------------------------------------
Start ==
    /\ reader.phase = "idle"
    /\ reader' = [reader EXCEPT !.phase = "reading"]
    /\ untouched' = listed
    /\ UNCHANGED <<updatedAt, listed, torn, slipped>>

(* With both answers the page is returned; the client asks for the next    *)
(* one while hasNextPage.                                                  *)
Answer(r) ==
    reader' = IF r.count = Unread \/ ~r.rows THEN r
              ELSE [r EXCEPT !.page = r.page + 1, !.count = Unread,
                             !.rows = FALSE,
                             !.phase = IF HasNextPage(r.page, r.count)
                                       THEN "reading" ELSE "over"]

Count ==
    /\ Reading
    /\ reader.count = Unread
    /\ Answer([reader EXCEPT !.count = Cardinality(listed)])
    /\ UNCHANGED <<updatedAt, listed, untouched, torn, slipped>>

(* The rows from `before` on to `upTo`, in one of the orders. *)
FindMany ==
    LET skip == (reader.page - 1) * PageLimit
        end == reader.page * PageLimit IN
    /\ Reading
    /\ ~reader.rows
    /\ \E before \in Beginnings(skip), upTo \in Beginnings(end) :
        /\ before \subseteq upTo
        /\ Answer([reader EXCEPT !.rows = TRUE,
                                 !.saw = @ \cup (upTo \ before)])
    /\ torn' = torn \cup Parted(end)
    /\ UNCHANGED <<updatedAt, listed, untouched, slipped>>

-----------------------------------------------------------------------------
Next ==
    \/ \E c \in Conversation :
        \/ \E t \in 1..LastUpdate : Touch(c, t)
        \/ Join(c) \/ Leave(c)
    \/ Start \/ Count \/ FindMany

Spec == Init /\ [][Next]_vars

-----------------------------------------------------------------------------
(* Offsets move under a reader: conversations that come or are updated     *)
(* push others back, and he may be shown one twice.  But he misses none    *)
(* that nothing touched, unless one left the list or went back in it, or   *)
(* one came after a page's count was read and before its rows were, or one *)
(* of his pages ended among conversations of its date, which the next      *)
(* query may have put in another order.                                    *)
UntouchedAreSeen ==
    reader.phase = "over" /\ ~slipped =>
        untouched \ torn \subseteq reader.saw
=============================================================================
