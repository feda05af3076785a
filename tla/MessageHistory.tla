--------------------------- MODULE MessageHistory ---------------------------
(***************************************************************************)
(* The messages of one conversation after they were sent: editing and      *)
(* deleting them (MessageService.updateMessage, deleteMessage, over REST   *)
(* or a socket), and reading them back: page by page with a cursor, one by *)
(* its id, and as the preview in the list of conversations.                *)
(*                                                                         *)
(* A Call is one edit or deletion by the sender of the message.  It reads  *)
(* a copy, decides, and then writes by id; only the gateway's handlers     *)
(* broadcast.  A message gets its createdAt when its insertion begins and  *)
(* is seen when it commits, so it may appear behind newer ones; two may    *)
(* carry the same createdAt, and ids order those.                          *)
(***************************************************************************)
EXTENDS Integers, Sequences, FiniteSets, Sorting

CONSTANTS
    LastMessage,    \* bound: the messages have the ids 1..LastMessage
    Text,           \* those of type TEXT
    Call,           \* bound: the edits and deletions
    Limit,          \* the messages of a page
    LastTime,       \* bound: the values of createdAt are 1..LastTime
    Failures        \* a call may be rejected, before or after its write

Message == 1..LastMessage
None == "none"

VARIABLES
    row,        \* per message: its row, at = 0 before it is begun
    now,        \* the time
    call,       \* the calls: what they do and where they stand
    screen,     \* per message: what the room's sockets were told of it last
    walk,       \* a member reading the history page by page
    raced,      \* history: messages written while another call held a copy
    astray      \* history: messages whose last change was not told, or was
                \*   written while the broadcast of another was awaited

vars == <<row, now, call, screen, walk, raced, astray>>

Stored == {m \in Message : row[m].stored}

Newer(m, n) ==
    \/ row[m].at > row[n].at
    \/ row[m].at = row[n].at /\ m > n

(* formatMessage, to its content: that of a deleted message is withheld. *)
Format(r) == [text |-> IF r.deletedAt = None THEN r.text ELSE None,
              deletedAt |-> r.deletedAt]

Init ==
    /\ row = [m \in Message |->
                  [stored |-> FALSE, at |-> 0, text |-> "sent",
                   deletedAt |-> None]]
    /\ now = 1
    /\ call = [c \in Call |-> [phase |-> "idle"]]
    /\ screen = [m \in Message |-> [text |-> "sent", deletedAt |-> None]]
    /\ walk = [phase |-> "idle", cursor |-> 0, items |-> <<>>, began |-> {}]
    /\ raced = {}
    /\ astray = {}

-----------------------------------------------------------------------------
Tick ==
    /\ now < LastTime
    /\ now' = now + 1
    /\ UNCHANGED <<row, call, screen, walk, raced, astray>>

(* A message.create takes its createdAt, *)
Stamp(m) ==
    /\ row[m].at = 0
    /\ row' = [row EXCEPT ![m].at = now]
    /\ UNCHANGED <<now, call, screen, walk, raced, astray>>

(* and commits. *)
Commit(m) ==
    /\ row[m].at # 0
    /\ ~row[m].stored
    /\ row' = [row EXCEPT ![m].stored = TRUE]
    /\ UNCHANGED <<now, call, screen, walk, raced, astray>>

-----------------------------------------------------------------------------
(* Edits and deletions. *)

Others(c, phase) ==
    {d \in Call \ {c} : call[d].phase = phase /\ call[d].message = call[c].message}

Over(c) == call' = [call EXCEPT ![c] = [phase |-> "over"]]

ModifiableOnce(kind, m) ==                                      \* mutant
    IF kind = "edit" THEN m \in Text ELSE row[m].deletedAt = None

Modifiable(kind, m) ==
    row[m].deletedAt = None /\ (kind = "edit" => m \in Text)

(* assertMessageOwner, and what the callers do with the copy it returns.   *)
(* They do not ask whether the sender is still a member.  Deleting what is *)
(* deleted succeeds, with the old deletedAt.                               *)
Find(c, kind, m, live) ==
    /\ call[c].phase = "idle"
    /\ row[m].stored
    /\ call' = [call EXCEPT ![c] =
           IF Modifiable(kind, m)
           THEN [phase |-> "write", message |-> m, kind |-> kind, live |-> live]
           ELSE IF kind = "delete" /\ live
           THEN [phase |-> "tell", message |-> m, event |-> Format(row[m])]
           ELSE [phase |-> "over"]]
    /\ UNCHANGED <<row, now, screen, walk, raced, astray>>

EventOfCopy(m, written) == Format(row[m])                       \* mutant

(* What the service returns, and the gateway broadcasts: the updated row.  *)
Event(m, written) == Format(written)

(* message.update.  Its answer may not arrive. *)
Write(c) ==
    LET m == call[c].message
        written == IF call[c].kind = "edit"
                   THEN [row[m] EXCEPT !.text = c]
                   ELSE [row[m] EXCEPT !.deletedAt = c] IN
    /\ call[c].phase = "write"
    /\ row' = [row EXCEPT ![m] = written]
    /\ raced' = IF Others(c, "write") # {} THEN raced \cup {m} ELSE raced
    /\ \/ /\ call[c].live
          /\ call' = [call EXCEPT ![c] =
                [phase |-> "tell", message |-> m, event |-> Event(m, written)]]
          /\ astray' = IF Others(c, "tell") # {} THEN astray \cup {m}
                       ELSE astray \ {m}
       \/ /\ Failures \/ ~call[c].live
          /\ Over(c)
          /\ astray' = astray \cup {m}
    /\ UNCHANGED <<now, screen, walk>>

(* The entries: the routes of MessageController and the gateway's handlers. *)
EditByRest(c, m) == Find(c, "edit", m, FALSE)
DeleteByRest(c, m) == Find(c, "delete", m, FALSE)
EditBySocket(c, m) == Find(c, "edit", m, TRUE)
DeleteBySocket(c, m) == Find(c, "delete", m, TRUE)

Reject(c) ==
    /\ Failures
    /\ call[c].phase = "write"
    /\ Over(c)
    /\ UNCHANGED <<row, now, screen, walk, raced, astray>>

(* The gateway's handler broadcasts to the room and acknowledges. *)
Tell(c) ==
    /\ call[c].phase = "tell"
    /\ screen' = [screen EXCEPT ![call[c].message] = call[c].event]
    /\ Over(c)
    /\ UNCHANGED <<row, now, walk, raced, astray>>

-----------------------------------------------------------------------------
(* Reading. *)

OlderByTime(cursor, m) == cursor = 0 \/ row[m].at < row[cursor].at  \* mutant

Older(cursor, m) == cursor = 0 \/ Newer(cursor, m)

NewestFirst == {p \in Message \X Message : Newer(p[1], p[2])}

(* The rows of a query for `count` messages after the cursor, newest first. *)
Query(cursor, count) ==
    LET rows == Sorted({m \in Stored : Older(cursor, m)}, NewestFirst) IN
    SubSeq(rows, 1, IF Len(rows) < count THEN Len(rows) ELSE count)

(* findMessages: one row more than a page tells whether there is more. *)
FindMessages(cursor) ==
    LET rows == Query(cursor, Limit + 1)
        more == Len(rows) > Limit
        page == IF more THEN SubSeq(rows, 1, Limit) ELSE rows IN
    [items |-> [i \in 1..Len(page) |-> page[Len(page) + 1 - i]],
     next |-> IF more THEN page[Len(page)] ELSE 0]

(* A client reads the history until there is no next cursor.  The row of   *)
(* the cursor, looked up first, keeps its createdAt.                       *)
StartWalk ==
    /\ walk.phase = "idle"
    /\ walk' = [walk EXCEPT !.phase = "reading", !.began = Stored]
    /\ UNCHANGED <<row, now, call, screen, raced, astray>>

ReadPage ==
    /\ walk.phase = "reading"
    /\ LET page == FindMessages(walk.cursor) IN
       walk' = [walk EXCEPT !.items = page.items \o @, !.cursor = page.next,
                            !.phase = IF page.next = 0 THEN "read" ELSE @]
    /\ UNCHANGED <<row, now, call, screen, raced, astray>>

(* findMessageById formats a row by itself. *)
FindMessageById(m) == Format(row[m])

(* The one message that getConversationInclude takes of a conversation:    *)
(* the order does not look at ids.                                         *)
LastIncluded == {m \in Stored : \A n \in Stored : row[n].at <= row[m].at}

(* formatConversation *)
Preview(m) ==
    [text |-> IF row[m].deletedAt # None THEN None ELSE row[m].text,
     deletedAt |-> row[m].deletedAt]

-----------------------------------------------------------------------------
Next ==
    \/ Tick
    \/ \E m \in Message : Stamp(m) \/ Commit(m)
    \/ \E c \in Call :
        \/ \E m \in Message :
            \/ EditByRest(c, m) \/ DeleteByRest(c, m)
            \/ EditBySocket(c, m) \/ DeleteBySocket(c, m)
        \/ Write(c) \/ Reject(c) \/ Tell(c)
    \/ StartWalk \/ ReadPage

Spec == Init /\ [][Next]_vars

-----------------------------------------------------------------------------
(* A member who pages through the history gets every message that was      *)
(* there when he began, each once and in their order, whatever is sent,    *)
(* edited or deleted meanwhile: cursors name a place and not a distance.   *)
WalkIsComplete ==
    /\ \A i, j \in 1..Len(walk.items) :
          i < j => Newer(walk.items[j], walk.items[i])
    /\ walk.phase = "read" =>
          \A m \in walk.began : \E i \in 1..Len(walk.items) : walk.items[i] = m

(* A deleted message keeps its text and the time of its deletion, unless a *)
(* call that had read it before it was deleted writes after.               *)
DeletionStands ==
    [][\A m \in Message :
        row[m].deletedAt # None => row'[m] = row[m] \/ m \in raced']_vars

(* Every view of a message shows what is stored of it.  The sockets of the *)
(* room do once its broadcasts are out - unless it was changed by REST,    *)
(* which tells nobody, by a call that failed after its write, or by one    *)
(* that overtook another between its write and its broadcast.  The preview *)
(* of a conversation is the newest message of its history, as the history  *)
(* shows it, unless the newest messages carry one createdAt.               *)
ViewsAreCurrent ==
    /\ \A m \in Stored \ astray :
          (\A c \in Call : call[c].phase = "tell" => call[c].message # m)
              => screen[m] = Format(row[m])
    /\ Cardinality(LastIncluded) = 1 =>
          LET page == FindMessages(0)
              last == page.items[Len(page.items)] IN
          \A m \in LastIncluded : m = last /\ Preview(m) = FindMessageById(last)
=============================================================================
