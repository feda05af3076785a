---------------------------- MODULE MessageSend ----------------------------
(***************************************************************************)
(* MessageService.sendMessage and persistMessage: sends with a client      *)
(* message id share one pending send on the server, look for a stored      *)
(* message of that id, store, broadcast and then touch the conversation.   *)
(*                                                                         *)
(* A Send is one invocation of sendMessage.  A key stands for the tuple    *)
(* [projectId, conversationId, senderId, clientId]; a retry is another     *)
(* Send with the same key.  A stored message is named by the Send that     *)
(* created it.  Each step below ends at a database await.                  *)
(***************************************************************************)
EXTENDS Naturals, FiniteSets

CONSTANTS
    Send, ClientKey,
    NoKey,      \* a send without a client message id
    KeyOf,      \* KeyOf[s]: the key of s or NoKey
    NoSend,
    Failures,   \* database calls may fail, a create perhaps after it commits
    Crashes     \* the process may stop and start again

ASSUME SendAssumption ==
    /\ NoKey \notin ClientKey
    /\ NoSend \notin Send
    /\ KeyOf \in [Send -> ClientKey \cup {NoKey}]
    /\ Failures \in BOOLEAN
    /\ Crashes \in BOOLEAN

VARIABLES
    phase,          \* where the invocation stands
    pendingSends,   \* per key, the send whose promise is shared
    leader,         \* the send a waiting invocation shares the promise of
    messages,       \* the stored messages
    answer,         \* the message an invocation returned
    broadcasts      \* how often a stored message was published

vars == <<phase, pendingSends, leader, messages, answer, broadcasts>>

Working == {"access", "lookup", "create", "stored", "touch"}
Phase == Working \cup {"idle", "waiting", "done", "failed", "lost"}

SameMessage(s, m) == s = m \/ (KeyOf[s] # NoKey /\ KeyOf[s] = KeyOf[m])

Stored(s) == {m \in messages : SameMessage(s, m)}

(* The invocations that the promise of s settles. *)
Settled(s) == {s} \cup {w \in Send : phase[w] = "waiting" /\ leader[w] = s}

(* The finally clause of sendMessage. *)
Forget(s) ==
    IF KeyOf[s] = NoKey THEN pendingSends
                        ELSE [pendingSends EXCEPT ![KeyOf[s]] = NoSend]

Resolve(s, m) ==
    /\ phase' = [w \in Send |-> IF w \in Settled(s) THEN "done" ELSE phase[w]]
    /\ answer' = [w \in Send |-> IF w \in Settled(s) THEN m ELSE answer[w]]
    /\ pendingSends' = Forget(s)

Reject(s) ==
    /\ phase' = [w \in Send |-> IF w \in Settled(s) THEN "failed" ELSE phase[w]]
    /\ pendingSends' = Forget(s)
    /\ UNCHANGED <<leader, messages, answer, broadcasts>>

-----------------------------------------------------------------------------
Init ==
    /\ phase = [s \in Send |-> "idle"]
    /\ pendingSends = [k \in ClientKey |-> NoSend]
    /\ leader = [s \in Send |-> NoSend]
    /\ messages = {}
    /\ answer = [s \in Send |-> NoSend]
    /\ broadcasts = [s \in Send |-> 0]

(* Without a client id nothing is shared. *)
SubmitPlain(s) ==
    /\ phase[s] = "idle"
    /\ KeyOf[s] = NoKey
    /\ phase' = [phase EXCEPT ![s] = "access"]
    /\ UNCHANGED <<pendingSends, leader, messages, answer, broadcasts>>

SubmitUnshared(s) ==                                            \* mutant
    /\ phase[s] = "idle"
    /\ KeyOf[s] # NoKey
    /\ phase' = [phase EXCEPT ![s] = "access"]
    /\ pendingSends' = [pendingSends EXCEPT ![KeyOf[s]] = s]
    /\ UNCHANGED <<leader, messages, answer, broadcasts>>

SubmitFirst(s) ==
    /\ phase[s] = "idle"
    /\ KeyOf[s] # NoKey
    /\ pendingSends[KeyOf[s]] = NoSend
    /\ phase' = [phase EXCEPT ![s] = "access"]
    /\ pendingSends' = [pendingSends EXCEPT ![KeyOf[s]] = s]
    /\ UNCHANGED <<leader, messages, answer, broadcasts>>

(* A retry of a send under way returns the promise of that send. *)
SubmitRetry(s) ==
    /\ phase[s] = "idle"
    /\ KeyOf[s] # NoKey
    /\ pendingSends[KeyOf[s]] # NoSend
    /\ phase' = [phase EXCEPT ![s] = "waiting"]
    /\ leader' = [leader EXCEPT ![s] = pendingSends[KeyOf[s]]]
    /\ UNCHANGED <<pendingSends, messages, answer, broadcasts>>

(* The conversation exists and the sender is a participant. *)
AccessGranted(s) ==
    /\ phase[s] = "access"
    /\ phase' = [phase EXCEPT ![s] =
                    IF KeyOf[s] = NoKey THEN "create" ELSE "lookup"]
    /\ UNCHANGED <<pendingSends, leader, messages, answer, broadcasts>>

AccessDenied(s) ==
    /\ phase[s] = "access"
    /\ Reject(s)

(* findRaw and findUnique return the message of an earlier send. *)
LookupFound(s, m) ==
    /\ phase[s] = "lookup"
    /\ m \in Stored(s)
    /\ Resolve(s, m)
    /\ UNCHANGED <<leader, messages, broadcasts>>

LookupEmpty(s) ==
    /\ phase[s] = "lookup"
    /\ Stored(s) = {}
    /\ phase' = [phase EXCEPT ![s] = "create"]
    /\ UNCHANGED <<pendingSends, leader, messages, answer, broadcasts>>

(* message.create commits; its answer is still on the way. *)
Create(s) ==
    /\ phase[s] = "create"
    /\ phase' = [phase EXCEPT ![s] = "stored"]
    /\ messages' = messages \cup {s}
    /\ UNCHANGED <<pendingSends, leader, answer, broadcasts>>

PublishEarly(s) ==                                              \* mutant
    /\ phase[s] \in {"create", "stored"}
    /\ phase' = [phase EXCEPT ![s] = "touch"]
    /\ broadcasts' = [broadcasts EXCEPT ![s] = @ + 1]
    /\ UNCHANGED <<pendingSends, leader, messages, answer>>

(* The answer of create arrives and the message is published to the        *)
(* participants that the access check read.                                *)
Publish(s) ==
    /\ phase[s] = "stored"
    /\ phase' = [phase EXCEPT ![s] = "touch"]
    /\ broadcasts' = [broadcasts EXCEPT ![s] = @ + 1]
    /\ UNCHANGED <<pendingSends, leader, messages, answer>>

TouchAndKeepPending(s) ==                                       \* mutant
    /\ phase[s] = "touch"
    /\ phase' = [phase EXCEPT ![s] = "done"]
    /\ answer' = [answer EXCEPT ![s] = s]
    /\ pendingSends' = Forget(s)
    /\ UNCHANGED <<leader, messages, broadcasts>>

(* conversation.update, whose failure is only logged. *)
Touch(s) ==
    /\ phase[s] = "touch"
    /\ Resolve(s, s)
    /\ UNCHANGED <<leader, messages, broadcasts>>

(* A database call rejects: in phase "create" nothing was stored, in phase *)
(* "stored" the create committed and its answer was lost.                  *)
DatabaseFails(s) ==
    /\ Failures
    /\ phase[s] \in {"access", "lookup", "create", "stored"}
    /\ Reject(s)

(* The process stops: its promises and its map are gone, and the senders   *)
(* get no answer.  What was stored stays.                                  *)
Crash ==
    /\ Crashes
    /\ phase' = [s \in Send |-> IF phase[s] \in Working \cup {"waiting"}
                                THEN "lost" ELSE phase[s]]
    /\ pendingSends' = [k \in ClientKey |-> NoSend]
    /\ UNCHANGED <<leader, messages, answer, broadcasts>>

-----------------------------------------------------------------------------
Submit(s) == SubmitPlain(s) \/ SubmitFirst(s) \/ SubmitRetry(s)

Persist(s) ==
    \/ AccessGranted(s)
    \/ AccessDenied(s)
    \/ \E m \in Send : LookupFound(s, m)
    \/ LookupEmpty(s)
    \/ Create(s)
    \/ Publish(s)
    \/ Touch(s)
    \/ DatabaseFails(s)

Next == (\E s \in Send : Submit(s) \/ Persist(s)) \/ Crash

Spec == Init /\ [][Next]_vars

(* Every database call is eventually answered. *)
FairSpec == Spec /\ \A s \in Send : WF_vars(Persist(s))

-----------------------------------------------------------------------------
TypeOK ==
    /\ phase \in [Send -> Phase]
    /\ pendingSends \in [ClientKey -> Send \cup {NoSend}]
    /\ leader \in [Send -> Send \cup {NoSend}]
    /\ messages \subseteq Send
    /\ answer \in [Send -> Send \cup {NoSend}]
    /\ broadcasts \in [Send -> 0..1]

(* A client message id is stored once, whatever is retried, fails or       *)
(* crashes: no unique index does this, only the pending map, the lookup and*)
(* the order of their steps.                                               *)
OneMessagePerKey ==
    \A m, n \in messages : SameMessage(m, n) => m = n

(* A waiting retry always has a running send to wait for, and the map knows*)
(* it: an entry that outlived its send would hand its old promise to every *)
(* later retry, one removed too early would let a second send start.       *)
PendingIsRunning ==
    /\ \A k \in ClientKey : pendingSends[k] # NoSend =>
            /\ phase[pendingSends[k]] \in Working
            /\ KeyOf[pendingSends[k]] = k
    /\ \A s \in Send : phase[s] \in Working /\ KeyOf[s] # NoKey =>
            pendingSends[KeyOf[s]] = s
    /\ \A s \in Send : phase[s] = "waiting" =>
            /\ KeyOf[s] # NoKey
            /\ pendingSends[KeyOf[s]] = leader[s]
            /\ leader[s] # NoSend

(* A message is published at most once, and only when it is stored. *)
BroadcastIsDurable == \A s \in Send : broadcasts[s] > 0 => s \in messages

(* Whoever was told that a message is sent can count on its having been    *)
(* broadcast.                                                              *)
AnsweredIsBroadcast ==
    \A s \in Send : answer[s] # NoSend => broadcasts[answer[s]] = 1

(* Every invocation that started is settled, the waiting ones included. *)
SendsSettle ==
    \A s \in Send : phase[s] \in Working \cup {"waiting"} ~>
                        phase[s] \in {"done", "failed", "lost"}

Abstract == INSTANCE IdempotentSend WITH messages <- messages, answer <- answer

(* sendMessage is an idempotent send. *)
IsIdempotent == Abstract!Spec
=============================================================================
