-------------------------- MODULE IdempotentSend ---------------------------
(***************************************************************************)
(* What a client of the message service may rely on: of all the sends that *)
(* carry one client message id at most one is stored, and every send that  *)
(* is answered is answered with that stored message.                       *)
(***************************************************************************)
CONSTANTS Send, ClientKey, NoKey, KeyOf, NoSend

VARIABLES
    messages,   \* the sends whose message is stored
    answer      \* answer[s]: the message the sender of s was given

SameMessage(s, m) == s = m \/ (KeyOf[s] # NoKey /\ KeyOf[s] = KeyOf[m])

Init == messages = {} /\ answer = [s \in Send |-> NoSend]

Store(s) ==
    /\ ~\E m \in messages : SameMessage(s, m)
    /\ messages' = messages \cup {s}
    /\ UNCHANGED answer

(* A stored message is given to every send of A, all of the same message. *)
Answer(A, m) ==
    /\ m \in messages
    /\ \A s \in A : answer[s] = NoSend /\ SameMessage(s, m)
    /\ answer' = [s \in Send |-> IF s \in A THEN m ELSE answer[s]]
    /\ UNCHANGED messages

Next ==
    \/ \E s \in Send : Store(s)
    \/ \E A \in SUBSET Send, m \in Send : Answer(A, m)

Spec == Init /\ [][Next]_<<messages, answer>>
=============================================================================
