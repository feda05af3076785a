---------------------------- MODULE CallSession ----------------------------
(***************************************************************************)
(* What users may rely on of their calls: an attempt ends at once as busy, *)
(* or rings somebody who is in no other call; whatever is done to a call   *)
(* is done and told in one step, each outcome to the users whom it         *)
(* concerns; and a call that nobody answers in time is over before its     *)
(* users hear of it.                                                       *)
(***************************************************************************)
CONSTANTS User, CallId, NoUser, RestCalls

VARIABLES
    status,     \* the state of each call
    caller,     \* its users; NoUser until the attempt has an outcome
    receiver,
    told        \* told[id][u]: the events u has been sent about the call

Parties(id) == {caller[id], receiver[id]}

InCall(u) ==
    \E id \in CallId : status[id] \in {"RINGING", "ACCEPTED"} /\ u \in Parties(id)

Tell(id, users, event) ==
    told' = [told EXCEPT ![id] =
                [u \in User |-> IF u \in users THEN @[u] \cup {event}
                                                ELSE @[u]]]

(* An attempt over REST is answered, not told. *)
Listening(id, u) == IF id \in RestCalls THEN {} ELSE {u}

Init ==
    /\ status = [id \in CallId |-> "IDLE"]
    /\ caller = [id \in CallId |-> NoUser]
    /\ receiver = [id \in CallId |-> NoUser]
    /\ told = [id \in CallId |-> [u \in User |-> {}]]

Attempt(id, a, b, outcome) ==
    /\ status[id] = "IDLE" /\ a # b
    /\ status' = [status EXCEPT ![id] = outcome]
    /\ caller' = [caller EXCEPT ![id] = a]
    /\ receiver' = [receiver EXCEPT ![id] = b]

FindBusy(id, a, b) ==
    InCall(b) /\ Attempt(id, a, b, "BUSY") /\ Tell(id, Listening(id, a), "busy")

Ring(id, a, b) ==
    /\ ~InCall(b)
    /\ Attempt(id, a, b, "RINGING")
    /\ Tell(id, Listening(id, b), "incoming")

Move(id, from, to) ==
    /\ status[id] \in from
    /\ status' = [status EXCEPT ![id] = to]
    /\ UNCHANGED <<caller, receiver>>

Answer(id) ==
    Move(id, {"RINGING"}, "ACCEPTED") /\ Tell(id, Parties(id), "accepted")

Decline(id) ==
    Move(id, {"RINGING"}, "REJECTED") /\ Tell(id, Parties(id), "rejected")

Withdraw(id) ==
    Move(id, {"RINGING"}, "CANCELLED") /\ Tell(id, {receiver[id]}, "cancelled")

HangUp(id) ==
    /\ Move(id, {"RINGING", "ACCEPTED"}, "ENDED")
    /\ Tell(id, Parties(id), "ended")

Miss(id) == Move(id, {"RINGING"}, "ENDED") /\ UNCHANGED told

(* Of a missed call both hear that it is over; it was not accepted. *)
TellMissed(id) ==
    /\ status[id] = "ENDED"
    /\ \A u \in User : "accepted" \notin told[id][u]
    /\ Tell(id, Parties(id), "ended")
    /\ UNCHANGED <<status, caller, receiver>>

(* Who rejects a call that is over is told so, and nobody else is. *)
RejectLate(id, u) ==
    /\ status[id] \in {"REJECTED", "CANCELLED", "ENDED"}
    /\ Tell(id, {u}, "rejected")
    /\ UNCHANGED <<status, caller, receiver>>

Next ==
    \E id \in CallId :
        \/ \E a, b \in User : FindBusy(id, a, b) \/ Ring(id, a, b)
        \/ Answer(id) \/ Decline(id) \/ Withdraw(id) \/ HangUp(id)
        \/ Miss(id) \/ TellMissed(id)
        \/ \E u \in User : RejectLate(id, u)

Spec == Init /\ [][Next]_<<status, caller, receiver, told>>
=============================================================================
