-------------------------- MODULE MCConversations --------------------------
(* Conversations for TLC, in one run: a behaviour is one of the component  *)
(* that `side` names, while the others rest in an initial state.           *)
EXTENDS Conversations, TLC

CONSTANT alice

MCUserOf == [s \in Socket |-> alice]

MCEntry == 1..3

MCClientOf == "s1" :> "ann" @@ "s2" :> "ben"

(* Sorted sorts. *)
ASSUME \A S \in SUBSET (1..5) :
    LET sorted == History!Sorted(S, {p \in S \X S : p[1] > p[2]}) IN
    /\ {sorted[i] : i \in 1..Cardinality(S)} = S
    /\ \A i, j \in 1..Cardinality(S) : i < j => sorted[i] > sorted[j]

VARIABLE side

historyVars == <<row, now, call, screen, walk, rewritten, astray>>
listVars == <<updatedAt, listed, reader, untouched, torn, slipped>>
roomVars == <<member, line, room, joining, message, told, entitled, steady>>

(* Conversations are interchangeable: first dates that rise with them      *)
(* stand for all.                                                          *)
SideInit ==
    /\ side \in {"presence", "history", "list", "rooms"}
    /\ Init /\ History!Init
    /\ List!Init
    /\ \A c, d \in Entry : c < d => updatedAt[c] <= updatedAt[d]
    /\ side # "list" => listed = {} /\ \A c \in Entry : updatedAt[c] = 1
    /\ Rooms!Init /\ (side # "rooms" => member = {})

SideNext ==
    /\ UNCHANGED side
    /\ \/ /\ side = "presence" /\ Next
          /\ UNCHANGED <<historyVars, listVars, roomVars>>
       \/ /\ side = "history" /\ History!Next
          /\ UNCHANGED <<vars, listVars, roomVars>>
       \/ /\ side = "list" /\ List!Next
          /\ UNCHANGED <<vars, historyVars, roomVars>>
       \/ /\ side = "rooms" /\ Rooms!Next
          /\ UNCHANGED <<vars, historyVars, listVars>>

allVars == <<side, vars, historyVars, listVars, roomVars>>

SideSpec == SideInit /\ [][SideNext]_allVars

(* The fairness of Presence. *)
FairSideSpec == SideSpec /\ \A s \in Socket : WF_vars(Continue(s))
=============================================================================
