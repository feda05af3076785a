----------------------- MODULE MessageRequestsProofs -----------------------
(***************************************************************************)
(* Proofs about MessageRequests for any users and calls.  What is invariant*)
(* beyond the properties: while a call is between its look for a           *)
(* conversation and the creation of one, the two users have none and no    *)
(* other call is there too, unless they raced; and while a send is past its*)
(* look at the reverse way, that way has no pending request, unless the    *)
(* sends crossed.                                                          *)
(***************************************************************************)
EXTENDS MessageRequests, TLAPS

Kinds ==
    \A o \in Op :
        /\ op[o].phase \in {"talking", "reverse", "forward", "create", "resend"}
              => op[o].kind = "send"
        /\ op[o].phase = "refuse" => op[o].kind = "reject"
        /\ op[o].phase \in {"lookup", "delete"} => op[o].kind = "cancel"

Connects ==
    \A o \in Op : Connecting(o) /\ Both(op[o].way) \notin raced =>
        /\ direct[Both(op[o].way)] = {}
        /\ \A q \in Op : Connecting(q) /\ Both(op[q].way) = Both(op[o].way)
              => q = o

Crosses ==
    \A o \in Op : Sending(o) /\ Pending(Back(op[o].way)) =>
        Both(op[o].way) \in crossed

Inv ==
    /\ TypeOK
    /\ Kinds
    /\ Connects /\ ConnectedOnce
    /\ Crosses /\ MutualIsRace
    /\ AcceptedIsConnected
    /\ AnsweredIsConnected

-----------------------------------------------------------------------------
(* Names of the two users of a request. *)
LEMMA WayFacts ==
  ASSUME NEW w \in Way
  PROVE  /\ Back(w) \in Way /\ Back(Back(w)) = w
         /\ Both(Back(w)) = Both(w) /\ Both(w) \in People
  BY DEF Way, Back, Both, People

LEMMA BothFacts ==
  ASSUME NEW v \in Way, NEW w \in Way, Both(v) = Both(w)
  PROVE  v = w \/ v = Back(w)
  BY DEF Way, Back, Both

LEMMA CallFacts ==
  ASSUME TypeOK, NEW o \in Op, op[o].phase # "idle"
  PROVE  /\ op[o] \in Call /\ op[o].way \in Way /\ op[o].phase \in Phase
         /\ op[o].kind \in Kind /\ op[o].user \in User /\ op[o].id \in Nat
  <1>1. op[o] \in Call
    BY DEF TypeOK, Idle
  <1> QED
    BY <1>1 DEF Call

(* Only the call of o moves. *)
Moves(o) == \A q \in Op \ {o} : op'[q] = op[q]

LEMMA EnterFacts ==
  ASSUME TypeOK, NEW o \in Op, op[o].phase # "idle", NEW p \in Phase,
         Enter(o, p)
  PROVE  /\ op' \in [Op -> Call \cup {Idle}]
         /\ Moves(o)
         /\ op'[o].phase = p /\ op'[o].way = op[o].way
         /\ op'[o].kind = op[o].kind /\ op'[o].user = op[o].user
  <1>1. op[o] \in Call /\ op \in [Op -> Call \cup {Idle}]
    BY CallFacts DEF TypeOK
  <1>2. [op[o] EXCEPT !.phase = p] \in Call
    BY <1>1 DEF Call
  <1>3. op' = [op EXCEPT ![o] = [op[o] EXCEPT !.phase = p]]
    BY DEF Enter
  <1>4. op'[o] = [op[o] EXCEPT !.phase = p]
    BY <1>1, <1>3
  <1> QED
    BY <1>1, <1>2, <1>3, <1>4 DEF Moves, Call

-----------------------------------------------------------------------------
(* What a step that leaves a part of the invariant alone has to respect. *)
LEMMA KindsFrame ==
  ASSUME Kinds, NEW o \in Op, Moves(o), 
         \/ op'[o].phase \in {"asked", "mark", "find", "connect", "done", "failed"}
         \/ op'[o].phase \in {"talking", "reverse", "forward", "create", "resend"}
              /\ op'[o].kind = "send"
         \/ op'[o].phase = "refuse" /\ op'[o].kind = "reject"
         \/ op'[o].phase \in {"lookup", "delete"} /\ op'[o].kind = "cancel"
  PROVE  Kinds'
  BY DEF Kinds, Moves

LEMMA ConnectsFrame ==
  ASSUME Connects, ConnectedOnce, NEW o \in Op, Moves(o),
         UNCHANGED <<direct, raced>>, op'[o].phase # "connect"
  PROVE  Connects' /\ ConnectedOnce'
  BY DEF Connects, ConnectedOnce, Connecting, Moves

LEMMA CrossesFrame ==
  ASSUME TypeOK, Crosses, MutualIsRace, NEW o \in Op, Moves(o),
         UNCHANGED crossed,
         \A w \in Way : Pending(w)' => Pending(w),
         Sending(o)' => /\ op[o].phase # "idle"
                        /\ op'[o].way = op[o].way
                        /\ Sending(o) \/ ~Pending(Back(op[o].way))
  PROVE  Crosses' /\ MutualIsRace'
  <1>1. MutualIsRace'
    BY WayFacts DEF MutualIsRace
  <1>2. ASSUME NEW q \in Op, Sending(q)', Pending(Back(op[q].way))'
        PROVE  Both(op'[q].way) \in crossed'
    <2>1. op[q].phase # "idle" /\ op'[q].way = op[q].way
      BY <1>2 DEF Moves, Sending
    <2>2. op[q].way \in Way /\ Back(op[q].way) \in Way
      BY <2>1, CallFacts, WayFacts
    <2>3. Pending(Back(op[q].way))
      BY <1>2, <2>1, <2>2 DEF Pending
    <2>4. Sending(q)
      BY <1>2, <2>3 DEF Moves, Sending
    <2> QED
      BY <2>1, <2>3, <2>4 DEF Crosses
  <1> QED
    BY <1>1, <1>2 DEF Crosses, Sending, Pending

LEMMA AcceptedFrame ==
  ASSUME TypeOK, AcceptedIsConnected, NEW o \in Op, Moves(o),
         \A w \in Way : request'[w].status = "ACCEPTED" =>
            request[w].status = "ACCEPTED",
         \A p \in People : direct[p] \subseteq direct'[p],
         stranded \subseteq stranded',
         op[o].phase \in {"find", "connect"} =>
            \/ /\ op'[o].phase \in {"find", "connect"}
               /\ op'[o].way = op[o].way
            \/ direct'[Both(op[o].way)] # {}
            \/ Both(op[o].way) \in stranded'
  PROVE  AcceptedIsConnected'
  <1> SUFFICES ASSUME NEW w \in Way, request'[w].status = "ACCEPTED",
                      direct'[Both(w)] = {}, Both(w) \notin stranded'
               PROVE  \E q \in Op : /\ op'[q].phase \in {"find", "connect"}
                                    /\ Both(op'[q].way) = Both(w)
    BY DEF AcceptedIsConnected
  <1>1. direct[Both(w)] = {} /\ Both(w) \notin stranded
    BY WayFacts
  <1>2. PICK q \in Op : /\ op[q].phase \in {"find", "connect"}
                        /\ Both(op[q].way) = Both(w)
    BY <1>1 DEF AcceptedIsConnected
  <1> QED
    BY <1>2 DEF Moves

LEMMA AnsweredFrame ==
  ASSUME TypeOK, AnsweredIsConnected, NEW o \in Op, Moves(o),
         \A p \in People : direct[p] \subseteq direct'[p],
         op'[o].phase = "done" /\ op'[o].kind \in {"accept", "connect"} =>
            direct'[Both(op'[o].way)] # {}
  PROVE  AnsweredIsConnected'
  <1> SUFFICES ASSUME NEW q \in Op, q # o, op'[q].phase = "done",
                      op'[q].kind \in {"accept", "connect"}
               PROVE  direct'[Both(op'[q].way)] # {}
    BY DEF AnsweredIsConnected
  <1>1. op'[q] = op[q]
    BY DEF Moves
  <1>2. direct[Both(op[q].way)] # {}
    BY <1>1 DEF AnsweredIsConnected
  <1>3. Both(op[q].way) \in People
    BY <1>1, CallFacts, WayFacts
  <1> QED
    BY <1>1, <1>2, <1>3

-----------------------------------------------------------------------------
LEMMA InitHolds == Init => Inv
  <1> SUFFICES ASSUME Init PROVE Inv
    OBVIOUS
  <1>1. TypeOK
    BY DEF Init, TypeOK, Request, People
  <1>2. \A o \in Op : op[o].phase = "idle"
    BY DEF Init, Idle
  <1>3. Kinds /\ Connects /\ Crosses /\ AnsweredIsConnected
    BY <1>2 DEF Kinds, Connects, Connecting, Crosses, Sending,
       AnsweredIsConnected
  <1>4. ConnectedOnce
    BY DEF Init, ConnectedOnce, People
  <1>5. MutualIsRace /\ AcceptedIsConnected
    BY DEF Init, MutualIsRace, AcceptedIsConnected, Pending
  <1> QED
    BY <1>1, <1>3, <1>4, <1>5 DEF Inv

(* A call begins. *)
LEMMA StartKeeps ==
  ASSUME Inv, NEW o \in Op, NEW kind \in Kind, NEW u \in User, NEW w \in Way,
         Start(o, kind, u, w)
  PROVE  Inv'
  <1> DEFINE c == [phase |-> First[kind], kind |-> kind, user |-> u,
                   way |-> w, id |-> request[w].id]
  <1>1. TypeOK
    BY DEF Inv
  <1>2. op' = [op EXCEPT ![o] = c]
    BY DEF Start
  <1>3. /\ First[kind] \in {"talking", "asked", "lookup", "find"}
        /\ First[kind] = "talking" => kind = "send"
        /\ First[kind] = "lookup" => kind = "cancel"
    BY DEF First, Kind
  <1>4. c \in Call
    BY <1>1, <1>3 DEF Call, Phase, TypeOK, Request
  <1>5. op'[o] = c /\ Moves(o) /\ op' \in [Op -> Call \cup {Idle}]
    BY <1>1, <1>2, <1>4 DEF Moves, TypeOK
  <1>6. op'[o].phase = First[kind] /\ op'[o].kind = kind
    BY <1>5
  <1>7. UNCHANGED <<request, direct, raced, crossed, stranded>>
    BY DEF Start
  <1>8. op[o].phase = "idle"
    BY DEF Start
  <1>9. TypeOK'
    BY <1>1, <1>5, <1>7 DEF TypeOK
  <1>10. Kinds'
    BY <1>3, <1>5, <1>6, KindsFrame DEF Inv
  <1>11. Connects' /\ ConnectedOnce'
    BY <1>3, <1>5, <1>6, <1>7, ConnectsFrame DEF Inv
  <1>12. Crosses' /\ MutualIsRace'
    <2>1. ~Sending(o)'
      BY <1>3, <1>6 DEF Sending
    <2> QED
      BY <1>1, <1>5, <1>7, <2>1, CrossesFrame DEF Inv, Pending
  <1>13. AcceptedIsConnected'
    BY <1>1, <1>5, <1>7, <1>8, AcceptedFrame DEF Inv
  <1>14. AnsweredIsConnected'
    BY <1>1, <1>3, <1>5, <1>6, <1>7, AnsweredFrame DEF Inv
  <1> QED
    BY <1>9, <1>10, <1>11, <1>12, <1>13, <1>14 DEF Inv

-----------------------------------------------------------------------------
(* A read changes no row, and takes the call to its next phase. *)
LEMMA ReadMoves ==
  ASSUME TypeOK, Kinds, NEW o \in Op, Read(o)
  PROVE  /\ UNCHANGED <<request, direct, crossed, stranded>>
         /\ op[o].phase \in {"talking", "reverse", "forward", "asked", "lookup",
                             "find"}
         /\ op' \in [Op -> Call \cup {Idle}] /\ Moves(o)
         /\ Kinds'
         /\ op'[o].phase = "connect" => op[o].phase = "find"
         /\ op[o].phase = "find" =>
               /\ op'[o].way = op[o].way
               /\ \/ op'[o].phase = "connect"
                  \/ direct[Both(op[o].way)] # {}
         /\ Sending(o)' => /\ op'[o].way = op[o].way
                           /\ Sending(o) \/ ~Pending(Back(op[o].way))
         /\ op'[o].phase = "done" =>
               \/ op'[o].kind = "cancel"
               \/ op[o].phase = "find" /\ direct[Both(op[o].way)] # {}
  <1> DEFINE D == op'[o]
  <1>1. CASE Talking(o)
    <2>1. /\ op[o].phase = "talking"
          /\ \/ Enter(o, "reverse")
             \/ Enter(o, "failed")
      BY <1>1 DEF Talking
    <2>2. op[o].kind = "send"
      BY <2>1 DEF Kinds
    <2>3. /\ op' \in [Op -> Call \cup {Idle}] /\ Moves(o)
          /\ D.phase \in {"reverse", "failed"} /\ D.kind = "send"
      BY <2>1, <2>2, EnterFacts DEF Phase
    <2> QED
      BY <1>1, <2>1, <2>3, KindsFrame DEF Talking, Sending
  <1>2. CASE ReadReverse(o)
    <2>1. op[o].phase = "reverse"
      BY <1>2 DEF ReadReverse
    <2>2. op[o].kind = "send" /\ op[o] \in Call /\ op[o].way \in Way
      BY <2>1, CallFacts DEF Kinds
    <2>3. CASE ~Pending(Back(op[o].way))
      <3>1. Enter(o, "forward")
        BY <1>2, <2>3 DEF ReadReverse
      <3>2. /\ op' \in [Op -> Call \cup {Idle}] /\ Moves(o)
            /\ D.phase = "forward" /\ D.kind = "send" /\ D.way = op[o].way
        BY <2>1, <2>2, <3>1, EnterFacts DEF Phase
      <3> QED
        BY <1>2, <2>1, <2>3, <3>2, KindsFrame DEF ReadReverse
    <2>4. CASE Pending(Back(op[o].way))
      <3> DEFINE w == Back(op[o].way)
                 c == [phase |-> "asked", kind |-> "accept",
                       user |-> op[o].user, way |-> w, id |-> request[w].id]
      <3>1. op' = [op EXCEPT ![o] = c]
        BY <1>2, <2>4 DEF ReadReverse
      <3>2. w \in Way /\ request[w].id \in Nat
        BY <2>2, WayFacts DEF TypeOK, Request
      <3>3. c \in Call
        BY <2>2, <3>2 DEF Call, Phase, Kind
      <3>4. D = c /\ Moves(o) /\ op' \in [Op -> Call \cup {Idle}]
        BY <3>1, <3>3 DEF TypeOK, Moves
      <3>5. D.phase = "asked" /\ D.kind = "accept"
        BY <3>4
      <3> HIDE DEF c
      <3> QED
        BY <1>2, <2>1, <3>4, <3>5, KindsFrame DEF ReadReverse, Sending
    <2> QED
      BY <2>3, <2>4
  <1>3. CASE ReadForward(o)
    <2>1. op[o].phase = "forward"
      BY <1>3 DEF ReadForward
    <2>2. op[o].kind = "send" /\ op[o] \in Call /\ op[o].way \in Way
      BY <2>1, CallFacts DEF Kinds
    <2> DEFINE w == op[o].way
    <2>3. PICK p \in {"create", "resend", "failed"} :
            op' = [op EXCEPT ![o] = [op[o] EXCEPT !.id = request[w].id,
                                                  !.phase = p]]
      BY <1>3 DEF ReadForward
    <2>4. request[w].id \in Nat
      BY <2>2 DEF TypeOK, Request
    <2>5. [op[o] EXCEPT !.id = request[w].id, !.phase = p] \in Call
      BY <2>2, <2>4 DEF Call, Phase
    <2>6. /\ D = [op[o] EXCEPT !.id = request[w].id, !.phase = p]
          /\ Moves(o) /\ op' \in [Op -> Call \cup {Idle}]
      BY <2>3, <2>5 DEF TypeOK, Moves
    <2>7. D.phase = p /\ D.kind = "send" /\ D.way = op[o].way
      BY <2>2, <2>6 DEF Call
    <2> QED
      BY <1>3, <2>1, <2>6, <2>7, KindsFrame DEF ReadForward, Sending
  <1>4. CASE ReadAsked(o)
    <2>1. /\ op[o].phase = "asked"
          /\ \/ \E p \in {"failed", "find", "mark"} : Enter(o, p)
             \/ Enter(o, "refuse") /\ op[o].kind = "reject"
      BY <1>4 DEF ReadAsked, AcceptNext
    <2>2. PICK p \in {"failed", "find", "mark", "refuse"} :
            Enter(o, p) /\ (p = "refuse" => op[o].kind = "reject")
      BY <2>1
    <2>3. /\ op' \in [Op -> Call \cup {Idle}] /\ Moves(o)
          /\ D.phase = p /\ D.kind = op[o].kind /\ D.way = op[o].way
      BY <2>1, <2>2, EnterFacts DEF Phase
    <2> QED
      BY <1>4, <2>1, <2>2, <2>3, KindsFrame DEF ReadAsked, Sending
  <1>5. ASSUME NEW w \in Way, FindCancelled(o, w)
        PROVE  D.phase = "delete" /\ D.kind = "cancel" /\ Moves(o)
               /\ op' \in [Op -> Call \cup {Idle}]
               /\ op[o].phase = "lookup"
    <2>1. op[o].phase = "lookup"
      BY <1>5 DEF FindCancelled
    <2>2. op[o].kind = "cancel" /\ op[o] \in Call
      BY <2>1, CallFacts DEF Kinds
    <2>3. request[w].id \in Nat
      BY DEF TypeOK, Request
    <2> DEFINE c == [op[o] EXCEPT !.phase = "delete", !.way = w,
                                  !.id = request[w].id]
    <2>4. op' = [op EXCEPT ![o] = c]
      BY <1>5 DEF FindCancelled
    <2>5. c \in Call /\ c.phase = "delete" /\ c.kind = "cancel"
      BY <2>2, <2>3 DEF Call, Phase
    <2> QED
      BY <2>1, <2>4, <2>5 DEF TypeOK, Moves
  <1>6. CASE \E w \in Way : FindCancelled(o, w)
    BY <1>5, <1>6, KindsFrame DEF FindCancelled, Sending
  <1>7. CASE CancelNothing(o)
    <2>1. op[o].phase = "lookup" /\ Enter(o, "done")
      BY <1>7 DEF CancelNothing
    <2>2. op[o].kind = "cancel"
      BY <2>1 DEF Kinds
    <2>3. /\ op' \in [Op -> Call \cup {Idle}] /\ Moves(o)
          /\ D.phase = "done" /\ D.kind = "cancel"
      BY <2>1, <2>2, EnterFacts DEF Phase
    <2> QED
      BY <1>7, <2>1, <2>3, KindsFrame DEF CancelNothing, Sending
  <1>8. CASE FindDirect(o)
    <2>1. /\ op[o].phase = "find"
          /\ \/ Enter(o, "connect")
             \/ Enter(o, "done") /\ direct[Both(op[o].way)] # {}
      BY <1>8 DEF FindDirect
    <2>2. /\ op' \in [Op -> Call \cup {Idle}] /\ Moves(o)
          /\ D.way = op[o].way /\ D.phase \in {"connect", "done"}
          /\ D.phase = "done" => direct[Both(op[o].way)] # {}
      BY <2>1, EnterFacts DEF Phase
    <2> QED
      BY <1>8, <2>1, <2>2, KindsFrame DEF FindDirect, Sending
  <1> QED
    BY <1>1, <1>2, <1>3, <1>4, <1>6, <1>7, <1>8 DEF Read

LEMMA ReadKeeps ==
  ASSUME Inv, NEW o \in Op, Read(o)
  PROVE  Inv'
  <1>1. TypeOK /\ Kinds
    BY DEF Inv
  <1>2. op[o].phase # "idle" /\ op[o].way \in Way /\ Both(op[o].way) \in People
    BY <1>1, ReadMoves, CallFacts, WayFacts
  <1>3. \/ raced' = raced /\ op'[o].phase # "connect"
        \/ /\ op'[o].phase = "connect" /\ op'[o].way = op[o].way
           /\ direct[Both(op[o].way)] = {}
           /\ raced' = IF \E q \in Op : Connecting(q)
                                /\ Both(op[q].way) = Both(op[o].way)
                       THEN raced \cup {Both(op[o].way)} ELSE raced
    <2>1. CASE op[o].phase # "find"
      <3>1. op'[o].phase # "connect"
        BY <1>1, <2>1, ReadMoves
      <3> QED
        BY <2>1, <3>1 DEF Read, Talking, ReadReverse, ReadForward, ReadAsked,
           FindCancelled, CancelNothing, FindDirect
    <2>2. CASE op[o].phase = "find"
      <3>1. FindDirect(o)
        BY <2>2 DEF Read, Talking, ReadReverse, ReadForward, ReadAsked,
           FindCancelled, CancelNothing
      <3>2. CASE direct[Both(op[o].way)] = {}
        <4>1. Enter(o, "connect")
          BY <3>1, <3>2 DEF FindDirect
        <4>2. op'[o].phase = "connect" /\ op'[o].way = op[o].way
          BY <1>1, <1>2, <4>1, EnterFacts DEF Phase
        <4> QED
          BY <3>1, <3>2, <4>2 DEF FindDirect
      <3>3. CASE direct[Both(op[o].way)] # {}
        <4>1. Enter(o, "done") /\ UNCHANGED raced
          BY <3>1, <3>3 DEF FindDirect
        <4>2. op'[o].phase = "done"
          BY <1>1, <1>2, <4>1, EnterFacts DEF Phase
        <4> QED
          BY <4>1, <4>2
      <3> QED
        BY <3>2, <3>3
    <2> QED
      BY <2>1, <2>2
  <1>4. /\ UNCHANGED <<request, direct, crossed, stranded>>
        /\ op' \in [Op -> Call \cup {Idle}] /\ Moves(o) /\ Kinds'
    BY <1>1, ReadMoves
  <1>5. TypeOK'
    BY <1>1, <1>2, <1>3, <1>4 DEF TypeOK
  <1>6. Connects' /\ ConnectedOnce'
    <2>1. CASE raced' = raced /\ op'[o].phase # "connect"
      BY <1>4, <2>1, ConnectsFrame DEF Inv
    <2>2. CASE /\ op'[o].phase = "connect" /\ op'[o].way = op[o].way
               /\ direct[Both(op[o].way)] = {}
               /\ raced' = IF \E q \in Op : Connecting(q)
                                    /\ Both(op[q].way) = Both(op[o].way)
                           THEN raced \cup {Both(op[o].way)} ELSE raced
      <3>1. raced \subseteq raced'
        BY <2>2
      <3>2. ConnectedOnce'
        BY <1>4, <3>1 DEF Inv, ConnectedOnce
      <3>3. ASSUME NEW a \in Op, op'[a].phase = "connect",
                   Both(op'[a].way) \notin raced'
            PROVE  /\ direct[Both(op'[a].way)] = {}
                   /\ \A q \in Op : /\ op'[q].phase = "connect"
                                    /\ Both(op'[q].way) = Both(op'[a].way)
                                    => q = a
        <4>1. CASE a = o
          <5>1. \A q \in Op : Connecting(q) => Both(op[q].way) # Both(op[o].way)
            BY <2>2, <3>3, <4>1
          <5> QED
            BY <1>4, <2>2, <4>1, <5>1 DEF Moves, Connecting
        <4>2. CASE a # o
          <5>1. op'[a] = op[a] /\ Connecting(a) /\ Both(op[a].way) \notin raced
            BY <1>4, <3>1, <3>3, <4>2 DEF Moves, Connecting
          <5>2. Both(op[a].way) # Both(op[o].way)
            BY <2>2, <3>3, <5>1
          <5> QED
            BY <1>4, <2>2, <5>1, <5>2 DEF Inv, Connects, Moves, Connecting
        <4> QED
          BY <4>1, <4>2
      <3>4. Connects'
        BY <1>4, <3>3 DEF Connects, Connecting
      <3> QED
        BY <3>2, <3>4
    <2> QED
      BY <1>3, <2>1, <2>2
  <1>7. Crosses' /\ MutualIsRace'
    <2>1. Sending(o)' => /\ op[o].phase # "idle" /\ op'[o].way = op[o].way
                         /\ Sending(o) \/ ~Pending(Back(op[o].way))
      BY <1>1, <1>2, ReadMoves
    <2> QED
      BY <1>1, <1>4, <2>1, CrossesFrame DEF Inv, Pending
  <1>8. AcceptedIsConnected'
    <2>1. op[o].phase = "find" =>
            \/ op'[o].phase \in {"find", "connect"} /\ op'[o].way = op[o].way
            \/ direct'[Both(op[o].way)] # {}
      BY <1>1, <1>4, ReadMoves
    <2>2. op[o].phase # "connect"
      BY <1>1, ReadMoves
    <2> QED
      BY <1>1, <1>4, <2>1, <2>2, AcceptedFrame DEF Inv
  <1>9. AnsweredIsConnected'
    <2>1. op'[o].phase = "done" /\ op'[o].kind \in {"accept", "connect"} =>
            direct[Both(op'[o].way)] # {}
      BY <1>1, ReadMoves
    <2> QED
      BY <1>1, <1>4, <2>1, AnsweredFrame DEF Inv
  <1> QED
    BY <1>4, <1>5, <1>6, <1>7, <1>8, <1>9 DEF Inv

-----------------------------------------------------------------------------
(* What any write does, by the state it is made in. *)
LEMMA WriteFacts ==
  ASSUME TypeOK, NEW o \in Op, Write(o)
  PROVE  /\ op[o].phase \in {"create", "resend", "mark", "refuse", "delete",
                             "connect"}
         /\ request' \in [Way -> Request]
         /\ direct' \in [People -> SUBSET Op]
         /\ \A p \in People : direct[p] \subseteq direct'[p]
         /\ raced' = raced /\ crossed \subseteq crossed'
         /\ crossed' \subseteq People
         /\ op[o].phase # "connect" => direct' = direct
         /\ op[o].phase = "connect" => o \in direct'[Both(op[o].way)]
         /\ op[o].phase \notin {"create", "resend"} =>
               crossed' = crossed /\ \A w \in Way : Pending(w)' => Pending(w)
         /\ op[o].phase # "mark" =>
               \A w \in Way : request'[w].status = "ACCEPTED" =>
                                 request[w].status = "ACCEPTED"
         /\ op[o].phase = "mark" =>
               \A w \in Way \ {op[o].way} : request'[w] = request[w]
  <1>1. op[o].phase # "idle"
    BY DEF Write, CreateRequest, Resend, MarkAccepted, MarkRejected,
       DeleteRequest, CreateDirect
  <1>2. op[o].way \in Way /\ Both(op[o].way) \in People
    BY <1>1, CallFacts, WayFacts
  <1>3. request[op[o].way] \in Request
    BY <1>2 DEF TypeOK
  <1> DEFINE w == op[o].way
  <1>0. ASSUME NEW s \in {"ABSENT", "PENDING", "ACCEPTED", "REJECTED"},
               SetStatus(o, s)
        PROVE  /\ request' \in [Way -> Request] /\ request'[w].status = s
               /\ \A v \in Way \ {w} : request'[v] = request[v]
    <2>1. request' = [request EXCEPT ![w] = [request[w] EXCEPT !.status = s]]
      BY <1>0 DEF SetStatus
    <2>2. /\ [request[w] EXCEPT !.status = s] \in Request
          /\ [request[w] EXCEPT !.status = s].status = s
      BY <1>3 DEF Request
    <2> QED
      BY <1>2, <2>1, <2>2 DEF TypeOK
  <1>4. CASE CreateRequest(o)
    <2>1. /\ op[o].phase = "create" /\ direct' = direct /\ raced' = raced
          /\ crossed \subseteq crossed' /\ crossed' \subseteq People
      BY <1>2, <1>4 DEF CreateRequest, Cross, TypeOK
    <2> DEFINE r == [status |-> "PENDING", id |-> request[w].id + 1]
    <2>2. request' = [request EXCEPT ![w] = r]
      BY <1>4 DEF CreateRequest
    <2>3. r \in Request /\ r.status = "PENDING"
      BY <1>3 DEF Request
    <2>4. /\ request' \in [Way -> Request] /\ request'[w].status = "PENDING"
          /\ \A v \in Way \ {w} : request'[v] = request[v]
      BY <1>2, <2>2, <2>3 DEF TypeOK
    <2> QED
      BY <2>1, <2>4 DEF TypeOK
  <1>5. CASE Resend(o)
    <2>1. /\ op[o].phase = "resend" /\ direct' = direct /\ raced' = raced
          /\ crossed \subseteq crossed' /\ crossed' \subseteq People
          /\ SetStatus(o, "PENDING")
      BY <1>2, <1>5 DEF Resend, Cross, TypeOK
    <2> QED
      BY <1>0, <2>1 DEF TypeOK
  <1>6. CASE MarkAccepted(o)
    <2>1. /\ op[o].phase = "mark" /\ SetStatus(o, "ACCEPTED")
          /\ UNCHANGED <<direct, raced, crossed>>
      BY <1>6 DEF MarkAccepted
    <2> QED
      BY <1>0, <2>1 DEF TypeOK, Pending
  <1>7. CASE MarkRejected(o)
    <2>1. /\ op[o].phase = "refuse" /\ SetStatus(o, "REJECTED")
          /\ UNCHANGED <<direct, raced, crossed>>
      BY <1>7 DEF MarkRejected
    <2> QED
      BY <1>0, <2>1 DEF TypeOK, Pending
  <1>8. CASE DeleteRequest(o)
    <2>1. /\ op[o].phase = "delete" /\ SetStatus(o, "ABSENT")
          /\ UNCHANGED <<direct, raced, crossed>>
      BY <1>8 DEF DeleteRequest
    <2> QED
      BY <1>0, <2>1 DEF TypeOK, Pending
  <1>9. CASE CreateDirect(o)
    BY <1>2, <1>3, <1>9 DEF CreateDirect, TypeOK, Pending
  <1> QED
    BY <1>4, <1>5, <1>6, <1>7, <1>8, <1>9 DEF Write

(* A second pending request is recorded as crossed, by whoever is past the *)
(* look that would have turned one send into an acceptance.                *)
LEMMA SendKeeps ==
  ASSUME Inv, NEW o \in Op, Moves(o), ~Sending(o)',
         CreateRequest(o) \/ Resend(o)
  PROVE  Crosses' /\ MutualIsRace'
  <1> DEFINE w == op[o].way
  <1>1. TypeOK /\ Sending(o)
    BY DEF Inv, CreateRequest, Resend, Sending
  <1>2. w \in Way /\ Back(w) \in Way /\ Back(Back(w)) = w
        /\ Both(Back(w)) = Both(w)
    BY <1>1, CallFacts, WayFacts DEF Sending
  <1>3. crossed' = IF \E q \in Op : Sending(q) /\ op[q].way = Back(w)
                   THEN crossed \cup {Both(w)} ELSE crossed
    BY DEF CreateRequest, Resend, Cross
  <1>4. \A v \in Way \ {w} : request'[v] = request[v]
    BY <1>1, <1>2 DEF CreateRequest, Resend, SetStatus, TypeOK
  <1>5. Crosses'
    <2> SUFFICES ASSUME NEW q \in Op, Sending(q)', Pending(Back(op[q].way))'
                 PROVE  Both(op'[q].way) \in crossed'
      BY DEF Crosses
    <2>1. q # o /\ op'[q] = op[q] /\ Sending(q)
      BY DEF Moves, Sending
    <2>2. op[q].way \in Way /\ Back(op[q].way) \in Way
          /\ Back(Back(op[q].way)) = op[q].way
          /\ Both(Back(op[q].way)) = Both(op[q].way)
      BY <1>1, <2>1, CallFacts, WayFacts DEF Sending
    <2>3. CASE Back(op[q].way) = w
      BY <1>3, <2>1, <2>2, <2>3
    <2>4. CASE Back(op[q].way) # w
      <3>1. Pending(Back(op[q].way))
        BY <1>4, <2>1, <2>2, <2>4 DEF Pending
      <3>2. Both(op[q].way) \in crossed
        BY <2>1, <3>1 DEF Inv, Crosses
      <3> QED
        BY <1>3, <2>1, <3>2
    <2> QED
      BY <2>3, <2>4
  <1>6. MutualIsRace'
    <2> SUFFICES ASSUME NEW v \in Way, request'[v].status = "PENDING",
                        request'[Back(v)].status = "PENDING"
                 PROVE  Both(v) \in crossed'
      BY DEF MutualIsRace, Pending
    <2>1. Back(v) \in Way /\ Back(Back(v)) = v /\ Both(Back(v)) = Both(v)
      BY WayFacts
    <2>2. Back(w) # w
      BY <1>2 DEF Way, Back
    <2>3. request'[Back(w)].status = "PENDING" => Both(w) \in crossed
      BY <1>1, <1>2, <1>4, <2>2 DEF Inv, Crosses, Pending
    <2>4. CASE v = w
      BY <1>3, <2>3, <2>4
    <2>5. CASE v = Back(w)
      BY <1>2, <1>3, <2>3, <2>5
    <2>6. CASE v # w /\ v # Back(w)
      <3>1. Back(v) # w
        BY <2>1, <2>6
      <3>2. Pending(v) /\ Pending(Back(v))
        BY <1>4, <2>1, <2>6, <3>1 DEF Pending
      <3> QED
        BY <1>3, <3>2 DEF Inv, MutualIsRace
    <2> QED
      BY <2>4, <2>5, <2>6
  <1> QED
    BY <1>5, <1>6

LEMMA ConnectKeeps ==
  ASSUME Inv, NEW o \in Op, Moves(o), op'[o].phase # "connect",
         CreateDirect(o)
  PROVE  Connects' /\ ConnectedOnce'
  <1> DEFINE p == Both(op[o].way)
  <1>1. TypeOK /\ Connecting(o) /\ raced' = raced
        /\ direct' = [direct EXCEPT ![p] = @ \cup {o}]
    BY DEF Inv, CreateDirect, Connecting
  <1>2. p \in People
    BY <1>1, CallFacts, WayFacts DEF Connecting
  <1>3. p \notin raced => direct[p] = {}
    BY <1>1 DEF Inv, Connects
  <1>4. ConnectedOnce'
    BY <1>1, <1>2, <1>3 DEF Inv, ConnectedOnce, TypeOK
  <1>5. ASSUME NEW q \in Op, op'[q].phase = "connect",
               Both(op'[q].way) \notin raced
        PROVE  /\ direct'[Both(op'[q].way)] = {}
               /\ \A r \in Op : /\ op'[r].phase = "connect"
                                /\ Both(op'[r].way) = Both(op'[q].way)
                                => r = q
    <2>1. q # o /\ op'[q] = op[q] /\ Connecting(q)
      BY <1>5 DEF Moves, Connecting
    <2>2. Both(op[q].way) # p /\ Both(op[q].way) \in People
      BY <1>1, <1>5, <2>1, CallFacts, WayFacts DEF Inv, Connects, Connecting
    <2>3. direct'[Both(op[q].way)] = direct[Both(op[q].way)]
      BY <1>1, <2>2 DEF TypeOK
    <2>4. direct[Both(op[q].way)] = {}
          /\ \A r \in Op : /\ op[r].phase = "connect"
                           /\ Both(op[r].way) = Both(op[q].way)
                           => r = q
      BY <1>5, <2>1 DEF Inv, Connects, Connecting
    <2>5. \A r \in Op : op'[r].phase = "connect" => op'[r] = op[r]
      BY DEF Moves
    <2> QED
      BY <2>1, <2>3, <2>4, <2>5
  <1>6. Connects'
    BY <1>1, <1>5 DEF Connects, Connecting
  <1> QED
    BY <1>4, <1>6

(* A write is made, and its call goes on, or fails after it. *)
LEMMA WriteKeeps ==
  ASSUME Inv, NEW o \in Op, NEW p \in {"find", "done", "failed"}, Write(o),
         Enter(o, p), stranded \subseteq stranded', stranded' \subseteq People,
         p = "done" => op[o].phase # "mark",
         p = "failed" /\ op[o].phase = "mark" =>
            Both(op[o].way) \in stranded'
  PROVE  Inv'
  <1> DEFINE w == op[o].way
  <1>1. TypeOK
    BY DEF Inv
  <1>2. op[o].phase \in {"create", "resend", "mark", "refuse", "delete",
                         "connect"}
    BY <1>1, WriteFacts
  <1>3. w \in Way /\ Both(w) \in People
    BY <1>1, <1>2, CallFacts, WayFacts
  <1>4. /\ op' \in [Op -> Call \cup {Idle}] /\ Moves(o)
        /\ op'[o].phase = p /\ op'[o].way = w /\ op'[o].kind = op[o].kind
    BY <1>1, <1>2, EnterFacts DEF Phase
  <1>5. raced' = raced /\ \A r \in People : direct[r] \subseteq direct'[r]
    BY <1>1, WriteFacts
  <1>6. TypeOK'
    BY <1>1, <1>4, WriteFacts DEF TypeOK
  <1>7. Kinds'
    BY <1>4, KindsFrame DEF Inv
  <1>8. Connects' /\ ConnectedOnce'
    <2>1. CASE op[o].phase = "connect"
      <3>1. CreateDirect(o)
        BY <2>1 DEF Write, CreateRequest, Resend, MarkAccepted, MarkRejected,
           DeleteRequest
      <3> QED
        BY <1>4, <3>1, ConnectKeeps
    <2>2. CASE op[o].phase # "connect"
      <3>1. UNCHANGED <<direct, raced>>
        BY <1>1, <2>2, WriteFacts
      <3> QED
        BY <1>4, <3>1, ConnectsFrame DEF Inv
    <2> QED
      BY <2>1, <2>2
  <1>9. Crosses' /\ MutualIsRace'
    <2>1. ~Sending(o)'
      BY <1>4 DEF Sending
    <2>2. CASE op[o].phase \in {"create", "resend"}
      <3>1. CreateRequest(o) \/ Resend(o)
        BY <2>2 DEF Write, MarkAccepted, MarkRejected, DeleteRequest,
           CreateDirect
      <3> QED
        BY <1>4, <2>1, <3>1, SendKeeps
    <2>3. CASE op[o].phase \notin {"create", "resend"}
      <3>1. UNCHANGED crossed /\ \A v \in Way : Pending(v)' => Pending(v)
        BY <1>1, <2>3, WriteFacts
      <3> QED
        BY <1>1, <1>4, <2>1, <3>1, CrossesFrame DEF Inv
    <2> QED
      BY <2>2, <2>3
  <1>10. AcceptedIsConnected'
    <2>1. op[o].phase = "connect" => direct'[Both(w)] # {}
      BY <1>1, WriteFacts
    <2>2. CASE op[o].phase # "mark"
      <3>1. \A v \in Way : request'[v].status = "ACCEPTED" =>
              request[v].status = "ACCEPTED"
        BY <1>1, <2>2, WriteFacts
      <3> QED
        BY <1>1, <1>2, <1>4, <1>5, <2>1, <3>1, AcceptedFrame DEF Inv
    <2>3. CASE op[o].phase = "mark"
      <3>1. op'[o].phase = "find" \/ Both(w) \in stranded'
        BY <1>4, <2>3
      <3>2. \A v \in Way \ {w} : request'[v] = request[v]
        BY <1>1, <2>3, WriteFacts
      <3> SUFFICES ASSUME NEW v \in Way, request'[v].status = "ACCEPTED"
                   PROVE  \/ direct'[Both(v)] # {}
                          \/ \E q \in Op : /\ op'[q].phase \in {"find", "connect"}
                                           /\ Both(op'[q].way) = Both(v)
                          \/ Both(v) \in stranded'
        BY DEF AcceptedIsConnected
      <3>3. CASE v = w
        BY <1>4, <3>1, <3>3
      <3>4. CASE v # w
        <4>1. request[v].status = "ACCEPTED" /\ Both(v) \in People
          BY <3>2, <3>4, WayFacts
        <4>2. \/ direct[Both(v)] # {}
              \/ \E q \in Op : /\ op[q].phase \in {"find", "connect"}
                               /\ Both(op[q].way) = Both(v)
              \/ Both(v) \in stranded
          BY <4>1 DEF Inv, AcceptedIsConnected
        <4>3. \A q \in Op : op[q].phase \in {"find", "connect"} =>
                op'[q] = op[q]
          BY <1>4, <2>3 DEF Moves
        <4> QED
          BY <1>5, <4>1, <4>2, <4>3
      <3> QED
        BY <3>3, <3>4
    <2> QED
      BY <2>2, <2>3
  <1>11. AnsweredIsConnected'
    <2>1. op'[o].phase = "done" /\ op'[o].kind \in {"accept", "connect"} =>
            op[o].phase = "connect"
      BY <1>2, <1>4 DEF Inv, Kinds
    <2>2. op[o].phase = "connect" => direct'[Both(w)] # {}
      BY <1>1, WriteFacts
    <2> QED
      BY <1>1, <1>4, <1>5, <2>1, <2>2, AnsweredFrame DEF Inv
  <1> QED
    BY <1>6, <1>7, <1>8, <1>9, <1>10, <1>11 DEF Inv

(* A call fails without a write. *)
LEMMA FailKeeps ==
  ASSUME Inv, NEW o \in Op, op[o].phase # "idle", Enter(o, "failed"),
         UNCHANGED <<request, direct, raced, crossed>>,
         stranded \subseteq stranded', stranded' \subseteq People,
         op[o].phase \in {"find", "connect"} => Both(op[o].way) \in stranded'
  PROVE  Inv'
  <1>1. TypeOK
    BY DEF Inv
  <1>2. /\ op' \in [Op -> Call \cup {Idle}] /\ Moves(o)
        /\ op'[o].phase = "failed"
    BY <1>1, EnterFacts DEF Phase
  <1>3. TypeOK'
    BY <1>1, <1>2 DEF TypeOK
  <1>4. Kinds'
    BY <1>2, KindsFrame DEF Inv
  <1>5. Connects' /\ ConnectedOnce'
    BY <1>2, ConnectsFrame DEF Inv
  <1>6. Crosses' /\ MutualIsRace'
    <2>1. ~Sending(o)'
      BY <1>2 DEF Sending
    <2> QED
      BY <1>1, <1>2, <2>1, CrossesFrame DEF Inv, Pending
  <1>7. AcceptedIsConnected'
    BY <1>1, <1>2, AcceptedFrame DEF Inv
  <1>8. AnsweredIsConnected'
    BY <1>1, <1>2, AnsweredFrame DEF Inv
  <1> QED
    BY <1>3, <1>4, <1>5, <1>6, <1>7, <1>8 DEF Inv

-----------------------------------------------------------------------------
LEMMA NextKeeps ==
  ASSUME Inv, [Next]_vars
  PROVE  Inv'
  <1>1. TypeOK
    BY DEF Inv
  <1>2. ASSUME NEW o \in Op, Written(o)
        PROVE  Inv'
    <2>1. op[o].phase \in {"create", "resend", "mark", "refuse", "delete",
                           "connect"}
      BY <1>1, <1>2, WriteFacts DEF Written
    <2>2. stranded' = stranded /\ stranded \subseteq People
      BY <1>1, <1>2 DEF Written, TypeOK
    <2>3. CASE op[o].phase = "mark"
      BY <1>2, <2>2, <2>3, WriteKeeps DEF Written, AfterWrite
    <2>4. CASE op[o].phase # "mark"
      BY <1>2, <2>2, <2>4, WriteKeeps DEF Written, AfterWrite
    <2> QED
      BY <2>3, <2>4
  <1>3. ASSUME NEW o \in Op, WriteRefused(o)
        PROVE  Inv'
    <2>1. /\ op[o].phase \in {"resend", "mark", "refuse", "delete", "create"}
          /\ stranded' = stranded /\ stranded \subseteq People
      BY <1>1, <1>3 DEF WriteRefused, TypeOK
    <2> QED
      BY <1>3, <2>1, FailKeeps DEF WriteRefused
  <1>4. ASSUME NEW o \in Op, Rejected(o)
        PROVE  Inv'
    <2>1. op[o].phase # "idle"
      BY <1>4 DEF Rejected, Waiting
    <2>2. Both(op[o].way) \in People
      BY <1>1, <2>1, CallFacts, WayFacts
    <2>3. /\ stranded \subseteq stranded' /\ stranded' \subseteq People
          /\ op[o].phase \in {"mark", "find", "connect"} =>
                Both(op[o].way) \in stranded'
      BY <1>1, <1>4, <2>2 DEF Rejected, Strand, TypeOK
    <2>4. CASE Write(o)
      BY <1>4, <2>3, <2>4, WriteKeeps DEF Rejected
    <2>5. CASE UNCHANGED <<request, direct, raced, crossed>>
      BY <1>4, <2>1, <2>3, <2>5, FailKeeps DEF Rejected
    <2> QED
      BY <1>4, <2>4, <2>5 DEF Rejected
  <1>5. CASE UNCHANGED vars
    BY <1>5 DEF vars, Inv, TypeOK, Kinds, Connects, Connecting, ConnectedOnce,
       Crosses, Sending, MutualIsRace, Pending, AcceptedIsConnected,
       AnsweredIsConnected
  <1> QED
    BY <1>2, <1>3, <1>4, <1>5, StartKeeps, ReadKeeps DEF Next

LEMMA Invariance == Spec => []Inv
  BY InitHolds, NextKeeps, PTL DEF Spec

-----------------------------------------------------------------------------
(* Whatever the users and their calls, every row, conversation and call    *)
(* keeps its shape.                                                        *)
THEOREM TypeCorrect == Spec => []TypeOK
  <1>1. Inv => TypeOK
    BY DEF Inv
  <1> QED
    BY <1>1, Invariance, PTL

(* createDirect makes a second conversation of two users only if two calls *)
(* were between its look and its creation together.                        *)
THEOREM ConnectedUnlessRaced == Spec => []ConnectedOnce
  <1>1. Inv => ConnectedOnce
    BY DEF Inv
  <1> QED
    BY <1>1, Invariance, PTL

(* sendRequest leaves a pending request each way only if the two sends had *)
(* both looked before either wrote.                                        *)
THEOREM MutualUnlessCrossed == Spec => []MutualIsRace
  <1>1. Inv => MutualIsRace
    BY DEF Inv
  <1> QED
    BY <1>1, Invariance, PTL

(* An accepted request is never left without its conversation by calls     *)
(* that do not fail.                                                       *)
THEOREM AcceptedConnected == Spec => []AcceptedIsConnected
  <1>1. Inv => AcceptedIsConnected
    BY DEF Inv
  <1> QED
    BY <1>1, Invariance, PTL

(* acceptRequest and createDirect report success only of a conversation    *)
(* that exists.                                                            *)
THEOREM AnsweredConnected == Spec => []AnsweredIsConnected
  <1>1. Inv => AnsweredIsConnected
    BY DEF Inv
  <1> QED
    BY <1>1, Invariance, PTL

(* An acceptance, and an answer that reports one, has its conversation. *)
THEOREM AcceptancesConnect == Spec => []AcceptanceConnects
  <1>1. AcceptedIsConnected /\ AnsweredIsConnected => AcceptanceConnects
    BY DEF AcceptanceConnects
  <1> QED
    BY <1>1, AcceptedConnected, AnsweredConnected, PTL

=============================================================================
