----------------------- MODULE GroupMembershipProofs -----------------------
(***************************************************************************)
(* Proofs about GroupMembership for any users and calls.  That an admin    *)
(* remains rests on what each departure under way may count on: when it is *)
(* about to delete its row, that row is the only one or someone else is an *)
(* admin.  That an answered departure is gone rests on ids that only grow. *)
(***************************************************************************)
EXTENDS GroupMembership, TLAPS

IdsGrow ==
    /\ \A u \in User : member[u].id <= joins
    /\ \A o \in Op : op[o].id <= joins

Kinds ==
    \A o \in Op :
        /\ op[o].phase = "create" => op[o].kind = "add"
        /\ op[o].phase = "promote" => op[o].heir # op[o].target

(* Nobody else, or another admin. *)
Spared(t) == Members = {t} \/ Admins \ {t} # {}

DeparturesAreSafe ==
    stale \/ \A o \in Op :
        /\ op[o].phase = "delete"
        /\ There(op[o].target, op[o].id)
        => Spared(op[o].target)

Gone ==
    \A o \in Op :
        /\ op[o].phase \in {"touch", "done"}
        /\ op[o].kind \in {"remove", "leave"}
        => ~There(op[o].target, op[o].id)

Inv ==
    /\ TypeOK
    /\ IdsGrow
    /\ Kinds
    /\ DeparturesAreSafe
    /\ Gone
    /\ AdminRemains

-----------------------------------------------------------------------------
Moves(o) == \A q \in Op \ {o} : op'[q] = op[q]

LEMMA EnterFacts ==
  ASSUME TypeOK, NEW o \in Op, NEW p, Enter(o, p),
         p \in {"delete", "touch", "done", "failed"}
  PROVE  /\ op' \in [Op -> Call] /\ Moves(o)
         /\ op'[o].phase = p /\ op'[o].kind = op[o].kind
         /\ op'[o].target = op[o].target /\ op'[o].id = op[o].id
         /\ op'[o].heir = op[o].heir
  <1>1. op[o] \in Call /\ op \in [Op -> Call]
    BY DEF TypeOK
  <1>2. [op[o] EXCEPT !.phase = p] \in Call
    BY <1>1 DEF Call
  <1>3. op' = [op EXCEPT ![o] = [op[o] EXCEPT !.phase = p]]
    BY DEF Enter
  <1>4. op'[o] = [op[o] EXCEPT !.phase = p]
    BY <1>1, <1>3
  <1> QED
    BY <1>1, <1>2, <1>3, <1>4 DEF Moves, Call

(* A call that begins, or ends without a write, leaves the rows alone. *)
LEMMA QuietKeeps ==
  ASSUME Inv, NEW o \in Op, UNCHANGED <<member, joins, stale>>,
         op' \in [Op -> Call], Moves(o),
         op'[o].id <= joins,
         op'[o].phase = "create" => op'[o].kind = "add",
         op'[o].phase = "promote" => op'[o].heir # op'[o].target,
         op'[o].phase = "delete" => stale \/ Spared(op'[o].target),
         /\ op'[o].phase \in {"touch", "done"}
         /\ op'[o].kind \in {"remove", "leave"}
         => ~There(op'[o].target, op'[o].id)
  PROVE  Inv'
  <1>1. TypeOK'
    BY DEF Inv, TypeOK
  <1>2. IdsGrow'
    BY DEF Inv, IdsGrow, Moves
  <1>3. Kinds'
    BY DEF Inv, Kinds, Moves
  <1>4. Members' = Members /\ Admins' = Admins
    BY DEF Members, Admins
  <1>5. \A t, i : There(t, i)' = There(t, i)
    BY <1>4 DEF There
  <1>6. \A t : Spared(t)' = Spared(t)
    BY <1>4 DEF Spared
  <1>7. DeparturesAreSafe'
    BY <1>5, <1>6 DEF Inv, DeparturesAreSafe, Moves
  <1>8. Gone'
    BY <1>5 DEF Inv, Gone, Moves
  <1>9. AdminRemains'
    BY <1>4 DEF Inv, AdminRemains
  <1> QED
    BY <1>1, <1>2, <1>3, <1>7, <1>8, <1>9 DEF Inv

-----------------------------------------------------------------------------
LEMMA InitHolds == Init => Inv
  <1> SUFFICES ASSUME Init PROVE Inv
    OBVIOUS
  <1>1. Idle \in Call
    BY GroupAssumption DEF Idle, Call
  <1>2. TypeOK
    <2>1. PICK others \in SUBSET (User \ {Creator}) :
            member = [u \in User |->
                        [id |-> 0, role |-> IF u = Creator THEN "ADMIN"
                                            ELSE IF u \in others THEN "MEMBER"
                                            ELSE "NONE"]]
      BY DEF Init
    <2>2. member \in [User -> Row]
      BY <2>1 DEF Row
    <2>3. joins \in Nat /\ op \in [Op -> Call] /\ stale \in BOOLEAN
      BY <1>1 DEF Init
    <2> QED
      BY <2>2, <2>3 DEF TypeOK
  <1>3. \A o \in Op : op[o].phase = "idle" /\ op[o].id = 0
    BY DEF Init, Idle
  <1>4. IdsGrow /\ Kinds /\ DeparturesAreSafe /\ Gone
    BY <1>3 DEF Init, IdsGrow, Kinds, DeparturesAreSafe, Gone
  <1>5. Creator \in Admins
    BY GroupAssumption DEF Init, Admins
  <1> QED
    BY <1>2, <1>4, <1>5 DEF Inv, AdminRemains

(* What a call has decided on the rows it read. *)
LEMMA BeginKeeps ==
  ASSUME Inv, NEW o \in Op, NEW phase \in {"create", "promote", "delete"},
         NEW kind \in {"add", "remove", "leave"},
         NEW role \in {"NONE", "MEMBER", "ADMIN"},
         NEW t \in User, NEW h \in User, Begin(o, phase, kind, role, t, h),
         phase = "create" => kind = "add",
         phase = "promote" => h # t,
         phase = "delete" => stale \/ Spared(t)
  PROVE  Inv'
  <1> DEFINE c == [phase |-> phase, kind |-> kind, role |-> role, target |-> t,
                   id |-> member[t].id, heir |-> h, heirId |-> member[h].id]
  <1>1. op' = [op EXCEPT ![o] = c] /\ UNCHANGED <<member, joins, stale>>
    BY DEF Begin
  <1>2. member[t].id \in Nat /\ member[h].id \in Nat /\ member[t].id <= joins
    BY DEF Inv, TypeOK, Row, IdsGrow
  <1>3. c \in Call
    BY <1>2 DEF Call
  <1>4. op' \in [Op -> Call] /\ Moves(o) /\ op'[o] = c
    BY <1>1, <1>3 DEF Inv, TypeOK, Moves
  <1>5. /\ op'[o].phase = phase /\ op'[o].kind = kind /\ op'[o].target = t
        /\ op'[o].heir = h /\ op'[o].id = member[t].id
    BY <1>4
  <1> HIDE DEF c
  <1> QED
    BY <1>1, <1>2, <1>4, <1>5, QuietKeeps

LEMMA ReadKeeps ==
  ASSUME Inv, NEW o \in Op, NEW u \in User, NEW t \in User,
         NEW role \in {"MEMBER", "ADMIN"},
         \/ ReadToAdd(o, u, t, role)
         \/ ReadToRemove(o, u, t)
         \/ ReadToLeave(o, u)
  PROVE  Inv'
  <1>1. CASE ReadToAdd(o, u, t, role)
    BY <1>1, BeginKeeps DEF ReadToAdd
  <1>2. CASE ReadToRemove(o, u, t)
    <2>1. Spared(t)
      BY <1>2 DEF ReadToRemove, Spared
    <2> QED
      BY <1>2, <2>1, BeginKeeps DEF ReadToRemove
  <1>3. CASE ReadToLeave(o, u)
    <2> DEFINE others == Members \ {u}
    <2>1. CASE Admins = {u} /\ others # {}
      <3>1. PICK h \in Eldest(others) :
              Begin(o, "promote", "leave", "NONE", u, h)
        BY <1>3, <2>1 DEF ReadToLeave
      <3>2. h \in User /\ h # u
        BY <3>1 DEF Eldest, Members
      <3> QED
        BY <3>1, <3>2, BeginKeeps
    <2>2. CASE ~(Admins = {u} /\ others # {})
      <3>1. u \in Members /\ Begin(o, "delete", "leave", "NONE", u, u)
        BY <1>3, <2>2 DEF ReadToLeave
      <3>2. stale \/ Spared(u)
        BY <2>2, <3>1 DEF Inv, AdminRemains, Spared
      <3> QED
        BY <3>1, <3>2, BeginKeeps
    <2> QED
      BY <2>1, <2>2
  <1> QED
    BY <1>1, <1>2, <1>3

-----------------------------------------------------------------------------
(* What the writes do to the members, the admins and the rows that calls   *)
(* have read.                                                              *)
LEMMA CreateKeeps ==
  ASSUME Inv, NEW o \in Op, Create(o), NEW p \in {"touch", "failed"},
         Enter(o, p)
  PROVE  Inv'
  <1> DEFINE t == op[o].target
             row == [id |-> joins + 1, role |-> op[o].role]
  <1>1. TypeOK
    BY DEF Inv
  <1>2. t \in User /\ op[o].role \in {"NONE", "MEMBER", "ADMIN"}
        /\ op[o].id \in Nat /\ joins \in Nat
    BY <1>1 DEF TypeOK, Call
  <1>3. /\ op' \in [Op -> Call] /\ Moves(o) /\ op'[o].phase = p
        /\ op'[o].kind = "add" /\ op'[o].id = op[o].id
    BY <1>1, EnterFacts DEF Create, Inv, Kinds
  <1>4. /\ t \notin Members /\ joins' = joins + 1
        /\ stale' = (stale \/ ComesLate) /\ op[o].phase = "create"
    BY DEF Create
  <1>5. /\ member' \in [User -> Row] /\ member'[t] = row
        /\ \A u \in User \ {t} : member'[u] = member[u]
    <2>1. member' = [member EXCEPT ![t] = row]
      BY DEF Create
    <2>2. row \in Row
      BY <1>2 DEF Row
    <2> QED
      BY <1>1, <1>2, <2>1, <2>2 DEF TypeOK
  <1>6. TypeOK'
    BY <1>1, <1>2, <1>3, <1>4, <1>5 DEF TypeOK
  <1>7. IdsGrow'
    <2>1. \A u \in User : member[u].id \in Nat /\ member[u].id <= joins
      BY <1>1 DEF Inv, IdsGrow, TypeOK, Row
    <2>2. \A q \in Op : op[q].id \in Nat /\ op[q].id <= joins
      BY <1>1 DEF Inv, IdsGrow, TypeOK, Call
    <2>3. \A u \in User : member'[u].id <= joins'
      BY <1>2, <1>4, <1>5, <2>1
    <2>4. \A q \in Op : op'[q].id <= joins'
      BY <1>2, <1>3, <1>4, <2>2 DEF Moves
    <2> QED
      BY <2>3, <2>4 DEF IdsGrow
  <1>8. Kinds'
    BY <1>3 DEF Inv, Kinds, Moves
  <1>9. Admins \subseteq Admins' /\ t \notin Admins
        /\ Members' \subseteq Members \cup {t}
    BY <1>2, <1>4, <1>5 DEF Members, Admins
  <1>10. ASSUME NEW q \in Op, op'[q].phase = "delete"
                   \/ (op'[q].phase \in {"touch", "done"} /\ q # o),
                There(op[q].target, op[q].id)'
         PROVE  There(op[q].target, op[q].id) /\ op'[q] = op[q]
    <2>1. op'[q] = op[q] /\ op[q].id \in Nat /\ op[q].id <= joins
      BY <1>1, <1>3, <1>10 DEF Moves, Inv, IdsGrow, TypeOK, Call
    <2>2. op[q].target \in User
      BY <1>1 DEF TypeOK, Call
    <2>3. op[q].target # t
      BY <1>2, <1>5, <1>10, <2>1 DEF There
    <2> QED
      BY <1>5, <1>10, <2>1, <2>2, <2>3 DEF There, Members
  <1>11. DeparturesAreSafe'
    <2> SUFFICES ASSUME ~stale', NEW q \in Op, op'[q].phase = "delete",
                        There(op[q].target, op[q].id)'
                 PROVE  Spared(op[q].target)'
      BY DEF DeparturesAreSafe
    <2>1. op'[q] = op[q] /\ Spared(op[q].target) /\ op[q].phase = "delete"
      BY <1>4, <1>10 DEF Inv, DeparturesAreSafe
    <2>2. Members # {op[q].target}
      BY <1>4, <2>1 DEF ComesLate, Departing
    <2> QED
      BY <1>9, <2>1, <2>2 DEF Spared
  <1>12. Gone'
    BY <1>3, <1>10 DEF Inv, Gone
  <1>13. AdminRemains'
    BY <1>4, <1>9 DEF Inv, AdminRemains, ComesLate
  <1> QED
    BY <1>6, <1>7, <1>8, <1>11, <1>12, <1>13 DEF Inv

(* The role of one row changes and its id stays. *)
LEMMA RoleKeeps ==
  ASSUME Inv, NEW o \in Op, NEW t \in User, NEW r \in {"NONE", "ADMIN"},
         op[o].phase # "create",
         member' = [member EXCEPT ![t].role = r], t \in Members,
         joins' = joins, stale' \in BOOLEAN,
         NEW p \in {"delete", "touch", "failed"}, Enter(o, p)
  PROVE  /\ TypeOK' /\ IdsGrow' /\ Kinds'
         /\ Members' = (IF r = "NONE" THEN Members \ {t} ELSE Members)
         /\ Admins' = (IF r = "NONE" THEN Admins \ {t} ELSE Admins \cup {t})
         /\ \A u \in User : member'[u].id = member[u].id
  <1> DEFINE row == [member[t] EXCEPT !.role = r]
  <1>1. TypeOK
    BY DEF Inv
  <1>2. /\ op' \in [Op -> Call] /\ Moves(o) /\ op'[o].phase = p
        /\ op'[o].id = op[o].id
    BY <1>1, EnterFacts
  <1>3. row \in Row /\ row.role = r /\ row.id = member[t].id
    BY <1>1 DEF TypeOK, Row
  <1>4. member' = [member EXCEPT ![t] = row]
    OBVIOUS
  <1>5. /\ member' \in [User -> Row] /\ member'[t] = row
        /\ \A u \in User \ {t} : member'[u] = member[u]
    BY <1>1, <1>3, <1>4 DEF TypeOK
  <1>6. TypeOK'
    BY <1>1, <1>2, <1>5 DEF TypeOK
  <1>7. \A u \in User : member'[u].id = member[u].id
    BY <1>3, <1>5
  <1>8. IdsGrow'
    BY <1>2, <1>7 DEF Inv, IdsGrow, Moves
  <1>9. Kinds'
    BY <1>2 DEF Inv, Kinds, Moves
  <1>10. /\ Members' = (IF r = "NONE" THEN Members \ {t} ELSE Members)
         /\ Admins' = (IF r = "NONE" THEN Admins \ {t} ELSE Admins \cup {t})
    BY <1>3, <1>5 DEF Members, Admins
  <1> QED
    BY <1>6, <1>7, <1>8, <1>9, <1>10

LEMMA PromoteKeeps ==
  ASSUME Inv, NEW o \in Op, Promote(o), NEW p \in {"delete", "failed"},
         Enter(o, p)
  PROVE  Inv'
  <1> DEFINE h == op[o].heir
  <1>1. /\ h \in Members /\ h \in User /\ op[o].phase = "promote"
        /\ member' = [member EXCEPT ![h].role = "ADMIN"]
        /\ joins' = joins /\ stale' = stale /\ stale \in BOOLEAN
    BY DEF Promote, There, Members, Inv, TypeOK
  <1>2. /\ TypeOK' /\ IdsGrow' /\ Kinds'
        /\ Members' = Members /\ Admins' = Admins \cup {h}
        /\ \A u \in User : member'[u].id = member[u].id
    BY <1>1, RoleKeeps
  <1>3. /\ Moves(o) /\ op'[o].phase = p /\ op'[o].target = op[o].target
        /\ op'[o].kind = op[o].kind /\ op'[o].id = op[o].id
    BY EnterFacts DEF Inv
  <1>4. h # op[o].target
    BY <1>1 DEF Inv, Kinds
  <1>5. \A u \in User : \A i : There(u, i)' => There(u, i)
    BY <1>2 DEF There
  <1>6. \A q \in Op : op[q].target \in User
    BY DEF Inv, TypeOK, Call
  <1>7. DeparturesAreSafe'
    <2> SUFFICES ASSUME ~stale, NEW q \in Op, op'[q].phase = "delete",
                        There(op[q].target, op[q].id)'
                 PROVE  Spared(op[q].target)'
      BY <1>1 DEF DeparturesAreSafe
    <2>1. CASE q = o
      BY <1>2, <1>3, <1>4, <2>1 DEF Spared
    <2>2. CASE q # o
      <3>1. op'[q] = op[q]
        BY <1>3, <2>2 DEF Moves
      <3>2. Spared(op[q].target)
        BY <1>5, <1>6, <3>1 DEF Inv, DeparturesAreSafe
      <3> QED
        BY <1>2, <3>1, <3>2 DEF Spared
    <2> QED
      BY <2>1, <2>2
  <1>8. Gone'
    <2> SUFFICES ASSUME NEW q \in Op, op'[q].phase \in {"touch", "done"},
                        op'[q].kind \in {"remove", "leave"},
                        There(op[q].target, op[q].id)'
                 PROVE  FALSE
      BY DEF Gone
    <2>1. op'[q] = op[q]
      BY <1>3 DEF Moves
    <2> QED
      BY <1>5, <1>6, <2>1 DEF Inv, Gone
  <1>9. AdminRemains'
    BY <1>2 DEF AdminRemains
  <1> QED
    BY <1>2, <1>7, <1>8, <1>9 DEF Inv

LEMMA DeleteKeeps ==
  ASSUME Inv, NEW o \in Op, Delete(o), NEW p \in {"touch", "failed"},
         Enter(o, p)
  PROVE  Inv'
  <1> DEFINE t == op[o].target
  <1>1. /\ t \in Members /\ t \in User /\ op[o].phase = "delete"
        /\ There(t, op[o].id)
        /\ member' = [member EXCEPT ![t].role = "NONE"]
        /\ joins' = joins /\ stale' = (stale \/ GoesToo(o)) /\ stale' \in BOOLEAN
    BY DEF Delete, There, Members, Inv, TypeOK
  <1>2. /\ TypeOK' /\ IdsGrow' /\ Kinds'
        /\ Members' = Members \ {t} /\ Admins' = Admins \ {t}
        /\ \A u \in User : member'[u].id = member[u].id
    BY <1>1, RoleKeeps
  <1>3. /\ Moves(o) /\ op'[o].phase = p /\ op'[o].target = t
    BY EnterFacts DEF Inv
  <1>4. \A u \in User : \A i : There(u, i)' => There(u, i) /\ u # t
    BY <1>2 DEF There
  <1>5. \A q \in Op : op[q].target \in User
    BY DEF Inv, TypeOK, Call
  <1>6. stale \/ Spared(t)
    BY <1>1 DEF Inv, DeparturesAreSafe
  <1>7. DeparturesAreSafe'
    <2> SUFFICES ASSUME ~stale', NEW q \in Op, op'[q].phase = "delete",
                        There(op[q].target, op[q].id)'
                 PROVE  Spared(op[q].target)'
      BY DEF DeparturesAreSafe
    <2>1. q # o /\ op'[q] = op[q]
      BY <1>3 DEF Moves
    <2>2. op[q].target # t /\ Spared(op[q].target)
      BY <1>1, <1>4, <1>5, <2>1 DEF Inv, DeparturesAreSafe
    <2>3. t \notin Admins
      BY <1>1, <2>1, <2>2 DEF GoesToo, Departing
    <2>4. Members # {op[q].target}
      BY <1>1, <2>2
    <2> QED
      BY <1>2, <2>1, <2>2, <2>3, <2>4 DEF Spared
  <1>8. Gone'
    <2> SUFFICES ASSUME NEW q \in Op, op'[q].phase \in {"touch", "done"},
                        op'[q].kind \in {"remove", "leave"},
                        There(op[q].target, op[q].id)'
                 PROVE  FALSE
      BY DEF Gone
    <2>1. CASE q = o
      BY <1>2, <1>3, <2>1 DEF There
    <2>2. CASE q # o
      <3>1. op'[q] = op[q]
        BY <1>3, <2>2 DEF Moves
      <3> QED
        BY <1>4, <1>5, <3>1 DEF Inv, Gone
    <2> QED
      BY <2>1, <2>2
  <1>9. AdminRemains'
    BY <1>1, <1>2, <1>6 DEF AdminRemains, Spared
  <1> QED
    BY <1>2, <1>7, <1>8, <1>9 DEF Inv

-----------------------------------------------------------------------------
LEMMA NextKeeps ==
  ASSUME Inv, [Next]_vars
  PROVE  Inv'
  <1>1. TypeOK
    BY DEF Inv
  <1>2. ASSUME NEW o \in Op, Written(o)
        PROVE  Inv'
    <2>1. CASE Create(o)
      <3>1. Enter(o, "touch")
        BY <1>2, <2>1 DEF Written, AfterWrite, Create
      <3> QED
        BY <2>1, <3>1, CreateKeeps
    <2>2. CASE Promote(o)
      <3>1. Enter(o, "delete")
        BY <1>2, <2>2 DEF Written, AfterWrite, Promote
      <3> QED
        BY <2>2, <3>1, PromoteKeeps
    <2>3. CASE Delete(o)
      <3>1. Enter(o, "touch")
        BY <1>2, <2>3 DEF Written, AfterWrite, Delete
      <3> QED
        BY <2>3, <3>1, DeleteKeeps
    <2> QED
      BY <1>2, <2>1, <2>2, <2>3 DEF Written, Write
  <1>3. ASSUME NEW o \in Op, NEW p \in {"done", "failed"}, Enter(o, p),
               UNCHANGED <<member, joins, stale>>,
               p = "done" => op[o].phase = "touch"
        PROVE  Inv'
    <2>1. /\ op' \in [Op -> Call] /\ Moves(o)
          /\ op'[o].phase = p /\ op'[o].kind = op[o].kind
          /\ op'[o].target = op[o].target /\ op'[o].id = op[o].id
      BY <1>1, <1>3, EnterFacts
    <2>2. op'[o].id <= joins
      BY <2>1 DEF Inv, IdsGrow
    <2>3. /\ op'[o].phase \in {"touch", "done"}
          /\ op'[o].kind \in {"remove", "leave"}
          => ~There(op'[o].target, op'[o].id)
      BY <1>3, <2>1 DEF Inv, Gone
    <2> QED
      BY <1>3, <2>1, <2>2, <2>3, QuietKeeps
  <1>4. ASSUME NEW o \in Op, Touch(o)
        PROVE  Inv'
    BY <1>3, <1>4 DEF Touch
  <1>5. ASSUME NEW o \in Op, WriteRefused(o)
        PROVE  Inv'
    BY <1>3, <1>5 DEF WriteRefused
  <1>6. ASSUME NEW o \in Op, Rejected(o)
        PROVE  Inv'
    <2>1. Enter(o, "failed")
      BY <1>6 DEF Rejected
    <2>2. CASE Write(o)
      BY <2>1, <2>2, CreateKeeps, PromoteKeeps, DeleteKeeps DEF Write
    <2>3. CASE UNCHANGED <<member, joins, stale>>
      BY <1>3, <2>1, <2>3
    <2> QED
      BY <1>6, <2>2, <2>3 DEF Rejected
  <1>7. CASE UNCHANGED vars
    <2>1. Members' = Members /\ Admins' = Admins
      BY <1>7 DEF vars, Members, Admins
    <2>2. TypeOK' /\ IdsGrow' /\ Kinds' /\ AdminRemains'
      BY <1>7, <2>1 DEF vars, Inv, TypeOK, IdsGrow, Kinds, AdminRemains
    <2>3. DeparturesAreSafe' /\ Gone'
      BY <1>7, <2>1 DEF vars, Inv, DeparturesAreSafe, Gone, There, Spared
    <2> QED
      BY <2>2, <2>3 DEF Inv
  <1> QED
    BY <1>2, <1>4, <1>5, <1>6, <1>7, ReadKeeps DEF Next

LEMMA Invariance == Spec => []Inv
  BY InitHolds, NextKeeps, PTL DEF Spec

-----------------------------------------------------------------------------
(* Whatever the users and their calls, every row and every call keeps its  *)
(* shape.                                                                  *)
THEOREM TypeCorrect == Spec => []TypeOK
  <1>1. Inv => TypeOK
    BY DEF Inv
  <1> QED
    BY <1>1, Invariance, PTL

(* removeParticipant and leaveConversation leave a group without an admin  *)
(* only if a write undid what a departure under way had read.              *)
THEOREM AdminRemainsUnlessStale == Spec => []AdminRemains
  <1>1. Inv => AdminRemains
    BY DEF Inv
  <1> QED
    BY <1>1, Invariance, PTL

(* A departure that was answered has ended the membership it was about.    *)
THEOREM DepartureIsDone == Spec => []AnsweredIsGone
  <1>1. Inv => AnsweredIsGone
    BY DEF Inv, Gone, AnsweredIsGone
  <1> QED
    BY <1>1, Invariance, PTL
=============================================================================
