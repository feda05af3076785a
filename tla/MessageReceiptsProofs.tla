------------------------ MODULE MessageReceiptsProofs ------------------------
(***************************************************************************)
(* Proofs about MessageReceipts for any users, messages, calls and         *)
(* rejected database calls: receipts only grow, an answered call has done  *)
(* its work, and the read pointer is backed by a receipt.                  *)
(***************************************************************************)
EXTENDS ReadStates, TLAPS, FiniteSetTheorems, WellFoundedInduction

Begun == {o \in Op : op[o].phase # "idle"}

(* Each call took one time stamp, and the clock counts them. *)
ClockCounts ==
    /\ clock = Cardinality(Begun)
    /\ \A o \in Begun : op[o].now # Never /\ op[o].user \in User

(* The work of a call is on stored messages of others, and its stage tells *)
(* what their receipts hold at least.                                      *)
StageKnows ==
    \A o \in Op, m \in Message : stage[o][m] # "none" =>
        /\ o \in Begun
        /\ m \in stored /\ Author[m] # op[o].user
        /\ stage[o][m] = "update" =>
              /\ op[o].kind # "delivered"
              /\ receipts[m][op[o].user].delivered # Never
        /\ stage[o][m] = "done" /\ op[o].phase # "failed" =>
              /\ receipts[m][op[o].user].delivered # Never
              /\ op[o].kind # "delivered" =>
                    receipts[m][op[o].user].read # Never

(* The message that a call moves the pointer to is its user's own, read    *)
(* already, or worked on by the call.                                      *)
TargetKnown ==
    \A o \in Begun : op[o].kind # "delivered" =>
        /\ op[o].target \in Message
        /\ \/ Author[op[o].target] = op[o].user
           \/ receipts[op[o].target][op[o].user].read # Never
           \/ stage[o][op[o].target] # "none"

Delivers ==
    \A m \in Message, u \in User :
        Exists(m, u) => receipts[m][u].delivered # Never

Answered ==
    \A o \in Op : op[o].phase = "done" => Busy(o) = {}

Inv ==
    /\ TypeOK
    /\ ClockCounts
    /\ StageKnows
    /\ TargetKnown
    /\ Delivers
    /\ Answered
    /\ ReceiptsAreSane
    /\ PointerIsRead

(* What every step does to the receipts: they only grow. *)
ReceiptsGrow ==
    \A m \in Message, u \in User :
        /\ receipts[m][u].delivered # Never =>
              receipts'[m][u].delivered = receipts[m][u].delivered
        /\ receipts[m][u].read # Never =>
              receipts'[m][u].read = receipts[m][u].read

-----------------------------------------------------------------------------
(* The last of some messages is one of them. *)
LEMMA LatestIsMember ==
  ASSUME NEW S \in SUBSET Message, S # {}
  PROVE  Latest(S) \in S
  <1> DEFINE T == {LastMessage - m : m \in S}
  <1>1. T \in SUBSET Nat /\ T # {}
    BY ReceiptAssumption DEF ReceiptAssumption, Message
  <1>2. PICK n \in T : \A k \in T : n <= k
    <2>1. PICK n \in T : \A k \in T : ~(<<k, n>> \in OpToRel(<, Nat))
      <3> HIDE DEF T
      <3> QED
        BY <1>1, WFMin, NatLessThanWellFounded, Zenon
    <2>2. ASSUME NEW k \in T PROVE n <= k
      <3>1. n \in Nat /\ k \in Nat
        BY <1>1
      <3>2. ~(k < n)
        BY <2>1, <3>1 DEF OpToRel
      <3> QED
        BY <3>1, <3>2
    <2> QED
      BY <2>2
  <1>3. PICK m \in S : n = LastMessage - m
    BY <1>2
  <1>4. ASSUME NEW k \in S PROVE k <= m
    <2>1. LastMessage - m <= LastMessage - k
      BY <1>2, <1>3
    <2> QED
      BY <2>1, ReceiptAssumption DEF ReceiptAssumption, Message
  <1>5. \E x \in S : \A k \in S : k <= x
    BY <1>4
  <1> QED
    BY <1>5 DEF Latest

LEMMA StampType ==
  /\ Stamp \subseteq Nat /\ Never \in Stamp
  /\ Cardinality(Op) \in Nat
  /\ \A n \in Nat : n <= Cardinality(Op) => n \in Stamp
  <1>1. Cardinality(Op) \in Nat
    BY ReceiptAssumption, FS_CardinalityType DEF ReceiptAssumption
  <1> QED
    BY <1>1 DEF Stamp, Never

(* Beginning a call leaves room on the clock. *)
LEMMA BeginCounts ==
  ASSUME TypeOK, ClockCounts, NEW o \in Op, o \notin Begun,
         Begun' = Begun \cup {o}, clock' = clock + 1
  PROVE  clock' \in Stamp /\ clock' = Cardinality(Begun') /\ clock' # Never
  <1>1. Begun \in SUBSET Op /\ IsFiniteSet(Op)
    BY ReceiptAssumption DEF Begun, ReceiptAssumption
  <1>2. IsFiniteSet(Begun)
    BY <1>1, FS_Subset
  <1>3. Cardinality(Begun \cup {o}) = Cardinality(Begun) + 1
    BY <1>2, FS_AddElement
  <1>4. (Begun \cup {o}) \in SUBSET Op
    BY <1>1
  <1>5. Cardinality(Begun \cup {o}) <= Cardinality(Op)
    BY <1>1, <1>4, FS_Subset
  <1>6. clock \in Nat
    BY StampType DEF TypeOK
  <1> QED
    BY <1>3, <1>5, <1>6, StampType DEF ClockCounts, Never

-----------------------------------------------------------------------------
LEMMA Initially == Init => Inv
  <1> SUFFICES ASSUME Init PROVE Inv
    OBVIOUS
  <1>1. TypeOK
    BY StampType DEF Init, TypeOK, Receipt, NoReceipt, OpRecord, NoMessage, Never
  <1>2. Begun = {}
    BY DEF Init, Begun
  <1>3. ClockCounts
    BY <1>2, FS_EmptySet DEF Init, ClockCounts
  <1>4. \A m \in Message, u \in User : ~Exists(m, u) /\ receipts[m][u].read = Never
    BY DEF Init, Exists, NoReceipt
  <1>5. StageKnows /\ TargetKnown /\ Answered
    BY <1>2 DEF Init, StageKnows, TargetKnown, Answered
  <1>6. Delivers /\ ReceiptsAreSane
    BY <1>4 DEF Delivers, ReceiptsAreSane
  <1>7. PointerIsRead
    BY DEF Init, PointerIsRead
  <1> QED
    BY <1>1, <1>3, <1>5, <1>6, <1>7 DEF Inv

-----------------------------------------------------------------------------
(* The receipt that a call works on is a receipt of a user. *)
LEMMA WorkedOn ==
  ASSUME Inv, NEW o \in Op, NEW m \in Message, stage[o][m] # "none"
  PROVE  /\ op[o].user \in User /\ op[o].now \in Stamp \ {Never}
         /\ receipts[m][op[o].user] \in Receipt
         /\ op[o] \in OpRecord
         /\ o \in Begun /\ m \in stored /\ Author[m] # op[o].user
  <1>1. o \in Begun /\ m \in stored /\ Author[m] # op[o].user
    BY DEF Inv, StageKnows
  <1>2. op[o].user \in User /\ op[o].now # Never
    BY <1>1 DEF Inv, ClockCounts
  <1>3. TypeOK
    BY DEF Inv
  <1> QED
    BY <1>1, <1>2, <1>3 DEF TypeOK, OpRecord

LEMMA StoreKeeps ==
  ASSUME Inv, NEW m \in Message, Store(m)
  PROVE  Inv' /\ ReceiptsGrow
  <1>1. stored' = stored \cup {m}
    BY DEF Store
  <1>2. UNCHANGED <<receipts, lastRead, clock, op, stage>>
    BY DEF Store
  <1>3. Begun' = Begun /\ \A o \in Op : Busy(o)' = Busy(o)
    BY <1>2 DEF Begun, Busy
  <1>4. TypeOK' /\ ClockCounts'
    BY <1>1, <1>2, <1>3 DEF Inv, TypeOK, ClockCounts
  <1>5. StageKnows'
    BY <1>1, <1>2, <1>3 DEF Inv, StageKnows
  <1>6. TargetKnown' /\ Answered'
    BY <1>2, <1>3 DEF Inv, TargetKnown, Answered
  <1>7. Delivers' /\ ReceiptsAreSane' /\ PointerIsRead'
    BY <1>1, <1>2 DEF Inv, Delivers, ReceiptsAreSane, PointerIsRead, Exists
  <1>8. ReceiptsGrow
    BY <1>2 DEF ReceiptsGrow
  <1> QED
    BY <1>4, <1>5, <1>6, <1>7, <1>8 DEF Inv

(* A call begins on stored messages of others, with a target among them or *)
(* a message that is its user's own or read.                               *)
LEMMA BeginKeeps ==
  ASSUME Inv, NEW o \in Op, op[o].phase = "idle",
         NEW kind \in {"delivered", "read", "bulk"}, NEW u \in User,
         NEW t \in Message, NEW work \in SUBSET stored,
         \A m \in work : Author[m] # u,
         kind # "delivered" =>
            t \in work \/ Author[t] = u \/ receipts[t][u].read # Never,
         Begin(o, kind, u, t, work), UNCHANGED <<stored, receipts, lastRead>>
  PROVE  Inv' /\ ReceiptsGrow
  <1> DEFINE rec == [phase |-> "working", kind |-> kind, user |-> u,
                     target |-> t, now |-> clock + 1]
  <1>0. TypeOK /\ ClockCounts
    BY DEF Inv
  <1>1. /\ op' = [op EXCEPT ![o] = rec] /\ clock' = clock + 1
        /\ stage' = [stage EXCEPT ![o] =
                [m \in Message |-> IF m \in work THEN "look" ELSE "none"]]
    BY DEF Begin
  <1>2. clock' \in Stamp /\ clock' = Cardinality(Begun') /\ clock' # Never
    <2>1. o \notin Begun
      BY DEF Begun
    <2>2. Begun' = Begun \cup {o}
      BY <1>0, <1>1 DEF Begun, TypeOK
    <2> QED
      BY <1>0, <1>1, <2>1, <2>2, BeginCounts
  <1>3. rec \in OpRecord /\ op'[o] = rec
        /\ \A p \in Op \ {o} : op'[p] = op[p] /\ stage'[p] = stage[p]
    BY <1>0, <1>1, <1>2 DEF OpRecord, TypeOK
  <1>4. \A m \in Message :
            stage'[o][m] = IF m \in work THEN "look" ELSE "none"
    BY <1>0, <1>1 DEF TypeOK
  <1>5. Begun' = Begun \cup {o}
    BY <1>3 DEF Begun
  <1>6. UNCHANGED <<stored, receipts, lastRead>>
    OBVIOUS
  <1> HIDE DEF rec
  <1>7. TypeOK'
    BY <1>0, <1>1, <1>2, <1>3, <1>6 DEF TypeOK
  <1>8. ClockCounts'
    BY <1>0, <1>1, <1>2, <1>3, <1>5 DEF ClockCounts, rec
  <1>9. StageKnows'
    BY <1>3, <1>4, <1>5, <1>6 DEF Inv, StageKnows, rec
  <1>10. TargetKnown'
    <2>1. ASSUME NEW p \in Begun', op'[p].kind # "delivered", p # o
          PROVE  /\ op'[p].target \in Message
                 /\ \/ Author[op'[p].target] = op'[p].user
                    \/ receipts'[op'[p].target][op'[p].user].read # Never
                    \/ stage'[p][op'[p].target] # "none"
      <3>1. p \in Begun /\ p \in Op
        BY <1>5, <2>1 DEF Begun
      <3> QED
        BY <1>3, <1>6, <2>1, <3>1 DEF Inv, TargetKnown
    <2>2. /\ op'[o].target = t /\ op'[o].user = u /\ op'[o].kind = kind
          /\ t \in work => stage'[o][t] # "none"
      BY <1>3, <1>4 DEF rec
    <2> QED
      BY <1>6, <2>1, <2>2 DEF TargetKnown
  <1>11. Answered'
    BY <1>3 DEF Inv, Answered, Busy, rec
  <1>12. Delivers' /\ ReceiptsAreSane' /\ PointerIsRead'
    BY <1>6 DEF Inv, Delivers, ReceiptsAreSane, PointerIsRead, Exists
  <1>13. ReceiptsGrow
    BY <1>6 DEF ReceiptsGrow
  <1> QED
    BY <1>7, <1>8, <1>9, <1>10, <1>11, <1>12, <1>13 DEF Inv

LEMMA StartOneKeeps ==
  ASSUME Inv, NEW o \in Op, NEW kind \in {"delivered", "read"}, NEW u \in User,
         NEW m \in Message, StartOne(o, kind, u, m)
  PROVE  Inv' /\ ReceiptsGrow
  <1>1. /\ op[o].phase = "idle" /\ m \in stored /\ Author[m] # u
        /\ Begin(o, kind, u, m, {m})
        /\ UNCHANGED <<stored, receipts, lastRead>>
    BY DEF StartOne
  <1>2. {m} \in SUBSET stored /\ \A n \in {m} : Author[n] # u
    BY <1>1
  <1> QED
    BY <1>1, <1>2, BeginKeeps

LEMMA StartBulkKeeps ==
  ASSUME Inv, NEW o \in Op, NEW u \in User, NEW t \in Message \cup {NoMessage},
         StartBulk(o, u, t)
  PROVE  Inv' /\ ReceiptsGrow
  <1> DEFINE work == UnreadUpTo(u, t)
             target == IF t = NoMessage THEN Latest(work) ELSE t
  <1>1. /\ op[o].phase = "idle" /\ t \in stored \cup {NoMessage} /\ work # {}
        /\ Begin(o, "bulk", u, target, work)
        /\ UNCHANGED <<stored, receipts, lastRead>>
    BY DEF StartBulk
  <1>2. stored \subseteq Message
    BY DEF Inv, TypeOK
  <1>3. work \in SUBSET stored /\ \A m \in work : Author[m] # u
    BY DEF UnreadUpTo, Unread
  <1>4. /\ target \in Message
        /\ target \in work \/ Author[target] = u
             \/ receipts[target][u].read # Never
    <2>1. CASE t = NoMessage
      <3>1. work \in SUBSET Message
        BY <1>2, <1>3
      <3>2. Latest(work) \in work
        <4> HIDE DEF work
        <4> QED
          BY <1>1, <3>1, LatestIsMember
      <3> QED
        BY <2>1, <3>1, <3>2
    <2>2. CASE t # NoMessage
      <3>1. t \in stored /\ t \in Message /\ target = t
        BY <1>1, <1>2, <2>2
      <3>2. t <= t
        BY <3>1 DEF Message
      <3> QED
        BY <3>1, <3>2 DEF UnreadUpTo, Unread
    <2> QED
      BY <2>1, <2>2
  <1> HIDE DEF work, target
  <1> QED
    BY <1>1, <1>3, <1>4, BeginKeeps

-----------------------------------------------------------------------------
(* The lookup decides on what the receipt holds now. *)
LEMMA LookKeeps ==
  ASSUME Inv, NEW o \in Op, NEW m \in Message, Look(o, m)
  PROVE  Inv' /\ ReceiptsGrow
  <1> DEFINE u == op[o].user
             s == IF ~Exists(m, u) THEN "insert"
                  ELSE IF op[o].kind = "delivered" \/ receipts[m][u].read # Never
                  THEN "done" ELSE "update"
  <1>1. stage[o][m] = "look" /\ stage' = [stage EXCEPT ![o][m] = s]
    BY DEF Look, Advance
  <1>2. UNCHANGED <<stored, receipts, lastRead, clock, op>>
    BY DEF Look
  <1>3. TypeOK
    BY DEF Inv
  <1>4. /\ stage'[o][m] = s /\ stage[o][m] # "none"
        /\ \A p \in Op, n \in Message :
                p # o \/ n # m => stage'[p][n] = stage[p][n]
    BY <1>1, <1>3 DEF TypeOK
  <1>5. o \in Begun /\ m \in stored /\ Author[m] # u /\ u \in User
    BY <1>4, WorkedOn
  <1>6. Exists(m, u) => receipts[m][u].delivered # Never
    BY <1>5 DEF Inv, Delivers
  <1>7. Begun' = Begun
    BY <1>2 DEF Begun
  <1>8. s \in {"insert", "done", "update"}
    OBVIOUS
  <1>9. /\ s = "update" => /\ op[o].kind # "delivered"
                           /\ receipts[m][u].delivered # Never
        /\ s = "done" => /\ receipts[m][u].delivered # Never
                         /\ op[o].kind # "delivered" =>
                                receipts[m][u].read # Never
    BY <1>6
  <1> HIDE DEF s
  <1>10. TypeOK'
    BY <1>1, <1>2, <1>3, <1>8 DEF TypeOK
  <1>11. ClockCounts'
    BY <1>2, <1>7 DEF Inv, ClockCounts
  <1>12. StageKnows'
    BY <1>2, <1>4, <1>5, <1>7, <1>9 DEF Inv, StageKnows
  <1>13. TargetKnown'
    <2>1. \A p \in Begun : p \in Op
      BY DEF Begun
    <2> QED
      BY <1>2, <1>4, <1>7, <1>8, <2>1 DEF Inv, TargetKnown
  <1>14. Answered'
    BY <1>2, <1>4, <1>1 DEF Inv, Answered, Busy
  <1>15. Delivers' /\ ReceiptsAreSane' /\ PointerIsRead'
    BY <1>2 DEF Inv, Delivers, ReceiptsAreSane, PointerIsRead, Exists
  <1>16. ReceiptsGrow
    BY <1>2 DEF ReceiptsGrow
  <1> QED
    BY <1>10, <1>11, <1>12, <1>13, <1>14, <1>15, <1>16 DEF Inv

(* A rejected call settles nothing but itself. *)
LEMMA AbandonKeeps ==
  ASSUME Inv, NEW o \in Op, NEW m \in Message, m \in Busy(o), Abandon(o, m)
  PROVE  Inv' /\ ReceiptsGrow
  <1>0. TypeOK
    BY DEF Inv
  <1>1. /\ stage' = [stage EXCEPT ![o][m] = "done"]
        /\ op' = [op EXCEPT ![o].phase = "failed"]
    BY DEF Abandon, Advance
  <1>2. UNCHANGED <<stored, receipts, lastRead, clock>>
    BY DEF Abandon
  <1>3. stage[o][m] # "none"
    BY DEF Busy
  <1>4. /\ stage'[o][m] = "done"
        /\ \A p \in Op, n \in Message :
                p # o \/ n # m => stage'[p][n] = stage[p][n]
    BY <1>0, <1>1 DEF TypeOK
  <1>5. /\ op'[o] = [op[o] EXCEPT !.phase = "failed"]
        /\ \A p \in Op : p # o => op'[p] = op[p]
    BY <1>0, <1>1 DEF TypeOK
  <1>6. o \in Begun /\ op[o] \in OpRecord
    BY <1>3, WorkedOn
  <1>7. /\ op'[o] \in OpRecord /\ op'[o].phase = "failed"
        /\ \A p \in Op : /\ op'[p].kind = op[p].kind /\ op'[p].now = op[p].now
                          /\ op'[p].user = op[p].user
                          /\ op'[p].target = op[p].target
    BY <1>5, <1>6 DEF OpRecord
  <1>8. Begun' = Begun /\ \A p \in Begun : p \in Op
    <2>1. \A p \in Op : op'[p].phase # "idle" <=> op[p].phase # "idle"
      BY <1>5, <1>6, <1>7 DEF Begun
    <2> QED
      BY <2>1 DEF Begun
  <1>9. TypeOK'
    BY <1>0, <1>1, <1>2, <1>5, <1>7 DEF TypeOK
  <1>10. ClockCounts'
    BY <1>2, <1>7, <1>8 DEF Inv, ClockCounts
  <1>11. StageKnows'
    <2> SUFFICES ASSUME NEW p \in Op, NEW n \in Message, stage'[p][n] # "none"
        PROVE /\ p \in Begun
              /\ n \in stored /\ Author[n] # op[p].user
              /\ stage'[p][n] = "update" =>
                    /\ op[p].kind # "delivered"
                    /\ receipts[n][op[p].user].delivered # Never
              /\ stage'[p][n] = "done" /\ op'[p].phase # "failed" =>
                    /\ receipts[n][op[p].user].delivered # Never
                    /\ op[p].kind # "delivered" =>
                          receipts[n][op[p].user].read # Never
      BY <1>2, <1>7, <1>8 DEF StageKnows
    <2>1. CASE p = o /\ n = m
      BY <1>3, <1>4, <1>7, <2>1 DEF Inv, StageKnows
    <2>2. CASE ~(p = o /\ n = m)
      <3>1. stage'[p][n] = stage[p][n]
        BY <1>4, <2>2
      <3>2. op'[p].phase # "failed" => op'[p] = op[p]
        BY <1>5, <1>7
      <3> QED
        BY <3>1, <3>2 DEF Inv, StageKnows
    <2> QED
      BY <2>1, <2>2
  <1>12. TargetKnown'
    <2> SUFFICES ASSUME NEW p \in Begun, op[p].kind # "delivered"
        PROVE /\ op[p].target \in Message
              /\ \/ Author[op[p].target] = op[p].user
                 \/ receipts[op[p].target][op[p].user].read # Never
                 \/ stage'[p][op[p].target] # "none"
      BY <1>2, <1>7, <1>8 DEF TargetKnown
    <2> QED
      BY <1>3, <1>4, <1>8 DEF Inv, TargetKnown
  <1>13. Answered'
    BY ZenonT(40), <1>4, <1>5, <1>7 DEF Inv, Answered, Busy
  <1>14. Delivers' /\ ReceiptsAreSane' /\ PointerIsRead'
    BY <1>2 DEF Inv, Delivers, ReceiptsAreSane, PointerIsRead, Exists
  <1>15. ReceiptsGrow
    BY <1>2 DEF ReceiptsGrow
  <1> QED
    BY <1>9, <1>10, <1>11, <1>12, <1>13, <1>14, <1>15 DEF Inv

(* A write that sets the null stamps of one receipt, by a call that then   *)
(* is done with it.                                                        *)
LEMMA WriteKeeps ==
  ASSUME Inv, NEW o \in Op, NEW m \in Message, m \in Busy(o),
         NEW r \in Receipt, Write(m, op[o].user, r), Advance(o, m, "done"),
         UNCHANGED <<stored, lastRead, clock, op>>,
         r.delivered # Never, op[o].kind # "delivered" => r.read # Never,
         LET old == receipts[m][op[o].user] IN
            /\ old.delivered # Never => r.delivered = old.delivered
            /\ old.read # Never => r.read = old.read
  PROVE  Inv' /\ ReceiptsGrow
  <1> DEFINE u == op[o].user
  <1>0. TypeOK
    BY DEF Inv
  <1>1. /\ stage' = [stage EXCEPT ![o][m] = "done"]
        /\ receipts' = [receipts EXCEPT ![m][u] = r]
    BY DEF Advance, Write
  <1>2. UNCHANGED <<stored, lastRead, clock, op>>
    OBVIOUS
  <1>3. stage[o][m] # "none"
    BY DEF Busy
  <1>4. /\ stage'[o][m] = "done"
        /\ \A p \in Op, n \in Message :
                p # o \/ n # m => stage'[p][n] = stage[p][n]
    BY <1>0, <1>1 DEF TypeOK
  <1>5. o \in Begun /\ m \in stored /\ Author[m] # u /\ u \in User
    BY <1>3, WorkedOn
  <1>6. /\ receipts'[m][u] = r
        /\ \A n \in Message, v \in User :
                n # m \/ v # u => receipts'[n][v] = receipts[n][v]
    BY <1>0, <1>1, <1>5 DEF TypeOK
  <1>7. ReceiptsGrow
    BY <1>6 DEF ReceiptsGrow
  <1>8. Begun' = Begun /\ \A p \in Begun : p \in Op /\ op[p].user \in User
    BY <1>2 DEF Begun, Inv, ClockCounts
  <1>9. TypeOK'
    BY <1>0, <1>1, <1>2, <1>5 DEF TypeOK
  <1>10. ClockCounts'
    BY <1>2, <1>8 DEF Inv, ClockCounts
  <1>11. StageKnows'
    <2> SUFFICES ASSUME NEW p \in Op, NEW n \in Message, stage'[p][n] # "none"
        PROVE /\ p \in Begun
              /\ n \in stored /\ Author[n] # op[p].user
              /\ stage'[p][n] = "update" =>
                    /\ op[p].kind # "delivered"
                    /\ receipts'[n][op[p].user].delivered # Never
              /\ stage'[p][n] = "done" /\ op[p].phase # "failed" =>
                    /\ receipts'[n][op[p].user].delivered # Never
                    /\ op[p].kind # "delivered" =>
                          receipts'[n][op[p].user].read # Never
      BY <1>2, <1>8 DEF StageKnows
    <2>1. CASE p = o /\ n = m
      BY <1>4, <1>5, <1>6, <2>1
    <2>2. CASE ~(p = o /\ n = m)
      <3>1. stage'[p][n] = stage[p][n]
        BY <1>4, <2>2
      <3>2. op[p].user \in User
        BY <1>8, <3>1 DEF Inv, StageKnows
      <3> QED
        BY <1>7, <3>1, <3>2 DEF Inv, StageKnows, ReceiptsGrow
    <2> QED
      BY <2>1, <2>2
  <1>12. TargetKnown'
    <2> SUFFICES ASSUME NEW p \in Begun, op[p].kind # "delivered"
        PROVE /\ op[p].target \in Message
              /\ \/ Author[op[p].target] = op[p].user
                 \/ receipts'[op[p].target][op[p].user].read # Never
                 \/ stage'[p][op[p].target] # "none"
      BY <1>2, <1>8 DEF TargetKnown
    <2> QED
      BY <1>4, <1>7, <1>8 DEF Inv, TargetKnown, ReceiptsGrow
  <1>13. Answered'
    BY <1>2, <1>4 DEF Inv, Answered, Busy
  <1>14. Delivers'
    BY <1>6 DEF Inv, Delivers, Exists
  <1>15. ReceiptsAreSane'
    BY <1>2, <1>5, <1>6 DEF Inv, ReceiptsAreSane, Exists
  <1>16. PointerIsRead'
    <2>1. \A v \in User : lastRead[v].message \in Message \cup {NoMessage}
      BY <1>0 DEF TypeOK
    <2> QED
      BY <1>2, <1>7, <2>1 DEF Inv, PointerIsRead, ReceiptsGrow
  <1> QED
    BY <1>7, <1>9, <1>10, <1>11, <1>12, <1>13, <1>14, <1>15, <1>16 DEF Inv

LEMMA InsertKeeps ==
  ASSUME Inv, NEW o \in Op, NEW m \in Message, Insert(o, m)
  PROVE  Inv' /\ ReceiptsGrow
  <1> DEFINE u == op[o].user
             r == [delivered |-> op[o].now,
                   read |-> IF op[o].kind = "delivered" THEN Never ELSE op[o].now]
  <1>1. /\ stage[o][m] = "insert" /\ ~Exists(m, u)
        /\ Write(m, u, r) /\ Advance(o, m, "done")
        /\ UNCHANGED <<stored, lastRead, clock, op>>
    BY DEF Insert
  <1>2. op[o].now \in Stamp /\ op[o].now # Never
    BY <1>1, WorkedOn
  <1>3. r \in Receipt /\ r.delivered # Never
        /\ (op[o].kind # "delivered" => r.read # Never)
    BY <1>2, StampType DEF Receipt
  <1>4. receipts[m][u].delivered = Never /\ receipts[m][u].read = Never
    BY <1>1 DEF Exists, NoReceipt
  <1>5. m \in Busy(o)
    BY <1>1 DEF Busy
  <1> HIDE DEF r
  <1> QED
    BY <1>1, <1>3, <1>4, <1>5, WriteKeeps

LEMMA UpdateKeeps ==
  ASSUME Inv, NEW o \in Op, NEW m \in Message, Update(o, m)
  PROVE  Inv' /\ ReceiptsGrow
  <1> DEFINE u == op[o].user
             old == receipts[m][u]
             r == IF old.read = Never THEN [old EXCEPT !.read = op[o].now] ELSE old
  <1>1. /\ stage[o][m] = "update" /\ Advance(o, m, "done")
        /\ UNCHANGED <<stored, lastRead, clock, op>>
    BY DEF Update
  <1>2. op[o].now \in Stamp /\ op[o].now # Never /\ u \in User /\ old \in Receipt
    BY <1>1, WorkedOn
  <1>3. r \in Receipt /\ r.delivered = old.delivered /\ r.read # Never
        /\ (old.read # Never => r.read = old.read)
    BY <1>2 DEF Receipt
  <1>4. old.delivered # Never
    BY <1>1 DEF Inv, StageKnows
  <1>5. Write(m, u, r)
    <2>1. CASE old.read = Never
      BY <2>1 DEF Update
    <2>2. CASE old.read # Never
      <3>1. receipts' = receipts
        BY <2>2 DEF Update
      <3>2. receipts = [receipts EXCEPT ![m][u] = old]
        BY <1>2 DEF Inv, TypeOK
      <3> QED
        BY <2>2, <3>1, <3>2 DEF Write
    <2> QED
      BY <2>1, <2>2
  <1>6. m \in Busy(o)
    BY <1>1 DEF Busy
  <1> HIDE DEF r
  <1> QED
    BY <1>1, <1>3, <1>4, <1>5, <1>6, WriteKeeps

(* A call whose work is done is answered. *)
LEMMA SettleKeeps ==
  ASSUME Inv, NEW o \in Op, op[o].phase = "working", Busy(o) = {},
         op' = [op EXCEPT ![o].phase = "done"],
         UNCHANGED <<stored, receipts, clock, stage>>, TypeOK', PointerIsRead'
  PROVE  Inv' /\ ReceiptsGrow
  <1>0. TypeOK
    BY DEF Inv
  <1>1. UNCHANGED <<stored, receipts, clock, stage>>
    OBVIOUS
  <1>2. o \in Begun /\ op[o] \in OpRecord
    BY <1>0 DEF Begun, TypeOK
  <1>3. /\ op'[o] = [op[o] EXCEPT !.phase = "done"]
        /\ \A p \in Op : p # o => op'[p] = op[p]
    BY <1>0 DEF TypeOK
  <1>4. /\ op'[o] \in OpRecord /\ op'[o].phase = "done"
        /\ \A p \in Op : /\ op'[p].kind = op[p].kind /\ op'[p].now = op[p].now
                          /\ op'[p].user = op[p].user
                          /\ op'[p].target = op[p].target
    BY <1>2, <1>3 DEF OpRecord
  <1>5. Begun' = Begun /\ \A p \in Begun : p \in Op
    BY <1>2, <1>3, <1>4 DEF Begun
  <1>7. ClockCounts'
    BY <1>1, <1>4, <1>5 DEF Inv, ClockCounts
  <1>8. StageKnows'
    BY <1>1, <1>3, <1>4, <1>5 DEF Inv, StageKnows
  <1>9. TargetKnown'
    BY <1>1, <1>4, <1>5 DEF Inv, TargetKnown
  <1>10. Answered'
    BY <1>1, <1>3 DEF Inv, Answered, Busy
  <1>11. Delivers' /\ ReceiptsAreSane'
    BY <1>1 DEF Inv, Delivers, ReceiptsAreSane, Exists
  <1>12. ReceiptsGrow
    BY <1>1 DEF ReceiptsGrow
  <1> QED
    BY <1>7, <1>8, <1>9, <1>10, <1>11, <1>12 DEF Inv

LEMMA SettledType ==
  ASSUME TypeOK, NEW o \in Op, op' = [op EXCEPT ![o].phase = "done"]
  PROVE  op' \in [Op -> OpRecord]
  <1>1. op[o] \in OpRecord
    BY DEF TypeOK
  <1>2. [op[o] EXCEPT !.phase = "done"] \in OpRecord
    BY <1>1 DEF OpRecord
  <1> QED
    BY <1>2 DEF TypeOK

LEMMA ReturnDeliveredKeeps ==
  ASSUME Inv, NEW o \in Op, ReturnDelivered(o)
  PROVE  Inv' /\ ReceiptsGrow
  <1>0. TypeOK
    BY DEF Inv
  <1>1. /\ op[o].phase = "working" /\ Busy(o) = {}
        /\ op' = [op EXCEPT ![o].phase = "done"]
        /\ UNCHANGED <<stored, receipts, lastRead, clock, stage>>
    BY DEF ReturnDelivered
  <1>2. TypeOK'
    BY <1>0, <1>1, SettledType DEF TypeOK
  <1>3. PointerIsRead'
    BY <1>1 DEF Inv, PointerIsRead
  <1> QED
    BY <1>1, <1>2, <1>3, SettleKeeps

LEMMA PointKeeps ==
  ASSUME Inv, NEW o \in Op, Point(o)
  PROVE  Inv' /\ ReceiptsGrow
  <1> DEFINE u == op[o].user
             t == op[o].target
             at == IF op[o].kind = "read" THEN receipts[t][u].read ELSE op[o].now
  <1>1. /\ op[o].phase = "working" /\ Busy(o) = {} /\ op[o].kind # "delivered"
        /\ op' = [op EXCEPT ![o].phase = "done"]
        /\ UNCHANGED <<stored, receipts, clock, stage>>
        /\ lastRead' = lastRead
             \/ lastRead' = [lastRead EXCEPT ![u] = [message |-> t, at |-> at]]
    BY DEF Point
  <1>2. o \in Begun /\ TypeOK
    BY <1>1 DEF Begun, Inv
  <1>3. u \in User /\ t \in Message
    BY <1>1, <1>2 DEF Inv, ClockCounts, TargetKnown
  <1>4. at \in Stamp
    BY <1>2, <1>3 DEF TypeOK, OpRecord, Receipt
  <1>5. Author[t] = u \/ receipts[t][u].read # Never
    <2>1. CASE stage[o][t] # "none"
      <3>1. stage[o][t] = "done"
        BY <1>1, <1>2, <1>3, <2>1 DEF Busy, TypeOK
      <3> QED
        BY <1>1, <1>3, <3>1 DEF Inv, StageKnows
    <2>2. CASE stage[o][t] = "none"
      BY <1>1, <1>2, <2>2 DEF Inv, TargetKnown
    <2> QED
      BY <2>1, <2>2
  <1> HIDE DEF at
  <1>6. TypeOK'
    <2>1. op' \in [Op -> OpRecord]
      BY <1>1, <1>2, SettledType
    <2>2. lastRead' \in [User -> [message : Message \cup {NoMessage}, at : Stamp]]
      BY <1>1, <1>2, <1>3, <1>4 DEF TypeOK
    <2> QED
      BY <1>1, <1>2, <2>1, <2>2 DEF TypeOK
  <1>7. PointerIsRead'
    <2>1. \A v \in User :
            \/ lastRead'[v] = lastRead[v]
            \/ v = u /\ lastRead'[v].message = t
      <3>1. CASE lastRead' = lastRead
        BY <3>1
      <3>2. CASE lastRead' = [lastRead EXCEPT ![u] = [message |-> t, at |-> at]]
        BY <1>2, <3>2 DEF TypeOK
      <3> QED
        BY <1>1, <3>1, <3>2
    <2> QED
      BY <1>1, <1>5, <2>1 DEF Inv, PointerIsRead
  <1> QED
    BY <1>1, <1>6, <1>7, SettleKeeps

-----------------------------------------------------------------------------
(* The invariant is inductive. *)
LEMMA NextKeeps ==
  ASSUME Inv, Next
  PROVE  Inv' /\ ReceiptsGrow
  <1>1. ASSUME NEW m \in Message, Store(m) PROVE Inv' /\ ReceiptsGrow
    BY <1>1, StoreKeeps
  <1>2. ASSUME NEW o \in Op, Start(o) PROVE Inv' /\ ReceiptsGrow
    BY <1>2, StartOneKeeps, StartBulkKeeps DEF Start
  <1>3. ASSUME NEW o \in Op, Work(o) PROVE Inv' /\ ReceiptsGrow
    <2>1. ASSUME NEW m \in Message, Look(o, m) PROVE Inv' /\ ReceiptsGrow
      BY <2>1, LookKeeps
    <2>2. ASSUME NEW m \in Message, Insert(o, m) PROVE Inv' /\ ReceiptsGrow
      BY <2>2, InsertKeeps
    <2>3. ASSUME NEW m \in Message, Duplicate(o, m) \/ Rejected(o, m)
          PROVE Inv' /\ ReceiptsGrow
      <3>1. m \in Busy(o) /\ Abandon(o, m)
        BY <2>3 DEF Duplicate, Rejected, Busy
      <3> QED
        BY <3>1, AbandonKeeps
    <2>4. ASSUME NEW m \in Message, Update(o, m) PROVE Inv' /\ ReceiptsGrow
      BY <2>4, UpdateKeeps
    <2>5. CASE ReturnDelivered(o) \/ Point(o)
      BY <2>5, ReturnDeliveredKeeps, PointKeeps
    <2> QED
      BY <1>3, <2>1, <2>2, <2>3, <2>4, <2>5 DEF Work
  <1> QED
    BY <1>1, <1>2, <1>3 DEF Next

LEMMA StutterKeeps ==
  ASSUME Inv, UNCHANGED vars
  PROVE  Inv'
  <1>1. UNCHANGED <<stored, receipts, lastRead, clock, op, stage>>
    BY DEF vars
  <1>2. Begun' = Begun
    BY <1>1 DEF Begun
  <1>3. TypeOK' /\ ClockCounts' /\ StageKnows' /\ TargetKnown'
    BY <1>1, <1>2 DEF Inv, TypeOK, ClockCounts, StageKnows, TargetKnown
  <1>4. Delivers' /\ Answered' /\ ReceiptsAreSane' /\ PointerIsRead'
    BY <1>1 DEF Inv, Delivers, Answered, ReceiptsAreSane, PointerIsRead,
                Exists, Busy
  <1> QED
    BY <1>3, <1>4 DEF Inv

(* What is known of the stages, once a call is answered. *)
LEMMA InvAnswers == Inv => AnsweredIsDone
  <1> SUFFICES ASSUME Inv, NEW o \in Op, op[o].phase = "done",
                      NEW m \in Message, stage[o][m] # "none"
               PROVE  IF op[o].kind = "delivered"
                      THEN receipts[m][op[o].user].delivered # Never
                      ELSE receipts[m][op[o].user].read # Never
    BY DEF AnsweredIsDone
  <1>1. stage[o][m] = "done"
    BY DEF Inv, Answered, Busy, TypeOK
  <1> QED
    BY <1>1 DEF Inv, StageKnows

(* The inductive invariant holds throughout. *)
THEOREM InvHolds == Spec => []Inv
  <1>1. Inv /\ [Next]_vars => Inv'
    BY NextKeeps, StutterKeeps
  <1> QED
    BY Initially, <1>1, PTL DEF Spec

(* Every variable keeps its type; the clock suffices for all calls. *)
THEOREM TypeCorrect == Spec => []TypeOK
  BY InvHolds, PTL DEF Inv

(* READ satisfies DELIVERED, and receipts are for stored messages of       *)
(* others, however the calls interleave and fail.                          *)
THEOREM ReceiptsSane == Spec => []ReceiptsAreSane
  BY InvHolds, PTL DEF Inv

(* The read pointer of a user is backed by a receipt, or by his own        *)
(* message.                                                                *)
THEOREM PointerRead == Spec => []PointerIsRead
  BY InvHolds, PTL DEF Inv

(* A call answered with success has left every receipt it worked on        *)
(* delivered, or read.                                                     *)
THEOREM AnsweredDone == Spec => []AnsweredIsDone
  BY InvHolds, InvAnswers, PTL

(* No step of any call changes a time stamp that is there. *)
THEOREM StampsKept == Spec => StampsPersist
  <1>1. Inv /\ [Next]_vars =>
          [\A m \in Message, u \in User :
            /\ receipts[m][u].delivered # Never =>
                  receipts'[m][u].delivered = receipts[m][u].delivered
            /\ receipts[m][u].read # Never =>
                  receipts'[m][u].read = receipts[m][u].read]_vars
    BY NextKeeps DEF ReceiptsGrow
  <1> QED
    BY InvHolds, <1>1, PTL DEF Spec, StampsPersist

-----------------------------------------------------------------------------
(* The read states of ReadStates *)

(* What the reader was given reason to take for read, is read. *)
ViewKnows(u) ==
    /\ view[u].known \subseteq stored
    /\ ~view[u].asked => view[u].known = {}
    /\ \A m \in view[u].settled : receipts[m][u].read # Never

ViewInv ==
    /\ ViewTypeOK
    /\ \A u \in Reader : ViewKnows(u) /\ PointerIsBacked(u) /\ CountIsCurrent(u)

(* No step takes a message back. *)
LEMMA StoredGrows ==
  ASSUME Next
  PROVE  stored \subseteq stored'
  <1>1. ASSUME NEW m \in Message, Store(m) PROVE stored \subseteq stored'
    BY <1>1 DEF Store
  <1>2. ASSUME NEW o \in Op, Start(o) PROVE stored \subseteq stored'
    BY <1>2 DEF Start, StartOne, StartBulk
  <1>3. ASSUME NEW o \in Op, Work(o) PROVE stored \subseteq stored'
    BY <1>3 DEF Work, Look, Insert, Duplicate, Rejected, Abandon, Update,
                ReturnDelivered, Point
  <1> QED
    BY <1>1, <1>2, <1>3 DEF Next

LEMMA ViewInitially == ReadInit => ViewInv
  <1> SUFFICES ASSUME ReadInit PROVE ViewInv
    OBVIOUS
  <1>1. ViewTypeOK
    <2>1. NoPointer \in [message : Message \cup {NoMessage}, at : Stamp]
      BY FS_CardinalityType, ReceiptAssumption
         DEF NoPointer, Stamp, Never, NoMessage
    <2> QED
      BY <2>1 DEF ReadInit, ViewTypeOK, ViewRecord, Queries
  <1>2. ASSUME NEW u \in Reader
        PROVE  ViewKnows(u) /\ PointerIsBacked(u) /\ CountIsCurrent(u)
    BY DEF ReadInit, ViewKnows, PointerIsBacked, CountIsCurrent, NoPointer
  <1> QED
    BY <1>1, <1>2 DEF ViewInv

(* The receipt calls leave a view true, for receipts only grow. *)
LEMMA CallsKeepViews ==
  ASSUME Inv, ViewInv, Next, UNCHANGED view
  PROVE  ViewInv'
  <1>1. ReceiptsGrow /\ Inv'
    BY NextKeeps
  <1>2. stored \subseteq stored'
    BY StoredGrows
  <1> SUFFICES ASSUME NEW u \in Reader
               PROVE  (ViewKnows(u) /\ PointerIsBacked(u) /\ CountIsCurrent(u))'
    BY DEF ViewInv, ViewTypeOK
  <1>3. u \in User
    BY ReaderAssumption
  <1>4. ASSUME NEW m \in Message, receipts[m][u].read # Never
        PROVE  receipts'[m][u].read # Never
    BY <1>1, <1>3, <1>4 DEF ReceiptsGrow
  <1>5. view[u] \in ViewRecord
    BY DEF ViewInv, ViewTypeOK
  <1>6. ViewKnows(u)'
    BY <1>2, <1>4, <1>5 DEF ViewInv, ViewKnows, ViewRecord
  <1>7. PointerIsBacked(u)'
    BY <1>4, <1>5 DEF ViewInv, PointerIsBacked, ViewRecord
  <1>8. view[u].known \cap Unread(u)' \subseteq view[u].known \cap Unread(u)
    BY <1>4, <1>5 DEF ViewInv, ViewKnows, Unread, ViewRecord
  <1>9. CountIsCurrent(u)'
    BY <1>8 DEF ViewInv, CountIsCurrent
  <1> QED
    BY <1>6, <1>7, <1>9

(* A new question starts from what is settled, and that is read. *)
LEMMA AskKeepsViews ==
  ASSUME Inv, ViewInv, NEW u \in Reader, Ask(u)
  PROVE  ViewInv'
  <1>1. u \in User /\ view[u] \in ViewRecord /\ stored \subseteq Message
    BY ReaderAssumption DEF ViewInv, ViewTypeOK, Inv, TypeOK
  <1>2. Settled(u) \subseteq Message
    BY <1>1 DEF Settled, ViewRecord
  <1>3. ASSUME NEW m \in Settled(u) PROVE receipts[m][u].read # Never
    <2>1. CASE \E o \in Op : /\ op[o].phase = "done"
                             /\ op[o].user = u
                             /\ op[o].kind # "delivered"
                             /\ stage[o][m] # "none"
      BY <1>2, <2>1, InvAnswers DEF AnsweredIsDone
    <2>2. CASE m \in view[u].known \ view[u].unread /\ Author[m] # u
      <3>1. m \in stored /\ m \notin Unread(u)
        BY <2>2 DEF Ask, ViewInv, ViewKnows, CountIsCurrent
      <3> QED
        BY <2>2, <3>1 DEF Unread
    <2> QED
      BY <2>1, <2>2 DEF Settled
  <1>4. NoPointer \in [message : Message \cup {NoMessage}, at : Stamp]
    BY FS_CardinalityType, ReceiptAssumption
       DEF NoPointer, Stamp, Never, NoMessage
  <1>5. ViewTypeOK'
    BY <1>1, <1>2, <1>4 DEF Ask, ViewInv, ViewTypeOK, ViewRecord
  <1>6. view'[u] = [asked |-> TRUE, pending |-> Queries, pointer |-> NoPointer,
                    unread |-> {}, known |-> stored, settled |-> Settled(u)]
    BY DEF Ask, ViewInv, ViewTypeOK
  <1>7. ASSUME NEW v \in Reader
        PROVE  (ViewKnows(v) /\ PointerIsBacked(v) /\ CountIsCurrent(v))'
    <2>1. UNCHANGED <<stored, receipts>>
      BY DEF Ask, vars
    <2>2. CASE v = u
      BY <1>3, <1>6, <2>1, <2>2
         DEF ViewKnows, PointerIsBacked, CountIsCurrent, NoPointer, Queries
    <2>3. CASE v # u
      <3>1. view'[v] = view[v]
        BY <2>3 DEF Ask, ViewInv, ViewTypeOK
      <3> QED
        BY <2>1, <3>1 DEF ViewInv, ViewKnows, PointerIsBacked, CountIsCurrent,
                          Unread
    <2> QED
      BY <2>2, <2>3
  <1> QED
    BY <1>5, <1>7 DEF ViewInv

(* Each half of an answer is true when it is read. *)
LEMMA AnswersKeepViews ==
  ASSUME Inv, ViewInv, NEW u \in Reader, ReadPointer(u) \/ CountUnread(u)
  PROVE  ViewInv'
  <1>1. u \in User /\ view[u] \in ViewRecord /\ Unread(u) \subseteq Message
    BY ReaderAssumption DEF ViewInv, ViewTypeOK, Inv, TypeOK, Unread
  <1>2. UNCHANGED <<stored, receipts>>
    BY DEF ReadPointer, CountUnread, vars
  <1>3. ASSUME NEW v \in Reader, v # u
        PROVE  (ViewKnows(v) /\ PointerIsBacked(v) /\ CountIsCurrent(v))'
    <2>1. view'[v] = view[v]
      BY <1>3 DEF ReadPointer, CountUnread, ViewInv, ViewTypeOK
    <2> QED
      BY <1>2, <2>1 DEF ViewInv, ViewKnows, PointerIsBacked, CountIsCurrent,
                        Unread
  <1>4. CASE ReadPointer(u)
    <2>1. lastRead[u] \in [message : Message \cup {NoMessage}, at : Stamp]
      BY <1>1 DEF Inv, TypeOK
    <2>2. ViewTypeOK'
      BY <1>1, <1>4, <2>1 DEF ReadPointer, ViewInv, ViewTypeOK, ViewRecord
    <2>3. view'[u] = [view[u] EXCEPT !.pending = @ \ {"pointer"},
                                     !.pointer = lastRead[u]]
      BY <1>4 DEF ReadPointer, ViewInv, ViewTypeOK
    <2>4. ViewKnows(u)'
      BY <1>1, <1>2, <2>3 DEF ViewInv, ViewKnows, ViewRecord
    <2>5. PointerIsBacked(u)'
      BY <1>1, <1>2, <2>3 DEF Inv, PointerIsRead, PointerIsBacked, ViewRecord
    <2>6. CountIsCurrent(u)'
      BY <1>1, <1>2, <2>3 DEF ViewInv, CountIsCurrent, Unread, ViewRecord
    <2> QED
      BY <1>3, <2>2, <2>4, <2>5, <2>6 DEF ViewInv
  <1>5. CASE CountUnread(u)
    <2>1. ViewTypeOK'
      BY <1>1, <1>5 DEF CountUnread, ViewInv, ViewTypeOK, ViewRecord
    <2>2. view'[u] = [view[u] EXCEPT !.pending = @ \ {"unread"},
                                     !.unread = Unread(u)]
      BY <1>5 DEF CountUnread, ViewInv, ViewTypeOK
    <2>3. ViewKnows(u)'
      BY <1>1, <1>2, <2>2 DEF ViewInv, ViewKnows, ViewRecord
    <2>4. PointerIsBacked(u)'
      BY <1>1, <1>2, <2>2 DEF ViewInv, PointerIsBacked, ViewRecord
    <2>5. CountIsCurrent(u)'
      BY <1>1, <1>2, <2>2
         DEF ViewInv, ViewKnows, CountIsCurrent, Unread, ViewRecord
    <2> QED
      BY <1>3, <2>1, <2>3, <2>4, <2>5 DEF ViewInv
  <1> QED
    BY <1>4, <1>5

(* A read state is true whichever receipt calls race its two queries: no   *)
(* message comes back into the count, none is lost from it, and the        *)
(* pointer is at a message that is read.                                   *)
THEOREM ReadStateTrue == ReadSpec => []ReadStateIsTrue
  <1>1. ReadInit => Inv /\ ViewInv
    BY Initially, ViewInitially DEF ReadInit
  <1>2. Inv /\ ViewInv /\ [ReadNext]_readVars => Inv' /\ ViewInv'
    <2> SUFFICES ASSUME Inv, ViewInv, [ReadNext]_readVars
                 PROVE  Inv' /\ ViewInv'
      OBVIOUS
    <2>1. CASE Next /\ UNCHANGED view
      BY <2>1, NextKeeps, CallsKeepViews
    <2>2. ASSUME NEW u \in Reader, Ask(u) \/ ReadPointer(u) \/ CountUnread(u)
          PROVE  Inv' /\ ViewInv'
      <3>1. UNCHANGED vars
        BY <2>2 DEF Ask, ReadPointer, CountUnread
      <3> QED
        BY <2>2, <3>1, StutterKeeps, AskKeepsViews, AnswersKeepViews
    <2>3. CASE UNCHANGED readVars
      <3>1. UNCHANGED <<vars, view>>
        BY <2>3 DEF readVars
      <3>2. UNCHANGED <<stored, receipts, view>>
        BY <3>1 DEF vars
      <3>3. ViewInv'
        BY <3>2 DEF ViewInv, ViewTypeOK, ViewKnows, PointerIsBacked,
                    CountIsCurrent, Unread
      <3> QED
        BY <3>1, <3>3, StutterKeeps
    <2> QED
      BY <2>1, <2>2, <2>3 DEF ReadNext
  <1>3. ViewInv => ReadStateIsTrue
    BY DEF ViewInv, ReadStateIsTrue
  <1> QED
    BY <1>1, <1>2, <1>3, PTL DEF ReadSpec
=============================================================================
