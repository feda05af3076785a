---------------------------- MODULE AccountProofs ----------------------------
(***************************************************************************)
(* Proofs about the components around an account, for any calls, sessions, *)
(* users, processes, mails and configurations, and whichever database      *)
(* calls fail: OneTimeCodes first, then the five that Accounts puts beside *)
(* it.                                                                     *)
(***************************************************************************)
EXTENDS Accounts, FiniteSetTheorems, TLAPS

-----------------------------------------------------------------------------
(* One-time codes.                                                         *)

Kind == {"none", "register", "resend", "forgot", "verify", "reset", "login"}
Phase == {"idle", "active", "sharing", "invalidate", "create", "queue", "mail",
          "signup", "verify", "account", "update", "insert", "mark", "sessions",
          "session", "done", "refused", "failed", "halfway"}
Type == {"verification", "reset"}

OpRecord == [kind : Kind, phase : Phase, type : Type \cup {"none"}, code : Nat,
             password : Op \cup {NoOp},
             seen : {"none", "unverified", "verified"}]
CodeRecord == [type : Type, used : BOOLEAN, by : Kind,
               age : {"fresh", "ending", "expired"}]

TypeOK ==
    /\ user \in {"none", "unverified", "verified"}
    /\ credentials \in Seq(Op \cup {NoOp})
    /\ sessions \in SUBSET [password : Op \cup {NoOp}, late : BOOLEAN]
    /\ code \in Seq(CodeRecord)
    /\ op \in [Op -> OpRecord]
    /\ verificationRequest \in Op \cup {NoOp}
    /\ crossed \subseteq Type
    /\ raced \in SUBSET Nat

(* What a call is, by where it stands. *)
KindOfPhase ==
    \A o \in Op :
        /\ op[o].phase \in {"active", "sharing"} =>
              op[o].kind \in {"register", "resend"}
        /\ op[o].phase \in {"invalidate", "create", "queue", "mail"} =>
              op[o].kind \in {"register", "resend", "forgot"}
        /\ op[o].phase \in {"account", "update", "insert", "sessions"} =>
              op[o].kind = "reset"
        /\ op[o].phase = "mark" => op[o].kind \in {"reset", "verify"}
        /\ op[o].phase = "verify" => op[o].kind = "verify"
        /\ op[o].phase = "session" => op[o].kind = "login"

(* A call that is about to create a code has found, or made, all earlier   *)
(* codes of its type used.                                                 *)
CreatorsAlone ==
    \A o \in Op :
        /\ op[o].phase \in {"invalidate", "create"} => op[o].type \in Type
        /\ op[o].phase = "create" /\ op[o].type \notin crossed =>
                Unused(op[o].type) = {}

AtMostOneUnused ==
    \A t \in Type \ crossed : \A c, d \in Unused(t) : c = d

(* The resets that have found a code. *)
Holder(o, c) ==
    /\ op[o].kind = "reset"
    /\ op[o].code = c
    /\ op[o].phase \in {"account", "update", "insert", "mark", "sessions",
                        "done"}

OneHolder ==
    \A o, q \in Op : \A c \in DOMAIN code \ raced :
        Holder(o, c) /\ Holder(q, c) => o = q

HoldersKnow ==
    \A o \in Op : \A c \in Nat : Holder(o, c) =>
        /\ c \in DOMAIN code
        /\ op[o].phase \in {"sessions", "done"} => code[c].used

(* The shared request is the one call of its kind on the way to a code. *)
RequestIsRunning ==
    \A o \in Op :
        (/\ op[o].phase \in {"active", "invalidate", "create"}
         /\ op[o].kind # "forgot")
        <=> verificationRequest = o

(* The codes that a resend reuses, but for those of a forgotten password. *)
Reusable == {c \in Unused("verification") :
                code[c].age = "fresh" /\ code[c].by # "forgot"}

NothingToReuse ==
    \A o \in Op :
        op[o].phase \in {"invalidate", "create"} /\ op[o].kind # "forgot" =>
            /\ op[o].type = "verification"
            /\ op[o].phase = "invalidate" => Reusable = {}

(* A session or a sign-in needs a password. *)
SessionsHaveAccount ==
    /\ sessions # {} => credentials # <<>>
    /\ \A o \in Op : op[o].phase = "session" => credentials # <<>>

Inv ==
    /\ TypeOK
    /\ KindOfPhase
    /\ CreatorsAlone
    /\ AtMostOneUnused
    /\ OneHolder
    /\ HoldersKnow
    /\ RequestIsRunning
    /\ NothingToReuse
    /\ SessionsHaveAccount
    /\ SessionsKnowPassword

-----------------------------------------------------------------------------
(* The shapes of a change of `op`.  A call goes on to another phase; who   *)
(* waits for the shared request fails or goes on with the one that runs it.*)

Moves(o, phases) ==
    /\ op' \in [Op -> OpRecord]
    /\ op'[o].phase \in phases
    /\ op'[o].kind = op[o].kind
    /\ op'[o].type = op[o].type
    /\ op'[o].code = op[o].code
    /\ op'[o].password = op[o].password
    /\ op'[o].seen = op[o].seen

OthersStay(o) == \A q \in Op \ {o} : op'[q] = op[q]

OthersMove(o, phase) ==
    \A q \in Op \ {o} :
        \/ op'[q] = op[q]
        \/ /\ op[q].phase = "sharing"
           /\ op'[q].phase = phase
           /\ op'[q].kind = op[q].kind

(* A function on the places of a sequence is a sequence. *)
LEMMA SameLength ==
    ASSUME NEW S, NEW s \in Seq(S), NEW t,
           t = [i \in DOMAIN s |-> t[i]], \A i \in DOMAIN s : t[i] \in S
    PROVE  t \in Seq(S) /\ Len(t) = Len(s) /\ DOMAIN t = DOMAIN s
<1>1. DOMAIN s = 1..Len(s) /\ Len(s) \in Nat
  OBVIOUS
<1>2. t \in [1..Len(s) -> S]
  BY <1>1
<1> QED
  BY <1>1, <1>2

LEMMA EnterOps ==
    ASSUME TypeOK, NEW o \in Op, NEW phase \in Phase, Enter(o, phase)
    PROVE  Moves(o, {phase}) /\ OthersStay(o)
<1>1. [op[o] EXCEPT !.phase = phase] \in OpRecord
  BY DEF TypeOK, OpRecord
<1>2. op' \in [Op -> OpRecord]
  BY <1>1 DEF Enter, TypeOK
<1> QED
  BY <1>2 DEF Enter, TypeOK, OpRecord, Moves, OthersStay

LEMMA FailOps ==
    ASSUME TypeOK, NEW o \in Op, op[o].phase # "sharing",
           NEW phase \in Phase, Fail(o, phase)
    PROVE  /\ Moves(o, {phase})
           /\ OthersMove(o, "failed")
           /\ verificationRequest # o => OthersStay(o)
           /\ verificationRequest' =
                 IF verificationRequest = o THEN NoOp ELSE verificationRequest
<1>1. ASSUME NEW q \in Op, NEW p \in Phase
      PROVE  [op[q] EXCEPT !.phase = p] \in OpRecord
  BY <1>1 DEF TypeOK, OpRecord
<1>2. op' \in [Op -> OpRecord]
  BY <1>1 DEF Fail, TypeOK, Phase
<1>3. OthersMove(o, "failed")
  BY DEF Fail, Sharers, At, OthersMove, TypeOK, OpRecord
<1>4. verificationRequest # o => OthersStay(o)
  BY DEF Fail, Sharers, OthersStay
<1>5. op'[o] = [op[o] EXCEPT !.phase = phase]
  BY DEF Fail
<1>6. Moves(o, {phase})
  BY <1>2, <1>5 DEF TypeOK, OpRecord, Moves
<1> QED
  BY <1>3, <1>4, <1>6 DEF Fail

LEMMA SettleOps ==
    ASSUME TypeOK, NEW o \in Op, NEW c \in Nat, Settle(o, c)
    PROVE  /\ op' \in [Op -> OpRecord]
           /\ op'[o].phase = "queue"
           /\ op'[o].kind = op[o].kind
           /\ OthersMove(o, "queue")
           /\ verificationRequest' = NoOp
<1>1. ASSUME NEW q \in Op
      PROVE  [op[q] EXCEPT !.phase = "queue", !.code = c] \in OpRecord
  BY <1>1 DEF TypeOK, OpRecord, Phase
<1>2. OthersMove(o, "queue")
  BY DEF Settle, Sharers, At, OthersMove, TypeOK, OpRecord
<1>3. op'[o] = [op[o] EXCEPT !.phase = "queue", !.code = c]
  BY DEF Settle
<1> QED
  BY <1>1, <1>2, <1>3 DEF Settle, TypeOK, OpRecord

(* A call that does not run the shared request goes on, or fails, alone. *)
LEMMA AloneOps ==
    ASSUME Inv, NEW o \in Op,
           op[o].phase \notin {"active", "invalidate", "create", "sharing"},
           NEW p \in Phase, NEW q \in Phase,
           \/ Enter(o, p) /\ UNCHANGED verificationRequest
           \/ Fail(o, q)
    PROVE  Moves(o, {p, q}) /\ OthersStay(o) /\ UNCHANGED verificationRequest
<1>1. verificationRequest # o
  BY DEF Inv, RequestIsRunning
<1> QED
  BY <1>1, EnterOps, FailOps DEF Inv, Moves

LEMMA FindActiveInv ==
    ASSUME Inv, NEW o \in Op, FindActive(o)
    PROVE  Inv'
<1>0. /\ op' \in [Op -> OpRecord]
      /\ op'[o].phase \in {"queue", "invalidate"}
      /\ op'[o].kind = op[o].kind
      /\ OthersMove(o, "queue")
      /\ op'[o].phase = "queue" => verificationRequest' = NoOp
      /\ op'[o].phase = "invalidate" =>
            /\ Reusable = {}
            /\ op'[o].type = "verification"
            /\ OthersStay(o)
            /\ UNCHANGED verificationRequest
  <2>1. ASSUME NEW c \in DOMAIN code, Settle(o, c) PROVE c \in Nat
    BY DEF Inv, TypeOK
  <2>2. CASE /\ Reusable = {}
             /\ op' = [op EXCEPT ![o].phase = "invalidate",
                                 ![o].type = "verification"]
             /\ UNCHANGED verificationRequest
    <3>1. [op[o] EXCEPT !.phase = "invalidate", !.type = "verification"]
              \in OpRecord
      BY ZenonT(40) DEF Inv, TypeOK, OpRecord, Phase, Type
    <3>2. op'[o] = [op[o] EXCEPT !.phase = "invalidate",
                                 !.type = "verification"]
      BY <2>2 DEF Inv, TypeOK
    <3> QED
      BY <2>2, <3>1, <3>2 DEF Inv, TypeOK, OpRecord, OthersMove, OthersStay
  <2>3. \/ \E c \in DOMAIN code : Settle(o, c)
        \/ /\ Reusable = {}
           /\ op' = [op EXCEPT ![o].phase = "invalidate",
                               ![o].type = "verification"]
           /\ UNCHANGED verificationRequest
    BY DEF FindActive, Unused, Reusable
  <2> QED
    BY <2>1, <2>2, <2>3, SettleOps DEF Inv
<1>h. /\ DOMAIN code \subseteq DOMAIN code' /\ DOMAIN code' \subseteq Nat
      /\ \A c \in DOMAIN code : code[c].used => code'[c].used
  BY <1>0 DEF Inv, FindActive, TypeOK, CodeRecord
<1>g. \A q \in Op : \A c \in Nat : Holder(q, c)' =>
          /\ Holder(q, c)
          /\ op'[q].phase \in {"sessions", "done"} =>
                \/ op[q].phase \in {"sessions", "done"}
                \/ c \in DOMAIN code /\ code'[c].used
  BY <1>0
     DEF Inv, KindOfPhase, HoldersKnow, Holder, TypeOK, OpRecord, FindActive,
         At, Moves, OthersMove, OthersStay
<1>1. TypeOK'
  BY <1>0, CodeAssumption
     DEF FindActive, At, Moves, OthersMove, OthersStay, Inv, TypeOK, OpRecord,
         CodeRecord, Phase, Kind, Type, OpRecord, CodeRecord, Phase, Kind, Type
<1>2. KindOfPhase'
  BY <1>0, CodeAssumption
     DEF FindActive, At, Moves, OthersMove, OthersStay, Inv, KindOfPhase,
         TypeOK, OpRecord
<1>3. CreatorsAlone'
  BY SMTT(30), <1>0, CodeAssumption
     DEF FindActive, At, Moves, OthersMove, OthersStay, Inv, CreatorsAlone,
         Unused, TypeOK, OpRecord, Type, KindOfPhase, NothingToReuse
<1>4. AtMostOneUnused'
  BY <1>0, CodeAssumption
     DEF FindActive, At, Moves, OthersMove, OthersStay, Inv, AtMostOneUnused,
         Unused, TypeOK, OpRecord, Type, CreatorsAlone
<1>5. OneHolder'
  BY <1>g, <1>h DEF Inv, OneHolder, HoldersKnow, FindActive
<1>6. HoldersKnow'
  BY <1>g, <1>h DEF Inv, HoldersKnow
<1>7. RequestIsRunning'
  BY <1>0, CodeAssumption
     DEF FindActive, At, Moves, OthersMove, OthersStay, Inv, RequestIsRunning,
         TypeOK, OpRecord, KindOfPhase
<1>8. NothingToReuse'
  BY <1>0, CodeAssumption
     DEF FindActive, At, Moves, OthersMove, OthersStay, Inv, NothingToReuse,
         Reusable, Unused, TypeOK, OpRecord, KindOfPhase, RequestIsRunning
<1>9. SessionsHaveAccount'
  BY <1>0, CodeAssumption
     DEF FindActive, At, Moves, OthersMove, OthersStay, Inv,
         SessionsHaveAccount, TypeOK, OpRecord
<1>10. SessionsKnowPassword'
  BY <1>0, CodeAssumption
     DEF FindActive, At, Moves, OthersMove, OthersStay, Inv,
         SessionsKnowPassword, TypeOK, OpRecord, SessionsHaveAccount,
         KindOfPhase
<1> QED
  BY <1>1, <1>2, <1>3, <1>4, <1>5, <1>6, <1>7, <1>8, <1>9, <1>10 DEF Inv

LEMMA InvalidateInv ==
    ASSUME Inv, NEW o \in Op, Invalidate(o)
    PROVE  Inv'
<1>0. /\ Moves(o, {"create", "failed"})
      /\ OthersMove(o, "failed")
      /\ op'[o].phase = "create" =>
            OthersStay(o) /\ UNCHANGED verificationRequest
      /\ op'[o].phase = "failed" =>
            verificationRequest' = IF verificationRequest = o THEN NoOp
                                   ELSE verificationRequest
  BY EnterOps, FailOps
     DEF Inv, Phase, Invalidate, At, Moves, OthersMove, OthersStay
<1>c. /\ code' \in Seq(CodeRecord)
      /\ DOMAIN code' = DOMAIN code
  <2>1. \A c \in DOMAIN code : code[c] \in CodeRecord
    BY DEF Inv, TypeOK
  <2>2. \A c \in DOMAIN code : [code[c] EXCEPT !.used = TRUE] \in CodeRecord
    BY <2>1 DEF CodeRecord
  <2> QED
    BY <2>1, <2>2, SameLength DEF Inv, TypeOK, Invalidate
<1>h. /\ DOMAIN code \subseteq DOMAIN code' /\ DOMAIN code' \subseteq Nat
      /\ \A c \in DOMAIN code : code[c].used => code'[c].used
  BY <1>c, <1>0 DEF Inv, Invalidate, TypeOK, CodeRecord
<1>g. \A q \in Op : \A c \in Nat : Holder(q, c)' =>
          /\ Holder(q, c)
          /\ op'[q].phase \in {"sessions", "done"} =>
                \/ op[q].phase \in {"sessions", "done"}
                \/ c \in DOMAIN code /\ code'[c].used
  BY <1>c, <1>0
     DEF Inv, KindOfPhase, HoldersKnow, Holder, TypeOK, OpRecord, Invalidate,
         At, Moves, OthersMove, OthersStay
<1>1. TypeOK'
  BY <1>0, <1>c DEF Inv, TypeOK, Invalidate, Moves
<1>2. KindOfPhase'
  BY <1>0, CodeAssumption
     DEF Invalidate, At, Moves, OthersMove, OthersStay, Inv, KindOfPhase,
         TypeOK, OpRecord
<1>3. CreatorsAlone'
  <2>1. ASSUME NEW q \in Op, op'[q].phase \in {"invalidate", "create"}
        PROVE  /\ op[q].phase \in {"invalidate", "create"}
               /\ op'[q].type = op[q].type
               /\ op'[q].phase = "create" => op[q].phase = "create" \/ q = o
    BY <1>0, <2>1 DEF Moves, OthersMove, Invalidate, At
  <2>2. ASSUME NEW t \in Type
        PROVE  /\ Unused(t)' \subseteq Unused(t)
               /\ t = op[o].type => Unused(t)' = {}
    <3>1. \A c \in DOMAIN code :
            /\ code'[c].type = code[c].type
            /\ code[c].used => code'[c].used
            /\ c \in Unused(op[o].type) => code'[c].used
      BY DEF Invalidate, Inv, TypeOK, CodeRecord
    <3> QED
      BY <1>c, <3>1 DEF Unused, Inv, TypeOK, CodeRecord
  <2>3. ASSUME NEW q \in Op,
               op'[q].phase = "create", op'[q].type \notin crossed'
        PROVE  Unused(op[q].type)' = {}
    BY <2>1, <2>2, <2>3 DEF Inv, CreatorsAlone, Invalidate
  <2> QED
    BY <2>1, <2>3 DEF Inv, CreatorsAlone
<1>4. AtMostOneUnused'
  BY <1>0, CodeAssumption
     DEF Invalidate, At, Moves, OthersMove, OthersStay, Inv, AtMostOneUnused,
         Unused, TypeOK, OpRecord, Type, CreatorsAlone
<1>5. OneHolder'
  BY <1>g, <1>h DEF Inv, OneHolder, HoldersKnow, Invalidate
<1>6. HoldersKnow'
  BY <1>g, <1>h DEF Inv, HoldersKnow
<1>7. RequestIsRunning'
  BY <1>0, CodeAssumption
     DEF Invalidate, At, Moves, OthersMove, OthersStay, Inv, RequestIsRunning,
         TypeOK, OpRecord, KindOfPhase
<1>8. NothingToReuse'
  BY <1>0, CodeAssumption
     DEF Invalidate, At, Moves, OthersMove, OthersStay, Inv, NothingToReuse,
         Reusable, Unused, TypeOK, OpRecord, KindOfPhase, RequestIsRunning
<1>9. SessionsHaveAccount'
  BY <1>0, CodeAssumption
     DEF Invalidate, At, Moves, OthersMove, OthersStay, Inv,
         SessionsHaveAccount, TypeOK, OpRecord
<1>10. SessionsKnowPassword'
  BY ZenonT(40), <1>0, CodeAssumption
     DEF Invalidate, At, Moves, OthersMove, OthersStay, Inv,
         SessionsKnowPassword, TypeOK, OpRecord, SessionsHaveAccount,
         KindOfPhase
<1> QED
  BY <1>1, <1>2, <1>3, <1>4, <1>5, <1>6, <1>7, <1>8, <1>9, <1>10 DEF Inv

LEMMA CreateInv ==
    ASSUME Inv, NEW o \in Op, Create(o)
    PROVE  Inv'
<1>0. /\ op' \in [Op -> OpRecord]
      /\ op'[o].phase \in {"queue", "mail", "failed"}
      /\ op'[o].kind = op[o].kind
      /\ \/ OthersMove(o, "queue")
         \/ OthersMove(o, "failed")
      /\ verificationRequest' = IF verificationRequest = o THEN NoOp
                                ELSE verificationRequest
  <2> DEFINE n == Len(code) + 1
  <2>1. n \in Nat
    BY DEF Inv, TypeOK
  <2>2. CASE verificationRequest = o /\ Settle(o, n)
    BY <2>1, <2>2, SettleOps DEF Inv
  <2>3. CASE /\ verificationRequest # o
             /\ op' = [op EXCEPT ![o].phase = "mail", ![o].code = n]
             /\ UNCHANGED verificationRequest
    <3>1. [op[o] EXCEPT !.phase = "mail", !.code = n] \in OpRecord
      BY <2>1 DEF Inv, TypeOK, OpRecord, Phase
    <3>2. op'[o] = [op[o] EXCEPT !.phase = "mail", !.code = n]
      BY <2>3 DEF Inv, TypeOK
    <3> QED
      BY <2>3, <3>1, <3>2 DEF Inv, TypeOK, OpRecord, OthersMove
  <2>4. CASE Fail(o, "failed")
    BY <2>4, FailOps DEF Inv, Phase, Create, At, Moves
  <2> QED
    BY <2>2, <2>3, <2>4 DEF Create
<1>c. /\ code' \in Seq(CodeRecord)
      /\ Len(code') = Len(code) + 1
      /\ DOMAIN code \subseteq DOMAIN code'
      /\ \A c \in DOMAIN code : code'[c] = code[c]
  <2>1. [type |-> op[o].type, used |-> FALSE, age |-> "fresh",
         by |-> op[o].kind]
            \in CodeRecord
    BY DEF Inv, TypeOK, OpRecord, CodeRecord, CreatorsAlone, Create, At
  <2> QED
    BY <2>1 DEF Inv, TypeOK, Create
<1>h. /\ DOMAIN code \subseteq DOMAIN code' /\ DOMAIN code' \subseteq Nat
      /\ \A c \in DOMAIN code : code[c].used => code'[c].used
  BY <1>c, <1>0 DEF Inv, Create, TypeOK, CodeRecord
<1>g. \A q \in Op : \A c \in Nat :
          Holder(q, c)' => Holder(q, c) /\ op'[q] = op[q]
  <2>1. op[o].kind # "reset"
    BY DEF Create, At, Inv, KindOfPhase
  <2>2. ~ \E c \in Nat : Holder(o, c)'
    BY <1>0, <2>1 DEF Holder
  <2>3. \A q \in Op \ {o} :
            op'[q] = op[q] \/ op'[q].phase \in {"queue", "failed"}
    BY <1>0 DEF OthersMove
  <2> QED
    BY <2>2, <2>3 DEF Holder
<1>1. TypeOK'
  <2>1. op[o].type \in Type
    BY DEF Inv, CreatorsAlone, Create, At
  <2>2. crossed' \subseteq Type
    BY <2>1 DEF Inv, TypeOK, Create
  <2> QED
    BY <1>0, <1>c, <2>2 DEF Inv, TypeOK, Create, Moves
<1>2. KindOfPhase'
  BY ZenonT(40), <1>0, CodeAssumption
     DEF Create, At, Moves, OthersMove, OthersStay, Inv, KindOfPhase, TypeOK,
         OpRecord
<1>3. CreatorsAlone'
  <2>1. ASSUME NEW q \in Op, op'[q].phase \in {"invalidate", "create"}
        PROVE  q # o /\ op'[q] = op[q]
    BY <1>0, <2>1 DEF OthersMove
  <2>2. ASSUME NEW q \in Op,
               op'[q].phase = "create", op'[q].type \notin crossed'
        PROVE  Unused(op[q].type)' = {}
    <3>1. /\ op[q].phase = "create" /\ op[q].type # op[o].type
          /\ op[q].type \notin crossed
      BY <2>1, <2>2 DEF Create, At
    <3>2. Unused(op[q].type) = {}
      BY <3>1 DEF Inv, CreatorsAlone
    <3>3. DOMAIN code' = DOMAIN code \cup {Len(code) + 1}
      BY <1>c DEF Inv, TypeOK
    <3>4. code'[Len(code) + 1].type = op[o].type
      BY DEF Create, Inv, TypeOK
    <3>5. ASSUME NEW c \in DOMAIN code',
                 code'[c].type = op[q].type, ~code'[c].used
          PROVE  FALSE
      <4>1. c \in DOMAIN code
        BY <3>1, <3>3, <3>4, <3>5
      <4> QED
        BY <1>c, <3>2, <3>5, <4>1 DEF Unused
    <3> QED
      BY <2>1, <2>2, <3>5 DEF Unused
  <2> QED
    BY <2>1, <2>2 DEF Inv, CreatorsAlone
<1>4. AtMostOneUnused'
  BY <1>0, CodeAssumption
     DEF Create, At, Moves, OthersMove, OthersStay, Inv, AtMostOneUnused,
         Unused, TypeOK, OpRecord, Type, CreatorsAlone
<1>5. OneHolder'
  BY <1>g, <1>h DEF Inv, OneHolder, HoldersKnow, Create
<1>6. HoldersKnow'
  BY <1>g, <1>h DEF Inv, HoldersKnow
<1>7. RequestIsRunning'
  BY <1>0, CodeAssumption
     DEF Create, At, Moves, OthersMove, OthersStay, Inv, RequestIsRunning,
         TypeOK, OpRecord, KindOfPhase
<1>8. NothingToReuse'
  BY <1>0, CodeAssumption
     DEF Create, At, Moves, OthersMove, OthersStay, Inv, NothingToReuse,
         Reusable, Unused, TypeOK, OpRecord, KindOfPhase, RequestIsRunning
<1>9. SessionsHaveAccount'
  BY <1>0, CodeAssumption
     DEF Create, At, Moves, OthersMove, OthersStay, Inv, SessionsHaveAccount,
         TypeOK, OpRecord
<1>10. SessionsKnowPassword'
  BY <1>0, CodeAssumption
     DEF Create, At, Moves, OthersMove, OthersStay, Inv, SessionsKnowPassword,
         TypeOK, OpRecord, SessionsHaveAccount, KindOfPhase
<1> QED
  BY <1>1, <1>2, <1>3, <1>4, <1>5, <1>6, <1>7, <1>8, <1>9, <1>10 DEF Inv

LEMMA RegisterFindsInv ==
    ASSUME Inv, NEW o \in Op, RegisterFinds(o)
    PROVE  Inv'
<1>1. TypeOK'
  BY CodeAssumption
     DEF RegisterFinds, Begin, At, Inv, TypeOK, OpRecord, CodeRecord, Phase,
         Kind, Type, OpRecord, CodeRecord, Phase, Kind, Type
<1>2. KindOfPhase'
  BY CodeAssumption
     DEF RegisterFinds, Begin, At, Inv, KindOfPhase, TypeOK, OpRecord
<1>3. CreatorsAlone'
  BY CodeAssumption
     DEF RegisterFinds, Begin, At, Inv, CreatorsAlone, Unused, TypeOK,
         OpRecord, Type, KindOfPhase, NothingToReuse
<1>4. AtMostOneUnused'
  BY CodeAssumption
     DEF RegisterFinds, Begin, At, Inv, AtMostOneUnused, Unused, TypeOK,
         OpRecord, Type, CreatorsAlone
<1>5. OneHolder'
  BY CodeAssumption
     DEF RegisterFinds, Begin, At, Inv, OneHolder, Holder, TypeOK, OpRecord,
         HoldersKnow, KindOfPhase, Unused
<1>6. HoldersKnow'
  BY CodeAssumption
     DEF RegisterFinds, Begin, At, Inv, HoldersKnow, Holder, TypeOK, OpRecord,
         KindOfPhase
<1>7. RequestIsRunning'
  BY CodeAssumption
     DEF RegisterFinds, Begin, At, Inv, RequestIsRunning, TypeOK, OpRecord,
         KindOfPhase
<1>8. NothingToReuse'
  BY CodeAssumption
     DEF RegisterFinds, Begin, At, Inv, NothingToReuse, Reusable, Unused,
         TypeOK, OpRecord, KindOfPhase, RequestIsRunning
<1>9. SessionsHaveAccount'
  BY CodeAssumption
     DEF RegisterFinds, Begin, At, Inv, SessionsHaveAccount, TypeOK, OpRecord
<1>10. SessionsKnowPassword'
  BY CodeAssumption
     DEF RegisterFinds, Begin, At, Inv, SessionsKnowPassword, TypeOK, OpRecord,
         SessionsHaveAccount, KindOfPhase
<1> QED
  BY <1>1, <1>2, <1>3, <1>4, <1>5, <1>6, <1>7, <1>8, <1>9, <1>10 DEF Inv

LEMMA SignUpInv ==
    ASSUME Inv, NEW o \in Op, SignUp(o)
    PROVE  Inv'
<1>c. /\ credentials' \in Seq(Op \cup {NoOp})
      /\ credentials # <<>> =>
            credentials' # <<>> /\ credentials'[1] = credentials[1]
  <2>1. CASE credentials' = Append(credentials, o)
    BY <2>1 DEF Inv, TypeOK
  <2>2. CASE UNCHANGED credentials
    BY <2>2 DEF Inv, TypeOK
  <2> QED
    BY <2>1, <2>2 DEF SignUp
<1>o. /\ op' \in [Op -> OpRecord]
      /\ \A q \in Op : \/ op'[q] = op[q]
                        \/ /\ op[q].phase = "signup"
                           /\ op'[q].phase \in {"active", "sharing",
                                                "failed", "refused"}
  <2>1. CASE Share(o, "register")
    <3>1. \A p \in {"active", "sharing"} :
              [op[o] EXCEPT !.kind = "register", !.phase = p] \in OpRecord
      BY ZenonT(40) DEF Inv, TypeOK, OpRecord, Kind, Phase
    <3>2. \E p \in {"active", "sharing"} :
              op' = [op EXCEPT ![o] =
                        [op[o] EXCEPT !.kind = "register", !.phase = p]]
      BY <2>1 DEF Share
    <3>3. PICK p \in {"active", "sharing"} :
              op' = [op EXCEPT ![o] =
                        [op[o] EXCEPT !.kind = "register", !.phase = p]]
      BY <3>2
    <3>4. op'[o] = [op[o] EXCEPT !.kind = "register", !.phase = p]
      BY <3>3 DEF Inv, TypeOK
    <3>5. op'[o].phase = p
      BY <3>4 DEF Inv, TypeOK, OpRecord
    <3>6. op' \in [Op -> OpRecord]
      BY <3>1, <3>3 DEF Inv, TypeOK
    <3> QED
      BY <3>3, <3>5, <3>6 DEF SignUp, At, Inv, TypeOK
  <2>2. CASE Fail(o, "failed")
    <3>1. verificationRequest # o /\ op[o].phase = "signup"
      BY DEF SignUp, At, Inv, RequestIsRunning
    <3>2. Moves(o, {"failed"}) /\ OthersStay(o)
      BY <2>2, <3>1, FailOps DEF Inv, Phase
    <3> QED
      BY <3>1, <3>2 DEF Moves, OthersStay
  <2>3. CASE Enter(o, "refused")
    <3>1. Moves(o, {"refused"}) /\ OthersStay(o)
      BY <2>3, EnterOps DEF Inv, Phase
    <3> QED
      BY <3>1 DEF SignUp, At, Moves, OthersStay
  <2> QED
    BY <2>1, <2>2, <2>3 DEF SignUp
<1>1. TypeOK'
  <2>1. verificationRequest' \in Op \cup {NoOp}
    BY DEF SignUp, Share, Fail, Inv, TypeOK
  <2> QED
    BY <1>c, <1>o, <2>1 DEF Inv, TypeOK, SignUp
<1>2. KindOfPhase'
  BY SMTT(30), CodeAssumption
     DEF SignUp, Share, Enter, Fail, Sharers, At, Inv, KindOfPhase, TypeOK,
         OpRecord
<1>3. CreatorsAlone'
  <2>1. \A q \in Op : \/ op'[q] = op[q]
                     \/ op'[q].phase \notin {"invalidate", "create"}
    BY <1>o
  <2> QED
    BY <2>1 DEF Inv, CreatorsAlone, Unused, SignUp
<1>4. AtMostOneUnused'
  BY CodeAssumption
     DEF SignUp, Share, Enter, Fail, Sharers, At, Inv, AtMostOneUnused, Unused,
         TypeOK, OpRecord, Type, CreatorsAlone
<1>5. OneHolder'
  BY CodeAssumption
     DEF SignUp, Share, Enter, Fail, Sharers, At, Inv, OneHolder, Holder,
         TypeOK, OpRecord, HoldersKnow, KindOfPhase, Unused
<1>6. HoldersKnow'
  BY CodeAssumption
     DEF SignUp, Share, Enter, Fail, Sharers, At, Inv, HoldersKnow, Holder,
         TypeOK, OpRecord, KindOfPhase
<1>7. RequestIsRunning'
  BY CodeAssumption
     DEF SignUp, Share, Enter, Fail, Sharers, At, Inv, RequestIsRunning,
         TypeOK, OpRecord, KindOfPhase
<1>8. NothingToReuse'
  <2>1. \A q \in Op : \/ op'[q] = op[q]
                     \/ op'[q].phase \notin {"invalidate", "create"}
    BY <1>o
  <2> QED
    BY <2>1 DEF Inv, NothingToReuse, Reusable, Unused, SignUp
<1>9. SessionsHaveAccount'
  BY CodeAssumption
     DEF SignUp, Share, Enter, Fail, Sharers, At, Inv, SessionsHaveAccount,
         TypeOK, OpRecord
<1>10. SessionsKnowPassword'
  BY <1>c, <1>o DEF Inv, SessionsKnowPassword, SessionsHaveAccount, SignUp
<1> QED
  BY <1>1, <1>2, <1>3, <1>4, <1>5, <1>6, <1>7, <1>8, <1>9, <1>10 DEF Inv

LEMMA ResendFindsInv ==
    ASSUME Inv, NEW o \in Op, ResendFinds(o)
    PROVE  Inv'
<1>1. TypeOK'
  BY CodeAssumption
     DEF ResendFinds, Begin, Share, At, Inv, TypeOK, OpRecord, CodeRecord,
         Phase, Kind, Type, OpRecord, CodeRecord, Phase, Kind, Type
<1>2. KindOfPhase'
  BY CodeAssumption
     DEF ResendFinds, Begin, Share, At, Inv, KindOfPhase, TypeOK, OpRecord
<1>3. CreatorsAlone'
  BY CodeAssumption
     DEF ResendFinds, Begin, Share, At, Inv, CreatorsAlone, Unused, TypeOK,
         OpRecord, Type, KindOfPhase, NothingToReuse
<1>4. AtMostOneUnused'
  BY CodeAssumption
     DEF ResendFinds, Begin, Share, At, Inv, AtMostOneUnused, Unused, TypeOK,
         OpRecord, Type, CreatorsAlone
<1>5. OneHolder'
  BY CodeAssumption
     DEF ResendFinds, Begin, Share, At, Inv, OneHolder, Holder, TypeOK,
         OpRecord, HoldersKnow, KindOfPhase, Unused
<1>6. HoldersKnow'
  BY CodeAssumption
     DEF ResendFinds, Begin, Share, At, Inv, HoldersKnow, Holder, TypeOK,
         OpRecord, KindOfPhase
<1>7. RequestIsRunning'
  BY CodeAssumption
     DEF ResendFinds, Begin, Share, At, Inv, RequestIsRunning, TypeOK,
         OpRecord, KindOfPhase
<1>8. NothingToReuse'
  BY CodeAssumption
     DEF ResendFinds, Begin, Share, At, Inv, NothingToReuse, Reusable, Unused,
         TypeOK, OpRecord, KindOfPhase, RequestIsRunning
<1>9. SessionsHaveAccount'
  BY CodeAssumption
     DEF ResendFinds, Begin, Share, At, Inv, SessionsHaveAccount, TypeOK,
         OpRecord
<1>10. SessionsKnowPassword'
  BY CodeAssumption
     DEF ResendFinds, Begin, Share, At, Inv, SessionsKnowPassword, TypeOK,
         OpRecord, SessionsHaveAccount, KindOfPhase
<1> QED
  BY <1>1, <1>2, <1>3, <1>4, <1>5, <1>6, <1>7, <1>8, <1>9, <1>10 DEF Inv

LEMMA ForgotFindsInv ==
    ASSUME Inv, NEW o \in Op, ForgotFinds(o)
    PROVE  Inv'
<1>1. TypeOK'
  BY CodeAssumption
     DEF ForgotFinds, At, Inv, TypeOK, OpRecord, CodeRecord, Phase, Kind, Type,
         OpRecord, CodeRecord, Phase, Kind, Type
<1>2. KindOfPhase'
  BY CodeAssumption DEF ForgotFinds, At, Inv, KindOfPhase, TypeOK, OpRecord
<1>3. CreatorsAlone'
  BY CodeAssumption
     DEF ForgotFinds, At, Inv, CreatorsAlone, Unused, TypeOK, OpRecord, Type,
         KindOfPhase, NothingToReuse
<1>4. AtMostOneUnused'
  BY CodeAssumption
     DEF ForgotFinds, At, Inv, AtMostOneUnused, Unused, TypeOK, OpRecord, Type,
         CreatorsAlone
<1>5. OneHolder'
  BY CodeAssumption
     DEF ForgotFinds, At, Inv, OneHolder, Holder, TypeOK, OpRecord,
         HoldersKnow, KindOfPhase, Unused
<1>6. HoldersKnow'
  BY CodeAssumption
     DEF ForgotFinds, At, Inv, HoldersKnow, Holder, TypeOK, OpRecord,
         KindOfPhase
<1>7. RequestIsRunning'
  BY CodeAssumption
     DEF ForgotFinds, At, Inv, RequestIsRunning, TypeOK, OpRecord, KindOfPhase
<1>8. NothingToReuse'
  BY CodeAssumption
     DEF ForgotFinds, At, Inv, NothingToReuse, Reusable, Unused, TypeOK,
         OpRecord, KindOfPhase, RequestIsRunning
<1>9. SessionsHaveAccount'
  BY CodeAssumption
     DEF ForgotFinds, At, Inv, SessionsHaveAccount, TypeOK, OpRecord
<1>10. SessionsKnowPassword'
  BY CodeAssumption
     DEF ForgotFinds, At, Inv, SessionsKnowPassword, TypeOK, OpRecord,
         SessionsHaveAccount, KindOfPhase
<1> QED
  BY <1>1, <1>2, <1>3, <1>4, <1>5, <1>6, <1>7, <1>8, <1>9, <1>10 DEF Inv

LEMMA HandOverInv ==
    ASSUME Inv, NEW o \in Op, HandOver(o)
    PROVE  Inv'
<1> DEFINE next == "done"
<1>0. /\ Moves(o, {next, "failed"})
      /\ OthersStay(o)
      /\ UNCHANGED verificationRequest
  BY AloneOps DEF HandOver, At, Phase
<1>1. TypeOK'
  BY <1>0, CodeAssumption
     DEF HandOver, At, Moves, OthersStay, Inv, TypeOK, OpRecord, CodeRecord,
         Phase, Kind, Type, OpRecord, CodeRecord, Phase, Kind, Type
<1>2. KindOfPhase'
  BY <1>0, CodeAssumption
     DEF HandOver, At, Moves, OthersStay, Inv, KindOfPhase, TypeOK, OpRecord
<1>3. CreatorsAlone'
  BY <1>0, CodeAssumption
     DEF HandOver, At, Moves, OthersStay, Inv, CreatorsAlone, Unused, TypeOK,
         OpRecord, Type, KindOfPhase, NothingToReuse
<1>4. AtMostOneUnused'
  BY <1>0, CodeAssumption
     DEF HandOver, At, Moves, OthersStay, Inv, AtMostOneUnused, Unused, TypeOK,
         OpRecord, Type, CreatorsAlone
<1>5. OneHolder'
  BY <1>0, CodeAssumption
     DEF HandOver, At, Moves, OthersStay, Inv, OneHolder, Holder, TypeOK,
         OpRecord, HoldersKnow, KindOfPhase, Unused
<1>6. HoldersKnow'
  BY <1>0, CodeAssumption
     DEF HandOver, At, Moves, OthersStay, Inv, HoldersKnow, Holder, TypeOK,
         OpRecord, KindOfPhase
<1>7. RequestIsRunning'
  BY SMTT(30), <1>0, CodeAssumption
     DEF HandOver, At, Moves, OthersStay, Inv, RequestIsRunning, TypeOK,
         OpRecord, KindOfPhase
<1>8. NothingToReuse'
  BY <1>0, CodeAssumption
     DEF HandOver, At, Moves, OthersStay, Inv, NothingToReuse, Reusable,
         Unused, TypeOK, OpRecord, KindOfPhase, RequestIsRunning
<1>9. SessionsHaveAccount'
  BY <1>0, CodeAssumption
     DEF HandOver, At, Moves, OthersStay, Inv, SessionsHaveAccount, TypeOK,
         OpRecord
<1>10. SessionsKnowPassword'
  BY <1>0, CodeAssumption
     DEF HandOver, At, Moves, OthersStay, Inv, SessionsKnowPassword, TypeOK,
         OpRecord, SessionsHaveAccount, KindOfPhase
<1> QED
  BY <1>1, <1>2, <1>3, <1>4, <1>5, <1>6, <1>7, <1>8, <1>9, <1>10 DEF Inv

LEMMA VerifyFindsInv ==
    ASSUME Inv, NEW o \in Op, NEW c \in DOMAIN code, VerifyFinds(o, c)
    PROVE  Inv'
<1>1. TypeOK'
  BY CodeAssumption
     DEF VerifyFinds, At, Inv, TypeOK, OpRecord, CodeRecord, Phase, Kind, Type,
         OpRecord, CodeRecord, Phase, Kind, Type
<1>2. KindOfPhase'
  BY CodeAssumption DEF VerifyFinds, At, Inv, KindOfPhase, TypeOK, OpRecord
<1>3. CreatorsAlone'
  BY CodeAssumption
     DEF VerifyFinds, At, Inv, CreatorsAlone, Unused, TypeOK, OpRecord, Type,
         KindOfPhase, NothingToReuse
<1>4. AtMostOneUnused'
  BY CodeAssumption
     DEF VerifyFinds, At, Inv, AtMostOneUnused, Unused, TypeOK, OpRecord, Type,
         CreatorsAlone
<1>5. OneHolder'
  BY CodeAssumption
     DEF VerifyFinds, At, Inv, OneHolder, Holder, TypeOK, OpRecord,
         HoldersKnow, KindOfPhase, Unused
<1>6. HoldersKnow'
  BY CodeAssumption
     DEF VerifyFinds, At, Inv, HoldersKnow, Holder, TypeOK, OpRecord,
         KindOfPhase
<1>7. RequestIsRunning'
  BY CodeAssumption
     DEF VerifyFinds, At, Inv, RequestIsRunning, TypeOK, OpRecord, KindOfPhase
<1>8. NothingToReuse'
  BY CodeAssumption
     DEF VerifyFinds, At, Inv, NothingToReuse, Reusable, Unused, TypeOK,
         OpRecord, KindOfPhase, RequestIsRunning
<1>9. SessionsHaveAccount'
  BY CodeAssumption
     DEF VerifyFinds, At, Inv, SessionsHaveAccount, TypeOK, OpRecord
<1>10. SessionsKnowPassword'
  BY CodeAssumption
     DEF VerifyFinds, At, Inv, SessionsKnowPassword, TypeOK, OpRecord,
         SessionsHaveAccount, KindOfPhase
<1> QED
  BY <1>1, <1>2, <1>3, <1>4, <1>5, <1>6, <1>7, <1>8, <1>9, <1>10 DEF Inv

LEMMA VerifyInv ==
    ASSUME Inv, NEW o \in Op, Verify(o)
    PROVE  Inv'
<1> DEFINE next == "mark"
<1>0. /\ Moves(o, {next, "failed"})
      /\ OthersStay(o)
      /\ UNCHANGED verificationRequest
  BY AloneOps DEF Verify, At, Phase
<1>1. TypeOK'
  BY <1>0, CodeAssumption
     DEF Verify, At, Moves, OthersStay, Inv, TypeOK, OpRecord, CodeRecord,
         Phase, Kind, Type, OpRecord, CodeRecord, Phase, Kind, Type
<1>2. KindOfPhase'
  BY <1>0, CodeAssumption
     DEF Verify, At, Moves, OthersStay, Inv, KindOfPhase, TypeOK, OpRecord
<1>3. CreatorsAlone'
  BY <1>0, CodeAssumption
     DEF Verify, At, Moves, OthersStay, Inv, CreatorsAlone, Unused, TypeOK,
         OpRecord, Type, KindOfPhase, NothingToReuse
<1>4. AtMostOneUnused'
  BY <1>0, CodeAssumption
     DEF Verify, At, Moves, OthersStay, Inv, AtMostOneUnused, Unused, TypeOK,
         OpRecord, Type, CreatorsAlone
<1>5. OneHolder'
  BY <1>0, CodeAssumption
     DEF Verify, At, Moves, OthersStay, Inv, OneHolder, Holder, TypeOK,
         OpRecord, HoldersKnow, KindOfPhase, Unused
<1>6. HoldersKnow'
  BY SMTT(30), <1>0, CodeAssumption
     DEF Verify, At, Moves, OthersStay, Inv, HoldersKnow, Holder, TypeOK,
         OpRecord, KindOfPhase
<1>7. RequestIsRunning'
  BY <1>0, CodeAssumption
     DEF Verify, At, Moves, OthersStay, Inv, RequestIsRunning, TypeOK,
         OpRecord, KindOfPhase
<1>8. NothingToReuse'
  BY <1>0, CodeAssumption
     DEF Verify, At, Moves, OthersStay, Inv, NothingToReuse, Reusable, Unused,
         TypeOK, OpRecord, KindOfPhase, RequestIsRunning
<1>9. SessionsHaveAccount'
  BY <1>0, CodeAssumption
     DEF Verify, At, Moves, OthersStay, Inv, SessionsHaveAccount, TypeOK,
         OpRecord
<1>10. SessionsKnowPassword'
  BY <1>0, CodeAssumption
     DEF Verify, At, Moves, OthersStay, Inv, SessionsKnowPassword, TypeOK,
         OpRecord, SessionsHaveAccount, KindOfPhase
<1> QED
  BY <1>1, <1>2, <1>3, <1>4, <1>5, <1>6, <1>7, <1>8, <1>9, <1>10 DEF Inv

LEMMA ResetFindsInv ==
    ASSUME Inv, NEW o \in Op, NEW c \in DOMAIN code, ResetFinds(o, c)
    PROVE  Inv'
<1>1. TypeOK'
  BY CodeAssumption
     DEF ResetFinds, Redeeming, Valid, At, Inv, TypeOK, OpRecord, CodeRecord,
         Phase, Kind, Type, OpRecord, CodeRecord, Phase, Kind, Type
<1>2. KindOfPhase'
  BY CodeAssumption
     DEF ResetFinds, Redeeming, Valid, At, Inv, KindOfPhase, TypeOK, OpRecord
<1>3. CreatorsAlone'
  BY CodeAssumption
     DEF ResetFinds, Redeeming, Valid, At, Inv, CreatorsAlone, Unused, TypeOK,
         OpRecord, Type, KindOfPhase, NothingToReuse
<1>4. AtMostOneUnused'
  BY CodeAssumption
     DEF ResetFinds, Redeeming, Valid, At, Inv, AtMostOneUnused, Unused,
         TypeOK, OpRecord, Type, CreatorsAlone
<1>5. OneHolder'
  BY CodeAssumption
     DEF ResetFinds, Redeeming, Valid, At, Inv, OneHolder, Holder, TypeOK,
         OpRecord, HoldersKnow, KindOfPhase, Unused
<1>6. HoldersKnow'
  BY CodeAssumption
     DEF ResetFinds, Redeeming, Valid, At, Inv, HoldersKnow, Holder, TypeOK,
         OpRecord, KindOfPhase
<1>7. RequestIsRunning'
  BY CodeAssumption
     DEF ResetFinds, Redeeming, Valid, At, Inv, RequestIsRunning, TypeOK,
         OpRecord, KindOfPhase
<1>8. NothingToReuse'
  BY CodeAssumption
     DEF ResetFinds, Redeeming, Valid, At, Inv, NothingToReuse, Reusable,
         Unused, TypeOK, OpRecord, KindOfPhase, RequestIsRunning
<1>9. SessionsHaveAccount'
  BY CodeAssumption
     DEF ResetFinds, Redeeming, Valid, At, Inv, SessionsHaveAccount, TypeOK,
         OpRecord
<1>10. SessionsKnowPassword'
  BY CodeAssumption
     DEF ResetFinds, Redeeming, Valid, At, Inv, SessionsKnowPassword, TypeOK,
         OpRecord, SessionsHaveAccount, KindOfPhase
<1> QED
  BY <1>1, <1>2, <1>3, <1>4, <1>5, <1>6, <1>7, <1>8, <1>9, <1>10 DEF Inv

LEMMA FindAccountInv ==
    ASSUME Inv, NEW o \in Op, FindAccount(o)
    PROVE  Inv'
<1> DEFINE next == IF credentials = <<>> THEN "insert" ELSE "update"
<1>0. /\ Moves(o, {next, "failed"})
      /\ OthersStay(o)
      /\ UNCHANGED verificationRequest
  BY AloneOps DEF FindAccount, At, Phase
<1>1. TypeOK'
  BY <1>0, CodeAssumption
     DEF FindAccount, At, Moves, OthersStay, Inv, TypeOK, OpRecord, CodeRecord,
         Phase, Kind, Type, OpRecord, CodeRecord, Phase, Kind, Type
<1>2. KindOfPhase'
  BY <1>0, CodeAssumption
     DEF FindAccount, At, Moves, OthersStay, Inv, KindOfPhase, TypeOK, OpRecord
<1>3. CreatorsAlone'
  BY <1>0, CodeAssumption
     DEF FindAccount, At, Moves, OthersStay, Inv, CreatorsAlone, Unused,
         TypeOK, OpRecord, Type, KindOfPhase, NothingToReuse
<1>4. AtMostOneUnused'
  BY <1>0, CodeAssumption
     DEF FindAccount, At, Moves, OthersStay, Inv, AtMostOneUnused, Unused,
         TypeOK, OpRecord, Type, CreatorsAlone
<1>5. OneHolder'
  BY <1>0, CodeAssumption
     DEF FindAccount, At, Moves, OthersStay, Inv, OneHolder, Holder, TypeOK,
         OpRecord, HoldersKnow, KindOfPhase, Unused
<1>6. HoldersKnow'
  BY <1>0, CodeAssumption
     DEF FindAccount, At, Moves, OthersStay, Inv, HoldersKnow, Holder, TypeOK,
         OpRecord, KindOfPhase
<1>7. RequestIsRunning'
  BY <1>0, CodeAssumption
     DEF FindAccount, At, Moves, OthersStay, Inv, RequestIsRunning, TypeOK,
         OpRecord, KindOfPhase
<1>8. NothingToReuse'
  BY <1>0, CodeAssumption
     DEF FindAccount, At, Moves, OthersStay, Inv, NothingToReuse, Reusable,
         Unused, TypeOK, OpRecord, KindOfPhase, RequestIsRunning
<1>9. SessionsHaveAccount'
  BY <1>0, CodeAssumption
     DEF FindAccount, At, Moves, OthersStay, Inv, SessionsHaveAccount, TypeOK,
         OpRecord
<1>10. SessionsKnowPassword'
  BY <1>0, CodeAssumption
     DEF FindAccount, At, Moves, OthersStay, Inv, SessionsKnowPassword, TypeOK,
         OpRecord, SessionsHaveAccount, KindOfPhase
<1> QED
  BY <1>1, <1>2, <1>3, <1>4, <1>5, <1>6, <1>7, <1>8, <1>9, <1>10 DEF Inv

LEMMA SetPasswordInv ==
    ASSUME Inv, NEW o \in Op, SetPassword(o)
    PROVE  Inv'
<1> DEFINE next == "mark"
<1>0. /\ Moves(o, {next, "halfway"})
      /\ OthersStay(o)
      /\ UNCHANGED verificationRequest
  BY AloneOps DEF SetPassword, At, Phase
<1>c. /\ credentials' \in Seq(Op \cup {NoOp})
      /\ credentials # <<>> => credentials' # <<>>
  <2>1. CASE credentials' = Append(credentials, o)
    BY <2>1 DEF Inv, TypeOK
  <2>2. CASE credentials' = [credentials EXCEPT ![1] = o]
    <3>1. credentials' = [i \in DOMAIN credentials |-> credentials'[i]]
      BY <2>2
    <3>2. \A i \in DOMAIN credentials : credentials'[i] \in Op \cup {NoOp}
      BY <2>2 DEF Inv, TypeOK
    <3> QED
      BY <3>1, <3>2, SameLength DEF Inv, TypeOK
  <2> QED
    BY <2>1, <2>2 DEF SetPassword
<1>1. TypeOK'
  BY <1>0, <1>c DEF Inv, TypeOK, SetPassword, Moves
<1>2. KindOfPhase'
  BY <1>0, CodeAssumption
     DEF SetPassword, At, Moves, OthersStay, Inv, KindOfPhase, TypeOK, OpRecord
<1>3. CreatorsAlone'
  BY <1>0, CodeAssumption
     DEF SetPassword, At, Moves, OthersStay, Inv, CreatorsAlone, Unused,
         TypeOK, OpRecord, Type, KindOfPhase, NothingToReuse
<1>4. AtMostOneUnused'
  BY <1>0, CodeAssumption
     DEF SetPassword, At, Moves, OthersStay, Inv, AtMostOneUnused, Unused,
         TypeOK, OpRecord, Type, CreatorsAlone
<1>5. OneHolder'
  BY <1>0, CodeAssumption
     DEF SetPassword, At, Moves, OthersStay, Inv, OneHolder, Holder, TypeOK,
         OpRecord, HoldersKnow, KindOfPhase, Unused
<1>6. HoldersKnow'
  BY <1>0, CodeAssumption
     DEF SetPassword, At, Moves, OthersStay, Inv, HoldersKnow, Holder, TypeOK,
         OpRecord, KindOfPhase
<1>7. RequestIsRunning'
  BY <1>0, CodeAssumption
     DEF SetPassword, At, Moves, OthersStay, Inv, RequestIsRunning, TypeOK,
         OpRecord, KindOfPhase
<1>8. NothingToReuse'
  BY SMTT(30), <1>0, CodeAssumption
     DEF SetPassword, At, Moves, OthersStay, Inv, NothingToReuse, Reusable,
         Unused, TypeOK, OpRecord, KindOfPhase, RequestIsRunning
<1>9. SessionsHaveAccount'
  BY <1>0, <1>c DEF Inv, SessionsHaveAccount, SetPassword, At, Moves, OthersStay
<1>10. SessionsKnowPassword'
  BY <1>0, CodeAssumption
     DEF SetPassword, At, Moves, OthersStay, Inv, SessionsKnowPassword, TypeOK,
         OpRecord, SessionsHaveAccount, KindOfPhase
<1> QED
  BY <1>1, <1>2, <1>3, <1>4, <1>5, <1>6, <1>7, <1>8, <1>9, <1>10 DEF Inv

LEMMA MarkInv ==
    ASSUME Inv, NEW o \in Op, Mark(o)
    PROVE  Inv'
<1> DEFINE next == IF op[o].kind = "reset" THEN "sessions" ELSE "done"
<1>0. /\ Moves(o, {next, "halfway"})
      /\ OthersStay(o)
      /\ UNCHANGED verificationRequest
  BY AloneOps DEF Mark, At, Phase
<1>c. /\ code' \in Seq(CodeRecord)
      /\ DOMAIN code' = DOMAIN code
      /\ \A c \in DOMAIN code : code[c].used => code'[c].used
  <2>1. \A c \in DOMAIN code : code[c] \in CodeRecord
    BY DEF Inv, TypeOK
  <2>2. \A c \in DOMAIN code : [code[c] EXCEPT !.used = TRUE] \in CodeRecord
    BY <2>1 DEF CodeRecord
  <2>3. \A c \in DOMAIN code : \/ code'[c] = code[c]
                              \/ code'[c] = [code[c] EXCEPT !.used = TRUE]
    BY DEF Mark
  <2>4. code' = [c \in DOMAIN code |-> code'[c]]
    BY DEF Mark, Inv, TypeOK
  <2> QED
    BY <2>1, <2>2, <2>3, <2>4, SameLength DEF Inv, TypeOK, CodeRecord
<1>h. /\ DOMAIN code \subseteq DOMAIN code' /\ DOMAIN code' \subseteq Nat
      /\ \A c \in DOMAIN code : code[c].used => code'[c].used
  BY <1>c, <1>0 DEF Inv, Mark, TypeOK, CodeRecord
<1>g. \A q \in Op : \A c \in Nat : Holder(q, c)' =>
          /\ Holder(q, c)
          /\ op'[q].phase \in {"sessions", "done"} =>
                \/ op[q].phase \in {"sessions", "done"}
                \/ c \in DOMAIN code /\ code'[c].used
  BY <1>c, <1>0
     DEF Inv, KindOfPhase, HoldersKnow, Holder, TypeOK, OpRecord, Mark, At,
         Moves, OthersStay
<1>1. TypeOK'
  BY <1>0, <1>c DEF Inv, TypeOK, Mark, Moves
<1>2. KindOfPhase'
  BY <1>0, CodeAssumption
     DEF Mark, At, Moves, OthersStay, Inv, KindOfPhase, TypeOK, OpRecord
<1>3. CreatorsAlone'
  BY <1>0, CodeAssumption
     DEF Mark, At, Moves, OthersStay, Inv, CreatorsAlone, Unused, TypeOK,
         OpRecord, Type, KindOfPhase, NothingToReuse
<1>4. AtMostOneUnused'
  BY <1>0, CodeAssumption
     DEF Mark, At, Moves, OthersStay, Inv, AtMostOneUnused, Unused, TypeOK,
         OpRecord, Type, CreatorsAlone
<1>5. OneHolder'
  BY <1>g, <1>h DEF Inv, OneHolder, HoldersKnow, Mark
<1>6. HoldersKnow'
  BY <1>g, <1>h DEF Inv, HoldersKnow
<1>7. RequestIsRunning'
  BY ZenonT(40), <1>0, CodeAssumption
     DEF Mark, At, Moves, OthersStay, Inv, RequestIsRunning, TypeOK, OpRecord,
         KindOfPhase
<1>8. NothingToReuse'
  BY <1>0, CodeAssumption
     DEF Mark, At, Moves, OthersStay, Inv, NothingToReuse, Reusable, Unused,
         TypeOK, OpRecord, KindOfPhase, RequestIsRunning
<1>9. SessionsHaveAccount'
  BY <1>0, CodeAssumption
     DEF Mark, At, Moves, OthersStay, Inv, SessionsHaveAccount, TypeOK, OpRecord
<1>10. SessionsKnowPassword'
  BY <1>0, CodeAssumption
     DEF Mark, At, Moves, OthersStay, Inv, SessionsKnowPassword, TypeOK,
         OpRecord, SessionsHaveAccount, KindOfPhase
<1> QED
  BY <1>1, <1>2, <1>3, <1>4, <1>5, <1>6, <1>7, <1>8, <1>9, <1>10 DEF Inv

LEMMA EndSessionsInv ==
    ASSUME Inv, NEW o \in Op, EndSessions(o)
    PROVE  Inv'
<1> DEFINE next == "done"
<1>0. /\ Moves(o, {next, "halfway"})
      /\ OthersStay(o)
      /\ UNCHANGED verificationRequest
  BY AloneOps DEF EndSessions, At, Phase
<1>h. /\ DOMAIN code \subseteq DOMAIN code' /\ DOMAIN code' \subseteq Nat
      /\ \A c \in DOMAIN code : code[c].used => code'[c].used
  BY <1>0 DEF Inv, EndSessions, TypeOK, CodeRecord
<1>g. \A q \in Op : \A c \in Nat : Holder(q, c)' =>
          /\ Holder(q, c)
          /\ op'[q].phase \in {"sessions", "done"} =>
                \/ op[q].phase \in {"sessions", "done"}
                \/ c \in DOMAIN code /\ code'[c].used
  BY <1>0
     DEF Inv, KindOfPhase, HoldersKnow, Holder, TypeOK, OpRecord, EndSessions,
         At, Moves, OthersStay
<1>1. TypeOK'
  BY <1>0, CodeAssumption
     DEF EndSessions, At, Moves, OthersStay, Inv, TypeOK, OpRecord, CodeRecord,
         Phase, Kind, Type, OpRecord, CodeRecord, Phase, Kind, Type
<1>2. KindOfPhase'
  BY <1>0, CodeAssumption
     DEF EndSessions, At, Moves, OthersStay, Inv, KindOfPhase, TypeOK, OpRecord
<1>3. CreatorsAlone'
  BY <1>0, CodeAssumption
     DEF EndSessions, At, Moves, OthersStay, Inv, CreatorsAlone, Unused,
         TypeOK, OpRecord, Type, KindOfPhase, NothingToReuse
<1>4. AtMostOneUnused'
  BY <1>0, CodeAssumption
     DEF EndSessions, At, Moves, OthersStay, Inv, AtMostOneUnused, Unused,
         TypeOK, OpRecord, Type, CreatorsAlone
<1>5. OneHolder'
  BY <1>g, <1>h DEF Inv, OneHolder, HoldersKnow, EndSessions
<1>6. HoldersKnow'
  BY <1>g, <1>h DEF Inv, HoldersKnow
<1>7. RequestIsRunning'
  BY <1>0, CodeAssumption
     DEF EndSessions, At, Moves, OthersStay, Inv, RequestIsRunning, TypeOK,
         OpRecord, KindOfPhase
<1>8. NothingToReuse'
  BY <1>0, CodeAssumption
     DEF EndSessions, At, Moves, OthersStay, Inv, NothingToReuse, Reusable,
         Unused, TypeOK, OpRecord, KindOfPhase, RequestIsRunning
<1>9. SessionsHaveAccount'
  BY <1>0, CodeAssumption
     DEF EndSessions, At, Moves, OthersStay, Inv, SessionsHaveAccount, TypeOK,
         OpRecord
<1>10. SessionsKnowPassword'
  BY <1>0, CodeAssumption
     DEF EndSessions, At, Moves, OthersStay, Inv, SessionsKnowPassword, TypeOK,
         OpRecord, SessionsHaveAccount, KindOfPhase
<1> QED
  BY <1>1, <1>2, <1>3, <1>4, <1>5, <1>6, <1>7, <1>8, <1>9, <1>10 DEF Inv

LEMMA SignInInv ==
    ASSUME Inv, NEW o \in Op, SignIn(o)
    PROVE  Inv'
<1>1. TypeOK'
  BY CodeAssumption
     DEF SignIn, At, Inv, TypeOK, OpRecord, CodeRecord, Phase, Kind, Type,
         OpRecord, CodeRecord, Phase, Kind, Type
<1>2. KindOfPhase'
  BY CodeAssumption DEF SignIn, At, Inv, KindOfPhase, TypeOK, OpRecord
<1>3. CreatorsAlone'
  BY CodeAssumption
     DEF SignIn, At, Inv, CreatorsAlone, Unused, TypeOK, OpRecord, Type,
         KindOfPhase, NothingToReuse
<1>4. AtMostOneUnused'
  BY CodeAssumption
     DEF SignIn, At, Inv, AtMostOneUnused, Unused, TypeOK, OpRecord, Type,
         CreatorsAlone
<1>5. OneHolder'
  BY CodeAssumption
     DEF SignIn, At, Inv, OneHolder, Holder, TypeOK, OpRecord, HoldersKnow,
         KindOfPhase, Unused
<1>6. HoldersKnow'
  BY CodeAssumption
     DEF SignIn, At, Inv, HoldersKnow, Holder, TypeOK, OpRecord, KindOfPhase
<1>7. RequestIsRunning'
  BY CodeAssumption
     DEF SignIn, At, Inv, RequestIsRunning, TypeOK, OpRecord, KindOfPhase
<1>8. NothingToReuse'
  BY CodeAssumption
     DEF SignIn, At, Inv, NothingToReuse, Reusable, Unused, TypeOK, OpRecord,
         KindOfPhase, RequestIsRunning
<1>9. SessionsHaveAccount'
  BY CodeAssumption DEF SignIn, At, Inv, SessionsHaveAccount, TypeOK, OpRecord
<1>10. SessionsKnowPassword'
  BY CodeAssumption
     DEF SignIn, At, Inv, SessionsKnowPassword, TypeOK, OpRecord,
         SessionsHaveAccount, KindOfPhase
<1> QED
  BY <1>1, <1>2, <1>3, <1>4, <1>5, <1>6, <1>7, <1>8, <1>9, <1>10 DEF Inv

LEMMA OpenSessionInv ==
    ASSUME Inv, NEW o \in Op, OpenSession(o)
    PROVE  Inv'
<1> DEFINE next == IF op[o].seen = "verified" THEN "done" ELSE "refused"
<1>0. /\ Moves(o, {next, "failed"})
      /\ OthersStay(o)
      /\ UNCHANGED verificationRequest
  BY AloneOps DEF OpenSession, At, Phase
<1>c. LET s == [password |-> op[o].password,
                late |-> op[o].password # credentials[1]] IN
      /\ sessions' = sessions \cup {s}
      /\ s.late \/ s.password = credentials[1]
      /\ s \in [password : Op \cup {NoOp}, late : BOOLEAN]
  BY DEF OpenSession, Inv, TypeOK, OpRecord
<1>h. /\ DOMAIN code \subseteq DOMAIN code' /\ DOMAIN code' \subseteq Nat
      /\ \A c \in DOMAIN code : code[c].used => code'[c].used
  BY <1>0 DEF Inv, OpenSession, TypeOK, CodeRecord
<1>g. \A q \in Op : \A c \in Nat : Holder(q, c)' =>
          /\ Holder(q, c)
          /\ op'[q].phase \in {"sessions", "done"} =>
                \/ op[q].phase \in {"sessions", "done"}
                \/ c \in DOMAIN code /\ code'[c].used
  BY <1>0
     DEF Inv, KindOfPhase, HoldersKnow, Holder, TypeOK, OpRecord, OpenSession,
         At, Moves, OthersStay
<1>1. TypeOK'
  BY <1>0, <1>c DEF Inv, TypeOK, OpenSession, Moves
<1>2. KindOfPhase'
  BY <1>0, CodeAssumption
     DEF OpenSession, At, Moves, OthersStay, Inv, KindOfPhase, TypeOK, OpRecord
<1>3. CreatorsAlone'
  BY <1>0, CodeAssumption
     DEF OpenSession, At, Moves, OthersStay, Inv, CreatorsAlone, Unused,
         TypeOK, OpRecord, Type, KindOfPhase, NothingToReuse
<1>4. AtMostOneUnused'
  BY <1>0, CodeAssumption
     DEF OpenSession, At, Moves, OthersStay, Inv, AtMostOneUnused, Unused,
         TypeOK, OpRecord, Type, CreatorsAlone
<1>5. OneHolder'
  BY <1>g, <1>h DEF Inv, OneHolder, HoldersKnow, OpenSession
<1>6. HoldersKnow'
  BY <1>g, <1>h DEF Inv, HoldersKnow
<1>7. RequestIsRunning'
  BY <1>0, CodeAssumption
     DEF OpenSession, At, Moves, OthersStay, Inv, RequestIsRunning, TypeOK,
         OpRecord, KindOfPhase
<1>8. NothingToReuse'
  BY <1>0, CodeAssumption
     DEF OpenSession, At, Moves, OthersStay, Inv, NothingToReuse, Reusable,
         Unused, TypeOK, OpRecord, KindOfPhase, RequestIsRunning
<1>9. SessionsHaveAccount'
  BY <1>0, CodeAssumption
     DEF OpenSession, At, Moves, OthersStay, Inv, SessionsHaveAccount, TypeOK,
         OpRecord
<1>10. SessionsKnowPassword'
  BY <1>0, <1>c
     DEF Inv, SessionsKnowPassword, OpenSession, At, Moves, OthersStay
<1> QED
  BY <1>1, <1>2, <1>3, <1>4, <1>5, <1>6, <1>7, <1>8, <1>9, <1>10 DEF Inv

LEMMA RejectedInv ==
    ASSUME Inv, NEW o \in Op, Rejected(o)
    PROVE  Inv'
<1>0. /\ Moves(o, {"halfway", "failed"})
      /\ OthersMove(o, "failed")
      /\ verificationRequest' =
            IF verificationRequest = o THEN NoOp ELSE verificationRequest
  BY FailOps DEF Rejected, Inv, Phase, Moves
<1>o. \A q \in Op : \/ op'[q] = op[q]
                   \/ op'[q].phase \in {"halfway", "failed"}
  BY <1>0 DEF Moves, OthersMove
<1>1. TypeOK'
  <2>1. verificationRequest' \in Op \cup {NoOp}
    BY <1>0 DEF Inv, TypeOK
  <2> QED
    BY <1>0, <2>1 DEF Inv, TypeOK, Rejected, Moves
<1>2. KindOfPhase'
  BY <1>o DEF Inv, KindOfPhase
<1>3. CreatorsAlone'
  BY <1>o DEF Inv, CreatorsAlone, Unused, Rejected
<1>4. AtMostOneUnused'
  BY CodeAssumption
     DEF Rejected, Fail, Sharers, At, Inv, AtMostOneUnused, Unused, TypeOK,
         OpRecord, Type, CreatorsAlone
<1>5. OneHolder'
  BY CodeAssumption
     DEF Rejected, Fail, Sharers, At, Inv, OneHolder, Holder, TypeOK, OpRecord,
         HoldersKnow, KindOfPhase, Unused
<1>6. HoldersKnow'
  BY CodeAssumption
     DEF Rejected, Fail, Sharers, At, Inv, HoldersKnow, Holder, TypeOK,
         OpRecord, KindOfPhase
<1>7. RequestIsRunning'
  BY CodeAssumption
     DEF Rejected, Fail, Sharers, At, Inv, RequestIsRunning, TypeOK, OpRecord,
         KindOfPhase
<1>8. NothingToReuse'
  BY <1>o DEF Inv, NothingToReuse, Reusable, Unused, Rejected
<1>9. SessionsHaveAccount'
  BY CodeAssumption
     DEF Rejected, Fail, Sharers, At, Inv, SessionsHaveAccount, TypeOK, OpRecord
<1>10. SessionsKnowPassword'
  <2>1. CASE op[o].phase \in {"mark", "sessions"}
    <3>1. Moves(o, {"halfway"})
      BY <2>1, FailOps DEF Rejected, Inv, Phase
    <3> QED
      BY <1>0, <3>1 DEF Inv, SessionsKnowPassword, Rejected, Moves, OthersMove
  <2>2. CASE op[o].phase \notin {"mark", "sessions"}
    <3>1. op[o].phase # "halfway"
      BY DEF Rejected
    <3> QED
      BY <1>0, <2>2, <3>1
         DEF Inv, SessionsKnowPassword, Rejected, OthersMove
  <2> QED
    BY <2>1, <2>2
<1> QED
  BY <1>1, <1>2, <1>3, <1>4, <1>5, <1>6, <1>7, <1>8, <1>9, <1>10 DEF Inv

LEMMA AgeInv ==
    ASSUME Inv, NEW c \in DOMAIN code, Age(c)
    PROVE  Inv'
<1>c. code' \in Seq(CodeRecord)
  <2>1. \A d \in DOMAIN code : code[d] \in CodeRecord
    BY DEF Inv, TypeOK
  <2>2. \A a \in {"ending", "expired"} :
            [code[c] EXCEPT !.age = a] \in CodeRecord
    BY <2>1 DEF CodeRecord
  <2>3. \A d \in DOMAIN code : code'[d] \in CodeRecord
    BY <2>1, <2>2 DEF Age
  <2>4. code' = [d \in DOMAIN code |-> code'[d]]
    BY DEF Age, Inv, TypeOK
  <2> QED
    BY <2>3, <2>4, SameLength DEF Inv, TypeOK
<1>1. TypeOK'
  BY <1>c DEF Inv, TypeOK, Age
<1>2. KindOfPhase'
  BY CodeAssumption DEF Age, Inv, KindOfPhase, TypeOK, OpRecord
<1>3. CreatorsAlone'
  BY CodeAssumption
     DEF Age, Inv, CreatorsAlone, Unused, TypeOK, OpRecord, Type, KindOfPhase,
         NothingToReuse
<1>4. AtMostOneUnused'
  BY CodeAssumption
     DEF Age, Inv, AtMostOneUnused, Unused, TypeOK, OpRecord, Type,
         CreatorsAlone
<1>5. OneHolder'
  BY CodeAssumption
     DEF Age, Inv, OneHolder, Holder, TypeOK, OpRecord, HoldersKnow,
         KindOfPhase, Unused
<1>6. HoldersKnow'
  BY CodeAssumption
     DEF Age, Inv, HoldersKnow, Holder, TypeOK, OpRecord, KindOfPhase
<1>7. RequestIsRunning'
  BY CodeAssumption
     DEF Age, Inv, RequestIsRunning, TypeOK, OpRecord, KindOfPhase
<1>8. NothingToReuse'
  BY CodeAssumption
     DEF Age, Inv, NothingToReuse, Reusable, Unused, TypeOK, OpRecord,
         KindOfPhase, RequestIsRunning
<1>9. SessionsHaveAccount'
  BY CodeAssumption DEF Age, Inv, SessionsHaveAccount, TypeOK, OpRecord
<1>10. SessionsKnowPassword'
  BY CodeAssumption
     DEF Age, Inv, SessionsKnowPassword, TypeOK, OpRecord, SessionsHaveAccount,
         KindOfPhase
<1> QED
  BY <1>1, <1>2, <1>3, <1>4, <1>5, <1>6, <1>7, <1>8, <1>9, <1>10 DEF Inv

LEMMA LogoutInv ==
    ASSUME Inv, Logout
    PROVE  Inv'
<1>1. TypeOK'
  BY CodeAssumption
     DEF Logout, Inv, TypeOK, OpRecord, CodeRecord, Phase, Kind, Type,
         OpRecord, CodeRecord, Phase, Kind, Type
<1>2. KindOfPhase'
  BY CodeAssumption DEF Logout, Inv, KindOfPhase, TypeOK, OpRecord
<1>3. CreatorsAlone'
  BY CodeAssumption
     DEF Logout, Inv, CreatorsAlone, Unused, TypeOK, OpRecord, Type,
         KindOfPhase, NothingToReuse
<1>4. AtMostOneUnused'
  BY CodeAssumption
     DEF Logout, Inv, AtMostOneUnused, Unused, TypeOK, OpRecord, Type,
         CreatorsAlone
<1>5. OneHolder'
  BY CodeAssumption
     DEF Logout, Inv, OneHolder, Holder, TypeOK, OpRecord, HoldersKnow,
         KindOfPhase, Unused
<1>6. HoldersKnow'
  BY CodeAssumption
     DEF Logout, Inv, HoldersKnow, Holder, TypeOK, OpRecord, KindOfPhase
<1>7. RequestIsRunning'
  BY CodeAssumption
     DEF Logout, Inv, RequestIsRunning, TypeOK, OpRecord, KindOfPhase
<1>8. NothingToReuse'
  BY CodeAssumption
     DEF Logout, Inv, NothingToReuse, Reusable, Unused, TypeOK, OpRecord,
         KindOfPhase, RequestIsRunning
<1>9. SessionsHaveAccount'
  BY CodeAssumption DEF Logout, Inv, SessionsHaveAccount, TypeOK, OpRecord
<1>10. SessionsKnowPassword'
  BY CodeAssumption
     DEF Logout, Inv, SessionsKnowPassword, TypeOK, OpRecord,
         SessionsHaveAccount, KindOfPhase
<1> QED
  BY <1>1, <1>2, <1>3, <1>4, <1>5, <1>6, <1>7, <1>8, <1>9, <1>10 DEF Inv

LEMMA CodesNext ==
    ASSUME Inv, [Next]_vars
    PROVE  Inv'
<1>1. ASSUME NEW o \in Op,
             \/ RegisterFinds(o) \/ SignUp(o) \/ ResendFinds(o)
             \/ ForgotFinds(o) \/ FindActive(o) \/ Invalidate(o) \/ Create(o) \/ HandOver(o)
             \/ Verify(o) \/ FindAccount(o) \/ SetPassword(o) \/ Mark(o)
             \/ EndSessions(o) \/ SignIn(o) \/ OpenSession(o) \/ Rejected(o)
      PROVE  Inv'
  BY <1>1, RegisterFindsInv, SignUpInv, ResendFindsInv, ForgotFindsInv,
     FindActiveInv, InvalidateInv, CreateInv, HandOverInv, VerifyInv,
     FindAccountInv, SetPasswordInv, MarkInv, EndSessionsInv, SignInInv,
     OpenSessionInv, RejectedInv
<1>2. ASSUME NEW o \in Op, NEW c \in DOMAIN code,
             VerifyFinds(o, c) \/ ResetFinds(o, c)
      PROVE  Inv'
  BY <1>2, VerifyFindsInv, ResetFindsInv
<1>3. CASE UNCHANGED vars
  BY <1>3 DEF vars, Inv, TypeOK, KindOfPhase, CreatorsAlone, AtMostOneUnused,
     OneHolder, Holder, HoldersKnow, RequestIsRunning, Reusable, NothingToReuse,
     SessionsHaveAccount, SessionsKnowPassword, Unused
<1> QED
  BY <1>1, <1>2, <1>3, AgeInv, LogoutInv DEF Next

LEMMA CodesInit ==
    ASSUME Init
    PROVE  Inv
<1>1. TypeOK
  <2>1. credentials \in Seq(Op \cup {NoOp})
    <3>1. <<>> \in Seq(Op \cup {NoOp}) /\ <<NoOp>> \in Seq(Op \cup {NoOp})
      OBVIOUS
    <3> QED
      BY <3>1 DEF Init
  <2>2. Idle \in OpRecord
    BY DEF Idle, OpRecord, Kind, Phase, Type
  <2>3. code \in Seq(CodeRecord)
    BY DEF Init
  <2> QED
    BY <2>1, <2>2, <2>3 DEF Init, TypeOK
<1>2. \A o \in Op : op[o].kind = "none" /\ op[o].phase = "idle" /\ o # NoOp
  BY CodeAssumption DEF Init, Idle
<1> QED
  BY <1>1, <1>2 DEF Init, Inv, KindOfPhase, CreatorsAlone, AtMostOneUnused,
     Unused, OneHolder, Holder, HoldersKnow, RequestIsRunning, NothingToReuse,
     SessionsHaveAccount, SessionsKnowPassword

(* The inductive invariant holds of every behaviour. *)
LEMMA CodesInvariant == Spec => []Inv
<1> QED
  BY CodesInit, CodesNext, PTL DEF Spec

(* A set whose elements are all equal has at most one. *)
LEMMA AtMostOne ==
    ASSUME NEW S, \A x, y \in S : x = y
    PROVE  Cardinality(S) <= 1
<1>1. CASE S = {}
  BY <1>1, FS_EmptySet
<1>2. CASE S # {}
  <2>1. PICK x \in S : TRUE
    BY <1>2
  <2>2. S = {x}
    BY <2>1
  <2> QED
    BY <2>2, FS_Singleton
<1> QED
  BY <1>1, <1>2

(* Whatever calls run, and wherever they fail, there is one valid code of  *)
(* each type, but for the types of which two calls created a code at once, *)
(* and one code sets one password, but for those that two resets found     *)
(* before one of them marked it.                                           *)
THEOREM CodesSingle == Spec => []CodesAreSingle
<1>1. Inv => CodesAreSingle
  <2> SUFFICES ASSUME Inv PROVE CodesAreSingle
    OBVIOUS
  <2>1. OneValidCode
    BY AtMostOne DEF Inv, AtMostOneUnused, OneValidCode, Type
  <2>2. RedeemedOnce
    <3> SUFFICES ASSUME NEW c \in DOMAIN code \ raced
                 PROVE  Cardinality({o \in Op :
                            /\ op[o].kind = "reset" /\ op[o].code = c
                            /\ op[o].phase \in {"mark", "sessions", "done"}}) <= 1
      BY DEF RedeemedOnce
    <3>1. \A o, q \in Op : Holder(o, c) /\ Holder(q, c) => o = q
      BY DEF Inv, OneHolder
    <3> QED
      BY <3>1, AtMostOne DEF Holder
  <2> QED
    BY <2>1, <2>2 DEF CodesAreSingle
<1> QED
  BY <1>1, CodesInvariant, PTL

(* Whichever calls fail, a session of an earlier password is left only     *)
(* while a reset is under way or failed halfway, or was opened after the   *)
(* password it was opened with had changed.                                *)
THEOREM SessionsKnowTheirPassword == Spec => []SessionsKnowPassword
<1> QED
  BY CodesInvariant, PTL DEF Inv

(* No registration and no resend uses up a code that a resend reuses.      *)
THEOREM ResendKeeps == Spec => ResendKeepsCode
<1> DEFINE Used(c) == /\ c \in Unused("verification")
                      /\ code[c].age = "fresh" /\ code[c].by # "forgot"
                      /\ code'[c].used
           By(c) == \E o \in Op :
                      \/ At(o, "mark") /\ op[o].code = c
                      \/ At(o, "invalidate") /\ op[o].kind = "forgot"
<1>1. ASSUME Inv, [Next]_vars, NEW c \in DOMAIN code, Used(c)
      PROVE  By(c)
  <2>1. ASSUME UNCHANGED code PROVE FALSE
    BY <1>1, <2>1 DEF Unused
  <2>2. ASSUME NEW o \in Op, Invalidate(o) PROVE By(c)
    <3>1. c \in Reusable /\ c \in Unused(op[o].type)
      BY <1>1, <2>2 DEF Invalidate, Reusable, Unused
    <3> QED
      BY <1>1, <2>2, <3>1 DEF Inv, NothingToReuse, Invalidate, At
  <2>3. ASSUME NEW o \in Op, Create(o) PROVE FALSE
    <3>1. code'[c] = code[c]
      BY <2>3, <1>1 DEF Create, Inv, TypeOK
    <3> QED
      BY <1>1, <3>1 DEF Unused
  <2>4. ASSUME NEW o \in Op, Mark(o) PROVE By(c)
    <3>1. op[o].code # c => code'[c] = code[c]
      BY <2>4, <1>1 DEF Mark
    <3> QED
      BY <1>1, <2>4, <3>1 DEF Mark, Unused
  <2>5. ASSUME NEW d \in DOMAIN code, Age(d) PROVE FALSE
    <3>1. code'[c].used = code[c].used
      BY <2>5, <1>1 DEF Age, Inv, TypeOK, CodeRecord
    <3> QED
      BY <1>1, <3>1 DEF Unused
  <2>6. CASE UNCHANGED vars
    BY <2>1, <2>6 DEF vars
  <2> QED
    BY <1>1, <2>1, <2>2, <2>3, <2>4, <2>5, <2>6
       DEF Next, RegisterFinds, SignUp, ResendFinds, ForgotFinds, FindActive,
           HandOver, Verify, FindAccount, SetPassword, EndSessions, SignIn,
           OpenSession, Rejected, VerifyFinds, ResetFinds, Logout
<1>2. Inv /\ [Next]_vars =>
          [\A c \in DOMAIN code : Used(c) => By(c)]_vars
  BY <1>1
<1> QED
  BY <1>2, CodesInvariant, PTL DEF Spec, ResendKeepsCode

-----------------------------------------------------------------------------
(* Access.                                                                 *)

Simple == [phase : {"idle", "over", "refused", "failed"}]
SigningIn == [phase : {"signIn"}, copy : Access!User]
Asking == [phase : {"session", "token"}, session : Session,
           since : SUBSET Access!User]
Passed == [phase : {"passed"}, as : Access!User,
           from : {"cookie", "session", "token"}, since : SUBSET Access!User]
Changing == [phase : {"update", "sessions", "audit", "answered"},
             what : {"role", "status"},
             value : {"USER", "ADMIN", "ACTIVE", "INACTIVE", "SUSPENDED"},
             copy : Access!User, was : Access!User, had : SUBSET Session,
             raced : BOOLEAN]

AnyRequest == Simple \cup SigningIn \cup Asking \cup Passed \cup Changing

AccessType ==
    /\ account \in Access!User
    /\ opened \subseteq Session
    /\ session \subseteq opened
    /\ cookie \in [Session -> Access!User \cup {Access!NoCookie}]
    /\ request \in [Op -> AnyRequest]

(* A request collects what the user is, and passes as one of these.        *)
AskedOrPassed(c) ==
    /\ request[c].phase \in {"session", "token"} => account \in request[c].since
    /\ request[c].phase = "passed" =>
          /\ request[c].as.status = "ACTIVE"
          /\ request[c].from # "cookie" => request[c].as \in request[c].since

(* A change knows what it replaces, unless another one came between, and   *)
(* the sessions that it ended are not opened again.                        *)
ChangeWhole(c) ==
    /\ request[c].phase = "update" /\ ~request[c].raced =>
          request[c].copy = account
    /\ request[c].phase \in {"update", "sessions", "audit", "answered"} =>
          /\ request[c].value \in IF request[c].what = "role"
                                  THEN {"USER", "ADMIN"}
                                  ELSE {"ACTIVE", "INACTIVE", "SUSPENDED"}
          /\ request[c].had \subseteq opened
    /\ /\ request[c].phase \in {"sessions", "audit", "answered"}
       /\ ~request[c].raced
       => request[c].copy = request[c].was
    /\ /\ request[c].phase \in {"audit", "answered"}
       /\ request[c].what = "status" /\ request[c].value # "ACTIVE"
       => request[c].had \cap session = {}
    /\ request[c].phase = "answered" =>
          [by |-> c, old |-> request[c].copy[request[c].what],
           new |-> request[c].value] \in audit

AccessInv ==
    /\ AccessType
    /\ \A c \in Op : AskedOrPassed(c) /\ ChangeWhole(c)

(* A step of one request; the sessions it opens are new ones.              *)
RequestStep(c, next) ==
    /\ next \in AnyRequest
    /\ request' = [request EXCEPT ![c] = next]
    /\ account' = account
    /\ cookie' = cookie
    /\ opened \subseteq opened' /\ opened' \subseteq Session
    /\ session' \subseteq opened'
    /\ session' \cap opened \subseteq session
    /\ audit \subseteq audit'

LEMMA RequestStepKeeps ==
    ASSUME AccessInv, NEW c \in Op, NEW next, RequestStep(c, next),
           AskedOrPassed(c)', ChangeWhole(c)'
    PROVE  AccessInv'
<1>1. AccessType'
  BY DEF AccessInv, AccessType, RequestStep
<1>2. ASSUME NEW d \in Op, d # c
      PROVE  AskedOrPassed(d)' /\ ChangeWhole(d)'
  <2>1. request'[d] = request[d]
    BY <1>2 DEF RequestStep, AccessInv, AccessType
  <2>2. AskedOrPassed(d)'
    BY <2>1 DEF AccessInv, RequestStep, AskedOrPassed
  <2>3. ChangeWhole(d)'
    BY <2>1 DEF AccessInv, RequestStep, ChangeWhole
  <2> QED
    BY <2>2, <2>3
<1> QED
  BY <1>1, <1>2 DEF AccessInv

(* Most requests end as a word.                                            *)
LEMMA SimpleStepKeeps ==
    ASSUME AccessInv, NEW c \in Op, NEW next \in Simple, RequestStep(c, next)
    PROVE  AccessInv'
<1>1. request'[c] = next
  BY DEF RequestStep, AccessInv, AccessType
<1>2. AskedOrPassed(c)' /\ ChangeWhole(c)'
  BY <1>1 DEF Simple, AskedOrPassed, ChangeWhole
<1> QED
  BY <1>2, RequestStepKeeps

LEMMA DecideKeeps ==
    ASSUME AccessInv, NEW c \in Op, request[c].phase \in {"session", "token"},
           NEW as \in Access!User \cup {Access!NoCookie}, as # Access!NoCookie,
           NEW from \in {"cookie", "session", "token"},
           from # "cookie" => as = account, Access!Decide(c, as, from),
           UNCHANGED <<account, opened, session, cookie, audit>>
    PROVE  AccessInv'
<1>0. request[c] \in Asking
  BY DEF AccessInv, AccessType, AnyRequest, Simple, SigningIn,
         Asking, Passed, Changing
<1>1. CASE Access!Admits(as)
  <2> DEFINE next == [phase |-> "passed", as |-> as, from |-> from,
                      since |-> request[c].since]
  <2>1. request' = [request EXCEPT ![c] = next]
    BY <1>1 DEF Access!Decide
  <2>2. next \in Passed
    BY <1>0 DEF Passed, Asking
  <2>3. RequestStep(c, next)
    BY <2>1, <2>2 DEF RequestStep, AccessInv, AccessType, AnyRequest
  <2>4. request'[c] = next
    BY <2>1 DEF AccessInv, AccessType
  <2>5. AskedOrPassed(c)' /\ ChangeWhole(c)'
    <3>1. account \in request[c].since
      BY DEF AccessInv, AskedOrPassed
    <3>2. /\ request'[c].phase = "passed" /\ request'[c].as = as
          /\ request'[c].from = from /\ request'[c].since = request[c].since
      BY <2>4
    <3> QED
      BY <1>1, <3>1, <3>2 DEF AskedOrPassed, ChangeWhole, Access!Admits
  <2> QED
    BY <2>3, <2>5, RequestStepKeeps
<1>2. CASE ~Access!Admits(as)
  <2> DEFINE next == [phase |-> "refused"]
  <2>1. request' = [request EXCEPT ![c] = next]
    BY <1>2 DEF Access!Decide
  <2>2. next \in Simple
    BY DEF Simple
  <2>3. RequestStep(c, next)
    BY <2>1, <2>2 DEF RequestStep, AccessInv, AccessType, AnyRequest
  <2> QED
    BY <2>2, <2>3, SimpleStepKeeps
<1> QED
  BY <1>1, <1>2

LEMMA AccessNext ==
    ASSUME AccessInv, [Access!Next]_(Access!vars)
    PROVE  AccessInv'
<1> USE DEF Access!Finish, AnyRequest
<1>1. ASSUME NEW c \in Op, NEW s \in Session, Access!SignIn(c, s)
      PROVE  AccessInv'
  <2>1. [phase |-> "over"] \in Simple
    BY DEF Simple
  <2>2. RequestStep(c, [phase |-> "over"])
    BY <1>1, <2>1 DEF Access!SignIn, RequestStep, AccessInv, AccessType
  <2> QED
    BY <2>1, <2>2, SimpleStepKeeps
<1>2. ASSUME NEW c \in Op, Access!Refresh(c) PROVE AccessInv'
  <2>1. [phase |-> "over"] \in Simple
    BY DEF Simple
  <2>2. RequestStep(c, [phase |-> "over"])
    BY <1>2, <2>1 DEF Access!Refresh, RequestStep, AccessInv, AccessType
  <2> QED
    BY <2>1, <2>2, SimpleStepKeeps
<1>3. ASSUME NEW c \in Op, Access!ChangeFails(c) PROVE AccessInv'
  <2>1. [phase |-> "failed"] \in Simple
    BY DEF Simple
  <2>2. RequestStep(c, [phase |-> "failed"])
    BY <1>3, <2>1 DEF Access!ChangeFails, RequestStep, AccessInv, AccessType
  <2> QED
    BY <2>1, <2>2, SimpleStepKeeps
<1>4. ASSUME NEW c \in Op, Access!Login(c) PROVE AccessInv'
  <2> DEFINE next == [phase |-> "signIn", copy |-> account]
  <2>1. request' = [request EXCEPT ![c] = next]
    BY <1>4 DEF Access!Login
  <2>2. next \in SigningIn
    BY <1>4 DEF SigningIn, AccessInv, AccessType
  <2>3. RequestStep(c, next)
    BY <1>4, <2>1, <2>2 DEF Access!Login, RequestStep, AccessInv, AccessType
  <2>4. request'[c] = next
    BY <2>1 DEF AccessInv, AccessType
  <2>5. AskedOrPassed(c)' /\ ChangeWhole(c)'
    BY <1>4, <2>4
       DEF Access!Login, AccessInv, AccessType, AskedOrPassed, ChangeWhole,
           SigningIn
  <2> QED
    BY <2>3, <2>5, RequestStepKeeps
<1>5. ASSUME NEW c \in Op, NEW s \in Session, Access!Ask(c, s) PROVE AccessInv'
  <2> DEFINE next == [phase |-> "session", session |-> s, since |-> {account}]
  <2>1. request' = [request EXCEPT ![c] = next]
    BY <1>5 DEF Access!Ask
  <2>2. next \in Asking
    BY <1>5 DEF Asking, AccessInv, AccessType
  <2>3. RequestStep(c, next)
    BY <1>5, <2>1, <2>2 DEF Access!Ask, RequestStep, AccessInv, AccessType
  <2>4. request'[c] = next
    BY <2>1 DEF AccessInv, AccessType
  <2>5. AskedOrPassed(c)' /\ ChangeWhole(c)'
    BY <1>5, <2>4
       DEF Access!Ask, AccessInv, AccessType, AskedOrPassed, ChangeWhole, Asking
  <2> QED
    BY <2>3, <2>5, RequestStepKeeps
<1>6. ASSUME NEW c \in Op, NEW value \in {"USER", "ADMIN"},
             Access!Change(c, "role", value)
      PROVE  AccessInv'
  <2> DEFINE next == [phase |-> "update", what |-> "role", value |-> value,
                      copy |-> account, was |-> account, had |-> {},
                      raced |-> FALSE]
  <2>1. request' = [request EXCEPT ![c] = next]
    BY <1>6 DEF Access!Change
  <2>2. next \in Changing
    BY <1>6 DEF Changing, AccessInv, AccessType
  <2>3. RequestStep(c, next)
    BY <1>6, <2>1, <2>2 DEF Access!Change, RequestStep, AccessInv, AccessType
  <2>4. request'[c] = next
    BY <2>1 DEF AccessInv, AccessType
  <2>5. AskedOrPassed(c)' /\ ChangeWhole(c)'
    BY <1>6, <2>4
       DEF Access!Change, AccessInv, AccessType, AskedOrPassed, ChangeWhole,
           Changing
  <2> QED
    BY <2>3, <2>5, RequestStepKeeps
<1>7. ASSUME NEW c \in Op, NEW value \in {"ACTIVE", "INACTIVE", "SUSPENDED"},
             Access!Change(c, "status", value)
      PROVE  AccessInv'
  <2> DEFINE next == [phase |-> "update", what |-> "status", value |-> value,
                      copy |-> account, was |-> account, had |-> {},
                      raced |-> FALSE]
  <2>1. request' = [request EXCEPT ![c] = next]
    BY <1>7 DEF Access!Change
  <2>2. next \in Changing
    BY <1>7 DEF Changing, AccessInv, AccessType
  <2>3. RequestStep(c, next)
    BY <1>7, <2>1, <2>2 DEF Access!Change, RequestStep, AccessInv, AccessType
  <2>4. request'[c] = next
    BY <2>1 DEF AccessInv, AccessType
  <2>5. AskedOrPassed(c)' /\ ChangeWhole(c)'
    BY <1>7, <2>4
       DEF Access!Change, AccessInv, AccessType, AskedOrPassed, ChangeWhole,
           Changing
  <2> QED
    BY <2>3, <2>5, RequestStepKeeps
<1>8. ASSUME NEW c \in Op, Access!EndSessions(c) PROVE AccessInv'
  <2> DEFINE next == [request[c] EXCEPT !.phase = "audit"]
  <2>0. request[c] \in Changing
    BY <1>8
       DEF Access!EndSessions, AccessInv, AccessType, Simple, SigningIn,
           Asking, Passed, Changing
  <2>1. request' = [request EXCEPT ![c] = next]
    BY <1>8 DEF Access!EndSessions
  <2>2. next \in Changing
    BY <1>8, <2>0 DEF Changing, AccessInv, AccessType
  <2>3. RequestStep(c, next)
    BY <1>8, <2>1, <2>2
       DEF Access!EndSessions, RequestStep, AccessInv, AccessType
  <2>4. request'[c] = next
    BY <2>1 DEF AccessInv, AccessType
  <2>5. AskedOrPassed(c)' /\ ChangeWhole(c)'
    BY <1>8, <2>4, <2>0
       DEF Access!EndSessions, AccessInv, AccessType, AskedOrPassed,
           ChangeWhole, Changing
  <2> QED
    BY <2>3, <2>5, RequestStepKeeps
<1>9. ASSUME NEW c \in Op, Access!Audit(c) PROVE AccessInv'
  <2> DEFINE next == [request[c] EXCEPT !.phase = "answered"]
  <2>0. request[c] \in Changing
    BY <1>9
       DEF Access!Audit, AccessInv, AccessType, Simple, SigningIn, Asking,
           Passed, Changing
  <2>1. request' = [request EXCEPT ![c] = next]
    BY <1>9 DEF Access!Audit
  <2>2. next \in Changing
    BY <1>9, <2>0 DEF Changing, AccessInv, AccessType
  <2>3. RequestStep(c, next)
    BY <1>9, <2>1, <2>2 DEF Access!Audit, RequestStep, AccessInv, AccessType
  <2>4. request'[c] = next
    BY <2>1 DEF AccessInv, AccessType
  <2>5. AskedOrPassed(c)' /\ ChangeWhole(c)'
    BY <1>9, <2>4, <2>0
       DEF Access!Audit, AccessInv, AccessType, AskedOrPassed, ChangeWhole,
           Changing
  <2> QED
    BY <2>3, <2>5, RequestStepKeeps
<1>10. ASSUME NEW c \in Op, Access!CheckSession(c) PROVE AccessInv'
  <2> DEFINE s == request[c].session
  <2>0. request[c] \in Asking
    BY <1>10
       DEF Access!CheckSession, AccessInv, AccessType, Simple, SigningIn,
           Asking, Passed, Changing
  <2>1. /\ cookie[s] \in Access!User \cup {Access!NoCookie}
        /\ account \in Access!User /\ account # Access!NoCookie
        /\ request[c].phase \in {"session", "token"}
        /\ UNCHANGED <<account, opened, session, cookie, audit>>
    BY <1>10, <2>0
       DEF Access!CheckSession, AccessInv, AccessType, Asking, Access!NoCookie,
           Access!User
  <2>2. CASE /\ cookie[s] # Access!NoCookie
             /\ Access!Decide(c, cookie[s], "cookie")
    BY <2>1, <2>2, DecideKeeps
  <2>3. CASE Access!Decide(c, account, "session")
    BY <2>1, <2>3, DecideKeeps
  <2>4. CASE request' = [request EXCEPT ![c].phase = "token"]
    <3> DEFINE next == [request[c] EXCEPT !.phase = "token"]
    <3>1. request' = [request EXCEPT ![c] = next]
      BY <2>4
    <3>2. next \in Asking
      BY <2>0 DEF Asking
    <3>3. RequestStep(c, next)
      BY <2>1, <3>1, <3>2 DEF RequestStep, AccessInv, AccessType
    <3>4. request'[c] = next
      BY <3>1 DEF AccessInv, AccessType
    <3>5. AskedOrPassed(c)' /\ ChangeWhole(c)'
      BY <2>0, <2>1, <3>4 DEF AccessInv, AskedOrPassed, ChangeWhole, Asking
    <3> QED
      BY <3>3, <3>5, RequestStepKeeps
  <2> QED
    BY <1>10, <2>2, <2>3, <2>4 DEF Access!CheckSession
<1>11. ASSUME NEW c \in Op, Access!CheckToken(c) PROVE AccessInv'
  <2>1. /\ account \in Access!User /\ account # Access!NoCookie
        /\ request[c].phase = "token"
        /\ UNCHANGED <<account, opened, session, cookie, audit>>
    BY <1>11
       DEF Access!CheckToken, AccessInv, AccessType, Access!NoCookie,
           Access!User
  <2>2. CASE Access!Decide(c, account, "token")
    BY <2>1, <2>2, DecideKeeps
  <2>3. CASE request' = [request EXCEPT ![c] = [phase |-> "refused"]]
    <3>1. [phase |-> "refused"] \in Simple
      BY DEF Simple
    <3>2. RequestStep(c, [phase |-> "refused"])
      BY <2>1, <2>3, <3>1 DEF RequestStep, AccessInv, AccessType
    <3> QED
      BY <3>1, <3>2, SimpleStepKeeps
  <2> QED
    BY <1>11, <2>2, <2>3 DEF Access!CheckToken
<1>12. ASSUME NEW c \in Op, Access!Update(c) PROVE AccessInv'
  <2> DEFINE r == request[c]
             to == [account EXCEPT ![r.what] = r.value]
             goes == IF r.value \in {"INACTIVE", "SUSPENDED"}
                     THEN "sessions" ELSE "audit"
  <2>1. r \in Changing /\ r.phase = "update" /\ ChangeWhole(c)
    BY <1>12
       DEF Access!Update, AccessInv, AccessType, Simple, SigningIn, Asking,
           Passed, Changing
  <2>2. to \in Access!User /\ account' = to
        /\ UNCHANGED <<opened, session, cookie, token, audit>>
    <3>1. CASE r.what = "role"
      <4>1. to = [account EXCEPT !.role = r.value]
        BY <3>1
      <4>2. r.value \in {"USER", "ADMIN"}
        BY <2>1, <3>1 DEF ChangeWhole
      <4>3. to \in Access!User
        BY <4>1, <4>2 DEF AccessInv, AccessType, Access!User
      <4> QED
        BY <1>12, <4>3 DEF Access!Update
    <3>2. CASE r.what = "status"
      <4>1. to = [account EXCEPT !.status = r.value]
        BY <3>2
      <4>2. r.value \in {"ACTIVE", "INACTIVE", "SUSPENDED"}
        BY <2>1, <3>2 DEF ChangeWhole
      <4>3. to \in Access!User
        BY <4>1, <4>2 DEF AccessInv, AccessType, Access!User
      <4> QED
        BY <1>12, <4>3 DEF Access!Update
    <3>3. r.what \in {"role", "status"}
      BY <2>1 DEF Changing
    <3> QED
      BY <1>12, <3>1, <3>2, <3>3 DEF Access!Update
  <2>3. \A d \in Op :
          request'[d] = IF d = c
             THEN [r EXCEPT !.was = account, !.had = session, !.phase = goes]
             ELSE IF request[d].phase = "update"
             THEN [request[d] EXCEPT !.raced = TRUE]
             ELSE IF request[d].phase \in {"session", "token"}
             THEN [request[d] EXCEPT !.since = @ \cup {to}]
             ELSE request[d]
    BY <1>12 DEF Access!Update
  <2>4. /\ request'[c] = [r EXCEPT !.was = account, !.had = session,
                                 !.phase = goes]
        /\ request'[c] \in Changing
        /\ AskedOrPassed(c)' /\ ChangeWhole(c)'
    <3>1. goes \in {"sessions", "audit"}
      OBVIOUS
    <3>2. request'[c] = [r EXCEPT !.was = account, !.had = session,
                                  !.phase = goes]
      BY <2>3
    <3>3. session \in SUBSET Session /\ account \in Access!User
      BY DEF AccessInv, AccessType
    <3>4. request'[c] \in Changing
      BY <2>1, <3>1, <3>2, <3>3 DEF Changing
    <3>5. /\ request'[c].phase = goes /\ request'[c].what = r.what
          /\ request'[c].value = r.value /\ request'[c].had = session
          /\ request'[c].copy = r.copy /\ request'[c].was = account
      BY <2>1, <3>2 DEF Changing
    <3>6. request'[c].raced = r.raced
      BY <2>1, <3>2 DEF Changing
    <3>7. AskedOrPassed(c)'
      BY <3>1, <3>5 DEF AskedOrPassed
    <3>8. ChangeWhole(c)'
      BY <2>1, <2>2, <3>5, <3>6 DEF ChangeWhole, AccessInv, AccessType
    <3> QED
      BY <3>2, <3>4, <3>7, <3>8
  <2>5. ASSUME NEW d \in Op, d # c
        PROVE  /\ request'[d] \in AnyRequest
               /\ AskedOrPassed(d)' /\ ChangeWhole(d)'
    <3>0. AskedOrPassed(d) /\ ChangeWhole(d)
      BY DEF AccessInv
    <3>1. CASE request[d].phase = "update"
      <4>1. request[d] \in Changing
        BY <3>1
           DEF AccessInv, AccessType, Simple, SigningIn, Asking, Passed,
               Changing
      <4>2. request'[d] = [request[d] EXCEPT !.raced = TRUE]
        BY <2>3, <2>5, <3>1
      <4>3. /\ request'[d] \in Changing
            /\ request'[d].phase = "update" /\ request'[d].raced
            /\ request'[d].what = request[d].what
            /\ request'[d].value = request[d].value
            /\ request'[d].had = request[d].had
        BY <3>1, <4>1, <4>2 DEF Changing
      <4> QED
        BY <2>2, <3>0, <3>1, <4>3 DEF AskedOrPassed, ChangeWhole
    <3>2. CASE request[d].phase \in {"session", "token"}
      <4>1. request[d] \in Asking
        BY <3>2
           DEF AccessInv, AccessType, Simple, SigningIn, Asking, Passed,
               Changing
      <4>2. request'[d] = [request[d] EXCEPT !.since = @ \cup {to}]
        BY <2>3, <2>5, <3>2
      <4>3. /\ request'[d] \in Asking
            /\ request'[d].phase = request[d].phase
            /\ request'[d].since = request[d].since \cup {to}
        BY ZenonT(40), <2>2, <4>1, <4>2 DEF Asking
      <4> QED
        BY <2>2, <3>2, <4>3 DEF AskedOrPassed, ChangeWhole
    <3>3. CASE request[d].phase \notin {"update", "session", "token"}
      <4>1. request'[d] = request[d]
        BY <2>3, <2>5, <3>3
      <4> QED
        BY <2>2, <3>0, <3>3, <4>1
           DEF AskedOrPassed, ChangeWhole, AccessInv, AccessType
    <3> QED
      BY <3>1, <3>2, <3>3
  <2>6. request' = [d \in Op |-> request'[d]]
    BY <1>12 DEF Access!Update
  <2>7. AccessType'
    <3>1. \A d \in Op : request'[d] \in AnyRequest
      BY <2>4, <2>5
    <3>2. request' \in [Op -> AnyRequest]
      BY <2>6, <3>1
    <3> QED
      BY <2>2, <3>2 DEF AccessInv, AccessType
  <2> QED
    BY <2>4, <2>5, <2>7 DEF AccessInv
<1>13. ASSUME NEW s \in Session,
              Access!CacheSession(s) \/ Access!ExpireCookie(s)
      PROVE  AccessInv'
  BY <1>13 DEF Access!CacheSession, Access!ExpireCookie, AccessInv, AccessType,
     AskedOrPassed, ChangeWhole
<1>14. CASE UNCHANGED Access!vars
  BY <1>14 DEF Access!vars, AccessInv, AccessType, AskedOrPassed, ChangeWhole
<1> QED
  BY <1>1, <1>2, <1>3, <1>4, <1>5, <1>6, <1>7, <1>8, <1>9, <1>10, <1>11, <1>12,
     <1>13, <1>14
     DEF Access!Next, Access!ChangeRole, Access!ChangeStatus

LEMMA AccessInvariant == Access!Spec => []AccessInv
<1>1. Access!Init => AccessInv
  <2> SUFFICES ASSUME Access!Init PROVE AccessInv
    OBVIOUS
  <2>1. account \in Access!User
    BY DEF Access!Init, Access!User
  <2>2. \A c \in Op : request[c] = [phase |-> "idle"]
    BY DEF Access!Init, Access!Idle
  <2>3. AccessType
    BY <2>1, <2>2 DEF Access!Init, AccessType, AnyRequest, Simple
  <2> QED
    BY <2>2, <2>3 DEF AccessInv, AskedOrPassed, ChangeWhole
<1> QED
  BY <1>1, AccessNext, PTL DEF Access!Spec

(* Whatever administrators change, and whoever signs in, meanwhile, a      *)
(* request passes as an active user, and as one that he was since it began *)
(* unless a cookie said otherwise.                                         *)
THEOREM SuspensionsBite == Access!Spec => []SuspensionBites
<1>1. AccessInv => SuspensionBites
  BY DEF AccessInv, AskedOrPassed, SuspensionBites, Access!SuspensionBites
<1> QED
  BY <1>1, AccessInvariant, PTL

(* However changes interleave and fail, one that is answered is recorded,  *)
(* and the sessions that it had to end are gone for good.                  *)
THEOREM AnsweredChangesWhole == Access!Spec => []AnsweredChangeIsWhole
<1>1. AccessInv => AnsweredChangeIsWhole
  <2> SUFFICES ASSUME AccessInv, NEW c \in Op, request[c].phase = "answered"
               PROVE  /\ \E record \in audit :
                            /\ record.by = c /\ record.new = request[c].value
                            /\ \/ request[c].raced
                               \/ record.old = request[c].was[request[c].what]
                      /\ /\ request[c].what = "status"
                         /\ request[c].value # "ACTIVE"
                         => request[c].had \cap session = {}
    BY DEF AnsweredChangeIsWhole, Access!AnsweredChangeIsWhole
  <2> DEFINE record == [by |-> c, old |-> request[c].copy[request[c].what],
                        new |-> request[c].value]
  <2>1. /\ record \in audit
        /\ ~request[c].raced => request[c].copy = request[c].was
    BY DEF AccessInv, ChangeWhole
  <2>2. record.by = c /\ record.new = request[c].value
        /\ record.old = request[c].copy[request[c].what]
    OBVIOUS
  <2> QED
    BY <2>1, <2>2 DEF AccessInv, ChangeWhole
<1> QED
  BY <1>1, AccessInvariant, PTL

-----------------------------------------------------------------------------
(* Projects.                                                               *)

Work == {"none", "look", "insert", "done", "failed"}

Request == [phase : {"idle", "over", "refused", "passed", "project", "user",
                     "system", "upsert", "discover", "ids", "rows", "listed"},
        kind : Projects!Kind \cup {"none"}, user : External \cup {"none"},
        key : Nat,
        work : [External -> Work], blind : BOOLEAN, listed : SUBSET External,
        barred : BOOLEAN, known : SUBSET External,
        total : Nat \cup {-1}, page : Nat]

ProjectType ==
    /\ project \in [status : {"ACTIVE", "SUSPENDED"}, key : Nat]
    /\ registered \in SUBSET External
    /\ users \in SUBSET External
    /\ call \in [Errand -> Request]

(* Whoever came with what was revoked has not passed the lookup, which     *)
(* refuses him still.                                                      *)
BarredWait(c) ==
    /\ call[c].key <= project.key
    /\ call[c].barred =>
          /\ call[c].phase = "project"
          /\ call[c].key \in {Projects!ById, project.key} => ~Projects!Active

(* What a directory has found, by how far its upserts and queries are.     *)
Discovered(c) ==
    LET found == {x \in External : call[c].work[x] # "none"} IN
    /\ call[c].known \subseteq registered
    /\ call[c].phase \in {"project", "user", "system"} => found = {}
    /\ call[c].phase \in {"user", "system"} => call[c].kind # "directory"
    /\ call[c].phase \in {"discover", "ids", "rows", "listed"} =>
          call[c].kind = "directory"
    /\ call[c].kind = "directory" =>
          /\ found \subseteq registered
          /\ \A x \in External : call[c].work[x] = "done" => x \in users
          /\ ~call[c].blind => \A x \in External : call[c].work[x] # "failed"
    /\ call[c].phase \in {"ids", "rows", "listed"} /\ ~call[c].blind =>
          \A x \in External : call[c].work[x] \in {"none", "done"}
    /\ call[c].phase \in {"rows", "listed"} /\ ~call[c].blind =>
          found \subseteq call[c].known

(* What the two last queries of a directory have answered.                 *)
Answered(c) ==
    LET rest == {x \in External : call[c].work[x] # "none"}
                    \ {call[c].user} IN
    /\ call[c].phase = "listed" => call[c].total # -1
    /\ call[c].phase \notin {"rows", "listed"} =>
          call[c].total = -1 /\ call[c].page = 0 /\ call[c].listed = {}
    /\ call[c].known # {} =>
          /\ call[c].listed \subseteq call[c].known
          /\ ~call[c].blind =>
                /\ call[c].total # -1 => Cardinality(rest) <= call[c].total
                /\ call[c].page = 1 /\ Cardinality(call[c].listed) < PageLimit =>
                      rest \subseteq call[c].listed

ProjectInv ==
    /\ ProjectType
    /\ \A c \in Errand : BarredWait(c) /\ Discovered(c) /\ Answered(c)

(* Nothing is answered before the two queries are made.                    *)
Blank(c) ==
    /\ call[c].phase \notin {"rows", "listed"}
    /\ call[c].total = -1 /\ call[c].page = 0 /\ call[c].listed = {}

(* A step of one call: nobody else's, and nobody is forgotten.             *)
CallStep(c, next) ==
    /\ next \in Request
    /\ call' = [call EXCEPT ![c] = next]
    /\ project' = project
    /\ registered' = registered
    /\ users' \in SUBSET External
    /\ users \subseteq users'

(* The requests that the steps make are requests.                          *)
LEMMA IdleRequest ==
    Projects!Idle \in Request /\ Projects!Refused \in Request
<1>1. Projects!Idle \in Request
  BY DEF Projects!Idle, Request, Work, Projects!ById, Projects!Unread
<1>2. \A r \in Request : [r EXCEPT !.phase = "refused"] \in Request
  BY DEF Request
<1> QED
  BY <1>1, <1>2 DEF Projects!Refused

LEMMA PhaseRequest ==
    ASSUME NEW r \in Request,
           NEW p \in {"idle", "over", "refused", "passed", "project", "user",
                      "system", "upsert", "discover", "ids", "rows", "listed"}
    PROVE  [r EXCEPT !.phase = p] \in Request
<1> QED
  BY DEF Request

LEMMA WorkRequest ==
    ASSUME NEW r \in Request, NEW x, NEW w \in Work,
           NEW p \in {"idle", "over", "refused", "passed", "project", "user",
                      "system", "upsert", "discover", "ids", "rows", "listed"}
    PROVE  [r EXCEPT !.phase = p, !.work[x] = w] \in Request
<1> QED
  BY DEF Request

LEMMA AdmittedRequest ==
    ASSUME NEW r \in Request, NEW x, NEW p \in {"discover", "user"}
    PROVE  /\ [r EXCEPT !.phase = p, !.key = 0] \in Request
           /\ [r EXCEPT !.phase = "upsert", !.key = 0, !.work[x] = "look"]
                 \in Request
<1> QED
  BY DEF Request, Work

LEMMA SearchedRequest ==
    ASSUME NEW r \in Request,
           NEW p \in {"idle", "over", "refused", "passed", "project", "user",
                      "system", "upsert", "discover", "ids", "rows", "listed"}
    PROVE  /\ \A w \in [External -> Work] :
                 [r EXCEPT !.phase = p, !.work = w] \in Request
           /\ \A ids \in SUBSET External :
                 [r EXCEPT !.phase = p, !.known = ids] \in Request
           /\ [r EXCEPT !.phase = p, !.blind = TRUE] \in Request
           /\ \A x : [r EXCEPT !.work[x] = "failed", !.blind = TRUE,
                               !.phase = p] \in Request
<1>1. ASSUME NEW w \in [External -> Work]
      PROVE  [r EXCEPT !.phase = p, !.work = w] \in Request
  BY <1>1 DEF Request
<1>2. ASSUME NEW ids \in SUBSET External
      PROVE  [r EXCEPT !.phase = p, !.known = ids] \in Request
  BY <1>2 DEF Request
<1>3. [r EXCEPT !.phase = p, !.blind = TRUE] \in Request
  BY DEF Request
<1>4. ASSUME NEW x
      PROVE  [r EXCEPT !.work[x] = "failed", !.blind = TRUE, !.phase = p]
                \in Request
  BY <1>4 DEF Request, Work
<1> QED
  BY <1>1, <1>2, <1>3, <1>4

LEMMA BarredRequest ==
    ASSUME NEW r \in Request, NEW b \in BOOLEAN
    PROVE  [r EXCEPT !.barred = b] \in Request
<1> QED
  BY DEF Request

LEMMA PassedRequest ==
    ASSUME ProjectType, NEW c \in Errand
    PROVE  Projects!Passed(c) \in Request
<1>1. call[c].barred \in BOOLEAN
  BY DEF ProjectType, Request
<1>2. [Projects!Idle EXCEPT !.phase = "passed"] \in Request
  BY IdleRequest, PhaseRequest
<1>3. Projects!Passed(c) = [[Projects!Idle EXCEPT !.phase = "passed"] EXCEPT !.barred = call[c].barred]
  BY DEF Projects!Passed
<1> QED
  BY <1>1, <1>2, <1>3, BarredRequest

LEMMA AskedRequest ==
    ASSUME NEW k \in Projects!Kind, NEW x \in External \cup {"none"},
           NEW n \in Nat, NEW b \in BOOLEAN
    PROVE  [Projects!Idle EXCEPT !.phase = "project", !.kind = k, !.user = x,
                                 !.key = n, !.barred = b] \in Request
<1> QED
  BY IdleRequest DEF Request

LEMMA CallStepKeeps ==
    ASSUME ProjectInv, NEW c \in Errand, NEW next, CallStep(c, next),
           BarredWait(c)', Discovered(c)', Answered(c)' \/ Blank(c)'
    PROVE  ProjectInv'
<1>1. ProjectType'
  BY DEF ProjectInv, ProjectType, CallStep
<1>2. ASSUME NEW d \in Errand, d # c
      PROVE  BarredWait(d)' /\ Discovered(d)' /\ Answered(d)'
  <2>1. call'[d] = call[d]
    BY <1>2 DEF CallStep, ProjectInv, ProjectType
  <2>2. Answered(d)'
    BY <2>1 DEF ProjectInv, Answered
  <2>3. BarredWait(d)' /\ Discovered(d)'
    BY <2>1 DEF ProjectInv, CallStep, BarredWait, Discovered, Projects!Active
  <2> QED
    BY <2>2, <2>3
<1>3. Answered(c)'
  BY DEF Answered, Blank
<1> QED
  BY <1>1, <1>2, <1>3 DEF ProjectInv

LEMMA DoneKeeps ==
    ASSUME ProjectInv, NEW c \in Errand, NEW x \in External,
           call[c].work[x] \in {"look", "insert"}, x \in users',
           call' = [call EXCEPT ![c] = Projects!Done(c, x)],
           UNCHANGED <<project, registered>>,
           users' \in SUBSET External, users \subseteq users'
    PROVE  ProjectInv'
<1>0. ~call[c].barred
  BY DEF ProjectInv, BarredWait, Discovered
<1>1. CASE call[c].kind # "directory"
  <2>1. call' = [call EXCEPT ![c] = Projects!Passed(c)]
    BY <1>1 DEF Projects!Done
  <2>2. call'[c] = Projects!Passed(c)
    BY <2>1 DEF ProjectInv, ProjectType
  <2>3. CallStep(c, Projects!Passed(c))
    BY <2>1, PassedRequest DEF CallStep, ProjectInv
  <2>4. /\ call'[c].phase = "passed" /\ call'[c].kind = "none"
        /\ call'[c].known = {} /\ call'[c].key = 0 /\ ~call'[c].barred
        /\ call'[c].total = -1 /\ call'[c].page = 0 /\ call'[c].listed = {}
    <3>1. call[c].barred = FALSE
      BY <1>0 DEF ProjectInv, ProjectType, Request
    <3> QED
      BY ZenonT(40), <2>2, <3>1
         DEF Projects!Passed, Projects!Idle, Projects!ById, Projects!Unread
  <2>5. BarredWait(c)' /\ Discovered(c)'
    BY <1>0, <2>4 DEF BarredWait, Discovered, ProjectInv, ProjectType
  <2> QED
    BY <2>3, <2>4, <2>5, CallStepKeeps DEF Blank
<1>2. CASE call[c].kind = "directory"
  <2> DEFINE phase == IF call[c].phase = "upsert" /\ Projects!Working(c) = {x}
                      THEN "ids" ELSE call[c].phase
             next == [call[c] EXCEPT !.phase = phase, !.work[x] = "done"]
  <2>1. call' = [call EXCEPT ![c] = next]
    BY <1>2 DEF Projects!Done, ProjectInv, ProjectType, Request
  <2>2. next \in Request
    <3>1. phase \in {"idle", "over", "refused", "passed", "project", "user",
                      "system", "upsert", "discover", "ids", "rows", "listed"}
      BY DEF ProjectInv, ProjectType, Request
    <3> QED
      BY <3>1, WorkRequest DEF ProjectInv, ProjectType, Work
  <2>3. CallStep(c, next)
    <3> HIDE DEF next
    <3> QED
      BY <2>1, <2>2 DEF CallStep
  <2>4. call'[c] = next
    <3> HIDE DEF next
    <3> QED
      BY <2>1 DEF ProjectInv, ProjectType
  <2>5. /\ call'[c].phase = phase /\ call'[c].kind = "directory"
        /\ call'[c].known = call[c].known /\ call'[c].listed = call[c].listed
        /\ call'[c].user = call[c].user /\ call'[c].key = call[c].key
        /\ call'[c].barred = call[c].barred /\ call'[c].blind = call[c].blind
        /\ call'[c].total = call[c].total /\ call'[c].page = call[c].page
    <3> HIDE DEF phase
    <3> QED
      BY <1>2, <2>4 DEF ProjectInv, ProjectType, Request
  <2>6. \A y \in External :
            call'[c].work[y] = IF y = x THEN "done" ELSE call[c].work[y]
    <3>1. call[c].work \in [External -> Work]
      BY DEF ProjectInv, ProjectType, Request
    <3>2. call'[c].work = [call[c].work EXCEPT ![x] = "done"]
      <4> HIDE DEF phase
      <4>1. [call[c] EXCEPT !.phase = phase, !.work[x] = "done"].work
                = [call[c].work EXCEPT ![x] = "done"]
        BY DEF ProjectInv, ProjectType, Request
      <4> QED
        BY <2>4, <4>1
    <3> QED
      BY <3>1, <3>2
  <2>7. BarredWait(c)'
    BY <1>0, <2>3, <2>5 DEF BarredWait, CallStep, ProjectInv
  <2>8. phase # call[c].phase =>
            /\ call[c].phase = "upsert" /\ phase = "ids"
            /\ \A y \in External \ {x} :
                  call[c].work[y] \in {"none", "done", "failed"}
    BY DEF Projects!Working, ProjectInv, ProjectType, Request, Work
  <2>9. Discovered(c)'
    <3> HIDE DEF phase
    <3> QED
      BY <1>2, <2>3, <2>5, <2>6, <2>8 DEF Discovered, CallStep, ProjectInv
  <2>10. Answered(c)'
    <3>1. \A y \in External : call'[c].work[y] # "none" <=>
                               call[c].work[y] # "none"
      BY <2>6
    <3>2. {y \in External : call'[c].work[y] # "none"} =
          {y \in External : call[c].work[y] # "none"}
      BY <3>1
    <3> HIDE DEF phase
    <3> QED
      BY <2>5, <2>8, <3>2 DEF Answered, ProjectInv
  <2> QED
    BY <2>3, <2>7, <2>9, <2>10, CallStepKeeps
<1> QED
  BY <1>1, <1>2

(* A query of a directory is answered, and with both answers it is listed. *)
LEMMA AnswerStepKeeps ==
    ASSUME ProjectInv, NEW c \in Errand, call[c].phase = "rows",
           NEW r \in Request, Projects!Answer(c, r),
           UNCHANGED <<project, registered, users>>,
           r.phase = "rows", r.kind = call[c].kind, r.user = call[c].user,
           r.key = call[c].key, r.barred = call[c].barred,
           r.known = call[c].known, r.blind = call[c].blind,
           r.work = call[c].work,
           r.known # {} =>
             LET rest == {x \in External : r.work[x] # "none"} \ {r.user} IN
             /\ r.listed \subseteq r.known
             /\ ~r.blind =>
                   /\ r.total # -1 => Cardinality(rest) <= r.total
                   /\ r.page = 1 /\ Cardinality(r.listed) < PageLimit =>
                         rest \subseteq r.listed
    PROVE  ProjectInv'
<1> DEFINE phase == IF r.total = -1 \/ r.page = 0 THEN "rows" ELSE "listed"
           next == [r EXCEPT !.phase = phase]
<1>1. phase \in {"rows", "listed"}
  OBVIOUS
<1>2. next \in Request
  <2> HIDE DEF phase
  <2> QED
    BY <1>1 DEF Request
<1>3. /\ next.phase = phase /\ next.kind = call[c].kind
      /\ next.user = call[c].user
      /\ next.key = call[c].key /\ next.barred = call[c].barred
      /\ next.known = call[c].known /\ next.blind = call[c].blind
      /\ next.work = call[c].work /\ next.listed = r.listed
      /\ next.total = r.total /\ next.page = r.page
  <2> HIDE DEF phase
  <2> QED
    BY DEF Request
<1>4. call' = [call EXCEPT ![c] = next]
  <2>1. CASE r.total = -1 \/ r.page = 0
    <3>1. next = r
      BY <2>1 DEF Request
    <3> QED
      BY <2>1, <3>1 DEF Projects!Answer, Projects!Unread
  <2>2. CASE ~(r.total = -1 \/ r.page = 0)
    BY <2>2 DEF Projects!Answer, Projects!Unread
  <2> QED
    BY <2>1, <2>2
<1>5. call'[c] = next
  <2> HIDE DEF next
  <2> QED
    BY <1>4 DEF ProjectInv, ProjectType
<1>6. CallStep(c, next)
  <2> HIDE DEF next
  <2> QED
    BY <1>2, <1>4 DEF CallStep, ProjectInv, ProjectType
<1>7. phase = "listed" => r.total # -1
  OBVIOUS
<1> HIDE DEF next, phase
<1>8. BarredWait(c)'
  BY <1>3, <1>5 DEF BarredWait, ProjectInv
<1>9. Discovered(c)'
  BY <1>1, <1>3, <1>5 DEF Discovered, ProjectInv
<1>10. Answered(c)'
  BY <1>1, <1>3, <1>5, <1>7 DEF Answered
<1> QED
  BY <1>6, <1>8, <1>9, <1>10, CallStepKeeps

(* Whom the two queries are about: of those that were found, all.          *)
LEMMA MatchingHolds ==
    ASSUME ProjectAssumption, ProjectInv, NEW c \in Errand,
           call[c].phase = "rows"
    PROVE  LET rest == {x \in External : call[c].work[x] # "none"}
                           \ {call[c].user} IN
           /\ Projects!Matching(c) \in SUBSET External
           /\ IsFiniteSet(Projects!Matching(c))
           /\ Cardinality(Projects!Matching(c)) \in Nat
           /\ call[c].known # {} =>
                 /\ Projects!Matching(c) \subseteq call[c].known
                 /\ ~call[c].blind =>
                       /\ rest \subseteq Projects!Matching(c)
                       /\ Cardinality(rest) <= Cardinality(Projects!Matching(c))
<1> DEFINE rest == {x \in External : call[c].work[x] # "none"}
                       \ {call[c].user}
<1>1. Projects!Matching(c) \in SUBSET External
  BY DEF Projects!Matching, ProjectInv, ProjectType
<1>2. IsFiniteSet(Projects!Matching(c))
  BY <1>1, FS_Subset DEF ProjectAssumption
<1>3. ASSUME call[c].known # {}
      PROVE  /\ Projects!Matching(c) \subseteq call[c].known
             /\ ~call[c].blind => rest \subseteq Projects!Matching(c)
  <2>1. Projects!Matching(c) = (users \cap call[c].known) \ {call[c].user}
    BY <1>3 DEF Projects!Matching, Projects!Filter
  <2>2. ~call[c].blind => \A x \in External : call[c].work[x] # "none" =>
              x \in users /\ x \in call[c].known
    BY DEF ProjectInv, Discovered
  <2> QED
    BY <2>1, <2>2
<1>4. rest \subseteq Projects!Matching(c) =>
         Cardinality(rest) <= Cardinality(Projects!Matching(c))
  <2> HIDE DEF rest
  <2> QED
    BY <1>2, FS_Subset
<1> QED
  BY <1>1, <1>2, <1>3, <1>4, FS_CardinalityType

LEMMA ProjectsCounts == \A S : Projects!Cardinality(S) = Cardinality(S)
<1> QED
  BY DEF Projects!Cardinality, Cardinality

LEMMA CountKeeps ==
    ASSUME ProjectAssumption, ProjectInv, NEW c \in Errand, Projects!Count(c)
    PROVE  ProjectInv'
<1> DEFINE total == Cardinality(Projects!Matching(c))
           r == [call[c] EXCEPT !.total = total]
<1>1. /\ call[c].phase = "rows" /\ call[c].total = -1
      /\ Projects!Answer(c, r)
      /\ UNCHANGED <<project, registered, users>>
  BY ProjectsCounts DEF Projects!Count, Projects!Unread
<1>2. total \in Nat
  BY <1>1, MatchingHolds
<1>3. /\ r \in Request /\ r.phase = "rows" /\ r.kind = call[c].kind
      /\ r.user = call[c].user /\ r.key = call[c].key
      /\ r.barred = call[c].barred /\ r.known = call[c].known
      /\ r.blind = call[c].blind /\ r.work = call[c].work
      /\ r.total = total /\ r.page = call[c].page /\ r.listed = call[c].listed
  <2> HIDE DEF total
  <2> QED
    BY <1>1, <1>2 DEF ProjectInv, ProjectType, Request
<1>4. r.known # {} =>
        LET rest == {x \in External : r.work[x] # "none"} \ {r.user} IN
        /\ r.listed \subseteq r.known
        /\ ~r.blind =>
              /\ r.total # -1 => Cardinality(rest) <= r.total
              /\ r.page = 1 /\ Cardinality(r.listed) < PageLimit =>
                    rest \subseteq r.listed
  <2> DEFINE rest == {x \in External : call[c].work[x] # "none"}
                         \ {call[c].user}
  <2>1. call[c].known # {} =>
          /\ call[c].listed \subseteq call[c].known
          /\ ~call[c].blind =>
                /\ Cardinality(rest) <= total
                /\ call[c].page = 1 /\ Cardinality(call[c].listed) < PageLimit =>
                      rest \subseteq call[c].listed
    BY <1>1, MatchingHolds DEF ProjectInv, Answered
  <2>2. {x \in External : r.work[x] # "none"} \ {r.user} = rest
    BY <1>3
  <2> HIDE DEF r, rest, total
  <2> QED
    BY <1>3, <2>1, <2>2
<1> HIDE DEF r
<1> QED
  BY <1>1, <1>3, <1>4, AnswerStepKeeps

(* A first page with room for more has all the rows.                       *)
LEMMA ShortPage ==
    ASSUME ProjectAssumption, NEW S, IsFiniteSet(S), NEW rows \in SUBSET S,
           Cardinality(rows) = Projects!PageSize(1, Cardinality(S)),
           Cardinality(rows) < PageLimit
    PROVE  rows = S
<1>1. Cardinality(S) \in Nat
  BY FS_CardinalityType
<1>2. (1 - 1) * PageLimit = 0
  BY DEF ProjectAssumption
<1>3. Cardinality(S) - (1 - 1) * PageLimit = Cardinality(S)
  BY <1>1, <1>2
<1>4. Projects!PageSize(1, Cardinality(S)) =
        IF Cardinality(S) > PageLimit THEN PageLimit
        ELSE IF Cardinality(S) > 0 THEN Cardinality(S) ELSE 0
  BY <1>3 DEF Projects!PageSize
<1>5. Cardinality(rows) = Cardinality(S)
  BY <1>1, <1>4 DEF ProjectAssumption
<1> QED
  BY <1>5, FS_Subset

LEMMA FindRowsKeeps ==
    ASSUME ProjectAssumption, ProjectInv, NEW c \in Errand,
           NEW page \in 1..LastPage, Projects!FindRows(c, page)
    PROVE  ProjectInv'
<1>1. PICK rows \in SUBSET Projects!Matching(c) :
         /\ Cardinality(rows) =
               Projects!PageSize(page, Cardinality(Projects!Matching(c)))
         /\ Projects!Answer(c, [call[c] EXCEPT !.page = page, !.listed = rows])
  BY ProjectsCounts DEF Projects!FindRows
<1> DEFINE r == [call[c] EXCEPT !.page = page, !.listed = rows]
<1>2. /\ call[c].phase = "rows"
      /\ UNCHANGED <<project, registered, users>>
  BY DEF Projects!FindRows
<1>3. rows \subseteq External /\ page \in Nat
  <2>1. rows \subseteq External
    BY <1>2, MatchingHolds
  <2>2. page \in Nat
    BY DEF ProjectAssumption
  <2> QED
    BY <2>1, <2>2
<1>4. /\ r \in Request /\ r.phase = "rows" /\ r.kind = call[c].kind
      /\ r.user = call[c].user /\ r.key = call[c].key
      /\ r.barred = call[c].barred /\ r.known = call[c].known
      /\ r.blind = call[c].blind /\ r.work = call[c].work
      /\ r.total = call[c].total /\ r.page = page /\ r.listed = rows
  BY <1>2, <1>3 DEF ProjectInv, ProjectType, Request
<1>5. page = 1 /\ Cardinality(rows) < PageLimit => rows = Projects!Matching(c)
  BY <1>1, <1>2, MatchingHolds, ShortPage
<1>6. r.known # {} =>
        LET rest == {x \in External : r.work[x] # "none"} \ {r.user} IN
        /\ r.listed \subseteq r.known
        /\ ~r.blind =>
              /\ r.total # -1 => Cardinality(rest) <= r.total
              /\ r.page = 1 /\ Cardinality(r.listed) < PageLimit =>
                    rest \subseteq r.listed
  <2> HIDE DEF r
  <2> QED
    BY <1>2, <1>4, <1>5, MatchingHolds DEF ProjectInv, Answered
<1>7. Projects!Answer(c, r)
  BY <1>1
<1> HIDE DEF r
<1> QED
  BY <1>2, <1>4, <1>6, <1>7, AnswerStepKeeps

LEMMA ProjectNext ==
    ASSUME ProjectAssumption, ProjectInv, [Projects!Next]_(Projects!vars)
    PROVE  ProjectInv'
<1>1. ASSUME NEW x \in External, Projects!Register(x) PROVE ProjectInv'
  <2>1. call' = call
    BY <1>1 DEF Projects!Register
  <2>2. \A c \in Errand : Answered(c)'
    BY <2>1 DEF ProjectInv, Answered
  <2>3. ProjectType' /\ \A c \in Errand : BarredWait(c)' /\ Discovered(c)'
    BY <1>1 DEF ProjectInv, ProjectType, BarredWait, Discovered,
       Projects!Active, Projects!Register
  <2> QED
    BY <2>2, <2>3 DEF ProjectInv
<1>2. ASSUME NEW c \in Errand, NEW status \in {"ACTIVE", "SUSPENDED"},
             Projects!SetStatus(c, status)
      PROVE  ProjectInv'
  <2> DEFINE bar(d) ==
               /\ call[d].barred
               /\ ~(/\ status = "ACTIVE"
                    /\ call[d].key \in {Projects!ById, project.key})
  <2>1. \A d \in Errand : bar(d) \in BOOLEAN
    BY DEF ProjectInv, ProjectType, Request
  <2>2. \A d \in Errand :
          call'[d] = IF d = c THEN [Projects!Idle EXCEPT !.phase = "over"]
                                  ELSE [call[d] EXCEPT !.barred = bar(d)]
    BY <1>2 DEF Projects!SetStatus
  <2>3. \A d \in Errand : call'[d] \in Request
    <3>1. [Projects!Idle EXCEPT !.phase = "over"] \in Request
      BY IdleRequest, PhaseRequest
    <3>2. \A d \in Errand : [call[d] EXCEPT !.barred = bar(d)] \in Request
      <4> HIDE DEF bar
      <4> QED
        BY <2>1, BarredRequest DEF ProjectInv, ProjectType
    <3> HIDE DEF bar
    <3> QED
      BY <2>2, <3>1, <3>2
  <2>4. ProjectType'
    <3>1. call' = [d \in Errand |-> call'[d]]
      BY <1>2 DEF Projects!SetStatus
    <3>2. call' \in [Errand -> Request]
      BY <2>3, <3>1
    <3> QED
      BY <1>2, <3>2 DEF ProjectInv, ProjectType, Projects!SetStatus
  <2>5. /\ project' = [project EXCEPT !.status = status]
        /\ project'.key = project.key /\ project'.status = status
        /\ registered' = registered /\ users' = users
    BY <1>2 DEF Projects!SetStatus, ProjectInv, ProjectType
  <2>6. ASSUME NEW d \in Errand, d # c
      PROVE  BarredWait(d)' /\ Discovered(d)' /\ Answered(d)'
    <3>0. call'[d] = [call[d] EXCEPT !.barred = bar(d)]
      <4> HIDE DEF bar
      <4> QED
        BY <2>2, <2>6
    <3>1. /\ call'[d].key = call[d].key /\ call'[d].phase = call[d].phase
          /\ call'[d].kind = call[d].kind /\ call'[d].user = call[d].user
          /\ call'[d].work = call[d].work /\ call'[d].blind = call[d].blind
          /\ call'[d].listed = call[d].listed /\ call'[d].known = call[d].known
          /\ call'[d].total = call[d].total /\ call'[d].page = call[d].page
          /\ call'[d].barred = bar(d)
      <4> HIDE DEF bar
      <4> QED
        BY <3>0 DEF ProjectInv, ProjectType, Request
    <3>2. Discovered(d)' /\ Answered(d)'
      BY <2>5, <3>1 DEF ProjectInv, Discovered, Answered
    <3>3. call'[d].barred =>
            /\ call[d].barred
            /\ ~(/\ status = "ACTIVE"
                 /\ call[d].key \in {Projects!ById, project.key})
      BY <3>1
    <3>4. BarredWait(d)'
      BY <2>5, <3>1, <3>3
         DEF ProjectInv, ProjectType, BarredWait, Projects!Active
    <3> QED
      BY <3>2, <3>4
  <2>7. BarredWait(c)' /\ Discovered(c)' /\ Answered(c)'
    <3>1. call'[c] = [Projects!Idle EXCEPT !.phase = "over"]
      BY <2>2
    <3> QED
      BY <2>5, <3>1
         DEF ProjectInv, ProjectType, BarredWait, Discovered, Answered,
             Projects!Idle, Projects!ById, Projects!Unread
  <2> QED
    BY <2>4, <2>6, <2>7 DEF ProjectInv
<1>3. ASSUME NEW c \in Errand, Projects!RegenerateKeys(c) PROVE ProjectInv'
  <2>1. call' = [call EXCEPT ![c] = [Projects!Idle EXCEPT !.phase = "over"]]
    BY <1>3 DEF Projects!RegenerateKeys
  <2>2. /\ project'.key = project.key + 1 /\ project'.status = project.status
        /\ registered' = registered /\ users' = users
        /\ project' \in [status : {"ACTIVE", "SUSPENDED"}, key : Nat]
    BY <1>3 DEF Projects!RegenerateKeys, ProjectInv, ProjectType
  <2>3. [Projects!Idle EXCEPT !.phase = "over"] \in Request
    BY IdleRequest, PhaseRequest
  <2>4. ProjectType'
    BY <2>1, <2>2, <2>3 DEF ProjectInv, ProjectType
  <2>5. ASSUME NEW d \in Errand, d # c
      PROVE  BarredWait(d)' /\ Discovered(d)' /\ Answered(d)'
    <3>1. call'[d] = call[d] /\ call[d].key \in Nat /\ project.key \in Nat
      BY <2>1, <2>5 DEF ProjectInv, ProjectType, Request
    <3>2. Answered(d)'
      BY <3>1 DEF ProjectInv, Answered
    <3>3. BarredWait(d)' /\ Discovered(d)'
      BY <2>2, <3>1
         DEF ProjectInv, BarredWait, Discovered, Projects!Active, Projects!ById
    <3> QED
      BY <3>2, <3>3
  <2>6. BarredWait(c)' /\ Discovered(c)' /\ Answered(c)'
    <3>1. call'[c] = [Projects!Idle EXCEPT !.phase = "over"]
      BY <2>1 DEF ProjectInv, ProjectType
    <3> QED
      BY <2>2, <3>1
         DEF ProjectInv, ProjectType, BarredWait, Discovered, Answered,
             Projects!Idle, Projects!ById, Projects!Unread
  <2> QED
    BY <2>4, <2>5, <2>6 DEF ProjectInv
<1>4. ASSUME NEW c \in Errand, NEW kind \in Projects!Kind,
             NEW x \in External \cup {"none"},
             NEW key \in 0..LastKey, Projects!Ask(c, kind, x, key)
      PROVE  ProjectInv'
  <2> DEFINE bar == ~Projects!Active \/ key \notin {Projects!ById, project.key}
             next == [Projects!Idle EXCEPT !.phase = "project", !.kind = kind,
                          !.user = x, !.key = key, !.barred = bar]
  <2>1. call' = [call EXCEPT ![c] = next]
    BY <1>4 DEF Projects!Ask
  <2>2. bar \in BOOLEAN /\ key \in Nat
    OBVIOUS
  <2>3. next \in Request
    <3> HIDE DEF bar
    <3> QED
      BY <2>2, AskedRequest
  <2>4. CallStep(c, next)
    <3> HIDE DEF next
    <3> QED
      BY <1>4, <2>1, <2>3 DEF Projects!Ask, CallStep, ProjectInv, ProjectType
  <2>5. call'[c] = next
    BY <2>1 DEF ProjectInv, ProjectType
  <2>6. BarredWait(c)'
    <3>1. /\ call'[c].barred = bar /\ call'[c].key = key
          /\ call'[c].phase = "project"
      <4> HIDE DEF bar
      <4> QED
        BY <2>5 DEF Projects!Idle
    <3> QED
      BY <1>4, <3>1 DEF BarredWait, Projects!Ask, Projects!Active, Projects!ById
  <2>7. Discovered(c)'
    <3> HIDE DEF bar
    <3> QED
      BY <1>4, <2>5 DEF Discovered, Projects!Idle, Projects!Kind
  <2>8. Blank(c)'
    <3> HIDE DEF bar
    <3> QED
      BY <2>5 DEF Blank, Projects!Idle, Projects!Unread
  <2> QED
    BY <2>4, <2>6, <2>7, <2>8, CallStepKeeps
<1>5. ASSUME NEW c \in Errand, Projects!FindProject(c) PROVE ProjectInv'
  <2>0. Blank(c)
    BY <1>5 DEF Blank, Answered, ProjectInv, Projects!FindProject
  <2>1. \/ call' = [call EXCEPT ![c] = Projects!Refused]
        \/ /\ call' = [call EXCEPT ![c] = [call[c] EXCEPT !.phase = "upsert",
                                      !.key = 0, !.work[call[c].user] = "look"]]
           /\ ~call[c].barred
           /\ call[c].kind # "directory"
        \/ /\ call' = [call EXCEPT ![c] = [call[c] EXCEPT !.phase = "discover", !.key = 0]]
           /\ ~call[c].barred
           /\ call[c].kind = "directory"
        \/ /\ call' = [call EXCEPT ![c] = [call[c] EXCEPT !.phase = "user", !.key = 0]]
           /\ ~call[c].barred
           /\ call[c].kind # "directory"
    BY <1>5
       DEF Projects!FindProject, ProjectInv, Projects!Admits, Projects!Active,
           Projects!Provision, BarredWait,
           Projects!ById, Projects!ById
  <2>2. CASE call' = [call EXCEPT ![c] = Projects!Refused]
    <3>1. Projects!Refused \in Request
      BY IdleRequest DEF ProjectInv, ProjectType
    <3>2. call'[c] = Projects!Refused
      BY <2>2 DEF ProjectInv, ProjectType
    <3>3. CallStep(c, Projects!Refused)
      BY <1>5, <2>2, <3>1
         DEF CallStep, Projects!FindProject, ProjectInv, ProjectType
    <3>4. call'[c].key <= project.key /\ ~call'[c].barred
      BY <2>2, <3>2
         DEF ProjectInv, ProjectType, Request, BarredWait, Projects!ById,
             Projects!Refused, Projects!Idle
    <3>5. /\ call'[c].phase \in {"refused", "passed"} /\ call'[c].kind = "none"
          /\ call'[c].known = {} /\ Blank(c)'
      BY <3>2 DEF Blank, Projects!Refused, Projects!Idle, Projects!Unread
    <3>6. Discovered(c)'
      BY <1>5, <2>2, <3>3, <3>5
         DEF Projects!FindProject, ProjectInv, Discovered, CallStep
    <3> QED
      BY <3>3, <3>4, <3>5, <3>6, CallStepKeeps DEF BarredWait, CallStep
  <2>3. CASE /\ call' = [call EXCEPT ![c] =
                                [call[c] EXCEPT !.phase = "upsert",
                                      !.key = 0, !.work[call[c].user] = "look"]]
             /\ ~call[c].barred
             /\ call[c].kind # "directory"
    <3>1. [call[c] EXCEPT !.phase = "upsert",
                          !.key = 0, !.work[call[c].user] = "look"] \in Request
      BY AdmittedRequest DEF ProjectInv, ProjectType
    <3>2. call'[c] = [call[c] EXCEPT !.phase = "upsert",
                                     !.key = 0, !.work[call[c].user] = "look"]
      BY <2>3 DEF ProjectInv, ProjectType
    <3>3. CallStep(c, [call[c] EXCEPT !.phase = "upsert",
                                      !.key = 0, !.work[call[c].user] = "look"])
      BY <1>5, <2>3, <3>1
         DEF CallStep, Projects!FindProject, ProjectInv, ProjectType
    <3>4. call'[c].key <= project.key /\ ~call'[c].barred
      BY <2>3, <3>2
         DEF ProjectInv, ProjectType, Request, BarredWait, Projects!ById
    <3>5. /\ call'[c].phase = "upsert" /\ call'[c].kind = call[c].kind
          /\ call'[c].known = call[c].known
          /\ Blank(c)'
      BY <2>0, <3>2 DEF ProjectInv, ProjectType, Request, Blank
    <3>6. Discovered(c)'
      BY <1>5, <2>3, <3>3, <3>5
         DEF Projects!FindProject, ProjectInv, Discovered, CallStep
    <3> QED
      BY <3>3, <3>4, <3>5, <3>6, CallStepKeeps DEF BarredWait, CallStep
  <2>4. CASE /\ call' = [call EXCEPT ![c] =
                                [call[c] EXCEPT !.phase = "discover", !.key = 0]]
             /\ ~call[c].barred
             /\ call[c].kind = "directory"
    <3>1. [call[c] EXCEPT !.phase = "discover", !.key = 0] \in Request
      BY AdmittedRequest DEF ProjectInv, ProjectType
    <3>2. call'[c] = [call[c] EXCEPT !.phase = "discover", !.key = 0]
      BY <2>4 DEF ProjectInv, ProjectType
    <3>3. CallStep(c, [call[c] EXCEPT !.phase = "discover", !.key = 0])
      BY <1>5, <2>4, <3>1
         DEF CallStep, Projects!FindProject, ProjectInv, ProjectType
    <3>4. call'[c].key <= project.key /\ ~call'[c].barred
      BY <2>4, <3>2
         DEF ProjectInv, ProjectType, Request, BarredWait, Projects!ById
    <3>5. /\ call'[c].phase = "discover" /\ call'[c].kind = call[c].kind
          /\ call'[c].known = call[c].known
          /\ call'[c].work = call[c].work
          /\ Blank(c)'
      BY <2>0, <3>2 DEF ProjectInv, ProjectType, Request, Blank
    <3>6. Discovered(c)'
      BY <1>5, <2>4, <3>3, <3>5
         DEF Projects!FindProject, ProjectInv, Discovered, CallStep
    <3> QED
      BY <3>3, <3>4, <3>5, <3>6, CallStepKeeps DEF BarredWait, CallStep
  <2>5. CASE /\ call' = [call EXCEPT ![c] = [call[c] EXCEPT !.phase = "user", !.key = 0]]
             /\ ~call[c].barred
             /\ call[c].kind # "directory"
    <3>1. [call[c] EXCEPT !.phase = "user", !.key = 0] \in Request
      BY AdmittedRequest DEF ProjectInv, ProjectType
    <3>2. call'[c] = [call[c] EXCEPT !.phase = "user", !.key = 0]
      BY <2>5 DEF ProjectInv, ProjectType
    <3>3. CallStep(c, [call[c] EXCEPT !.phase = "user", !.key = 0])
      BY <1>5, <2>5, <3>1
         DEF CallStep, Projects!FindProject, ProjectInv, ProjectType
    <3>4. call'[c].key <= project.key /\ ~call'[c].barred
      BY <2>5, <3>2
         DEF ProjectInv, ProjectType, Request, BarredWait, Projects!ById
    <3>5. /\ call'[c].phase = "user" /\ call'[c].kind = call[c].kind
          /\ call'[c].known = call[c].known
          /\ call'[c].work = call[c].work
          /\ Blank(c)'
      BY <2>0, <3>2 DEF ProjectInv, ProjectType, Request, Blank
    <3>6. Discovered(c)'
      BY <1>5, <2>5, <3>3, <3>5
         DEF Projects!FindProject, ProjectInv, Discovered, CallStep
    <3> QED
      BY <3>3, <3>4, <3>5, <3>6, CallStepKeeps DEF BarredWait, CallStep
  <2> QED
    BY <2>1, <2>2, <2>3, <2>4, <2>5
<1>6. ASSUME NEW c \in Errand, Projects!FindUser(c) PROVE ProjectInv'
  <2>0. Blank(c)
    BY <1>6 DEF Blank, Answered, ProjectInv, Projects!FindUser
  <2>1. \/ /\ call' = [call EXCEPT ![c] = Projects!Passed(c)]
           /\ ~call[c].barred
        \/ /\ call' = [call EXCEPT ![c] = [call[c] EXCEPT !.phase = "upsert",
                                      !.key = 0, !.work[call[c].user] = "look"]]
           /\ ~call[c].barred
           /\ call[c].kind # "directory"
        \/ /\ call' = [call EXCEPT ![c] = [call[c] EXCEPT !.phase = "system"]]
           /\ ~call[c].barred
           /\ call[c].kind # "directory"
        \/ call' = [call EXCEPT ![c] = Projects!Refused]
    BY <1>6
       DEF Projects!FindUser, ProjectInv, Projects!Provision, BarredWait,
           Projects!ById,
           Discovered
  <2>2. CASE /\ call' = [call EXCEPT ![c] = Projects!Passed(c)]
             /\ ~call[c].barred
    <3>1. Projects!Passed(c) \in Request
      BY PassedRequest DEF ProjectInv, ProjectType
    <3>2. call'[c] = Projects!Passed(c)
      BY <2>2 DEF ProjectInv, ProjectType
    <3>3. CallStep(c, Projects!Passed(c))
      BY <1>6, <2>2, <3>1
         DEF CallStep, Projects!FindUser, ProjectInv, ProjectType
    <3>4. call'[c].key <= project.key /\ ~call'[c].barred
      BY <2>2, <3>2
         DEF ProjectInv, ProjectType, Request, BarredWait, Projects!ById,
             Projects!Passed, Projects!Idle
    <3>5. /\ call'[c].phase \in {"refused", "passed"} /\ call'[c].kind = "none"
          /\ call'[c].known = {} /\ Blank(c)'
      BY <3>2 DEF Blank, Projects!Passed, Projects!Idle, Projects!Unread
    <3>6. Discovered(c)'
      BY <1>6, <2>2, <3>3, <3>5
         DEF Projects!FindUser, ProjectInv, Discovered, CallStep
    <3> QED
      BY <3>3, <3>4, <3>5, <3>6, CallStepKeeps DEF BarredWait, CallStep
  <2>3. CASE /\ call' = [call EXCEPT ![c] =
                                [call[c] EXCEPT !.phase = "upsert",
                                      !.key = 0, !.work[call[c].user] = "look"]]
             /\ ~call[c].barred
             /\ call[c].kind # "directory"
    <3>1. [call[c] EXCEPT !.phase = "upsert",
                          !.key = 0, !.work[call[c].user] = "look"] \in Request
      BY AdmittedRequest DEF ProjectInv, ProjectType
    <3>2. call'[c] = [call[c] EXCEPT !.phase = "upsert",
                                     !.key = 0, !.work[call[c].user] = "look"]
      BY <2>3 DEF ProjectInv, ProjectType
    <3>3. CallStep(c, [call[c] EXCEPT !.phase = "upsert",
                                      !.key = 0, !.work[call[c].user] = "look"])
      BY <1>6, <2>3, <3>1
         DEF CallStep, Projects!FindUser, ProjectInv, ProjectType
    <3>4. call'[c].key <= project.key /\ ~call'[c].barred
      BY <2>3, <3>2
         DEF ProjectInv, ProjectType, Request, BarredWait, Projects!ById
    <3>5. /\ call'[c].phase = "upsert" /\ call'[c].kind = call[c].kind
          /\ call'[c].known = call[c].known
          /\ Blank(c)'
      BY <2>0, <3>2 DEF ProjectInv, ProjectType, Request, Blank
    <3>6. Discovered(c)'
      BY <1>6, <2>3, <3>3, <3>5
         DEF Projects!FindUser, ProjectInv, Discovered, CallStep
    <3> QED
      BY <3>3, <3>4, <3>5, <3>6, CallStepKeeps DEF BarredWait, CallStep
  <2>4. CASE /\ call' = [call EXCEPT ![c] = [call[c] EXCEPT !.phase = "system"]]
             /\ ~call[c].barred
             /\ call[c].kind # "directory"
    <3>1. [call[c] EXCEPT !.phase = "system"] \in Request
      BY PhaseRequest DEF ProjectInv, ProjectType
    <3>2. call'[c] = [call[c] EXCEPT !.phase = "system"]
      BY <2>4 DEF ProjectInv, ProjectType
    <3>3. CallStep(c, [call[c] EXCEPT !.phase = "system"])
      BY <1>6, <2>4, <3>1
         DEF CallStep, Projects!FindUser, ProjectInv, ProjectType
    <3>4. call'[c].key <= project.key /\ ~call'[c].barred
      BY <2>4, <3>2
         DEF ProjectInv, ProjectType, Request, BarredWait, Projects!ById
    <3>5. /\ call'[c].phase = "system" /\ call'[c].kind = call[c].kind
          /\ call'[c].known = call[c].known
          /\ call'[c].work = call[c].work
          /\ Blank(c)'
      BY <2>0, <3>2 DEF ProjectInv, ProjectType, Request, Blank
    <3>6. Discovered(c)'
      BY <1>6, <2>4, <3>3, <3>5
         DEF Projects!FindUser, ProjectInv, Discovered, CallStep
    <3> QED
      BY <3>3, <3>4, <3>5, <3>6, CallStepKeeps DEF BarredWait, CallStep
  <2>5. CASE call' = [call EXCEPT ![c] = Projects!Refused]
    <3>1. Projects!Refused \in Request
      BY IdleRequest DEF ProjectInv, ProjectType
    <3>2. call'[c] = Projects!Refused
      BY <2>5 DEF ProjectInv, ProjectType
    <3>3. CallStep(c, Projects!Refused)
      BY <1>6, <2>5, <3>1
         DEF CallStep, Projects!FindUser, ProjectInv, ProjectType
    <3>4. call'[c].key <= project.key /\ ~call'[c].barred
      BY <2>5, <3>2
         DEF ProjectInv, ProjectType, Request, BarredWait, Projects!ById,
             Projects!Refused, Projects!Idle
    <3>5. /\ call'[c].phase \in {"refused", "passed"} /\ call'[c].kind = "none"
          /\ call'[c].known = {} /\ Blank(c)'
      BY <3>2 DEF Blank, Projects!Refused, Projects!Idle, Projects!Unread
    <3>6. Discovered(c)'
      BY <1>6, <2>5, <3>3, <3>5
         DEF Projects!FindUser, ProjectInv, Discovered, CallStep
    <3> QED
      BY <3>3, <3>4, <3>5, <3>6, CallStepKeeps DEF BarredWait, CallStep
  <2> QED
    BY <2>1, <2>2, <2>3, <2>4, <2>5
<1>7. ASSUME NEW c \in Errand, Projects!FindSystemUser(c) PROVE ProjectInv'
  <2>0. Blank(c)
    BY <1>7 DEF Blank, Answered, ProjectInv, Projects!FindSystemUser
  <2>1. \/ /\ call' = [call EXCEPT ![c] = [call[c] EXCEPT !.phase = "upsert",
                                      !.key = 0, !.work[call[c].user] = "look"]]
           /\ ~call[c].barred
           /\ call[c].kind # "directory"
        \/ call' = [call EXCEPT ![c] = Projects!Refused]
    BY <1>7
       DEF Projects!FindSystemUser, ProjectInv, Projects!Provision, BarredWait,
           Projects!ById,
           Discovered
  <2>2. CASE /\ call' = [call EXCEPT ![c] =
                                [call[c] EXCEPT !.phase = "upsert",
                                      !.key = 0, !.work[call[c].user] = "look"]]
             /\ ~call[c].barred
             /\ call[c].kind # "directory"
    <3>1. [call[c] EXCEPT !.phase = "upsert",
                          !.key = 0, !.work[call[c].user] = "look"] \in Request
      BY AdmittedRequest DEF ProjectInv, ProjectType
    <3>2. call'[c] = [call[c] EXCEPT !.phase = "upsert",
                                     !.key = 0, !.work[call[c].user] = "look"]
      BY <2>2 DEF ProjectInv, ProjectType
    <3>3. CallStep(c, [call[c] EXCEPT !.phase = "upsert",
                                      !.key = 0, !.work[call[c].user] = "look"])
      BY <1>7, <2>2, <3>1
         DEF CallStep, Projects!FindSystemUser, ProjectInv, ProjectType
    <3>4. call'[c].key <= project.key /\ ~call'[c].barred
      BY <2>2, <3>2
         DEF ProjectInv, ProjectType, Request, BarredWait, Projects!ById
    <3>5. /\ call'[c].phase = "upsert" /\ call'[c].kind = call[c].kind
          /\ call'[c].known = call[c].known
          /\ Blank(c)'
      BY <2>0, <3>2 DEF ProjectInv, ProjectType, Request, Blank
    <3>6. Discovered(c)'
      BY <1>7, <2>2, <3>3, <3>5
         DEF Projects!FindSystemUser, ProjectInv, Discovered, CallStep
    <3> QED
      BY <3>3, <3>4, <3>5, <3>6, CallStepKeeps DEF BarredWait, CallStep
  <2>3. CASE call' = [call EXCEPT ![c] = Projects!Refused]
    <3>1. Projects!Refused \in Request
      BY IdleRequest DEF ProjectInv, ProjectType
    <3>2. call'[c] = Projects!Refused
      BY <2>3 DEF ProjectInv, ProjectType
    <3>3. CallStep(c, Projects!Refused)
      BY <1>7, <2>3, <3>1
         DEF CallStep, Projects!FindSystemUser, ProjectInv, ProjectType
    <3>4. call'[c].key <= project.key /\ ~call'[c].barred
      BY <2>3, <3>2
         DEF ProjectInv, ProjectType, Request, BarredWait, Projects!ById,
             Projects!Refused, Projects!Idle
    <3>5. /\ call'[c].phase \in {"refused", "passed"} /\ call'[c].kind = "none"
          /\ call'[c].known = {} /\ Blank(c)'
      BY <3>2 DEF Blank, Projects!Refused, Projects!Idle, Projects!Unread
    <3>6. Discovered(c)'
      BY <1>7, <2>3, <3>3, <3>5
         DEF Projects!FindSystemUser, ProjectInv, Discovered, CallStep
    <3> QED
      BY <3>3, <3>4, <3>5, <3>6, CallStepKeeps DEF BarredWait, CallStep
  <2> QED
    BY <2>1, <2>2, <2>3
<1>8. ASSUME NEW c \in Errand, Projects!Reject(c) PROVE ProjectInv'
  <2>1. call' = [call EXCEPT ![c] = Projects!Refused]
    BY <1>8 DEF Projects!Reject, ProjectInv
  <2>2. CASE call' = [call EXCEPT ![c] = Projects!Refused]
    <3>1. Projects!Refused \in Request
      BY IdleRequest DEF ProjectInv, ProjectType
    <3>2. call'[c] = Projects!Refused
      BY <2>2 DEF ProjectInv, ProjectType
    <3>3. CallStep(c, Projects!Refused)
      BY <1>8, <2>2, <3>1 DEF CallStep, Projects!Reject, ProjectInv, ProjectType
    <3>4. call'[c].key <= project.key /\ ~call'[c].barred
      BY <2>2, <3>2
         DEF ProjectInv, ProjectType, Request, BarredWait, Projects!ById,
             Projects!Refused, Projects!Idle
    <3>5. /\ call'[c].phase \in {"refused", "passed"} /\ call'[c].kind = "none"
          /\ call'[c].known = {} /\ Blank(c)'
      BY <3>2 DEF Blank, Projects!Refused, Projects!Idle, Projects!Unread
    <3>6. Discovered(c)'
      BY <1>8, <2>2, <3>3, <3>5
         DEF Projects!Reject, ProjectInv, Discovered, CallStep
    <3> QED
      BY <3>3, <3>4, <3>5, <3>6, CallStepKeeps DEF BarredWait, CallStep
  <2> QED
    BY <2>1, <2>2
<1>9. ASSUME NEW c \in Errand, Projects!Discover(c) PROVE ProjectInv'
  <2>1. PICK found \in SUBSET registered :
          call' = [call EXCEPT ![c] =
             [call[c] EXCEPT !.phase = IF found = {} THEN "ids" ELSE "upsert",
                             !.work = [x \in External |->
                                IF x \in found THEN "look" ELSE "none"]]]
    BY <1>9 DEF Projects!Discover
  <2> DEFINE next == [call[c] EXCEPT
                    !.phase = IF found = {} THEN "ids" ELSE "upsert",
                    !.work = [x \in External |->
                                  IF x \in found THEN "look" ELSE "none"]]
  <2>2. next \in Request
    <3>1. [x \in External |-> IF x \in found THEN "look" ELSE "none"]
             \in [External -> Work]
      BY DEF Work
    <3>2. call[c] \in Request
      BY DEF ProjectInv, ProjectType
    <3> QED
      BY <3>1, <3>2, SearchedRequest
  <2>3. call'[c] = next
    BY <2>1 DEF ProjectInv, ProjectType
  <2>4. CallStep(c, next)
    BY <1>9, <2>1, <2>2 DEF CallStep, Projects!Discover, ProjectInv, ProjectType
  <2>5. /\ call'[c].kind = call[c].kind /\ call'[c].user = call[c].user
        /\ call'[c].key = call[c].key /\ call'[c].barred = call[c].barred
        /\ call'[c].known = call[c].known /\ call'[c].blind = call[c].blind
        /\ call'[c].total = call[c].total /\ call'[c].page = call[c].page
        /\ call'[c].listed = call[c].listed
        /\ call'[c].phase = IF found = {} THEN "ids" ELSE "upsert"
        /\ \A x \in External :
              call'[c].work[x] = IF x \in found THEN "look" ELSE "none"
    BY <2>3 DEF ProjectInv, ProjectType, Request
  <2>6. BarredWait(c)'
    BY <1>9, <2>4, <2>5 DEF BarredWait, CallStep, ProjectInv, Projects!Discover
  <2>7. Discovered(c)'
    <3>1. call[c].phase = "discover" /\ call[c].known \subseteq registered
          /\ call[c].kind = "directory" /\ registered' = registered
          /\ users' = users
      BY <1>9 DEF Projects!Discover, ProjectInv, Discovered
    <3>2. \A x \in External :
            call'[c].work[x] # "none" => x \in found /\ found # {}
      BY <2>5
    <3> HIDE DEF next
    <3> QED
      BY <2>5, <3>1, <3>2 DEF Discovered
  <2>8. Blank(c)'
    BY <1>9, <2>5 DEF Blank, Answered, ProjectInv, Projects!Discover
  <2> QED
    BY <2>4, <2>6, <2>7, <2>8, CallStepKeeps
<1>10. ASSUME NEW c \in Errand, Projects!FindIds(c) PROVE ProjectInv'
  <2> DEFINE next == [call[c] EXCEPT !.phase = "rows", !.known = registered]
  <2>1. call' = [call EXCEPT ![c] = next]
    BY <1>10 DEF Projects!FindIds
  <2>2. next \in Request
    <3>1. call[c] \in Request /\ registered \in SUBSET External
      BY DEF ProjectInv, ProjectType
    <3> QED
      BY <3>1, SearchedRequest
  <2>3. call'[c] = next
    BY <2>1 DEF ProjectInv, ProjectType
  <2>4. CallStep(c, next)
    BY <1>10, <2>1, <2>2 DEF CallStep, Projects!FindIds, ProjectInv, ProjectType
  <2>5. /\ call'[c].kind = call[c].kind /\ call'[c].user = call[c].user
        /\ call'[c].key = call[c].key /\ call'[c].barred = call[c].barred
        /\ call'[c].known = registered /\ call'[c].blind = call[c].blind
        /\ call'[c].phase = "rows" /\ call'[c].work = call[c].work
        /\ call'[c].total = call[c].total /\ call'[c].page = call[c].page
        /\ call'[c].listed = call[c].listed
    BY <2>3 DEF ProjectInv, ProjectType, Request
  <2>6. BarredWait(c)'
    BY <1>10, <2>4, <2>5 DEF BarredWait, CallStep, ProjectInv, Projects!FindIds
  <2>7. Discovered(c)'
    BY <1>10, <2>4, <2>5
       DEF Discovered, CallStep, ProjectInv, ProjectType, Request,
           Projects!FindIds
  <2>8. Answered(c)'
    BY <1>10, <2>5 DEF Answered, ProjectInv, Projects!FindIds
  <2> QED
    BY <2>4, <2>6, <2>7, <2>8, CallStepKeeps
<1>11. ASSUME NEW c \in Errand, Projects!SearchFails(c) PROVE ProjectInv'
  <2> DEFINE next == [call[c] EXCEPT !.phase = "rows", !.blind = TRUE]
  <2>1. call' = [call EXCEPT ![c] = next]
    BY <1>11 DEF Projects!SearchFails
  <2>2. next \in Request
    <3>1. call[c] \in Request
      BY DEF ProjectInv, ProjectType
    <3> QED
      BY <3>1, SearchedRequest
  <2>3. call'[c] = next
    BY <2>1 DEF ProjectInv, ProjectType
  <2>4. CallStep(c, next)
    BY <1>11, <2>1, <2>2
       DEF CallStep, Projects!SearchFails, ProjectInv, ProjectType
  <2>5. /\ call'[c].kind = call[c].kind /\ call'[c].user = call[c].user
        /\ call'[c].key = call[c].key /\ call'[c].barred = call[c].barred
        /\ call'[c].known = call[c].known /\ call'[c].blind = TRUE
        /\ call'[c].phase = "rows" /\ call'[c].work = call[c].work
        /\ call'[c].total = call[c].total /\ call'[c].page = call[c].page
        /\ call'[c].listed = call[c].listed
    BY <2>3 DEF ProjectInv, ProjectType, Request
  <2>6. BarredWait(c)'
    BY <1>11, <2>4, <2>5
       DEF BarredWait, CallStep, ProjectInv, Projects!SearchFails
  <2>7. Discovered(c)'
    BY <1>11, <2>4, <2>5
       DEF Discovered, CallStep, ProjectInv, ProjectType, Request,
           Projects!SearchFails
  <2>8. Answered(c)'
    BY <1>11, <2>5 DEF Answered, ProjectInv, Projects!SearchFails
  <2> QED
    BY <2>4, <2>6, <2>7, <2>8, CallStepKeeps
<1>12. ASSUME NEW c \in Errand, Projects!Count(c) PROVE ProjectInv'
  BY <1>12, CountKeeps
<1>13. ASSUME NEW c \in Errand, NEW page \in 1..LastPage,
              Projects!FindRows(c, page)
       PROVE  ProjectInv'
  BY <1>13, FindRowsKeeps
<1>14. ASSUME NEW c \in Errand, NEW x \in External, Projects!Look(c, x)
       PROVE  ProjectInv'
  <2>1. CASE x \in users
    <3>1. call' = [call EXCEPT ![c] = Projects!Done(c, x)]
      BY <1>14, <2>1 DEF Projects!Look
    <3> QED
      BY <1>14, <2>1, <3>1, DoneKeeps DEF Projects!Look, ProjectInv, ProjectType
  <2>2. CASE x \notin users
    <3> DEFINE next == [call[c] EXCEPT !.work[x] = "insert"]
    <3>1. call' = [call EXCEPT ![c] = next]
      BY <1>14, <2>2 DEF Projects!Look
    <3>2. next \in Request
      BY SMTT(30) DEF ProjectInv, ProjectType, Request, Work
    <3>3. CallStep(c, next)
      BY <1>14, <3>1, <3>2 DEF CallStep, Projects!Look, ProjectInv, ProjectType
    <3>4. call'[c] = next
      BY <3>1 DEF ProjectInv, ProjectType
    <3>5. /\ call'[c].kind = call[c].kind /\ call'[c].user = call[c].user
          /\ call'[c].key = call[c].key /\ call'[c].barred = call[c].barred
          /\ call'[c].known = call[c].known /\ call'[c].blind = call[c].blind
          /\ call'[c].phase = call[c].phase /\ call'[c].listed = call[c].listed
          /\ call'[c].total = call[c].total /\ call'[c].page = call[c].page
          /\ \A y \in External :
                call'[c].work[y] = IF y = x THEN "insert" ELSE call[c].work[y]
      BY <3>4 DEF ProjectInv, ProjectType, Request
    <3>6. BarredWait(c)'
      BY <3>3, <3>5 DEF BarredWait, CallStep, ProjectInv, Projects!Active
    <3>7. Discovered(c)'
      BY <1>14, <3>3, <3>5 DEF Discovered, CallStep, ProjectInv, Projects!Look
    <3>8. Answered(c)'
      <4>1. \A y \in External : call'[c].work[y] # "none" <=>
                                 call[c].work[y] # "none"
        BY <1>14, <3>5 DEF Projects!Look
      <4>2. {y \in External : call'[c].work[y] # "none"} =
            {y \in External : call[c].work[y] # "none"}
        BY <4>1
      <4> QED
        BY <3>5, <4>2 DEF Answered, ProjectInv
    <3> QED
      BY <3>3, <3>6, <3>7, <3>8, CallStepKeeps
  <2> QED
    BY <2>1, <2>2
<1>15. ASSUME NEW c \in Errand, NEW x \in External, Projects!Insert(c, x)
       PROVE  ProjectInv'
  BY <1>15, DoneKeeps DEF Projects!Insert, ProjectInv, ProjectType
<1>16. ASSUME NEW c \in Errand, NEW x \in External, Projects!UpsertFails(c, x)
       PROVE  ProjectInv'
  <2>0. /\ call[c].work[x] \in {"look", "insert"}
        /\ UNCHANGED <<project, registered, users>>
    BY <1>16 DEF Projects!UpsertFails, Projects!Working
  <2>1. CASE call[c].kind # "directory"
    <3>1. call' = [call EXCEPT ![c] = Projects!Refused]
      BY <1>16, <2>1 DEF Projects!UpsertFails
    <3>2. CallStep(c, Projects!Refused)
      BY <2>0, <3>1, IdleRequest DEF CallStep, ProjectInv, ProjectType
    <3>3. call'[c] = Projects!Refused
      BY <3>1 DEF ProjectInv, ProjectType
    <3>4. /\ call'[c].phase = "refused" /\ call'[c].kind = "none"
          /\ call'[c].known = {} /\ call'[c].key = 0 /\ ~call'[c].barred
          /\ Blank(c)'
      BY <3>3
         DEF Blank, Projects!Refused, Projects!Idle, Projects!ById,
             Projects!Unread
    <3>5. BarredWait(c)' /\ Discovered(c)'
      BY <3>2, <3>4
         DEF BarredWait, Discovered, CallStep, ProjectInv, ProjectType
    <3> QED
      BY <3>2, <3>4, <3>5, CallStepKeeps
  <2>2. CASE call[c].kind = "directory"
    <3> DEFINE phase == IF call[c].phase = "upsert" THEN "rows"
                        ELSE call[c].phase
               next == [call[c] EXCEPT !.work[x] = "failed", !.blind = TRUE,
                                       !.phase = phase]
    <3>1. call' = [call EXCEPT ![c] = next]
      BY <1>16, <2>2 DEF Projects!UpsertFails
    <3>2. next \in Request
      <4>1. call[c] \in Request
        BY DEF ProjectInv, ProjectType
      <4>2. phase \in {"idle", "over", "refused", "passed", "project", "user",
                       "system", "upsert", "discover", "ids", "rows", "listed"}
        BY <4>1 DEF Request
      <4> QED
        BY <4>1, <4>2, SearchedRequest
    <3>3. CallStep(c, next)
      BY <2>0, <3>1, <3>2 DEF CallStep, ProjectInv, ProjectType
    <3>4. call'[c] = next
      BY <3>1 DEF ProjectInv, ProjectType
    <3>5. /\ call'[c].kind = call[c].kind /\ call'[c].user = call[c].user
          /\ call'[c].key = call[c].key /\ call'[c].barred = call[c].barred
          /\ call'[c].known = call[c].known /\ call'[c].blind = TRUE
          /\ call'[c].phase = phase /\ call'[c].listed = call[c].listed
          /\ call'[c].total = call[c].total /\ call'[c].page = call[c].page
          /\ \A y \in External :
                call'[c].work[y] = IF y = x THEN "failed" ELSE call[c].work[y]
      BY <3>4 DEF ProjectInv, ProjectType, Request
    <3>6. BarredWait(c)'
      BY <2>0, <3>3, <3>5
         DEF BarredWait, Discovered, CallStep, ProjectInv, Projects!Active
    <3>7. Discovered(c)'
      BY <2>0, <2>2, <3>3, <3>5 DEF Discovered, CallStep, ProjectInv
    <3>8. Answered(c)'
      BY <3>5 DEF Answered, ProjectInv
    <3> QED
      BY <3>3, <3>6, <3>7, <3>8, CallStepKeeps
  <2> QED
    BY <2>1, <2>2
<1>17. CASE UNCHANGED Projects!vars
  BY <1>17
     DEF Projects!vars, ProjectInv, ProjectType, BarredWait, Discovered, Answered,
         Projects!Active
<1> QED
  BY <1>1, <1>2, <1>3, <1>4, <1>5, <1>6, <1>7, <1>8, <1>9, <1>10, <1>11, <1>12,
     <1>13, <1>14, <1>15, <1>16, <1>17 DEF Projects!Next

LEMMA ProjectInvariant == Projects!Spec => []ProjectInv
<1>1. Projects!Init => ProjectInv
  <2> SUFFICES ASSUME Projects!Init PROVE ProjectInv
    OBVIOUS
  <2>1. ProjectType
    BY IdleRequest DEF Projects!Init, ProjectType
  <2>2. \A c \in Errand : /\ call[c].known = {} /\ call[c].phase = "idle"
                     /\ call[c].kind = "none" /\ call[c].key = 0
                     /\ ~call[c].barred /\ Blank(c)
    BY DEF Projects!Init, Projects!Idle, Projects!ById, Projects!Unread, Blank
  <2>3. project.key = 1
    BY DEF Projects!Init
  <2> QED
    BY <2>1, <2>2, <2>3
       DEF ProjectInv, BarredWait, Discovered, Answered, Blank
<1>2. ProjectInv /\ [Projects!Next]_(Projects!vars) => ProjectInv'
  BY ProjectAssumption, ProjectNext
<1> QED
  BY <1>1, <1>2, PTL DEF Projects!Spec

(* Whatever requests run at once, nobody who began with a replaced key, or *)
(* while the project was suspended, is let in before it is active again.   *)
THEOREM RevokedAreRefused == Projects!Spec => []RevokedIsRefused
<1>1. ProjectInv => RevokedIsRefused
  BY DEF ProjectInv, BarredWait, RevokedIsRefused, Projects!RevokedIsRefused
<1> QED
  BY <1>1, ProjectInvariant, PTL

(* Whatever registrations, guards and upserts run while a directory is made*)
(* up, it lists registered users, counts all that its discovery found, and *)
(* leaves none of them out of a first page with room for more - but for the*)
(* one who asks, and unless the discovery failed or nobody was registered. *)
THEOREM DirectoriesRegistered == Projects!Spec => []DirectoryIsRegistered
<1>1. ProjectInv => DirectoryIsRegistered
  BY ProjectsCounts
     DEF ProjectInv, Discovered, Answered, DirectoryIsRegistered,
         Projects!DirectoryIsRegistered
<1> QED
  BY <1>1, ProjectInvariant, PTL

-----------------------------------------------------------------------------
(* Start.                                                                  *)

Boot == [phase : {"none", "pending", "find", "slug", "create", "import",
                  "ready", "rejected"},
         left : SUBSET Starts!Hook, slug : Starts!Slug \cup {"none"},
         auth : BOOLEAN, knew : BOOLEAN, hurt : BOOLEAN]

StartType ==
    /\ default \in Starts!Slug \cup {"none"}
    /\ boot \in [Process -> Boot]

(* What a process has is there, and it creates the default project only if *)
(* that was not there when its bootstrap began.                            *)
Bootstrapped(p) ==
    /\ "project" \notin boot[p].left => Starts!Exists
    /\ "auth" \notin boot[p].left => boot[p].auth
    /\ boot[p].phase = "ready" => boot[p].left = {}
    /\ boot[p].knew => Starts!Exists
    /\ boot[p].phase \in {"slug", "create"} => ~boot[p].knew
    /\ boot[p].phase = "create" => boot[p].slug \in Starts!Slug
    /\ boot[p].phase = "rejected" /\ ~boot[p].hurt => ~boot[p].knew

StartInv ==
    /\ StartType
    /\ \A p \in Process : Bootstrapped(p)

(* A step of one process; the default project stays.                       *)
BootStep(p, next) ==
    /\ next \in Boot
    /\ boot' = [boot EXCEPT ![p] = next]
    /\ default' \in Starts!Slug \cup {"none"}
    /\ Starts!Exists => default' = default

LEMMA BootStepKeeps ==
    ASSUME StartInv, NEW p \in Process, NEW next, BootStep(p, next),
           Bootstrapped(p)'
    PROVE  StartInv'
<1>1. StartType'
  BY DEF StartInv, StartType, BootStep
<1>2. ASSUME NEW q \in Process, q # p
      PROVE  Bootstrapped(q)'
  <2>1. boot'[q] = boot[q]
    BY <1>2 DEF BootStep, StartInv, StartType
  <2> QED
    BY <2>1 DEF StartInv, BootStep, Bootstrapped, Starts!Exists
<1> QED
  BY <1>1, <1>2 DEF StartInv

LEMMA StartNext ==
    ASSUME StartInv, [Starts!Next]_(Starts!vars)
    PROVE  StartInv'
<1> USE DEF Starts!Go, Starts!Through
<1>1. ASSUME NEW p \in Process, NEW h \in Starts!Hook, Starts!StartHook(p, h)
      PROVE  StartInv'
  <2>1. \/ boot' = [boot EXCEPT ![p] = [boot[p] EXCEPT !.phase = "find"]]
        \/ boot' = [boot EXCEPT ![p] = [boot[p] EXCEPT !.phase = "import"]]
    BY <1>1 DEF Starts!StartHook, StartInv, StartType, Boot
  <2>2. CASE boot' = [boot EXCEPT ![p] = [boot[p] EXCEPT !.phase = "find"]]
    <3> DEFINE next == [boot[p] EXCEPT !.phase = "find"]
    <3>1. next \in Boot
      BY DEF StartInv, StartType, Boot, Starts!Hook, Starts!Slug
    <3>2. BootStep(p, next)
      BY <1>1, <2>2, <3>1
         DEF Starts!StartHook, BootStep, StartInv, StartType, Boot
    <3>3. boot'[p] = next
      BY <2>2 DEF StartInv, StartType
    <3>4. Bootstrapped(p)
      BY DEF StartInv
    <3>5. Bootstrapped(p)'
      BY <1>1, <2>2, <3>3, <3>4
         DEF Starts!StartHook, StartInv, StartType, Boot, Bootstrapped,
             Starts!Exists, Starts!Hook, Starts!Slug
    <3> QED
      BY <3>2, <3>5, BootStepKeeps
  <2>3. CASE boot' = [boot EXCEPT ![p] = [boot[p] EXCEPT !.phase = "import"]]
    <3> DEFINE next == [boot[p] EXCEPT !.phase = "import"]
    <3>1. next \in Boot
      BY DEF StartInv, StartType, Boot, Starts!Hook, Starts!Slug
    <3>2. BootStep(p, next)
      BY <1>1, <2>3, <3>1
         DEF Starts!StartHook, BootStep, StartInv, StartType, Boot
    <3>3. boot'[p] = next
      BY <2>3 DEF StartInv, StartType
    <3>4. Bootstrapped(p)
      BY DEF StartInv
    <3>5. Bootstrapped(p)'
      BY <1>1, <2>3, <3>3, <3>4
         DEF Starts!StartHook, StartInv, StartType, Boot, Bootstrapped,
             Starts!Exists, Starts!Hook, Starts!Slug
    <3> QED
      BY <3>2, <3>5, BootStepKeeps
  <2> QED
    BY <2>1, <2>2, <2>3
<1>2. ASSUME NEW p \in Process, Starts!FindDefault(p) PROVE StartInv'
  <2>1. \/ /\ boot' = [boot EXCEPT ![p] =
                              [boot[p] EXCEPT !.phase = "pending", !.left = @ \ {"project"}]]
           /\ Starts!Exists
        \/ /\ boot' = [boot EXCEPT ![p] = [boot[p] EXCEPT !.phase = "slug"]]
           /\ ~Starts!Exists
    BY <1>2 DEF Starts!FindDefault, StartInv, StartType, Boot
  <2>2. CASE /\ boot' = [boot EXCEPT ![p] =
                                [boot[p] EXCEPT !.phase = "pending", !.left = @ \ {"project"}]]
             /\ Starts!Exists
    <3> DEFINE next == [boot[p] EXCEPT !.phase = "pending",
                                       !.left = @ \ {"project"}]
    <3>1. next \in Boot
      BY DEF StartInv, StartType, Boot, Starts!Hook, Starts!Slug
    <3>2. BootStep(p, next)
      BY <1>2, <2>2, <3>1
         DEF Starts!FindDefault, BootStep, StartInv, StartType, Boot
    <3>3. boot'[p] = next
      BY <2>2 DEF StartInv, StartType
    <3>4. Bootstrapped(p)
      BY DEF StartInv
    <3>5. Bootstrapped(p)'
      BY <1>2, <2>2, <3>3, <3>4
         DEF Starts!FindDefault, StartInv, StartType, Boot, Bootstrapped,
             Starts!Exists, Starts!Hook, Starts!Slug
    <3> QED
      BY <3>2, <3>5, BootStepKeeps
  <2>3. CASE /\ boot' = [boot EXCEPT ![p] = [boot[p] EXCEPT !.phase = "slug"]]
             /\ ~Starts!Exists
    <3> DEFINE next == [boot[p] EXCEPT !.phase = "slug"]
    <3>1. next \in Boot
      BY DEF StartInv, StartType, Boot, Starts!Hook, Starts!Slug
    <3>2. BootStep(p, next)
      BY <1>2, <2>3, <3>1
         DEF Starts!FindDefault, BootStep, StartInv, StartType, Boot
    <3>3. boot'[p] = next
      BY <2>3 DEF StartInv, StartType
    <3>4. Bootstrapped(p)
      BY DEF StartInv
    <3>5. Bootstrapped(p)'
      BY <1>2, <2>3, <3>3, <3>4
         DEF Starts!FindDefault, StartInv, StartType, Boot, Bootstrapped,
             Starts!Exists, Starts!Hook, Starts!Slug
    <3> QED
      BY <3>2, <3>5, BootStepKeeps
  <2> QED
    BY <2>1, <2>2, <2>3
<1>3. ASSUME NEW p \in Process, Starts!ChooseSlug(p) PROVE StartInv'
  <2>1. \/ boot' = [boot EXCEPT ![p] = [boot[p] EXCEPT !.phase = "create",
                                                       !.slug = "plain"]]
        \/ boot' = [boot EXCEPT ![p] = [boot[p] EXCEPT !.phase = "create",
                                                       !.slug = "suffixed"]]
    BY <1>3 DEF Starts!ChooseSlug, StartInv, StartType, Boot
  <2>2. CASE boot' = [boot EXCEPT ![p] = [boot[p] EXCEPT !.phase = "create",
                                                         !.slug = "plain"]]
    <3> DEFINE next == [boot[p] EXCEPT !.phase = "create", !.slug = "plain"]
    <3>1. next \in Boot
      BY DEF StartInv, StartType, Boot, Starts!Hook, Starts!Slug
    <3>2. BootStep(p, next)
      BY <1>3, <2>2, <3>1
         DEF Starts!ChooseSlug, BootStep, StartInv, StartType, Boot
    <3>3. boot'[p] = next
      BY <2>2 DEF StartInv, StartType
    <3>4. Bootstrapped(p)
      BY DEF StartInv
    <3>5. Bootstrapped(p)'
      BY <1>3, <2>2, <3>3, <3>4
         DEF Starts!ChooseSlug, StartInv, StartType, Boot, Bootstrapped,
             Starts!Exists, Starts!Hook, Starts!Slug
    <3> QED
      BY <3>2, <3>5, BootStepKeeps
  <2>3. CASE boot' = [boot EXCEPT ![p] = [boot[p] EXCEPT !.phase = "create",
                                                         !.slug = "suffixed"]]
    <3> DEFINE next == [boot[p] EXCEPT !.phase = "create", !.slug = "suffixed"]
    <3>1. next \in Boot
      BY DEF StartInv, StartType, Boot, Starts!Hook, Starts!Slug
    <3>2. BootStep(p, next)
      BY <1>3, <2>3, <3>1
         DEF Starts!ChooseSlug, BootStep, StartInv, StartType, Boot
    <3>3. boot'[p] = next
      BY <2>3 DEF StartInv, StartType
    <3>4. Bootstrapped(p)
      BY DEF StartInv
    <3>5. Bootstrapped(p)'
      BY <1>3, <2>3, <3>3, <3>4
         DEF Starts!ChooseSlug, StartInv, StartType, Boot, Bootstrapped,
             Starts!Exists, Starts!Hook, Starts!Slug
    <3> QED
      BY <3>2, <3>5, BootStepKeeps
  <2> QED
    BY <2>1, <2>2, <2>3
<1>4. ASSUME NEW p \in Process, Starts!CreateDefault(p) PROVE StartInv'
  <2>1. \/ /\ boot' = [boot EXCEPT ![p] = [boot[p] EXCEPT !.phase = "rejected"]]
           /\ default' = default
        \/ /\ boot' = [boot EXCEPT ![p] =
                              [boot[p] EXCEPT !.phase = "pending", !.left = @ \ {"project"}]]
           /\ default' = boot[p].slug
           /\ ~Starts!Exists
    BY <1>4
       DEF Starts!CreateDefault, StartInv, StartType, Boot, Starts!Exists,
           Bootstrapped
  <2>2. CASE /\ boot' = [boot EXCEPT ![p] =
                                [boot[p] EXCEPT !.phase = "rejected"]]
             /\ default' = default
    <3> DEFINE next == [boot[p] EXCEPT !.phase = "rejected"]
    <3>1. next \in Boot
      BY DEF StartInv, StartType, Boot, Starts!Hook, Starts!Slug
    <3>2. BootStep(p, next)
      BY <1>4, <2>2, <3>1
         DEF Starts!CreateDefault, BootStep, StartInv, StartType, Boot,
             Starts!Exists, Bootstrapped
    <3>3. boot'[p] = next
      BY <2>2 DEF StartInv, StartType
    <3>4. Bootstrapped(p)
      BY DEF StartInv
    <3>5. Bootstrapped(p)'
      BY <1>4, <2>2, <3>3, <3>4
         DEF Starts!CreateDefault, StartInv, StartType, Boot, Bootstrapped,
             Starts!Exists, Starts!Hook, Starts!Slug
    <3> QED
      BY <3>2, <3>5, BootStepKeeps
  <2>3. CASE /\ boot' = [boot EXCEPT ![p] =
                                [boot[p] EXCEPT !.phase = "pending", !.left = @ \ {"project"}]]
             /\ default' = boot[p].slug
             /\ ~Starts!Exists
    <3> DEFINE next == [boot[p] EXCEPT !.phase = "pending",
                                       !.left = @ \ {"project"}]
    <3>1. next \in Boot
      BY DEF StartInv, StartType, Boot, Starts!Hook, Starts!Slug
    <3>2. BootStep(p, next)
      BY <1>4, <2>3, <3>1
         DEF Starts!CreateDefault, BootStep, StartInv, StartType, Boot,
             Starts!Exists, Bootstrapped
    <3>3. boot'[p] = next
      BY <2>3 DEF StartInv, StartType
    <3>4. Bootstrapped(p)
      BY DEF StartInv
    <3>5. Bootstrapped(p)'
      BY <1>4, <2>3, <3>3, <3>4
         DEF Starts!CreateDefault, StartInv, StartType, Boot, Bootstrapped,
             Starts!Exists, Starts!Hook, Starts!Slug
    <3> QED
      BY <3>2, <3>5, BootStepKeeps
  <2> QED
    BY <2>1, <2>2, <2>3
<1>5. ASSUME NEW p \in Process, Starts!BuildAuth(p) PROVE StartInv'
  <2>1. boot' = [boot EXCEPT ![p] = [boot[p] EXCEPT !.phase = "pending",
                                                    !.left = @ \ {"auth"}, !.auth = TRUE]]
    BY <1>5 DEF Starts!BuildAuth, StartInv, StartType, Boot
  <2>2. CASE boot' = [boot EXCEPT ![p] = [boot[p] EXCEPT !.phase = "pending",
                                                         !.left = @ \ {"auth"}, !.auth = TRUE]]
    <3> DEFINE next == [boot[p] EXCEPT !.phase = "pending",
                                       !.left = @ \ {"auth"}, !.auth = TRUE]
    <3>1. next \in Boot
      BY DEF StartInv, StartType, Boot, Starts!Hook, Starts!Slug
    <3>2. BootStep(p, next)
      BY <1>5, <2>2, <3>1
         DEF Starts!BuildAuth, BootStep, StartInv, StartType, Boot
    <3>3. boot'[p] = next
      BY <2>2 DEF StartInv, StartType
    <3>4. Bootstrapped(p)
      BY DEF StartInv
    <3>5. Bootstrapped(p)'
      BY <1>5, <2>2, <3>3, <3>4
         DEF Starts!BuildAuth, StartInv, StartType, Boot, Bootstrapped,
             Starts!Exists, Starts!Hook, Starts!Slug
    <3> QED
      BY <3>2, <3>5, BootStepKeeps
  <2> QED
    BY <2>1, <2>2
<1>6. ASSUME NEW p \in Process, Starts!BootFails(p) PROVE StartInv'
  <2>1. boot' = [boot EXCEPT ![p] = [boot[p] EXCEPT !.phase = "rejected",
                                                    !.hurt = TRUE]]
    BY <1>6 DEF Starts!BootFails, StartInv, StartType, Boot
  <2>2. CASE boot' = [boot EXCEPT ![p] =
                             [boot[p] EXCEPT !.phase = "rejected", !.hurt = TRUE]]
    <3> DEFINE next == [boot[p] EXCEPT !.phase = "rejected", !.hurt = TRUE]
    <3>1. next \in Boot
      BY DEF StartInv, StartType, Boot, Starts!Hook, Starts!Slug
    <3>2. BootStep(p, next)
      BY <1>6, <2>2, <3>1
         DEF Starts!BootFails, BootStep, StartInv, StartType, Boot
    <3>3. boot'[p] = next
      BY <2>2 DEF StartInv, StartType
    <3>4. Bootstrapped(p)
      BY DEF StartInv
    <3>5. Bootstrapped(p)'
      BY <1>6, <2>2, <3>3, <3>4
         DEF Starts!BootFails, StartInv, StartType, Boot, Bootstrapped,
             Starts!Exists, Starts!Hook, Starts!Slug
    <3> QED
      BY <3>2, <3>5, BootStepKeeps
  <2> QED
    BY <2>1, <2>2
<1>7. ASSUME NEW p \in Process, Starts!Listen(p) PROVE StartInv'
  <2>1. boot' = [boot EXCEPT ![p] = [boot[p] EXCEPT !.phase = "ready"]]
    BY <1>7 DEF Starts!Listen, StartInv, StartType, Boot
  <2>2. CASE boot' = [boot EXCEPT ![p] = [boot[p] EXCEPT !.phase = "ready"]]
    <3> DEFINE next == [boot[p] EXCEPT !.phase = "ready"]
    <3>1. next \in Boot
      BY DEF StartInv, StartType, Boot, Starts!Hook, Starts!Slug
    <3>2. BootStep(p, next)
      BY <1>7, <2>2, <3>1 DEF Starts!Listen, BootStep, StartInv, StartType, Boot
    <3>3. boot'[p] = next
      BY <2>2 DEF StartInv, StartType
    <3>4. Bootstrapped(p)
      BY DEF StartInv
    <3>5. Bootstrapped(p)'
      BY <1>7, <2>2, <3>3, <3>4
         DEF Starts!Listen, StartInv, StartType, Boot, Bootstrapped,
             Starts!Exists, Starts!Hook, Starts!Slug
    <3> QED
      BY <3>2, <3>5, BootStepKeeps
  <2> QED
    BY <2>1, <2>2
<1>8. ASSUME NEW p \in Process, Starts!Recycle(p) PROVE StartInv'
  <2>1. boot' = [boot EXCEPT ![p] = Starts!Cold]
    BY <1>8 DEF Starts!Recycle, StartInv, StartType, Boot, Starts!Cold
  <2>2. CASE boot' = [boot EXCEPT ![p] = Starts!Cold]
    <3> DEFINE next == Starts!Cold
    <3>1. next \in Boot
      BY DEF StartInv, StartType, Boot, Starts!Hook, Starts!Slug, Starts!Cold
    <3>2. BootStep(p, next)
      BY <1>8, <2>2, <3>1
         DEF Starts!Recycle, BootStep, StartInv, StartType, Boot, Starts!Cold
    <3>3. boot'[p] = next
      BY <2>2 DEF StartInv, StartType
    <3>4. Bootstrapped(p)
      BY DEF StartInv
    <3>5. Bootstrapped(p)'
      BY <1>8, <2>2, <3>3, <3>4
         DEF Starts!Recycle, StartInv, StartType, Boot, Bootstrapped,
             Starts!Exists, Starts!Hook, Starts!Slug, Starts!Cold
    <3> QED
      BY <3>2, <3>5, BootStepKeeps
  <2> QED
    BY <2>1, <2>2
<1>9. ASSUME NEW r \in Op, NEW p \in Process, Starts!Handle(r, p)
      PROVE  StartInv'
  <2>1. CASE boot' = boot
    BY <1>9, <2>1
       DEF Starts!Handle, StartInv, StartType, Bootstrapped, Starts!Exists
  <2>2. CASE boot[p].phase = "none" /\ Starts!Exists
    <3> DEFINE next == [boot[p] EXCEPT !.phase = "pending", !.knew = TRUE]
    <3>1. boot' = [boot EXCEPT ![p] = next]
      <4>1. boot' = [boot EXCEPT ![p].phase = "pending", ![p].knew = Starts!Exists]
        BY <1>9, <2>2 DEF Starts!Handle
      <4>2. Starts!Exists = TRUE
        BY <2>2 DEF Starts!Exists
      <4> QED
        BY <4>1, <4>2 DEF StartInv, StartType, Boot
    <3>2. next \in Boot
      BY DEF StartInv, StartType, Boot
    <3>3. BootStep(p, next)
      BY <1>9, <3>1, <3>2 DEF Starts!Handle, BootStep, StartInv, StartType
    <3>4. boot'[p] = next
      BY <3>1 DEF StartInv, StartType
    <3>5. Bootstrapped(p)'
      BY <1>9, <2>2, <3>4
         DEF Starts!Handle, StartInv, StartType, Boot, Bootstrapped,
             Starts!Exists
    <3> QED
      BY <3>3, <3>5, BootStepKeeps
  <2>3. CASE boot[p].phase = "none" /\ ~Starts!Exists
    <3> DEFINE next == [boot[p] EXCEPT !.phase = "pending", !.knew = FALSE]
    <3>1. boot' = [boot EXCEPT ![p] = next]
      <4>1. boot' = [boot EXCEPT ![p].phase = "pending", ![p].knew = Starts!Exists]
        BY <1>9, <2>3 DEF Starts!Handle
      <4>2. Starts!Exists = FALSE
        BY <2>3 DEF Starts!Exists
      <4> QED
        BY <4>1, <4>2 DEF StartInv, StartType, Boot
    <3>2. next \in Boot
      BY DEF StartInv, StartType, Boot
    <3>3. BootStep(p, next)
      BY <1>9, <3>1, <3>2 DEF Starts!Handle, BootStep, StartInv, StartType
    <3>4. boot'[p] = next
      BY <3>1 DEF StartInv, StartType
    <3>5. Bootstrapped(p)'
      BY <1>9, <2>3, <3>4
         DEF Starts!Handle, StartInv, StartType, Boot, Bootstrapped,
             Starts!Exists
    <3> QED
      BY <3>3, <3>5, BootStepKeeps
  <2> QED
    BY <1>9, <2>1, <2>2, <2>3 DEF Starts!Handle
<1>10. CASE UNCHANGED <<default, boot>>
  BY <1>10 DEF StartInv, StartType, Bootstrapped, Starts!Exists
<1> QED
  BY <1>1, <1>2, <1>3, <1>4, <1>5, <1>6, <1>7, <1>8, <1>9, <1>10
     DEF Starts!Next, Starts!vars, Starts!FindSlug, Starts!CreateProject,
         Starts!Answer

(* However many processes start at once, and whatever slugs other projects *)
(* take meanwhile, one that serves has what it needs, and one that calls   *)
(* do not fail starts, but for a race for the very first start.            *)
THEOREM StartsAreSound == Starts!Spec => []StartIsSound
<1>1. Starts!Init => StartInv
  <2> SUFFICES ASSUME Starts!Init PROVE StartInv
    OBVIOUS
  <2>1. Starts!Cold \in Boot
    BY DEF Starts!Cold, Boot
  <2>2. StartType
    BY <2>1 DEF Starts!Init, StartType
  <2>3. ASSUME NEW p \in Process PROVE Bootstrapped(p)
    <3>1. boot[p] = Starts!Cold
      BY DEF Starts!Init
    <3> QED
      BY <3>1 DEF Bootstrapped, Starts!Cold, Starts!Hook
  <2> QED
    BY <2>2, <2>3 DEF StartInv
<1>2. StartInv => StartIsSound
  BY DEF StartInv, Bootstrapped, StartIsSound, Starts!StartIsSound
<1> QED
  BY <1>1, <1>2, StartNext, PTL DEF Starts!Spec

-----------------------------------------------------------------------------
(* Mail transport.                                                         *)

MailType ==
    /\ env \in Mails!Environment
    /\ compiled \in BOOLEAN
    /\ caller \in [Mail -> {"idle", "waiting", "true", "false", "threw"}]
    /\ job \in [Mail -> {"none", "request", "smtp", "ok", "error"}]
    /\ accepted \in [Mail -> 0..1]

(* What the server took, by where the delivery stands, *)
DeliveryTrue(m) ==
    /\ caller[m] = "idle" => job[m] = "none" /\ accepted[m] = 0
    /\ job[m] \in {"request", "smtp"} => accepted[m] = 0
    /\ job[m] = "ok" => accepted[m] = 1
    /\ job[m] = "error" /\ m \notin unheard => accepted[m] = 0

(* and what the caller makes of it. *)
CallerTrue(m) ==
    /\ caller[m] = "true" /\ ~env.test => accepted[m] = 1
    /\ caller[m] \in {"true", "threw"} => job[m] = "none"
    /\ caller[m] \in {"false", "threw"} /\ m \notin unheard =>
          accepted[m] = 0 /\ job[m] = "none"

MailInv ==
    /\ MailType
    /\ \A m \in Mail : DeliveryTrue(m) /\ CallerTrue(m)

(* A step of one mail, whatever it does, leaves the others alone. *)
MailStep(m) ==
    /\ MailType'
    /\ env' = env
    /\ \A n \in Mail \ {m} :
          /\ caller'[n] = caller[n] /\ job'[n] = job[n]
          /\ accepted'[n] = accepted[n]
          /\ n \in unheard' <=> n \in unheard

LEMMA MailStepKeeps ==
    ASSUME MailInv, NEW m \in Mail, MailStep(m),
           DeliveryTrue(m)', CallerTrue(m)'
    PROVE  MailInv'
<1>1. ASSUME NEW n \in Mail, n # m
      PROVE  DeliveryTrue(n)' /\ CallerTrue(n)'
  BY <1>1 DEF MailInv, MailStep, DeliveryTrue, CallerTrue
<1> QED
  BY <1>1 DEF MailInv, MailStep

LEMMA MailNext ==
    ASSUME MailInv, [Mails!Next]_(Mails!vars)
    PROVE  MailInv'
<1> USE DEF DeliveryTrue, CallerTrue
<1>1. ASSUME NEW m \in Mail, Mails!SendMail(m) PROVE MailInv'
  <2>1. compiled' \in BOOLEAN
    <3>1. compiled' = (compiled \/ env.onDisk)
      BY <1>1 DEF Mails!SendMail, Mails!Rendered
    <3> QED
      BY <3>1 DEF MailInv, MailType, Mails!Environment
  <2>2. /\ caller[m] = "idle" /\ caller'[m] = Mails!Outset
        /\ caller' = [caller EXCEPT ![m] = Mails!Outset]
        /\ accepted' = accepted /\ unheard' = unheard /\ env' = env
    BY <1>1 DEF Mails!SendMail, MailInv, MailType
  <2>3. /\ Mails!Outset \in {"threw", "true", "false", "waiting"}
        /\ Mails!Outset = "true" => env.test
    BY DEF Mails!Outset
  <2>4. PICK j \in {"none", "request", "smtp"} :
            /\ job' = [job EXCEPT ![m] = j]
            /\ Mails!Outset # "waiting" => j = "none"
    BY <1>1 DEF Mails!SendMail
  <2>5. MailStep(m)
    BY <2>1, <2>2, <2>3, <2>4 DEF MailInv, MailType, MailStep
  <2>6. DeliveryTrue(m)' /\ CallerTrue(m)'
    BY <2>2, <2>3, <2>4 DEF MailInv, MailType
  <2> QED
    BY <2>5, <2>6, MailStepKeeps
<1>2. ASSUME NEW m \in Mail, Mails!Handle(m) PROVE MailInv'
  <2>1. MailStep(m)
    BY <1>2 DEF MailInv, MailType, MailStep, Mails!Handle, Mails!Takes
  <2>2. DeliveryTrue(m)' /\ CallerTrue(m)'
    BY <1>2 DEF MailInv, MailType, Mails!Handle, Mails!Takes
  <2> QED
    BY <2>1, <2>2, MailStepKeeps
<1>3. ASSUME NEW m \in Mail, Mails!Accept(m) PROVE MailInv'
  <2>1. MailStep(m)
    BY <1>3 DEF MailInv, MailType, MailStep, Mails!Accept
  <2>2. DeliveryTrue(m)' /\ CallerTrue(m)'
    BY <1>3 DEF MailInv, MailType, Mails!Accept
  <2> QED
    BY <2>1, <2>2, MailStepKeeps
<1>4. ASSUME NEW m \in Mail, Mails!Refuse(m) PROVE MailInv'
  <2>1. MailStep(m)
    BY <1>4 DEF MailInv, MailType, MailStep, Mails!Refuse
  <2>2. DeliveryTrue(m)' /\ CallerTrue(m)'
    BY <1>4 DEF MailInv, MailType, Mails!Refuse
  <2> QED
    BY <2>1, <2>2, MailStepKeeps
<1>5. ASSUME NEW m \in Mail, Mails!Kill(m) PROVE MailInv'
  <2>1. MailStep(m)
    BY <1>5 DEF MailInv, MailType, MailStep, Mails!Kill
  <2>2. DeliveryTrue(m)' /\ CallerTrue(m)'
    BY <1>5 DEF MailInv, MailType, Mails!Kill
  <2> QED
    BY <2>1, <2>2, MailStepKeeps
<1>6. ASSUME NEW m \in Mail, Mails!Answer(m) PROVE MailInv'
  <2>1. MailStep(m)
    BY <1>6 DEF MailInv, MailType, MailStep, Mails!Answer
  <2>2. DeliveryTrue(m)' /\ CallerTrue(m)'
    BY <1>6 DEF MailInv, MailType, Mails!Answer
  <2> QED
    BY <2>1, <2>2, MailStepKeeps
<1>7. ASSUME NEW m \in Mail, Mails!GiveUp(m) PROVE MailInv'
  <2>1. MailStep(m)
    BY <1>7 DEF MailInv, MailType, MailStep, Mails!GiveUp
  <2>2. DeliveryTrue(m)' /\ CallerTrue(m)'
    BY <1>7 DEF MailInv, MailType, Mails!GiveUp
  <2> QED
    BY <2>1, <2>2, MailStepKeeps
<1>8. CASE UNCHANGED Mails!vars
  BY <1>8 DEF Mails!vars, MailInv, MailType
<1> QED
  BY <1>1, <1>2, <1>3, <1>4, <1>5, <1>6, <1>7, <1>8 DEF Mails!Next

(* For any mails, and whatever the relay and the server do, what sendMail  *)
(* answers is what became of the mail, unless the caller did not hear.     *)
THEOREM MailsAnsweredTruly == Mails!Spec => []AnswersAreTrue
<1>1. Mails!Init => MailInv
  <2> SUFFICES ASSUME Mails!Init PROVE MailInv
    OBVIOUS
  <2>1. compiled \in BOOLEAN
    BY DEF Mails!Init
  <2> QED
    BY <2>1 DEF Mails!Init, MailInv, MailType, DeliveryTrue, CallerTrue
<1>2. MailInv => AnswersAreTrue
  BY DEF MailInv, MailType, DeliveryTrue, CallerTrue, AnswersAreTrue,
     Mails!AnswersAreTrue
<1> QED
  BY <1>1, <1>2, MailNext, PTL DEF Mails!Spec

-----------------------------------------------------------------------------
(* Keep-alive.                                                             *)

(* Whatever is configured, the interval is one to fourteen minutes.        *)
LEMMA IntervalBounds ==
    ASSUME MinutesAssumption, config \in Pings!Configuration
    PROVE  Pings!Interval \in 4..56
<1>1. \A a, b \in Int : /\ Pings!Max({a, b}) \in {a, b}
                        /\ Pings!Max({a, b}) >= a /\ Pings!Max({a, b}) >= b
  <2> TAKE a, b \in Int
  <2>1. \E x \in {a, b} : \A y \in {a, b} : x >= y
    <3>1. CASE a >= b
      BY <3>1
    <3>2. CASE b >= a
      BY <3>2
    <3> QED
      BY <3>1, <3>2
  <2> QED
    BY <2>1 DEF Pings!Max
<1>2. \A a, b \in Int : /\ Pings!Min({a, b}) \in {a, b}
                        /\ Pings!Min({a, b}) <= a /\ Pings!Min({a, b}) <= b
  <2> TAKE a, b \in Int
  <2>1. \E x \in {a, b} : \A y \in {a, b} : x <= y
    <3>1. CASE a >= b
      BY <3>1
    <3>2. CASE b >= a
      BY <3>2
    <3> QED
      BY <3>1, <3>2
  <2> QED
    BY <2>1 DEF Pings!Min
<1>3. Pings!Requested \in Int
  <2>1. config.minutes \in Int
    BY DEF Pings!Configuration
  <2> QED
    BY <2>1 DEF Pings!Requested
<1> DEFINE m == Pings!Max({Pings!Requested, 1})
<1>4. m \in Int /\ m >= 1
  BY <1>1, <1>3
<1> HIDE DEF m
<1>5. Pings!Min({m, 14}) \in 1..14
  BY <1>2, <1>4
<1> QED
  BY <1>5 DEF Pings!Interval, Pings!PerMinute, m

LEMMA MoreIntervals ==
    ASSUME NEW n \in Nat, NEW k \in Nat
    PROVE  n * k \in Nat /\ (n + 1) * k = n * k + k
<1> QED
  OBVIOUS

PingType ==
    /\ config \in Pings!Configuration
    /\ initialIn \in -1..2
    /\ pingIn \in Int
    /\ ping \in -1..1
    /\ quiet \in Nat
    /\ missed \in Nat

(* The timers, and the time since the last of them fired: a ping under way *)
(* is as old as that, and the quiet is bounded by the pings that failed.   *)
Timers ==
    /\ pingIn = -1 \/ pingIn \in 0..Pings!Interval
    /\ initialIn # -1 => pingIn = -1
    /\ ~up \/ ~Pings!Enabled => initialIn = -1 /\ pingIn = -1
    /\ up /\ Pings!Enabled => initialIn # -1 \/ pingIn # -1

Quiet ==
    LET elapsed == Pings!Interval - pingIn IN
    /\ initialIn # -1 => quiet <= 2 - initialIn
    /\ pingIn # -1 /\ ping # -1 => elapsed = ping
    /\ pingIn # -1 => quiet <= (IF ping = -1 THEN missed * Pings!Interval
                                ELSE (missed + 1) * Pings!Interval) + elapsed

PingInv == PingType /\ Timers /\ Quiet

LEMMA PingNext ==
    ASSUME MinutesAssumption, PingInv, [Pings!Next]_(Pings!vars)
    PROVE  PingInv'
<1>1. config' = config
  BY DEF Pings!Next, Pings!vars, Pings!Bootstrap, Pings!Shutdown, Pings!Fire,
     Pings!Arrive, Pings!Miss, Pings!Visit, Pings!Tick
<1>2. /\ Pings!Interval \in 4..56
      /\ Pings!Interval' = Pings!Interval
      /\ Pings!Enabled' <=> Pings!Enabled
  <2>1. Pings!Interval \in 4..56
    BY IntervalBounds DEF PingInv, PingType
  <2>2. Pings!Interval' = Pings!Interval
    BY <1>1 DEF Pings!Interval, Pings!Requested
  <2>3. Pings!Enabled' <=> Pings!Enabled
    BY <1>1 DEF Pings!Enabled
  <2> QED
    BY <2>1, <2>2, <2>3
<1> DEFINE k == Pings!Interval
<1>3. /\ missed * k \in Nat /\ (missed + 1) * k = missed * k + k
      /\ (missed + 1) * k \in Nat
      /\ ((missed + 1) + 1) * k = (missed + 1) * k + k
  BY <1>2, MoreIntervals DEF PingInv, PingType
<1>4. 0 * k = 0
  BY <1>2
<1>5. CASE Pings!Bootstrap
  <2>1. PingType'
    BY <1>1, <1>2, <1>5
       DEF PingInv, PingType, Timers, Pings!Bootstrap, Pings!NoTimer
  <2>2. Timers'
    BY <1>1, <1>2, <1>5
       DEF PingInv, PingType, Timers, Pings!Bootstrap, Pings!NoTimer
  <2>3. Quiet'
    BY <1>1, <1>2, <1>3, <1>4, <1>5
       DEF PingInv, PingType, Timers, Quiet, Pings!Bootstrap, Pings!NoTimer
  <2> QED
    BY <2>1, <2>2, <2>3 DEF PingInv
<1>6. CASE Pings!Shutdown
  <2>1. PingType'
    BY <1>1, <1>2, <1>6
       DEF PingInv, PingType, Timers, Pings!Shutdown, Pings!NoTimer
  <2>2. Timers'
    BY <1>1, <1>2, <1>6
       DEF PingInv, PingType, Timers, Pings!Shutdown, Pings!NoTimer
  <2>3. Quiet'
    BY <1>1, <1>2, <1>3, <1>4, <1>6
       DEF PingInv, PingType, Timers, Quiet, Pings!Shutdown, Pings!NoTimer
  <2> QED
    BY <2>1, <2>2, <2>3 DEF PingInv
<1>7. CASE Pings!Fire
  <2>1. PingType'
    BY <1>1, <1>2, <1>7 DEF PingInv, PingType, Timers, Pings!Fire, Pings!NoTimer
  <2>2. Timers'
    BY <1>1, <1>2, <1>7 DEF PingInv, PingType, Timers, Pings!Fire, Pings!NoTimer
  <2>3. Quiet'
    BY <1>1, <1>2, <1>3, <1>4, <1>7
       DEF PingInv, PingType, Timers, Quiet, Pings!Fire, Pings!NoTimer
  <2> QED
    BY <2>1, <2>2, <2>3 DEF PingInv
<1>8. CASE Pings!Arrive
  <2>1. PingType'
    BY <1>1, <1>2, <1>8
       DEF PingInv, PingType, Timers, Pings!Arrive, Pings!NoTimer
  <2>2. Timers'
    BY <1>1, <1>2, <1>8
       DEF PingInv, PingType, Timers, Pings!Arrive, Pings!NoTimer
  <2>3. Quiet'
    BY <1>1, <1>2, <1>3, <1>4, <1>8
       DEF PingInv, PingType, Timers, Quiet, Pings!Arrive, Pings!NoTimer
  <2> QED
    BY <2>1, <2>2, <2>3 DEF PingInv
<1>9. CASE Pings!Miss
  <2>1. PingType'
    BY <1>1, <1>2, <1>9 DEF PingInv, PingType, Timers, Pings!Miss, Pings!NoTimer
  <2>2. Timers'
    BY <1>1, <1>2, <1>9 DEF PingInv, PingType, Timers, Pings!Miss, Pings!NoTimer
  <2>3. Quiet'
    BY <1>1, <1>2, <1>3, <1>4, <1>9
       DEF PingInv, PingType, Timers, Quiet, Pings!Miss, Pings!NoTimer
  <2> QED
    BY <2>1, <2>2, <2>3 DEF PingInv
<1>10. CASE Pings!Visit
  <2>1. PingType'
    BY <1>1, <1>2, <1>10
       DEF PingInv, PingType, Timers, Pings!Visit, Pings!NoTimer
  <2>2. Timers'
    BY <1>1, <1>2, <1>10
       DEF PingInv, PingType, Timers, Pings!Visit, Pings!NoTimer
  <2>3. Quiet'
    BY <1>1, <1>2, <1>3, <1>4, <1>10
       DEF PingInv, PingType, Timers, Quiet, Pings!Visit, Pings!NoTimer
  <2> QED
    BY <2>1, <2>2, <2>3 DEF PingInv
<1>11. CASE Pings!Tick
  <2>1. PingType'
    BY <1>1, <1>2, <1>11
       DEF PingInv, PingType, Timers, Pings!Tick, Pings!NoTimer, Pings!Later
  <2>2. Timers'
    BY <1>1, <1>2, <1>11
       DEF PingInv, PingType, Timers, Pings!Tick, Pings!NoTimer, Pings!Later
  <2>3. Quiet'
    BY <1>1, <1>2, <1>3, <1>4, <1>11
       DEF PingInv, PingType, Timers, Quiet, Pings!Tick, Pings!NoTimer,
           Pings!Later
  <2> QED
    BY <2>1, <2>2, <2>3 DEF PingInv
<1>12. CASE UNCHANGED Pings!vars
  BY <1>1, <1>2, <1>12 DEF PingInv, PingType, Timers, Quiet, Pings!vars
<1> QED
  BY <1>5, <1>6, <1>7, <1>8, <1>9, <1>10, <1>11, <1>12 DEF Pings!Next

(* Whatever interval is configured, whatever fails, and however often the  *)
(* server restarts, the service is not quiet until it is suspended if its  *)
(* pings arrive, and one interval longer for each that does not.           *)
THEOREM ServiceStaysAwake == Pings!Spec => []StaysAwake
<1>1. Pings!Init => PingInv
  BY DEF Pings!Init, PingInv, PingType, Timers, Quiet, Pings!NoTimer
<1>2. PingInv => StaysAwake
  <2> SUFFICES ASSUME PingInv, up, Pings!Enabled
               PROVE  /\ missed = 0 => quiet < Pings!Sleeps
                      /\ quiet <= (missed + 1) * Pings!Interval + 1
    BY DEF StaysAwake, Pings!StaysAwake
  <2> DEFINE k == Pings!Interval
  <2>1. k \in 4..56
    BY MinutesAssumption, IntervalBounds DEF PingInv, PingType
  <2>2. missed * k \in Nat /\ (missed + 1) * k = missed * k + k
    BY <2>1, MoreIntervals DEF PingInv, PingType
  <2>3. quiet <= (missed + 1) * k + 1
    BY <2>1, <2>2 DEF PingInv, PingType, Timers, Quiet
  <2>4. missed = 0 => quiet < Pings!Sleeps
    <3>1. missed = 0 => missed * k = 0
      BY <2>1
    <3> QED
      BY <2>1, <2>2, <2>3, <3>1
         DEF Pings!Sleeps, Pings!PerMinute, PingInv, PingType
  <2> QED
    BY <2>3, <2>4
<1>3. PingInv /\ [Pings!Next]_(Pings!vars) => PingInv'
  BY MinutesAssumption, PingNext
<1> QED
  BY <1>1, <1>2, <1>3, PTL DEF Pings!Spec
=============================================================================
