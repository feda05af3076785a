---------------------------- MODULE OneTimeCodes ----------------------------
(***************************************************************************)
(* auth.service.ts and otp.service.ts for one email address: registration, *)
(* resend, forgotten and reset passwords, verification and login.  A step  *)
(* ends at the await of a database call.  Reads whose answer cannot change *)
(* (the user and the hash of resetPassword) are left out, and so are codes *)
(* that were never made, which are refused.                                *)
(* What the queue does with a code is module VerificationEmail.            *)
(***************************************************************************)
EXTENDS Integers, Sequences, FiniteSets

CONSTANTS
    Op,             \* calls of the service
    NoOp,
    Failures        \* database calls may be rejected, before or after a write

ASSUME CodeAssumption ==
    /\ NoOp \notin Op
    /\ Failures \in BOOLEAN

VARIABLES
    user,           \* "none", "unverified" or "verified"
    credentials,    \* per credential account, the call that set its password
    sessions,
    code,           \* otp_tokens, in the order of createdAt
    op,             \* per call: kind, phase and what it has read
    verificationRequest,    \* verificationRequests: the call that runs it
    crossed,        \* history: types of codes two calls created at once
    raced           \* history: codes two resets found before one marked them

vars == <<user, credentials, sessions, code, op, verificationRequest,
          crossed, raced>>

Idle == [kind |-> "none", phase |-> "idle", type |-> "none", code |-> 0,
         password |-> NoOp, seen |-> "none"]

(* The address is unknown, or someone registered with it before, or came   *)
(* with Google and has no password.  The password of before is NoOp's.     *)
Init ==
    /\ \/ user = "none" /\ credentials = <<>>
       \/ user \in {"unverified", "verified"} /\ credentials = <<NoOp>>
       \/ user = "verified" /\ credentials = <<>>
    /\ sessions = {}
    /\ code = <<>>
    /\ op = [o \in Op |-> Idle]
    /\ verificationRequest = NoOp
    /\ crossed = {}
    /\ raced = {}

Unused(t) == {c \in DOMAIN code : code[c].type = t /\ ~code[c].used}

Valid(c, t) == c \in Unused(t) /\ code[c].age # "expired"

At(o, phase) == op[o].phase = phase

Enter(o, phase) == op' = [op EXCEPT ![o].phase = phase]

Begin(o, kind, phase) ==
    /\ At(o, "idle")
    /\ op' = [op EXCEPT ![o].kind = kind, ![o].phase = phase]

(* The call ends with an error; if it runs the shared request, everyone who*)
(* waits for it fails, too.                                                *)
Sharers(o) ==
    IF verificationRequest = o THEN {q \in Op : At(q, "sharing")} ELSE {}

Fail(o, phase) ==
    /\ Failures
    /\ op' = [q \in Op |->
                IF q = o \/ q \in Sharers(o)
                THEN [op[q] EXCEPT !.phase = IF q = o THEN phase ELSE "failed"]
                ELSE op[q]]
    /\ verificationRequest' =
            IF verificationRequest = o THEN NoOp ELSE verificationRequest

-----------------------------------------------------------------------------
(* getOrCreateVerificationOtp *)

ShareNever(o, kind) ==                                          \* mutant
    /\ op' = [op EXCEPT ![o].kind = kind, ![o].phase = "active"]
    /\ verificationRequest' = o

Share(o, kind) ==
    IF verificationRequest = NoOp
    THEN /\ op' = [op EXCEPT ![o].kind = kind, ![o].phase = "active"]
         /\ verificationRequest' = o
    ELSE /\ op' = [op EXCEPT ![o].kind = kind, ![o].phase = "sharing"]
         /\ UNCHANGED verificationRequest

Settle(o, c) ==
    /\ op' = [q \in Op |-> IF q = o \/ q \in Sharers(o)
                           THEN [op[q] EXCEPT !.phase = "queue", !.code = c]
                           ELSE op[q]]
    /\ verificationRequest' = NoOp

FindActive(o) ==
    LET fresh == {c \in Unused("verification") : code[c].age = "fresh"} IN
    /\ At(o, "active")
    /\ \/ \E c \in fresh : (\A d \in fresh : d <= c) /\ Settle(o, c)
       \/ /\ fresh = {}
          /\ op' = [op EXCEPT ![o].phase = "invalidate",
                              ![o].type = "verification"]
          /\ UNCHANGED verificationRequest
    /\ UNCHANGED <<user, credentials, sessions, code, crossed, raced>>

(* createOtpRecord *)

Invalidate(o) ==
    /\ At(o, "invalidate")
    /\ code' = [c \in DOMAIN code |-> IF c \in Unused(op[o].type)
                                      THEN [code[c] EXCEPT !.used = TRUE]
                                      ELSE code[c]]
    /\ \/ Enter(o, "create") /\ UNCHANGED verificationRequest
       \/ Fail(o, "failed")
    /\ UNCHANGED <<user, credentials, sessions, crossed, raced>>

Create(o) ==
    LET t == op[o].type
        c == Len(code) + 1 IN
    /\ At(o, "create")
    /\ code' = Append(code, [type |-> t, used |-> FALSE, age |-> "fresh",
                             by |-> op[o].kind])
    /\ crossed' = crossed \cup
            {x \in {t} : \E q \in Op \ {o} : At(q, "create") /\ op[q].type = x}
    /\ \/ verificationRequest = o /\ Settle(o, c)
       \/ /\ verificationRequest # o
          /\ op' = [op EXCEPT ![o].phase = "mail", ![o].code = c]
          /\ UNCHANGED verificationRequest
       \/ Fail(o, "failed")
    /\ UNCHANGED <<user, credentials, sessions, raced>>

-----------------------------------------------------------------------------
(* register, resendVerificationOtp and forgotPassword *)

RegisterFinds(o) ==
    /\ Begin(o, "register", IF user = "none" THEN "signup" ELSE "refused")
    /\ UNCHANGED <<user, credentials, sessions, code, verificationRequest,
                   crossed, raced>>

(* better-auth makes the user and the account, if the address is free. *)
SignUp(o) ==
    /\ At(o, "signup")
    /\ \/ /\ user = "none"
          /\ user' = "unverified"
          /\ credentials' = Append(credentials, o)
          /\ \/ Share(o, "register")
             \/ Fail(o, "failed")
       \/ /\ user # "none"
          /\ Enter(o, "refused")
          /\ UNCHANGED <<user, credentials, verificationRequest>>
    /\ UNCHANGED <<sessions, code, crossed, raced>>

ResendFinds(o) ==
    /\ At(o, "idle")
    /\ \/ user = "unverified" /\ Share(o, "resend")
       \/ /\ user # "unverified"
          /\ Begin(o, "resend", IF user = "none" THEN "done" ELSE "refused")
          /\ UNCHANGED verificationRequest
    /\ UNCHANGED <<user, credentials, sessions, code, crossed, raced>>

ForgotFinds(o) ==
    /\ At(o, "idle")
    /\ op' = [op EXCEPT
                ![o].kind  = "forgot",
                ![o].phase = IF user = "none" THEN "done" ELSE "invalidate",
                ![o].type  = IF user = "verified" THEN "reset"
                                                  ELSE "verification"]
    /\ UNCHANGED <<user, credentials, sessions, code, verificationRequest,
                   crossed, raced>>

(* The code is handed to the queue, or sent; a registration succeeds even  *)
(* if the queue is not to be reached.                                      *)
HandOver(o) ==
    /\ At(o, "queue") \/ At(o, "mail")
    /\ \/ Enter(o, "done") /\ UNCHANGED verificationRequest
       \/ op[o].kind # "register" /\ Fail(o, "failed")
    /\ UNCHANGED <<user, credentials, sessions, code, crossed, raced>>

-----------------------------------------------------------------------------
(* verifyEmail and resetPassword *)

VerifyFinds(o, c) ==
    /\ At(o, "idle")
    /\ op' = [op EXCEPT
                ![o].kind  = "verify",
                ![o].code  = c,
                ![o].phase = IF Valid(c, "verification") THEN "verify"
                                                         ELSE "refused"]
    /\ UNCHANGED <<user, credentials, sessions, code, verificationRequest,
                   crossed, raced>>

Verify(o) ==
    /\ At(o, "verify")
    /\ user' = "verified"
    /\ \/ Enter(o, "mark") /\ UNCHANGED verificationRequest
       \/ Fail(o, "failed")
    /\ UNCHANGED <<credentials, sessions, code, crossed, raced>>

(* A reset that has found its code and not yet marked it. *)
Redeeming(o, c) ==
    /\ op[o].kind = "reset"
    /\ op[o].code = c
    /\ op[o].phase \in {"account", "update", "insert", "mark"}

ResetFindsUsed(o, c) ==                                         \* mutant
    /\ At(o, "idle")
    /\ op' = [op EXCEPT
                ![o].kind  = "reset",
                ![o].code  = c,
                ![o].phase = IF code[c].type = "reset" THEN "account"
                                                       ELSE "refused"]
    /\ raced' = raced \cup {d \in {c} : \E q \in Op : Redeeming(q, d)}
    /\ UNCHANGED <<user, credentials, sessions, code, verificationRequest,
                   crossed>>

ResetFinds(o, c) ==
    /\ At(o, "idle")
    /\ op' = [op EXCEPT
                ![o].kind  = "reset",
                ![o].code  = c,
                ![o].phase = IF Valid(c, "reset") THEN "account"
                                                  ELSE "refused"]
    /\ raced' = raced \cup
            {d \in {c} : Valid(d, "reset") /\ \E q \in Op : Redeeming(q, d)}
    /\ UNCHANGED <<user, credentials, sessions, code, verificationRequest,
                   crossed>>

FindAccount(o) ==
    /\ At(o, "account")
    /\ Enter(o, IF credentials = <<>> THEN "insert" ELSE "update")
    /\ UNCHANGED <<user, credentials, sessions, code, verificationRequest,
                   crossed, raced>>

SetPassword(o) ==
    /\ \/ /\ At(o, "update")
          /\ credentials' = [credentials EXCEPT ![1] = o]
       \/ /\ At(o, "insert")
          /\ credentials' = Append(credentials, o)
    /\ \/ Enter(o, "mark") /\ UNCHANGED verificationRequest
       \/ Fail(o, "halfway")
    /\ UNCHANGED <<user, sessions, code, crossed, raced>>

MarkAndAnswer(o) ==                                             \* mutant
    /\ At(o, "mark")
    /\ code' = [code EXCEPT ![op[o].code].used = TRUE]
    /\ Enter(o, "done") /\ UNCHANGED verificationRequest
    /\ UNCHANGED <<user, credentials, sessions, crossed, raced>>

Mark(o) ==
    /\ At(o, "mark")
    /\ code' = [code EXCEPT ![op[o].code].used = TRUE]
    /\ \/ /\ Enter(o, IF op[o].kind = "reset" THEN "sessions" ELSE "done")
          /\ UNCHANGED verificationRequest
       \/ Fail(o, "halfway")
    /\ UNCHANGED <<user, credentials, sessions, crossed, raced>>

EndSessions(o) ==
    /\ At(o, "sessions")
    /\ sessions' = {}
    /\ \/ Enter(o, "done") /\ UNCHANGED verificationRequest
       \/ Fail(o, "halfway")
    /\ UNCHANGED <<user, credentials, code, crossed, raced>>

-----------------------------------------------------------------------------
(* login and logout: better-auth compares the password of the account and  *)
(* opens a session; login refuses an unverified user afterwards.           *)

SignIn(o) ==
    /\ At(o, "idle")
    /\ credentials # <<>>
    /\ op' = [op EXCEPT ![o].kind = "login", ![o].phase = "session",
                        ![o].password = credentials[1], ![o].seen = user]
    /\ UNCHANGED <<user, credentials, sessions, code, verificationRequest,
                   crossed, raced>>

OpenSession(o) ==
    /\ At(o, "session")
    /\ sessions' = sessions \cup
            {[password |-> op[o].password,
              late     |-> op[o].password # credentials[1]]}
    /\ \/ /\ Enter(o, IF op[o].seen = "verified" THEN "done" ELSE "refused")
          /\ UNCHANGED verificationRequest
       \/ Fail(o, "failed")
    /\ UNCHANGED <<user, credentials, code, crossed, raced>>

Logout ==
    /\ \E s \in sessions : sessions' = sessions \ {s}
    /\ UNCHANGED <<user, credentials, code, op, verificationRequest, crossed,
                   raced>>

-----------------------------------------------------------------------------
(* A database call is rejected and has done nothing. *)
Rejected(o) ==
    /\ op[o].phase \in {"active", "invalidate", "create", "signup", "verify",
                        "account", "update", "insert", "mark", "sessions",
                        "session"}
    /\ Fail(o, IF op[o].phase \in {"mark", "sessions"} THEN "halfway"
                                                       ELSE "failed")
    /\ UNCHANGED <<user, credentials, sessions, code, crossed, raced>>

(* A code has less than a minute left, then none; of a used code nobody    *)
(* asks.                                                                   *)
Age(c) ==
    /\ ~code[c].used
    /\ code[c].age # "expired"
    /\ code' = [code EXCEPT ![c].age = IF @ = "fresh" THEN "ending"
                                                      ELSE "expired"]
    /\ UNCHANGED <<user, credentials, sessions, op, verificationRequest,
                   crossed, raced>>

Next ==
    \/ \E o \in Op :
        \/ RegisterFinds(o) \/ SignUp(o) \/ ResendFinds(o) \/ ForgotFinds(o)
        \/ FindActive(o) \/ Invalidate(o) \/ Create(o) \/ HandOver(o)
        \/ Verify(o) \/ FindAccount(o) \/ SetPassword(o) \/ Mark(o)
        \/ EndSessions(o) \/ SignIn(o) \/ OpenSession(o) \/ Rejected(o)
        \/ \E c \in DOMAIN code : VerifyFinds(o, c) \/ ResetFinds(o, c)
    \/ \E c \in DOMAIN code : Age(c)
    \/ Logout

Spec == Init /\ [][Next]_vars

-----------------------------------------------------------------------------
(* "Invalidate prior unused tokens" leaves one code of each type, unless   *)
(* two calls had both invalidated before one of them created its code: two *)
(* forgotten passwords, or one and a resend.                               *)
OneValidCode ==
    \A t \in {"verification", "reset"} \ crossed : Cardinality(Unused(t)) <= 1

(* A reset code sets one password, unless two calls found it before either *)
(* had marked it, or the first one failed halfway.                         *)
RedeemedOnce ==
    \A c \in DOMAIN code \ raced :
        Cardinality({o \in Op :
            /\ op[o].kind = "reset" /\ op[o].code = c
            /\ op[o].phase \in {"mark", "sessions", "done"}}) <= 1

(* The two together: whoever is sent a code has the only one of its type,  *)
(* and it serves once.                                                     *)
CodesAreSingle == OneValidCode /\ RedeemedOnce

(* Once a reset is answered no session of an earlier password is left but  *)
(* those that were opened after the password they were opened with had     *)
(* changed; a reset that failed halfway may leave more.                    *)
SessionsKnowPassword ==
    \A s \in sessions :
        \/ s.late
        \/ s.password = credentials[1]
        \/ \E o \in Op : /\ op[o].kind = "reset"
                         /\ op[o].phase \in {"mark", "sessions", "halfway"}

(* "Resends reuse an unexpired code, so delayed or reordered emails remain *)
(* valid": a code of a registration or a resend that has more than a minute*)
(* left is used up by its own verification or by a forgotten password, and *)
(* never by another registration or resend.                                *)
ResendKeepsCode ==
    [][\A c \in DOMAIN code :
        (/\ c \in Unused("verification")
         /\ code[c].age = "fresh" /\ code[c].by # "forgot"
         /\ code'[c].used)
        => \E o \in Op :
            \/ At(o, "mark") /\ op[o].code = c
            \/ At(o, "invalidate") /\ op[o].kind = "forgot"]_vars
=============================================================================
