---------------------------- MODULE AccountAccess ----------------------------
(***************************************************************************)
(* Whether a user's requests pass the AuthGuard, and as which user: with   *)
(* which role the RolesGuard sees him.  Meanwhile administrators change his*)
(* role and status (AdminService), he signs in and refreshes his tokens    *)
(* (AuthService).                                                          *)
(*                                                                         *)
(* A request shows a session, with a signed copy of the user that Better   *)
(* Auth's own routes put into a cookie for five minutes, or an access      *)
(* token, which names the user and is looked up.  A Call is one request of *)
(* the API; its phase names the call of the database it awaits.  One user, *)
(* with a verified address.                                                *)
(***************************************************************************)
EXTENDS Integers, FiniteSets

CONSTANTS
    Session,    \* bound: the sessions there will be
    Call,       \* bound: the requests
    Failures    \* the database may reject a call, a write after it commits

User == [status : {"ACTIVE", "INACTIVE", "SUSPENDED"}, role : {"USER", "ADMIN"}]
NoCookie == [status |-> "none", role |-> "none"]

VARIABLES
    user,       \* the row of the user
    opened,     \* the sessions that were ever created
    session,    \* those that are in the database
    cookie,     \* per session: the cached copy of the user
    token,      \* an access token was issued
    audit,      \* the records of the audit log, with the calls that wrote them
    call        \* the requests: what they carry and where they stand

vars == <<user, opened, session, cookie, token, audit, call>>

Idle == [phase |-> "idle"]
Finish(c, phase) == call' = [call EXCEPT ![c] = [phase |-> phase]]

Init ==
    /\ user \in [status : {"ACTIVE"}, role : {"USER", "ADMIN"}]
    /\ opened = {}
    /\ session = {}
    /\ cookie = [s \in Session |-> NoCookie]
    /\ token = FALSE
    /\ audit = {}
    /\ call = [c \in Call |-> Idle]

-----------------------------------------------------------------------------
(* AuthService.login: Better Auth reads the user, checks the password and  *)
(* creates the session, whatever the status.                               *)
Login(c) ==
    /\ call[c].phase = "idle"
    /\ call' = [call EXCEPT ![c] = [phase |-> "signIn", copy |-> user]]
    /\ UNCHANGED <<user, opened, session, cookie, token, audit>>

(* Only then are the suspended turned away; their session remains. *)
SignIn(c, s) ==
    /\ call[c].phase = "signIn"
    /\ s \notin opened
    /\ opened' = opened \cup {s}
    /\ session' = session \cup {s}
    /\ token' = (token \/ call[c].copy.status # "SUSPENDED")
    /\ Finish(c, "over")
    /\ UNCHANGED <<user, cookie, audit>>

(* refreshToken looks the user up by the token or by a session, and issues *)
(* tokens to the active.                                                   *)
Refresh(c) ==
    /\ call[c].phase = "idle"
    /\ token \/ session # {}
    /\ token' = (token \/ user.status = "ACTIVE")
    /\ Finish(c, "over")
    /\ UNCHANGED <<user, opened, session, cookie, audit>>

(* Better Auth's routes answer with a fresh copy for the cookie, *)
CacheSession(s) ==
    /\ s \in session
    /\ cookie' = [cookie EXCEPT ![s] = user]
    /\ UNCHANGED <<user, opened, session, token, audit, call>>

(* which is good for a while. *)
ExpireCookie(s) ==
    /\ cookie[s] # NoCookie
    /\ cookie' = [cookie EXCEPT ![s] = NoCookie]
    /\ UNCHANGED <<user, opened, session, token, audit, call>>

-----------------------------------------------------------------------------
(* A request of the user.  Its `since` collects the rows the user has had  *)
(* since it began.                                                         *)
Ask(c, s) ==
    /\ call[c].phase = "idle"
    /\ s \in opened
    /\ call' = [call EXCEPT ![c] =
                   [phase |-> "session", session |-> s, since |-> {user}]]
    /\ UNCHANGED <<user, opened, session, cookie, token, audit>>

AdmitsUnlessSuspended(as) == as.status # "SUSPENDED"            \* mutant

(* The guard refuses the suspended and the inactive, and goes no further. *)
Admits(as) == as.status = "ACTIVE"

Decide(c, as, from) ==
    call' = [call EXCEPT ![c] =
        IF Admits(as) THEN [phase |-> "passed", as |-> as, from |-> from,
                            since |-> call[c].since]
        ELSE [phase |-> "refused"]]

(* getSession trusts a copy that has not expired, and looks up otherwise.  *)
CheckSession(c) ==
    LET s == call[c].session IN
    /\ call[c].phase = "session"
    /\ \/ cookie[s] # NoCookie /\ Decide(c, cookie[s], "cookie")
       \/ cookie[s] = NoCookie /\ s \in session /\ Decide(c, user, "session")
       \/ /\ cookie[s] = NoCookie
          /\ s \notin session \/ Failures
          /\ call' = [call EXCEPT ![c].phase = "token"]
    /\ UNCHANGED <<user, opened, session, cookie, token, audit>>

(* No session, or an error on the way: the access token, and its user. *)
CheckToken(c) ==
    /\ call[c].phase = "token"
    /\ \/ token /\ Decide(c, user, "token")
       \/ (~token \/ Failures) /\ Finish(c, "refused")
    /\ UNCHANGED <<user, opened, session, cookie, token, audit>>

-----------------------------------------------------------------------------
(* updateUserRole and updateUserStatus: a copy is read for the audit log,  *)
Change(c, what, value) ==
    /\ call[c].phase = "idle"
    /\ call' = [call EXCEPT ![c] =
           [phase |-> "update", what |-> what, value |-> value, copy |-> user,
            was |-> user, had |-> {}, raced |-> FALSE]]
    /\ UNCHANGED <<user, opened, session, cookie, token, audit>>

ChangeRole(c) == \E role \in {"USER", "ADMIN"} : Change(c, "role", role)
ChangeStatus(c) ==
    \E status \in {"ACTIVE", "INACTIVE", "SUSPENDED"} : Change(c, "status", status)

(* the row is updated; who is not active any more                          *)
Update(c) ==
    LET next == [user EXCEPT ![call[c].what] = call[c].value] IN
    /\ call[c].phase = "update"
    /\ user' = next
    /\ call' = [d \in Call |->
           IF d = c
           THEN [call[c] EXCEPT !.was = user, !.had = session,
                    !.phase = IF call[c].value \in {"INACTIVE", "SUSPENDED"}
                              THEN "sessions" ELSE "audit"]
           ELSE IF call[d].phase = "update"
           THEN [call[d] EXCEPT !.raced = TRUE]
           ELSE IF call[d].phase \in {"session", "token"}
           THEN [call[d] EXCEPT !.since = @ \cup {next}]
           ELSE call[d]]
    /\ UNCHANGED <<opened, session, cookie, token, audit>>

EndSuspended(c) ==                                              \* mutant
    /\ call[c].phase = "sessions"
    /\ session' = IF call[c].value = "SUSPENDED" THEN {} ELSE session
    /\ call' = [call EXCEPT ![c].phase = "audit"]
    /\ UNCHANGED <<user, opened, cookie, token, audit>>

(* loses his sessions,                                                     *)
EndSessions(c) ==
    /\ call[c].phase = "sessions"
    /\ session' = {}
    /\ call' = [call EXCEPT ![c].phase = "audit"]
    /\ UNCHANGED <<user, opened, cookie, token, audit>>

(* and the change is recorded and answered.                                *)
Audit(c) ==
    /\ call[c].phase = "audit"
    /\ audit' = audit \cup
           {[by |-> c, old |-> call[c].copy[call[c].what], new |-> call[c].value]}
    /\ call' = [call EXCEPT ![c].phase = "answered"]
    /\ UNCHANGED <<user, opened, session, cookie, token>>

(* Whatever was written before stays. *)
ChangeFails(c) ==
    /\ Failures
    /\ call[c].phase \in {"update", "sessions", "audit"}
    /\ Finish(c, "failed")
    /\ UNCHANGED <<user, opened, session, cookie, token, audit>>

-----------------------------------------------------------------------------
Next ==
    \/ \E c \in Call :
        \/ Login(c) \/ Refresh(c)
        \/ \E s \in Session : SignIn(c, s) \/ Ask(c, s)
        \/ CheckSession(c) \/ CheckToken(c)
        \/ ChangeRole(c) \/ ChangeStatus(c)
        \/ Update(c) \/ EndSessions(c) \/ Audit(c) \/ ChangeFails(c)
    \/ \E s \in Session : CacheSession(s) \/ ExpireCookie(s)

Spec == Init /\ [][Next]_vars

-----------------------------------------------------------------------------
(* A request passes as a user that was active and had that role at some    *)
(* time since the request began - so none that begins after a suspension   *)
(* or a demotion profits from what was before - unless a cookie carries it *)
(* that was cached earlier.                                                *)
SuspensionBites ==
    \A c \in Call : call[c].phase = "passed" =>
        /\ call[c].as.status = "ACTIVE"
        /\ call[c].from # "cookie" => call[c].as \in call[c].since

(* A change that was answered is in the audit log, with the value that it  *)
(* replaced unless two changes raced; and when it took the user's access   *)
(* away, no session that was open then is still there.                     *)
AnsweredChangeIsWhole ==
    \A c \in Call : call[c].phase = "answered" =>
        /\ \E record \in audit :
              /\ record.by = c /\ record.new = call[c].value
              /\ call[c].raced \/ record.old = call[c].was[call[c].what]
        /\ call[c].what = "status" /\ call[c].value # "ACTIVE" =>
               call[c].had \cap session = {}
=============================================================================
