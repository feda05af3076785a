---------------------------- MODULE MailTransport ----------------------------
(***************************************************************************)
(* EmailService.sendMail, directly to the SMTP server or by the relay that *)
(* runs as a function on Vercel (api/email-relay.js).  The caller waits 15 *)
(* seconds for the relay and then reports a failure; the relay does not    *)
(* know and goes on.  A Mail is one call of sendOtpEmail,                  *)
(* sendVerificationEmail or sendPasswordResetEmail, to one recipient.      *)
(***************************************************************************)
EXTENDS Integers

CONSTANTS
    Mail,
    WellFormed  \* the mails with an address and a content the relay takes

VARIABLES
    env,        \* the configuration of the two processes, and the templates
    compiled,   \* the template is in the cache
    caller,     \* per mail: what sendMail has come to
    job,        \* per mail: where the delivery stands
    accepted,   \* per mail: how often the SMTP server took it
    unheard     \* history: mails whose outcome did not reach the caller

vars == <<env, compiled, caller, job, accepted, unheard>>

Environment ==
    [test : BOOLEAN,            \* NODE_ENV = "test"
     relay : BOOLEAN,           \* EMAIL_RELAY_URL, and not on Vercel itself
     secret : BOOLEAN,          \* EMAIL_RELAY_SECRET of the caller
     theirs : {"none", "same", "other"},    \* that of the relay
     smtp : BOOLEAN,            \* the relay has credentials
     onDisk : BOOLEAN]          \* the file of the template is found

Init ==
    /\ env \in Environment
    /\ compiled = FALSE
    /\ caller = [m \in Mail |-> "idle"]
    /\ job = [m \in Mail |-> "none"]
    /\ accepted = [m \in Mail |-> 0]
    /\ unheard = {}

-----------------------------------------------------------------------------
(* renderTemplate: from the cache, or read, compiled and kept. *)
Rendered == compiled \/ env.onDisk

(* What is decided before anything is sent. *)
Outset ==
    IF ~Rendered THEN "threw"
    ELSE IF env.test THEN "true"
    ELSE IF env.relay /\ ~env.secret THEN "false"
    ELSE "waiting"

SendMail(m) ==
    /\ caller[m] = "idle"
    /\ compiled' = Rendered
    /\ caller' = [caller EXCEPT ![m] = Outset]
    /\ job' = [job EXCEPT ![m] =
           IF Outset # "waiting" THEN "none"
           ELSE IF env.relay THEN "request" ELSE "smtp"]
    /\ UNCHANGED <<env, accepted, unheard>>

-----------------------------------------------------------------------------
(* The handler of the relay checks the caller, the mail and itself. *)
Takes(m) == env.theirs = "same" /\ m \in WellFormed /\ env.smtp

HandleAtOnce(m) ==                                              \* mutant
    /\ job[m] = "request"
    /\ job' = [job EXCEPT ![m] = IF Takes(m) THEN "ok" ELSE "error"]
    /\ UNCHANGED <<env, compiled, caller, accepted, unheard>>

Handle(m) ==
    /\ job[m] = "request"
    /\ job' = [job EXCEPT ![m] = IF Takes(m) THEN "smtp" ELSE "error"]
    /\ UNCHANGED <<env, compiled, caller, accepted, unheard>>

(* transporter.sendMail, of the caller or the relay, resolves when the     *)
(* server took the mail.  A connection that breaks after that rejects.     *)
Accept(m) ==
    /\ job[m] = "smtp"
    /\ accepted' = [accepted EXCEPT ![m] = @ + 1]
    /\ \/ /\ job' = [job EXCEPT ![m] = "ok"]
          /\ UNCHANGED unheard
       \/ /\ job' = [job EXCEPT ![m] = "error"]
          /\ unheard' = unheard \cup {m}
    /\ UNCHANGED <<env, compiled, caller>>

(* Refused, no recipient accepted, or a timeout of the connection. *)
Refuse(m) ==
    /\ job[m] = "smtp"
    /\ job' = [job EXCEPT ![m] = "error"]
    /\ UNCHANGED <<env, compiled, caller, accepted, unheard>>

(* Vercel ends the function. *)
Kill(m) ==
    /\ env.relay
    /\ job[m] \in {"request", "smtp"}
    /\ job' = [job EXCEPT ![m] = "none"]
    /\ UNCHANGED <<env, compiled, caller, accepted, unheard>>

-----------------------------------------------------------------------------
(* An answer that is not ok, or does not say success, is a failure. *)
Answer(m) ==
    /\ caller[m] = "waiting"
    /\ job[m] \in {"ok", "error"}
    /\ caller' = [caller EXCEPT ![m] = IF job[m] = "ok" THEN "true" ELSE "false"]
    /\ job' = [job EXCEPT ![m] = "none"]
    /\ UNCHANGED <<env, compiled, accepted, unheard>>

(* AbortSignal.timeout, or an answer that is lost or cannot be parsed. *)
GiveUp(m) ==
    /\ env.relay
    /\ caller[m] = "waiting"
    /\ caller' = [caller EXCEPT ![m] = "false"]
    /\ unheard' = unheard \cup {m}
    /\ UNCHANGED <<env, compiled, job, accepted>>

-----------------------------------------------------------------------------
Next ==
    \E m \in Mail :
        \/ SendMail(m) \/ Handle(m) \/ Accept(m) \/ Refuse(m) \/ Kill(m)
        \/ Answer(m) \/ GiveUp(m)

Spec == Init /\ [][Next]_vars

-----------------------------------------------------------------------------
(* What VerificationEmailService.deliver builds on: a mail that is reported*)
(* as sent was taken by the server, once, and a mail that is reported as   *)
(* failed was not, and will not be while the caller retries - unless the   *)
(* caller gave up, or was cut off, before it heard.                        *)
AnswersAreTrue ==
    \A m \in Mail :
        /\ caller[m] = "true" /\ ~env.test => accepted[m] = 1
        /\ caller[m] \in {"false", "threw"} /\ m \notin unheard =>
              accepted[m] = 0 /\ job[m] # "smtp"
        /\ accepted[m] <= 1
=============================================================================
