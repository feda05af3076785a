------------------------------ MODULE Accounts ------------------------------
(***************************************************************************)
(* The components around an account, side by side: OneTimeCodes, which     *)
(* this module extends, AccountAccess, ProjectAccess, Startup,             *)
(* MailTransport and KeepAlive.  They share no state and no steps.         *)
(***************************************************************************)
EXTENDS OneTimeCodes

CONSTANTS
    Session, External, Errand, LastKey, MaxFound, PageLimit, LastPage,
    Process, Mail, WellFormed, Minutes, MaxMissed

ASSUME ProjectAssumption ==
    /\ IsFiniteSet(External)
    /\ LastKey \in Nat /\ MaxFound \in Nat /\ LastPage \in Nat
    /\ PageLimit \in Nat \ {0}

ASSUME MinutesAssumption == Minutes \subseteq Int

VARIABLES
    account, opened, session, cookie, token, audit, request,
    project, registered, users, call,
    default, others, boot, asked,
    env, compiled, caller, job, accepted, unheard,
    config, initialIn, pingIn, ping, quiet, missed, up

Access == INSTANCE AccountAccess
    WITH Call <- Op, user <- account, call <- request

Projects == INSTANCE ProjectAccess WITH Call <- Errand

Starts == INSTANCE Startup WITH Request <- Op, request <- asked

Mails == INSTANCE MailTransport

Pings == INSTANCE KeepAlive

-----------------------------------------------------------------------------
(* The properties of the parts, at their definitions; those of OneTimeCodes*)
(* keep their names.  Nobody passes a guard as a user that he was not at   *)
(* some time since he asked, but by a cookie cached earlier.               *)
SuspensionBites == Access!SuspensionBites

(* An answered change of a role or status is recorded and took effect. *)
AnsweredChangeIsWhole == Access!AnsweredChangeIsWhole

(* A suspended project, or a replaced key, admits nobody. *)
RevokedIsRefused == Projects!RevokedIsRefused

(* A project's directory counts, and a short page lists, what it found. *)
DirectoryIsRegistered == Projects!DirectoryIsRegistered

(* A process serves with all it needs, and fails to start only in a race   *)
(* for the first start or by a rejected call.                              *)
StartIsSound == Starts!StartIsSound

(* What sendMail answers is what became of the mail. *)
AnswersAreTrue == Mails!AnswersAreTrue

(* No configured interval lets the service be suspended. *)
StaysAwake == Pings!StaysAwake
=============================================================================
