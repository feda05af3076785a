----------------------------- MODULE MCAccounts -----------------------------
(* The components around an account that share no state - OneTimeCodes,    *)
(* AccountAccess, ProjectAccess, Startup, MailTransport and KeepAlive -    *)
(* for TLC, in one run: a behaviour is one of the component that `side`    *)
(* names, while the others rest in an initial state.                       *)
EXTENDS Accounts, TLC

VARIABLE side

accessVars == <<account, opened, session, cookie, token, audit, request>>
projectVars == <<project, registered, users, call>>
startVars == <<default, others, boot, asked>>
mailVars == <<env, compiled, caller, job, accepted, unheard>>
pingVars == <<config, initialIn, pingIn, ping, quiet, missed, up>>

SideInit ==
    /\ side \in {"codes", "access", "projects", "starts", "mails", "pings"}
    /\ Init /\ (side # "codes" => user = "none")
    /\ Access!Init /\ (side # "access" => account.role = "USER")
    /\ Projects!Init /\ (side # "projects" => registered = {})
    /\ side # "projects" => project.status = "ACTIVE"
    /\ Starts!Init /\ (side # "starts" => others = {})
    /\ Mails!Init
    /\ side # "mails" => env = CHOOSE e \in Mails!Environment : TRUE
    /\ Pings!Init
    /\ side # "pings" => config = CHOOSE c \in Pings!Configuration : TRUE

SideNext ==
    /\ UNCHANGED side
    /\ \/ /\ side = "codes" /\ Next
          /\ UNCHANGED <<accessVars, projectVars, startVars, mailVars, pingVars>>
       \/ /\ side = "access" /\ Access!Next
          /\ UNCHANGED <<vars, projectVars, startVars, mailVars, pingVars>>
       \/ /\ side = "projects" /\ Projects!Next
          /\ UNCHANGED <<vars, accessVars, startVars, mailVars, pingVars>>
       \/ /\ side = "starts" /\ Starts!Next
          /\ UNCHANGED <<vars, accessVars, projectVars, mailVars, pingVars>>
       \/ /\ side = "mails" /\ Mails!Next
          /\ UNCHANGED <<vars, accessVars, projectVars, startVars, pingVars>>
       \/ /\ side = "pings" /\ Pings!Next
          /\ UNCHANGED <<vars, accessVars, projectVars, startVars, mailVars>>

allVars ==
    <<side, vars, accessVars, projectVars, startVars, mailVars, pingVars>>

SideSpec == SideInit /\ [][SideNext]_allVars

(* Op and External are the same values, since no part has both: that keeps *)
(* the group small.                                                        *)
Interchangeable == Permutations(Op) \cup Permutations(Errand)

(* Negative, missing, and on both sides of the bounds of 1 and 14.         *)
Intervals == {-5, 0, 1, 7, 14, 20}
=============================================================================
