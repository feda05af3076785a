---------------------------- MODULE ProjectAccess ----------------------------
(***************************************************************************)
(* Who may use a project: its status and API key (ProjectService), the     *)
(* guards that look both up for every REST call and for the handshake of   *)
(* a socket, and the project's communication users, who are provisioned    *)
(* from the registered users the first time somebody asks for them.        *)
(*                                                                         *)
(* A Call is one request; its phase names the database call it awaits.     *)
(* An upsert is a lookup and then a create, which the unique index refuses *)
(* when another call was faster.  One project; its keys are numbered in    *)
(* the order in which they were made.                                      *)
(***************************************************************************)
EXTENDS Integers, FiniteSets

CONSTANTS
    External,   \* the externalIds: ids of registered users, or foreign ones
    Call,       \* bound: the requests
    LastKey,    \* bound: the keys are 1..LastKey
    MaxFound,   \* the users that one discovery finds (take: 50)
    PageLimit,  \* the rows of a page
    LastPage,   \* bound: the pages are 1..LastPage
    Failures    \* the database may reject a call

ById == 0       \* the request names the project by its id, not by a key
Unread == -1    \* a query that has not been answered

VARIABLES
    project,    \* its status and its current key
    registered, \* the User table
    users,      \* the externalIds of the project's communication users
    call        \* the requests: what they carry and where they stand

vars == <<project, registered, users, call>>

Active == project.status = "ACTIVE"

Idle == [phase |-> "idle", kind |-> "none", user |-> "none", key |-> ById,
         work |-> [x \in External |-> "none"], blind |-> FALSE,
         listed |-> {}, barred |-> FALSE, known |-> {},
         total |-> Unread, page |-> 0]

Refused == [Idle EXCEPT !.phase = "refused"]
Passed(c) == [Idle EXCEPT !.phase = "passed", !.barred = call[c].barred]

Init ==
    /\ project \in [status : {"ACTIVE", "SUSPENDED"}, key : {1}]
    /\ registered \in SUBSET External
    /\ users = {}
    /\ call = [c \in Call |-> Idle]

(* Better Auth registers a user. *)
Register(x) ==
    /\ x \notin registered
    /\ registered' = registered \cup {x}
    /\ UNCHANGED <<project, users, call>>

-----------------------------------------------------------------------------
(* ProjectService.update and regenerateKeys, after findById.  A request    *)
(* that began while the project was suspended may pass once it is active.  *)
SetStatus(c, status) ==
    /\ call[c].phase = "idle"
    /\ project' = [project EXCEPT !.status = status]
    /\ call' = [d \in Call |->
           IF d = c THEN [Idle EXCEPT !.phase = "over"]
           ELSE [call[d] EXCEPT !.barred =
                    @ /\ ~(status = "ACTIVE" /\ call[d].key \in {ById, project.key})]]
    /\ UNCHANGED <<registered, users>>

RegenerateKeys(c) ==
    /\ call[c].phase = "idle"
    /\ project.key < LastKey
    /\ project' = [project EXCEPT !.key = @ + 1]
    /\ call' = [call EXCEPT ![c] = [Idle EXCEPT !.phase = "over"]]
    /\ UNCHANGED <<registered, users>>

-----------------------------------------------------------------------------
(* A guarded request: "id" carries x-user-id, "session" a signed-in user,  *)
(* "known" has x-external-id or is the handshake of a socket.  The         *)
(* integrator's "sync" and the "directory" pass the ProjectGuard alone; a  *)
(* header may tell the directory who asks, whoever that is.                *)
Kind == {"id", "session", "known", "sync", "directory"}

Ask(c, kind, x, key) ==
    /\ call[c].phase = "idle"
    /\ key <= project.key
    /\ kind = "session" => x \in registered
    /\ x = "none" => kind = "directory"
    /\ call' = [call EXCEPT ![c] =
           [Idle EXCEPT !.phase = "project", !.kind = kind, !.user = x,
                        !.key = key,
                        !.barred = ~Active \/ key \notin {ById, project.key}]]
    /\ UNCHANGED <<project, registered, users>>

AdmitsKey(c) ==                                                 \* mutant
    IF call[c].key = ById THEN Active ELSE call[c].key = project.key

(* The lookup by key, or else by id, and the check of the status. *)
Admits(c) == call[c].key \in {ById, project.key} /\ Active

(* The work of an upsert of user x. *)
Provision(c, x) ==
    [call[c] EXCEPT !.phase = "upsert", !.key = ById, !.work[x] = "look"]

(* A request that is admitted has no more use for its key. *)
FindProject(c) ==
    /\ call[c].phase = "project"
    /\ call' = [call EXCEPT ![c] =
           IF ~Admits(c) THEN Refused
           ELSE IF @.kind = "sync" THEN Provision(c, @.user)
           ELSE [@ EXCEPT !.phase = IF call[c].kind = "directory"
                                    THEN "discover" ELSE "user",
                          !.key = ById]]
    /\ UNCHANGED <<project, registered, users>>

(* Only x-user-id and a session provision the user; the id in the header   *)
(* is looked up among the registered users first.                          *)
FindUser(c) ==
    /\ call[c].phase = "user"
    /\ call' = [call EXCEPT ![c] =
           IF @.user \in users THEN Passed(c)
           ELSE IF @.kind = "session" THEN Provision(c, @.user)
           ELSE IF @.kind = "id" THEN [@ EXCEPT !.phase = "system"]
           ELSE Refused]
    /\ UNCHANGED <<project, registered, users>>

FindSystemUser(c) ==
    /\ call[c].phase = "system"
    /\ call' = [call EXCEPT ![c] =
           IF @.user \in registered THEN Provision(c, @.user)
           ELSE Refused]
    /\ UNCHANGED <<project, registered, users>>

-----------------------------------------------------------------------------
(* The upserts of a call, those of the directory in parallel.              *)

Working(c) == {x \in External : call[c].work[x] \in {"look", "insert"}}

Done(c, x) ==
    IF call[c].kind # "directory" THEN Passed(c)
    ELSE [call[c] EXCEPT !.work[x] = "done",
                         !.phase = IF @ = "upsert" /\ Working(c) = {x}
                                   THEN "ids" ELSE @]

Look(c, x) ==
    /\ call[c].work[x] = "look"
    /\ call' = [call EXCEPT ![c] = IF x \in users THEN Done(c, x)
                                   ELSE [@ EXCEPT !.work[x] = "insert"]]
    /\ UNCHANGED <<project, registered, users>>

Insert(c, x) ==
    /\ call[c].work[x] = "insert"
    /\ x \notin users
    /\ users' = users \cup {x}
    /\ call' = [call EXCEPT ![c] = Done(c, x)]
    /\ UNCHANGED <<project, registered>>

(* A lookup or a create is rejected, the create because the user is there. *)
(* The directory logs it and goes on without its filter; the upserts that  *)
(* are still under way go on as well.                                      *)
UpsertFails(c, x) ==
    /\ x \in Working(c)
    /\ Failures \/ (call[c].work[x] = "insert" /\ x \in users)
    /\ call' = [call EXCEPT ![c] =
           IF @.kind # "directory" THEN Refused
           ELSE [@ EXCEPT !.work[x] = "failed", !.blind = TRUE,
                          !.phase = IF call[c].phase = "upsert" THEN "rows"
                                    ELSE call[c].phase]]
    /\ UNCHANGED <<project, registered, users>>

-----------------------------------------------------------------------------
(* CommunicationUserService.findAll. *)

(* The discovery has a limit and no order: of more users it may find any.  *)
Discover(c) ==
    /\ call[c].phase = "discover"
    /\ \E found \in SUBSET registered :
        /\ Cardinality(found) = MaxFound
              \/ (found = registered /\ Cardinality(found) < MaxFound)
        /\ call' = [call EXCEPT ![c] =
               [@ EXCEPT !.phase = IF found = {} THEN "ids" ELSE "upsert",
                         !.work = [x \in External |->
                                      IF x \in found THEN "look" ELSE "none"]]]
    /\ UNCHANGED <<project, registered, users>>

(* The ids of all registered users. *)
FindIds(c) ==
    /\ call[c].phase = "ids"
    /\ call' = [call EXCEPT ![c] =
           [@ EXCEPT !.phase = "rows", !.known = registered]]
    /\ UNCHANGED <<project, registered, users>>

SearchFails(c) ==
    /\ Failures
    /\ call[c].phase \in {"discover", "ids"}
    /\ call' = [call EXCEPT ![c] = [@ EXCEPT !.phase = "rows", !.blind = TRUE]]
    /\ UNCHANGED <<project, registered, users>>

FilterNone(known) == External                                   \* mutant

(* An empty set of ids filters nothing. *)
Filter(known) == IF known = {} THEN External ELSE known

Matching(c) == (users \cap Filter(call[c].known)) \ {call[c].user}

(* How many of n rows are on a page. *)
PageSize(page, n) ==
    LET left == n - (page - 1) * PageLimit IN
    IF left > PageLimit THEN PageLimit ELSE IF left > 0 THEN left ELSE 0

(* The count and the rows are two queries that run at the same time. *)
Answer(c, r) ==
    call' = [call EXCEPT ![c] =
        IF r.total = Unread \/ r.page = 0 THEN r
        ELSE [r EXCEPT !.phase = "listed"]]

Count(c) ==
    /\ call[c].phase = "rows"
    /\ call[c].total = Unread
    /\ Answer(c, [call[c] EXCEPT !.total = Cardinality(Matching(c))])
    /\ UNCHANGED <<project, registered, users>>

(* The rows are in the order in which the users were provisioned, which is *)
(* not kept here: the page has any of them.                                *)
FindRows(c, page) ==
    /\ call[c].phase = "rows"
    /\ call[c].page = 0
    /\ \E rows \in SUBSET Matching(c) :
        /\ Cardinality(rows) = PageSize(page, Cardinality(Matching(c)))
        /\ Answer(c, [call[c] EXCEPT !.page = page, !.listed = rows])
    /\ UNCHANGED <<project, registered, users>>

(* A lookup of a guard, or one of the last two queries, is rejected. *)
Reject(c) ==
    /\ Failures
    /\ call[c].phase \in {"project", "user", "system", "rows"}
    /\ call' = [call EXCEPT ![c] = Refused]
    /\ UNCHANGED <<project, registered, users>>

-----------------------------------------------------------------------------
Next ==
    \/ \E x \in External : Register(x)
    \/ \E c \in Call :
        \/ \E status \in {"ACTIVE", "SUSPENDED"} : SetStatus(c, status)
        \/ RegenerateKeys(c)
        \/ \E kind \in Kind, x \in External \cup {"none"}, key \in 0..LastKey :
                Ask(c, kind, x, key)
        \/ FindProject(c) \/ FindUser(c) \/ FindSystemUser(c)
        \/ \E x \in External : Look(c, x) \/ Insert(c, x) \/ UpsertFails(c, x)
        \/ Discover(c) \/ FindIds(c) \/ SearchFails(c) \/ Count(c)
        \/ \E page \in 1..LastPage : FindRows(c, page)
        \/ Reject(c)

Spec == Init /\ [][Next]_vars

-----------------------------------------------------------------------------
(* A request that began after the project was suspended, or after the key  *)
(* it carries was replaced, does not pass, on whichever way it came, unless*)
(* the project was activated again before its guard looked.                *)
RevokedIsRefused ==
    \A c \in Call : call[c].barred => call[c].phase = "project"

(* A directory lists registered users only.  Of those that it found when it*)
(* began, but for the one who asks, none is left out of its total, and none*)
(* of a first page that has room for more - if the discovery did not fail  *)
(* on the way, and anybody was registered when the ids were read.          *)
DirectoryIsRegistered ==
    \A c \in Call :
        LET found == {x \in External : call[c].work[x] # "none"}
            others == found \ {call[c].user} IN
        call[c].phase = "listed" /\ ~call[c].blind /\ call[c].known # {} =>
            /\ call[c].listed \subseteq registered
            /\ Cardinality(others) <= call[c].total
            /\ call[c].page = 1 /\ Cardinality(call[c].listed) < PageLimit =>
                  others \subseteq call[c].listed
=============================================================================
