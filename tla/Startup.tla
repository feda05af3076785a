------------------------------- MODULE Startup -------------------------------
(***************************************************************************)
(* The start of the server: the handler of api/index.js, which bootstraps  *)
(* the application at the first request of a process and keeps the promise *)
(* whatever becomes of it, and the two hooks of the bootstrap that can     *)
(* fail, ProjectService's for the default project and AuthService's for    *)
(* the instance of Better Auth.  The platform runs several processes on    *)
(* one database and replaces them at will.                                 *)
(*                                                                         *)
(* The hooks run one after another.  getAuth forgets a failed              *)
(* initialization, but its only caller before an instance exists is the    *)
(* hook, whose failure is the bootstrap's.                                 *)
(***************************************************************************)
EXTENDS Integers, FiniteSets

CONSTANTS
    Process,
    Request,        \* bound: the requests, of clients or of administrators
    Failures        \* the database may reject a call, an import may fail

Hook == {"project", "auth"}
Slug == {"plain", "suffixed"}   \* the default slug, and with the id's prefix

VARIABLES
    default,    \* the slug of the default project, or "none"
    others,     \* the slugs that other projects have
    boot,       \* per process: cachedServerPromise and the hook under way
    request     \* the requests: their process, and where they stand

vars == <<default, others, boot, request>>

Exists == default # "none"
Taken(slug) == slug \in others \cup {default}

(* A process that no request has reached; `auth` is _authInstance.  The    *)
(* last two fields are history: the default project was there when the     *)
(* bootstrap began, and a call of it was rejected for no reason of ours.   *)
Cold == [phase |-> "none", left |-> Hook, slug |-> "none", auth |-> FALSE,
         knew |-> FALSE, hurt |-> FALSE]

Fresh == [phase |-> "new", at |-> "none", slug |-> "none"]

Init ==
    /\ default = "none"
    /\ others \in SUBSET {"plain"}
    /\ boot = [p \in Process |-> Cold]
    /\ request = [r \in Request |-> Fresh]

Go(p, phase) == boot' = [boot EXCEPT ![p].phase = phase]

(* A hook is over. *)
Through(p, h) ==
    [boot[p] EXCEPT !.phase = "pending", !.left = @ \ {h}]

-----------------------------------------------------------------------------
(* A request reaches a process, and the first one starts the bootstrap. *)
Handle(r, p) ==
    /\ request[r].phase = "new"
    /\ request' = [request EXCEPT ![r] = [Fresh EXCEPT !.phase = "waiting",
                                                       !.at = p]]
    /\ boot' = IF boot[p].phase = "none"
               THEN [boot EXCEPT ![p].phase = "pending", ![p].knew = Exists]
               ELSE boot
    /\ UNCHANGED <<default, others>>

StartHook(p, h) ==
    /\ boot[p].phase = "pending"
    /\ h \in boot[p].left
    /\ Go(p, IF h = "project" THEN "find" ELSE "import")
    /\ UNCHANGED <<default, others, request>>

FindBySlug(p) ==                                                \* mutant
    /\ boot[p].phase = "find"
    /\ boot' = [boot EXCEPT ![p] = IF Taken("plain") THEN Through(p, "project")
                                   ELSE [@ EXCEPT !.phase = "slug"]]
    /\ UNCHANGED <<default, others, request>>

FindDefault(p) ==
    /\ boot[p].phase = "find"
    /\ boot' = [boot EXCEPT ![p] = IF Exists THEN Through(p, "project")
                                   ELSE [@ EXCEPT !.phase = "slug"]]
    /\ UNCHANGED <<default, others, request>>

(* The default slug, unless another project owns it. *)
ChooseSlug(p) ==
    /\ boot[p].phase = "slug"
    /\ boot' = [boot EXCEPT ![p].phase = "create",
                  ![p].slug = IF "plain" \in others THEN "suffixed" ELSE "plain"]
    /\ UNCHANGED <<default, others, request>>

(* The indexes on id and slug refuse a second one. *)
CreateDefault(p) ==
    /\ boot[p].phase = "create"
    /\ IF Exists \/ Taken(boot[p].slug)
       THEN Go(p, "rejected") /\ UNCHANGED default
       ELSE /\ default' = boot[p].slug
            /\ boot' = [boot EXCEPT ![p] = Through(p, "project")]
    /\ UNCHANGED <<others, request>>

BuildAuth(p) ==
    /\ boot[p].phase = "import"
    /\ boot' = [boot EXCEPT ![p] = [Through(p, "auth") EXCEPT !.auth = TRUE]]
    /\ UNCHANGED <<default, others, request>>

(* A rejected call rejects the hook, and the hook the bootstrap. *)
BootFails(p) ==
    /\ Failures
    /\ boot[p].phase \in {"find", "slug", "create", "import"}
    /\ boot' = [boot EXCEPT ![p].phase = "rejected", ![p].hurt = TRUE]
    /\ UNCHANGED <<default, others, request>>

Listen(p) ==
    /\ boot[p].phase = "pending"
    /\ boot[p].left = {}
    /\ Go(p, "ready")
    /\ UNCHANGED <<default, others, request>>

(* The awaited promise passes the request on, or throws. *)
Answer(r) ==
    LET p == request[r].at IN
    /\ request[r].phase = "waiting"
    /\ boot[p].phase \in {"ready", "rejected"}
    /\ request' = [request EXCEPT ![r].phase =
                     IF boot[p].phase = "ready" THEN "served" ELSE "failed"]
    /\ UNCHANGED <<default, others, boot>>

-----------------------------------------------------------------------------
(* ProjectService.create of another project, by a request that is served:  *)
(* the slug is looked up before it is used.                                *)
FindSlug(r, slug) ==
    /\ request[r].phase = "served"
    /\ ~Taken(slug)
    /\ request' = [request EXCEPT ![r].phase = "create", ![r].slug = slug]
    /\ UNCHANGED <<default, others, boot>>

CreateProject(r) ==
    /\ request[r].phase = "create"
    /\ request' = [request EXCEPT ![r].phase = "over"]
    /\ others' = IF Taken(request[r].slug) THEN others
                 ELSE others \cup {request[r].slug}
    /\ UNCHANGED <<default, boot>>

(* The platform ends a process with the requests that it has. *)
Recycle(p) ==
    /\ boot[p].phase # "none"
    /\ boot' = [boot EXCEPT ![p] = Cold]
    /\ request' = [r \in Request |->
                     IF request[r].at = p /\ request[r].phase # "over"
                     THEN [request[r] EXCEPT !.phase = "over"] ELSE request[r]]
    /\ UNCHANGED <<default, others>>

Next ==
    \/ \E p \in Process :
        \/ \E h \in Hook : StartHook(p, h)
        \/ FindDefault(p) \/ ChooseSlug(p) \/ CreateDefault(p)
        \/ BuildAuth(p) \/ BootFails(p) \/ Listen(p) \/ Recycle(p)
    \/ \E r \in Request :
        \/ \E p \in Process : Handle(r, p)
        \/ \E slug \in Slug : FindSlug(r, slug)
        \/ CreateProject(r) \/ Answer(r)

Spec == Init /\ [][Next]_vars

-----------------------------------------------------------------------------
(* A process that serves has its default project and its Better Auth, and  *)
(* one whose calls the database accepts fails to start only in a race for  *)
(* the first start: never once the default project was there, whatever     *)
(* slugs other projects have.                                              *)
StartIsSound ==
    \A p \in Process :
        /\ boot[p].phase = "ready" => Exists /\ boot[p].auth
        /\ boot[p].phase = "rejected" /\ ~boot[p].hurt => ~boot[p].knew
=============================================================================
