-------------------------- MODULE VerificationEmail --------------------------
(***************************************************************************)
(* VerificationEmailService: the durable queue of verification emails.     *)
(* Several processes share it through the database: Pollers, whose timer   *)
(* or status request drains the queue in batches, and Requests, each one   *)
(* enqueue of a registration or a resend; the Direct ones run on Vercel    *)
(* and deliver before they answer.                                         *)
(*                                                                         *)
(* A task is one run of deliver.  It holds the copy of the job it was      *)
(* given and, once it claimed the job, its lease.  Each step ends at an    *)
(* await.  Clocks are abstracted to one flag of a row, due: the time its   *)
(* status waits for has come (nextAttemptAt when PENDING, lockedUntil when *)
(* PROCESSING, the resend cooldown when SENT).  A lease is numbered by its *)
(* claim, as two claims of a job are never given the same lockedUntil.     *)
(***************************************************************************)
EXTENDS Naturals, FiniteSets

CONSTANTS
    Job,            \* one per OTP: otpId is unique
    Poller, Request, Direct,
    JobOf,          \* JobOf[r]: the job that the request r enqueues
    Slot,           \* bound: the runs of deliver under way at a time
    NoJob, NoWorker,
    BatchSize,      \* take of processBatch
    MaxAttempts,    \* attempts after which a delivery has failed
    MaxLapses,      \* bound: leases that run out under a slow holder
    MaxFaults       \* bound: processes that stop, database calls rejected

Worker == Poller \cup Request

ASSUME EmailAssumption ==
    /\ Poller \cap Request = {}
    /\ Direct \subseteq Request
    /\ JobOf \in [Request -> Job]
    /\ NoJob \notin Job
    /\ NoWorker \notin Worker
    /\ BatchSize \in Nat \ {0}
    /\ MaxAttempts \in Nat \ {0}
    /\ MaxLapses \in Nat
    /\ MaxFaults \in Nat

VARIABLES
    row,        \* the collection verification_email_deliveries
    usable,     \* the jobs whose code is neither used, expired nor removed
    task,       \* the runs of deliver
    batch,      \* per poller, the tasks its running promise still awaits
    request,    \* where an enqueue stands, and the row it read
    mailed,     \* <<job, lease>>: a mail that the SMTP server accepted
    lapsed,     \* <<job, lease>>: a lease that ran out under its holder
    faults

vars == <<row, usable, task, batch, request, mailed, lapsed, faults>>

Absent == [status |-> "ABSENT", attempts |-> 0, due |-> FALSE, lease |-> 0]
Free == [phase |-> "free", job |-> NoJob, owner |-> NoWorker, seen |-> 0,
         lease |-> 0]

Fault == faults < MaxFaults /\ faults' = faults + 1

Active(t) == task[t].phase \in {"check", "cancel", "send", "confirm", "fail"}

ClaimableOnce(j) == row[j].status = "PENDING" /\ row[j].due      \* mutant

(* The where clause of findMany and of the claim. *)
Claimable(j) == row[j].status \in {"PENDING", "PROCESSING"} /\ row[j].due

(* The where clause of every update that follows the claim. *)
HoldsAnything(t) ==                                             \* mutant
    row[task[t].job].lease = task[t].lease

Holds(t) ==
    /\ row[task[t].job].status = "PROCESSING"
    /\ row[task[t].job].lease = task[t].lease

Started(w, j, n) ==
    [phase |-> "claim", job |-> j, owner |-> w, seen |-> n, lease |-> 0]

Enter(t, p) == task' = [task EXCEPT ![t].phase = p]

(* deliver returns, and with it this part of the batch. *)
Finish(t) ==
    /\ task' = [task EXCEPT ![t] = Free]
    /\ batch' = [p \in Poller |-> batch[p] \ {t}]

(* deliver rejects: Promise.all rejects and drain forgets the whole batch, *)
(* whose other deliveries go on.                                           *)
Abort(t) ==
    /\ task' = [task EXCEPT ![t] = Free]
    /\ batch' = [p \in Poller |-> IF t \in batch[p] THEN {} ELSE batch[p]]

(* A status that a task reports, with a new time to wait for. *)
Concluded(t, s) ==
    [row EXCEPT ![task[t].job] = [status |-> s, attempts |-> @.attempts,
                                  due |-> FALSE, lease |-> @.lease]]

(* The state that a delivery which starts over is in. *)
Restarted(j) ==
    [row EXCEPT ![j] = [status |-> "PENDING", attempts |-> 0, due |-> TRUE,
                        lease |-> @.lease]]

-----------------------------------------------------------------------------
Init ==
    /\ row = [j \in Job |-> Absent]
    /\ usable = Job
    /\ task = [t \in Slot |-> Free]
    /\ batch = [p \in Poller |-> {}]
    /\ request = [r \in Request |-> [phase |-> "idle", seen |-> Absent]]
    /\ mailed = {}
    /\ lapsed = {}
    /\ faults = 0

(* Vercel delivers the row it read; elsewhere enqueue only wakes a poller. *)
Hand(r, n) ==
    IF r \in Direct
    THEN \E t \in Slot :
            /\ task[t] = Free
            /\ task' = [task EXCEPT ![t] = Started(r, JobOf[r], n)]
    ELSE UNCHANGED task

(* A failed delivery, or a sent one after the cooldown, is sent again. *)
Resend(seen) ==
    \/ seen.status = "FAILED"
    \/ seen.status = "SENT" /\ seen.due

(* The upsert of a job that exists already changes nothing. *)
Enqueue(r) ==
    LET j == JobOf[r] IN
    /\ request[r].phase = "idle"
    /\ IF row[j].status = "ABSENT"
       THEN row' = Restarted(j) ELSE UNCHANGED row
    /\ IF Resend(row[j])
       THEN /\ request' = [request EXCEPT ![r] =
                              [phase |-> "reset", seen |-> row[j]]]
            /\ UNCHANGED task
       ELSE /\ request' = [request EXCEPT ![r].phase = "done"]
            /\ Hand(r, row[j].attempts)
    /\ UNCHANGED <<usable, batch, mailed, lapsed, faults>>

(* The update applies only to the very row that was read: updatedAt has    *)
(* changed if its job was claimed, and so got another lease, since.        *)
Reset(r) ==
    LET j == JobOf[r] IN
    /\ request[r].phase = "reset"
    /\ row' = IF /\ row[j].status = request[r].seen.status
                 /\ row[j].lease = request[r].seen.lease
              THEN Restarted(j) ELSE row
    /\ request' = [request EXCEPT ![r].phase = "reread"]
    /\ UNCHANGED <<usable, task, batch, mailed, lapsed, faults>>

Reread(r) ==
    /\ request[r].phase = "reread"
    /\ request' = [request EXCEPT ![r].phase = "done"]
    /\ Hand(r, row[JobOf[r]].attempts)
    /\ UNCHANGED <<row, usable, batch, mailed, lapsed, faults>>

(* drain by a poller that is not running: findMany takes the first         *)
(* BatchSize claimable rows and deliver starts on each.                    *)
Poll(p) ==
    LET found == {j \in Job : Claimable(j)}
        IsTaken(n) == \/ n = BatchSize /\ n <= Cardinality(found)
                      \/ n < BatchSize /\ n = Cardinality(found)
    IN
    /\ batch[p] = {}
    /\ \E S \in SUBSET {t \in Slot : task[t] = Free} :
        /\ S # {}
        /\ IsTaken(Cardinality(S))
        /\ \E f \in [S -> found] :
            /\ \A t, u \in S : f[t] = f[u] => t = u
            /\ task' = [t \in Slot |-> IF t \in S
                          THEN Started(p, f[t], row[f[t]].attempts)
                          ELSE task[t]]
        /\ batch' = [batch EXCEPT ![p] = S]
    /\ UNCHANGED <<row, usable, request, mailed, lapsed, faults>>

(* The conditional update of deliver, which takes the lease. *)
ClaimAnyway(t) ==                                               \* mutant
    LET j == task[t].job IN
    /\ task[t].phase = "claim"
    /\ row[j].status \in {"PENDING", "PROCESSING"}
    /\ row' = [row EXCEPT ![j] =
                 [status |-> "PROCESSING", attempts |-> @.attempts + 1,
                  due |-> FALSE, lease |-> @.lease + 1]]
    /\ task' = [task EXCEPT ![t].phase = "check",
                            ![t].lease = row[j].lease + 1]
    /\ UNCHANGED <<usable, batch, request, mailed, lapsed, faults>>

Claim(t) ==
    LET j == task[t].job IN
    /\ task[t].phase = "claim"
    /\ Claimable(j)
    /\ row' = [row EXCEPT ![j] =
                 [status |-> "PROCESSING", attempts |-> @.attempts + 1,
                  due |-> FALSE, lease |-> @.lease + 1]]
    /\ task' = [task EXCEPT ![t].phase = "check",
                            ![t].lease = row[j].lease + 1]
    /\ UNCHANGED <<usable, batch, request, mailed, lapsed, faults>>

ClaimNothing(t) ==
    /\ task[t].phase = "claim"
    /\ ~Claimable(task[t].job)
    /\ Finish(t)
    /\ UNCHANGED <<row, usable, request, mailed, lapsed, faults>>

ClaimRejected(t) ==
    /\ Fault
    /\ task[t].phase = "claim"
    /\ Abort(t)
    /\ UNCHANGED <<row, usable, request, mailed, lapsed>>

CheckBackwards(t) ==                                            \* mutant
    /\ task[t].phase = "check"
    /\ Enter(t, "cancel")
    /\ UNCHANGED <<row, usable, batch, request, mailed, lapsed, faults>>

(* otpToken.findUnique: a used, expired or removed code is not sent. *)
Check(t) ==
    /\ task[t].phase = "check"
    /\ Enter(t, IF task[t].job \in usable THEN "send" ELSE "cancel")
    /\ UNCHANGED <<row, usable, batch, request, mailed, lapsed, faults>>

Cancel(t) ==
    /\ task[t].phase = "cancel"
    /\ row' = IF Holds(t)
              THEN Concluded(t, "CANCELLED") ELSE row
    /\ Finish(t)
    /\ UNCHANGED <<usable, request, mailed, lapsed, faults>>

(* sendOtpEmail returns true only for a mail the server accepted; a mail   *)
(* may be accepted and the answer time out.                                *)
Send(t) ==
    /\ task[t].phase = "send"
    /\ \/ /\ mailed' = mailed \cup {<<task[t].job, task[t].lease>>}
          /\ \E p \in {"confirm", "fail"} : Enter(t, p)
       \/ /\ UNCHANGED mailed
          /\ Enter(t, "fail")
    /\ UNCHANGED <<row, usable, batch, request, lapsed, faults>>

Confirm(t) ==
    /\ task[t].phase = "confirm"
    /\ row' = IF Holds(t)
              THEN Concluded(t, "SENT") ELSE row
    /\ Finish(t)
    /\ UNCHANGED <<usable, request, mailed, lapsed, faults>>

(* A database call inside the try rejects, the update of the status maybe  *)
(* after it committed.                                                     *)
Rejected(t) ==
    /\ Fault
    /\ task[t].phase \in {"check", "cancel", "confirm"}
    /\ \/ UNCHANGED row
       \/ /\ task[t].phase = "cancel" /\ Holds(t)
          /\ row' = Concluded(t, "CANCELLED")
       \/ /\ task[t].phase = "confirm" /\ Holds(t)
          /\ row' = Concluded(t, "SENT")
    /\ Enter(t, "fail")
    /\ UNCHANGED <<usable, batch, request, mailed, lapsed>>

LastAttemptEarly(t) == task[t].seen + 2 >= MaxAttempts          \* mutant

(* The catch clause counts attempts on its copy of the job, read before    *)
(* the claim.                                                              *)
LastAttempt(t) == task[t].seen + 1 >= MaxAttempts

Fail(t) ==
    /\ task[t].phase = "fail"
    /\ row' = IF Holds(t)
              THEN Concluded(t, IF LastAttempt(t) THEN "FAILED" ELSE "PENDING")
              ELSE row
    /\ Finish(t)
    /\ UNCHANGED <<usable, request, mailed, lapsed, faults>>

FailRejected(t) ==
    /\ Fault
    /\ task[t].phase = "fail"
    /\ Abort(t)
    /\ UNCHANGED <<row, usable, request, mailed, lapsed>>

(* The process of w stops with its deliveries; a request that dies before  *)
(* its delivery is one that takes no further step.                         *)
Crash(w) ==
    /\ Fault
    /\ \E t \in Slot : task[t].owner = w
    /\ task' = [t \in Slot |-> IF task[t].owner = w THEN Free ELSE task[t]]
    /\ batch' = [p \in Poller |-> IF p = w THEN {} ELSE batch[p]]
    /\ UNCHANGED <<row, usable, request, mailed, lapsed>>

(* verifyEmail uses the code, or it expires. *)
CodeGone(j) ==
    /\ j \in usable
    /\ usable' = usable \ {j}
    /\ UNCHANGED <<row, task, batch, request, mailed, lapsed, faults>>

Held(j) == \E t \in Slot : /\ Active(t) /\ task[t].job = j
                           /\ task[t].lease = row[j].lease

(* Time passes for a row; a lease may run out under its holder. *)
TimeComes(j) ==
    /\ row[j].status \in {"PENDING", "SENT", "PROCESSING"}
    /\ ~row[j].due
    /\ row[j].status = "PROCESSING" => ~Held(j)
    /\ row' = [row EXCEPT ![j].due = TRUE]
    /\ UNCHANGED <<usable, task, batch, request, mailed, lapsed, faults>>

LeaseLapses(j) ==
    /\ Cardinality(lapsed) < MaxLapses
    /\ row[j].status = "PROCESSING"
    /\ ~row[j].due
    /\ Held(j)
    /\ row' = [row EXCEPT ![j].due = TRUE]
    /\ lapsed' = lapsed \cup {<<j, row[j].lease>>}
    /\ UNCHANGED <<usable, task, batch, request, mailed, faults>>

-----------------------------------------------------------------------------
Deliver(t) ==
    \/ Claim(t) \/ ClaimNothing(t) \/ ClaimRejected(t)
    \/ Check(t) \/ Cancel(t)
    \/ Send(t) \/ Confirm(t)
    \/ Rejected(t) \/ Fail(t) \/ FailRejected(t)

Next ==
    \/ \E r \in Request : Enqueue(r) \/ Reset(r) \/ Reread(r)
    \/ \E p \in Poller : Poll(p)
    \/ \E t \in Slot : Deliver(t)
    \/ \E w \in Worker : Crash(w)
    \/ \E j \in Job : CodeGone(j) \/ TimeComes(j) \/ LeaseLapses(j)

Spec == Init /\ [][Next]_vars

(* The timer of a poller ticks every three seconds, every call is answered *)
(* and time passes.                                                        *)
FairSpec ==
    /\ Spec
    /\ \A p \in Poller : WF_vars(Poll(p))
    /\ \A t \in Slot : WF_vars(Deliver(t))
    /\ \A j \in Job : WF_vars(TimeComes(j))

-----------------------------------------------------------------------------
Status == {"ABSENT", "PENDING", "PROCESSING", "SENT", "FAILED", "CANCELLED"}
Row == [status : Status, attempts : Nat, due : BOOLEAN, lease : Nat]
Phase == {"claim", "check", "cancel", "send", "confirm", "fail"}
Task == [phase : Phase, job : Job, owner : Worker, seen : Nat, lease : Nat]

TypeOK ==
    /\ row \in [Job -> Row]
    /\ usable \subseteq Job
    /\ task \in [Slot -> Task \cup {Free}]
    /\ batch \in [Poller -> SUBSET Slot]
    /\ request \in [Request ->
            [phase : {"idle", "reset", "reread", "done"}, seen : Row]]
    /\ mailed \subseteq Job \X Nat
    /\ lapsed \subseteq Job \X Nat
    /\ faults \in 0..MaxFaults

Mailing(t) == task[t].phase \in {"check", "cancel", "send", "confirm"}

(* Two deliveries of one code run at once only if the lease of one ran out *)
(* under it: not because two processes polled the same job, a restarted    *)
(* process took it over, a resend restarted it or Vercel delivers it too.  *)
ExclusiveDelivery ==
    \A t, u \in Slot :
        Mailing(t) /\ Mailing(u) /\ task[t].job = task[u].job /\ t # u =>
            \E v \in {t, u} : <<task[v].job, task[v].lease>> \in lapsed

(* A job is shown as sent only if the mail of the very delivery that       *)
(* concluded it was accepted: a delivery that lost its lease cannot report *)
(* in place of the one that took over.                                     *)
SentIsMailed ==
    \A j \in Job : row[j].status = "SENT" => <<j, row[j].lease>> \in mailed

(* A delivery is cancelled only for a code that can no longer be used: the *)
(* job is never sent again, as a resend leaves it cancelled.               *)
CancelledIsGone ==
    \A j \in Job : row[j].status = "CANCELLED" => j \notin usable

(* Without resends a delivery has failed only after all its attempts, even *)
(* if they were counted on stale copies of the job.                        *)
FailsAfterAllAttempts ==
    \A j \in Job : row[j].status = "FAILED" => row[j].attempts >= MaxAttempts

Final == {"SENT", "FAILED", "CANCELLED"}

(* The outcome of a delivery stands until a resend starts it over; a slow  *)
(* worker that reports late changes nothing.                               *)
OutcomeStands ==
    [][\A j \in Job :
        row[j].status \in Final /\ row'[j].status # row[j].status =>
            /\ row[j].status # "CANCELLED"
            /\ row'[j].status = "PENDING"
            /\ row'[j].attempts = 0]_vars

(* Several clicks on resend restart a delivery once, when it has failed or *)
(* its cooldown is over, and never one that another click has restarted.   *)
RestartIsEarned ==
    [][\A j \in Job : row'[j].attempts < row[j].attempts =>
            Resend(row[j])]_vars

(* The final statuses say what became of the code, *)
OutcomesAreTrue == SentIsMailed /\ CancelledIsGone

(* and they last. *)
OutcomesLast == OutcomeStands /\ RestartIsEarned

(* Every queued email is sent, given up or cancelled in the end, though    *)
(* processes crash with it in hand.                                        *)
DeliverySettles ==
    \A j \in Job : row[j].status \in {"PENDING", "PROCESSING"} ~>
                        row[j].status \in Final
=============================================================================
