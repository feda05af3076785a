----------------------- MODULE VerificationEmailProofs -----------------------
(***************************************************************************)
(* Proofs about VerificationEmail for any jobs, processes, requests and    *)
(* bounds.  The argument is about leases: a job's lease number grows with  *)
(* each claim, so a task whose lease is the row's is its only holder, and  *)
(* as long as its lease has not run out nobody else can claim the row.     *)
(***************************************************************************)
EXTENDS VerificationEmail, TLAPS

(* A delivery under way works on a lease that was given out, its own. *)
LeasesDiffer ==
    /\ \A t \in Slot : Active(t) => task[t].lease <= row[task[t].job].lease
    /\ \A t, u \in Slot :
        Active(t) /\ Active(u) /\ task[t].job = task[u].job
          /\ task[t].lease = task[u].lease => t = u

(* While its lease lasts, the row belongs to the delivery. *)
HolderUndisturbed ==
    \A t \in Slot :
        Mailing(t) /\ <<task[t].job, task[t].lease>> \notin lapsed =>
            Holds(t) /\ ~row[task[t].job].due

(* What a delivery found out before it reports. *)
TaskKnows ==
    \A t \in Slot :
        /\ task[t].phase = "confirm" =>
                <<task[t].job, task[t].lease>> \in mailed
        /\ task[t].phase = "cancel" => task[t].job \notin usable

(* The row that a resend read can only have been restarted since, or       *)
(* claimed with a new lease.                                               *)
ResendKnows ==
    \A r \in Request : request[r].phase = "reset" =>
        LET seen == request[r].seen
            now == row[JobOf[r]] IN
        /\ Resend(seen)
        /\ seen.lease <= now.lease
        /\ now.lease = seen.lease =>
              /\ now.status \in {seen.status, "PENDING"}
              /\ now.status = seen.status /\ seen.due => now.due

NotYetThere ==
    \A j \in Job : row[j].status = "ABSENT" => row[j] = Absent

Inv ==
    /\ TypeOK
    /\ LeasesDiffer
    /\ HolderUndisturbed
    /\ TaskKnows
    /\ ResendKnows
    /\ NotYetThere
    /\ SentIsMailed
    /\ CancelledIsGone

-----------------------------------------------------------------------------
(* The rows and tasks that the actions write. *)
LEMMA AbsentType == Absent \in Row
  BY DEF Absent, Row, Status

LEMMA RestartedType ==
  ASSUME TypeOK, NEW j \in Job
  PROVE  /\ Restarted(j) \in [Job -> Row]
         /\ Restarted(j)[j] = [status |-> "PENDING", attempts |-> 0,
                               due |-> TRUE, lease |-> row[j].lease]
         /\ \A i \in Job : i # j => Restarted(j)[i] = row[i]
  BY DEF TypeOK, Restarted, Row, Status

LEMMA StartedType ==
  ASSUME NEW w \in Worker, NEW j \in Job, NEW n \in Nat
  PROVE  Started(w, j, n) \in Task
  BY DEF Started, Task, Phase

(* A delivery under way has a job and a lease. *)
LEMMA BusyTask ==
  ASSUME TypeOK, NEW t \in Slot, task[t].phase # "free"
  PROVE  task[t] \in Task
  BY DEF TypeOK, Free

LEMMA EnterType ==
  ASSUME TypeOK, NEW t \in Slot, task[t].phase # "free", NEW p \in Phase,
         Enter(t, p)
  PROVE  task' \in [Slot -> Task \cup {Free}]
  BY BusyTask DEF TypeOK, Enter, Task

LEMMA FinishType ==
  ASSUME TypeOK, NEW t \in Slot, Finish(t) \/ Abort(t)
  PROVE  /\ task' \in [Slot -> Task \cup {Free}]
         /\ batch' \in [Poller -> SUBSET Slot]
  BY DEF TypeOK, Finish, Abort

LEMMA HandType ==
  ASSUME EmailAssumption, TypeOK, NEW r \in Request, NEW n \in Nat, Hand(r, n)
  PROVE  /\ task' \in [Slot -> Task \cup {Free}]
         /\ \A t \in Slot : task'[t] # task[t] =>
                task[t].phase = "free" /\ task'[t].phase = "claim"
  <1>1. JobOf[r] \in Job /\ r \in Worker
    BY DEF EmailAssumption, Worker
  <1>2. Started(r, JobOf[r], n) \in Task
    BY <1>1, StartedType
  <1> QED
    BY <1>2 DEF Hand, TypeOK, Started, Free

LEMMA FaultType ==
  ASSUME EmailAssumption, TypeOK, Fault
  PROVE  faults' \in 0..MaxFaults
  BY DEF EmailAssumption, TypeOK, Fault

-----------------------------------------------------------------------------
(* Type correctness, one lemma per action that is not a plain Enter. *)
LEMMA InitType == EmailAssumption /\ Init => TypeOK
  BY AbsentType DEF Init, TypeOK, EmailAssumption

LEMMA EnqueueType ==
  ASSUME EmailAssumption, TypeOK, NEW r \in Request, Enqueue(r)
  PROVE  TypeOK'
  <1> DEFINE j == JobOf[r]
  <1>0. j \in Job /\ row[j] \in Row /\ row[j].attempts \in Nat
    BY DEF EmailAssumption, TypeOK, Row
  <1>1. row' \in [Job -> Row]
    BY ZenonT(40), <1>0, RestartedType DEF Enqueue, TypeOK
  <1>2. request' \in [Request ->
            [phase : {"idle", "reset", "reread", "done"}, seen : Row]]
    BY <1>0 DEF Enqueue, TypeOK
  <1>3. task' \in [Slot -> Task \cup {Free}]
    BY <1>0, HandType DEF Enqueue, TypeOK
  <1> QED
    BY <1>1, <1>2, <1>3 DEF Enqueue, TypeOK

LEMMA ResetType ==
  ASSUME EmailAssumption, TypeOK, NEW r \in Request, Reset(r)
  PROVE  TypeOK'
  <1>0. JobOf[r] \in Job
    BY DEF EmailAssumption
  <1>1. row' \in [Job -> Row]
    BY <1>0, RestartedType DEF Reset, TypeOK
  <1> QED
    BY <1>1 DEF Reset, TypeOK

LEMMA RereadType ==
  ASSUME EmailAssumption, TypeOK, NEW r \in Request, Reread(r)
  PROVE  TypeOK'
  <1>0. row[JobOf[r]].attempts \in Nat
    BY DEF EmailAssumption, TypeOK, Row
  <1>1. task' \in [Slot -> Task \cup {Free}]
    BY <1>0, HandType DEF Reread
  <1> QED
    BY <1>1 DEF Reread, TypeOK

(* What a poll starts. *)
LEMMA PollStarts ==
  ASSUME TypeOK, NEW p \in Poller, Poll(p)
  PROVE  \A t \in Slot : task'[t] # task[t] =>
            /\ task[t] = Free
            /\ \E j \in Job : task'[t] = Started(p, j, row[j].attempts)
  <1>1. PICK S \in SUBSET {t \in Slot : task[t] = Free} :
          \E f \in [S -> {j \in Job : Claimable(j)}] :
            task' = [t \in Slot |-> IF t \in S
                       THEN Started(p, f[t], row[f[t]].attempts)
                       ELSE task[t]]
    BY DEF Poll
  <1>2. PICK f \in [S -> {j \in Job : Claimable(j)}] :
            task' = [t \in Slot |-> IF t \in S
                       THEN Started(p, f[t], row[f[t]].attempts)
                       ELSE task[t]]
    BY <1>1
  <1> SUFFICES ASSUME NEW t \in Slot, task'[t] # task[t]
               PROVE  /\ task[t] = Free
                      /\ \E j \in Job :
                            task'[t] = Started(p, j, row[j].attempts)
    OBVIOUS
  <1>3. t \in S
    BY <1>2
  <1>4. f[t] \in Job /\ task'[t] = Started(p, f[t], row[f[t]].attempts)
    BY <1>2, <1>3
  <1> QED
    BY <1>3, <1>4

LEMMA PollType ==
  ASSUME TypeOK, NEW p \in Poller, Poll(p)
  PROVE  TypeOK'
  <1>1. ASSUME NEW t \in Slot
        PROVE  task'[t] \in Task \cup {Free}
    <2>1. CASE task'[t] = task[t]
      BY <2>1 DEF TypeOK
    <2>2. CASE task'[t] # task[t]
      <3>1. PICK j \in Job : task'[t] = Started(p, j, row[j].attempts)
        BY <2>2, PollStarts
      <3>2. row[j].attempts \in Nat /\ p \in Worker
        BY DEF TypeOK, Row, Worker
      <3> QED
        BY <3>1, <3>2, StartedType
    <2> QED
      BY <2>1, <2>2
  <1>2. task' \in [Slot -> Task \cup {Free}]
    <2>1. \E S, f : task' = [t \in Slot |-> IF t \in S
                       THEN Started(p, f[t], row[f[t]].attempts)
                       ELSE task[t]]
      BY SMTT(30) DEF Poll
    <2> QED
      BY <2>1, <1>1
  <1>3. batch' \in [Poller -> SUBSET Slot]
    BY DEF Poll, TypeOK
  <1> QED
    BY <1>2, <1>3 DEF Poll, TypeOK

LEMMA ReportType ==
  ASSUME TypeOK, NEW t \in Slot, task[t].phase # "free",
         NEW s \in Status
  PROVE  /\ task[t].job \in Job
         /\ Concluded(t, s) \in [Job -> Row]
         /\ Concluded(t, s)[task[t].job] =
                [status |-> s, attempts |-> row[task[t].job].attempts,
                 due |-> FALSE, lease |-> row[task[t].job].lease]
         /\ \A i \in Job : i # task[t].job => Concluded(t, s)[i] = row[i]
  <1>1. task[t].job \in Job
    BY BusyTask DEF Task
  <1>2. /\ row[task[t].job].attempts \in Nat
        /\ row[task[t].job].lease \in Nat
    BY <1>1 DEF TypeOK, Row
  <1> QED
    BY <1>1, <1>2 DEF Concluded, TypeOK, Row

-----------------------------------------------------------------------------
(* A step that leaves the rows alone and lets no delivery claim one. *)
LEMMA QuietStep ==
  ASSUME Inv, TypeOK', TaskKnows',
         row' = row,
         mailed \subseteq mailed', usable' \subseteq usable, lapsed' = lapsed,
         \A r \in Request : request'[r] = request[r]
                              \/ request'[r].phase # "reset",
         \A t \in Slot : Active(t)' =>
            /\ Active(t)
            /\ task'[t].job = task[t].job /\ task'[t].lease = task[t].lease
            /\ Mailing(t)' => Mailing(t)
  PROVE  Inv'
  <1>1. LeasesDiffer'
    <2>1. \A t \in Slot : Active(t)' =>
              task'[t].lease <= row'[task'[t].job].lease
      BY DEF Inv, LeasesDiffer
    <2>2. ASSUME NEW t \in Slot, NEW u \in Slot, Active(t)', Active(u)',
                 task'[t].job = task'[u].job, task'[t].lease = task'[u].lease
          PROVE  t = u
      BY <2>2 DEF Inv, LeasesDiffer
    <2> QED
      BY <2>1, <2>2 DEF LeasesDiffer
  <1>2. HolderUndisturbed'
    <2> SUFFICES ASSUME NEW t \in Slot, Mailing(t)',
                        <<task'[t].job, task'[t].lease>> \notin lapsed'
                 PROVE  Holds(t)' /\ ~row'[task'[t].job].due
      BY DEF HolderUndisturbed
    <2>1. Active(t)'
      BY DEF Mailing, Active
    <2>2. Mailing(t) /\ task'[t].job = task[t].job
            /\ task'[t].lease = task[t].lease
      BY <2>1
    <2>3. Holds(t) /\ ~row[task[t].job].due
      BY <2>2 DEF Inv, HolderUndisturbed
    <2> QED
      BY <2>2, <2>3 DEF Holds
  <1>3. ResendKnows'
    BY DEF Inv, ResendKnows, Resend
  <1>4. NotYetThere'
    BY DEF Inv, NotYetThere
  <1>5. SentIsMailed' /\ CancelledIsGone'
    BY DEF Inv, SentIsMailed, CancelledIsGone
  <1> QED
    BY <1>1, <1>2, <1>3, <1>4, <1>5 DEF Inv

(* A delivery that reports a status, if it still holds the row: no other   *)
(* delivery relies on that row.                                            *)
LEMMA ReportStep ==
  ASSUME Inv, TypeOK',
         NEW t \in Slot, Active(t),
         NEW s \in {"PENDING", "SENT", "FAILED", "CANCELLED"},
         s = "SENT" => <<task[t].job, task[t].lease>> \in mailed,
         s = "CANCELLED" => task[t].job \notin usable,
         row' = row \/ (Holds(t) /\ row' = Concluded(t, s)),
         \A u \in Slot : u # t => task'[u] = task[u],
         \/ task'[t] = Free
         \/ task'[t] = [task[t] EXCEPT !.phase = "fail"],
         UNCHANGED <<usable, request, mailed, lapsed>>
  PROVE  Inv'
  <1> DEFINE j == task[t].job
  <1>0. j \in Job /\ task[t] \in Task
    BY BusyTask DEF Inv, Active, Task
  <1>a. ~Mailing(t)'
    BY <1>0 DEF Mailing, Free, Task
  <1>b. \A u \in Slot : Active(u)' => Active(u)
              /\ task'[u].job = task[u].job /\ task'[u].lease = task[u].lease
    BY <1>0 DEF Active, Free, Task
  <1>c. \A u \in Slot : Mailing(u)' => u # t /\ Mailing(u) /\ task'[u] = task[u]
    BY <1>a DEF Mailing
  <1>1. CASE row' = row
    <2>1. TaskKnows'
      BY <1>c DEF Inv, TaskKnows, Mailing
    <2>2. \A u \in Slot : Mailing(u)' => Mailing(u)
      BY <1>c
    <2> QED
      BY <1>1, <1>b, <2>1, <2>2, QuietStep
  <1>2. CASE Holds(t) /\ row' = Concluded(t, s)
    <2>1. /\ row'[j].status = s /\ row'[j].lease = row[j].lease
          /\ \A i \in Job : i # j => row'[i] = row[i]
      <3>1. s \in Status /\ task[t].phase # "free"
        BY DEF Status, Active
      <3>2. TypeOK
        BY DEF Inv
      <3>3. /\ Concluded(t, s)[j] =
                  [status |-> s, attempts |-> row[j].attempts,
                   due |-> FALSE, lease |-> row[j].lease]
            /\ \A i \in Job : i # j => Concluded(t, s)[i] = row[i]
        BY <3>1, <3>2, ReportType
      <3> QED
        BY <1>2, <3>3
    <2>2. \A i \in Job : row'[i].lease = row[i].lease
      BY <2>1
    <2>3. LeasesDiffer'
      <3>1. ASSUME NEW u \in Slot, Active(u)'
            PROVE  task'[u].lease <= row'[task'[u].job].lease
        <4>1. task[u].job \in Job
          BY <1>b, <3>1, BusyTask DEF Inv, Active, Task
        <4> QED
          BY <1>b, <2>2, <3>1, <4>1 DEF Inv, LeasesDiffer
      <3>2. ASSUME NEW u \in Slot, NEW v \in Slot, Active(u)', Active(v)',
                   task'[u].job = task'[v].job, task'[u].lease = task'[v].lease
            PROVE  u = v
        BY <1>b, <3>2 DEF Inv, LeasesDiffer
      <3> QED
        BY <3>1, <3>2 DEF LeasesDiffer
    <2>4. HolderUndisturbed'
      <3> SUFFICES ASSUME NEW u \in Slot, Mailing(u)',
                          <<task'[u].job, task'[u].lease>> \notin lapsed'
                   PROVE  Holds(u)' /\ ~row'[task'[u].job].due
        BY DEF HolderUndisturbed
      <3>1. u # t /\ Mailing(u) /\ Active(u) /\ task'[u] = task[u]
        BY <1>c DEF Mailing, Active
      <3>2. Holds(u) /\ ~row[task[u].job].due
        BY <3>1 DEF Inv, HolderUndisturbed
      <3>3. task[u].job # j
        BY <3>1, <3>2, <1>2 DEF Inv, LeasesDiffer, Holds
      <3>4. task[u].job \in Job
        BY <3>1, BusyTask DEF Inv, Active, Task
      <3> QED
        BY <2>1, <3>1, <3>2, <3>3, <3>4 DEF Holds
    <2>5. TaskKnows'
      BY <1>c DEF Inv, TaskKnows, Mailing
    <2>6. ResendKnows'
      <3> SUFFICES ASSUME NEW r \in Request, request[r].phase = "reset",
                          JobOf[r] \in Job
                   PROVE  LET seen == request[r].seen
                              now == row'[JobOf[r]] IN
                          /\ Resend(seen)
                          /\ seen.lease <= now.lease
                          /\ now.lease = seen.lease =>
                                /\ now.status \in {seen.status, "PENDING"}
                                /\ now.status = seen.status /\ seen.due => now.due
        <4>1. \A r \in Request : JobOf[r] \in Job
          BY EmailAssumption DEF EmailAssumption
        <4> QED
          BY <4>1 DEF ResendKnows
      <3>1. CASE JobOf[r] # j
        BY <2>1, <3>1 DEF Inv, ResendKnows
      <3>2. CASE JobOf[r] = j
        <4>1. row[j].status = "PROCESSING"
          BY <1>2 DEF Holds
        <4>2. /\ Resend(request[r].seen)
              /\ request[r].seen.lease <= row[j].lease
              /\ row[j].lease # request[r].seen.lease
          BY <3>2, <4>1 DEF Inv, ResendKnows, Resend
        <4> QED
          BY <2>1, <3>2, <4>2
      <3> QED
        BY <3>1, <3>2
    <2>7. NotYetThere'
      BY <2>1 DEF Inv, NotYetThere
    <2>8. SentIsMailed'
      <3> SUFFICES ASSUME NEW i \in Job, row'[i].status = "SENT"
                   PROVE  <<i, row'[i].lease>> \in mailed
        BY DEF SentIsMailed
      <3>1. CASE i = j
        BY <2>1, <3>1, <1>2 DEF Holds
      <3>2. CASE i # j
        BY <2>1, <3>2 DEF Inv, SentIsMailed
      <3> QED
        BY <3>1, <3>2
    <2>9. CancelledIsGone'
      BY <2>1 DEF Inv, CancelledIsGone
    <2> QED
      BY <2>3, <2>4, <2>5, <2>6, <2>7, <2>8, <2>9 DEF Inv
  <1> QED
    BY <1>1, <1>2

-----------------------------------------------------------------------------
(* The steps of a delivery. *)
LEMMA ClaimStep ==
  ASSUME Inv, NEW t \in Slot, Claim(t)
  PROVE  Inv'
  <1> DEFINE j == task[t].job
             l == row[j].lease + 1
  <1>0. j \in Job /\ task[t] \in Task /\ row[j] \in Row
    BY BusyTask DEF Inv, Claim, Task, TypeOK
  <1>a. row[j].lease \in Nat /\ row[j].attempts \in Nat /\ l \in Nat
    BY <1>0 DEF Row
  <1>1. /\ row'[j] = [status |-> "PROCESSING", attempts |-> row[j].attempts + 1,
                      due |-> FALSE, lease |-> l]
        /\ row' \in [Job -> Row]
        /\ \A i \in Job : i # j => row'[i] = row[i]
    <2> DEFINE new == [status |-> "PROCESSING",
                       attempts |-> row[j].attempts + 1,
                       due |-> FALSE, lease |-> l]
    <2>1. new \in Row
      BY <1>a DEF Row, Status
    <2>2. row' = [row EXCEPT ![j] = new]
      BY DEF Claim
    <2>3. row \in [Job -> Row]
      BY DEF Inv, TypeOK
    <2> HIDE DEF new
    <2>4. /\ row'[j] = new /\ row' \in [Job -> Row]
          /\ \A i \in Job : i # j => row'[i] = row[i]
      BY <1>0, <2>1, <2>2, <2>3
    <2> QED
      BY <2>4 DEF new
  <1>d. UNCHANGED <<usable, batch, request, mailed, lapsed, faults>>
    BY DEF Claim
  <1>2. /\ task'[t] = [phase |-> "check", job |-> j, owner |-> task[t].owner,
                       seen |-> task[t].seen, lease |-> l]
        /\ \A u \in Slot : u # t => task'[u] = task[u]
    BY <1>0 DEF Claim, Inv, TypeOK, Task
  <1>3. task'[t] \in Task
    BY <1>0, <1>2, <1>a DEF Task, Phase
  <1>4. task' \in [Slot -> Task \cup {Free}]
    BY <1>3 DEF Claim, Inv, TypeOK
  <1>5. TypeOK'
    BY <1>1, <1>4 DEF Claim, Inv, TypeOK
  <1>b. \A u \in Slot : u # t /\ Active(u)' =>
            /\ Active(u) /\ task[u].job \in Job /\ task[u].lease \in Nat
            /\ task[u].lease <= row[task[u].job].lease
    BY <1>2, BusyTask DEF Inv, LeasesDiffer, Active, Task
  <1>c. \A i \in Job : row[i].lease \in Nat
    BY DEF Inv, TypeOK, Row
  <1>6. LeasesDiffer'
    <2>1. ASSUME NEW u \in Slot, Active(u)'
          PROVE  task'[u].lease <= row'[task'[u].job].lease
      <3>1. CASE u = t
        BY <3>1, <1>1, <1>2, <1>a
      <3>2. CASE u # t /\ task[u].job = j
        BY <2>1, <3>2, <1>1, <1>2, <1>a, <1>b
      <3>3. CASE u # t /\ task[u].job # j
        BY <2>1, <3>3, <1>1, <1>2, <1>b
      <3> QED
        BY <3>1, <3>2, <3>3
    <2>2. ASSUME NEW u \in Slot, Active(u)', u # t,
                 task'[u].job = task'[t].job
          PROVE  task'[u].lease # task'[t].lease
      BY <2>2, <1>2, <1>a, <1>b
    <2>3. ASSUME NEW u \in Slot, NEW v \in Slot, Active(u)', Active(v)',
                 task'[u].job = task'[v].job, task'[u].lease = task'[v].lease,
                 u # t, v # t
          PROVE  u = v
      BY <2>3, <1>2, <1>b DEF Inv, LeasesDiffer
    <2> QED
      BY <2>1, <2>2, <2>3 DEF LeasesDiffer
  <1>7. HolderUndisturbed'
    <2> SUFFICES ASSUME NEW u \in Slot, Mailing(u)',
                        <<task'[u].job, task'[u].lease>> \notin lapsed'
                 PROVE  Holds(u)' /\ ~row'[task'[u].job].due
      BY DEF HolderUndisturbed
    <2>1. CASE u = t
      BY <2>1, <1>1, <1>2 DEF Holds
    <2>2. CASE u # t
      <3>1. Mailing(u) /\ Active(u)' /\ task'[u] = task[u]
        BY <2>2, <1>2 DEF Mailing, Active
      <3>2. Holds(u) /\ ~row[task[u].job].due
        BY <3>1, <1>d DEF Inv, HolderUndisturbed
      <3>3. task[u].job # j
        BY <3>2 DEF Claim, Claimable
      <3> QED
        BY <2>2, <3>1, <3>2, <3>3, <1>1, <1>b DEF Holds
    <2> QED
      BY <2>1, <2>2
  <1>8. TaskKnows'
    <2>1. task'[t].phase = "check"
      BY <1>2
    <2> QED
      BY <1>2, <1>d, <2>1 DEF Inv, TaskKnows
  <1>9. ResendKnows'
    <2> SUFFICES ASSUME NEW r \in Request, request[r].phase = "reset",
                        JobOf[r] \in Job, request[r].seen \in Row
                 PROVE  LET seen == request[r].seen
                            now == row'[JobOf[r]] IN
                        /\ Resend(seen)
                        /\ seen.lease <= now.lease
                        /\ now.lease = seen.lease =>
                              /\ now.status \in {seen.status, "PENDING"}
                              /\ now.status = seen.status /\ seen.due => now.due
      <3>1. \A r \in Request : JobOf[r] \in Job
        BY EmailAssumption DEF EmailAssumption
      <3>2. \A r \in Request : request[r].seen \in Row
        BY DEF Inv, TypeOK
      <3> QED
        BY <3>1, <3>2 DEF ResendKnows, Claim
    <2>1. CASE JobOf[r] # j
      BY <2>1, <1>1 DEF Inv, ResendKnows
    <2>2. CASE JobOf[r] = j
      <3>1. request[r].seen.lease \in Nat
        BY DEF Row
      <3>2. request[r].seen.lease <= row[j].lease /\ Resend(request[r].seen)
        BY <2>2 DEF Inv, ResendKnows
      <3>3. request[r].seen.lease < row'[j].lease
        BY <3>1, <3>2, <1>1, <1>a
      <3> QED
        BY <2>2, <3>1, <3>2, <3>3, <1>a, <1>1
    <2> QED
      BY <2>1, <2>2
  <1>10. NotYetThere' /\ SentIsMailed' /\ CancelledIsGone'
    BY <1>1 DEF Inv, NotYetThere, SentIsMailed, CancelledIsGone, Claim
  <1> QED
    BY <1>5, <1>6, <1>7, <1>8, <1>9, <1>10 DEF Inv

(* A task that ends, with nothing reported. *)
LEMMA EndStep ==
  ASSUME Inv, NEW t \in Slot, Finish(t) \/ Abort(t),
         UNCHANGED <<row, usable, request, mailed, lapsed>>,
         faults' \in 0..MaxFaults
  PROVE  Inv'
  <1>1. TypeOK'
    BY FinishType DEF Inv, TypeOK
  <1>2. task'[t] = Free /\ \A u \in Slot : u # t => task'[u] = task[u]
    BY DEF Finish, Abort, Inv, TypeOK
  <1>3. TaskKnows'
    BY <1>2 DEF Inv, TaskKnows, Free
  <1>4. \A u \in Slot : Active(u)' => u # t
    BY <1>2 DEF Active, Free
  <1>5. \A u \in Slot : u # t => (Mailing(u)' <=> Mailing(u))
                                    /\ (Active(u)' <=> Active(u))
    BY <1>2 DEF Mailing, Active
  <1> QED
    BY <1>1, <1>2, <1>3, <1>4, <1>5, QuietStep

(* The effect of moving a task to another phase. *)
LEMMA EnterEffect ==
  ASSUME Inv, NEW t \in Slot, task[t].phase # "free", NEW p \in Phase, Enter(t, p)
  PROVE  /\ task'[t] = [task[t] EXCEPT !.phase = p]
         /\ task'[t].phase = p
         /\ task'[t].job = task[t].job /\ task'[t].lease = task[t].lease
         /\ \A u \in Slot : u # t => task'[u] = task[u]
         /\ task' \in [Slot -> Task \cup {Free}]
  <1>1. task[t] \in Task
    BY BusyTask DEF Inv
  <1>2. /\ task'[t] = [task[t] EXCEPT !.phase = p]
        /\ \A u \in Slot : u # t => task'[u] = task[u]
    BY DEF Enter, Inv, TypeOK
  <1>3. task' \in [Slot -> Task \cup {Free}]
    BY EnterType DEF Inv
  <1>4. /\ task'[t].phase = p
        /\ task'[t].job = task[t].job /\ task'[t].lease = task[t].lease
    BY <1>1, <1>2 DEF Task
  <1> QED
    BY <1>2, <1>3, <1>4

(* A mailing task goes on. *)
LEMMA EnterStep ==
  ASSUME Inv, NEW t \in Slot, Mailing(t),
         NEW p \in {"cancel", "send", "confirm", "fail"}, Enter(t, p),
         p = "confirm" => <<task[t].job, task[t].lease>> \in mailed',
         p = "cancel" => task[t].job \notin usable,
         mailed \subseteq mailed', mailed' \subseteq Job \X Nat,
         UNCHANGED <<row, usable, batch, request, lapsed>>,
         faults' \in 0..MaxFaults
  PROVE  Inv'
  <1>1. p \in Phase /\ task[t].phase # "free"
    BY DEF Phase, Mailing
  <1>2. /\ task'[t].phase = p
        /\ task'[t].job = task[t].job /\ task'[t].lease = task[t].lease
        /\ \A u \in Slot : u # t => task'[u] = task[u]
        /\ task' \in [Slot -> Task \cup {Free}]
    BY <1>1, EnterEffect
  <1>3. TypeOK'
    BY <1>2 DEF Inv, TypeOK
  <1>4. TaskKnows'
    BY <1>2 DEF Inv, TaskKnows
  <1>5. \A u \in Slot : Active(u)' =>
            /\ Active(u)
            /\ task'[u].job = task[u].job /\ task'[u].lease = task[u].lease
            /\ Mailing(u)' => Mailing(u)
    BY <1>2 DEF Active, Mailing
  <1> QED
    BY <1>3, <1>4, <1>5, QuietStep

LEMMA CheckStep ==
  ASSUME Inv, NEW t \in Slot, Check(t)
  PROVE  Inv'
  <1>1. Mailing(t) /\ mailed' \subseteq Job \X Nat /\ faults' \in 0..MaxFaults
    BY DEF Check, Mailing, Inv, TypeOK
  <1> QED
    BY <1>1, EnterStep DEF Check

LEMMA SendStep ==
  ASSUME Inv, NEW t \in Slot, Send(t)
  PROVE  Inv'
  <1>1. Mailing(t) /\ faults' \in 0..MaxFaults
    BY DEF Send, Mailing, Inv, TypeOK
  <1>2. task[t].job \in Job /\ task[t].lease \in Nat
    BY BusyTask DEF Inv, Send, Task
  <1>3. mailed' \subseteq Job \X Nat
    BY <1>2 DEF Send, Inv, TypeOK
  <1>4. CASE /\ mailed' = mailed \cup {<<task[t].job, task[t].lease>>}
             /\ \E p \in {"confirm", "fail"} : Enter(t, p)
    BY <1>1, <1>3, <1>4, EnterStep DEF Send
  <1>5. CASE UNCHANGED mailed /\ Enter(t, "fail")
    BY <1>1, <1>3, <1>5, EnterStep DEF Send
  <1> QED
    BY <1>4, <1>5 DEF Send

(* The updates under the lease: cancelled, sent or failed. *)
LEMMA ReportedStep ==
  ASSUME Inv, NEW t \in Slot, Cancel(t) \/ Confirm(t) \/ Fail(t)
  PROVE  Inv'
  <1>0. PICK s \in {"PENDING", "SENT", "FAILED", "CANCELLED"} :
            /\ row' = IF Holds(t) THEN Concluded(t, s) ELSE row
            /\ s = "SENT" => <<task[t].job, task[t].lease>> \in mailed
            /\ s = "CANCELLED" => task[t].job \notin usable
    <2>1. CASE Cancel(t)
      BY <2>1 DEF Cancel, Inv, TaskKnows
    <2>2. CASE Confirm(t)
      BY <2>2 DEF Confirm, Inv, TaskKnows
    <2>3. CASE Fail(t)
      BY <2>3 DEF Fail
    <2> QED
      BY <2>1, <2>2, <2>3
  <1>1. /\ Finish(t) /\ Active(t) /\ task[t].phase # "free"
        /\ UNCHANGED <<usable, request, mailed, lapsed, faults>>
    BY DEF Cancel, Confirm, Fail, Active
  <1>2. task'[t] = Free /\ \A u \in Slot : u # t => task'[u] = task[u]
    BY <1>1 DEF Finish, Inv, TypeOK
  <1>3. s \in Status /\ TypeOK
    BY DEF Status, Inv
  <1>4. row' \in [Job -> Row]
    <2>1. Concluded(t, s) \in [Job -> Row]
      BY <1>1, <1>3, ReportType
    <2>2. row \in [Job -> Row]
      BY <1>3 DEF TypeOK
    <2> QED
      BY <1>0, <2>1, <2>2
  <1>5. TypeOK'
    BY <1>1, <1>3, <1>4, FinishType DEF TypeOK
  <1>6. row' = row \/ (Holds(t) /\ row' = Concluded(t, s))
    BY <1>0
  <1> QED
    BY <1>0, <1>1, <1>2, <1>5, <1>6, ReportStep

LEMMA RejectedStep ==
  ASSUME Inv, NEW t \in Slot, Rejected(t)
  PROVE  Inv'
  <1>0. PICK s \in {"SENT", "CANCELLED"} :
            /\ row' = row \/ (Holds(t) /\ row' = Concluded(t, s))
            /\ s = "SENT" => \/ <<task[t].job, task[t].lease>> \in mailed
                             \/ row' = row
            /\ s = "CANCELLED" => \/ task[t].job \notin usable
                                  \/ row' = row
    BY DEF Rejected, Inv, TaskKnows
  <1>1. /\ Active(t) /\ Mailing(t) /\ task[t].phase # "free"
        /\ Enter(t, "fail") /\ "fail" \in Phase
        /\ UNCHANGED <<usable, batch, request, mailed, lapsed>>
    BY DEF Rejected, Active, Mailing, Phase
  <1>2. faults' \in 0..MaxFaults
    BY EmailAssumption, FaultType DEF Rejected, Inv
  <1>3. /\ task'[t] = [task[t] EXCEPT !.phase = "fail"]
        /\ \A u \in Slot : u # t => task'[u] = task[u]
        /\ task' \in [Slot -> Task \cup {Free}]
    BY <1>1, EnterEffect
  <1>4. CASE row' = row
    <2>1. mailed' \subseteq Job \X Nat
      BY <1>1 DEF Inv, TypeOK
    <2> QED
      BY <1>1, <1>2, <1>4, <2>1, EnterStep
  <1>5. CASE row' # row
    <2>1. s \in Status /\ TypeOK
      BY DEF Status, Inv
    <2>2. row' \in [Job -> Row]
      BY <1>0, <1>1, <1>5, <2>1, ReportType
    <2>3. TypeOK'
      BY <1>1, <1>2, <1>3, <2>1, <2>2 DEF TypeOK
    <2> QED
      BY <1>0, <1>1, <1>3, <1>5, <2>3, ReportStep
  <1> QED
    BY <1>4, <1>5

LEMMA DeliverStep ==
  ASSUME Inv, NEW t \in Slot, Deliver(t)
  PROVE  Inv'
  <1>1. CASE ClaimNothing(t)
    <2>1. faults' \in 0..MaxFaults
      BY <1>1 DEF ClaimNothing, Inv, TypeOK
    <2> QED
      BY <1>1, <2>1, EndStep DEF ClaimNothing
  <1>2. CASE ClaimRejected(t) \/ FailRejected(t)
    <2>1. Fault /\ TypeOK
      BY <1>2 DEF ClaimRejected, FailRejected, Inv
    <2>2. faults' \in 0..MaxFaults
      BY <2>1, EmailAssumption, FaultType
    <2> QED
      BY <1>2, <2>2, EndStep DEF ClaimRejected, FailRejected
  <1> QED
    BY <1>1, <1>2, ClaimStep, CheckStep, SendStep, ReportedStep, RejectedStep
    DEF Deliver

-----------------------------------------------------------------------------
(* A row that no delivery relies on starts over. *)
LEMMA RestartStep ==
  ASSUME Inv, TypeOK',
         NEW j \in Job, row[j].status \in {"ABSENT", "FAILED", "SENT"},
         row' = Restarted(j),
         \A t \in Slot : task'[t] = task[t] \/ ~Active(t)',
         \A r \in Request : request'[r] = request[r]
                              \/ request'[r].phase # "reset",
         UNCHANGED <<usable, mailed, lapsed>>
  PROVE  Inv'
  <1>1. /\ row'[j] = [status |-> "PENDING", attempts |-> 0, due |-> TRUE,
                      lease |-> row[j].lease]
        /\ \A i \in Job : i # j => row'[i] = row[i]
    BY RestartedType DEF Inv
  <1>2. \A i \in Job : row'[i].lease = row[i].lease
    BY <1>1
  <1>3. \A t \in Slot : Active(t)' =>
            Active(t) /\ task'[t] = task[t] /\ task[t].job \in Job
    BY BusyTask DEF Active, Inv, Task
  <1>4. \A t \in Slot : Mailing(t)' => Mailing(t) /\ Active(t)'
    BY <1>3 DEF Mailing, Active
  <1>5. LeasesDiffer'
    <2>1. \A t \in Slot : Active(t)' =>
              task'[t].lease <= row'[task'[t].job].lease
      BY <1>2, <1>3 DEF Inv, LeasesDiffer
    <2>2. \A t, u \in Slot :
            Active(t)' /\ Active(u)' /\ task'[t].job = task'[u].job
              /\ task'[t].lease = task'[u].lease => t = u
      BY <1>3 DEF Inv, LeasesDiffer
    <2> QED
      BY <2>1, <2>2 DEF LeasesDiffer
  <1>6. HolderUndisturbed'
    <2> SUFFICES ASSUME NEW t \in Slot, Mailing(t)',
                        <<task'[t].job, task'[t].lease>> \notin lapsed'
                 PROVE  Holds(t)' /\ ~row'[task'[t].job].due
      BY DEF HolderUndisturbed
    <2>1. Holds(t) /\ ~row[task[t].job].due /\ task'[t] = task[t]
            /\ task[t].job \in Job
      BY <1>3, <1>4 DEF Inv, HolderUndisturbed
    <2>2. task[t].job # j
      BY <2>1 DEF Holds
    <2> QED
      BY <1>1, <2>1, <2>2 DEF Holds
  <1>7. TaskKnows'
    BY <1>3, <1>4 DEF Inv, TaskKnows, Mailing
  <1>8. ResendKnows'
    <2> SUFFICES ASSUME NEW r \in Request, request'[r].phase = "reset",
                        JobOf[r] \in Job
                 PROVE  LET seen == request'[r].seen
                            now == row'[JobOf[r]] IN
                        /\ Resend(seen)
                        /\ seen.lease <= now.lease
                        /\ now.lease = seen.lease =>
                              /\ now.status \in {seen.status, "PENDING"}
                              /\ now.status = seen.status /\ seen.due => now.due
      <3>1. \A r \in Request : JobOf[r] \in Job
        BY EmailAssumption DEF EmailAssumption
      <3> QED
        BY <3>1 DEF ResendKnows, Resend
    <2>1. request'[r] = request[r]
      OBVIOUS
    <2>2. CASE JobOf[r] # j
      BY <1>1, <2>1, <2>2 DEF Inv, ResendKnows
    <2>3. CASE JobOf[r] = j
      BY <1>1, <2>1, <2>3 DEF Inv, ResendKnows, Resend
    <2> QED
      BY <2>2, <2>3
  <1>9. NotYetThere' /\ SentIsMailed' /\ CancelledIsGone'
    BY <1>1 DEF Inv, NotYetThere, SentIsMailed, CancelledIsGone
  <1> QED
    BY <1>5, <1>6, <1>7, <1>8, <1>9 DEF Inv

(* Handing a job to a new task starts no lease. *)
LEMMA HandEffect ==
  ASSUME Inv, NEW r \in Request, Hand(r, row[JobOf[r]].attempts)
  PROVE  \A t \in Slot : task'[t] = task[t] \/ ~Active(t)'
  <1>1. row[JobOf[r]].attempts \in Nat
    BY EmailAssumption DEF EmailAssumption, Inv, TypeOK, Row
  <1>2. \A t \in Slot : task'[t] # task[t] => task'[t].phase = "claim"
    BY <1>1, EmailAssumption, HandType DEF Inv
  <1> QED
    BY <1>2 DEF Active

(* Tasks that start or vanish disturb nothing. *)
LEMMA TasksStep ==
  ASSUME Inv, TypeOK',
         \A t \in Slot : task'[t] = task[t] \/ ~Active(t)',
         \A r \in Request : request'[r] = request[r]
                              \/ request'[r].phase # "reset",
         UNCHANGED <<row, mailed, lapsed>>, usable' \subseteq usable
  PROVE  Inv'
  <1>1. TaskKnows'
    <2> SUFFICES ASSUME NEW t \in Slot
                 PROVE  /\ task'[t].phase = "confirm" =>
                              <<task'[t].job, task'[t].lease>> \in mailed'
                        /\ task'[t].phase = "cancel" => task'[t].job \notin usable'
      BY DEF TaskKnows
    <2> QED
      BY DEF Inv, TaskKnows, Active
  <1>2. \A t \in Slot : Active(t)' =>
            /\ Active(t)
            /\ task'[t].job = task[t].job /\ task'[t].lease = task[t].lease
            /\ Mailing(t)' => Mailing(t)
    BY DEF Active, Mailing
  <1> QED
    BY <1>1, <1>2, QuietStep

LEMMA EnqueueStep ==
  ASSUME Inv, NEW r \in Request, Enqueue(r)
  PROVE  Inv'
  <1> DEFINE j == JobOf[r]
  <1>0. TypeOK' /\ j \in Job /\ request \in [Request ->
            [phase : {"idle", "reset", "reread", "done"}, seen : Row]]
    BY EmailAssumption, EnqueueType DEF Inv, EmailAssumption, TypeOK
  <1>1. CASE Resend(row[j])
    <2>1. /\ request' = [request EXCEPT ![r] =
                            [phase |-> "reset", seen |-> row[j]]]
          /\ UNCHANGED <<row, task, usable, mailed, lapsed>>
      BY <1>1 DEF Enqueue, Resend
    <2>2. LeasesDiffer' /\ HolderUndisturbed' /\ TaskKnows'
      BY <2>1 DEF Inv, LeasesDiffer, HolderUndisturbed, TaskKnows, Active,
                  Mailing, Holds
    <2>3. ResendKnows'
      <3> SUFFICES ASSUME NEW q \in Request, request'[q].phase = "reset"
                   PROVE  LET seen == request'[q].seen
                              now == row'[JobOf[q]] IN
                          /\ Resend(seen)
                          /\ seen.lease <= now.lease
                          /\ now.lease = seen.lease =>
                                /\ now.status \in {seen.status, "PENDING"}
                                /\ now.status = seen.status /\ seen.due => now.due
        BY DEF ResendKnows, Resend
      <3>1. CASE q = r
        <4>1. request'[q].seen = row[j] /\ row' = row /\ row[j].lease \in Nat
          BY <1>0, <2>1, <3>1 DEF Inv, TypeOK, Row
        <4> QED
          BY <1>1, <3>1, <4>1
      <3>2. CASE q # r
        <4>1. request'[q] = request[q] /\ row' = row
          BY <1>0, <2>1, <3>2
        <4> QED
          BY <4>1 DEF Inv, ResendKnows
      <3> QED
        BY <3>1, <3>2
    <2>4. NotYetThere' /\ SentIsMailed' /\ CancelledIsGone'
      BY <2>1 DEF Inv, NotYetThere, SentIsMailed, CancelledIsGone
    <2> QED
      BY <1>0, <2>2, <2>3, <2>4 DEF Inv
  <1>2. CASE ~Resend(row[j])
    <2>1. /\ request' = [request EXCEPT ![r].phase = "done"]
          /\ Hand(r, row[j].attempts)
          /\ UNCHANGED <<usable, mailed, lapsed>>
      BY <1>2 DEF Enqueue
    <2>2. \A q \in Request : request'[q] = request[q]
                               \/ request'[q].phase # "reset"
      BY <1>0, <2>1
    <2>3. \A t \in Slot : task'[t] = task[t] \/ ~Active(t)'
      BY <2>1, HandEffect
    <2>4. CASE row[j].status = "ABSENT"
      <3>1. row' = Restarted(j)
        BY <2>4 DEF Enqueue
      <3> QED
        BY <1>0, <2>1, <2>2, <2>3, <2>4, <3>1, RestartStep
    <2>5. CASE row[j].status # "ABSENT"
      <3>1. row' = row
        BY <2>5 DEF Enqueue
      <3> QED
        BY <1>0, <2>1, <2>2, <2>3, <3>1, TasksStep
    <2> QED
      BY <2>4, <2>5
  <1> QED
    BY <1>1, <1>2

LEMMA ResetStep ==
  ASSUME Inv, NEW r \in Request, Reset(r)
  PROVE  Inv'
  <1> DEFINE j == JobOf[r]
  <1>0. TypeOK' /\ j \in Job /\ request \in [Request ->
            [phase : {"idle", "reset", "reread", "done"}, seen : Row]]
    BY EmailAssumption, ResetType DEF Inv, EmailAssumption, TypeOK
  <1>1. \A q \in Request : request'[q] = request[q]
                             \/ request'[q].phase # "reset"
    BY <1>0 DEF Reset
  <1>2. \A t \in Slot : task'[t] = task[t]
    BY DEF Reset
  <1>3. CASE row' = row
    BY <1>0, <1>1, <1>2, <1>3, TasksStep DEF Reset
  <1>4. CASE row' # row
    <2>1. row[j].status = request[r].seen.status /\ row' = Restarted(j)
      BY <1>4 DEF Reset
    <2>2. Resend(request[r].seen)
      BY DEF Inv, ResendKnows, Reset
    <2>3. row[j].status \in {"ABSENT", "FAILED", "SENT"}
      BY <2>1, <2>2 DEF Resend
    <2> QED
      BY <1>0, <1>1, <1>2, <2>1, <2>3, RestartStep DEF Reset
  <1> QED
    BY <1>3, <1>4

LEMMA RereadStep ==
  ASSUME Inv, NEW r \in Request, Reread(r)
  PROVE  Inv'
  <1>0. TypeOK' /\ request \in [Request ->
            [phase : {"idle", "reset", "reread", "done"}, seen : Row]]
    BY EmailAssumption, RereadType DEF Inv, TypeOK
  <1>1. \A q \in Request : request'[q] = request[q]
                             \/ request'[q].phase # "reset"
    BY <1>0 DEF Reread
  <1>2. \A t \in Slot : task'[t] = task[t] \/ ~Active(t)'
    BY HandEffect DEF Reread
  <1> QED
    BY <1>0, <1>1, <1>2, TasksStep DEF Reread

LEMMA PollStep ==
  ASSUME Inv, NEW p \in Poller, Poll(p)
  PROVE  Inv'
  <1>1. TypeOK'
    BY PollType DEF Inv
  <1>2. \A t \in Slot : task'[t] = task[t] \/ ~Active(t)'
    <2> SUFFICES ASSUME NEW t \in Slot, task'[t] # task[t]
                 PROVE  task'[t].phase = "claim"
      BY DEF Active
    <2>1. TypeOK
      BY DEF Inv
    <2>2. PICK j \in Job : task'[t] = Started(p, j, row[j].attempts)
      BY <2>1, PollStarts
    <2> QED
      BY <2>2 DEF Started
  <1> QED
    BY <1>1, <1>2, TasksStep DEF Poll

LEMMA CrashStep ==
  ASSUME Inv, NEW w \in Worker, Crash(w)
  PROVE  Inv'
  <1>1. faults' \in 0..MaxFaults
    BY EmailAssumption, FaultType DEF Crash, Inv
  <1>2. TypeOK'
    BY <1>1 DEF Crash, Inv, TypeOK
  <1>3. \A t \in Slot : task'[t] = task[t] \/ ~Active(t)'
    BY DEF Crash, Active, Free
  <1> QED
    BY <1>2, <1>3, TasksStep DEF Crash

LEMMA CodeGoneStep ==
  ASSUME Inv, NEW j \in Job, CodeGone(j)
  PROVE  Inv'
  <1>1. TypeOK'
    BY DEF CodeGone, Inv, TypeOK
  <1> QED
    BY <1>1, TasksStep DEF CodeGone

(* A row becomes due that is held by nobody, or whose lease lapses. *)
LEMMA DueStep ==
  ASSUME Inv, NEW j \in Job, TimeComes(j) \/ LeaseLapses(j)
  PROVE  Inv'
  <1>0. row[j] \in Row
    BY DEF Inv, TypeOK
  <1>1. /\ row'[j].due = TRUE /\ row'[j].status = row[j].status
        /\ row'[j].lease = row[j].lease /\ row'[j] \in Row
        /\ \A i \in Job : i # j => row'[i] = row[i]
        /\ row' \in [Job -> Row]
    <2> DEFINE new == [row[j] EXCEPT !.due = TRUE]
    <2>1. /\ new \in Row /\ new.due = TRUE /\ new.status = row[j].status
          /\ new.lease = row[j].lease
      BY <1>0 DEF Row
    <2>2. row' = [row EXCEPT ![j] = new]
      BY DEF TimeComes, LeaseLapses
    <2>3. row \in [Job -> Row]
      BY DEF Inv, TypeOK
    <2> HIDE DEF new
    <2> QED
      BY <2>1, <2>2, <2>3
  <1>2. UNCHANGED <<usable, task, batch, request, mailed, faults>>
    BY DEF TimeComes, LeaseLapses
  <1>3. lapsed' \subseteq Job \X Nat /\ lapsed \subseteq lapsed'
    BY <1>0 DEF TimeComes, LeaseLapses, Inv, TypeOK, Row
  <1>4. TypeOK'
    BY <1>1, <1>2, <1>3 DEF Inv, TypeOK
  <1>5. \A i \in Job : row'[i].lease = row[i].lease
                         /\ row'[i].status = row[i].status
    BY <1>1
  <1>6. LeasesDiffer'
    <2>1. \A t \in Slot : Active(t) => task[t].job \in Job
      BY BusyTask DEF Inv, Active, Task
    <2> QED
      BY <1>2, <1>5, <2>1 DEF Inv, LeasesDiffer, Active
  <1>7. HolderUndisturbed'
    <2> SUFFICES ASSUME NEW t \in Slot, Mailing(t),
                        <<task[t].job, task[t].lease>> \notin lapsed'
                 PROVE  Holds(t)' /\ ~row'[task[t].job].due
      BY <1>2 DEF HolderUndisturbed, Mailing
    <2>1. Active(t) /\ task[t].job \in Job
      BY BusyTask DEF Inv, Active, Task, Mailing
    <2>2. Holds(t) /\ ~row[task[t].job].due
      BY <1>3 DEF Inv, HolderUndisturbed
    <2>3. task[t].job # j
      BY <2>1, <2>2 DEF TimeComes, LeaseLapses, Held, Holds
    <2> QED
      BY <1>1, <1>2, <2>1, <2>2, <2>3 DEF Holds
  <1>8. TaskKnows'
    BY <1>2 DEF Inv, TaskKnows
  <1>9. ResendKnows'
    <2> SUFFICES ASSUME NEW r \in Request, request[r].phase = "reset"
                 PROVE  LET seen == request[r].seen
                            now == row'[JobOf[r]] IN
                        /\ Resend(seen)
                        /\ seen.lease <= now.lease
                        /\ now.lease = seen.lease =>
                              /\ now.status \in {seen.status, "PENDING"}
                              /\ now.status = seen.status /\ seen.due => now.due
      BY <1>2 DEF ResendKnows, Resend
    <2>1. JobOf[r] \in Job
      BY EmailAssumption DEF EmailAssumption
    <2>2. row[JobOf[r]].due => row'[JobOf[r]].due
      BY <1>1, <2>1
    <2>3. row'[JobOf[r]].lease = row[JobOf[r]].lease
            /\ row'[JobOf[r]].status = row[JobOf[r]].status
      BY <1>5, <2>1
    <2> QED
      BY <2>2, <2>3 DEF Inv, ResendKnows
  <1>10. NotYetThere'
    <2>1. row[j].status # "ABSENT"
      BY DEF TimeComes, LeaseLapses
    <2> QED
      BY <1>1, <2>1 DEF Inv, NotYetThere
  <1>11. SentIsMailed' /\ CancelledIsGone'
    BY <1>2, <1>5 DEF Inv, SentIsMailed, CancelledIsGone
  <1> QED
    BY <1>4, <1>6, <1>7, <1>8, <1>9, <1>10, <1>11 DEF Inv

-----------------------------------------------------------------------------
LEMMA Initially == Init => Inv
  <1> SUFFICES ASSUME Init PROVE Inv
    OBVIOUS
  <1>1. TypeOK
    BY EmailAssumption, InitType
  <1>2. \A t \in Slot : task[t].phase = "free"
    BY DEF Init, Free
  <1>3. LeasesDiffer /\ HolderUndisturbed /\ TaskKnows
    BY <1>2 DEF LeasesDiffer, HolderUndisturbed, TaskKnows, Active, Mailing
  <1>4. ResendKnows /\ NotYetThere /\ SentIsMailed /\ CancelledIsGone
    BY DEF Init, ResendKnows, NotYetThere, SentIsMailed, CancelledIsGone, Absent
  <1> QED
    BY <1>1, <1>3, <1>4 DEF Inv

LEMMA Stuttering == Inv /\ UNCHANGED vars => Inv'
  BY DEF vars, Inv, TypeOK, LeasesDiffer, HolderUndisturbed, TaskKnows,
         ResendKnows, NotYetThere, SentIsMailed, CancelledIsGone, Active,
         Mailing, Holds, Resend

LEMMA NextStep == Inv /\ [Next]_vars => Inv'
  <1> SUFFICES ASSUME Inv, [Next]_vars PROVE Inv'
    OBVIOUS
  <1>1. ASSUME NEW r \in Request, Enqueue(r) \/ Reset(r) \/ Reread(r)
        PROVE  Inv'
    BY <1>1, EnqueueStep, ResetStep, RereadStep
  <1>2. ASSUME NEW j \in Job, CodeGone(j) \/ TimeComes(j) \/ LeaseLapses(j)
        PROVE  Inv'
    BY <1>2, CodeGoneStep, DueStep
  <1>3. CASE UNCHANGED vars
    BY <1>3, Stuttering
  <1> QED
    BY <1>1, <1>2, <1>3, PollStep, DeliverStep, CrashStep DEF Next

LEMMA Invariance == Spec => []Inv
  BY Initially, NextStep, PTL DEF Spec

(* Types, for any processes, requests and bounds. *)
THEOREM TypeCorrect == Spec => []TypeOK
  <1>1. Inv => TypeOK
    BY DEF Inv
  <1> QED
    BY <1>1, Invariance, PTL

(* Two deliveries of one code overlap only when a lease ran out: both      *)
(* would otherwise hold the row's one lease.                               *)
THEOREM DeliveriesExclude == Spec => []ExclusiveDelivery
  <1>1. Inv => ExclusiveDelivery
    <2> SUFFICES ASSUME Inv, NEW t \in Slot, NEW u \in Slot,
                        Mailing(t), Mailing(u), task[t].job = task[u].job,
                        <<task[t].job, task[t].lease>> \notin lapsed,
                        <<task[u].job, task[u].lease>> \notin lapsed
                 PROVE  t = u
      BY DEF ExclusiveDelivery
    <2>1. Holds(t) /\ Holds(u)
      BY DEF Inv, HolderUndisturbed
    <2>2. Active(t) /\ Active(u)
      BY DEF Mailing, Active
    <2> QED
      BY <2>1, <2>2 DEF Holds, Inv, LeasesDiffer
  <1> QED
    BY <1>1, Invariance, PTL

(* SENT is written only by the delivery whose mail was accepted. *)
THEOREM SentMeansMailed == Spec => []SentIsMailed
  <1>1. Inv => SentIsMailed
    BY DEF Inv
  <1> QED
    BY <1>1, Invariance, PTL

(* CANCELLED is written only for a code that is gone. *)
THEOREM CancelledMeansGone == Spec => []CancelledIsGone
  <1>1. Inv => CancelledIsGone
    BY DEF Inv
  <1> QED
    BY <1>1, Invariance, PTL

-----------------------------------------------------------------------------
(* What a step may do to a row. *)
RowStep(j) ==
    \/ row'[j] = row[j]
    \/ row'[j] = Restarted(j)[j] /\ (row[j] = Absent \/ Resend(row[j]))
    \/ row[j].status \in {"PENDING", "PROCESSING"}
          /\ row'[j].attempts >= row[j].attempts
    \/ row'[j].status = row[j].status /\ row'[j].attempts = row[j].attempts

LEMMA ReportRow ==
  ASSUME Inv, NEW t \in Slot, task[t].phase # "free",
         NEW s \in {"PENDING", "SENT", "FAILED", "CANCELLED"},
         Holds(t), row' = Concluded(t, s), NEW j \in Job
  PROVE  RowStep(j)
  <1>1. s \in Status /\ TypeOK
    BY DEF Status, Inv
  <1>2. /\ task[t].job \in Job
        /\ Concluded(t, s)[task[t].job] =
               [status |-> s, attempts |-> row[task[t].job].attempts,
                due |-> FALSE, lease |-> row[task[t].job].lease]
        /\ \A i \in Job : i # task[t].job => Concluded(t, s)[i] = row[i]
    BY <1>1, ReportType
  <1>3. CASE j = task[t].job
    <2>1. row[j].status = "PROCESSING" /\ row'[j].attempts = row[j].attempts
      BY <1>2, <1>3 DEF Holds
    <2>2. row[j].attempts \in Nat
      BY DEF Inv, TypeOK, Row
    <2> QED
      BY <2>1, <2>2 DEF RowStep
  <1>4. CASE j # task[t].job
    BY <1>2, <1>4 DEF RowStep
  <1> QED
    BY <1>3, <1>4

LEMMA RestartRow ==
  ASSUME Inv, NEW i \in Job, row' = Restarted(i),
         row[i] = Absent \/ Resend(row[i]), NEW j \in Job
  PROVE  RowStep(j)
  <1>1. i # j => row'[j] = row[j]
    BY RestartedType DEF Inv
  <1> QED
    BY <1>1 DEF RowStep

LEMMA RowSteps ==
  ASSUME Inv, Next, NEW j \in Job
  PROVE  RowStep(j)
  <1>0. row[j] \in Row /\ \A r \in Request : JobOf[r] \in Job
    BY EmailAssumption DEF EmailAssumption, Inv, TypeOK
  <1>1. CASE row' = row
    BY <1>1 DEF RowStep
  <1>2. ASSUME NEW r \in Request, Enqueue(r), row' # row
        PROVE  RowStep(j)
    <2>1. row' = Restarted(JobOf[r]) /\ row[JobOf[r]].status = "ABSENT"
      BY <1>2 DEF Enqueue
    <2>2. row[JobOf[r]] = Absent
      BY <1>0, <2>1 DEF Inv, NotYetThere
    <2> QED
      BY <1>0, <2>1, <2>2, RestartRow
  <1>3. ASSUME NEW r \in Request, Reset(r), row' # row
        PROVE  RowStep(j)
    <2>1. /\ row' = Restarted(JobOf[r]) /\ request[r].phase = "reset"
          /\ row[JobOf[r]].status = request[r].seen.status
          /\ row[JobOf[r]].lease = request[r].seen.lease
      BY <1>3 DEF Reset
    <2>2. /\ Resend(request[r].seen)
          /\ request[r].seen.due => row[JobOf[r]].due
      BY <2>1 DEF Inv, ResendKnows
    <2>3. Resend(row[JobOf[r]])
      BY <2>1, <2>2 DEF Resend
    <2> QED
      BY <1>0, <2>1, <2>3, RestartRow
  <1>4. ASSUME NEW t \in Slot, Claim(t)
        PROVE  RowStep(j)
    <2> DEFINE i == task[t].job
    <2>1. CASE j = i
      <3>1. row'[j].attempts = row[j].attempts + 1
              /\ row[j].status \in {"PENDING", "PROCESSING"}
        BY <1>4, <2>1 DEF Claim, Claimable, Inv, TypeOK
      <3>2. row[j].attempts \in Nat
        BY <1>0 DEF Row
      <3> QED
        BY <3>1, <3>2 DEF RowStep
    <2>2. CASE j # i
      <3>1. row'[j] = row[j]
        BY <1>4, <2>2 DEF Claim, Inv, TypeOK
      <3> QED
        BY <3>1 DEF RowStep
    <2> QED
      BY <2>1, <2>2
  <1>5. ASSUME NEW t \in Slot, Cancel(t) \/ Confirm(t) \/ Fail(t) \/ Rejected(t),
               row' # row
        PROVE  RowStep(j)
    <2>1. \E s \in {"PENDING", "SENT", "FAILED", "CANCELLED"} :
              Holds(t) /\ row' = Concluded(t, s)
      BY <1>5 DEF Cancel, Confirm, Fail, Rejected
    <2>2. task[t].phase # "free"
      BY <1>5 DEF Cancel, Confirm, Fail, Rejected
    <2> QED
      BY <2>1, <2>2, ReportRow
  <1>6. ASSUME NEW i \in Job, TimeComes(i) \/ LeaseLapses(i)
        PROVE  RowStep(j)
    <2>1. row' = [row EXCEPT ![i].due = TRUE]
      BY <1>6 DEF TimeComes, LeaseLapses
    <2>2. row'[j].status = row[j].status /\ row'[j].attempts = row[j].attempts
      BY <1>0, <2>1 DEF Inv, TypeOK, Row
    <2> QED
      BY <2>2 DEF RowStep
  <1>7. CASE \E t \in Slot : Deliver(t)
    <2>1. PICK t \in Slot : Deliver(t)
      BY <1>7
    <2>2. CASE ClaimNothing(t) \/ ClaimRejected(t) \/ Check(t) \/ Send(t)
                 \/ FailRejected(t)
      BY <2>2, <1>1 DEF ClaimNothing, ClaimRejected, Check, Send, FailRejected
    <2> QED
      BY <1>1, <1>4, <1>5, <2>1, <2>2 DEF Deliver
  <1>8. CASE \/ \E r \in Request : Reread(r)
             \/ \E p \in Poller : Poll(p)
             \/ \E w \in Worker : Crash(w)
             \/ \E i \in Job : CodeGone(i)
    <2>1. row' = row
      BY <1>8 DEF Reread, Poll, Crash, CodeGone
    <2> QED
      BY <1>1, <2>1
  <1> QED
    BY <1>1, <1>2, <1>3, <1>6, <1>7, <1>8 DEF Next

(* An outcome stands until a resend starts the delivery over: late reports *)
(* are fenced off by the lease.                                            *)
THEOREM OutcomesStand == Spec => OutcomeStands
  <1> DEFINE A == \A j \in Job :
                    row[j].status \in Final /\ row'[j].status # row[j].status =>
                        /\ row[j].status # "CANCELLED"
                        /\ row'[j].status = "PENDING"
                        /\ row'[j].attempts = 0
  <1>1. Inv /\ [Next]_vars => [A]_vars
    <2> SUFFICES ASSUME Inv, Next, NEW j \in Job, row[j].status \in Final,
                        row'[j].status # row[j].status
                 PROVE  /\ row[j].status # "CANCELLED"
                        /\ row'[j].status = "PENDING"
                        /\ row'[j].attempts = 0
      BY DEF vars
    <2>0. RowStep(j)
      BY RowSteps
    <2>1. row'[j] = Restarted(j)[j] /\ (row[j] = Absent \/ Resend(row[j]))
      BY <2>0 DEF RowStep, Final
    <2>2. Restarted(j)[j].status = "PENDING" /\ Restarted(j)[j].attempts = 0
      <3>1. TypeOK
        BY DEF Inv
      <3>2. Restarted(j)[j] = [status |-> "PENDING", attempts |-> 0,
                               due |-> TRUE, lease |-> row[j].lease]
        BY <3>1, RestartedType
      <3> QED
        BY <3>2
    <2> QED
      BY <2>1, <2>2 DEF Resend, Absent, Final
  <1> QED
    BY <1>1, Invariance, PTL DEF Spec, OutcomeStands

(* Double clicks restart a delivery once: the update that restarts it      *)
(* applies only to the row that was read.                                  *)
THEOREM RestartsAreEarned == Spec => RestartIsEarned
  <1> DEFINE A == \A j \in Job : row'[j].attempts < row[j].attempts =>
                                    Resend(row[j])
  <1>1. Inv /\ [Next]_vars => [A]_vars
    <2> SUFFICES ASSUME Inv, Next, NEW j \in Job,
                        row'[j].attempts < row[j].attempts
                 PROVE  Resend(row[j])
      OBVIOUS
    <2>1. Inv'
      BY NextStep
    <2>2. RowStep(j)
      BY RowSteps
    <2>3. row[j].attempts \in Nat /\ row'[j].attempts \in Nat
      BY <2>1 DEF Inv, TypeOK, Row
    <2>4. row[j] = Absent => row[j].attempts = 0
      BY DEF Absent
    <2> QED
      BY <2>2, <2>3, <2>4 DEF RowStep
  <1> QED
    BY <1>1, Invariance, PTL DEF Spec, RestartIsEarned

(* SENT and CANCELLED are written only for what became of the code. *)
THEOREM OutcomesTrue == Spec => []OutcomesAreTrue
  <1>1. SentIsMailed /\ CancelledIsGone => OutcomesAreTrue
    BY DEF OutcomesAreTrue
  <1> QED
    BY <1>1, SentMeansMailed, CancelledMeansGone, PTL

(* Neither a late report nor a second resend undoes an outcome. *)
THEOREM OutcomesLasting == Spec => OutcomesLast
  BY OutcomesStand, RestartsAreEarned DEF OutcomesLast
-----------------------------------------------------------------------------
(* Without resends: each request enqueues a code of its own.               *)
EnqueuedOnce == \A r, s \in Request : JobOf[r] = JobOf[s] => r = s

(* The copy of a job that a delivery holds counts no more attempts than    *)
(* its row, and once the delivery claimed the row, fewer.                  *)
CopiesCount ==
    \A t \in Slot : task[t].phase # "free" =>
        /\ task[t].seen <= row[task[t].job].attempts
        /\ Active(t) => task[t].seen < row[task[t].job].attempts

(* No request finds a row of its job, so none has one to reset.            *)
NoneResends ==
    \A r \in Request :
        /\ request[r].phase \in {"idle", "done"}
        /\ request[r].phase = "idle" => row[JobOf[r]].status = "ABSENT"

CountInv == CopiesCount /\ NoneResends /\ FailsAfterAllAttempts

(* Steps that start no delivery and enqueue nothing. *)
LEMMA CountKept ==
  ASSUME Inv, TypeOK', CountInv, FailsAfterAllAttempts', UNCHANGED request,
         \A j \in Job : /\ row'[j].attempts >= row[j].attempts
                        /\ row[j].status = "ABSENT" => row'[j] = row[j],
         \A t \in Slot :
            \/ task'[t].phase = "free"
            \/ /\ task[t].phase # "free"
               /\ task'[t].job = task[t].job /\ task'[t].seen = task[t].seen
               /\ Active(t)' => \/ Active(t)
                                \/ task[t].seen < row'[task[t].job].attempts
  PROVE  CountInv'
  <1>1. CopiesCount'
    <2> SUFFICES ASSUME NEW t \in Slot, task'[t].phase # "free"
                 PROVE  /\ task'[t].seen <= row'[task'[t].job].attempts
                        /\ Active(t)' =>
                              task'[t].seen < row'[task'[t].job].attempts
      BY DEF CopiesCount
    <2>1. /\ task[t].phase # "free"
          /\ task'[t].job = task[t].job /\ task'[t].seen = task[t].seen
          /\ Active(t)' => \/ Active(t)
                           \/ task[t].seen < row'[task[t].job].attempts
      OBVIOUS
    <2>2. task[t].job \in Job /\ task[t].seen \in Nat
      BY <2>1, BusyTask DEF Inv, Task
    <2>3. /\ row[task[t].job].attempts \in Nat
          /\ row'[task[t].job].attempts \in Nat
          /\ row'[task[t].job].attempts >= row[task[t].job].attempts
      BY <2>2 DEF Inv, TypeOK, Row
    <2>4. /\ task[t].seen <= row[task[t].job].attempts
          /\ Active(t) => task[t].seen < row[task[t].job].attempts
      BY <2>1 DEF CountInv, CopiesCount
    <2> QED
      BY <2>1, <2>2, <2>3, <2>4
  <1>2. NoneResends'
    BY EmailAssumption DEF EmailAssumption, CountInv, NoneResends
  <1> QED
    BY <1>1, <1>2 DEF CountInv

(* The first and only request of a job creates its row. *)
LEMMA EnqueueCount ==
  ASSUME EnqueuedOnce, Inv, Inv', CountInv, NEW r \in Request, Enqueue(r)
  PROVE  CountInv'
  <1> DEFINE j == JobOf[r]
  <1>1. /\ request[r].phase = "idle" /\ j \in Job /\ row[j].status = "ABSENT"
        /\ row[j] = Absent
    BY EmailAssumption
       DEF EmailAssumption, Enqueue, CountInv, NoneResends, Inv, NotYetThere
  <1>2. /\ row' = Restarted(j) /\ Hand(r, 0)
        /\ request' = [request EXCEPT ![r].phase = "done"]
    BY <1>1 DEF Enqueue, Resend, Absent
  <1>3. /\ row'[j].attempts = 0 /\ row'[j].status = "PENDING"
        /\ row[j].attempts = 0
        /\ \A i \in Job : i # j => row'[i] = row[i]
    <2>1. TypeOK
      BY DEF Inv
    <2>2. /\ Restarted(j)[j] = [status |-> "PENDING", attempts |-> 0,
                                due |-> TRUE, lease |-> row[j].lease]
          /\ \A i \in Job : i # j => Restarted(j)[i] = row[i]
      BY <1>1, <2>1, RestartedType
    <2> QED
      BY <1>1, <1>2, <2>2 DEF Absent
  <1>4. CopiesCount'
    <2> SUFFICES ASSUME NEW t \in Slot, task'[t].phase # "free"
                 PROVE  /\ task'[t].seen <= row'[task'[t].job].attempts
                        /\ Active(t)' =>
                              task'[t].seen < row'[task'[t].job].attempts
      BY DEF CopiesCount
    <2>1. CASE task'[t] = task[t]
      <3>1. task[t].phase # "free" /\ task[t].job \in Job
        BY <2>1, BusyTask DEF Inv, Task
      <3>2. row'[task[t].job].attempts = row[task[t].job].attempts
        BY <1>3, <3>1
      <3> QED
        BY <2>1, <3>1, <3>2 DEF CountInv, CopiesCount, Active
    <2>2. CASE task'[t] # task[t]
      <3>1. task'[t] = Started(r, j, 0)
        BY <1>2, <2>2 DEF Hand, Inv, TypeOK
      <3> QED
        BY <1>3, <3>1 DEF Started, Active
    <2> QED
      BY <2>1, <2>2
  <1>5. NoneResends'
    <2> SUFFICES ASSUME NEW q \in Request
                 PROVE  /\ request'[q].phase \in {"idle", "done"}
                        /\ request'[q].phase = "idle" =>
                              row'[JobOf[q]].status = "ABSENT"
      BY DEF NoneResends
    <2>1. q = r => request'[q].phase = "done"
      BY <1>2 DEF Inv, TypeOK
    <2>2. q # r => /\ request'[q] = request[q]
                   /\ JobOf[q] \in Job /\ JobOf[q] # j
      BY <1>2, EmailAssumption DEF EmailAssumption, EnqueuedOnce, Inv, TypeOK
    <2> QED
      BY <1>3, <2>1, <2>2 DEF CountInv, NoneResends
  <1>6. FailsAfterAllAttempts'
    BY <1>3 DEF CountInv, FailsAfterAllAttempts
  <1> QED
    BY <1>4, <1>5, <1>6 DEF CountInv

LEMMA PollCount ==
  ASSUME Inv, Inv', CountInv, NEW p \in Poller, Poll(p)
  PROVE  CountInv'
  <1>1. UNCHANGED <<row, request>>
    BY DEF Poll
  <1>2. CopiesCount'
    <2> SUFFICES ASSUME NEW t \in Slot, task'[t].phase # "free"
                 PROVE  /\ task'[t].seen <= row'[task'[t].job].attempts
                        /\ Active(t)' =>
                              task'[t].seen < row'[task'[t].job].attempts
      BY DEF CopiesCount
    <2>1. CASE task'[t] = task[t]
      BY <1>1, <2>1 DEF CountInv, CopiesCount, Active
    <2>2. CASE task'[t] # task[t]
      <3>1. PICK j \in Job : task'[t] = Started(p, j, row[j].attempts)
        BY <2>2, PollStarts DEF Inv
      <3>2. row[j].attempts \in Nat
        BY DEF Inv, TypeOK, Row
      <3> QED
        BY <1>1, <3>1, <3>2 DEF Started, Active
    <2> QED
      BY <2>1, <2>2
  <1> QED
    BY <1>1, <1>2 DEF CountInv, NoneResends, FailsAfterAllAttempts

(* A claim counts one attempt more in the row than its copy does. *)
LEMMA ClaimCount ==
  ASSUME Inv, Inv', CountInv, NEW t \in Slot, Claim(t)
  PROVE  CountInv'
  <1> DEFINE j == task[t].job
  <1>1. /\ task[t] \in Task /\ j \in Job /\ task[t].seen \in Nat
        /\ task[t].seen <= row[j].attempts /\ row[j].attempts \in Nat
    <2>1. task[t].phase # "free"
      BY DEF Claim
    <2>2. task[t] \in Task
      BY <2>1, BusyTask DEF Inv
    <2> QED
      BY <2>1, <2>2 DEF Task, CountInv, CopiesCount, Inv, TypeOK, Row
  <1>2. /\ row'[j].attempts = row[j].attempts + 1
        /\ row[j].status \in {"PENDING", "PROCESSING"}
        /\ row'[j].status = "PROCESSING"
        /\ \A i \in Job : i # j => row'[i] = row[i]
        /\ UNCHANGED request
    BY <1>1 DEF Claim, Claimable, Inv, TypeOK
  <1>3. /\ task'[t].job = j /\ task'[t].seen = task[t].seen
        /\ \A u \in Slot : u # t => task'[u] = task[u]
    BY <1>1 DEF Claim, Inv, TypeOK, Task
  <1>4. FailsAfterAllAttempts'
    BY <1>2 DEF CountInv, FailsAfterAllAttempts
  <1>5. \A i \in Job : /\ row'[i].attempts >= row[i].attempts
                       /\ row[i].status = "ABSENT" => row'[i] = row[i]
    BY <1>1, <1>2 DEF Inv, TypeOK, Row
  <1>6. \A u \in Slot :
            \/ task'[u].phase = "free"
            \/ /\ task[u].phase # "free"
               /\ task'[u].job = task[u].job /\ task'[u].seen = task[u].seen
               /\ Active(u)' => \/ Active(u)
                                \/ task[u].seen < row'[task[u].job].attempts
    <2> SUFFICES ASSUME NEW u \in Slot, task'[u].phase # "free"
                 PROVE  /\ task[u].phase # "free"
                        /\ task'[u].job = task[u].job
                        /\ task'[u].seen = task[u].seen
                        /\ Active(u)' =>
                              \/ Active(u)
                              \/ task[u].seen < row'[task[u].job].attempts
      OBVIOUS
    <2>1. CASE u = t
      BY <1>1, <1>2, <1>3, <2>1 DEF Claim
    <2>2. CASE u # t
      BY <1>3, <2>2 DEF Active
    <2> QED
      BY <2>1, <2>2
  <1> QED
    BY <1>2, <1>4, <1>5, <1>6, CountKept DEF Inv

(* A delivery that has claimed its job reports under its lease or gives up *)
(* its report; only Fail writes FAILED, on its last attempt.               *)
LEMMA ReportCount ==
  ASSUME Inv, Inv', CountInv, NEW t \in Slot, Active(t),
         NEW s \in {"PENDING", "SENT", "FAILED", "CANCELLED"},
         row' = row \/ (Holds(t) /\ row' = Concluded(t, s)),
         s = "FAILED" => LastAttempt(t),
         UNCHANGED request,
         \A u \in Slot :
            \/ task'[u] = task[u] \/ task'[u] = Free
            \/ \E p \in Phase : u = t /\ task'[u] = [task[u] EXCEPT !.phase = p]
  PROVE  CountInv'
  <1> DEFINE j == task[t].job
  <1>1. /\ task[t] \in Task /\ j \in Job /\ task[t].seen \in Nat
        /\ row[j].attempts \in Nat /\ task[t].seen < row[j].attempts
    <2>1. task[t].phase # "free"
      BY DEF Active
    <2>2. task[t] \in Task
      BY <2>1, BusyTask DEF Inv
    <2> QED
      BY <2>1, <2>2 DEF Task, CountInv, CopiesCount, Inv, TypeOK, Row
  <1>2. s \in Status /\ TypeOK /\ task[t].phase # "free"
    BY DEF Status, Inv, Active
  <1>3. \A u \in Slot :
            \/ task'[u].phase = "free"
            \/ /\ task[u].phase # "free"
               /\ task'[u].job = task[u].job /\ task'[u].seen = task[u].seen
               /\ Active(u)' => Active(u)
    <2> SUFFICES ASSUME NEW u \in Slot, task'[u].phase # "free"
                 PROVE  /\ task[u].phase # "free"
                        /\ task'[u].job = task[u].job
                        /\ task'[u].seen = task[u].seen
                        /\ Active(u)' => Active(u)
      OBVIOUS
    <2>1. task'[u] # Free
      BY DEF Free
    <2>2. CASE task'[u] = task[u]
      BY <2>2 DEF Active
    <2>3. ASSUME NEW p \in Phase, u = t, task'[u] = [task[u] EXCEPT !.phase = p]
          PROVE  /\ task[u].phase # "free"
                 /\ task'[u].job = task[u].job
                 /\ task'[u].seen = task[u].seen
                 /\ Active(u)' => Active(u)
      BY <1>1, <1>2, <2>3 DEF Task
    <2> QED
      BY <2>1, <2>2, <2>3
  <1>4. CASE row' # row
    <2>1. /\ row[j].status = "PROCESSING"
          /\ row'[j] = [status |-> s, attempts |-> row[j].attempts,
                        due |-> FALSE, lease |-> row[j].lease]
          /\ \A i \in Job : i # j => row'[i] = row[i]
      BY <1>2, <1>4, ReportType DEF Holds
    <2>2. \A i \in Job : /\ row'[i].attempts >= row[i].attempts
                         /\ row[i].status = "ABSENT" => row'[i] = row[i]
      BY <1>1, <2>1 DEF Inv, TypeOK, Row
    <2>3. FailsAfterAllAttempts'
      <3>1. s = "FAILED" => row[j].attempts >= MaxAttempts
        BY <1>1, EmailAssumption DEF EmailAssumption, LastAttempt
      <3> QED
        BY <2>1, <3>1 DEF CountInv, FailsAfterAllAttempts
    <2> QED
      BY <1>3, <2>2, <2>3, CountKept DEF Inv
  <1>5. CASE row' = row
    <2>1. FailsAfterAllAttempts'
      BY <1>5 DEF CountInv, FailsAfterAllAttempts
    <2>2. \A i \in Job : row'[i].attempts >= row[i].attempts
      BY <1>5 DEF Inv, TypeOK, Row
    <2> QED
      BY <1>3, <1>5, <2>1, <2>2, CountKept DEF Inv
  <1> QED
    BY <1>4, <1>5

LEMMA DeliverCount ==
  ASSUME Inv, Inv', CountInv, NEW t \in Slot, Deliver(t)
  PROVE  CountInv'
  <1>0. TypeOK /\ TypeOK'
    BY DEF Inv
  <1>1. CASE ClaimNothing(t) \/ ClaimRejected(t) \/ FailRejected(t)
    <2>1. /\ UNCHANGED <<row, request>>
          /\ \A u \in Slot : task'[u] = task[u] \/ task'[u] = Free
      BY <1>0, <1>1
         DEF ClaimNothing, ClaimRejected, FailRejected, Finish, Abort, TypeOK
    <2> QED
      BY <2>1 DEF CountInv, CopiesCount, NoneResends, FailsAfterAllAttempts,
                  Active, Free
  <1>2. CASE Check(t) \/ Send(t) \/ Rejected(t)
    <2>1. /\ Active(t) /\ task[t].phase # "free" /\ UNCHANGED request
          /\ \E p \in Phase : Enter(t, p)
      BY <1>2 DEF Check, Send, Rejected, Active, Phase
    <2>2. \A u \in Slot :
            \/ task'[u] = task[u] \/ task'[u] = Free
            \/ \E p \in Phase : u = t /\ task'[u] = [task[u] EXCEPT !.phase = p]
      BY <1>0, <2>1 DEF Enter, TypeOK
    <2>3. PICK s \in {"SENT", "CANCELLED"} :
              row' = row \/ (Holds(t) /\ row' = Concluded(t, s))
      BY <1>2 DEF Check, Send, Rejected
    <2> QED
      BY <2>1, <2>2, <2>3, ReportCount
  <1>3. CASE Cancel(t) \/ Confirm(t) \/ Fail(t)
    <2>1. /\ Active(t) /\ UNCHANGED request
          /\ \A u \in Slot : task'[u] = task[u] \/ task'[u] = Free
      BY <1>0, <1>3 DEF Cancel, Confirm, Fail, Active, Finish, TypeOK
    <2>2. PICK s \in {"PENDING", "SENT", "FAILED", "CANCELLED"} :
              /\ row' = row \/ (Holds(t) /\ row' = Concluded(t, s))
              /\ s = "FAILED" => LastAttempt(t)
      BY <1>3 DEF Cancel, Confirm, Fail
    <2> QED
      BY <2>1, <2>2, ReportCount
  <1> QED
    BY <1>1, <1>2, <1>3, ClaimCount DEF Deliver

(* Crashes and the passing of time leave the counts alone. *)
LEMMA TimeCount ==
  ASSUME Inv, Inv', CountInv,
         \/ \E w \in Worker : Crash(w)
         \/ \E j \in Job : CodeGone(j) \/ TimeComes(j) \/ LeaseLapses(j)
  PROVE  CountInv'
  <1>0. TypeOK /\ TypeOK'
    BY DEF Inv
  <1>1. /\ UNCHANGED request
        /\ \A u \in Slot : task'[u] = task[u] \/ task'[u] = Free
    BY <1>0 DEF Crash, CodeGone, TimeComes, LeaseLapses, TypeOK
  <1>2. \A i \in Job : /\ row'[i].status = row[i].status
                       /\ row'[i].attempts = row[i].attempts
                       /\ row[i].status = "ABSENT" => row'[i] = row[i]
    <2>1. CASE row' = row
      BY <2>1
    <2>2. ASSUME NEW j \in Job, TimeComes(j) \/ LeaseLapses(j)
          PROVE  \A i \in Job : /\ row'[i].status = row[i].status
                                /\ row'[i].attempts = row[i].attempts
                                /\ row[i].status = "ABSENT" => row'[i] = row[i]
      <3>1. row' = [row EXCEPT ![j].due = TRUE] /\ row[j].status # "ABSENT"
        BY <2>2 DEF TimeComes, LeaseLapses
      <3> QED
        BY <1>0, <3>1 DEF TypeOK, Row
    <2> QED
      BY <2>1, <2>2 DEF Crash, CodeGone
  <1>3. FailsAfterAllAttempts'
    BY <1>2 DEF CountInv, FailsAfterAllAttempts
  <1>4. \A i \in Job : row'[i].attempts >= row[i].attempts
    BY <1>0, <1>2 DEF TypeOK, Row
  <1>5. \A u \in Slot :
            \/ task'[u].phase = "free"
            \/ /\ task[u].phase # "free"
               /\ task'[u].job = task[u].job /\ task'[u].seen = task[u].seen
               /\ Active(u)' => Active(u)
    BY <1>1 DEF Free, Active
  <1> QED
    BY <1>0, <1>1, <1>2, <1>3, <1>4, <1>5, CountKept

LEMMA CountStep ==
  ASSUME EnqueuedOnce, Inv, Inv', CountInv, [Next]_vars
  PROVE  CountInv'
  <1>1. CASE UNCHANGED vars
    BY <1>1 DEF vars, CountInv, CopiesCount, NoneResends, Active,
                FailsAfterAllAttempts
  <1>2. \A r \in Request : ~Reset(r) /\ ~Reread(r)
    BY DEF Reset, Reread, CountInv, NoneResends
  <1> QED
    BY <1>1, <1>2, EnqueueCount, PollCount, DeliverCount, TimeCount DEF Next

(* Without resends a delivery fails only after all its attempts: a copy    *)
(* read before other claims undercounts, and so gives up later, not sooner.*)
THEOREM FailuresAreLast ==
  ASSUME EnqueuedOnce
  PROVE  Spec => []FailsAfterAllAttempts
  <1>1. Init => CountInv
    <2> SUFFICES ASSUME Init PROVE CountInv
      OBVIOUS
    <2>1. CopiesCount
      BY DEF Init, CopiesCount, Free
    <2>2. NoneResends /\ FailsAfterAllAttempts
      BY EmailAssumption
         DEF EmailAssumption, Init, NoneResends, FailsAfterAllAttempts, Absent
    <2> QED
      BY <2>1, <2>2 DEF CountInv
  <1>2. Inv /\ Inv' /\ CountInv /\ [Next]_vars => CountInv'
    BY CountStep
  <1>3. CountInv => FailsAfterAllAttempts
    BY DEF CountInv
  <1> QED
    BY <1>1, <1>2, <1>3, Invariance, PTL DEF Spec

=============================================================================
