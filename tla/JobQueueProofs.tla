--------------------------- MODULE JobQueueProofs ---------------------------
(***************************************************************************)
(* Theorems about JobQueue, for every value of its constants.              *)
(***************************************************************************)
EXTENDS JobQueueProperties, TLAPS

(* What an executing worker holds names a row and a token. *)
HeldIsLease ==
  \A w \in Worker :
    held[w].phase # "idle" => held[w].job \in JobId /\ held[w].token \in Token

TypeInv == TypeOK /\ HeldIsLease

-----------------------------------------------------------------------------
(* The row updates keep a row a row. *)

LEMMA NoLeaseType == NoLease \in LeaseColumns
BY JobQueueAssumption DEF NoLease, LeaseColumns

LEMMA NoPlanType == NoPlan \in Plan
BY DEF NoPlan, Plan

LEMMA LeaveType ==
  ASSUME NEW row \in Row, NEW state \in Active \union Terminal
  PROVE  Leave(row, state) \in Row
BY NoLeaseType DEF Leave, Row

(* The updates by which a job leaves its worker clear the lease columns. *)
LEMMA LeaseCleared ==
  ASSUME NEW row \in Row
  PROVE  /\ \A state : Leave(row, state).lease = NoLease
         /\ Cancelled(row).lease = NoLease
         /\ Skipped(row).lease = NoLease
         /\ \A hash : Parked(row, hash).lease = NoLease
<1>1. \A state : Leave(row, state).lease = NoLease
  BY DEF Leave, Row
<1>2. \A state : DOMAIN Leave(row, state) = DOMAIN row
  BY DEF Leave, Row
<1> QED
  BY <1>1, <1>2 DEF Cancelled, Skipped, Parked, Row

LEMMA CancelledType ==
  ASSUME NEW row \in Row
  PROVE  Cancelled(row) \in Row
<1>1. Leave(row, "cancelled") \in Row
  BY LeaveType DEF Terminal
<1> QED
  BY <1>1 DEF Cancelled, Row

LEMMA GrantedType ==
  ASSUME NEW row \in Row, NEW w \in Worker, NEW t \in Token, row.attempt < MaxAttempts
  PROVE  Granted(row, w, t) \in Row
<1>1. [owner |-> w, token |-> t, ttl |-> LeaseTicks] \in LeaseColumns
  BY JobQueueAssumption DEF LeaseColumns
<1>2. row.attempt + 1 \in 0..MaxAttempts
  BY JobQueueAssumption DEF Row
<1>3. "running" \in Active
  BY DEF Active
<1> QED
  BY <1>1, <1>2, <1>3 DEF Granted, Row

LEMMA RenewedType ==
  ASSUME NEW row \in Row
  PROVE  Renewed(row) \in Row
<1>1. [row.lease EXCEPT !.ttl = LeaseTicks] \in LeaseColumns
  BY JobQueueAssumption DEF Row, LeaseColumns
<1> QED
  BY <1>1 DEF Renewed, Row

LEMMA SkippedType ==
  ASSUME NEW row \in Row, row.current_item # None
  PROVE  Skipped(row) \in Row
<1>1. Append(row.plan.skipped, row.current_item) \in Seq(Item)
  BY DEF Row, Plan
<1>2. Skip(row.plan, row.current_item) \in Plan
  BY <1>1 DEF Skip, Row, Plan
<1>3. Leave(row, "queued") \in Row
  BY LeaveType DEF Active
<1>4. (IF row.attempt > 0 THEN row.attempt - 1 ELSE 0) \in 0..MaxAttempts
  BY JobQueueAssumption DEF Row
<1>5. Leave(row, "queued").attempt = row.attempt
  BY DEF Leave, Row
<1> QED
  BY <1>2, <1>3, <1>4, <1>5 DEF Skipped, Row

LEMMA InsertedType ==
  ASSUME NEW request \in Request
  PROVE  Inserted(request) \in Row
<1>1. [NoPlan EXCEPT !.head = request.head] \in Plan
  BY NoPlanType DEF Plan, Request
<1>2. request.identity \in Identity
  BY DEF Request
<1>3. AbsentRow \in Row
  BY NoLeaseType, NoPlanType, JobQueueAssumption DEF AbsentRow, Row
<1> QED
  BY <1>1, <1>2, <1>3 DEF Inserted, Row, Active

LEMMA ParkedType ==
  ASSUME NEW row \in Row, NEW hash \in Hash
  PROVE  Parked(row, hash) \in Row
<1>1. Leave(row, "waiting_approval") \in Row
  BY LeaveType DEF Active
<1>2. Offer(row.plan, hash) \in Plan
  BY DEF Offer, Row, Plan
<1> QED
  BY <1>1, <1>2 DEF Parked, Row

LEMMA ApprovedType ==
  ASSUME NEW row \in Row
  PROVE  Approved(row) \in Row
<1>1. Approve(row.plan) \in Plan
  BY DEF Approve, Row, Plan
<1> QED
  BY <1>1 DEF Approved, Row, Active

LEMMA TickedType ==
  ASSUME NEW row \in Row
  PROVE  Ticked(row) \in Row
<1>1. [row.lease EXCEPT !.ttl = IF row.lease.ttl > 0 THEN row.lease.ttl - 1 ELSE 0]
        \in LeaseColumns
  BY JobQueueAssumption DEF Row, LeaseColumns
<1> QED
  BY <1>1 DEF Ticked, Row

(* A worker that takes a lease, or goes on with one, or lets it go. *)
LEMMA HeldUpdate ==
  ASSUME TypeInv, NEW w \in Worker, NEW lease \in LeasedJob,
         lease.phase # "idle" => lease.job \in JobId /\ lease.token \in Token,
         held' = [held EXCEPT ![w] = lease]
  PROVE  held' \in [Worker -> LeasedJob] /\ HeldIsLease'
BY DEF TypeInv, TypeOK, HeldIsLease

LEMMA IdleType == Idle \in LeasedJob /\ Idle.phase = "idle"
BY NoPlanType DEF Idle, LeasedJob

-----------------------------------------------------------------------------
(* The statements keep the types. *)

LEMMA TypeEnqueue ==
  ASSUME TypeInv, Enqueue
  PROVE  TypeInv'
<1> USE DEF TypeInv, TypeOK, HeldIsLease
<1>1. PICK request \in Request : AskForHead(request) \/ Insert(request)
  BY DEF Enqueue
<1>2. CASE AskForHead(request)
  BY <1>2 DEF AskForHead
<1>3. CASE Insert(request)
  <2>1. UNCHANGED held /\ asking' \subseteq Request
    BY <1>3 DEF Insert
  <2>2. jobs' \in [JobId -> Row]
    BY <1>3, InsertedType DEF Insert
  <2> QED
    BY <2>1, <2>2
<1> QED
  BY <1>1, <1>2, <1>3

LEMMA TypeControl ==
  ASSUME TypeInv, Control
  PROVE  TypeInv'
<1> USE DEF TypeInv, TypeOK, HeldIsLease
<1>1. ASSUME NEW j \in JobId, RequestCancel(j) PROVE TypeInv'
  BY <1>1, CancelledType DEF RequestCancel
<1>2. ASSUME NEW j \in JobId, SkipCurrentItem(j) PROVE TypeInv'
  BY <1>2, SkippedType DEF SkipCurrentItem
<1>3. ASSUME NEW j \in JobId, ApprovePlan(j) PROVE TypeInv'
  BY <1>3, ApprovedType DEF ApprovePlan
<1>4. ASSUME CancelRepositoryJobs PROVE TypeInv'
  BY <1>4, CancelledType DEF CancelRepositoryJobs
<1> QED
  BY <1>1, <1>2, <1>3, <1>4 DEF Control

LEMMA TypeTick ==
  ASSUME TypeInv, Tick
  PROVE  TypeInv'
<1> USE DEF TypeInv, TypeOK, HeldIsLease
<1> QED
  BY TickedType DEF Tick
LEMMA TypeLeaseNext ==
  ASSUME TypeInv, NEW w \in Worker, NEW locked \in SUBSET JobId, LeaseNext(w, locked)
  PROVE  TypeInv'
<1> DEFINE swept == [j \in JobId |-> IF Exhausted(jobs[j]) THEN Leave(jobs[j], "failed")
                                                          ELSE jobs[j]]
           ready == {j \in JobId : Leaseable(swept[j])} \ locked
<1>1. swept \in [JobId -> Row]
  BY LeaveType DEF TypeInv, TypeOK, Terminal
<1>2. /\ asking' = asking
      /\ \/ jobs' = swept /\ held' = held
         \/ \E j \in ready, t \in FreshToken :
              /\ jobs' = [swept EXCEPT ![j] = Granted(@, w, t)]
              /\ held' = [held EXCEPT ![w] = [phase |-> "leased", job |-> j, token |-> t,
                                              plan |-> jobs[j].plan]]
  BY DEF LeaseNext
<1> HIDE DEF swept
<1>3. CASE jobs' = swept /\ held' = held
  BY <1>1, <1>2, <1>3 DEF TypeInv, TypeOK, HeldIsLease
<1>4. ASSUME NEW j \in ready, NEW t \in FreshToken,
             jobs' = [swept EXCEPT ![j] = Granted(@, w, t)],
             held' = [held EXCEPT ![w] = [phase |-> "leased", job |-> j, token |-> t,
                                          plan |-> jobs[j].plan]]
      PROVE  TypeInv'
  <2> DEFINE lease == [phase |-> "leased", job |-> j, token |-> t, plan |-> jobs[j].plan]
  <2>1. j \in JobId /\ t \in Token /\ Leaseable(swept[j])
    BY DEF FreshToken
  <2>2. swept[j].attempt < MaxAttempts /\ swept[j] \in Row
    BY <1>1, <2>1, JobQueueAssumption DEF Leaseable, Row
  <2>3. jobs' \in [JobId -> Row]
    BY <1>1, <1>4, <2>1, <2>2, GrantedType
  <2>4. jobs[j].plan \in Plan
    BY <2>1 DEF TypeInv, TypeOK, Row
  <2>5. lease \in LeasedJob
    BY <2>1, <2>4 DEF LeasedJob
  <2>6. held' \in [Worker -> LeasedJob] /\ HeldIsLease'
    BY <1>4, <2>1, <2>5, HeldUpdate
  <2> QED
    BY <1>2, <2>3, <2>6 DEF TypeInv, TypeOK
<1> QED
  BY <1>2, <1>3, <1>4

LEMMA TypeFinish ==
  ASSUME TypeInv, NEW w \in Worker, Finish(w)
  PROVE  TypeInv'
<1> DEFINE row == jobs[held[w].job]
<1>1. asking' = asking /\ held' = [held EXCEPT ![w] = Idle] /\ held[w].phase # "idle"
  BY DEF Finish, MarkSucceeded, MarkFailed, MarkWaitingApproval, Abandon, HoldsLease
<1>2. held' \in [Worker -> LeasedJob] /\ HeldIsLease'
  BY <1>1, IdleType, HeldUpdate
<1>3. held[w].job \in JobId /\ row \in Row
  BY <1>1 DEF TypeInv, TypeOK, HeldIsLease
<1>4. MarkSucceeded(w) => jobs' \in [JobId -> Row]
  BY <1>3, LeaveType DEF MarkSucceeded, TypeInv, TypeOK, Terminal
<1>5. MarkFailed(w) => jobs' \in [JobId -> Row]
  BY <1>3, LeaveType DEF MarkFailed, TypeInv, TypeOK, Terminal
<1>6. MarkWaitingApproval(w) => jobs' \in [JobId -> Row]
  BY <1>3, ParkedType DEF MarkWaitingApproval, TypeInv, TypeOK
<1>7. Abandon(w) => jobs' \in [JobId -> Row]
  BY DEF Abandon, TypeInv, TypeOK
<1>8. jobs' \in [JobId -> Row]
  BY <1>4, <1>5, <1>6, <1>7 DEF Finish
<1> QED
  BY <1>1, <1>2, <1>8 DEF TypeInv, TypeOK

LEMMA TypeWork ==
  ASSUME TypeInv, NEW w \in Worker, Work(w)
  PROVE  TypeInv'
<1>1. CASE RenewLease(w)
  <2>1. held[w].job \in JobId
    BY <1>1 DEF RenewLease, HoldsLease, TypeInv, HeldIsLease
  <2> QED
    BY <1>1, <2>1, RenewedType DEF RenewLease, TypeInv, TypeOK, HeldIsLease
<1>2. CASE EnsureLease(w)
  BY <1>2 DEF EnsureLease, TypeInv, TypeOK, HeldIsLease, LeasedJob
<1>3. CASE LinkJobCheckRun(w)
  <2>1. held' \in [Worker -> LeasedJob] /\ HeldIsLease'
    BY <1>3 DEF LinkJobCheckRun, TypeInv, TypeOK, HeldIsLease, LeasedJob
  <2>2. held[w].job \in JobId
    BY <1>3 DEF LinkJobCheckRun, TypeInv, HeldIsLease
  <2>3. PICK i \in Item \union {None} : jobs' = [jobs EXCEPT ![held[w].job].current_item = i]
    BY <1>3 DEF LinkJobCheckRun
  <2>4. [jobs[held[w].job] EXCEPT !.current_item = i] \in Row
    BY <2>2 DEF TypeInv, TypeOK, Row
  <2> QED
    BY <1>3, <2>1, <2>3, <2>4 DEF LinkJobCheckRun, TypeInv, TypeOK
<1> QED
  BY <1>1, <1>2, <1>3, TypeLeaseNext, TypeFinish DEF Work

LEMMA InitType == Init => TypeInv
<1>1. AbsentRow \in Row
  BY NoLeaseType, NoPlanType, JobQueueAssumption DEF AbsentRow, Row
<1> QED
  BY <1>1, IdleType DEF Init, TypeInv, TypeOK, HeldIsLease

LEMMA TypeStep == TypeInv /\ [Next]_vars => TypeInv'
BY TypeEnqueue, TypeControl, TypeTick, TypeWork DEF Next, vars, TypeInv, TypeOK, HeldIsLease

(* The type invariant of the queue: every statement writes values the columns
   can hold, and attempt and the lease never leave their ranges.  It needs that
   what a worker holds names a row. *)
THEOREM QueueTypeCorrect == Spec => []TypeOK
<1>1. TypeInv => TypeOK
  BY DEF TypeInv
<1> QED
  BY InitType, TypeStep, <1>1, PTL DEF Spec

-----------------------------------------------------------------------------
(* What one step can do to one row.  The row-local facts below, the action    *)
(* properties and the refinement all follow from this list.                   *)

Swept(j) == Exhausted(jobs[j]) /\ jobs'[j] = Leave(jobs[j], "failed")

(* Worker w gets the lease of row j with a token t; some rows are swept. *)
Grants(j, w, t) ==
  /\ held[w].phase = "idle"
  /\ Leaseable(jobs[j])
  /\ jobs'[j] = Granted(jobs[j], w, t)
  /\ \A k \in JobId \ {j} : jobs'[k] = jobs[k] \/ Swept(k)
  /\ held' = [held EXCEPT ![w] = [phase |-> "leased", job |-> j, token |-> t,
                                  plan |-> jobs[j].plan]]

RowMove(j) ==
  LET row == jobs[j] IN
    \/ jobs'[j] = row
    \/ /\ row.state = "absent"
       /\ \E request \in Request :
            ~ActiveTwin(request) /\ jobs' = [jobs EXCEPT ![j] = Inserted(request)]
    \/ row.state \in Active /\ jobs'[j] = Cancelled(row)
    \/ /\ row.state \in {"running", "waiting_approval"}
       /\ ~row.cancel_requested
       /\ row.current_item # None
       /\ jobs'[j] = Skipped(row)
    \/ /\ row.state = "waiting_approval"
       /\ ~row.cancel_requested
       /\ row.plan.offered # None
       /\ jobs'[j] = Approved(row)
    \/ Swept(j)
    \/ \E w \in Worker, t \in FreshToken : Grants(j, w, t)
    \/ /\ row.state = "running" /\ ~row.cancel_requested /\ row.lease.ttl > 0
       /\ \/ jobs'[j] = Renewed(row)
          \/ jobs'[j] = Leave(row, "succeeded")
          \/ jobs'[j] = Leave(row, "failed")
          \/ \E hash \in Hash : jobs'[j] = Parked(row, hash)
    \/ \E i \in Item \union {None} : jobs'[j] = [row EXCEPT !.current_item = i]
    \/ jobs'[j] = Ticked(row)

LEMMA RowMovesEnqueue ==
  ASSUME TypeInv, Enqueue, NEW j \in JobId
  PROVE  RowMove(j)
<1>1. PICK request \in Request : AskForHead(request) \/ Insert(request)
  BY DEF Enqueue
<1>2. CASE UNCHANGED jobs
  BY <1>2 DEF RowMove
<1>3. ASSUME NEW k \in JobId, jobs[k].state = "absent", ~ActiveTwin(request),
             jobs' = [jobs EXCEPT ![k] = Inserted(request)]
      PROVE  RowMove(j)
  <2>1. CASE j = k
    BY <1>3, <2>1 DEF RowMove
  <2>2. CASE j # k
    BY <1>3, <2>2 DEF RowMove, TypeInv, TypeOK
  <2> QED
    BY <2>1, <2>2
<1> QED
  BY <1>1, <1>2, <1>3 DEF AskForHead, Insert

LEMMA RowMovesControl ==
  ASSUME TypeInv, Control, NEW j \in JobId
  PROVE  RowMove(j)
<1> USE DEF TypeInv, TypeOK, RowMove
<1>1. ASSUME NEW k \in JobId, RequestCancel(k) PROVE RowMove(j)
  BY <1>1 DEF RequestCancel
<1>2. ASSUME NEW k \in JobId, SkipCurrentItem(k) PROVE RowMove(j)
  BY <1>2 DEF SkipCurrentItem
<1>3. ASSUME NEW k \in JobId, ApprovePlan(k) PROVE RowMove(j)
  BY <1>3 DEF ApprovePlan
<1>4. ASSUME CancelRepositoryJobs PROVE RowMove(j)
  BY <1>4 DEF CancelRepositoryJobs
<1> QED
  BY <1>1, <1>2, <1>3, <1>4 DEF Control

LEMMA LeaseNextGrants ==
  ASSUME TypeInv, NEW w \in Worker, NEW locked \in SUBSET JobId, LeaseNext(w, locked)
  PROVE  \/ held' = held /\ \A j \in JobId : jobs'[j] = jobs[j] \/ Swept(j)
         \/ \E j \in JobId, t \in FreshToken : Grants(j, w, t)
<1> DEFINE swept == [k \in JobId |-> IF Exhausted(jobs[k]) THEN Leave(jobs[k], "failed")
                                                          ELSE jobs[k]]
           ready == {k \in JobId : Leaseable(swept[k])} \ locked
<1>1. \/ jobs' = swept /\ held' = held
      \/ /\ held[w].phase = "idle"
         /\ \E j \in ready, t \in FreshToken :
              /\ jobs' = [swept EXCEPT ![j] = Granted(@, w, t)]
              /\ held' = [held EXCEPT ![w] = [phase |-> "leased", job |-> j, token |-> t,
                                              plan |-> jobs[j].plan]]
  BY DEF LeaseNext
<1>2. ASSUME NEW j \in ready, NEW t \in FreshToken, held[w].phase = "idle",
             jobs' = [swept EXCEPT ![j] = Granted(@, w, t)],
             held' = [held EXCEPT ![w] = [phase |-> "leased", job |-> j, token |-> t,
                                          plan |-> jobs[j].plan]]
      PROVE  Grants(j, w, t)
  <2>1. ~Exhausted(jobs[j])
    BY DEF Leaseable, Leave
  <2>2. swept[j] = jobs[j]
    BY <2>1
  <2>3. Leaseable(jobs[j]) /\ jobs'[j] = Granted(jobs[j], w, t)
    BY <1>2, <2>2
  <2>4. \A k \in JobId \ {j} : jobs'[k] = jobs[k] \/ Swept(k)
    BY <1>2 DEF Swept
  <2> QED
    BY <1>2, <2>3, <2>4 DEF Grants
<1>3. jobs' = swept => \A j \in JobId : jobs'[j] = jobs[j] \/ Swept(j)
  BY DEF Swept
<1> QED
  BY <1>1, <1>2, <1>3

LEMMA RowMovesLease ==
  ASSUME TypeInv, NEW w \in Worker, NEW locked \in SUBSET JobId, LeaseNext(w, locked),
         NEW j \in JobId
  PROVE  RowMove(j)
<1>1. jobs'[j] = jobs[j] \/ Swept(j) \/ \E t \in FreshToken : Grants(j, w, t)
  <2>1. ASSUME NEW k \in JobId, NEW t \in FreshToken, Grants(k, w, t), j # k
        PROVE  jobs'[j] = jobs[j] \/ Swept(j)
    BY <2>1 DEF Grants
  <2> QED
    BY <2>1, LeaseNextGrants
<1> QED
  BY <1>1 DEF RowMove

LEMMA RowMovesWork ==
  ASSUME TypeInv, NEW w \in Worker, Work(w), NEW j \in JobId
  PROVE  RowMove(j)
<1> USE DEF TypeInv, TypeOK, RowMove, HoldsLease
<1>1. CASE RenewLease(w)
  BY <1>1 DEF RenewLease
<1>2. CASE EnsureLease(w)
  BY <1>2 DEF EnsureLease
<1>3. CASE LinkJobCheckRun(w)
  BY <1>3 DEF LinkJobCheckRun
<1>4. CASE MarkSucceeded(w)
  BY <1>4 DEF MarkSucceeded
<1>5. CASE MarkFailed(w)
  BY <1>5 DEF MarkFailed
<1>6. CASE MarkWaitingApproval(w)
  BY <1>6 DEF MarkWaitingApproval
<1>7. CASE Abandon(w)
  BY <1>7 DEF Abandon
<1> QED
  BY <1>1, <1>2, <1>3, <1>4, <1>5, <1>6, <1>7, RowMovesLease DEF Work, Finish

LEMMA RowMoves ==
  ASSUME TypeInv, [Next]_vars, NEW j \in JobId
  PROVE  RowMove(j)
<1>1. CASE Tick
  BY <1>1 DEF Tick, RowMove
<1>2. CASE UNCHANGED vars
  BY <1>2 DEF vars, RowMove
<1> QED
  BY <1>1, <1>2, RowMovesEnqueue, RowMovesControl, RowMovesWork DEF Next

-----------------------------------------------------------------------------
(* The invariants that speak of one row at a time. *)

LeaseColumnsMatch(row) ==
  /\ row.state = "running" => row.lease.owner # None /\ row.lease.token # None
  /\ row.state # "running" => row.lease = NoLease
  /\ row.cancel_requested <=> (row.state = "cancelled")

AttemptsPaid(row) ==
  /\ row.state \in {"running", "waiting_approval"} => row.attempt > 0
  /\ row.state = "queued" /\ row.attempt = MaxAttempts => row.plan.approved # None

RowInv == \A j \in JobId : LeaseColumnsMatch(jobs[j]) /\ AttemptsPaid(jobs[j])

LEMMA RowInvStep ==
  ASSUME TypeInv, RowInv, [Next]_vars, NEW j \in JobId
  PROVE  LeaseColumnsMatch(jobs'[j]) /\ AttemptsPaid(jobs'[j])
<1> DEFINE row == jobs[j]
<1>1. row \in Row /\ LeaseColumnsMatch(row) /\ AttemptsPaid(row)
  BY DEF TypeInv, TypeOK, RowInv
<1>2. RowMove(j)
  BY RowMoves
<1> USE JobQueueAssumption DEF LeaseColumnsMatch, AttemptsPaid, Row, NoLease, LeaseColumns, Leave
<1>3. CASE jobs'[j] = row
  BY <1>1, <1>3
<1>4. ASSUME NEW request \in Request, jobs'[j] = Inserted(request)
      PROVE  LeaseColumnsMatch(jobs'[j]) /\ AttemptsPaid(jobs'[j])
  BY <1>4 DEF Inserted, AbsentRow
<1>5. CASE jobs'[j] = Cancelled(row)
  BY <1>1, <1>5 DEF Cancelled
<1>6. CASE /\ row.state \in {"running", "waiting_approval"}
           /\ ~row.cancel_requested
           /\ jobs'[j] = Skipped(row)
  BY <1>1, <1>6 DEF Skipped
<1>7. CASE /\ row.state = "waiting_approval"
           /\ ~row.cancel_requested
           /\ row.plan.offered # None
           /\ jobs'[j] = Approved(row)
  BY <1>1, <1>7 DEF Approved, Approve, Plan
<1>8. CASE ~row.cancel_requested /\ jobs'[j] = Leave(row, "failed")
  BY <1>1, <1>8
<1>9. ASSUME NEW w \in Worker, NEW t \in FreshToken, Grants(j, w, t)
      PROVE  LeaseColumnsMatch(jobs'[j]) /\ AttemptsPaid(jobs'[j])
  BY <1>1, <1>9 DEF Grants, Granted, FreshToken, Leaseable
<1>10. CASE row.state = "running" /\ ~row.cancel_requested /\ jobs'[j] = Renewed(row)
  BY <1>1, <1>10 DEF Renewed
<1>11. CASE ~row.cancel_requested /\ jobs'[j] = Leave(row, "succeeded")
  BY <1>1, <1>11
<1>12. ASSUME NEW hash \in Hash, row.state = "running", ~row.cancel_requested,
              jobs'[j] = Parked(row, hash)
       PROVE  LeaseColumnsMatch(jobs'[j]) /\ AttemptsPaid(jobs'[j])
  BY <1>1, <1>12 DEF Parked
<1>13. ASSUME NEW i, jobs'[j] = [row EXCEPT !.current_item = i]
       PROVE  LeaseColumnsMatch(jobs'[j]) /\ AttemptsPaid(jobs'[j])
  BY <1>1, <1>13
<1>14. CASE jobs'[j] = Ticked(row)
  BY <1>1, <1>14 DEF Ticked
<1> HIDE DEF LeaseColumnsMatch, AttemptsPaid, Leave
<1>15. ASSUME NEW request \in Request, jobs' = [jobs EXCEPT ![j] = Inserted(request)]
       PROVE  jobs'[j] = Inserted(request)
  BY <1>15 DEF TypeInv, TypeOK
<1> QED
  BY <1>2, <1>3, <1>4, <1>5, <1>6, <1>7, <1>8, <1>9, <1>10, <1>11, <1>12, <1>13, <1>14, <1>15
     DEF RowMove, Swept, Exhausted

-----------------------------------------------------------------------------
(* One active job per identity. *)

LEMMA OneActiveStep ==
  ASSUME TypeInv, OneActivePerIdentity, [Next]_vars
  PROVE  OneActivePerIdentity'
<1> DEFINE Old(j) == jobs[j].state \in Active /\ jobs'[j].identity = jobs[j].identity
           New(j, request) == /\ ~ActiveTwin(request)
                              /\ jobs' = [jobs EXCEPT ![j] = Inserted(request)]
<1>1. ASSUME NEW j \in JobId, jobs'[j].state \in Active
      PROVE  Old(j) \/ \E request \in Request : New(j, request)
  <2>1. RowMove(j) /\ jobs[j] \in Row
    BY RowMoves DEF TypeInv, TypeOK
  <2>2. /\ jobs'[j] = Leave(jobs[j], "failed") => jobs'[j].state = "failed"
        /\ jobs'[j] = Leave(jobs[j], "succeeded") => jobs'[j].state = "succeeded"
        /\ jobs'[j] = Cancelled(jobs[j]) => jobs'[j].state = "cancelled"
        /\ jobs'[j] = Skipped(jobs[j]) => jobs'[j].identity = jobs[j].identity
        /\ jobs'[j] = Approved(jobs[j]) => jobs'[j].identity = jobs[j].identity
        /\ jobs'[j] = Renewed(jobs[j]) => jobs'[j].identity = jobs[j].identity
        /\ jobs'[j] = Ticked(jobs[j]) =>
             jobs'[j].identity = jobs[j].identity /\ jobs'[j].state = jobs[j].state
        /\ \A i : jobs'[j] = [jobs[j] EXCEPT !.current_item = i] =>
             jobs'[j].identity = jobs[j].identity /\ jobs'[j].state = jobs[j].state
        /\ \A w, t : jobs'[j] = Granted(jobs[j], w, t) => jobs'[j].identity = jobs[j].identity
        /\ \A hash : jobs'[j] = Parked(jobs[j], hash) => jobs'[j].identity = jobs[j].identity
    BY <2>1 DEF Row, Leave, Cancelled, Skipped, Approved, Renewed, Ticked, Granted, Parked
  <2>3. \A w, t : Grants(j, w, t) =>
          jobs[j].state \in Active /\ jobs'[j] = Granted(jobs[j], w, t)
    BY DEF Grants, Leaseable, Active
  <2> QED
    BY <1>1, <2>1, <2>2, <2>3 DEF RowMove, Swept, Active
<1>2. ASSUME NEW j \in JobId, NEW k \in JobId, NEW request \in Request, New(j, request),
             j # k, jobs'[k].state \in Active
      PROVE  jobs'[k].identity # jobs'[j].identity
  <2>1. jobs'[k] = jobs[k] /\ jobs'[j] = Inserted(request)
    BY <1>2 DEF TypeInv, TypeOK
  <2>2. Inserted(request).identity = request.identity
    BY DEF Inserted, AbsentRow
  <2> QED
    BY <1>2, <2>1, <2>2 DEF ActiveTwin
<1>3. ASSUME NEW j \in JobId, NEW k \in JobId, jobs'[j].state \in Active,
             jobs'[k].state \in Active, jobs'[j].identity = jobs'[k].identity, j # k
      PROVE  FALSE
  <2>1. Old(j) /\ Old(k)
    BY <1>1, <1>2, <1>3
  <2> QED
    BY <1>3, <2>1 DEF OneActivePerIdentity
<1> QED
  BY <1>3 DEF OneActivePerIdentity

-----------------------------------------------------------------------------
(* The fence between workers and rows. *)

Grant == \E j \in JobId, w \in Worker, t \in FreshToken : Grants(j, w, t)

(* In a step that grants no lease, a worker goes on with what it holds or lets
   it go, and the lease columns of a row keep their token or are cleared. *)
GoesOn(w) ==
  /\ held[w].phase # "idle"
  /\ held'[w].job = held[w].job
  /\ held'[w].token = held[w].token
  /\ held'[w].plan = held[w].plan

KeepsLease(j) ==
  \/ jobs'[j].lease.token = None
  \/ /\ jobs'[j].lease.token = jobs[j].lease.token
     /\ jobs'[j].lease.owner = jobs[j].lease.owner

LEMMA HeldMoves ==
  ASSUME TypeInv, [Next]_vars, ~Grant, NEW w \in Worker
  PROVE  held'[w].phase = "idle" \/ GoesOn(w)
<1> USE DEF TypeInv, TypeOK, GoesOn
<1>1. CASE held' = held
  BY <1>1
<1>2. ASSUME NEW v \in Worker, held' = [held EXCEPT ![v] = Idle]
      PROVE  held'[w].phase = "idle" \/ GoesOn(w)
  BY <1>2 DEF Idle
<1>3. ASSUME NEW v \in Worker, EnsureLease(v)
      PROVE  held'[w].phase = "idle" \/ GoesOn(w)
  BY <1>3 DEF EnsureLease, LeasedJob
<1>4. ASSUME NEW v \in Worker, LinkJobCheckRun(v)
      PROVE  held'[w].phase = "idle" \/ GoesOn(w)
  BY <1>4 DEF LinkJobCheckRun, LeasedJob
<1>5. ASSUME NEW v \in Worker, NEW locked \in SUBSET JobId, LeaseNext(v, locked)
      PROVE  held' = held
  BY <1>5, LeaseNextGrants DEF Grant
<1>6. Enqueue \/ Control \/ Tick \/ UNCHANGED vars => held' = held
  BY DEF Enqueue, AskForHead, Insert, Control, RequestCancel, SkipCurrentItem, ApprovePlan,
         CancelRepositoryJobs, Tick, vars
<1>7. ASSUME NEW v \in Worker, Finish(v)
      PROVE  held' = [held EXCEPT ![v] = Idle]
  BY <1>7 DEF Finish, MarkSucceeded, MarkFailed, MarkWaitingApproval, Abandon
<1>8. ASSUME NEW v \in Worker, RenewLease(v)
      PROVE  held' = held
  BY <1>8 DEF RenewLease
<1> QED
  BY <1>1, <1>2, <1>3, <1>4, <1>5, <1>6, <1>7, <1>8 DEF Next, Work

LEMMA LeaseMoves ==
  ASSUME TypeInv, RowInv, [Next]_vars, ~Grant, NEW j \in JobId
  PROVE  KeepsLease(j)
<1>1. RowMove(j) /\ jobs[j] \in Row /\ LeaseColumnsMatch(jobs[j])
  BY RowMoves DEF TypeInv, TypeOK, RowInv
<1>2. ~\E w \in Worker, t \in FreshToken : Grants(j, w, t)
  BY DEF Grant
<1>0. CASE jobs'[j] = jobs[j]
  BY <1>0 DEF KeepsLease
<1> USE DEF KeepsLease
<1>3. ASSUME NEW request \in Request, jobs' = [jobs EXCEPT ![j] = Inserted(request)]
      PROVE  KeepsLease(j)
  BY <1>3 DEF Inserted, AbsentRow, NoLease, TypeInv, TypeOK
<1>4. CASE \/ jobs'[j] \in {Leave(jobs[j], "failed"), Leave(jobs[j], "succeeded")}
           \/ jobs'[j] \in {Cancelled(jobs[j]), Skipped(jobs[j])}
           \/ \E hash \in Hash : jobs'[j] = Parked(jobs[j], hash)
  <2>1. jobs'[j].lease = NoLease
    BY <1>1, <1>4, LeaseCleared
  <2> QED
    BY <2>1 DEF NoLease
<1>5. CASE \/ jobs'[j] = Approved(jobs[j])
           \/ \E i \in Item \union {None} : jobs'[j] = [jobs[j] EXCEPT !.current_item = i]
  BY <1>1, <1>5 DEF Approved, Row
<1>6. CASE jobs'[j] = Renewed(jobs[j]) \/ jobs'[j] = Ticked(jobs[j])
  BY <1>1, <1>6 DEF Renewed, Ticked, Row, LeaseColumns
<1> HIDE DEF KeepsLease
<1> QED
  BY <1>0, <1>1, <1>2, <1>3, <1>4, <1>5, <1>6 DEF RowMove, Swept

LEMMA FenceStep ==
  ASSUME TypeInv, RowInv, TokenNamesLease, [Next]_vars
  PROVE  TokenNamesLease'
<1>1. CASE ~Grant
  BY <1>1, HeldMoves, LeaseMoves, JobQueueAssumption
     DEF TokenNamesLease, GoesOn, KeepsLease, TypeInv, TypeOK, HeldIsLease
<1>2. ASSUME NEW i \in JobId, NEW u \in Worker, NEW t \in FreshToken, Grants(i, u, t)
      PROVE  TokenNamesLease'
  <2>1. /\ held'[u].phase = "leased" /\ held'[u].job = i /\ held'[u].token = t
        /\ \A w \in Worker \ {u} : held'[w] = held[w]
    BY <1>2 DEF Grants, TypeInv, TypeOK
  <2>2. jobs'[i].lease.token = t /\ jobs'[i].lease.owner = u
    BY <1>2 DEF Grants, Granted, TypeInv, TypeOK, Row
  <2>3. \A k \in JobId \ {i} :
          jobs'[k].lease.token = None \/ jobs'[k].lease = jobs[k].lease
    <3>1. \A k \in JobId : Leave(jobs[k], "failed").lease.token = None
      BY DEF Leave, NoLease, TypeInv, TypeOK, Row
    <3> QED
      BY <1>2, <3>1 DEF Grants, Swept
  <2>4. /\ t \in Token /\ t # None
        /\ \A w \in Worker : held[w].token # t
        /\ \A k \in JobId : jobs[k].lease.token # t
    BY JobQueueAssumption DEF FreshToken
  <2>5. ASSUME NEW w \in Worker, held'[w].phase # "idle",
               NEW v \in Worker, held'[v].phase # "idle", held'[v].token = held'[w].token
        PROVE  v = w
    BY <2>1, <2>4, <2>5 DEF TokenNamesLease
  <2>6. ASSUME NEW w \in Worker, held'[w].phase # "idle",
               NEW j \in JobId, jobs'[j].lease.token = held'[w].token
        PROVE  j = held'[w].job /\ jobs'[j].lease.owner = w
    <3>1. CASE w = u
      BY <2>1, <2>2, <2>3, <2>4, <2>6, <3>1
    <3>2. CASE w # u
      BY <2>1, <2>2, <2>3, <2>4, <2>6, <3>2, JobQueueAssumption
         DEF TokenNamesLease, TypeInv, HeldIsLease
    <3> QED
      BY <3>1, <3>2
  <2> QED
    BY <2>5, <2>6 DEF TokenNamesLease
<1> QED
  BY <1>1, <1>2 DEF Grant

-----------------------------------------------------------------------------
(* A live lease and its plan. *)

LEMMA HoldsLeaseStep ==
  ASSUME TypeInv, RowInv, [Next]_vars, NEW w \in Worker, HoldsLease(w)', GoesOn(w)
  PROVE  HoldsLease(w) /\ jobs'[held[w].job].plan = jobs[held[w].job].plan
<1> DEFINE j == held[w].job
<1>1. /\ j \in JobId /\ held[w].token \in Token /\ held[w].phase # "idle"
      /\ held'[w].job = j /\ held'[w].token = held[w].token
  BY DEF GoesOn, TypeInv, HeldIsLease
<1>2. /\ jobs'[j].state = "running"
      /\ ~jobs'[j].cancel_requested
      /\ jobs'[j].lease.owner = w
      /\ jobs'[j].lease.token = held[w].token
      /\ jobs'[j].lease.ttl > 0
  BY <1>1 DEF HoldsLease
<1>3. RowMove(j) /\ jobs[j] \in Row /\ held[w].token # None
  BY <1>1, RowMoves, JobQueueAssumption DEF TypeInv, TypeOK
<1> HIDE DEF j
<1> DEFINE Live == /\ jobs[j].state = "running"
                   /\ ~jobs[j].cancel_requested
                   /\ jobs[j].lease.owner = w
                   /\ jobs[j].lease.token = held[w].token
                   /\ jobs[j].lease.ttl > 0
                   /\ jobs'[j].plan = jobs[j].plan
<1> SUFFICES Live
  BY <1>1 DEF HoldsLease, j
<1>4. CASE jobs'[j] = jobs[j]
  BY <1>2, <1>4
<1>5. CASE jobs'[j].lease = NoLease
  BY <1>2, <1>3, <1>5 DEF NoLease
<1>6. ASSUME NEW request \in Request, jobs' = [jobs EXCEPT ![j] = Inserted(request)]
      PROVE  FALSE
  BY <1>1, <1>2, <1>6 DEF j, Inserted, AbsentRow, TypeInv, TypeOK
<1>7. CASE jobs'[j] = Approved(jobs[j])
  BY <1>2, <1>3, <1>7 DEF Approved, Row
<1>8. ASSUME NEW v \in Worker, NEW t \in FreshToken, Grants(j, v, t)
      PROVE  FALSE
  BY <1>1, <1>2, <1>3, <1>8 DEF Grants, Granted, FreshToken, Row
<1>9. CASE /\ jobs'[j] = Renewed(jobs[j])
           /\ jobs[j].state = "running" /\ ~jobs[j].cancel_requested /\ jobs[j].lease.ttl > 0
  BY <1>2, <1>3, <1>9 DEF Renewed, Row, LeaseColumns
<1>10. ASSUME NEW i, jobs'[j] = [jobs[j] EXCEPT !.current_item = i]
       PROVE  Live
  BY <1>2, <1>3, <1>10 DEF Row
<1>11. CASE jobs'[j] = Ticked(jobs[j])
  BY <1>2, <1>3, <1>11 DEF Ticked, Row, LeaseColumns
<1> HIDE DEF Live
<1> QED
  BY <1>3, <1>4, <1>5, <1>6, <1>7, <1>8, <1>9, <1>10, <1>11, LeaseCleared DEF RowMove, Swept

LEMMA LivePlanStep ==
  ASSUME TypeInv, RowInv, LivePlanIsCurrent, [Next]_vars
  PROVE  LivePlanIsCurrent'
<1> SUFFICES ASSUME NEW w \in Worker, HoldsLease(w)'
             PROVE  held'[w].plan = jobs'[held'[w].job].plan
  BY DEF LivePlanIsCurrent
<1>1. held'[w].phase # "idle"
  BY DEF HoldsLease
<1>2. CASE GoesOn(w)
  BY <1>2, HoldsLeaseStep DEF GoesOn, LivePlanIsCurrent
<1>3. ASSUME NEW i \in JobId, NEW u \in Worker, NEW t \in FreshToken, Grants(i, u, t)
      PROVE  GoesOn(w) \/ held'[w].plan = jobs'[held'[w].job].plan
  <2>1. CASE w = u
    <3>1. held'[w].job = i /\ held'[w].plan = jobs[i].plan
      BY <1>3, <2>1 DEF Grants, TypeInv, TypeOK
    <3>2. jobs'[i].plan = jobs[i].plan
      BY <1>3 DEF Grants, Granted, TypeInv, TypeOK, Row
    <3> QED
      BY <3>1, <3>2
  <2>2. CASE w # u
    BY <1>1, <1>3, <2>2 DEF Grants, GoesOn, TypeInv, TypeOK
  <2> QED
    BY <2>1, <2>2
<1> QED
  BY <1>1, <1>2, <1>3, HeldMoves DEF Grant

-----------------------------------------------------------------------------
(* The inductive invariant. *)

QueueInv ==
  /\ TypeInv
  /\ RowInv
  /\ OneActivePerIdentity
  /\ TokenNamesLease
  /\ LivePlanIsCurrent

(* The inductive invariant of the queue: types, the columns of each row, the
   unique index, the fence between tokens and rows, and the plan of a live
   lease, kept by every statement of src/queue.rs. *)
THEOREM QueueInvariant == Spec => []QueueInv
<1>1. Init => QueueInv
  <2>1. ASSUME Init PROVE TypeInv
    BY <2>1, InitType
  <2>2. ASSUME Init PROVE RowInv
    BY <2>2, JobQueueAssumption
       DEF Init, RowInv, LeaseColumnsMatch, AttemptsPaid, AbsentRow
  <2>3. ASSUME Init PROVE OneActivePerIdentity
    BY <2>3 DEF Init, OneActivePerIdentity, AbsentRow, Active
  <2>4. ASSUME Init PROVE TokenNamesLease /\ LivePlanIsCurrent
    BY <2>4 DEF Init, TokenNamesLease, LivePlanIsCurrent, HoldsLease, Idle
  <2> QED
    BY <2>1, <2>2, <2>3, <2>4 DEF QueueInv
<1>2. QueueInv /\ [Next]_vars => QueueInv'
  <2>1. TypeInv /\ RowInv /\ [Next]_vars => RowInv'
    BY RowInvStep DEF RowInv
  <2> QED
    BY <2>1, TypeStep, OneActiveStep, FenceStep, LivePlanStep DEF QueueInv
<1> QED
  BY <1>1, <1>2, PTL DEF Spec

(* enqueue and its partial unique index: never two active jobs for one pull
   request and kind, whatever requeues a job meanwhile. *)
THEOREM OneActiveJob == Spec => []OneActivePerIdentity
<1>1. QueueInv => OneActivePerIdentity
  BY DEF QueueInv
<1> QED
  BY QueueInvariant, <1>1, PTL

(* The lease columns and cancel_requested agree with the state of the row: no
   statement of src/queue.rs leaves a lease behind, or takes one away from a
   running job. *)
THEOREM LeaseColumnsCorrect == Spec => []LeaseColumnsMatchState
<1>1. QueueInv => LeaseColumnsMatchState
  BY DEF QueueInv, RowInv, LeaseColumnsMatch, LeaseColumnsMatchState
<1> QED
  BY QueueInvariant, <1>1, PTL

(* The refund of skip_current_item gives back a run that was paid for, and a
   queued job has a run left unless it was approved with none. *)
THEOREM AttemptsCorrect == Spec => []AttemptAccounting
<1>1. QueueInv => AttemptAccounting
  BY DEF QueueInv, RowInv, AttemptsPaid, AttemptAccounting
<1> QED
  BY QueueInvariant, <1>1, PTL

(* The token that lease_next makes up fences a row: only the worker that was
   given it, and only on the row it was given with. *)
THEOREM TokensFence == Spec => []TokenNamesLease
<1>1. QueueInv => TokenNamesLease
  BY DEF QueueInv
<1> QED
  BY QueueInvariant, <1>1, PTL

(* A worker that still passes ensure_lease executes the plan in the row. *)
THEOREM LivePlanCorrect == Spec => []LivePlanIsCurrent
<1>1. QueueInv => LivePlanIsCurrent
  BY DEF QueueInv
<1> QED
  BY QueueInvariant, <1>1, PTL

-----------------------------------------------------------------------------
(* What no step does. *)

(* The tokens of lease_next fence: a lost lease is never regained, by a late
   renew_lease or by another lease of the same job. *)
THEOREM LeaseFence == Spec => LostLeaseStaysLost
<1>1. QueueInv /\ [Next]_vars => [NoLeaseRegained]_vars
  <2> SUFFICES ASSUME QueueInv, [Next]_vars, NEW w \in Worker, SameLease(w), HoldsLease(w)'
               PROVE  HoldsLease(w)
    BY DEF NoLeaseRegained
  <2>1. GoesOn(w)
    <3>1. held[w].phase # "idle" /\ held'[w].phase # "idle" /\ held'[w].token = held[w].token
      BY DEF SameLease
    <3>2. ASSUME NEW i \in JobId, NEW u \in Worker, NEW t \in FreshToken, Grants(i, u, t)
          PROVE  held'[w] = held[w]
      BY <3>1, <3>2 DEF Grants, QueueInv, TypeInv, TypeOK
    <3> QED
      BY <3>1, <3>2, HeldMoves DEF Grant, GoesOn, QueueInv
  <2> QED
    BY <2>1, HoldsLeaseStep DEF QueueInv
<1> QED
  BY QueueInvariant, <1>1, PTL DEF Spec, LostLeaseStaysLost

(* The guards of the statements: nothing moves a job that succeeded, failed or
   was cancelled. *)
THEOREM TerminalFinality == Spec => TerminalIsFinal
<1>1. QueueInv /\ [Next]_vars => [TerminalKept]_vars
  <2> SUFFICES ASSUME QueueInv, [Next]_vars, NEW j \in JobId, jobs[j].state \in Terminal
               PROVE  /\ jobs'[j].state = jobs[j].state
                      /\ jobs'[j].attempt = jobs[j].attempt
                      /\ jobs'[j].plan = jobs[j].plan
    BY DEF TerminalKept
  <2>1. RowMove(j) /\ jobs[j] \in Row
    BY RowMoves DEF QueueInv, TypeInv, TypeOK
  <2>2. \/ jobs'[j] = jobs[j]
        \/ \E i \in Item \union {None} : jobs'[j] = [jobs[j] EXCEPT !.current_item = i]
        \/ jobs'[j] = Ticked(jobs[j])
    BY <2>1 DEF RowMove, Terminal, Active, Swept, Exhausted, Grants, Leaseable
  <2> QED
    BY <2>1, <2>2 DEF Ticked, Row
<1> QED
  BY QueueInvariant, <1>1, PTL DEF Spec, TerminalIsFinal

-----------------------------------------------------------------------------
(* The queue implements the board. *)

(* The moves of the board, in terms of the row before and after. *)
LEMMA BoardMove ==
  ASSUME NEW j \in JobId
  PROVE  Board!Move(j) <=>
           \/ /\ BoardStatus(jobs[j]) = "absent" /\ BoardStatus(jobs'[j]) = "queued"
              /\ BoardExecutor(jobs'[j]) = None
              /\ jobs'[j].identity \in Identity
              /\ \A k \in JobId : BoardStatus(jobs[k]) \in Board!Open =>
                                    jobs[k].identity # jobs'[j].identity
           \/ /\ jobs'[j].identity = jobs[j].identity
              /\ \/ /\ BoardStatus(jobs'[j]) = BoardStatus(jobs[j])
                    /\ BoardExecutor(jobs'[j]) = BoardExecutor(jobs[j])
                 \/ /\ BoardStatus(jobs[j]) \in {"queued", "orphaned"}
                    /\ BoardStatus(jobs'[j]) = "executing"
                    /\ BoardExecutor(jobs'[j]) \in Worker
                 \/ /\ BoardExecutor(jobs'[j]) = None
                    /\ \/ /\ BoardStatus(jobs[j]) = "executing"
                          /\ BoardStatus(jobs'[j]) \in {"orphaned", "succeeded", "waiting"}
                       \/ /\ BoardStatus(jobs[j]) \in {"executing", "queued", "orphaned"}
                          /\ BoardStatus(jobs'[j]) = "failed"
                       \/ /\ BoardStatus(jobs[j]) \in {"executing", "orphaned", "waiting"}
                          /\ BoardStatus(jobs'[j]) = "queued"
                       \/ /\ BoardStatus(jobs[j]) \in Board!Open
                          /\ BoardStatus(jobs'[j]) = "cancelled"
BY DEF Board!Move, Board!Submit, Board!Keep, Board!Start, Board!Orphan, Board!Report,
       Board!Fail, Board!Requeue, Board!Cancel, Board!Goes

LEMMA StepIsBoardMove ==
  ASSUME TypeInv, RowInv, [Next]_vars, NEW j \in JobId
  PROVE  Board!Move(j)
<1> DEFINE row == jobs[j]
           next == jobs'[j]
<1>1. row \in Row /\ LeaseColumnsMatch(row)
  BY DEF TypeInv, TypeOK, RowInv
<1> USE JobQueueAssumption
    DEF BoardStatus, BoardExecutor, Board!Open, LeaseColumnsMatch, Active, Row, LeaseColumns,
        NoLease
<1>2. CASE next = row
  BY <1>2, BoardMove
<1>3. ASSUME NEW request \in Request, row.state = "absent", ~ActiveTwin(request),
             jobs' = [jobs EXCEPT ![j] = Inserted(request)]
      PROVE  Board!Move(j)
  <2>1. next = Inserted(request)
    BY <1>3 DEF TypeInv, TypeOK
  <2>2. next.state = "queued" /\ next.identity = request.identity /\ next.lease.ttl = 0
    BY <2>1 DEF Inserted, AbsentRow
  <2>3. next.identity \in Identity
    BY <2>2 DEF Request
  <2>4. ASSUME NEW k \in JobId, BoardStatus(jobs[k]) \in Board!Open
        PROVE  jobs[k].identity # next.identity
    <3>1. jobs[k].state \in {"absent"} \union Active \union Terminal
      BY DEF TypeInv, TypeOK
    <3>2. jobs[k].state \in Active
      BY <2>4, <3>1 DEF Terminal
    <3> QED
      BY <1>3, <2>2, <3>2 DEF ActiveTwin
  <2> QED
    BY <1>3, <2>2, <2>3, <2>4, BoardMove
<1>4. CASE row.state \in Active /\ next = Cancelled(row)
  <2>1. next.state = "cancelled" /\ next.identity = row.identity /\ next.lease = NoLease
    BY <1>1, <1>4 DEF Cancelled, Leave
  <2> QED
    BY <1>1, <1>4, <2>1, BoardMove
<1>5. CASE row.state \in {"running", "waiting_approval"} /\ next = Skipped(row)
  <2>1. next.state = "queued" /\ next.identity = row.identity /\ next.lease = NoLease
    BY <1>1, <1>5 DEF Skipped, Leave
  <2> QED
    BY <1>1, <1>5, <2>1, BoardMove
<1>6. CASE row.state = "waiting_approval" /\ next = Approved(row)
  <2>1. next.state = "queued" /\ next.identity = row.identity /\ next.lease = row.lease
    BY <1>1, <1>6 DEF Approved
  <2> QED
    BY <1>1, <1>6, <2>1, BoardMove
<1>7. CASE row.state \in {"queued", "running"} /\ next = Leave(row, "failed")
  <2>1. next.state = "failed" /\ next.identity = row.identity /\ next.lease = NoLease
    BY <1>1, <1>7 DEF Leave
  <2> QED
    BY <1>1, <1>7, <2>1, BoardMove
<1>8. ASSUME NEW w \in Worker, NEW t \in FreshToken, Grants(j, w, t)
      PROVE  Board!Move(j)
  <2>1. /\ next.state = "running" /\ next.identity = row.identity
        /\ next.lease.ttl = LeaseTicks /\ next.lease.owner = w
    BY <1>1, <1>8 DEF Grants, Granted
  <2>2. row.state = "queued" \/ (row.state = "running" /\ row.lease.ttl = 0)
    BY <1>8 DEF Grants, Leaseable
  <2> QED
    BY <1>1, <2>1, <2>2, BoardMove
<1>9. CASE /\ row.state = "running" /\ row.lease.ttl > 0
           /\ \/ next = Leave(row, "succeeded")
              \/ \E hash \in Hash : next = Parked(row, hash)
  <2>1. /\ next.state \in {"succeeded", "waiting_approval"}
        /\ next.identity = row.identity /\ next.lease = NoLease
    BY <1>1, <1>9 DEF Leave, Parked
  <2> QED
    BY <1>1, <1>9, <2>1, BoardMove
<1>10. CASE row.state = "running" /\ row.lease.ttl > 0 /\ next = Renewed(row)
  <2>1. /\ next.state = "running" /\ next.identity = row.identity
        /\ next.lease.ttl = LeaseTicks /\ next.lease.owner = row.lease.owner
    BY <1>1, <1>10 DEF Renewed
  <2> QED
    BY <1>1, <1>10, <2>1, BoardMove
<1>11. CASE \E i \in Item \union {None} : next = [row EXCEPT !.current_item = i]
  <2>1. next.state = row.state /\ next.identity = row.identity /\ next.lease = row.lease
    BY <1>1, <1>11
  <2> QED
    BY <2>1, BoardMove
<1>12. CASE next = Ticked(row)
  <2>1. /\ next.state = row.state /\ next.identity = row.identity
        /\ next.lease.owner = row.lease.owner
        /\ next.lease.ttl = IF row.lease.ttl > 0 THEN row.lease.ttl - 1 ELSE 0
    BY <1>1, <1>12 DEF Ticked
  <2> QED
    BY <1>1, <2>1, BoardMove
<1>13. RowMove(j)
  BY RowMoves
<1> QED
  BY <1>2, <1>3, <1>4, <1>5, <1>6, <1>7, <1>8, <1>9, <1>10, <1>11, <1>12, <1>13
     DEF RowMove, Swept, Exhausted

LEMMA OneSubmission ==
  ASSUME TypeInv, [Next]_vars, NEW j \in JobId, NEW k \in JobId,
         Board!Submit(j), Board!Submit(k)
  PROVE  j = k
<1>1. ASSUME NEW i \in JobId, Board!Submit(i)
      PROVE  jobs[i].state = "absent" /\ jobs'[i].state = "queued"
  BY <1>1 DEF Board!Submit, Board!Goes, BoardStatus
<1>2. ASSUME NEW i \in JobId, jobs[i].state = "absent", jobs'[i].state = "queued"
      PROVE  \E request \in Request : jobs' = [jobs EXCEPT ![i] = Inserted(request)]
  <2>1. RowMove(i) /\ jobs[i] \in Row
    BY RowMoves DEF TypeInv, TypeOK
  <2>2. /\ jobs'[i] # jobs[i]
        /\ jobs'[i] # Ticked(jobs[i])
        /\ \A c : jobs'[i] # [jobs[i] EXCEPT !.current_item = c]
    BY <1>2, <2>1 DEF Ticked, Row
  <2> QED
    BY <1>2, <2>1, <2>2 DEF RowMove, Active, Swept, Exhausted, Grants, Leaseable
<1> QED
  BY <1>1, <1>2 DEF TypeInv, TypeOK

(* The job queue refines the board: the statements of src/queue.rs do to the
   rows only what a board allows, with a lease that has time left as the only
   licence to report. *)
THEOREM QueueImplementsBoard == Spec => ImplementsBoard
<1>1. Init => Board!BoardInit
  BY DEF Init, Board!BoardInit, BoardStatus, BoardExecutor, AbsentRow, NoLease
<1>2. QueueInv /\ [Next]_vars => [Board!BoardNext]_Board!boardVars
  BY StepIsBoardMove, OneSubmission DEF QueueInv, Board!BoardNext
<1> QED
  BY QueueInvariant, <1>1, <1>2, PTL DEF Spec, ImplementsBoard, Board!BoardSpec
=============================================================================
