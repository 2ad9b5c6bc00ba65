------------------------- MODULE JobQueueProperties -------------------------
(***************************************************************************)
(* What the job queue must keep true, for JobQueue.                        *)
(***************************************************************************)
EXTENDS JobQueue

(* Never two active jobs for one pull request and kind: the partial unique
   index and ON CONFLICT of enqueue, however many webhooks, reconciles and
   controls interleave with the statements that requeue a job. *)
OneActivePerIdentity ==
  \A j, k \in JobId :
    /\ jobs[j].state \in Active
    /\ jobs[k].state \in Active
    /\ jobs[j].identity = jobs[k].identity
    => j = k

(* The lease columns are set exactly while a job runs, and cancel_requested
   exactly when it is cancelled: what migration 0007 normalises stays so, and
   the cancel_requested guards of the statements never disagree with state. *)
LeaseColumnsMatchState ==
  \A j \in JobId :
    LET row == jobs[j] IN
      /\ row.state = "running" => row.lease.owner # None /\ row.lease.token # None
      /\ row.state # "running" => row.lease = NoLease
      /\ row.cancel_requested <=> (row.state = "cancelled")

(* A worker whose lease holds executes the plan that is in the row: no skip
   and no approval reaches a plan while a worker that still passes
   ensure_lease works from an older copy of it. *)
LivePlanIsCurrent ==
  \A w \in Worker : HoldsLease(w) => held[w].plan = jobs[held[w].job].plan

(* The fence: a token that lease_next made up is remembered by one worker, and
   a row that has it names that worker and is the row that worker leased, also
   while workers whose leases ran out go on with older tokens. *)
TokenNamesLease ==
  \A w \in Worker : held[w].phase # "idle" =>
    /\ \A v \in Worker : held[v].phase # "idle" /\ held[v].token = held[w].token => v = w
    /\ \A j \in JobId :
         jobs[j].lease.token = held[w].token => j = held[w].job /\ jobs[j].lease.owner = w

(* Attempts: a started job has paid for its run, so the refund of a skip gives
   back exactly the run it ended; and a queued job can still be run, unless an
   approval, which refunds nothing, put it back with its last attempt spent. *)
AttemptAccounting ==
  \A j \in JobId :
    LET row == jobs[j] IN
      /\ row.state \in {"running", "waiting_approval"} => row.attempt > 0
      /\ row.state = "queued" /\ row.attempt = MaxAttempts => row.plan.approved # None

SameLease(w) ==
  held[w].phase # "idle" /\ held'[w].phase # "idle" /\ held'[w].token = held[w].token

NoLeaseRegained ==
  \A w \in Worker : SameLease(w) /\ ~HoldsLease(w) => ~HoldsLease(w)'

(* A worker that lost its lease never gets it back: not by a late heartbeat,
   not when its job is leased, skipped, approved or cancelled, and not when
   the same worker leases the job again. *)
LostLeaseStaysLost == [][NoLeaseRegained]_vars

TerminalKept ==
  \A j \in JobId : jobs[j].state \in Terminal =>
    /\ jobs'[j].state = jobs[j].state
    /\ jobs'[j].attempt = jobs[j].attempt
    /\ jobs'[j].plan = jobs[j].plan

(* A job that succeeded, failed or was cancelled keeps its state, attempts and
   plan: no late worker, skip, approval or sweep brings it back. *)
TerminalIsFinal == [][TerminalKept]_vars

(* A job is executing while its lease has time left. *)
BoardStatus(row) ==
  CASE row.state = "running" -> IF row.lease.ttl > 0 THEN "executing" ELSE "orphaned"
    [] row.state = "waiting_approval" -> "waiting"
    [] OTHER -> row.state

BoardExecutor(row) == IF row.lease.ttl > 0 THEN row.lease.owner ELSE None

Board == INSTANCE JobBoard WITH
  Job <- JobId,
  Identity <- Identity,
  Executor <- Worker,
  status <- [j \in JobId |-> BoardStatus(jobs[j])],
  identity <- [j \in JobId |-> jobs[j].identity],
  executor <- [j \in JobId |-> BoardExecutor(jobs[j])]

(* The queue keeps the promises of JobBoard: the statements of src/queue.rs,
   in any interleaving, submit, start, orphan, requeue and settle jobs only as
   a board does, and a running job has one executor at a time. *)
ImplementsBoard == Board!BoardSpec

(* A queued job is not forgotten: whatever workers crash, lose their leases or
   stop in the middle of an attempt, it settles or comes to ask a human. *)
EveryJobSettles ==
  \A j \in JobId :
    jobs[j].state = "queued" ~> jobs[j].state \in Terminal \union {"waiting_approval"}

-----------------------------------------------------------------------------
(* What the documents say and the code does not do. *)

(* A job that waits for approval can be approved (approve_plan finds a plan
   hash under approval_details). *)
WaitingCanBeApproved ==
  \A j \in JobId : jobs[j].state = "waiting_approval" => jobs[j].plan.offered # None

(* A skip takes the item that the worker holding the lease works on. *)
SkipTakesTheRunningItem ==
  [][\A w \in Worker :
       /\ held[w].phase = "working"
       /\ HoldsLease(w)
       /\ jobs'[held[w].job].plan.skipped # jobs[held[w].job].plan.skipped
       => IsFirstItem(jobs[held[w].job].current_item,
                      jobs[held[w].job].identity.kind, held[w].plan)]_vars

=============================================================================
