------------------------------ MODULE JobQueue ------------------------------
(***************************************************************************)
(* The durable job queue: the `jobs` table of PostgreSQL, the statements   *)
(* of src/queue.rs that change it, and the part of the worker that holds a *)
(* lease on a row (run_job and the start of execute_job in src/worker.rs). *)
(*                                                                         *)
(* Every SQL statement, and the one transaction of lease_next, is a step.  *)
(* A worker keeps what lease_next returned to it in held[w] however its    *)
(* row changes meanwhile: one that lost its lease goes on for a while.     *)
(***************************************************************************)
EXTENDS Integers, Sequences, FiniteSets

CONSTANTS
  PullRequest,    \* pull requests of one repository
  Kind,           \* the job kinds of the instance
  Worker,         \* worker processes
  Token,          \* lease tokens: a fresh UUID is one that nobody remembers
  HeadSha,        \* head commits a plan can be made for
  Hash,           \* approval fingerprints
  None,           \* SQL NULL
  MaxJobs,        \* bound: rows ever inserted
  MaxAttempts,    \* jobs.max_attempts
  LeaseTicks,     \* length of a lease, in ticks of the clock
  PlanItems,      \* feedback items of a feedback_repair plan
  MaxSkips,       \* bound: entries of skipped_items
  NestedDetails   \* mark_waiting_approval gets {"approval_details": {...}}, as
                  \* in tests/queue.rs (TRUE), or the bare details of worker.rs

JobKinds == {"reconcile", "feedback_repair", "ci_repair", "stack_rebase"}

ASSUME JobQueueAssumption ==
  /\ Kind \subseteq JobKinds
  /\ MaxJobs \in Nat
  /\ MaxSkips \in Nat
  /\ MaxAttempts \in Nat \ {0}
  /\ LeaseTicks \in Nat \ {0}
  /\ PlanItems \in Nat \ {0}
  /\ NestedDetails \in BOOLEAN
  /\ None \notin PullRequest \union Kind \union Worker \union Token \union HeadSha \union Hash

VARIABLES
  jobs,     \* the table, by id; ids follow the order (created_at, id)
  held,     \* held[w]: the LeasedJob that worker w executes
  asking    \* enqueue calls between their SELECT and their INSERT

vars == <<jobs, held, asking>>

-----------------------------------------------------------------------------
(* Rows. *)

JobId == 1..MaxJobs
Item == 1..PlanItems

Active == {"queued", "running", "waiting_approval"}
Terminal == {"succeeded", "failed", "cancelled"}

(* head is plan.head_sha, offered is plan.approval_details.plan_hash and
   approved is plan.approved_hash (plan.approved is set with it). *)
Plan ==
  [head : HeadSha \union {None}, skipped : Seq(Item),
   offered : Hash \union {None}, approved : Hash \union {None}]

NoPlan == [head |-> None, skipped |-> <<>>, offered |-> None, approved |-> None]

(* The logical identity of a job: JobDeduplicationKey. *)
Identity == [pull_request : PullRequest, kind : Kind]

(* lease_owner, lease_token and lease_until; ttl is lease_until - NOW() in
   ticks, 0 when there is no lease or it is over. *)
LeaseColumns ==
  [owner : Worker \union {None}, token : Token \union {None}, ttl : 0..LeaseTicks]

NoLease == [owner |-> None, token |-> None, ttl |-> 0]

(* An id whose row is not inserted yet is "absent". *)
Row ==
  [state : {"absent"} \union Active \union Terminal,
   identity : Identity \union {None},
   plan : Plan,
   current_item : Item \union {None},
   attempt : 0..MaxAttempts,
   cancel_requested : BOOLEAN,
   lease : LeaseColumns]

AbsentRow ==
  [state |-> "absent", identity |-> None, plan |-> NoPlan, current_item |-> None,
   attempt |-> 0, cancel_requested |-> FALSE, lease |-> NoLease]

(* What a worker holds.  It is "leased" when lease_next has returned, and
   "starting" from the ensure_lease before WorkCoordinator::start to the write
   of current_item in start; then it is "working" on the first item. *)
LeasedJob ==
  [phase : {"idle", "leased", "starting", "working"},
   job : JobId \union {None}, token : Token \union {None}, plan : Plan]

Idle == [phase |-> "idle", job |-> None, token |-> None, plan |-> NoPlan]

Request == [identity : Identity, head : HeadSha \union {None}]

TypeOK ==
  /\ jobs \in [JobId -> Row]
  /\ held \in [Worker -> LeasedJob]
  /\ asking \subseteq Request

-----------------------------------------------------------------------------
(* Predicates the statements share. *)

(* The guard of assert_lease, renew_lease and the mark_* statements. *)
HoldsLease(w) ==
  /\ held[w].phase # "idle"
  /\ LET row == jobs[held[w].job] IN
       /\ row.state = "running"
       /\ ~row.cancel_requested
       /\ row.lease.owner = w
       /\ row.lease.token = held[w].token
       /\ row.lease.ttl > 0

Exhausted(row) ==
  /\ ~row.cancel_requested
  /\ row.attempt >= MaxAttempts
  /\ row.state = "queued" \/ (row.state = "running" /\ row.lease.ttl = 0)

(* Mutated: a job whose worker went silent is never leased again. *)
LeaseableOnlyQueued(row) ==
  ~row.cancel_requested /\ row.attempt < MaxAttempts /\ row.state = "queued"

(* Mutated: the lease of the row is not looked at. *)
LeaseableWhileLeased(row) ==
  ~row.cancel_requested /\ row.attempt < MaxAttempts /\ row.state \in {"queued", "running"}

Leaseable(row) ==
  /\ ~row.cancel_requested
  /\ row.attempt < MaxAttempts
  /\ row.state = "queued" \/ (row.state = "running" /\ row.lease.ttl = 0)

FreshToken ==
  Token \ ({jobs[j].lease.token : j \in JobId} \union {held[w].token : w \in Worker})

SkippedItems(plan) == {plan.skipped[n] : n \in DOMAIN plan.skipped}
Remaining(plan) == Item \ SkippedItems(plan)

(* The item start writes: the first one not skipped of a feedback plan, the
   only one of another plan, whether it is skipped or not. *)
IsFirstItem(i, kind, plan) ==
  IF kind = "feedback_repair"
  THEN \/ i \in Remaining(plan) /\ \A k \in Remaining(plan) : i <= k
       \/ i = None /\ Remaining(plan) = {}
  ELSE i = 1

PlanIsApproved(plan) == plan.approved # None /\ plan.approved = plan.offered

(* The first thing left to do in the plan changes the repository. *)
HasMutation(kind, plan) ==
  CASE kind = "feedback_repair" -> Remaining(plan) # {}
    [] kind = "reconcile" -> FALSE
    [] OTHER -> 1 \notin SkippedItems(plan)

-----------------------------------------------------------------------------
(* Row updates. *)

Leave(row, state) == [row EXCEPT !.state = state, !.lease = NoLease]

(* Mutated: the lease columns are left as they were. *)
CancelledWithLease(row) == [row EXCEPT !.state = "cancelled", !.cancel_requested = TRUE]

Cancelled(row) == [Leave(row, "cancelled") EXCEPT !.cancel_requested = TRUE]

(* Mutated: a job that is taken over keeps the token it has. *)
GrantedKeepsToken(row, w, t) ==
  [row EXCEPT !.state = "running",
              !.lease = [owner |-> w, ttl |-> LeaseTicks,
                         token |-> IF row.lease.token = None THEN t ELSE row.lease.token],
              !.attempt = row.attempt + 1]

Granted(row, w, t) ==
  [row EXCEPT !.state = "running",
              !.lease = [owner |-> w, token |-> t, ttl |-> LeaseTicks],
              !.attempt = row.attempt + 1]

(* plan || details: an object under approval_details replaces the old one, bare
   details leave approval_details as it was. *)
Offer(plan, hash) == IF NestedDetails THEN [plan EXCEPT !.offered = hash] ELSE plan

Parked(row, hash) ==
  [Leave(row, "waiting_approval") EXCEPT !.plan = Offer(row.plan, hash)]

Approve(plan) == [plan EXCEPT !.approved = plan.offered]

Approved(row) == [row EXCEPT !.state = "queued", !.plan = Approve(row.plan)]

Skip(plan, item) == [plan EXCEPT !.skipped = Append(plan.skipped, item)]

(* Mutated: the worker keeps its lease and goes on with the next item. *)
SkippedInPlace(row) ==
  [row EXCEPT !.current_item = None, !.plan = Skip(row.plan, row.current_item)]

(* Mutated: the run that the skip ends is not given back. *)
SkippedNoRefund(row) ==
  [Leave(row, "queued") EXCEPT
     !.current_item = None,
     !.plan = Skip(row.plan, row.current_item)]

Skipped(row) ==
  [Leave(row, "queued") EXCEPT
     !.current_item = None,
     !.plan = Skip(row.plan, row.current_item),
     !.attempt = IF row.attempt > 0 THEN row.attempt - 1 ELSE 0]

Inserted(request) ==
  [AbsentRow EXCEPT !.state = "queued",
                    !.identity = request.identity,
                    !.plan = [NoPlan EXCEPT !.head = request.head]]

-----------------------------------------------------------------------------
Init ==
  /\ jobs = [j \in JobId |-> AbsentRow]
  /\ held = [w \in Worker |-> Idle]
  /\ asking = {}

(* enqueue: a repair for a given head first looks for one that succeeded. *)
HeadKinds == {"ci_repair", "stack_rebase"}

AskForHead(request) ==
  /\ request.identity.kind \in HeadKinds /\ request.head # None
  /\ ~\E j \in JobId : /\ jobs[j].state = "succeeded"
                       /\ jobs[j].identity = request.identity
                       /\ jobs[j].plan.head = request.head
  /\ asking' = asking \union {request}
  /\ UNCHANGED <<jobs, held>>

(* Mutated: the partial index does not cover waiting_approval. *)
ActiveTwinNotWaiting(request) ==
  \E j \in JobId : jobs[j].state \in {"queued", "running"} /\ jobs[j].identity = request.identity

(* The partial unique index has an entry for the request's identity. *)
ActiveTwin(request) ==
  \E j \in JobId : jobs[j].state \in Active /\ jobs[j].identity = request.identity

(* enqueue: INSERT .. ON CONFLICT on the partial unique index.  On a conflict
   the active job's id is returned and its plan is kept. *)
Insert(request) ==
  /\ \/ request \in asking
     \/ request.identity.kind \notin HeadKinds /\ request.head = None
  /\ \/ ActiveTwin(request) /\ UNCHANGED jobs
     \/ /\ ~ActiveTwin(request)
        /\ \E j \in JobId :
             /\ jobs[j].state = "absent"
             /\ \A k \in JobId : k < j => jobs[k].state # "absent"
             /\ jobs' = [jobs EXCEPT ![j] = Inserted(request)]
  /\ asking' = asking \ {request}
  /\ UNCHANGED held

(* request_cancel, from the API, the CLI or a check run's Cancel. *)
RequestCancel(j) ==
  /\ jobs[j].state \in Active
  /\ jobs' = [jobs EXCEPT ![j] = Cancelled(@)]
  /\ UNCHANGED <<held, asking>>

(* cancel_repository_jobs and cancel_installation_jobs, when access is lost. *)
CancelRepositoryJobs ==
  /\ jobs' = [j \in JobId |->
               IF jobs[j].state \in Active THEN Cancelled(jobs[j]) ELSE jobs[j]]
  /\ UNCHANGED <<held, asking>>

(* Mutated: the state is not looked at. *)
SkipAnyState(j) ==
  /\ jobs[j].current_item # None
  /\ Len(jobs[j].plan.skipped) < MaxSkips
  /\ jobs' = [jobs EXCEPT ![j] = Skipped(@)]
  /\ UNCHANGED <<held, asking>>

(* skip_current_item, from a check run's Skip. *)
SkipCurrentItem(j) ==
  /\ jobs[j].state \in {"running", "waiting_approval"}
  /\ ~jobs[j].cancel_requested
  /\ jobs[j].current_item # None
  /\ Len(jobs[j].plan.skipped) < MaxSkips
  /\ jobs' = [jobs EXCEPT ![j] = Skipped(@)]
  /\ UNCHANGED <<held, asking>>

(* approve_plan, from a check run's Approve.  The attempts are not given back. *)
ApprovePlan(j) ==
  /\ jobs[j].state = "waiting_approval"
  /\ ~jobs[j].cancel_requested
  /\ jobs[j].plan.offered # None
  /\ jobs' = [jobs EXCEPT ![j] = Approved(@)]
  /\ UNCHANGED <<held, asking>>

(* lease_next: one transaction fails the exhausted jobs, then leases the
   oldest leaseable row that no other statement has locked (SKIP LOCKED). *)
LeaseNext(w, locked) ==
  LET swept == [j \in JobId |-> IF Exhausted(jobs[j]) THEN Leave(jobs[j], "failed")
                                                      ELSE jobs[j]]
      ready == {j \in JobId : Leaseable(swept[j])} \ locked
  IN
  /\ held[w].phase = "idle"
  /\ \/ /\ ready = {}
        /\ jobs' = swept
        /\ UNCHANGED held
     \/ \E j \in ready, t \in FreshToken :
          /\ \A k \in ready : j <= k
          /\ jobs' = [swept EXCEPT ![j] = Granted(@, w, t)]
          /\ held' = [held EXCEPT ![w] = [phase |-> "leased", job |-> j, token |-> t,
                                          plan |-> jobs[j].plan]]
  /\ UNCHANGED asking

Renewed(row) == [row EXCEPT !.lease = [row.lease EXCEPT !.ttl = LeaseTicks]]

(* Mutated: an expired lease is renewed when nobody took the job over. *)
RenewExpiredLease(w) ==
  /\ held[w].phase # "idle"
  /\ jobs[held[w].job].lease.owner = w
  /\ jobs[held[w].job].lease.token = held[w].token
  /\ jobs' = [jobs EXCEPT ![held[w].job] = Renewed(@)]
  /\ UNCHANGED <<held, asking>>

(* Mutated: the lease grows by its length instead of starting over. *)
RenewLeaseAdds(w) ==
  /\ HoldsLease(w)
  /\ jobs' = [jobs EXCEPT ![held[w].job].lease.ttl = @ + LeaseTicks]
  /\ UNCHANGED <<held, asking>>

(* The heartbeat's renew_lease.  When it finds no row the worker discards its
   result in the end (Abandon). *)
RenewLease(w) ==
  /\ HoldsLease(w)
  /\ jobs' = [jobs EXCEPT ![held[w].job] = Renewed(@)]
  /\ UNCHANGED <<held, asking>>

(* ensure_lease before WorkCoordinator::start; a reconcile has no work plan and
   goes on at once. *)
EnsureLease(w) ==
  /\ held[w].phase = "leased"
  /\ HoldsLease(w)
  /\ held' = [held EXCEPT ![w].phase =
                IF jobs[held[w].job].identity.kind = "reconcile" THEN "working" ELSE "starting"]
  /\ UNCHANGED <<jobs, asking>>

(* link_job_check_run, at the end of start: the check run exists, and the row
   gets the first item of the plan the worker read.  No lease is asked for. *)
LinkJobCheckRun(w) ==
  /\ held[w].phase = "starting"
  /\ \E i \in Item \union {None} :
       /\ IsFirstItem(i, jobs[held[w].job].identity.kind, held[w].plan)
       /\ jobs' = [jobs EXCEPT ![held[w].job].current_item = i]
  /\ held' = [held EXCEPT ![w].phase = "working"]
  /\ UNCHANGED asking

(* mark_succeeded, mark_failed and mark_waiting_approval that find their row. *)
MarkSucceeded(w) ==
  /\ held[w].phase = "working"
  /\ HoldsLease(w)
  /\ jobs' = [jobs EXCEPT ![held[w].job] = Leave(@, "succeeded")]
  /\ held' = [held EXCEPT ![w] = Idle]
  /\ UNCHANGED asking

MarkFailed(w) ==
  /\ held[w].phase # "idle"
  /\ HoldsLease(w)
  /\ jobs' = [jobs EXCEPT ![held[w].job] = Leave(@, "failed")]
  /\ held' = [held EXCEPT ![w] = Idle]
  /\ UNCHANGED asking

MarkWaitingApproval(w) ==
  /\ held[w].phase = "working"
  /\ HasMutation(jobs[held[w].job].identity.kind, held[w].plan)
  /\ ~PlanIsApproved(held[w].plan)
  /\ HoldsLease(w)
  /\ \E hash \in Hash :
       jobs' = [jobs EXCEPT ![held[w].job] = Parked(@, hash)]
  /\ held' = [held EXCEPT ![w] = Idle]
  /\ UNCHANGED asking

(* The worker stops without a change of its row: the process dies, the mark
   finds no row or the database is away, or the heartbeat saw the lease lost. *)
Abandon(w) ==
  /\ held[w].phase # "idle"
  /\ held' = [held EXCEPT ![w] = Idle]
  /\ UNCHANGED <<jobs, asking>>

Ticked(row) ==
  [row EXCEPT !.lease =
     [row.lease EXCEPT !.ttl = IF row.lease.ttl > 0 THEN row.lease.ttl - 1 ELSE 0]]

(* Time passes. *)
Tick ==
  /\ \E j \in JobId : jobs[j].lease.ttl > 0
  /\ jobs' = [j \in JobId |-> Ticked(jobs[j])]
  /\ UNCHANGED <<held, asking>>

Enqueue == \E request \in Request : AskForHead(request) \/ Insert(request)

Control ==
  \/ \E j \in JobId : RequestCancel(j) \/ SkipCurrentItem(j) \/ ApprovePlan(j)
  \/ CancelRepositoryJobs

Finish(w) == MarkSucceeded(w) \/ MarkFailed(w) \/ MarkWaitingApproval(w) \/ Abandon(w)

Work(w) ==
  \/ \E locked \in SUBSET JobId : LeaseNext(w, locked)
  \/ RenewLease(w)
  \/ EnsureLease(w)
  \/ LinkJobCheckRun(w)
  \/ Finish(w)

Next == Enqueue \/ Control \/ (\E w \in Worker : Work(w)) \/ Tick

Spec == Init /\ [][Next]_vars

(* The clock runs; what a worker executes ends, for every wait in it has a
   timeout; and workers go on polling, so that again and again one of them
   polls while no other statement holds a row locked. *)
Fairness ==
  /\ WF_vars(Tick)
  /\ \A w \in Worker : WF_vars(Finish(w))
  /\ SF_vars(\E w \in Worker : LeaseNext(w, {}))

FairSpec == Spec /\ Fairness

=============================================================================
