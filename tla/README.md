# PiTools in TLA+

PiTools is a GitHub App that watches pull requests, works out whether they are
ready, and repairs them: it applies review feedback, diagnoses and patches CI
failures, and rebases stacks. Everything it does for a pull request is a *job* in
a PostgreSQL table that several worker processes lease. This directory models that
system in TLA+, checks the models with TLC, and proves theorems about them with
TLAPS. Paths below are relative to the repository root.

## The system

| Component | Source | State | Operations | What makes it correct |
|---|---|---|---|---|
| Job queue | `src/queue.rs`, `migrations/0001`, `0002`, `0007`, `0008` | table `jobs`: state, plan, current_item, attempt, cancel_requested, lease columns | `enqueue`, `request_cancel`, `skip_current_item`, `mark_waiting_approval`, `approve_plan`, `lease_next`, `renew_lease`, `mark_succeeded`, `mark_failed` | one active job per pull request and kind; one executor at a time; a lost lease stays lost; settled jobs stay settled; every job settles |
| Worker | `src/worker.rs` | what `lease_next` returned, a heartbeat task, the `lease_lost` flag | `run`, `run_job`, `execute_job` and one function per job kind | no mutation without a lease, an approval, and the head the plan was made for |
| Git workspace | `src/workspace.rs` | a clone | `clone_branch`, `apply_feedback`, `apply_ci_repair`, `rebase_onto`, `LeaseGuard` | the push is fenced by the lease and by the observed remote head |
| Repository store | `src/repository.rs` | installations, repositories, pull_requests, feedback, checks, deliveries, comments, job_controls | upserts with freshness guards, delivery ledger, access lifecycle | a stale event never overwrites newer state; lost access stops the work |
| Webhooks | `src/webhook.rs`, `src/github/events.rs` | none | `receive` | each delivery takes effect once, also when it is redelivered |
| Reconciler | `src/main.rs`, `src/reconcile.rs`, `reconcile` in `src/worker.rs` | none | inventory loop, one reconcile job per pull request | the watchlist converges to GitHub |
| Notifications and controls | `src/workflow.rs`, `src/pr_controls.rs` | check run, living comment, final comment, audit of controls | `start`, `update_progress`, `finish`, `process_check_run_control`, `apply_control` | a control acts once, on the item it was meant for; one check run and one final comment per job |
| Stacks | `src/stack.rs` | none | `partition`, `plan`, `reject_cycles`, `RebasePlanner`, `RebasePolicy` | parents before children, no cycle, no rewrite of a branch that is not allowed |
| Feedback, CI, readiness | `src/feedback.rs`, `src/ci.rs`, `src/policy.rs`, `src/readiness.rs` | none | pure decisions | as their definitions |
| Pi | `src/pi.rs`, `workers/pi/src` | one NATS request | `execute`, `validate_result` | a reply answers the request that was made |
| GitHub client, auth, API, web, CLI, metrics, config, deployment | the rest | none that changes | I/O | not modelled |

How they interact: a webhook is recorded, applied to the store and may enqueue jobs;
the inventory loop enqueues reconcile jobs; a worker leases a job, talks to GitHub, git
and Pi, and enqueues follow-up jobs; a click on a check run comes back as a webhook
and becomes a statement on the job's row. There is no shared memory between
processes: they meet in PostgreSQL and on GitHub. What is hard is therefore

- the interleaving of statements of several processes on one row, and a worker that
  goes on after its lease is gone;
- read-then-act across systems (the lease is in PostgreSQL, the push is on GitHub);
- crashes between two effects that are in different systems;
- deliveries that are repeated, late or out of order, and a reconciler that reads
  GitHub while they arrive.

`PROJECT.json` lists each of these hazards at its line, with the properties that
cover it or the reason why none does.

## Modules

| Module | What it is |
|---|---|
| `JobBoard` | abstract specification: a board of jobs, no leases, tokens, clocks, SQL |
| `JobQueue` | the table `jobs` and every statement that changes it, with the part of a worker that holds a lease |
| `JobQueueProperties` | invariants, action properties, liveness, and the refinement mapping to `JobBoard` |
| `JobQueueProofs` | theorems |
| `RepairRun` | `feedback_repair` and `ci_repair`: head, clone, apply, push, reply, resolve, mark |
| `Watchlist` | deliveries, installations, repositories and pull requests in the store; the inventory and the reconcile job |
| `WorkPlan` | Check Run, living comment and final summary of a job, and its buttons on the way back |
| `Stack` | `stack_rebase` of a stack that people and other runs change meanwhile; uses `StackPlanner` |
| `StackPlanner`, `Patching`, `Readiness`, `RepairCommit` | the pure decisions, as operators |
| `Decisions` | asks those operators every question of an instance, and says what the answers mean |
| `WatchlistProofs`, `RepairRunProofs`, `WorkPlanProofs`, `StackProofs`, `DecisionsProofs` | theorems about the module they are named for |
| `StackPlannerProofs` | lemmas about `StackPlanner`: walks, components, orders; used by `StackProofs` and `DecisionsProofs` |
| `StackLineProofs` | theorems about `Stack` that follow whole histories: what a completed stack looks like |
| `MCJobQueue`, `MCRepairRun`, `MCWatchlist`, `MCWorkPlan`, `MCStack`, `MCDecisions` | instances for TLC |

How they compose. `JobQueue` implements `JobBoard`, which is proved. `RepairRun`, `WorkPlan`
and `Stack` take jobs as `JobBoard` promises them (`status`, `executor`), without tokens
and clocks; each of them is proved to stay within the board (`MovesLikeBoard`), so
that what they assume of the queue is what the queue was shown to do. The theorem about
the lease (a worker that lost it never gets it back) is what lets them treat "who
executes the job" as one variable. `Stack` carries out what `StackPlanner` plans, with the same
operators that `Decisions` checks.

### JobQueue and the code

`jobs[j]` is a row; ids are given in the order of `(created_at, id)`, the order in which
`lease_next` looks for work. The columns keep their names; `lease` groups `lease_owner`,
`lease_token` and `lease_until`, the last as the ticks left (`ttl`), so that
`lease_until > NOW()` is `ttl > 0`. The plan keeps what the statements read: the head it
was made for, `skipped_items`, `approval_details.plan_hash` (`offered`) and
`approved_hash` (`approved`). `held[w]` is the `LeasedJob` that worker `w` executes: a copy
that nobody updates when the row changes. `asking` are calls of `enqueue` between the
SELECT for a succeeded repair of the same head and the INSERT.

Each SQL statement is one action. `lease_next` is one transaction, and one action: the
sweep of exhausted jobs, then the grant of the oldest leaseable row that is not locked
(`SKIP LOCKED`; `locked` is any set of rows). Its two statements see two snapshots, but
they touch disjoint rows (`attempt >= max_attempts` and `attempt < max_attempts`), so a
statement of another process between them has the effect it has before or after both.
A worker passes `ensure_lease` (`EnsureLease`), writes `current_item` at the end of
`WorkCoordinator::start` (`LinkJobCheckRun`, which asks for no lease, as in the code),
works, and ends with one of the marks or without one (`Abandon`: the process died, the
mark found no row, the database was away, or the heartbeat saw the lease lost). The
heartbeat (`RenewLease`) may come at any time or not at all.

### RepairRun and the code

`branch` is the head branch on GitHub, a commit being the history up to it; `watched` is the
head the store believes in. People push commits, over a part of the branch when they force it
(`UserPushes`), and take commits off it (`UserDrops`). `run[w]` is what `worker.rs` holds in local variables: the job, the
plan it read at the lease, the item, the head it cloned, and the phase between two awaits. `Ensure` is
`LeaseGuard::ensure`; the call that follows is another step, so a cancel, a skip, an expiry or a
takeover fits in between; before the report it stands once (`Report`), and the final comment and the
Check Run follow without another (`Finish`), then the mark (`Settle`). `Called` says that a call may take effect and its answer be lost.
`Outcomes` is what `repair_feedback` and `git apply` can make of an item on a head: a patch that the
head already holds is stale, an inline suggestion replaces its lines whatever they are.
`ReconcileReads` and `ReconcileActs` are the two halves of a reconcile that asks for repairs of feedback
it has read before.

The approval path is explored although finding 1 keeps it shut in the code: `Approve` does what
`approve_plan` is meant to do, so that `CiPatchApproved` holds also once that is repaired.

### Watchlist and the code

One repository with one pull request. `sent` are GitHub's deliveries, whose ids are unique (the
`Conflict` answer of `record_delivery`, same id and another payload, does not arise). `Receive` is the
recording and the advisory lock, `Apply` the transaction of `process_delivery`, `Fail` and `MarkError` its
rollback and the error mark that follows outside it, `Enqueue` the job the handler asks
for after the commit. `Upserted` is the guard on `updated_at` of `upsert_pull_request`. GitHub's
time of version `v` is `2v`, a local clock at that moment reads `2v + 1`: local clocks are taken to
agree with GitHub's, which the comparison in SQL assumes too. `Edit` is a
person who pushes, closes or reopens, of which GitHub says nothing while the App is suspended or removed.
`Inventory` is a turn of the loop in `main.rs`:
which repositories are active, list of pull requests, one upsert and one job each. `Reconcile` looks up the row, reads
GitHub and writes the row, each a step of its own.

### WorkPlan and the code

`checks`, `comments` and `summaries` are on GitHub; `link`, `current` and `saved` are what the store knows
of them. The phases of a run are the calls of `start`, `update_progress` and `finish` in order, with the
write that remembers a call after the call. `Press` is a person, `Control` is
`process_check_run_control` up to `record_job_control`, `Take` what it then does to the queue, and `Break` a
request that dies in between. Whether a click is authorised is part of the click
(`valid`): the rules on actors are data.

### Stack and the code

Pull request `p` has the head branch `p`; a branch is the sequence of the changes on it, and a rebase puts
the branch's own changes on top of the branch below. A job's plan holds the component and the plan that
`enqueue_follow_up_jobs` made, from rows taken as current at that time. The model begins when a plan may
execute. `Line` says on which branch the one of `p` was made; what the policy declares (`Declared`) and what the
bases say may be something else. A head branch renamed or moved to a fork blocks a run as `fork` and `closed` do. Errors of the
planner are one kind, as nothing distinguishes them afterwards.

### The decisions

Each of the four modules is a function of what was read. `Decisions` states what is expected in other
terms: a stack has a plan just when one order of it agrees with all bases and declarations; a patch
can be taken back by the reversed patch; a suggestion for lines does what the patch for them does;
a ready pull request has its checks passed in their newest run and its approvals not taken back; a CI commit holds what its
patches declare and nothing else. Texts are model values or small numbers.

Definitions whose comment begins with `Mutated` are wrong versions of the definition that
follows them. They are used by no specification; each one shows that a property can fail.

## Runs

| Run | Shows | Bounds |
|---|---|---|
| `queue_leases` | types; lease columns agree with state; a live lease's plan is the row's plan; tokens fence; attempts are accounted; a lost lease stays lost; settled jobs stay; the queue implements the board | 2 workers, 2 rows, 2 attempts, leases of 2 ticks, 2 plan items, 1 skip, 4 tokens |
| `queue_settles` | one active job per identity; a queued job settles or comes to ask a human | 1 worker, 2 rows, 2 kinds, 2 heads, 2 attempts |
| `queue_approval` | violation: a job the worker parks cannot be approved | 1 worker, 1 row |
| `queue_stale_skip` | violation: a stale worker's `current_item` misleads the next skip | 2 workers, 1 row, 5 attempts, 2 items |
| `repair_pushes` | "applied" means landed; a marked item is answered and its thread resolved; a run without its lease makes at most one more call to the branch or a thread, or the two of its report; CI patches are approved; a push puts one commit on what was cloned and loses none the worker has not seen; jobs move as the board promises | 2 workers, 1 job of either kind, 3 attempts, 1 suggestion on a thread, 1 user commit, commits dropped at any time, 2 commits |
| `repair_false_rejection` | violation: a retry reports its own landed commit as rejected | 1 worker, 1 job, 2 attempts |
| `watchlist_deliveries` | an answered delivery was applied, once unless it failed; a revocation holds; late news is dropped, except by a reconcile that read before | 2 requests, 1 worker, 2 deliveries, 2 edits, 1 installation, 1 fault |
| `watchlist_follows` | open pull requests come to be watched as they are and closed ones come off the watchlist | 1 request, 1 worker, 2 deliveries, 2 edits (also without access), 1 installation, 1 fault |
| `watchlist_reinstall` | violation: a repository stays revoked after a new installation | 1 request, 2 deliveries, 2 installations |
| `workplan_controls` | a button acts once and only for who may press it; a waiting job can be answered; a succeeded job was reported; jobs move as the board promises | 2 workers, 1 job, 2 requests, 2 attempts, 2 clicks, 1 fault |
| `stack_rebase` | no change is lost; only owned branches are rewritten; bases follow branches; a completed stack is a line; only people make a run complain about bases; jobs move as the board promises | 2 workers, 2 jobs of 1 attempt, 3 pull requests in a line, one of them declared and one inferred, 3 policies, 1 act of people, 1 fault |
| `decisions` | the pure decisions do what is expected of them | up to 3 pull requests, files of 3 lines, patches of 2 hunks, read sets of 2 items of a kind, 4 paths |

Why the bounds are enough. Rows interact only through their identity and through the
order in which they are leased: two rows show the order, requests of two kinds the
index. Two workers show a takeover; leases of two ticks let a lease be renewed before it
runs out, with one attempt left over after it does. In `queue_settles` two kinds make two rows active
at a time, and two heads let a request meet the succeeded job of its own head and of another one. Tokens are drawn from those nobody
remembers, as fresh UUIDs are; with one token more than the workers and rows that can
remember one, a fresh one always exists. `MaxSkips` bounds how often people press Skip:
the code has no bound, and since each skip refunds an attempt, a person who keeps
skipping keeps a job alive. The theorems hold for all values.

Symmetry is used for workers, handlers, tokens, heads and fingerprints in the runs that check safety,
and in no run that checks liveness.

`TypeOK` of the runs with two workers is checked with `NestedDetails = TRUE`, the form of
details that `tests/queue.rs` passes, because only then is there an approval to explore;
the two violation runs use what `src/worker.rs` passes.

In the other modules: two workers are a run and the one that took over from it; a third adds
only another run without a lease, and those do not see each other. Three attempts of a repair are
one that parks, one that dies and one that takes over. One user commit is enough to move a head at
every step of a run, and dropping some to move it back; two deliveries are a pair that arrives in the wrong
order, or the same one twice, or a suspension and its end; two edits, of which nobody need hear, make news and
old news. `workplan_controls` has one job, so that it shows of `ControlHitsShownJob` only that a click without authority does nothing; that a click never hits another
job is the theorem `ButtonsHitTheShownJob`. In `stack_rebase` a second job with the plan made later
stands for what a second attempt would do, and three pull requests are the smallest stack with a
branch that has both a parent and a child. The `decisions` run enumerates inputs instead of behaviours: each
instance has the smallest sizes at which its edges meet (a hunk behind one that moved it, a newer check
of another app, a second patch of one file). `CHECK_DEADLOCK FALSE` is set where the system may be done:
when every job is settled and the bounded acts of people and faults are used up, or a question is answered.

### Fairness

`FairSpec` assumes that time passes (`Tick`), that what a worker executes ends (every wait in
it has a timeout; it may end in `Abandon`, so a worker may crash each time), and that
again and again some worker's poll meets no row locked by another statement: strong
fairness of `LeaseNext` with nothing locked, because rows are locked only for the length
of a statement. Nothing is assumed of controls, heartbeats or success.

`Watchlist` assumes for `InventoryHeals` that the inventory loop of the server and the loops of the workers
turn and that the lease of a dead worker runs out. The inventory loop logs an error and goes on (`main.rs`), and so
does a job that fails; but `run` of the worker ends when `lease_next` fails (`worker.rs:130`), so that the
deployment has to start the process again, as it has to after a crash. It assumes nothing of GitHub and of the webhook: the property asks only that GitHub
grants access and answers from some time on (`Active /\ CanCall`), and that what breaks off does so
finitely often, `MaxFaults`; a reconcile that failed every time would heal nothing.

### Findings

1. `worker.rs:341` and `queue.rs:195`: the worker passes the approval details bare, so
   `plan || details` spreads them over the plan, while `approve_plan` wants them under
   `approval_details`. A parked job can be cancelled or skipped but never approved. The test
   of the queue wraps them by hand.
2. `repository.rs:755`: `link_job_check_run` is not fenced by the lease. After a skip or a
   takeover the old worker's `current_item` replaces the new one, and the next Skip skips
   an item that nobody works on.
3. `worker.rs:617`: a feedback repair that was pushed and not recorded (the answer to the push, the reply or
   the mark failed) is tried again and finds its patch stale, which counts as a
   deterministic rejection. It then says "No branch change was accepted" under a suggestion that the
   branch holds, resolves the thread and stores the item as rejected.
4. `repository.rs:409`: the upsert of a repository never changes `installation_id`. After the App was
   deleted and installed again under a new id, the row keeps the old installation, which stays suspended,
   and the repository is not watched again.

Seen while modelling, without a run of their own. The first two are against a text of the repository, and the properties
of the runs claim what does hold; the others are against none, or have their effect outside the models.

- `ensure_remote_head` compares the remote head (`workspace.rs:157`, `267`), and a plain `git push` follows
  (`181`, `291`). When somebody takes commits off the branch in between, it is an ancestor of the local head, GitHub takes
  the push as a fast-forward, and the dropped commits are back under the repair: `CONTEXT.md:14` says that "branch movement
  after validation fails closed". TLC finds it (`UserDrops` between `Verify` and `Push`, one worker) for the claim that
  the branch still is `run[w].head` when a push takes effect; `RepairExtendsBranch` claims the part that holds.
- A suspension takes the rows of its repositories off the watchlist (`repository.rs:511`), and its end does not put
  them back. What is open the inventory lists and watches again; a pull request that was closed meanwhile is in no list
  (`main.rs:402-458` lists open ones, `repository.rs:931` asks for watched rows), so that its row says open until some
  delivery comes. The design document lets the periodic reconciler see to it "so missed or out-of-order webhooks do not leave
  the watchlist stale" (`docs/superpowers/specs/2026-08-10-pitools-design.md:16`). TLC finds it under `FairSpec` for the claim that the row
  comes to say what GitHub says (`<>[](row # None => row.pr = pr)`), with two deliveries and one edit during the
  suspension; `InventoryHeals` claims what the repository's README says (`README.md:45`).
- `process_delivery` writes its error mark after the rollback and outside its lock, so it can meet the
  `processed_at` of another copy; `AppliedOncePerFailure` states what is left.
- Follow-up jobs are enqueued from what the reconcile read at its beginning (`worker.rs:846`), also for a pull
  request closed or revoked since.
- A suspend and an unsuspend that arrive in the wrong order leave the installation suspended;
  an event for an unknown installation stores the owner `unknown` (`repository.rs:391`).
- A run that dies in `start` between a call and its write creates a second Check Run and a second comment;
  a retry of `finish` posts a second summary; a cancelled job leaves its Check Run in progress.
- A control is recorded before it is applied: after a crash in between it is lost, as its redelivery
  is a duplicate.
- Stacks join pull requests by branch name only (`stack.rs:45`), and `PlanIsTheStack` says what the names call for. A fork whose head is called `main` is a parent of every
  pull request on `main`, so that no stack is planned for them.
- `partition` drops the inferred parent of a pull request with a declared one, so `ConflictingParent`
  (`stack.rs:141`) is met only when both parents are in the component for another reason.
- Two stack jobs of different tips are different work for the queue and may run at once, both with their leases. When
  people turn a stack around (`1 <- 2` becomes `2 <- 1`), a run with the old plan can push one branch after the run with the
  new plan has passed it, and the latter completes a stack that is no line. TLC finds the same with the plan of a longer stack
  whose lowest pull request was closed since (three acts): its run may still rewrite the branches of the shorter stack.
  `BasesFollowBranches` and `CompletedStackIsLinear` are therefore about `InLine`: all plans made so far agree with `Line` on what
  lies on what, down to the main branch. It asks nothing of how the stack came about, by declarations, by bases or by both, and nothing
  of how many stacks there are; both of its conditions are needed, as the two behaviours show. That nothing else breaks
  the properties is what `StackLineProofs` shows.
- A blocked stack job is marked succeeded, and `enqueue` (`queue.rs:86`) then refuses another for the same
  head until the head moves.
- `validate_staged_diff_summary` looks for lines that begin with `rename ` or `copy `, but
  `git diff --summary` indents them; renames are stopped by the comparison of paths.
- A suggestion of one blank line deletes the line it is for; a fence of `n >= 2` blank lines yields `n`.
- `CHANGES_REQUESTED` by a reviewer does not block readiness when enough others approve.
- `apply_control` and `skip_current_item` disagree on a skip of a waiting job; the former has no caller.

## Proofs

Every theorem holds for all values of the constants: any number of workers, jobs, pull
requests, deliveries and faults, any number of attempts. What is checked on small
instances above is checked there *also* because a theorem is only as good as its
definitions: the runs show that the interesting steps happen, and the mutants that the
properties can fail.

### What is assumed

- `LineAssumption`: branches were not made on each other in a circle.
- One named assumption on the constants per module (`JobQueueAssumption`,
  `WatchlistAssumption`, `RepairRunAssumption`, `WorkPlanAssumption`, `StackAssumption`): sets of ids are sets
  of numbers where the code compares them, limits are natural numbers, and `None` is none of the things it
  stands in for (`NoneIsNoRow`, `NoneIsNoRun`: nor one of the records that are compared with it).
- `OpenSetsAssumption`: open pull requests are finitely many and have positive numbers of their own, which is what the
  key of `pull_requests` says.
- `TextsAssumption`: files are lists of at least one line and the parts of hunks have their types, which is what
  `split('\n')` and `parse_unified_patch` return. Whether a hunk is well formed or fits the file is not assumed.
- `ReadSetsAssumption`: a read of GitHub is finite, two entries of a list have different ids, and states are those
  GitHub documents.

TLC evaluates all of them on the runs.

### JobQueueProofs

From `JobQueueAssumption` alone:

- `QueueTypeCorrect`: `TypeOK`, through `TypeInv`, which adds that what a worker holds names a
  row (otherwise the row it updates need not exist);
- `QueueInvariant`: the inductive invariant `QueueInv`, and from it `OneActiveJob`,
  `LeaseColumnsCorrect`, `AttemptsCorrect`, `TokensFence`, `LivePlanCorrect`;
- `LeaseFence` and `TerminalFinality`, the action properties;
- `QueueImplementsBoard`, the refinement.

The argument. `RowMove(j)` lists what one step can do to one row, whatever action it is
of; `RowMoves` proves the list complete, one lemma per group of actions. Facts about single
rows (lease columns, attempts) are then proved once per kind of update and not once per
action, and so are the refinement and the finality of settled jobs. Facts that join rows
and workers split on `Grant`: a step that grants a lease uses a fresh token, and in any other
step workers go on with what they hold or let it go (`HeldMoves`) and rows keep their
token or lose it (`LeaseMoves`). `LostLeaseStaysLost` needs `TokenNamesLease`'s ingredients: a
lease could only come back by a grant, whose token is not the one the worker remembers,
or by a renewal, whose guard is the lease itself.

`OneActivePerIdentity` is inductive only because every statement that makes a row active,
other than the insert, starts from an active row: that is what `OneActiveStep` shows, and what
a statement that revived a settled job would break.

### WatchlistProofs

`WatchlistTypeCorrect`, `AckedDeliveriesAreApplied`, `DeliveriesAreAppliedOncePerFailure`,
`RevokedRepositoriesStayRevoked`, `LateNewsIsAlwaysDropped`.

None of the invariants is inductive alone.

- An answer means the delivery was applied (`AckedIsApplied`) because of `ProcessedIsApplied`: a `processed_at` was
  written by the transaction of the event itself.
- `AppliedOncePerFailure` counts. Two copies of a delivery cannot apply it both, since the second waits for the lock
  of the first and then sees `processed_at` (`LockIsHeld`); what can clear it is the error mark of a copy that
  failed, written after the lock was given back, and each such mark is still to be paid for (`FailuresPay`).
- No delivery and no inventory takes a row back (`LateNewsIsDropped`) although a webhook compares GitHub's time with the local clock a
  reconcile wrote: whatever is under way, and what the row says, has a stamp no later than now, and what
  it says is no newer than its stamp (`NewsIsPast`: deliveries, runs, lists, rows). A reconcile can take a row back:
  between its `Read` and its `Save` the pull request may change and the news be stored, and the clock it then
  stamps passes the guard. The property says that this is the only way, and that the row then says what that
  reconcile read; the next delivery or turn of the inventory repairs it (`InventoryHeals`).
- A revocation holds because a row's installation is known, and eligibility asks it (`InstallationKnown`).

### RepairRunProofs

`RepairTypeCorrect`, `LostLeaseAllowsFewCalls`, `AppliedSuggestionsLanded`, `MarkedSuggestionsWereAnswered`,
`CiPatchesWereApproved`, `RepairsExtendTheBranch`, `RepairsMoveLikeBoard`.

The invariant has a part for each thing a run carries from one await to the next: the job it has exists
and its plan only grows (`PlansOK`, `RunHasJob`); what it is about to push was approved if it had to be
(`RunIsAdmitted`) and is one commit on top of the head it cloned (`RunIsBuilt`); what it is about to say was
landed, and what it is about to mark was said and resolved (`RunIsHonest`); it has an end to report (`RunHasEnd`); and the
calls it has still to make after its lease went are the one it asked for, or the two of `finish` (`RunIsLateOnce`).
`WorkCoordinator::start`, which calls GitHub too, is in `WorkPlan` and not counted here. People may take anything off the
branch, so that `landed` remembers what GitHub took, and a push is accepted from any prefix of what was
cloned; a branch that still holds something else refuses it (`RepairsExtendTheBranch`). `ExecutorExecutes` says that the executor column agrees with the state, which is what the
refinement needs. `AppliedIsLanded` is the case for which this matters: with any number of workers on the same plan,
one of them without a lease, "applied" is said only of what GitHub took.

### WorkPlanProofs

`WorkPlanTypeCorrect`, `ButtonsCountOnce`, `ButtonsHitTheShownJob`, `WaitingJobsCanBeAnswered`, `SuccessIsReported`,
`WorkMovesLikeBoard`.

The row leads to Check Runs that exist and show its job, and never to those of others (`LinksLead`); a run knows only of its
own Check Run, has linked it and saved the comment before the phases that rely on them (`RunsOK`); a control that
is pending was asked for by a click that counts (`ControlsLead`, `ControlsPend`), and what reached the queue is counted
against those that are still pending (`EffectsCounted`): this is why redeliveries and crashes between
`record_job_control` and the statement never let a click act twice.

### StackPlannerProofs

Lemmas, no theorem of its own. `PlanStack`, `Component` and the initial histories of `Stack` are recursive functions. A fact
about all their values is an induction, for which the library's theorems cannot be instantiated here; each is
done on sets of numbers instead: `RunExists` and `WalkExists` show that `n` steps can be taken, so that a recursive function is
what it is defined as, and what holds of every step holds because there would otherwise be a least one of which it does not
(`NatSetMin`). On top of it: the search of `partition` reaches exactly what an edge leads to in any number of steps, a
walk along parents that comes back never ends (`reject_cycles`), and the merge order of parents without a cycle or a
fork has everything once.

### StackProofs

`TypeCorrect`, `WorkAlwaysSurvives`, `OnlyOwnedEverRewritten`, `OnlyPeopleEverMoveBases`, `StacksMoveLikeBoard`.

- No change is lost. `RebasedHolds` is the lemma about `git rebase`: what it returns holds every change it was
  given, because each change the target lacks has a place of its own. A run that is about to push therefore
  holds what it cloned (`IsSafe`), and `--force-with-lease` accepts only that the branch still is what was cloned
  (`PushMoves`). Nothing is needed of the lease: a run that lost it is as harmless.
- Only owned branches are rewritten, from the same part of the invariant: the allowlist and the fork are looked at
  before the push, and neither changes.
- The plans that runs follow are lines (`PlannedIsLine`): every pull request stands on the one it declares, or else on the
  one its base names, and exactly those with another base than the declared one are updated.
- A run complains about a base only after a person acted. `BasesKept` is what makes it inductive: without acts, a
  base is the one any plan was made with, or the declared one, whichever of the runs changed it first; so at every
  place of the line the base is as planned or is among the updates (`BaseIsPlanned`, `UpdateIsKnown`).

### StackLineProofs

`CompletedStacksAreLinear` and `BasesAlwaysFollowBranches`: while all plans agree (`InLine`), a run that nobody disturbed leaves
branch on branch and base on base, whatever other runs push meanwhile, with a lease or without one.

The height of a branch over main (`Level`), which `LineAssumption` provides, is what a plan's order is compared with; it is
used in the proofs only. The inductive invariant is `LineInv`. It has four parts.

- `Lies`: every branch is in order (`Sorted`: lower branches first, then older changes), has the change that opened it and none
  from a branch higher up, and the changes of others on it are also on the branch below. This is what a rebase keeps (`RebasedSorted`), and because two
  histories in order with the same changes are the same (`SortedIsUnique`), "holds all changes of the branch below" and "lies on
  the branch below" become one (`HoldsIsBefore`).
- `Lying`: unless people interfered since the run began, each branch that it has passed holds what the branch below has.
- `Pushes`: what a run is about to push brings a change that the branch below has and the cloned head had not, and nothing
  from above. It therefore is a rewrite, and `--force-with-lease` takes it only when
  the branch still is the cloned head, which then lacks that change.
- `Based`: a base that the run found right or has changed is right.

A push of some other run cannot hit what an undisturbed run has passed (`PassedStays`): the branch it rewrites lacks a change of
the branch below, and those passed lack none. It cannot hit the branch below one that was passed either, as that one
was passed as well. After an act of people nothing is claimed of the runs that were under way, but `Lies` has to
survive the act (`CommitLies`). `InLine` is no assumption on what the code does: it may cease to hold at any step, and the invariant
says nothing from then on; since plans stay as they were made, it never comes back (`LineStays`). In particular it says nothing once
people have turned a stack around, or closed the lowest pull request of one that was planned, and a plan was made of it.
People of `Stack` only add commits to branches: a branch that they rewrite is not modelled.

### DecisionsProofs

`PlansAreStacks`, `ReadyIsAlwaysReported`, `CommitsStayInBounds` and `RepairsAreExact`. Nothing is kept between two answers of
`Decisions`, so that the invariant only says that an answer is what was computed from the question (`Followed`); the
theorems rest on lemmas about the operators.

- Stacks, for every finite set of open pull requests: partition splits them along their edges and nowhere else, there is
  a plan just when some order agrees with all bases and declarations, and carrying it out makes a chain; the two
  directions are `LineIsOrder` and `OrderIsLine`.
- Readiness, for every read of GitHub: the newest of finitely many entries is the one that counts (`NewestIsLast`), and
  approvals are counted per user because an author has one last decision (`ApprovalsAreApproving`, an injection).
- CI repairs, for every tree, ignore list and list of patches, whatever git makes of them: a path that moved is
  missing from what is staged, although it is declared, so nothing moved (`CommitIsInBounds`); that the renames are
  stopped by the comparison of paths and not by the look at the summary, as noted above, is what this proof shows.
- Repairs of files, for every file and every list of hunks. The reversed patch is followed beside the patch: when
  `apply_hunks` is behind a hunk, the reversed patch is at the same place of the new file and has made the old one up to
  there (`Mirrored`, `HunkTakenBack`). That it finds its lines needs two inductions in opposite directions: down the
  patch, what the hunks before have moved a line by (`Shifted`); and up from its end, that the new file begins with
  what was made so far (`BeginsWith`). A suggestion is the patch for its range of lines (`SuggestionIsHunk`); the last
  line, which may or may not have an end, is the case that needs care.

### Only model-checked

- Liveness, `EveryJobSettles` and `InventoryHeals`: out of the prover's reach.
- The four violations, which are about single behaviours.

## Plan

Left, most important first:

1. `JobBoard` as a component on its own: what it promises (settled jobs stay, one open job per identity), proved once
   from `BoardSpec` and carried over to the modules that implement it.
2. A property for the hazards that have none (`PROJECT.json`), where the code says what should hold.

## Not modelled

- HTTP, NATS and git as such, text processing (redaction, logs, finding a suggestion in a comment, the
  evidence sent to Pi), the API and web pages, configuration, and deployment: they keep no state that other
  parts depend on.
- NATS wake-ups: polling recovers every job without them, and the code only logs their failure.
- The Pi request: one message with a time limit, an inbox and a nonce of its own. Nothing is kept between
  requests, a late answer is dropped with its inbox, and `RepairRun` leaves the result of a
  diagnosis open (`NoPatch` or a patch).
- `RunState` with `apply_control`, `RebasePlanner` and `RebasePolicy`: public, tested, and called by nothing
  else. What the program does instead is in `JobQueue`, `WorkPlan`, `StackPlanner` and `Stack`.
- The rows of checks, reviews and evaluations: a reconcile replaces them as a whole, and only people read them.
