------------------------------ MODULE RepairRun ------------------------------
(***************************************************************************)
(* What a worker does to a pull request: feedback_repair and ci_repair of  *)
(* src/worker.rs with the git workspace of src/workspace.rs.  A run reads  *)
(* the head from the watchlist, clones it, applies one item of its plan,   *)
(* pushes, answers the comment, resolves the thread and marks the item in  *)
(* the store, and asks for its lease between these steps.                  *)
(*                                                                         *)
(* The lease is in PostgreSQL, the branch and the threads are on GitHub:   *)
(* between the answer to "do I hold the lease" and the call that follows   *)
(* anything may happen.  A call may take effect and its answer be lost.    *)
(* The queue is seen as JobBoard promises it, without attempts or clocks.  *)
(***************************************************************************)
EXTENDS Integers, Sequences, FiniteSets

CONSTANTS
  Worker,      \* worker processes
  Job,         \* jobs that can be enqueued for the pull request, 1..n
  Suggestion,  \* automation feedback on the first head, positive numbers
  Threaded,    \* the suggestions made on a review thread (review-comment:)
  Shape,       \* the form of each suggestion, see Shapes
  CiPatch,     \* the one item of a ci_repair plan
  UserCommit,  \* bound: commits people push
  MaxCommits,  \* bound: commits on the branch when a run commits on top of them
  User,        \* their author
  MaxAttempts, \* MaxAttempts[j]: jobs.max_attempts
  NeedsApproval, \* policy.require_approval
  None

(* A unified patch names the lines it replaces.  An inline suggestion replaces a
   range of lines whatever they hold: when it is applied again nothing changes,
   unless it has more lines than the range ("growing"). *)
Shapes == {"patch", "inline", "growing"}

ASSUME RepairRunAssumption ==
  /\ Job \subseteq Nat
  /\ Suggestion \subseteq Nat \ {0}
  /\ CiPatch = 0
  /\ Threaded \subseteq Suggestion
  /\ Shape \in [Suggestion -> Shapes]
  /\ NeedsApproval \in BOOLEAN
  /\ MaxCommits \in Nat
  /\ MaxAttempts \in [Job -> Nat]
  /\ User \notin Worker
  /\ None \notin Worker \union Job
  /\ None \notin {"applied", "rejected", "succeeded", "failed"}
  /\ UserCommit \intersect (Suggestion \union {CiPatch}) = {}

VARIABLES
  status, executor,  \* the job board, as in JobBoard
  plan,      \* plan[j]: what job j is to do
  seen,      \* feedback a reconcile read and has not acted on, or None
  watched,   \* pull_requests.head_sha
  branch,    \* the head branch on GitHub; a commit is the history up to it
  said,      \* said[i]: outcomes posted under suggestion i
  resolved,  \* review threads resolved
  feedback,  \* feedback_items.repair_state
  run,       \* run[w]: what worker w is doing
  landed     \* history: items ever pushed to the branch

board == <<status, executor>>
github == <<branch, said, resolved>>
vars == <<board, plan, seen, watched, github, feedback, run, landed>>

-----------------------------------------------------------------------------
Item == Suggestion \union {CiPatch}
Kinds == {"feedback_repair", "ci_repair"}
Open == {"queued", "executing", "orphaned", "waiting"}
Settled == {"succeeded", "failed", "cancelled"}

Commit == [by : Worker \union {User}, what : Item \union UserCommit]
History == Seq(Commit)

IsPrefix(s, t) == Len(s) <= Len(t) /\ SubSeq(t, 1, Len(s)) = s
Holds(head, what) == \E n \in DOMAIN head : head[n].what = what

Plan ==
  [kind : Kinds \union {None}, items : SUBSET Item, skipped : SUBSET Item,
   approved : BOOLEAN, attempt : Nat]

NoPlan == [kind |-> None, items |-> {}, skipped |-> {}, approved |-> FALSE, attempt |-> 0]

Phases ==
  {"idle", "started", "checking", "applying", "staged", "committed", "pushing",
   "answering", "replying", "answered", "resolving", "marking", "closing", "failing",
   "summing", "concluding", "settling"}

(* head is PullRequestContext.head_sha as the run read it, local the clone, ends what
   the job is to be marked with, and late (history) counts the calls made to GitHub
   when the lease was gone. *)
Run ==
  [phase : Phases, job : Job \union {None}, item : Item \union {None},
   head : History, local : History, verdict : {"applied", "rejected", None},
   ends : {"succeeded", "failed", None}, late : Nat]

NoRun == [phase |-> "idle", job |-> None, item |-> None, head |-> <<>>, local |-> <<>>,
          verdict |-> None, ends |-> None, late |-> 0]

TypeOK ==
  /\ status \in [Job -> {"absent"} \union Open \union Settled]
  /\ executor \in [Job -> Worker \union {None}]
  /\ plan \in [Job -> Plan]
  /\ seen \in (SUBSET Suggestion) \union {None}
  /\ watched \in History /\ branch \in History
  /\ said \in [Suggestion -> SUBSET {"applied", "rejected"}]
  /\ resolved \subseteq Threaded
  /\ feedback \in [Suggestion -> {"open", "applied", "rejected"}]
  /\ run \in [Worker -> Run]
  /\ landed \subseteq Item

Init ==
  /\ status = [j \in Job |-> "absent"]
  /\ executor = [j \in Job |-> None]
  /\ plan = [j \in Job |-> NoPlan]
  /\ seen = None
  /\ watched = <<>> /\ branch = <<>>
  /\ said = [i \in Suggestion |-> {}]
  /\ resolved = {}
  /\ feedback = [i \in Suggestion |-> "open"]
  /\ run = [w \in Worker |-> NoRun]
  /\ landed = {}

-----------------------------------------------------------------------------
(* The job board and everyone else. *)

Goes(j, to, w) ==
  /\ status' = [status EXCEPT ![j] = to]
  /\ executor' = [executor EXCEPT ![j] = w]

Enqueue(kind, items) ==
  /\ items # {}
  /\ ~\E j \in Job : status[j] \in Open /\ plan[j].kind = kind
  /\ \E j \in Job :
       /\ status[j] = "absent"
       /\ \A k \in Job : k < j => status[k] # "absent"
       /\ Goes(j, "queued", None)
       /\ plan' = [plan EXCEPT ![j] = [kind |-> kind, items |-> items, skipped |-> {},
                                       approved |-> FALSE, attempt |-> 0]]

(* A reconcile job reads the threads of GitHub and its own repair states. *)
ReconcileReads ==
  /\ seen = None
  /\ \E j \in Job : status[j] = "absent"
  /\ seen' = {i \in Suggestion : i \notin resolved /\ feedback[i] = "open"}
  /\ UNCHANGED <<board, plan, watched, github, feedback, run, landed>>

(* save_reconciliation, then enqueue_follow_up_jobs with what was read. *)
ReconcileActs ==
  /\ seen # None
  /\ watched' = branch
  /\ seen' = None
  /\ \/ Enqueue("feedback_repair", seen)
     \/ Enqueue("ci_repair", {CiPatch})
     \/ UNCHANGED <<board, plan>>
  /\ UNCHANGED <<github, feedback, run, landed>>

(* A webhook brings the watchlist up to date. *)
WebhookMovesHead ==
  /\ watched' = branch
  /\ UNCHANGED <<board, plan, seen, github, feedback, run, landed>>

(* Somebody pushes a commit, on top of the branch or over some of it.  The commit is
   new to the store and to the runs, which bounds the model. *)
UserPushes(c) ==
  /\ ~Holds(branch, c) /\ ~Holds(watched, c)
  /\ \A w \in Worker : ~Holds(run[w].head, c)
  /\ \E n \in 0..Len(branch) :
       branch' = Append(SubSeq(branch, 1, n), [by |-> User, what |-> c])
  /\ UNCHANGED <<board, plan, seen, watched, said, resolved, feedback, run, landed>>

(* Somebody takes the last commits off the branch with a forced push. *)
UserDrops ==
  /\ \E n \in 0..(Len(branch) - 1) : branch' = SubSeq(branch, 1, n)
  /\ UNCHANGED <<board, plan, seen, watched, said, resolved, feedback, run, landed>>

Start(w, j) ==
  /\ run[w].phase = "idle"
  /\ status[j] \in {"queued", "orphaned"}
  /\ plan[j].attempt < MaxAttempts[j]
  /\ Goes(j, "executing", w)
  /\ plan' = [plan EXCEPT ![j].attempt = @ + 1]
  /\ run' = [run EXCEPT ![w] = [NoRun EXCEPT !.phase = "started", !.job = j]]
  /\ UNCHANGED <<seen, watched, github, feedback, landed>>

(* The lease runs out, or a sweep fails the job that has no attempt left. *)
Expire(j) ==
  /\ \/ status[j] = "executing" /\ Goes(j, "orphaned", None)
     \/ /\ status[j] \in {"queued", "orphaned"} /\ plan[j].attempt >= MaxAttempts[j]
        /\ Goes(j, "failed", None)
  /\ UNCHANGED <<plan, seen, watched, github, feedback, run, landed>>

Cancel(j) ==
  /\ status[j] \in Open
  /\ Goes(j, "cancelled", None)
  /\ UNCHANGED <<plan, seen, watched, github, feedback, run, landed>>

(* skip_current_item skips what the row calls current, an item of the plan. *)
Skip(j) ==
  /\ status[j] \in {"executing", "orphaned", "waiting"}
  /\ Goes(j, "queued", None)
  /\ \E i \in plan[j].items :
       plan' = [plan EXCEPT ![j].skipped = @ \union {i},
                            ![j].attempt = IF @ > 0 THEN @ - 1 ELSE 0]
  /\ UNCHANGED <<seen, watched, github, feedback, run, landed>>

Approve(j) ==
  /\ status[j] = "waiting"
  /\ Goes(j, "queued", None)
  /\ plan' = [plan EXCEPT ![j].approved = TRUE]
  /\ UNCHANGED <<seen, watched, github, feedback, run, landed>>

-----------------------------------------------------------------------------
(* A run. *)

HoldsLease(w) == run[w].job # None /\ executor[run[w].job] = w

Left(j) == plan[j].items \ plan[j].skipped

(* The run r in its next phase.  From the push on it needs no clone, and after an
   error or the mark it needs only the job. *)
Entered(r, phase) ==
  CASE phase \in {"closing", "failing"} ->
         [NoRun EXCEPT !.phase = phase, !.job = r.job, !.late = r.late]
    [] phase \in {"answering", "replying", "answered", "resolving", "marking"} ->
         [r EXCEPT !.phase = phase, !.head = <<>>, !.local = <<>>]
    [] OTHER -> [r EXCEPT !.phase = phase]

Enters(w, phase) ==
  run' = [run EXCEPT ![w] = Entered(run[w], phase)]

Elsewhere == UNCHANGED <<board, plan, seen, watched>>

(* assert_lease, then the pull request's row.  A plan with nothing left ends. *)
ReadPlan(w) ==
  LET j == run[w].job IN
  /\ run[w].phase = "started" /\ HoldsLease(w)
  /\ \/ /\ Left(j) = {}
        /\ Enters(w, "closing")
     \/ \E i \in Left(j) :
          /\ \A k \in Left(j) : i <= k
          /\ run' = [run EXCEPT ![w].phase = "checking", ![w].item = i, ![w].head = watched]
  /\ UNCHANGED <<github, feedback, landed>> /\ Elsewhere

(* Mutated: the policy is asked for CI patches too. *)
MayMutateByPolicy(j) == plan[j].approved \/ ~NeedsApproval

(* A CI patch asks for approval always, feedback when the policy wants it. *)
MayMutate(j) ==
  \/ plan[j].approved
  \/ plan[j].kind = "feedback_repair" /\ ~NeedsApproval

Park(w) ==
  LET j == run[w].job IN
  /\ run[w].phase = "checking" /\ ~MayMutate(j) /\ HoldsLease(w)
  /\ Goes(j, "waiting", None)
  /\ run' = [run EXCEPT ![w] = NoRun]
  /\ UNCHANGED <<plan, seen, watched, github, feedback, landed>>

(* Pi has no patch to propose. *)
NoPatch(w) ==
  /\ run[w].phase = "checking" /\ plan[run[w].job].kind = "ci_repair"
  /\ Enters(w, "closing")
  /\ UNCHANGED <<github, feedback, landed>> /\ Elsewhere

(* get_pull_request, and the clone of that head.  The head is compared with the
   watchlist, not with the plan. *)
CheckHead(w) ==
  /\ run[w].phase = "checking" /\ MayMutate(run[w].job)
  /\ \/ branch = run[w].head /\ Enters(w, "applying")
     \/ branch # run[w].head /\ Enters(w, "failing")
  /\ UNCHANGED <<github, feedback, landed>> /\ Elsewhere

(* What the item can do to this head: repair_feedback and git apply. *)
Outcomes(i, head) ==
  IF i = CiPatch THEN IF Holds(head, i) THEN {"failed"} ELSE {"changed", "failed"}
  ELSE IF Holds(head, i)
       THEN CASE Shape[i] = "patch" -> {"rejected"}
              [] Shape[i] = "inline" -> {"unchanged", "rejected"}
              [] Shape[i] = "growing" -> {"changed", "rejected"}
       ELSE {"changed", "rejected"}

Apply(w) ==
  LET r == run[w] IN
  /\ r.phase = "applying" /\ HoldsLease(w)
  /\ \E outcome \in Outcomes(r.item, r.head) :
       \/ /\ outcome = "changed" /\ Len(r.head) < MaxCommits
          /\ run' = [run EXCEPT ![w].phase = "staged",
                                ![w].local = Append(r.head, [by |-> w, what |-> r.item])]
       \/ /\ outcome = "rejected"
          /\ run' = [run EXCEPT ![w] = [r EXCEPT !.phase = "answering", !.head = <<>>,
                                                !.verdict = "rejected"]]
       \/ /\ outcome \in {"unchanged", "failed"}
          /\ Enters(w, "failing")
  /\ UNCHANGED <<github, feedback, landed>> /\ Elsewhere

(* ensure_remote_head before the commit. *)
Verify(w) ==
  /\ run[w].phase = "staged" /\ HoldsLease(w)
  /\ \/ branch = run[w].head /\ Enters(w, "committed")
     \/ branch # run[w].head /\ Enters(w, "failing")
  /\ UNCHANGED <<github, feedback, landed>> /\ Elsewhere

(* Mutated: the lease is checked once, before the push. *)
EnsureOnce(w) ==
  /\ run[w].phase \in {"committed", "answering", "answered"}
  /\ run[w].phase = "committed" => HoldsLease(w)
  /\ Enters(w, CASE run[w].phase = "committed" -> "pushing"
                  [] run[w].phase = "answering" -> "replying"
                  [] OTHER -> "resolving")
  /\ UNCHANGED <<github, feedback, landed>> /\ Elsewhere

(* LeaseGuard::ensure before each call that changes GitHub. *)
Ensured ==
  [committed |-> "pushing", answering |-> "replying", answered |-> "resolving"]

Ensure(w) ==
  /\ run[w].phase \in DOMAIN Ensured /\ HoldsLease(w)
  /\ Enters(w, Ensured[run[w].phase])
  /\ UNCHANGED <<github, feedback, landed>> /\ Elsewhere

(* A call reached GitHub; the run goes on to `next`, or fails when the answer
   is lost. *)
Called(w, next) ==
  LET r == [run[w] EXCEPT !.late = IF HoldsLease(w) THEN @ ELSE @ + 1] IN
  \E phase \in {next, "failing"} : run' = [run EXCEPT ![w] = Entered(r, phase)]

(* Mutated: the push is forced. *)
PushForced(w) ==
  LET r == run[w] IN
  /\ r.phase = "pushing"
  /\ branch' = r.local
  /\ landed' = landed \union {r.item}
  /\ Called(w, IF r.item = CiPatch THEN "closing" ELSE "answering")
  /\ UNCHANGED <<board, plan, seen, watched, said, resolved, feedback>>

(* Mutated: a push that GitHub refuses is taken for one that was accepted. *)
PushUnchecked(w) ==
  LET r == run[w] IN
  /\ r.phase = "pushing"
  /\ \/ IsPrefix(branch, r.local) /\ branch' = r.local /\ landed' = landed \union {r.item}
     \/ ~IsPrefix(branch, r.local) /\ UNCHANGED <<branch, landed>>
  /\ Called(w, IF r.item = CiPatch THEN "closing" ELSE "answering")
  /\ UNCHANGED <<board, plan, seen, watched, said, resolved, feedback>>

(* git push without force: GitHub takes only a descendant of the branch. *)
Push(w) ==
  LET r == run[w] IN
  /\ r.phase = "pushing"
  /\ \/ /\ IsPrefix(branch, r.local)
        /\ branch' = r.local
        /\ landed' = landed \union {r.item}
        /\ Called(w, IF r.item = CiPatch THEN "closing" ELSE "answering")
     \/ /\ ~IsPrefix(branch, r.local)
        /\ Enters(w, "failing")
        /\ UNCHANGED <<branch, landed>>
  /\ UNCHANGED <<board, plan, seen, watched, said, resolved, feedback>>

(* Mutated: the outcome of an accepted patch is left to the caller. *)
VerdictUnset(r) == r.verdict

(* publish_feedback_outcome is told "rejected" by the FeedbackError, else "applied". *)
Verdict(r) == IF r.verdict = None THEN "applied" ELSE r.verdict

(* reply_to_review_comment or create_issue_comment. *)
Reply(w) ==
  LET r == run[w] IN
  /\ r.phase = "replying"
  /\ said' = [said EXCEPT ![r.item] = @ \union {Verdict(r)}]
  /\ Called(w, "answered")
  /\ UNCHANGED <<board, plan, seen, watched, branch, resolved, feedback, landed>>

(* Mutated: the thread is left for the next reconcile to resolve. *)
ResolveLater(w) ==
  /\ run[w].phase = "resolving"
  /\ Enters(w, "marking")
  /\ UNCHANGED <<github, feedback, landed>> /\ Elsewhere

(* resolve_review_thread; a conversation comment has no thread. *)
Resolve(w) ==
  LET r == run[w] IN
  /\ r.phase = "resolving"
  /\ \/ /\ r.item \in Threaded
        /\ resolved' = resolved \union {r.item}
        /\ Called(w, "marking")
     \/ /\ r.item \notin Threaded
        /\ Enters(w, "marking")
        /\ UNCHANGED resolved
  /\ UNCHANGED <<board, plan, seen, watched, branch, said, feedback, landed>>

(* mark_feedback_resolved or mark_feedback_rejected: no lease is asked for. *)
Mark(w) ==
  LET r == run[w] IN
  /\ r.phase = "marking"
  /\ feedback' = [feedback EXCEPT ![r.item] = Verdict(r)]
  /\ Enters(w, "closing")
  /\ UNCHANGED <<github, landed>> /\ Elsewhere

(* ensure_lease before finish. *)
Report(w) ==
  LET r == run[w] IN
  /\ r.phase \in {"closing", "failing"} /\ HoldsLease(w)
  /\ run' = [run EXCEPT ![w].phase = "summing",
                        ![w].ends = IF r.phase = "closing" THEN "succeeded" ELSE "failed"]
  /\ UNCHANGED <<github, feedback, landed>> /\ Elsewhere

(* create_issue_comment, then update_check_run of finish, without another look at the
   lease.  Neither touches the branch or a thread; when one fails, the job fails. *)
Finish(w) ==
  LET r == [run[w] EXCEPT !.late = IF HoldsLease(w) THEN @ ELSE @ + 1] IN
  /\ r.phase \in {"summing", "concluding"}
  /\ \/ run' = [run EXCEPT ![w] = [r EXCEPT !.phase = IF @ = "summing" THEN "concluding"
                                                    ELSE "settling"]]
     \/ run' = [run EXCEPT ![w] = [r EXCEPT !.phase = "settling", !.ends = "failed"]]
  /\ UNCHANGED <<github, feedback, landed>> /\ Elsewhere

(* Mutated: the job is settled without a look at the lease. *)
SettleAnyway(w) ==
  /\ run[w].phase = "settling"
  /\ Goes(run[w].job, run[w].ends, None)
  /\ run' = [run EXCEPT ![w] = NoRun]
  /\ UNCHANGED <<plan, seen, watched, github, feedback, landed>>

(* mark_succeeded or mark_failed. *)
Settle(w) ==
  /\ run[w].phase = "settling" /\ HoldsLease(w)
  /\ Goes(run[w].job, run[w].ends, None)
  /\ run' = [run EXCEPT ![w] = NoRun]
  /\ UNCHANGED <<plan, seen, watched, github, feedback, landed>>

(* An error before the next step: GitHub, git or the store fails without effect.  The
   job is marked without a report when there is no Check Run yet, or it fails in parking
   or in the report. *)
Unreported == {"started", "checking", "closing", "failing", "summing", "concluding"}
Fails(w) ==
  /\ run[w].phase \notin {"idle", "settling"}
  /\ \/ /\ run[w].phase \notin Unreported \ {"checking"}
        /\ Enters(w, "failing")
     \/ /\ run[w].phase \in Unreported
        /\ run' = [run EXCEPT ![w].phase = "settling", ![w].ends = "failed"]
  /\ UNCHANGED <<github, feedback, landed>> /\ Elsewhere

(* The process dies, or the run ends without its lease. *)
Die(w) ==
  /\ run[w].phase # "idle"
  /\ run' = [run EXCEPT ![w] = NoRun]
  /\ UNCHANGED <<github, feedback, landed>> /\ Elsewhere

-----------------------------------------------------------------------------
Others ==
  \/ ReconcileReads \/ ReconcileActs \/ WebhookMovesHead
  \/ UserDrops \/ \E c \in UserCommit : UserPushes(c)
  \/ \E j \in Job : Expire(j) \/ Cancel(j) \/ Skip(j) \/ Approve(j)

Step(w) ==
  \/ \E j \in Job : Start(w, j)
  \/ ReadPlan(w) \/ Park(w) \/ NoPatch(w) \/ CheckHead(w) \/ Apply(w) \/ Verify(w)
  \/ Ensure(w) \/ Push(w) \/ Reply(w) \/ Resolve(w) \/ Mark(w)
  \/ Report(w) \/ Finish(w) \/ Settle(w) \/ Fails(w) \/ Die(w)

Next == Others \/ \E w \in Worker : Step(w)

Spec == Init /\ [][Next]_vars

-----------------------------------------------------------------------------
(* Properties. *)

(* PiTools says that it applied a suggestion, to people or in its store, only
   after a commit with it was taken by GitHub: feedback_repair answers and marks
   after apply_feedback's push. *)
AppliedIsLanded ==
  \A i \in Suggestion : "applied" \in said[i] \/ feedback[i] = "applied" => i \in landed

(* What people read keeps its order, whatever fails or is taken over in between: an item
   that the store counts as dealt with, and no reconcile takes up again, has its outcome
   under the comment and its thread resolved, and no thread is resolved before an outcome
   was posted under it (publish_feedback_outcome before the mark). *)
MarkedIsAnswered ==
  /\ \A i \in Suggestion :
       feedback[i] # "open" => feedback[i] \in said[i] /\ (i \in Threaded => i \in resolved)
  /\ \A i \in resolved : said[i] # {}

(* A worker that lost its job (cancel, skip, expiry, takeover) gets at most one more
   call through to the branch and the threads: LeaseGuard::ensure stands before each
   of them.  Or, when it was about to report, the two calls of finish. *)
FewLateCalls ==
  \A w \in Worker : run[w].late <= IF run[w].phase = "settling" THEN 2 ELSE 1

(* A CI patch is pushed only for a plan a person approved (admit_ci_mutation),
   in whatever order approval, skip, takeover and retry come. *)
CiPatchApproved ==
  CiPatch \in landed => \E j \in Job : plan[j].kind = "ci_repair" /\ plan[j].approved

(* A worker changes the branch only to the head it cloned with one commit of its own
   on top, and only from that head or from an older one: whoever pushes meanwhile, no
   commit that the worker has not seen is lost (git push without force). *)
RepairExtendsBranch ==
  [][\A w \in Worker :
       branch' # branch /\ run'[w] # run[w] =>
         /\ branch' = Append(run[w].head, [by |-> w, what |-> run[w].item])
         /\ IsPrefix(branch, run[w].head)]_vars

(* The jobs of this module move as the board of jobs promises. *)
kindOf == [j \in Job |-> plan[j].kind]
Board == INSTANCE JobBoard
           WITH identity <- kindOf, Identity <- Kinds, Executor <- Worker
MovesLikeBoard == Board!BoardSpec

(* "PiTools rejected this automation suggestion .. No branch change was
   accepted" (feedback.rs:126 and :129) is posted only when the branch does not hold the
   suggestion. *)
RejectionIsTrue ==
  [][\A i \in Suggestion : "rejected" \in said'[i] \ said[i] => ~Holds(branch, i)]_vars

=============================================================================
