-------------------------------- MODULE Stack --------------------------------
(***************************************************************************)
(* Stacked pull requests: enqueue_follow_up_jobs asks for a stack_rebase   *)
(* job at the tip of a stack, and stack_rebase (src/worker.rs) with        *)
(* rebase_onto (src/workspace.rs) looks at the bases that have to change,  *)
(* rebases every branch on the one below it, base-most first, and then     *)
(* changes the bases of the pull requests.                                 *)
(*                                                                         *)
(* Pull request p has the head branch p.  A commit is its history: two     *)
(* commits are the same when they hold the same changes in the same order. *)
(* Runs that lost their lease, other jobs and people work on the same      *)
(* branches meanwhile.  The queue is seen as JobBoard promises it.         *)
(***************************************************************************)
EXTENDS StackPlanner, SequencesExt

CONSTANTS
  Worker,     \* worker processes
  Job,        \* jobs that can be enqueued, 1..n
  PR,         \* open pull requests, positive numbers
  Declared,   \* policy.stack_parents
  Line,       \* Line[p]: the branch that the one of p was made on
  Setting,    \* choices for bot_owned_branches, when allow_bot_force_push is set, and
              \* for the pull requests whose head is in a fork
  MaxAttempts, \* MaxAttempts[j]: jobs.max_attempts
  MaxActs,    \* bound: what people do on GitHub
  MaxFaults,  \* bound: calls and processes that fail
  None

Main == 0
Names == {Main} \union PR

ASSUME StackAssumption ==
  /\ PR \subseteq Nat \ {0} /\ IsFiniteSet(PR) /\ Job \subseteq Nat
  /\ Declared \in [PR -> PR \union {NoParent}] /\ Line \in [PR -> Names]
  /\ Setting \subseteq [owned : SUBSET PR, fork : SUBSET PR]
  /\ MaxAttempts \in [Job -> Nat] /\ MaxActs \in Nat /\ MaxFaults \in Nat
  /\ None \notin Worker \union Job \union PR

(* Branches are not made on each other in a circle: each has a height over main. *)
Rises(level) == level[Main] = 0 /\ \A p \in PR : level[p] = level[Line[p]] + 1
Levels == [Names -> 0..Cardinality(PR)]

ASSUME LineAssumption == \E level \in Levels : Rises(level)

VARIABLES
  history,  \* history[b]: the changes on branch b, oldest first
  base,     \* base[p]: the base branch of pull request p
  closed,   \* pull requests that are closed
  owned, fork, \* what the policy and the repository say, for good
  status, executor, \* the job board, as in JobBoard
  plan,     \* plan[j]: the component and what the planner makes of it
  attempt,  \* jobs.attempt
  run,      \* run[w]: what worker w is doing
  acts,     \* what people did so far
  faults

github == <<history, base, closed>>
board == <<status, executor, attempt>>
vars == <<github, owned, fork, board, plan, run, acts, faults>>

-----------------------------------------------------------------------------
Open == {"queued", "executing", "orphaned", "waiting"}
Settled == {"succeeded", "failed", "cancelled"}

(* Change <<b, n>> was made on branch b as the n-th act; act 0 opened the branch. *)
Change == Names \X (0..MaxActs)
History == Seq(Change)
Changes(h) == {h[i] : i \in DOMAIN h}
Before(h, k) == Len(h) <= Len(k) /\ SubSeq(k, 1, Len(h)) = h

Update == [number : PR, from : Names, to : Names]
StackOf == [tip : PR, head : History, bases : [PR -> Names],
            order : Seq(PR), updates : SUBSET Update]
NoPlan == [tip |-> None]

Phases == {"checking", "visiting", "cloned", "rebased", "pushing", "basing", "updating",
           "closing"}
Outcomes == {None, "completed", "blocked", "blocked by base", "error", "base changed"}

(* left: updates to look at; pending: updates to make; at: place in the order; since
   (history): acts when the run began. *)
Run == [phase : Phases, job : Job, left : SUBSET Update, pending : SUBSET Update,
        at : Nat, head : History, local : History, outcome : Outcomes,
        since : 0..MaxActs]

ASSUME NoneIsNoRun ==
  None \notin Run \union {"completed", "blocked", "blocked by base", "error", "base changed"}

TypeOK ==
  /\ history \in [Names -> History]
  /\ base \in [PR -> Names] /\ closed \subseteq PR
  /\ [owned |-> owned, fork |-> fork] \in Setting
  /\ status \in [Job -> {"absent"} \union Open \union Settled]
  /\ executor \in [Job -> Worker \union {None}]
  /\ plan \in [Job -> StackOf \union {NoPlan}]
  /\ attempt \in [Job -> Nat] /\ \A j \in Job : attempt[j] <= MaxAttempts[j]
  /\ run \in [Worker -> Run \union {None}]
  /\ acts \in 0..MaxActs /\ faults \in 0..MaxFaults

(* Every branch has a change of its own, on the main branch or already on the branch
   below it; the bases are the main branch or the branches below. *)
Bottom == <<<<Main, 0>>>>
Stacked ==
  LET Up[k \in 0..Cardinality(PR)] ==
        [b \in Names |-> IF b = Main \/ k = 0 THEN Bottom
                         ELSE Append(Up[k - 1][Line[b]], <<b, 0>>)]
  IN Up[Cardinality(PR)]
Apart == [b \in Names |-> IF b = Main THEN Bottom ELSE Append(Bottom, <<b, 0>>)]

(* What the planner makes of the open pull requests, as the watchlist has them with the
   bases b, for the stack of p. *)
Rows(open, b) ==
  {[number |-> p, head |-> p, base |-> b[p], parent |-> Declared[p]] : p \in open}
Planned(open, b, p) ==
  PlanStack(SetToSeq(Component(Rows(open, b), p)))

Init ==
  /\ history \in {Stacked, Apart}
  /\ base \in [PR -> {Main}] \union {Line}
  /\ closed = {}
  /\ \E s \in Setting : owned = s.owned /\ fork = s.fork
  /\ status = [j \in Job |-> "absent"]
  /\ executor = [j \in Job |-> None]
  /\ plan = [j \in Job |-> NoPlan]
  /\ attempt = [j \in Job |-> 0]
  /\ run = [w \in Worker |-> None]
  /\ acts = 0 /\ faults = 0

-----------------------------------------------------------------------------
(* People. *)

Act ==
  /\ acts < MaxActs /\ acts' = acts + 1
  /\ UNCHANGED <<owned, fork, board, plan, run, faults>>

Commit(b) ==
  /\ Act
  /\ history' = [history EXCEPT ![b] = Append(@, <<b, acts + 1>>)]
  /\ UNCHANGED <<base, closed>>

Retarget(p, b) ==
  /\ Act
  /\ b \notin {p, base[p]} /\ p \notin closed
  /\ base' = [base EXCEPT ![p] = b]
  /\ UNCHANGED <<history, closed>>

CloseOrReopen(p) ==
  /\ Act
  /\ closed' = IF p \in closed THEN closed \ {p} ELSE closed \union {p}
  /\ UNCHANGED <<history, base>>

-----------------------------------------------------------------------------
(* The job board. *)

Goes(j, to, w) ==
  /\ status' = [status EXCEPT ![j] = to]
  /\ executor' = [executor EXCEPT ![j] = w]

Quiet == UNCHANGED <<github, owned, fork, acts>>

(* The job that a reconcile of p asks for: only the tip of a stack has one, and a head
   that has a succeeded job gets no other. *)
Enqueue(p) ==
  LET stack == Planned(PR \ closed, base, p)
  IN /\ p \notin closed /\ \E j \in Job : status[j] = "absent"
     /\ stack.ok /\ Len(stack.order) > 1 /\ stack.order[Len(stack.order)] = p
     /\ ~\E j \in Job : /\ status[j] \in Open \union {"succeeded"} /\ plan[j].tip = p
                        /\ status[j] = "succeeded" => plan[j].head = history[p]
     /\ \E j \in Job :
          /\ status[j] = "absent"
          /\ \A k \in Job : k < j => status[k] # "absent"
          /\ Goes(j, "queued", None)
          /\ plan' = [plan EXCEPT ![j] =
                        [tip |-> p, head |-> history[p], bases |-> base,
                         order |-> stack.order, updates |-> stack.updates]]
     /\ UNCHANGED <<attempt, run, faults>> /\ Quiet

(* Mutated: the attempts are not looked at. *)
LeaseAnyway(w, j) ==
  /\ run[w] = None
  /\ status[j] \in {"queued", "orphaned"}
  /\ Goes(j, "executing", w)
  /\ attempt' = [attempt EXCEPT ![j] = @ + 1]
  /\ run' = [run EXCEPT ![w] =
               [phase |-> "checking", job |-> j, left |-> plan[j].updates, pending |-> {},
                at |-> 1, head |-> <<>>, local |-> <<>>, outcome |-> None,
                since |-> acts]]
  /\ UNCHANGED <<plan, faults>> /\ Quiet

LeaseNext(w, j) ==
  /\ run[w] = None
  /\ status[j] \in {"queued", "orphaned"} /\ attempt[j] < MaxAttempts[j]
  /\ Goes(j, "executing", w)
  /\ attempt' = [attempt EXCEPT ![j] = @ + 1]
  /\ run' = [run EXCEPT ![w] =
               [phase |-> "checking", job |-> j, left |-> plan[j].updates, pending |-> {},
                at |-> 1, head |-> <<>>, local |-> <<>>, outcome |-> None,
                since |-> acts]]
  /\ UNCHANGED <<plan, faults>> /\ Quiet

(* The lease runs out, or a job without attempts is swept. *)
Expire(j) ==
  /\ \/ status[j] = "executing" /\ Goes(j, "orphaned", None)
     \/ /\ status[j] \in {"queued", "orphaned"} /\ attempt[j] = MaxAttempts[j]
        /\ Goes(j, "failed", None)
  /\ UNCHANGED <<attempt, plan, run, faults>> /\ Quiet

Cancel(j) ==
  /\ status[j] \in Open
  /\ Goes(j, "cancelled", None)
  /\ UNCHANGED <<attempt, plan, run, faults>> /\ Quiet

-----------------------------------------------------------------------------
(* A run. *)

In(w, phase) == run[w] # None /\ run[w].phase = phase
HoldsLease(w) == executor[run[w].job] = w
Stack(w) == plan[run[w].job]
Current(w) == Stack(w).order[run[w].at]
OnTop(w) == IF run[w].at = 1 THEN Stack(w).bases[Current(w)] ELSE Stack(w).order[run[w].at - 1]

Elsewhere == UNCHANGED <<owned, fork, board, plan, acts>>

(* What the run needs no more is forgotten. *)
Ended(r, outcome) ==
  [r EXCEPT !.phase = "closing", !.outcome = outcome, !.left = {}, !.pending = {},
            !.at = 1, !.head = <<>>, !.local = <<>>]
Ends(w, outcome) == run' = [run EXCEPT ![w] = Ended(run[w], outcome)]

(* Mutated: the last branch is left out. *)
OnwardButLast(w, r) ==
  [r EXCEPT !.at = @ + 1, !.head = <<>>, !.local = <<>>,
            !.phase = IF r.at + 1 = Len(Stack(w).order) THEN "basing" ELSE "visiting"]

(* The next branch, or the bases when this was the last. *)
Onward(w, r) ==
  [r EXCEPT !.at = @ + 1, !.head = <<>>, !.local = <<>>,
            !.phase = IF r.at = Len(Stack(w).order) THEN "basing" ELSE "visiting"]

Lowest(updates) == CHOOSE u \in updates : \A v \in updates : u.number <= v.number

(* Mutated: what is on GitHub already is an error. *)
CheckBaseStrictly(w) ==
  /\ In(w, "checking") /\ HoldsLease(w)
  /\ IF run[w].left = {} THEN run' = [run EXCEPT ![w].phase = "visiting"]
     ELSE LET u == Lowest(run[w].left) IN
          CASE u.number \in closed -> Ends(w, "error")
            [] u.number \notin closed /\ base[u.number] = u.from ->
                 run' = [run EXCEPT ![w].left = @ \ {u}, ![w].pending = @ \union {u}]
            [] OTHER -> Ends(w, "base changed")
  /\ UNCHANGED <<github, faults>> /\ Elsewhere

(* ensure, then get_pull_request, for each update the plan requires. *)
CheckBase(w) ==
  /\ In(w, "checking") /\ HoldsLease(w)
  /\ IF run[w].left = {} THEN run' = [run EXCEPT ![w].phase = "visiting"]
     ELSE LET u == Lowest(run[w].left) IN
          CASE u.number \in closed -> Ends(w, "error")
            [] u.number \notin closed /\ base[u.number] = u.from ->
                 run' = [run EXCEPT ![w].left = @ \ {u}, ![w].pending = @ \union {u}]
            [] u.number \notin closed /\ base[u.number] = u.to ->
                 run' = [run EXCEPT ![w].left = @ \ {u}]
            [] OTHER -> Ends(w, "base changed")
  /\ UNCHANGED <<github, faults>> /\ Elsewhere

(* The base is that of the plan, or the plan is about to change it. *)
BaseAsPlanned(w, p) ==
  \/ base[p] = OnTop(w)
  \/ [number |-> p, from |-> base[p], to |-> OnTop(w)] \in Stack(w).updates

(* ensure, then get_pull_request and the clone of its head. *)
Visit(w) ==
  /\ In(w, "visiting") /\ HoldsLease(w)
  /\ LET p == Current(w) IN
     CASE p \in closed \union fork -> Ends(w, "blocked")
       [] p \notin closed \union fork /\ ~BaseAsPlanned(w, p) -> Ends(w, "blocked by base")
       [] OTHER -> run' = [run EXCEPT ![w].phase = "cloned", ![w].head = history[p]]
  /\ UNCHANGED <<github, faults>> /\ Elsewhere

(* git rebase: the changes the target does not have, in their order, on top of it. *)
Rebased(h, target) ==
  LET own == {i \in DOMAIN h : h[i] \notin Changes(target)}
      Place(i) == Cardinality({k \in own : k <= i})
  IN target \o [n \in 1..Cardinality(own) |-> h[CHOOSE i \in own : Place(i) = n]]

(* Mutated: a conflict leaves the branch alone, and the run goes on. *)
RebaseWhatGoes(w) ==
  LET p == Current(w)
      after == Rebased(run[w].head, history[OnTop(w)])
  IN /\ In(w, "cloned") /\ HoldsLease(w)
     /\ \/ /\ history[p] # run[w].head /\ Ends(w, "error")
        \/ /\ history[p] = run[w].head
           /\ run' = [run EXCEPT ![w] = Onward(w, run[w])]
        \/ /\ history[p] = run[w].head /\ after # run[w].head /\ p \in owned
           /\ run' = [run EXCEPT ![w].phase = "rebased", ![w].local = after]
     /\ UNCHANGED <<github, faults>> /\ Elsewhere

(* Mutated: no blocker is asked for the allowlist. *)
RebaseAll(w) ==
  LET p == Current(w)
      after == Rebased(run[w].head, history[OnTop(w)])
  IN /\ In(w, "cloned") /\ HoldsLease(w)
     /\ \/ /\ history[p] # run[w].head /\ Ends(w, "error")
        \/ /\ history[p] = run[w].head /\ after = run[w].head
           /\ run' = [run EXCEPT ![w] = Onward(w, run[w])]
        \/ /\ history[p] = run[w].head /\ after # run[w].head
           /\ run' = [run EXCEPT ![w].phase = "rebased", ![w].local = after]
     /\ UNCHANGED <<github, faults>> /\ Elsewhere

(* rebase_onto up to the push. *)
Rebase(w) ==
  LET p == Current(w)
      target == history[OnTop(w)]
      after == Rebased(run[w].head, target)
  IN /\ In(w, "cloned") /\ HoldsLease(w)
     /\ \/ /\ history[p] # run[w].head /\ Ends(w, "error")
        \/ /\ history[p] = run[w].head /\ after = run[w].head
           /\ run' = [run EXCEPT ![w] = Onward(w, run[w])]
        \/ /\ history[p] = run[w].head /\ after # run[w].head
           /\ \/ Ends(w, "error")  \* conflict, or validation fails
              \/ /\ p \in owned \/ Before(run[w].head, after)
                 /\ run' = [run EXCEPT ![w].phase = "rebased", ![w].local = after]
              \/ /\ ~(p \in owned \/ Before(run[w].head, after))
                 /\ Ends(w, "blocked")
     /\ UNCHANGED <<github, faults>> /\ Elsewhere

(* LeaseGuard::ensure before a push and before each update of a base. *)
Ensure(w) ==
  /\ In(w, "rebased") \/ (In(w, "basing") /\ run[w].pending # {})
  /\ HoldsLease(w)
  /\ run' = [run EXCEPT ![w].phase = IF @ = "rebased" THEN "pushing" ELSE "updating"]
  /\ UNCHANGED <<github, faults>> /\ Elsewhere

(* A call reaches GitHub; the run r goes on, or fails when the answer is lost. *)
Called(w, r) ==
  \/ run' = [run EXCEPT ![w] = r] /\ UNCHANGED faults
  \/ /\ faults < MaxFaults /\ faults' = faults + 1
     /\ run' = [run EXCEPT ![w] = Ended(r, "error")]

(* rebase_push_argv: --force-with-lease with the exact head for a rewrite, a plain
   push for more commits on top. *)
Accepts(p, head, local) ==
  IF Before(head, local) THEN Before(history[p], local) ELSE history[p] = head

(* Mutated: --force. *)
PushForced(w) ==
  LET p == Current(w) IN
  /\ In(w, "pushing")
  /\ history' = [history EXCEPT ![p] = run[w].local]
  /\ Called(w, Onward(w, run[w]))
  /\ UNCHANGED <<base, closed>> /\ Elsewhere

Push(w) ==
  LET p == Current(w) IN
  /\ In(w, "pushing")
  /\ \/ /\ Accepts(p, run[w].head, run[w].local)
        /\ history' = [history EXCEPT ![p] = run[w].local]
        /\ Called(w, Onward(w, run[w]))
     \/ /\ ~Accepts(p, run[w].head, run[w].local)
        /\ Ends(w, "error") /\ UNCHANGED <<history, faults>>
  /\ UNCHANGED <<base, closed>> /\ Elsewhere

(* update_pull_request_base, which GitHub refuses for a closed pull request. *)
UpdateBase(w) ==
  /\ In(w, "updating")
  /\ LET u == Lowest(run[w].pending) IN
     \/ /\ u.number \notin closed
        /\ base' = [base EXCEPT ![u.number] = u.to]
        /\ Called(w, [run[w] EXCEPT !.phase = "basing", !.pending = @ \ {u}])
     \/ /\ u.number \in closed
        /\ Ends(w, "error") /\ UNCHANGED <<base, faults>>
  /\ UNCHANGED <<history, closed>> /\ Elsewhere

Complete(w) ==
  /\ In(w, "basing") /\ run[w].pending = {}
  /\ Ends(w, "completed")
  /\ UNCHANGED <<github, faults>> /\ Elsewhere

(* Mutated: the job is settled without a look at the lease. *)
CloseAnyway(w) ==
  /\ In(w, "closing")
  /\ Goes(run[w].job, IF run[w].outcome \in {"error", "base changed"} THEN "failed"
                      ELSE "succeeded", None)
  /\ run' = [run EXCEPT ![w] = None]
  /\ UNCHANGED <<attempt, plan, faults>> /\ Quiet

(* A run that is blocked succeeds too. *)
Close(w) ==
  /\ In(w, "closing")
  /\ IF HoldsLease(w)
     THEN Goes(run[w].job, IF run[w].outcome \in {"error", "base changed"} THEN "failed"
                           ELSE "succeeded", None)
     ELSE UNCHANGED <<status, executor>>
  /\ run' = [run EXCEPT ![w] = None]
  /\ UNCHANGED <<attempt, plan, faults>> /\ Quiet

(* ensure finds the lease gone. *)
LoseLease(w) ==
  /\ run[w] # None /\ run[w].phase \in {"checking", "visiting", "cloned", "rebased", "basing"}
  /\ ~HoldsLease(w)
  /\ run' = [run EXCEPT ![w] = None]
  /\ UNCHANGED <<github, faults>> /\ Elsewhere

(* A call fails without effect, or the process dies. *)
Fail(w) ==
  /\ run[w] # None /\ faults < MaxFaults /\ faults' = faults + 1
  /\ \/ run[w].phase # "closing" /\ Ends(w, "error")
     \/ run' = [run EXCEPT ![w] = None]
  /\ UNCHANGED github /\ Elsewhere

-----------------------------------------------------------------------------
People ==
  \/ \E b \in Names : Commit(b)
  \/ \E p \in PR : CloseOrReopen(p) \/ \E b \in Names : Retarget(p, b)

Queue ==
  \/ \E p \in PR : Enqueue(p)
  \/ \E j \in Job : Expire(j) \/ Cancel(j) \/ \E w \in Worker : LeaseNext(w, j)

Step(w) ==
  \/ CheckBase(w) \/ Visit(w) \/ Rebase(w) \/ Ensure(w) \/ Push(w) \/ UpdateBase(w)
  \/ Complete(w) \/ Close(w) \/ LoseLease(w) \/ Fail(w)

Next == People \/ Queue \/ \E w \in Worker : Step(w)

Spec == Init /\ [][Next]_vars

-----------------------------------------------------------------------------
(* Properties. *)

(* No change that people pushed is ever lost from its branch, whoever rewrites the
   branch at the same time: --force-with-lease names the exact head that was rebased
   (rebase_push_argv). *)
WorkSurvives == [][\A b \in Names : Changes(history[b]) \subseteq Changes(history'[b])]_vars

(* "only exact bot_owned_branches entries may use --force-with-lease, and fork heads
   remain read-only" (LEARNINGS.md:12): every other branch only gets commits on top,
   and a fork none from a worker. *)
OnlyOwnedRewritten ==
  [][\A p \in PR :
       /\ p \notin owned => Before(history[p], history'[p])
       /\ p \in fork /\ history'[p] # history[p] => acts' # acts]_vars

(* The stack of a run lies branch on branch. *)
Linear(w) ==
  \A i \in 2..Len(Stack(w).order) :
    Before(history[Stack(w).order[i - 1]], history[Stack(w).order[i]])

(* The plan s puts every pull request on the branch that its own was made on, and the lowest
   is on the main branch. *)
Along(s) ==
  \A i \in DOMAIN s.order :
    /\ Line[s.order[i]] = IF i = 1 THEN s.bases[s.order[1]] ELSE s.order[i - 1]
    /\ i = 1 => Line[s.order[1]] = Main

(* All plans made so far agree on what lies on what, whether the policy declares it or the
   planner infers it from the bases.  Else a run with a plan from before people turned a
   stack around pushes into a run with the plan from after it, which completes all the same;
   and so does a run with the plan of a longer stack whose lowest pull request was closed
   since. *)
InLine == \A j \in Job : status[j] # "absent" => Along(plan[j])

(* "Do not mutate GitHub PR bases until every branch rebase has completed its safety
   checks" (worker.rs): unless people interfered since the run began, the branches lie
   on each other when it changes the first base, even while runs that lost their lease
   push to them. *)
BasesFollowBranches ==
  [][\A w \in Worker :
       InLine /\ In(w, "updating") /\ base' # base /\ run'[w] # run[w]
         /\ run[w].since = acts
         => Linear(w)]_vars

(* A run reports a completed stack only when, unless people interfered, the branches
   and the bases on GitHub are those of the plan. *)
CompletedStackIsLinear ==
  \A w \in Worker :
    InLine /\ In(w, "closing") /\ run[w].outcome = "completed"
      /\ run[w].since = acts =>
      /\ Linear(w)
      /\ \A i \in 2..Len(Stack(w).order) : base[Stack(w).order[i]] = Stack(w).order[i - 1]

(* Only people make a run complain about a base: what an earlier attempt, or a run that
   lost its lease, had already changed is taken for done. *)
OnlyPeopleMoveBases ==
  \A w \in Worker :
    run[w] # None /\ run[w].outcome \in {"blocked by base", "base changed"} => acts > 0

(* The jobs of this module move as the board of jobs promises: there is one open job for
   the tip of a stack, and only who executes it reports (enqueue, mark_succeeded). *)
tipOf == [j \in Job |-> plan[j].tip]
Board == INSTANCE JobBoard
           WITH identity <- tipOf, Identity <- PR, Executor <- Worker
MovesLikeBoard == Board!BoardSpec

=============================================================================
