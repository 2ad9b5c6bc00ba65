------------------------------ MODULE WorkPlan ------------------------------
(***************************************************************************)
(* How a job speaks with people: the Check Run with its three buttons, the *)
(* living comment and the final summary that WorkCoordinator               *)
(* (src/workflow.rs) keeps for a job while execute_job (src/worker.rs)     *)
(* runs it, and the way back of a pressed button, from its delivery        *)
(* through process_check_run_control and job_controls to the queue.        *)
(*                                                                         *)
(* What exists on GitHub and what the store knows of it are different      *)
(* variables: a run may lose its lease, fail or die between a call and the *)
(* write that remembers it.  The queue is seen as JobBoard promises it.    *)
(***************************************************************************)
EXTENDS Integers, Sequences, FiniteSets

CONSTANTS
  Worker,      \* worker processes
  Job,         \* jobs of one pull request, enqueued in the order of their numbers
  Handler,     \* webhook requests at a time
  MaxAttempts, \* jobs.max_attempts
  MaxClicks,   \* bound: buttons pressed
  MaxFaults,   \* bound: calls, requests and processes that fail
  None

ASSUME WorkPlanAssumption ==
  /\ Job \subseteq Nat
  /\ MaxAttempts \in Nat /\ MaxClicks \in Nat /\ MaxFaults \in Nat
  /\ None \notin Worker \union Job \union Nat

VARIABLES
  status, executor,  \* the job board, as in JobBoard
  attempt,   \* jobs.attempt
  checks,    \* Check Runs on GitHub, in the order of their ids
  comments,  \* comments[j]: living comments on GitHub
  summaries, \* summaries[j]: final summaries on GitHub
  link,      \* jobs.check_run_id
  current,   \* jobs.current_item is set
  saved,     \* the work_plan row of the comments table
  run,       \* run[w]: what worker w is doing
  clicks,    \* buttons pressed; the delivery id is the index
  controls,  \* the job_controls table: (job, delivery) pairs
  handler,   \* webhook requests that accepted a control
  effects,   \* history: how often a delivery was taken to the queue
  faults

board == <<status, executor, attempt>>
github == <<checks, comments, summaries>>
store == <<link, current, saved>>
human == <<clicks, controls, handler, effects>>
vars == <<board, github, store, run, human, faults>>

-----------------------------------------------------------------------------
Open == {"queued", "executing", "orphaned", "waiting"}
Settled == {"succeeded", "failed", "cancelled"}
Actions == {"approve-plan", "skip-current-item", "cancel-run"}
CheckRun == [job : Job, completed : BOOLEAN]
CheckId == DOMAIN checks

(* valid: the button is known, who pressed it may, and the delivery names the pull
   request of the job. *)
Click == [check : Nat \ {0}, action : Actions, valid : BOOLEAN]

Phases ==
  {"leased", "creating", "commenting", "linking", "saving", "relinking", "updating",
   "working", "asking", "summarizing", "completing", "closing"}

(* check is WorkHandle.check_run_id; ok is what the job will be marked as. *)
Run == [phase : Phases, job : Job, check : Nat \union {None}, ok : BOOLEAN]

ASSUME NoneIsNoRun == None \notin Run

TypeOK ==
  /\ status \in [Job -> {"absent"} \union Open \union Settled]
  /\ executor \in [Job -> Worker \union {None}]
  /\ attempt \in [Job -> 0..MaxAttempts]
  /\ checks \in Seq(CheckRun)
  /\ comments \in [Job -> Nat] /\ summaries \in [Job -> Nat]
  /\ link \in [Job -> CheckId \union {None}]
  /\ current \in [Job -> BOOLEAN]
  /\ saved \in [Job -> BOOLEAN]
  /\ run \in [Worker -> Run \union {None}]
  /\ clicks \in Seq(Click) /\ Len(clicks) <= MaxClicks
  /\ controls \subseteq Job \X DOMAIN clicks
  /\ handler \in [Handler -> (Job \X DOMAIN clicks) \union {None}]
  /\ effects \in [1..MaxClicks -> Nat]
  /\ faults \in 0..MaxFaults

Init ==
  /\ status = [j \in Job |-> "absent"]
  /\ executor = [j \in Job |-> None]
  /\ attempt = [j \in Job |-> 0]
  /\ checks = <<>>
  /\ comments = [j \in Job |-> 0] /\ summaries = [j \in Job |-> 0]
  /\ link = [j \in Job |-> None]
  /\ current = [j \in Job |-> FALSE]
  /\ saved = [j \in Job |-> FALSE]
  /\ run = [w \in Worker |-> None]
  /\ clicks = <<>> /\ controls = {}
  /\ handler = [h \in Handler |-> None]
  /\ effects = [d \in 1..MaxClicks |-> 0]
  /\ faults = 0

-----------------------------------------------------------------------------
(* The queue. *)

Goes(j, to, w) ==
  /\ status' = [status EXCEPT ![j] = to]
  /\ executor' = [executor EXCEPT ![j] = w]

Untold == UNCHANGED <<github, store, human>>

Enqueue(j) ==
  /\ status[j] = "absent"
  /\ \A k \in Job : k < j => status[k] # "absent"
  /\ Goes(j, "queued", None)
  /\ UNCHANGED <<attempt, run>> /\ Untold

(* Mutated: the attempts are not looked at. *)
LeaseAnyway(w, j) ==
  /\ run[w] = None
  /\ status[j] \in {"queued", "orphaned"}
  /\ Goes(j, "executing", w)
  /\ attempt' = [attempt EXCEPT ![j] = @ + 1]
  /\ run' = [run EXCEPT ![w] = [phase |-> "leased", job |-> j, check |-> None, ok |-> FALSE]]
  /\ Untold

LeaseNext(w, j) ==
  /\ run[w] = None
  /\ status[j] \in {"queued", "orphaned"} /\ attempt[j] < MaxAttempts
  /\ Goes(j, "executing", w)
  /\ attempt' = [attempt EXCEPT ![j] = @ + 1]
  /\ run' = [run EXCEPT ![w] = [phase |-> "leased", job |-> j, check |-> None, ok |-> FALSE]]
  /\ Untold

Expire(j) ==
  /\ status[j] = "executing"
  /\ Goes(j, "orphaned", None)
  /\ UNCHANGED <<attempt, run>> /\ Untold

Exhaust(j) ==
  /\ status[j] \in {"queued", "orphaned"} /\ attempt[j] = MaxAttempts
  /\ Goes(j, "failed", None)
  /\ UNCHANGED <<attempt, run>> /\ Untold

-----------------------------------------------------------------------------
(* A run. *)

In(w, phase) == run[w] # None /\ run[w].phase = phase
HoldsLease(w) == executor[run[w].job] = w
Enters(w, phase) == run' = [run EXCEPT ![w].phase = phase]

(* A failure before there is a handle, or of the finish itself: only the job is
   marked. *)
GivesUp(w) == run' = [run EXCEPT ![w].phase = "closing", ![w].ok = FALSE]

(* ensure_lease and existing_work_handle: both rows have to be there. *)
Begin(w) ==
  LET j == run[w].job IN
  /\ In(w, "leased") /\ HoldsLease(w)
  /\ run' = [run EXCEPT ![w].phase = IF link[j] # None /\ saved[j] THEN "relinking"
                                                                 ELSE "creating",
                        ![w].check = IF saved[j] THEN link[j] ELSE None]
  /\ UNCHANGED <<board, github, store, human>>

CreateCheckRun(w) ==
  /\ In(w, "creating")
  /\ checks' = Append(checks, [job |-> run[w].job, completed |-> FALSE])
  /\ run' = [run EXCEPT ![w].phase = "commenting", ![w].check = Len(checks) + 1]
  /\ UNCHANGED <<board, comments, summaries, store, human>>

CreateComment(w) ==
  /\ In(w, "commenting")
  /\ comments' = [comments EXCEPT ![run[w].job] = @ + 1]
  /\ Enters(w, "linking")
  /\ UNCHANGED <<board, checks, summaries, store, human>>

(* Mutated: a retry leaves the row of the job as it is. *)
LinkNewOnly(w) ==
  /\ In(w, "linking") \/ In(w, "relinking")
  /\ IF In(w, "linking")
     THEN /\ link' = [link EXCEPT ![run[w].job] = run[w].check]
          /\ current' = [current EXCEPT ![run[w].job] = TRUE]
     ELSE UNCHANGED <<link, current>>
  /\ Enters(w, IF In(w, "linking") THEN "saving" ELSE "updating")
  /\ UNCHANGED <<board, github, saved, human>>

(* link_job_check_run: also the current item, which a skip took away. *)
Link(w) ==
  /\ In(w, "linking") \/ In(w, "relinking")
  /\ link' = [link EXCEPT ![run[w].job] = run[w].check]
  /\ current' = [current EXCEPT ![run[w].job] = TRUE]
  /\ Enters(w, IF In(w, "linking") THEN "saving" ELSE "updating")
  /\ UNCHANGED <<board, github, saved, human>>

(* upsert_living_comment, after the comment was created or updated. *)
SaveComment(w) ==
  /\ In(w, "saving") \/ In(w, "updating")
  /\ saved' = [saved EXCEPT ![run[w].job] = TRUE]
  /\ Enters(w, "working")
  /\ UNCHANGED <<board, github, link, current, human>>

(* The work is done, has failed, or needs an approval; ensure_lease comes before
   anything is said about it. *)
Work(w) ==
  /\ In(w, "working") /\ HoldsLease(w)
  /\ \/ Enters(w, "asking")
     \/ \E ok \in BOOLEAN : run' = [run EXCEPT ![w].phase = "summarizing", ![w].ok = ok]
  /\ UNCHANGED <<board, github, store, human>>

(* update_progress_with_approval shows the fingerprint, then mark_waiting_approval. *)
MarkWaiting(w) ==
  /\ In(w, "asking")
  /\ IF HoldsLease(w) THEN Goes(run[w].job, "waiting", None)
                      ELSE UNCHANGED <<status, executor>>
  /\ run' = [run EXCEPT ![w] = None]
  /\ UNCHANGED attempt /\ Untold

(* Mutated: a retry that finds a summary takes the report for done. *)
SummarizeOnce(w) ==
  /\ In(w, "summarizing")
  /\ summaries' = [summaries EXCEPT ![run[w].job] = @ + 1]
  /\ Enters(w, IF summaries[run[w].job] > 0 THEN "closing" ELSE "completing")
  /\ UNCHANGED <<board, checks, comments, store, human>>

(* The summary is posted; the answer of insert_final_comment is not looked at. *)
Summarize(w) ==
  /\ In(w, "summarizing")
  /\ summaries' = [summaries EXCEPT ![run[w].job] = @ + 1]
  /\ Enters(w, "completing")
  /\ UNCHANGED <<board, checks, comments, store, human>>

(* update_check_run: completed, without buttons. *)
Complete(w) ==
  /\ In(w, "completing")
  /\ checks' = [checks EXCEPT ![run[w].check].completed = TRUE]
  /\ Enters(w, "closing")
  /\ UNCHANGED <<board, comments, summaries, store, human>>

(* Mutated: the mark is written without the lease in its condition. *)
CloseAnyway(w) ==
  /\ In(w, "closing")
  /\ Goes(run[w].job, IF run[w].ok THEN "succeeded" ELSE "failed", None)
  /\ run' = [run EXCEPT ![w] = None]
  /\ UNCHANGED attempt /\ Untold

(* mark_succeeded or mark_failed. *)
Close(w) ==
  /\ In(w, "closing")
  /\ IF HoldsLease(w) THEN Goes(run[w].job, IF run[w].ok THEN "succeeded" ELSE "failed", None)
                      ELSE UNCHANGED <<status, executor>>
  /\ run' = [run EXCEPT ![w] = None]
  /\ UNCHANGED attempt /\ Untold

(* ensure_lease finds the lease gone: the run ends, and its mark has no effect. *)
LoseLease(w) ==
  /\ run[w] # None /\ run[w].phase \in {"leased", "working"} /\ ~HoldsLease(w)
  /\ run' = [run EXCEPT ![w] = None]
  /\ UNCHANGED board /\ Untold

(* A call to GitHub fails, before it had its effect or when it had. *)
Fails(w) ==
  /\ run[w] # None
  /\ \/ /\ run[w].phase \in Phases \ {"working", "closing"}
        /\ GivesUp(w) /\ UNCHANGED github
     \/ /\ In(w, "creating") /\ GivesUp(w)
        /\ checks' = Append(checks, [job |-> run[w].job, completed |-> FALSE])
        /\ UNCHANGED <<comments, summaries>>
     \/ /\ In(w, "commenting") /\ GivesUp(w)
        /\ comments' = [comments EXCEPT ![run[w].job] = @ + 1]
        /\ UNCHANGED <<checks, summaries>>
     \/ /\ In(w, "summarizing") /\ GivesUp(w)
        /\ summaries' = [summaries EXCEPT ![run[w].job] = @ + 1]
        /\ UNCHANGED <<checks, comments>>
     \/ /\ In(w, "completing") /\ GivesUp(w)
        /\ checks' = [checks EXCEPT ![run[w].check].completed = TRUE]
        /\ UNCHANGED <<comments, summaries>>
  /\ UNCHANGED <<board, store, human>>

Die(w) ==
  /\ run[w] # None
  /\ run' = [run EXCEPT ![w] = None]
  /\ UNCHANGED board /\ Untold

-----------------------------------------------------------------------------
(* A button. *)

Press ==
  /\ Len(clicks) < MaxClicks
  /\ \E c \in CheckId, a \in Actions, valid \in BOOLEAN :
       /\ ~checks[c].completed
       /\ clicks' = Append(clicks, [check |-> c, action |-> a, valid |-> valid])
  /\ UNCHANGED <<board, github, store, run, controls, handler, effects>>

(* control_context: the job whose row has the Check Run. *)
ControlContext(check) == {j \in Job : link[j] = check}

(* Mutated: the answer of record_job_control is not looked at. *)
ControlAnyway(h, d) ==
  /\ handler[h] = None /\ d \in DOMAIN clicks
  /\ \E j \in ControlContext(clicks[d].check) :
       /\ controls' = controls \union {<<j, d>>}
       /\ handler' = [handler EXCEPT ![h] = IF clicks[d].valid THEN <<j, d>> ELSE None]
  /\ UNCHANGED <<board, github, store, run, clicks, effects>>

(* Mutated: a refused control is handed on like an accepted one. *)
ControlFromAnyone(h, d) ==
  /\ handler[h] = None /\ d \in DOMAIN clicks
  /\ \E j \in ControlContext(clicks[d].check) :
       /\ <<j, d>> \notin controls
       /\ controls' = controls \union {<<j, d>>}
       /\ handler' = [handler EXCEPT ![h] = <<j, d>>]
  /\ UNCHANGED <<board, github, store, run, clicks, effects>>

(* process_check_run_control up to record_job_control; an unknown Check Run leaves
   no trace.  A delivery may come any number of times. *)
Control(h, d) ==
  /\ handler[h] = None /\ d \in DOMAIN clicks
  /\ \E j \in ControlContext(clicks[d].check) :
       /\ <<j, d>> \notin controls
       /\ controls' = controls \union {<<j, d>>}
       /\ handler' = [handler EXCEPT ![h] = IF clicks[d].valid THEN <<j, d>> ELSE None]
  /\ UNCHANGED <<board, github, store, run, clicks, effects>>

(* What the queue does with it: approve_plan when the approval details have the form
   it asks for, skip_current_item, request_cancel. *)
Obey(j, action) ==
  \/ /\ action = "approve-plan" /\ status[j] = "waiting"
     /\ Goes(j, "queued", None) /\ UNCHANGED <<attempt, current>>
  \/ /\ action = "skip-current-item" /\ status[j] \in {"executing", "orphaned", "waiting"}
     /\ current[j]
     /\ Goes(j, "queued", None)
     /\ current' = [current EXCEPT ![j] = FALSE]
     /\ attempt' = [attempt EXCEPT ![j] = IF @ > 0 THEN @ - 1 ELSE 0]
  \/ /\ action = "cancel-run" /\ status[j] \in Open
     /\ Goes(j, "cancelled", None) /\ UNCHANGED <<attempt, current>>

Applies(j, action) ==
  \/ action = "skip-current-item" /\ status[j] \in {"executing", "orphaned", "waiting"}
     /\ current[j]
  \/ action = "cancel-run" /\ status[j] \in Open

Take(h) ==
  /\ handler[h] # None
  /\ LET j == handler[h][1]
         d == handler[h][2]
         action == clicks[d].action
     IN /\ \/ Obey(j, action)
           \/ ~Applies(j, action) /\ UNCHANGED <<board, current>>
        /\ effects' = [effects EXCEPT ![d] = @ + 1]
  /\ handler' = [handler EXCEPT ![h] = None]
  /\ UNCHANGED <<github, link, saved, run, clicks, controls>>

(* The request breaks off after the control was recorded. *)
Break(h) ==
  /\ handler[h] # None
  /\ handler' = [handler EXCEPT ![h] = None]
  /\ UNCHANGED <<board, github, store, run, clicks, controls, effects>>

-----------------------------------------------------------------------------
Queue ==
  \/ \E j \in Job : Enqueue(j) \/ Expire(j) \/ Exhaust(j)
  \/ \E w \in Worker, j \in Job : LeaseNext(w, j)

Step(w) ==
  \/ Begin(w) \/ CreateCheckRun(w) \/ CreateComment(w) \/ Link(w) \/ SaveComment(w)
  \/ Work(w) \/ MarkWaiting(w) \/ Summarize(w) \/ Complete(w)
  \/ Close(w) \/ LoseLease(w)

People == Press \/ \E h \in Handler : Take(h) \/ \E d \in DOMAIN clicks : Control(h, d)

Fault ==
  /\ faults < MaxFaults /\ faults' = faults + 1
  /\ \/ \E w \in Worker : Fails(w) \/ Die(w)
     \/ \E h \in Handler : Break(h)

Next ==
  \/ UNCHANGED faults /\ (Queue \/ People \/ \E w \in Worker : Step(w))
  \/ Fault

Spec == Init /\ [][Next]_vars

-----------------------------------------------------------------------------
(* Properties. *)

(* A pressed button reaches the queue at most once, however often its delivery
   comes and however many requests work on it: record_job_control decides. *)
ControlCountsOnce == \A d \in DOMAIN effects : effects[d] <= 1

(* A button changes only the job whose plan its Check Run shows, and only when who
   pressed it may (control_context, is_authorized), whatever runs have created and
   lost before. *)
ControlHitsShownJob ==
  [][\A h \in Handler, j \in Job :
       handler[h] # None /\ handler'[h] = None /\ status'[j] # status[j] =>
         LET click == clicks[handler[h][2]] IN
           click.valid /\ checks[click.check].job = j]_vars

(* A job that waits for people has what they need to answer: a Check Run that leads
   back to it, a comment, and an item to skip (start before mark_waiting_approval). *)
WaitingCanBeAnswered ==
  \A j \in Job :
    status[j] = "waiting" =>
      /\ link[j] # None /\ checks[link[j]].job = j
      /\ saved[j] /\ comments[j] > 0 /\ current[j]

(* A job is counted as succeeded only after its summary was posted and one of its
   Check Runs was completed, in this run or an earlier one (finish before
   mark_succeeded). *)
SucceededIsReported ==
  \A j \in Job :
    status[j] = "succeeded" =>
      summaries[j] > 0 /\ \E c \in CheckId : checks[c].job = j /\ checks[c].completed

(* What happens to a job is what the board of JobBoard allows, although buttons, the
   reaper and runs that lost their lease all move it. *)
identity == [j \in Job |-> IF status[j] = "absent" THEN None ELSE j]
Board == INSTANCE JobBoard WITH Identity <- Job, Executor <- Worker
MovesLikeBoard == Board!BoardSpec

=============================================================================
