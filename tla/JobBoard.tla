------------------------------ MODULE JobBoard ------------------------------
(***************************************************************************)
(* What the durable job queue promises, with no leases, tokens, clocks or  *)
(* SQL: a board of jobs.  A job is submitted under an identity (pull       *)
(* request, kind), is executed by one worker at a time, may be handed back *)
(* or orphaned, and once it is settled it never moves again.  JobQueue is  *)
(* shown to implement this module.                                         *)
(***************************************************************************)
CONSTANTS
  Job,       \* names of the jobs the board can hold
  Identity,  \* what makes two jobs the same logical work
  Executor,  \* those who may execute a job
  None       \* no identity, no executor

VARIABLES
  status,    \* status[j]: where job j stands
  identity,  \* identity[j]: the work j stands for, None before it is submitted
  executor   \* executor[j]: who executes j, None when nobody does

boardVars == <<status, identity, executor>>

Settled == {"succeeded", "failed", "cancelled"}
Open == {"queued", "executing", "orphaned", "waiting"}
Status == {"absent"} \union Open \union Settled

BoardInit ==
  /\ status = [j \in Job |-> "absent"]
  /\ identity = [j \in Job |-> None]
  /\ executor = [j \in Job |-> None]

Goes(j, from, to) == status[j] \in from /\ status'[j] = to

Keep(j) == status'[j] = status[j] /\ executor'[j] = executor[j]

(* A job is submitted only while no open job has its identity. *)
Submit(j) ==
  /\ Goes(j, {"absent"}, "queued")
  /\ executor'[j] = None
  /\ identity'[j] \in Identity
  /\ \A k \in Job : status[k] \in Open => identity[k] # identity'[j]

(* Only a job nobody executes can be started. *)
Start(j) == Goes(j, {"queued", "orphaned"}, "executing") /\ executor'[j] \in Executor

(* The executor goes silent for too long. *)
Orphan(j) == Goes(j, {"executing"}, "orphaned") /\ executor'[j] = None

(* Success, and a question to a human, come only from the executor. *)
Report(j) ==
  /\ \/ Goes(j, {"executing"}, "succeeded")
     \/ Goes(j, {"executing"}, "waiting")
  /\ executor'[j] = None

(* Failure comes from the executor, or when a job nobody executes has used
   up its attempts. *)
Fail(j) == Goes(j, {"executing", "queued", "orphaned"}, "failed") /\ executor'[j] = None

(* A human approves, or skips the current item. *)
Requeue(j) == Goes(j, {"executing", "orphaned", "waiting"}, "queued") /\ executor'[j] = None

Cancel(j) == Goes(j, Open, "cancelled") /\ executor'[j] = None

Move(j) ==
  \/ Submit(j)
  \/ /\ \/ Keep(j) \/ Start(j) \/ Orphan(j) \/ Report(j)
        \/ Fail(j) \/ Requeue(j) \/ Cancel(j)
     /\ identity'[j] = identity[j]

(* One statement may move several jobs (a sweep, a bulk cancel); at most one
   of them is a submission. *)
BoardNext ==
  /\ \A j \in Job : Move(j)
  /\ \A j, k \in Job : Submit(j) /\ Submit(k) => j = k

BoardSpec == BoardInit /\ [][BoardNext]_boardVars

=============================================================================
