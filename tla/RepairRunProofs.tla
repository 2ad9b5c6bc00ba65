--------------------------- MODULE RepairRunProofs ---------------------------
(***************************************************************************)
(* Theorems about RepairRun, for every value of its constants.             *)
(***************************************************************************)
EXTENDS RepairRun, SequenceTheorems, TLAPS

-----------------------------------------------------------------------------
(* The inductive invariant.  First the job board, and the plans on it. *)

(* Only a job that is executing has an executor. *)
ExecutorExecutes == \A j \in Job : executor[j] # None => status[j] = "executing"

(* A plan that was not made is approved by nobody; only a ci_repair holds the patch. *)
PlansOK ==
  \A j \in Job :
    /\ status[j] = "absent" => ~plan[j].approved
    /\ CiPatch \in plan[j].items => plan[j].kind = "ci_repair"

(* What a run may rely on, by how far it is. *)
OnItem == {"checking", "applying", "staged", "committed", "pushing"}
Admitted == OnItem \ {"checking"}
Built == {"staged", "committed", "pushing"}
Publishing == {"answering", "replying", "answered", "resolving", "marking"}
Said == {"answered", "resolving", "marking"}
Calling == {"pushing", "replying", "resolving"}
Reporting == {"summing", "concluding", "settling"}

(* Its job was submitted, and its item is one of the plan. *)
RunHasJob(w) ==
  /\ run[w].phase # "idle" => run[w].job \in Job /\ status[run[w].job] # "absent"
  /\ run[w].phase \in OnItem => run[w].item \in plan[run[w].job].items

(* From the admission on, a CI patch has its approval. *)
RunIsAdmitted(w) ==
  run[w].phase \in Admitted /\ run[w].item = CiPatch =>
    plan[run[w].job].kind = "ci_repair" /\ plan[run[w].job].approved

(* What it built is one commit on the head it read. *)
RunIsBuilt(w) ==
  run[w].phase \in Built =>
    run[w].local = Append(run[w].head, [by |-> w, what |-> run[w].item])

(* What it is about to say is true, and what it is about to mark was said. *)
RunIsHonest(w) ==
  /\ run[w].phase \in Publishing =>
       run[w].item \in Suggestion /\ (Verdict(run[w]) = "applied" => run[w].item \in landed)
  /\ run[w].phase \in Said => Verdict(run[w]) \in said[run[w].item]
  /\ run[w].phase = "marking" /\ run[w].item \in Threaded => run[w].item \in resolved

(* What it is about to report is an outcome. *)
RunHasEnd(w) == run[w].phase \in Reporting => run[w].ends # None

(* After a late call to the branch or a thread it is not before another one, and cannot
   ask for its lease, without which it does not come to its report. *)
RunIsLateOnce(w) ==
  /\ run[w].phase \notin Reporting =>
       /\ run[w].late <= 1
       /\ run[w].late = 1 => ~HoldsLease(w) /\ run[w].phase \notin Calling
  /\ run[w].phase = "summing" => run[w].late = 0
  /\ run[w].phase = "concluding" => run[w].late <= 1
  /\ run[w].phase = "settling" => run[w].late <= 2

RunOK(w) ==
  RunHasJob(w) /\ RunIsAdmitted(w) /\ RunIsBuilt(w) /\ RunIsHonest(w) /\ RunHasEnd(w)
  /\ RunIsLateOnce(w)
RunsOK == \A w \in Worker : RunOK(w)

TypeInv == TypeOK /\ PlansOK /\ RunsOK

-----------------------------------------------------------------------------
(* Records of runs. *)

LEMMA NoRunType == NoRun \in Run
BY DEF NoRun, Run, Phases, History

(* What a run keeps when it enters a phase. *)
LEMMA EnteredFields ==
  ASSUME NEW r \in Run, NEW phase \in Phases
  PROVE  LET n == Entered(r, phase) IN
         /\ n \in Run /\ n.phase = phase /\ n.job = r.job /\ n.late = r.late
         /\ phase \notin {"closing", "failing"} => n.item = r.item /\ n.verdict = r.verdict
         /\ phase \in OnItem => n.head = r.head /\ n.local = r.local
         /\ n.head = r.head \/ n.head = <<>>
<1>0. <<>> \in History
  BY DEF History
<1>1. CASE phase \in {"closing", "failing"}
  <2>1. Entered(r, phase) = [NoRun EXCEPT !.phase = phase, !.job = r.job, !.late = r.late]
    BY <1>1 DEF Entered
  <2> QED
    BY <1>0, <1>1, <2>1 DEF NoRun, Run, OnItem
<1>2. CASE phase \in Publishing
  <2>1. Entered(r, phase) = [r EXCEPT !.phase = phase, !.head = <<>>, !.local = <<>>]
    BY <1>2 DEF Entered, Publishing
  <2> QED
    BY <1>0, <1>2, <2>1 DEF Run, OnItem, Publishing
<1>3. CASE phase \notin {"closing", "failing"} \union Publishing
  <2>1. Entered(r, phase) = [r EXCEPT !.phase = phase]
    BY <1>3 DEF Entered, Publishing
  <2> QED
    BY <1>3, <2>1 DEF Run
<1> QED
  BY <1>1, <1>2, <1>3

(* A call that reached GitHub counts when the lease was gone. *)
LEMMA CalledFields ==
  ASSUME TypeOK, NEW w \in Worker, NEW next \in Phases, Called(w, next)
  PROVE  \E n \in Run :
           /\ run' = [run EXCEPT ![w] = n]
           /\ n.phase \in {next, "failing"} /\ n.job = run[w].job
           /\ HoldsLease(w) => n.late = run[w].late
           /\ ~HoldsLease(w) => n.late = run[w].late + 1
           /\ n.phase # "failing" /\ next # "closing" =>
                n.item = run[w].item /\ n.verdict = run[w].verdict
           /\ n.head = run[w].head \/ n.head = <<>>
<1> DEFINE r == [run[w] EXCEPT !.late = IF HoldsLease(w) THEN @ ELSE @ + 1]
<1>1. run[w] \in Run
  BY DEF TypeOK
<1>2. /\ r \in Run /\ r.job = run[w].job /\ r.item = run[w].item
      /\ r.verdict = run[w].verdict /\ r.head = run[w].head
      /\ HoldsLease(w) => r.late = run[w].late
      /\ ~HoldsLease(w) => r.late = run[w].late + 1
  BY <1>1 DEF Run
<1>3. PICK phase \in {next, "failing"} : run' = [run EXCEPT ![w] = Entered(r, phase)]
  BY DEF Called
<1>4. phase \in Phases
  BY DEF Phases
<1> HIDE DEF r
<1> DEFINE n == Entered(r, phase)
<1>5. /\ n \in Run /\ n.phase = phase /\ n.job = r.job /\ n.late = r.late
      /\ phase \notin {"closing", "failing"} => n.item = r.item /\ n.verdict = r.verdict
      /\ n.head = r.head \/ n.head = <<>>
  BY <1>2, <1>4, EnteredFields
<1> HIDE DEF n
<1> QED
  BY <1>2, <1>3, <1>5 DEF n

-----------------------------------------------------------------------------
(* The job board and the plans. *)

(* What no step does to the plan of a job that was submitted. *)
PlansGrow ==
  \A j \in Job : status[j] # "absent" =>
    /\ status'[j] # "absent"
    /\ plan'[j].items = plan[j].items /\ plan'[j].kind = plan[j].kind
    /\ plan[j].approved => plan'[j].approved

BoardType ==
  /\ status \in [Job -> {"absent"} \union Open \union Settled]
  /\ executor \in [Job -> Worker \union {None}]
  /\ plan \in [Job -> Plan]

LEMMA GoesMoves ==
  ASSUME TypeOK, PlansOK, NEW j \in Job, NEW to \in Open \union Settled,
         NEW w \in Worker \union {None}, Goes(j, to, w), NEW p \in Plan,
         plan' = [plan EXCEPT ![j] = p],
         CiPatch \in p.items => p.kind = "ci_repair",
         status[j] # "absent" =>
           /\ p.items = plan[j].items /\ p.kind = plan[j].kind
           /\ plan[j].approved => p.approved
  PROVE  BoardType' /\ PlansOK' /\ PlansGrow
<1>1. /\ status'[j] = to /\ plan'[j] = p
      /\ \A k \in Job \ {j} : status'[k] = status[k] /\ plan'[k] = plan[k]
  BY DEF TypeOK, Goes
<1>2. BoardType'
  BY DEF TypeOK, Goes, BoardType
<1>3. to # "absent"
  BY DEF Open, Settled
<1> QED
  BY <1>1, <1>2, <1>3 DEF PlansOK, PlansGrow

LEMMA GoesKeepsPlan ==
  ASSUME TypeOK, PlansOK, NEW j \in Job, NEW to \in Open \union Settled,
         NEW w \in Worker \union {None}, Goes(j, to, w), UNCHANGED plan
  PROVE  BoardType' /\ PlansOK' /\ PlansGrow
<1>1. plan[j] \in Plan /\ plan' = [plan EXCEPT ![j] = plan[j]]
  BY DEF TypeOK
<1> QED
  BY <1>1, GoesMoves DEF PlansOK

LEMMA EnqueueMoves ==
  ASSUME TypeOK, PlansOK, NEW kind \in Kinds, NEW items \in SUBSET Item, Enqueue(kind, items),
         CiPatch \in items => kind = "ci_repair"
  PROVE  BoardType' /\ PlansOK' /\ PlansGrow
<1> DEFINE p == [kind |-> kind, items |-> items, skipped |-> {}, approved |-> FALSE,
                 attempt |-> 0]
<1>1. p \in Plan
  BY DEF Plan
<1>2. PICK j \in Job : status[j] = "absent" /\ Goes(j, "queued", None)
                       /\ plan' = [plan EXCEPT ![j] = p]
  BY DEF Enqueue
<1>3. p.items = items /\ p.kind = kind
  OBVIOUS
<1>4. "queued" \in Open
  BY DEF Open
<1> HIDE DEF p
<1> QED
  BY <1>1, <1>2, <1>3, <1>4, GoesMoves

LEMMA BoardUnchanged ==
  ASSUME TypeOK, PlansOK, UNCHANGED <<board, plan>>
  PROVE  BoardType' /\ PlansOK' /\ PlansGrow
BY DEF TypeOK, PlansOK, PlansGrow, BoardType, board

(* A run that settles its job has an outcome for it. *)
LEMMA SettlesEnded ==
  ASSUME TypeInv, NEW w \in Worker, run[w].phase = "settling"
  PROVE  run[w].ends \in Settled
<1>1. run[w] \in Run /\ run[w].ends # None
  BY DEF TypeInv, TypeOK, RunsOK, RunOK, RunHasEnd, Reporting
<1> QED
  BY <1>1 DEF Run, Settled

(* Every step. *)
LEMMA BoardStep ==
  ASSUME TypeInv, [Next]_vars
  PROVE  BoardType' /\ PlansOK' /\ PlansGrow
<1> DEFINE Goal == BoardType' /\ PlansOK' /\ PlansGrow
<1>1. TypeOK /\ PlansOK
  BY DEF TypeInv
<1>2. CASE UNCHANGED <<board, plan>>
  BY <1>1, <1>2, BoardUnchanged
<1>3. CASE ReconcileActs
  <2>1. CiPatch \in Item /\ CiPatch \notin Suggestion /\ Suggestion \subseteq Item
    BY RepairRunAssumption DEF Item
  <2>2. seen \in SUBSET Suggestion
    BY <1>1, <1>3 DEF TypeOK, ReconcileActs
  <2>3. CASE Enqueue("feedback_repair", seen)
    <3>1. seen \in SUBSET Item /\ CiPatch \notin seen /\ "feedback_repair" \in Kinds
      BY <2>1, <2>2 DEF Kinds
    <3> QED
      BY <1>1, <2>3, <3>1, EnqueueMoves
  <2>4. CASE Enqueue("ci_repair", {CiPatch})
    <3>1. {CiPatch} \in SUBSET Item /\ "ci_repair" \in Kinds
      BY <2>1 DEF Kinds
    <3> QED
      BY <1>1, <2>4, <3>1, EnqueueMoves
  <2> QED
    BY <1>2, <1>3, <2>3, <2>4 DEF ReconcileActs
<1>4. ASSUME NEW j \in Job, Expire(j) \/ Cancel(j) PROVE Goal
  <2>1. \E to \in Open \union Settled : Goes(j, to, None) /\ UNCHANGED plan
    BY <1>4 DEF Expire, Cancel, Open, Settled
  <2> QED
    BY <1>1, <2>1, GoesKeepsPlan
<1>5. ASSUME NEW j \in Job, Skip(j) PROVE Goal
  <2>1. PICK i \in plan[j].items :
          plan' = [plan EXCEPT ![j].skipped = @ \union {i},
                               ![j].attempt = IF @ > 0 THEN @ - 1 ELSE 0]
    BY <1>5 DEF Skip
  <2> DEFINE skipped == plan[j].skipped \union {i}
             attempt == IF plan[j].attempt > 0 THEN plan[j].attempt - 1 ELSE 0
             p == [plan[j] EXCEPT !.skipped = skipped, !.attempt = attempt]
  <2>2. plan[j] \in Plan
    BY <1>1 DEF TypeOK
  <2>3. skipped \in SUBSET Item /\ attempt \in Nat
    BY <2>1, <2>2 DEF Plan
  <2>4. plan' = [plan EXCEPT ![j] = p]
    BY <1>1, <2>1 DEF TypeOK
  <2> HIDE DEF skipped, attempt
  <2>6. p \in Plan /\ p.items = plan[j].items /\ p.kind = plan[j].kind
          /\ p.approved = plan[j].approved
    BY <2>2, <2>3 DEF Plan
  <2>5. "queued" \in Open
    BY DEF Open
  <2> HIDE DEF p
  <2> QED
    BY <1>1, <1>5, <2>4, <2>5, <2>6, GoesMoves DEF Skip, PlansOK
<1>6. ASSUME NEW j \in Job, Approve(j) PROVE Goal
  <2> DEFINE p == [plan[j] EXCEPT !.approved = TRUE]
  <2>1. plan[j] \in Plan
    BY <1>1 DEF TypeOK
  <2>2. p \in Plan /\ p.items = plan[j].items /\ p.kind = plan[j].kind /\ p.approved
    BY <2>1 DEF Plan
  <2>3. plan' = [plan EXCEPT ![j] = p]
    BY <1>1, <1>6 DEF TypeOK, Approve
  <2>4. "queued" \in Open
    BY DEF Open
  <2> HIDE DEF p
  <2> QED
    BY <1>1, <1>6, <2>2, <2>3, <2>4, GoesMoves DEF Approve, PlansOK
<1>7. ASSUME NEW w \in Worker, NEW j \in Job, Start(w, j) PROVE Goal
  <2> DEFINE p == [plan[j] EXCEPT !.attempt = @ + 1]
  <2>1. plan[j] \in Plan
    BY <1>1 DEF TypeOK
  <2>2. p \in Plan /\ p.items = plan[j].items /\ p.kind = plan[j].kind
          /\ p.approved = plan[j].approved
    BY <2>1 DEF Plan
  <2>3. plan' = [plan EXCEPT ![j] = p]
    BY <1>1, <1>7 DEF TypeOK, Start
  <2>4. "executing" \in Open
    BY DEF Open
  <2> HIDE DEF p
  <2> QED
    BY <1>1, <1>7, <2>2, <2>3, <2>4, GoesMoves DEF Start, PlansOK
<1>8. ASSUME NEW w \in Worker, Park(w) \/ Settle(w) PROVE Goal
  <2>1. run[w].job \in Job
    BY <1>8 DEF TypeInv, RunsOK, RunOK, RunHasJob, Park, Settle
  <2>2. \E to \in Open \union Settled : Goes(run[w].job, to, None) /\ UNCHANGED plan
    BY <1>8, SettlesEnded DEF Park, Settle, Open
  <2> QED
    BY <1>1, <2>1, <2>2, GoesKeepsPlan
<1>9. ASSUME NEW w \in Worker, Step(w) PROVE Goal
  <2>1. CASE \/ ReadPlan(w) \/ NoPatch(w) \/ CheckHead(w) \/ Apply(w) \/ Verify(w) \/ Ensure(w)
             \/ Mark(w) \/ Report(w) \/ Finish(w) \/ Fails(w) \/ Die(w)
    BY <1>2, <2>1 DEF ReadPlan, NoPatch, CheckHead, Apply, Verify, Ensure, Mark, Report, Finish,
                      Fails, Die, Elsewhere
  <2>2. CASE Push(w) \/ Reply(w) \/ Resolve(w)
    BY <1>2, <2>2 DEF Push, Reply, Resolve
  <2> QED
    BY <1>7, <1>8, <1>9, <2>1, <2>2 DEF Step
<1>10. CASE Others
  BY <1>2, <1>3, <1>4, <1>5, <1>6, <1>10
     DEF Others, ReconcileReads, WebhookMovesHead, UserPushes, UserDrops
<1> QED
  BY <1>2, <1>9, <1>10 DEF Next, vars

-----------------------------------------------------------------------------
(* Runs. *)

(* What was pushed, said or resolved stays so. *)
HistoryGrows ==
  /\ landed \subseteq landed' /\ resolved \subseteq resolved'
  /\ \A i \in Suggestion : said[i] \subseteq said'[i]

(* The other workers do not make a run rely on what no longer holds. *)
LEMMA RunKept ==
  ASSUME TypeInv, PlansGrow, HistoryGrows, NEW v \in Worker, run'[v] = run[v],
         HoldsLease(v)' => HoldsLease(v)
  PROVE  RunOK(v)'
<1>1. RunOK(v)
  BY DEF TypeInv, RunsOK
<1>2. RunHasJob(v)'
  <2>1. run[v].phase # "idle" => run[v].job \in Job /\ status[run[v].job] # "absent"
    BY <1>1 DEF RunOK, RunHasJob
  <2>2. run[v].phase \in OnItem => run[v].item \in plan[run[v].job].items
    BY <1>1 DEF RunOK, RunHasJob
  <2> QED
    BY <2>1, <2>2 DEF RunHasJob, PlansGrow, OnItem
<1>3. RunIsAdmitted(v)'
  <2>1. run[v].phase \in Admitted =>
          run[v].job \in Job /\ status[run[v].job] # "absent"
    BY <1>1 DEF RunOK, RunHasJob, Admitted, OnItem
  <2> QED
    BY <1>1, <2>1 DEF RunOK, RunIsAdmitted, PlansGrow
<1>4. RunIsBuilt(v)'
  BY <1>1 DEF RunOK, RunIsBuilt
<1>5. RunIsHonest(v)'
  <2>1. run[v].phase \in Said => run[v].phase \in Publishing
    BY DEF Said, Publishing
  <2> QED
    BY <1>1, <2>1 DEF RunOK, RunIsHonest, HistoryGrows, Verdict
<1>6. RunHasEnd(v)' /\ RunIsLateOnce(v)'
  BY <1>1 DEF RunOK, RunHasEnd, RunIsLateOnce
<1> QED
  BY <1>2, <1>3, <1>4, <1>5, <1>6 DEF RunOK

LEMMA RunEnds ==
  ASSUME NEW w \in Worker, run'[w] = NoRun
  PROVE  RunOK(w)'
BY DEF RunOK, RunHasJob, RunIsAdmitted, RunIsBuilt, RunIsHonest, RunHasEnd, RunIsLateOnce,
       NoRun, OnItem, Admitted, Built, Publishing, Said, Reporting

(* A run comes before a call only with its lease, and after a call it is before none. *)
LEMMA RunLate ==
  ASSUME TypeInv, NEW w \in Worker, NEW n \in Run, run'[w] = n, n.job = run[w].job,
         UNCHANGED executor, run[w].phase \notin Reporting, n.phase \notin Reporting,
         \/ n.late = run[w].late /\ (n.phase \in Calling => HoldsLease(w))
         \/ /\ n.late = run[w].late + 1 /\ ~HoldsLease(w)
            /\ run[w].phase \in Calling /\ n.phase \notin Calling
  PROVE  RunIsLateOnce(w)'
<1>1. RunIsLateOnce(w) /\ run[w].late \in Nat
  BY DEF TypeInv, RunsOK, RunOK, TypeOK, Run
<1>2. HoldsLease(w)' <=> HoldsLease(w)
  BY DEF HoldsLease
<1>3. CASE n.late = run[w].late /\ (n.phase \in Calling => HoldsLease(w))
  BY <1>1, <1>2, <1>3 DEF RunIsLateOnce, Reporting
<1>4. CASE /\ n.late = run[w].late + 1 /\ ~HoldsLease(w)
           /\ run[w].phase \in Calling /\ n.phase \notin Calling
  BY <1>1, <1>2, <1>4 DEF RunIsLateOnce, Reporting
<1> QED
  BY <1>3, <1>4

(* Before the mark comes the end. *)
LEMMA RunCloses ==
  ASSUME TypeInv, PlansGrow, NEW w \in Worker, NEW n \in Run, run'[w] = n,
         n.phase \in {"closing", "failing"} \union Reporting, n.job = run[w].job,
         run[w].phase # "idle", n.phase \in Reporting => n.ends # None,
         RunIsLateOnce(w)'
  PROVE  RunOK(w)'
<1>1. run[w].job \in Job /\ status[run[w].job] # "absent"
  BY DEF TypeInv, RunsOK, RunOK, RunHasJob
<1> QED
  BY <1>1 DEF RunOK, RunHasJob, RunIsAdmitted, RunIsBuilt, RunIsHonest, RunHasEnd, PlansGrow,
              OnItem, Admitted, Built, Publishing, Said, Reporting

(* On the way to the push. *)
LEMMA RunGoesOn ==
  ASSUME TypeInv, PlansGrow, NEW w \in Worker, NEW n \in Run, run'[w] = n,
         n.phase \in OnItem, n.job = run[w].job, run[w].phase # "idle",
         n.item \in plan[n.job].items,
         n.phase \in Admitted /\ n.item = CiPatch =>
           plan[n.job].kind = "ci_repair" /\ plan[n.job].approved,
         n.phase \in Built => n.local = Append(n.head, [by |-> w, what |-> n.item]),
         RunIsLateOnce(w)'
  PROVE  RunOK(w)'
<1>1. run[w].job \in Job /\ status[run[w].job] # "absent"
  BY DEF TypeInv, RunsOK, RunOK, RunHasJob
<1>2. RunHasJob(w)' /\ RunIsAdmitted(w)' /\ RunIsBuilt(w)'
  BY <1>1 DEF RunHasJob, RunIsAdmitted, RunIsBuilt, PlansGrow
<1>3. RunIsHonest(w)' /\ RunHasEnd(w)'
  BY DEF RunIsHonest, RunHasEnd, OnItem, Publishing, Said, Reporting
<1> QED
  BY <1>2, <1>3 DEF RunOK

(* And from there to the mark. *)
LEMMA RunPublishes ==
  ASSUME TypeInv, PlansGrow, NEW w \in Worker, NEW n \in Run, run'[w] = n,
         n.phase \in Publishing, n.job = run[w].job, run[w].phase # "idle",
         n.item \in Suggestion, Verdict(n) = "applied" => n.item \in landed',
         n.phase \in Said => Verdict(n) \in said'[n.item],
         n.phase = "marking" /\ n.item \in Threaded => n.item \in resolved',
         RunIsLateOnce(w)'
  PROVE  RunOK(w)'
<1>1. run[w].job \in Job /\ status[run[w].job] # "absent"
  BY DEF TypeInv, RunsOK, RunOK, RunHasJob
<1>2. RunHasJob(w)' /\ RunIsAdmitted(w)' /\ RunIsBuilt(w)'
  BY <1>1 DEF RunHasJob, RunIsAdmitted, RunIsBuilt, PlansGrow, OnItem, Admitted, Built,
              Publishing
<1>3. RunIsHonest(w)' /\ RunHasEnd(w)'
  BY DEF RunIsHonest, RunHasEnd, Verdict, Publishing, Reporting
<1> QED
  BY <1>2, <1>3 DEF RunOK

EffectsType ==
  /\ branch \in History
  /\ said \in [Suggestion -> SUBSET {"applied", "rejected"}]
  /\ resolved \subseteq Threaded
  /\ feedback \in [Suggestion -> {"open", "applied", "rejected"}]
  /\ landed \subseteq Item

(* The run of w moves, its new record relies on what is true, and what it does elsewhere
   has its type and takes nothing back. *)
RunMoves(w) ==
  /\ \E n \in Run : /\ run' = [run EXCEPT ![w] = n] /\ run'[w] = n
                    /\ n.head \in {run[w].head, watched, <<>>}
  /\ RunOK(w)' /\ HistoryGrows /\ EffectsType'

LEMMA QuietEffects ==
  ASSUME TypeOK, UNCHANGED <<github, feedback, landed>>
  PROVE  HistoryGrows /\ EffectsType'
BY DEF TypeOK, HistoryGrows, EffectsType, github

(* A run that moves on, or fails, without a call. *)
LEMMA EntersFields ==
  ASSUME TypeOK, NEW w \in Worker, NEW phase \in Phases, Enters(w, phase)
  PROVE  \E n \in Run :
           /\ run' = [run EXCEPT ![w] = n] /\ run'[w] = n
           /\ n.phase = phase /\ n.job = run[w].job /\ n.late = run[w].late
           /\ phase \notin {"closing", "failing"} =>
                n.item = run[w].item /\ n.verdict = run[w].verdict
           /\ phase \in OnItem => n.head = run[w].head /\ n.local = run[w].local
           /\ n.head \in {run[w].head, watched, <<>>}
<1>1. run[w] \in Run
  BY DEF TypeOK
<1> DEFINE n == Entered(run[w], phase)
<1>2. run' = [run EXCEPT ![w] = n] /\ run'[w] = n
  BY DEF Enters, TypeOK
<1>3. /\ n \in Run /\ n.phase = phase /\ n.job = run[w].job /\ n.late = run[w].late
      /\ phase \notin {"closing", "failing"} =>
           n.item = run[w].item /\ n.verdict = run[w].verdict
      /\ phase \in OnItem => n.head = run[w].head /\ n.local = run[w].local
      /\ n.head = run[w].head \/ n.head = <<>>
  BY <1>1, EnteredFields
<1> HIDE DEF n
<1> QED
  BY <1>2, <1>3

LEMMA FailsMoves ==
  ASSUME TypeInv, PlansGrow, NEW w \in Worker, UNCHANGED executor,
         UNCHANGED <<github, feedback, landed>>, run[w].phase \notin {"idle"} \union Reporting,
         Enters(w, "closing") \/ Enters(w, "failing")
  PROVE  RunMoves(w)
<1>1. PICK phase \in {"closing", "failing"} : Enters(w, phase)
  OBVIOUS
<1>2. phase \in Phases /\ phase \notin Calling /\ phase \notin Reporting
  BY DEF Phases, Calling, Reporting
<1>3. PICK n \in Run :
        /\ run' = [run EXCEPT ![w] = n] /\ run'[w] = n
        /\ n.phase = phase /\ n.job = run[w].job /\ n.late = run[w].late
        /\ n.head \in {run[w].head, watched, <<>>}
  BY <1>1, <1>2, EntersFields DEF TypeInv
<1>4. RunOK(w)'
  BY <1>2, <1>3, RunLate, RunCloses
<1> QED
  BY <1>3, <1>4, QuietEffects DEF RunMoves, TypeInv

LEMMA RestsMoves ==
  ASSUME TypeOK, NEW w \in Worker, UNCHANGED <<github, feedback, landed>>,
         run' = [run EXCEPT ![w] = NoRun]
  PROVE  RunMoves(w)
<1>1. run'[w] = NoRun /\ NoRun \in Run /\ NoRun.head = <<>>
  BY NoRunType DEF TypeOK, NoRun
<1> QED
  BY <1>1, RunEnds, QuietEffects DEF RunMoves

LEMMA StartMoves ==
  ASSUME TypeInv, PlansGrow, NEW w \in Worker, NEW j \in Job, Start(w, j)
  PROVE  RunMoves(w)
<1> DEFINE n == [NoRun EXCEPT !.phase = "started", !.job = j]
<1>1. /\ n \in Run /\ n.phase = "started" /\ n.job = j /\ n.late = 0 /\ n.head = <<>>
  BY NoRunType DEF NoRun, Run, Phases
<1>2. run' = [run EXCEPT ![w] = n] /\ run'[w] = n
  BY DEF Start, TypeInv, TypeOK
<1> HIDE DEF n
<1>3. status'[j] # "absent"
  BY DEF Start, PlansGrow
<1>4. RunOK(w)'
  BY <1>1, <1>2, <1>3
     DEF RunOK, RunHasJob, RunIsAdmitted, RunIsBuilt, RunIsHonest, RunHasEnd, RunIsLateOnce,
         OnItem, Admitted, Built, Publishing, Said, Reporting
<1>5. UNCHANGED <<github, feedback, landed>>
  BY DEF Start
<1> QED
  BY <1>1, <1>2, <1>4, <1>5, QuietEffects DEF RunMoves, TypeInv

LEMMA ReadPlanMoves ==
  ASSUME TypeInv, PlansGrow, NEW w \in Worker, ReadPlan(w)
  PROVE  RunMoves(w)
<1>1. /\ UNCHANGED executor /\ UNCHANGED <<github, feedback, landed>>
      /\ run[w].phase \notin {"idle"} \union Reporting
  BY DEF ReadPlan, Elsewhere, board, Reporting
<1>2. CASE Enters(w, "closing")
  BY <1>1, <1>2, FailsMoves
<1>3. ASSUME NEW i \in Left(run[w].job),
             run' = [run EXCEPT ![w].phase = "checking", ![w].item = i, ![w].head = watched]
      PROVE  RunMoves(w)
  <2> DEFINE n == [run[w] EXCEPT !.phase = "checking", !.item = i, !.head = watched]
  <2>1. run[w].job \in Job /\ run[w] \in Run /\ watched \in History
    BY <1>1 DEF TypeInv, RunsOK, RunOK, RunHasJob, TypeOK
  <2>2. i \in plan[run[w].job].items /\ i \in Item
    <3>1. plan[run[w].job] \in Plan
      BY <2>1 DEF TypeInv, TypeOK
    <3> QED
      BY <3>1 DEF Left, Plan
  <2>3. /\ n \in Run /\ n.phase = "checking" /\ n.item = i /\ n.head = watched
        /\ n.job = run[w].job /\ n.late = run[w].late
    BY <2>1, <2>2 DEF Run, Phases
  <2>4. run' = [run EXCEPT ![w] = n] /\ run'[w] = n
    BY <1>3 DEF TypeInv, TypeOK
  <2> HIDE DEF n
  <2>5. n.phase \in OnItem /\ n.phase \notin Admitted \union Built \union Calling \union Reporting
    BY <2>3 DEF OnItem, Admitted, Built, Calling, Reporting
  <2>6. RunOK(w)'
    BY <1>1, <2>2, <2>3, <2>4, <2>5, RunLate, RunGoesOn
  <2> QED
    BY <1>1, <2>3, <2>4, <2>6, QuietEffects DEF RunMoves, TypeInv
<1> QED
  BY <1>2, <1>3 DEF ReadPlan

LEMMA CheckHeadMoves ==
  ASSUME TypeInv, PlansGrow, NEW w \in Worker, CheckHead(w)
  PROVE  RunMoves(w)
<1>1. /\ UNCHANGED executor /\ UNCHANGED <<github, feedback, landed>>
      /\ run[w].phase \notin {"idle"} \union Reporting
  BY DEF CheckHead, Elsewhere, board, Reporting
<1>2. CASE Enters(w, "applying")
  <2>1. PICK n \in Run :
          /\ run' = [run EXCEPT ![w] = n] /\ run'[w] = n
          /\ n.phase = "applying" /\ n.job = run[w].job /\ n.late = run[w].late
          /\ n.item = run[w].item /\ n.head \in {run[w].head, watched, <<>>}
    BY <1>2, EntersFields DEF TypeInv, Phases
  <2>2. n.phase \in OnItem /\ n.phase \notin Built \union Calling \union Reporting
    BY <2>1 DEF OnItem, Built, Calling, Reporting
  <2>3. n.job \in Job /\ n.item \in plan[n.job].items
    BY <2>1 DEF CheckHead, OnItem, TypeInv, RunsOK, RunOK, RunHasJob
  <2>4. n.item = CiPatch => plan[n.job].kind = "ci_repair" /\ plan[n.job].approved
    BY <2>1, <2>3 DEF CheckHead, MayMutate, TypeInv, PlansOK
  <2>5. RunOK(w)'
    BY <1>1, <2>1, <2>2, <2>3, <2>4, RunLate, RunGoesOn
  <2> QED
    BY <1>1, <2>1, <2>5, QuietEffects DEF RunMoves, TypeInv
<1> QED
  BY <1>1, <1>2, FailsMoves DEF CheckHead

LEMMA ApplyMoves ==
  ASSUME TypeInv, PlansGrow, NEW w \in Worker, Apply(w)
  PROVE  RunMoves(w)
<1> DEFINE r == run[w]
<1>1. /\ UNCHANGED executor /\ UNCHANGED <<github, feedback, landed>>
      /\ r.phase = "applying" /\ r.phase \notin {"idle"} \union Reporting
  BY DEF Apply, Elsewhere, board, Reporting
<1>2. r \in Run /\ r.job \in Job /\ r.item \in plan[r.job].items /\ r.head \in History
  BY <1>1 DEF OnItem, TypeInv, TypeOK, RunsOK, RunOK, RunHasJob, Run
<1>3. r.item \in Item
  <2>1. plan[r.job] \in Plan
    BY <1>2 DEF TypeInv, TypeOK
  <2> QED
    BY <1>2, <2>1 DEF Plan
<1>4. r.item = CiPatch => plan[r.job].kind = "ci_repair" /\ plan[r.job].approved
  BY <1>1 DEF Admitted, OnItem, TypeInv, RunsOK, RunOK, RunIsAdmitted
<1>5. CASE run' = [run EXCEPT ![w].phase = "staged",
                              ![w].local = Append(r.head, [by |-> w, what |-> r.item])]
  <2> DEFINE local == Append(r.head, [by |-> w, what |-> r.item])
             n == [r EXCEPT !.phase = "staged", !.local = local]
  <2>1. local \in History
    <3>1. [by |-> w, what |-> r.item] \in Commit
      BY <1>3 DEF Commit
    <3> QED
      BY <1>2, <3>1 DEF History
  <2>2. run' = [run EXCEPT ![w] = n] /\ run'[w] = n
    BY <1>5 DEF TypeInv, TypeOK
  <2> HIDE DEF local
  <2>3. /\ n \in Run /\ n.phase = "staged" /\ n.item = r.item /\ n.head = r.head
        /\ n.local = local /\ n.job = r.job /\ n.late = r.late
    BY <1>2, <2>1 DEF Run, Phases
  <2> HIDE DEF n
  <2>4. n.phase \in OnItem /\ n.phase \notin Calling \union Reporting
    BY <2>3 DEF OnItem, Calling, Reporting
  <2>5. RunOK(w)'
    BY <1>1, <1>2, <1>4, <2>2, <2>3, <2>4, RunLate, RunGoesOn DEF local
  <2> QED
    BY <1>1, <2>2, <2>3, <2>5, QuietEffects DEF RunMoves, TypeInv
<1>6. ASSUME "rejected" \in Outcomes(r.item, r.head),
             run' = [run EXCEPT ![w] = [r EXCEPT !.phase = "answering", !.head = <<>>,
                                                 !.verdict = "rejected"]]
      PROVE  RunMoves(w)
  <2> DEFINE n == [r EXCEPT !.phase = "answering", !.head = <<>>, !.verdict = "rejected"]
  <2>1. r.item # CiPatch
    BY <1>6 DEF Outcomes
  <2>2. r.item \in Suggestion
    BY <1>3, <2>1 DEF Item
  <2>3. run' = [run EXCEPT ![w] = n] /\ run'[w] = n
    BY <1>6 DEF TypeInv, TypeOK
  <2>4. <<>> \in History
    BY DEF History
  <2>5. /\ n \in Run /\ n.phase = "answering" /\ n.item = r.item /\ n.head = <<>>
        /\ n.verdict = "rejected" /\ n.job = r.job /\ n.late = r.late
    BY <1>2, <2>4 DEF Run, Phases
  <2> HIDE DEF n
  <2>6. n.phase \in Publishing /\ n.phase \notin Calling \union Said \union Reporting
    BY <2>5 DEF Publishing, Calling, Said, Reporting
  <2>7. Verdict(n) = "rejected"
    BY <2>5, RepairRunAssumption DEF Verdict
  <2>8. RunOK(w)'
    BY <1>1, <2>2, <2>3, <2>5, <2>6, <2>7, RunLate, RunPublishes
  <2> QED
    BY <1>1, <2>3, <2>5, <2>8, QuietEffects DEF RunMoves, TypeInv
<1>7. CASE Enters(w, "failing")
  BY <1>1, <1>7, FailsMoves
<1> QED
  BY <1>5, <1>6, <1>7 DEF Apply

LEMMA VerifyMoves ==
  ASSUME TypeInv, PlansGrow, NEW w \in Worker, Verify(w)
  PROVE  RunMoves(w)
<1>1. /\ UNCHANGED executor /\ UNCHANGED <<github, feedback, landed>>
      /\ run[w].phase = "staged" /\ run[w].phase \notin {"idle"} \union Reporting
  BY DEF Verify, Elsewhere, board, Reporting
<1>2. CASE Enters(w, "committed")
  <2>1. PICK n \in Run :
          /\ run' = [run EXCEPT ![w] = n] /\ run'[w] = n
          /\ n.phase = "committed" /\ n.job = run[w].job /\ n.late = run[w].late
          /\ n.item = run[w].item /\ n.head = run[w].head /\ n.local = run[w].local
          /\ n.head \in {run[w].head, watched, <<>>}
    BY <1>2, EntersFields DEF TypeInv, Phases, OnItem
  <2>2. /\ run[w].phase \in OnItem /\ run[w].phase \in Admitted /\ run[w].phase \in Built
        /\ n.phase \in OnItem /\ n.phase \notin Calling \union Reporting
    BY <1>1, <2>1 DEF OnItem, Admitted, Built, Calling, Reporting
  <2>3. RunOK(w)'
    BY <1>1, <2>1, <2>2, RunLate, RunGoesOn
       DEF TypeInv, RunsOK, RunOK, RunHasJob, RunIsAdmitted, RunIsBuilt
  <2> QED
    BY <1>1, <2>1, <2>3, QuietEffects DEF RunMoves, TypeInv
<1> QED
  BY <1>1, <1>2, FailsMoves DEF Verify

LEMMA EnsureMoves ==
  ASSUME TypeInv, PlansGrow, NEW w \in Worker, Ensure(w)
  PROVE  RunMoves(w)
<1>1. UNCHANGED executor /\ UNCHANGED <<github, feedback, landed>> /\ HoldsLease(w)
  BY DEF Ensure, Elsewhere, board
<1> DEFINE phase == Ensured[run[w].phase]
<1>2. \/ run[w].phase = "committed" /\ phase = "pushing"
      \/ run[w].phase = "answering" /\ phase = "replying"
      \/ run[w].phase = "answered" /\ phase = "resolving"
  BY DEF Ensure, Ensured
<1>3. Enters(w, phase)
  BY DEF Ensure
<1> HIDE DEF phase
<1>4. phase \in Phases /\ phase \notin {"closing", "failing"}
  BY <1>2 DEF Phases
<1>5. PICK n \in Run :
        /\ run' = [run EXCEPT ![w] = n] /\ run'[w] = n
        /\ n.phase = phase /\ n.job = run[w].job /\ n.late = run[w].late
        /\ n.item = run[w].item /\ n.verdict = run[w].verdict
        /\ phase \in OnItem => n.head = run[w].head /\ n.local = run[w].local
        /\ n.head \in {run[w].head, watched, <<>>}
  BY <1>3, <1>4, EntersFields DEF TypeInv
<1>6. RunIsLateOnce(w)'
  BY <1>1, <1>2, <1>5, RunLate DEF Reporting
<1>7. RunOK(w)'
  <2>1. CASE run[w].phase = "committed" /\ phase = "pushing"
    <3>1. /\ run[w].phase \in OnItem /\ run[w].phase \in Admitted /\ run[w].phase \in Built
          /\ n.phase \in OnItem
      BY <1>5, <2>1 DEF OnItem, Admitted, Built
    <3> QED
      BY <1>5, <1>6, <2>1, <3>1, RunGoesOn
         DEF TypeInv, RunsOK, RunOK, RunHasJob, RunIsAdmitted, RunIsBuilt
  <2>2. CASE phase \in {"replying", "resolving"}
    <3>1. /\ n.phase \in Publishing /\ run[w].phase \in Publishing /\ run[w].phase # "idle"
          /\ n.phase \in Said => run[w].phase \in Said
          /\ n.phase # "marking" /\ Verdict(n) = Verdict(run[w])
      BY <1>2, <1>5, <2>2 DEF Publishing, Said, Verdict
    <3>2. landed' = landed /\ said' = said
      BY <1>1 DEF github
    <3> QED
      BY <1>5, <1>6, <3>1, <3>2, RunPublishes DEF TypeInv, RunsOK, RunOK, RunIsHonest
  <2> QED
    BY <1>2, <2>1, <2>2
<1> QED
  BY <1>1, <1>5, <1>7, QuietEffects DEF RunMoves, TypeInv

(* A call that was made in one of the calling phases. *)
LEMMA CalledMoves ==
  ASSUME TypeInv, PlansGrow, NEW w \in Worker, run[w].phase \in Calling, UNCHANGED executor,
         NEW next \in {"closing", "answering", "answered", "marking"}, Called(w, next)
  PROVE  \E n \in Run :
           /\ run' = [run EXCEPT ![w] = n] /\ run'[w] = n
           /\ n.head \in {run[w].head, watched, <<>>}
           /\ n.job = run[w].job /\ run[w].phase # "idle" /\ RunIsLateOnce(w)'
           /\ \/ n.phase \in {"closing", "failing"} /\ RunOK(w)'
              \/ n.phase = next /\ n.item = run[w].item /\ n.verdict = run[w].verdict
<1>1. /\ next \in Phases /\ next \notin Calling \union Reporting
      /\ "failing" \notin Calling \union Reporting /\ run[w].phase \notin Reporting
  BY DEF Phases, Calling, Reporting
<1>2. PICK n \in Run :
        /\ run' = [run EXCEPT ![w] = n]
        /\ n.phase \in {next, "failing"} /\ n.job = run[w].job
        /\ HoldsLease(w) => n.late = run[w].late
        /\ ~HoldsLease(w) => n.late = run[w].late + 1
        /\ n.phase # "failing" /\ next # "closing" =>
             n.item = run[w].item /\ n.verdict = run[w].verdict
        /\ n.head = run[w].head \/ n.head = <<>>
  BY <1>1, CalledFields DEF TypeInv
<1>3. run'[w] = n
  BY <1>2 DEF TypeInv, TypeOK
<1>4. run[w].phase # "idle"
  BY DEF Calling
<1>5. RunIsLateOnce(w)'
  BY <1>1, <1>2, <1>3, RunLate
<1>6. n.phase \in {"closing", "failing"} => RunOK(w)'
  BY <1>2, <1>3, <1>4, <1>5, RunCloses DEF Reporting
<1> QED
  BY <1>2, <1>3, <1>4, <1>5, <1>6

(* The item of a run before its push, and the commit it is about to push. *)
LEMMA PushedItem ==
  ASSUME TypeInv, NEW w \in Worker, run[w].phase = "pushing"
  PROVE  run[w].item \in Item /\ run[w].local \in History
<1>1. run[w].job \in Job /\ run[w].item \in plan[run[w].job].items
  BY DEF OnItem, TypeInv, RunsOK, RunOK, RunHasJob
<1>2. plan[run[w].job] \in Plan /\ run[w] \in Run
  BY <1>1 DEF TypeInv, TypeOK
<1> QED
  BY <1>1, <1>2 DEF Plan, Run

LEMMA PushMoves ==
  ASSUME TypeInv, PlansGrow, NEW w \in Worker, Push(w)
  PROVE  RunMoves(w)
<1> DEFINE r == run[w]
           next == IF r.item = CiPatch THEN "closing" ELSE "answering"
<1>1. /\ UNCHANGED executor /\ UNCHANGED <<said, resolved, feedback>>
      /\ r.phase = "pushing" /\ r.phase \in Calling
  BY DEF Push, board, Calling
<1>2. CASE IsPrefix(branch, r.local) /\ branch' = r.local /\ landed' = landed \union {r.item}
           /\ Called(w, next)
  <2>1. HistoryGrows /\ EffectsType'
    BY <1>1, <1>2, PushedItem DEF HistoryGrows, EffectsType, TypeInv, TypeOK
  <2>2. next \in {"closing", "answering", "answered", "marking"}
    OBVIOUS
  <2>3. next = "answering" => r.item \in Suggestion
    BY <1>1, PushedItem DEF Item
  <2>4. Called(w, next)
    BY <1>2
  <2>5. next # "failing" /\ (next \in {"closing", "answering"})
    OBVIOUS
  <2> HIDE DEF next
  <2>6. PICK n \in Run :
          /\ run' = [run EXCEPT ![w] = n] /\ run'[w] = n
          /\ n.head \in {run[w].head, watched, <<>>}
          /\ n.job = run[w].job /\ run[w].phase # "idle" /\ RunIsLateOnce(w)'
          /\ \/ n.phase \in {"closing", "failing"} /\ RunOK(w)'
             \/ n.phase = next /\ n.item = run[w].item /\ n.verdict = run[w].verdict
    BY <1>1, <2>2, <2>4, CalledMoves
  <2>7. ASSUME n.phase = "answering", n.item = r.item PROVE RunOK(w)'
    <3>1. n.phase \in Publishing /\ n.phase \notin Said /\ n.phase # "marking"
      BY <2>7 DEF Publishing, Said
    <3>2. n.item \in landed'
      BY <1>2, <2>7
    <3>3. n.item \in Suggestion
      BY <2>3, <2>5, <2>6, <2>7
    <3> QED
      BY <2>6, <3>1, <3>2, <3>3, RunPublishes
  <2>8. n.phase = "closing" => RunOK(w)'
    BY <2>6, RunCloses DEF Reporting
  <2> QED
    BY <2>1, <2>5, <2>6, <2>7, <2>8 DEF RunMoves
<1>3. CASE Enters(w, "failing") /\ UNCHANGED <<branch, landed>>
  BY <1>1, <1>3, FailsMoves DEF github, Reporting
<1> QED
  BY <1>2, <1>3 DEF Push

(* What a run that publishes may rely on. *)
LEMMA PublishingItem ==
  ASSUME TypeInv, NEW w \in Worker, run[w].phase \in Publishing
  PROVE  /\ run[w].item \in Suggestion /\ Verdict(run[w]) \in {"applied", "rejected"}
         /\ Verdict(run[w]) = "applied" => run[w].item \in landed
         /\ run[w].phase \in Said => Verdict(run[w]) \in said[run[w].item]
         /\ run[w].phase = "marking" /\ run[w].item \in Threaded => run[w].item \in resolved
<1>1. run[w] \in Run /\ RunIsHonest(w)
  BY DEF TypeInv, TypeOK, RunsOK, RunOK
<1>2. run[w].verdict \in {"applied", "rejected", None}
  BY <1>1 DEF Run
<1> QED
  BY <1>1, <1>2 DEF RunIsHonest, Verdict

LEMMA ReplyMoves ==
  ASSUME TypeInv, PlansGrow, NEW w \in Worker, Reply(w)
  PROVE  RunMoves(w)
<1> DEFINE r == run[w]
<1>1. /\ UNCHANGED executor /\ UNCHANGED <<branch, resolved, feedback, landed>>
      /\ r.phase \in Calling /\ r.phase \in Publishing
      /\ said' = [said EXCEPT ![r.item] = @ \union {Verdict(r)}] /\ Called(w, "answered")
  BY DEF Reply, board, Calling, Publishing
<1>2. r.item \in Suggestion /\ Verdict(r) \in {"applied", "rejected"}
  BY <1>1, PublishingItem
<1>3. said'[r.item] = said[r.item] \union {Verdict(r)}
      /\ \A i \in Suggestion : said[i] \subseteq said'[i]
  BY <1>1, <1>2 DEF TypeInv, TypeOK
<1>4. HistoryGrows /\ EffectsType'
  BY <1>1, <1>2, <1>3 DEF HistoryGrows, EffectsType, TypeInv, TypeOK
<1>5. PICK n \in Run :
        /\ run' = [run EXCEPT ![w] = n] /\ run'[w] = n
        /\ n.head \in {run[w].head, watched, <<>>}
        /\ n.job = run[w].job /\ run[w].phase # "idle" /\ RunIsLateOnce(w)'
        /\ \/ n.phase \in {"closing", "failing"} /\ RunOK(w)'
           \/ n.phase = "answered" /\ n.item = run[w].item /\ n.verdict = run[w].verdict
  BY <1>1, CalledMoves
<1>6. ASSUME n.phase = "answered", n.item = r.item, n.verdict = r.verdict PROVE RunOK(w)'
  <2>1. n.phase \in Publishing /\ n.phase # "marking" /\ Verdict(n) = Verdict(r)
    BY <1>6 DEF Publishing, Verdict
  <2>2. Verdict(n) = "applied" => n.item \in landed'
    BY <1>1, <1>6, <2>1, PublishingItem
  <2>3. Verdict(n) \in said'[n.item]
    BY <1>3, <1>6, <2>1
  <2> QED
    BY <1>2, <1>5, <1>6, <2>1, <2>2, <2>3, RunPublishes
<1> QED
  BY <1>4, <1>5, <1>6 DEF RunMoves

LEMMA ResolveMoves ==
  ASSUME TypeInv, PlansGrow, NEW w \in Worker, Resolve(w)
  PROVE  RunMoves(w)
<1> DEFINE r == run[w]
<1>1. /\ UNCHANGED executor /\ UNCHANGED <<branch, said, feedback, landed>>
      /\ r.phase \in Calling /\ r.phase \in Publishing /\ r.phase \in Said
  BY DEF Resolve, board, Calling, Publishing, Said
<1>2. ASSUME NEW n \in Run, run'[w] = n, n.phase = "marking", n.item = r.item,
             n.verdict = r.verdict, n.job = r.job, RunIsLateOnce(w)',
             n.item \in Threaded => n.item \in resolved'
      PROVE  RunOK(w)'
  <2>1. n.phase \in Publishing /\ Verdict(n) = Verdict(r) /\ r.phase # "idle"
    BY <1>1, <1>2 DEF Publishing, Verdict
  <2>2. /\ n.item \in Suggestion /\ (Verdict(n) = "applied" => n.item \in landed')
        /\ Verdict(n) \in said'[n.item]
    BY <1>1, <1>2, <2>1, PublishingItem
  <2> QED
    BY <1>2, <2>1, <2>2, RunPublishes
<1>3. CASE /\ r.item \in Threaded /\ resolved' = resolved \union {r.item}
           /\ Called(w, "marking")
  <2>1. HistoryGrows /\ EffectsType'
    BY <1>1, <1>3 DEF HistoryGrows, EffectsType, TypeInv, TypeOK
  <2>2. PICK n \in Run :
          /\ run' = [run EXCEPT ![w] = n] /\ run'[w] = n
          /\ n.head \in {run[w].head, watched, <<>>}
          /\ n.job = run[w].job /\ run[w].phase # "idle" /\ RunIsLateOnce(w)'
          /\ \/ n.phase \in {"closing", "failing"} /\ RunOK(w)'
             \/ n.phase = "marking" /\ n.item = run[w].item /\ n.verdict = run[w].verdict
    BY <1>1, <1>3, CalledMoves
  <2> QED
    BY <1>2, <1>3, <2>1, <2>2 DEF RunMoves
<1>4. CASE r.item \notin Threaded /\ Enters(w, "marking") /\ UNCHANGED resolved
  <2>1. PICK n \in Run :
          /\ run' = [run EXCEPT ![w] = n] /\ run'[w] = n
          /\ n.phase = "marking" /\ n.job = run[w].job /\ n.late = run[w].late
          /\ n.item = run[w].item /\ n.verdict = run[w].verdict
          /\ n.head \in {run[w].head, watched, <<>>}
    BY <1>4, EntersFields DEF TypeInv, Phases
  <2>2. RunIsLateOnce(w)'
    BY <1>1, <2>1, RunLate DEF Calling, Reporting
  <2>3. RunOK(w)'
    BY <1>2, <1>4, <2>1, <2>2
  <2> QED
    BY <1>1, <1>4, <2>1, <2>3, QuietEffects DEF RunMoves, TypeInv, github
<1> QED
  BY <1>3, <1>4 DEF Resolve

LEMMA MarkMoves ==
  ASSUME TypeInv, PlansGrow, NEW w \in Worker, Mark(w)
  PROVE  RunMoves(w)
<1>1. /\ UNCHANGED executor /\ UNCHANGED <<branch, said, resolved, landed>>
      /\ run[w].phase = "marking" /\ run[w].phase \in Publishing
      /\ feedback' = [feedback EXCEPT ![run[w].item] = Verdict(run[w])]
      /\ Enters(w, "closing")
  BY DEF Mark, Elsewhere, board, github, Publishing
<1>2. HistoryGrows /\ EffectsType'
  BY <1>1, PublishingItem DEF HistoryGrows, EffectsType, TypeInv, TypeOK
<1>3. PICK n \in Run :
        /\ run' = [run EXCEPT ![w] = n] /\ run'[w] = n
        /\ n.phase = "closing" /\ n.job = run[w].job /\ n.late = run[w].late
        /\ n.head \in {run[w].head, watched, <<>>}
  BY <1>1, EntersFields DEF TypeInv, Phases
<1>4. RunOK(w)'
  BY <1>1, <1>3, RunLate, RunCloses DEF Calling, Reporting
<1> QED
  BY <1>2, <1>3, <1>4 DEF RunMoves

(* A run that reports: its record changes in phase, outcome and late calls only. *)
LEMMA ReportingMoves ==
  ASSUME TypeInv, PlansGrow, NEW w \in Worker, UNCHANGED <<github, feedback, landed>>,
         run[w].phase # "idle", NEW phase \in Reporting, NEW ends \in {"succeeded", "failed"},
         NEW late \in Nat,
         run' = [run EXCEPT ![w] = [run[w] EXCEPT !.phase = phase, !.ends = ends,
                                                  !.late = late]],
         phase = "summing" => late = 0, phase = "concluding" => late <= 1, late <= 2
  PROVE  RunMoves(w)
<1> DEFINE n == [run[w] EXCEPT !.phase = phase, !.ends = ends, !.late = late]
<1>1. run[w] \in Run /\ phase \in Phases
  BY DEF TypeInv, TypeOK, Reporting, Phases
<1>2. /\ n \in Run /\ n.phase = phase /\ n.ends = ends /\ n.late = late
      /\ n.job = run[w].job /\ n.head = run[w].head
  BY <1>1 DEF Run
<1>3. run' = [run EXCEPT ![w] = n] /\ run'[w] = n
  BY DEF TypeInv, TypeOK
<1> HIDE DEF n
<1>4. RunIsLateOnce(w)'
  BY <1>2, <1>3 DEF RunIsLateOnce, Reporting
<1>5. RunOK(w)'
  BY <1>2, <1>3, <1>4, RunCloses, RepairRunAssumption
<1> QED
  BY <1>2, <1>3, <1>5, QuietEffects DEF RunMoves, TypeInv

LEMMA ReportMoves ==
  ASSUME TypeInv, PlansGrow, NEW w \in Worker, Report(w)
  PROVE  RunMoves(w)
<1> DEFINE ends == IF run[w].phase = "closing" THEN "succeeded" ELSE "failed"
<1>1. /\ UNCHANGED <<github, feedback, landed>> /\ run[w].phase \in {"closing", "failing"}
      /\ HoldsLease(w)
  BY DEF Report
<1>2. run[w] \in Run /\ run[w].late = 0
  <2>1. RunIsLateOnce(w) /\ run[w].phase \notin Reporting
    BY <1>1 DEF TypeInv, RunsOK, RunOK, Reporting
  <2>2. run[w] \in Run /\ run[w].late \in Nat
    BY DEF TypeInv, TypeOK, Run
  <2> QED
    BY <1>1, <2>1, <2>2 DEF RunIsLateOnce
<1>3. run' = [run EXCEPT ![w] = [run[w] EXCEPT !.phase = "summing", !.ends = ends,
                                               !.late = 0]]
  BY <1>2 DEF Report, TypeInv, TypeOK, Run
<1>4. ends \in {"succeeded", "failed"} /\ "summing" \in Reporting /\ run[w].phase # "idle"
  BY <1>1 DEF Reporting
<1>5. UNCHANGED <<github, feedback, landed>>
  BY <1>1
<1> DEFINE late == 0
<1>6. late \in Nat /\ late = 0 /\ late <= 1 /\ late <= 2
  OBVIOUS
<1>7. run' = [run EXCEPT ![w] = [run[w] EXCEPT !.phase = "summing", !.ends = ends,
                                               !.late = late]]
  BY <1>3
<1> HIDE DEF ends, late
<1> QED
  BY <1>4, <1>5, <1>6, <1>7, ReportingMoves

(* The two calls of finish. *)
LEMMA FinishMoves ==
  ASSUME TypeInv, PlansGrow, NEW w \in Worker, Finish(w)
  PROVE  RunMoves(w)
<1> DEFINE late == IF HoldsLease(w) THEN run[w].late ELSE run[w].late + 1
           next == IF run[w].phase = "summing" THEN "concluding" ELSE "settling"
<1>1. /\ UNCHANGED <<github, feedback, landed>> /\ run[w].phase \in {"summing", "concluding"}
  BY DEF Finish
<1>2. /\ run[w] \in Run /\ late \in Nat /\ run[w].ends \in {"succeeded", "failed"}
      /\ run[w].phase = "summing" => late <= 1
      /\ run[w].phase = "concluding" => late <= 2
  BY <1>1 DEF TypeInv, TypeOK, RunsOK, RunOK, RunIsLateOnce, RunHasEnd, Reporting, Run
<1>3. \/ run' = [run EXCEPT ![w] = [run[w] EXCEPT !.phase = next, !.ends = run[w].ends,
                                                  !.late = late]]
      \/ run' = [run EXCEPT ![w] = [run[w] EXCEPT !.phase = "settling", !.ends = "failed",
                                                  !.late = late]]
  BY <1>2 DEF Finish, Run
<1>4. /\ next \in Reporting /\ "settling" \in Reporting
      /\ next # "summing" /\ (next = "concluding" => late <= 1) /\ late <= 2
  BY <1>1, <1>2 DEF Reporting
<1> HIDE DEF next, late
<1>5. CASE run' = [run EXCEPT ![w] = [run[w] EXCEPT !.phase = next, !.ends = run[w].ends,
                                                    !.late = late]]
  BY <1>1, <1>2, <1>4, <1>5, ReportingMoves
<1>6. CASE run' = [run EXCEPT ![w] = [run[w] EXCEPT !.phase = "settling", !.ends = "failed",
                                                    !.late = late]]
  BY <1>1, <1>2, <1>4, <1>6, ReportingMoves
<1> QED
  BY <1>3, <1>5, <1>6

(* An error, reported or not. *)
LEMMA ErrorMoves ==
  ASSUME TypeInv, PlansGrow, NEW w \in Worker, Fails(w)
  PROVE  RunMoves(w)
<1>1. UNCHANGED <<github, feedback, landed>> /\ UNCHANGED executor
  BY DEF Fails, Elsewhere, board
<1>2. CASE run[w].phase \notin Unreported \ {"checking"} /\ Enters(w, "failing")
  BY <1>1, <1>2, FailsMoves DEF Fails, Unreported, Reporting
<1>3. CASE /\ run[w].phase \in Unreported
           /\ run' = [run EXCEPT ![w].phase = "settling", ![w].ends = "failed"]
  <2>1. run[w] \in Run /\ run[w].late \in Nat /\ run[w].late <= 2 /\ run[w].phase # "idle"
    BY <1>3 DEF TypeInv, TypeOK, RunsOK, RunOK, RunIsLateOnce, Reporting, Unreported, Run
  <2>2. run' = [run EXCEPT ![w] = [run[w] EXCEPT !.phase = "settling", !.ends = "failed",
                                                 !.late = run[w].late]]
    BY <1>3, <2>1 DEF TypeInv, TypeOK, Run
  <2>3. "settling" \in Reporting
    BY DEF Reporting
  <2> QED
    BY <1>1, <2>1, <2>2, <2>3, ReportingMoves
<1> QED
  BY <1>2, <1>3 DEF Fails

LEMMA StepMoves ==
  ASSUME TypeInv, PlansGrow, NEW w \in Worker, Step(w)
  PROVE  RunMoves(w) /\ UNCHANGED <<seen, watched>>
<1>1. CASE NoPatch(w)
  BY <1>1, FailsMoves DEF NoPatch, Elsewhere, board, Reporting
<1>2. CASE Park(w) \/ Settle(w) \/ Die(w)
  BY <1>2, RestsMoves DEF Park, Settle, Die, Elsewhere, TypeInv
<1>3. UNCHANGED <<seen, watched>>
  BY DEF Step, Start, ReadPlan, Park, NoPatch, CheckHead, Apply, Verify, Ensure, Push, Reply,
         Resolve, Mark, Report, Finish, Settle, Fails, Die, Elsewhere
<1> QED
  BY <1>1, <1>2, <1>3, StartMoves, ReadPlanMoves, CheckHeadMoves, ApplyMoves, VerifyMoves,
     EnsureMoves, PushMoves, ReplyMoves, ResolveMoves, MarkMoves, ReportMoves, FinishMoves,
     ErrorMoves DEF Step

(* The others leave the runs and the threads alone. *)
LEMMA OthersMoves ==
  ASSUME TypeInv, Others
  PROVE  /\ UNCHANGED <<run, said, resolved, feedback, landed>>
         /\ branch' \in History /\ watched' \in {watched, branch}
         /\ seen' \in (SUBSET Suggestion) \union {None}
<1> USE DEF github, board, TypeInv, TypeOK
<1>1. CASE ReconcileReads \/ ReconcileActs \/ WebhookMovesHead
  BY <1>1 DEF ReconcileReads, ReconcileActs, WebhookMovesHead
<1>2. ASSUME NEW c \in UserCommit, UserPushes(c)
      PROVE  branch' \in History
  <2>1. PICK n \in 0..Len(branch) :
          branch' = Append(SubSeq(branch, 1, n), [by |-> User, what |-> c])
    BY <1>2 DEF UserPushes
  <2>2. [by |-> User, what |-> c] \in Commit
    BY DEF Commit
  <2>3. SubSeq(branch, 1, n) \in Seq(Commit)
    BY SubSeqProperties DEF History
  <2> QED
    BY <2>1, <2>2, <2>3 DEF History
<1>3. ASSUME NEW c \in UserCommit, UserPushes(c)
      PROVE  UNCHANGED <<run, said, resolved, feedback, landed, seen, watched>>
  BY <1>3 DEF UserPushes
<1>5. ASSUME UserDrops
      PROVE  /\ UNCHANGED <<run, said, resolved, feedback, landed, seen, watched>>
             /\ branch' \in History
  <2>1. PICK n \in 0..(Len(branch) - 1) : branch' = SubSeq(branch, 1, n)
    BY <1>5 DEF UserDrops
  <2>2. branch \in Seq(Commit)
    BY DEF History
  <2>3. SubSeq(branch, 1, n) \in Seq(Commit)
    BY <2>2, SubSeqProperties
  <2> QED
    BY <1>5, <2>1, <2>3 DEF UserDrops, History
<1>4. ASSUME NEW j \in Job, Expire(j) \/ Cancel(j) \/ Skip(j) \/ Approve(j)
      PROVE  UNCHANGED <<run, branch, said, resolved, feedback, landed, seen, watched>>
  BY <1>4 DEF Expire, Cancel, Skip, Approve
<1> QED
  BY <1>1, <1>2, <1>3, <1>4, <1>5 DEF Others

(* Nobody is given back a lease in the middle of a run. *)
LEMMA LeaseKept ==
  ASSUME TypeInv, [Next]_vars, NEW v \in Worker, run'[v] = run[v], HoldsLease(v)'
  PROVE  HoldsLease(v)
<1> SUFFICES run[v].job \in Job => executor'[run[v].job] # v \/ executor[run[v].job] = v
  <2>1. run[v].job \in Job \union {None}
    <3>1. run[v] \in Run
      BY DEF TypeInv, TypeOK
    <3> QED
      BY <3>1 DEF Run
  <2> QED
    BY <2>1 DEF HoldsLease
<1>1. CASE UNCHANGED executor
  BY <1>1
<1>2. ASSUME NEW j \in Job, NEW to, Goes(j, to, None)
      PROVE  run[v].job \in Job => executor'[run[v].job] # v \/ executor[run[v].job] = v
  BY <1>2, RepairRunAssumption DEF Goes, TypeInv, TypeOK
<1>3. ASSUME NEW w \in Worker, NEW j \in Job, Start(w, j)
      PROVE  run[v].job \in Job => executor'[run[v].job] # v \/ executor[run[v].job] = v
  <2>1. w # v
    <3>1. run'[w] = [NoRun EXCEPT !.phase = "started", !.job = j]
      BY <1>3 DEF Start, TypeInv, TypeOK
    <3>2. run'[w].phase = "started"
      BY <3>1 DEF NoRun
    <3> QED
      BY <1>3, <3>2 DEF Start
  <2> QED
    BY <1>3, <2>1 DEF Start, Goes, TypeInv, TypeOK
<1>4. ASSUME NEW w \in Worker, Park(w) \/ Settle(w)
      PROVE  \E j \in Job : \E to \in Open \union Settled : Goes(j, to, None)
  <2>1. run[w].job \in Job
    BY <1>4 DEF Park, Settle, TypeInv, RunsOK, RunOK, RunHasJob
  <2> QED
    BY <1>4, <2>1, SettlesEnded DEF Park, Settle, Open
<1>5. ASSUME NEW w \in Worker, Step(w)
      PROVE  run[v].job \in Job => executor'[run[v].job] # v \/ executor[run[v].job] = v
  <2>1. CASE \/ ReadPlan(w) \/ NoPatch(w) \/ CheckHead(w) \/ Apply(w) \/ Verify(w) \/ Ensure(w)
             \/ Push(w) \/ Reply(w) \/ Resolve(w) \/ Mark(w)
             \/ Report(w) \/ Finish(w) \/ Fails(w) \/ Die(w)
    BY <1>1, <2>1 DEF ReadPlan, NoPatch, CheckHead, Apply, Verify, Ensure, Push, Reply,
                      Resolve, Mark, Report, Finish, Fails, Die, Elsewhere, board
  <2> QED
    BY <1>2, <1>3, <1>4, <1>5, <2>1 DEF Step
<1>6. ASSUME Others
      PROVE  run[v].job \in Job => executor'[run[v].job] # v \/ executor[run[v].job] = v
  <2>1. \/ UNCHANGED executor
        \/ \E j \in Job : \E to \in Open \union Settled : Goes(j, to, None)
    BY <1>6 DEF Others, ReconcileReads, ReconcileActs, WebhookMovesHead, UserPushes, UserDrops,
                Expire, Cancel, Skip, Approve, Enqueue, board, Open, Settled
  <2> QED
    BY <1>1, <1>2, <2>1
<1> QED
  BY <1>1, <1>5, <1>6 DEF Next, vars, board

LEMMA InitType == Init => TypeInv
<1> SUFFICES ASSUME Init PROVE TypeInv
  OBVIOUS
<1>1. NoPlan \in Plan /\ <<>> \in History
  BY DEF NoPlan, Plan, History
<1>2. TypeOK
  BY <1>1, NoRunType DEF Init, TypeOK
<1>3. PlansOK
  BY DEF Init, PlansOK, NoPlan
<1>4. RunsOK
  BY DEF Init, RunsOK, RunOK, RunHasJob, RunIsAdmitted, RunIsBuilt, RunIsHonest, RunHasEnd,
         RunIsLateOnce, NoRun, OnItem, Admitted, Built, Publishing, Said, Reporting
<1> QED
  BY <1>2, <1>3, <1>4 DEF TypeInv

LEMMA TypeStep == TypeInv /\ [Next]_vars => TypeInv'
<1> SUFFICES ASSUME TypeInv, [Next]_vars PROVE TypeInv'
  OBVIOUS
<1>1. BoardType' /\ PlansOK' /\ PlansGrow
  BY BoardStep
<1>2. CASE Others \/ UNCHANGED vars
  <2>1. /\ UNCHANGED <<run, said, resolved, feedback, landed>>
        /\ branch' \in History /\ watched' \in History
        /\ seen' \in (SUBSET Suggestion) \union {None}
    BY <1>2, OthersMoves DEF vars, github, TypeInv, TypeOK
  <2>2. TypeOK'
    BY <1>1, <2>1 DEF TypeInv, TypeOK, BoardType
  <2>3. HistoryGrows
    BY <2>1 DEF HistoryGrows
  <2>4. RunsOK'
    BY <1>1, <2>1, <2>3, RunKept, LeaseKept DEF RunsOK
  <2> QED
    BY <1>1, <2>2, <2>4 DEF TypeInv
<1>3. ASSUME NEW w \in Worker, Step(w) PROVE TypeInv'
  <2>1. RunMoves(w) /\ UNCHANGED <<seen, watched>>
    BY <1>1, <1>3, StepMoves
  <2>2. PICK n \in Run : run' = [run EXCEPT ![w] = n]
    BY <2>1 DEF RunMoves
  <2>3. TypeOK'
    BY <1>1, <2>1, <2>2 DEF TypeInv, TypeOK, BoardType, RunMoves, EffectsType
  <2>4. \A v \in Worker \ {w} : run'[v] = run[v]
    BY <2>2 DEF TypeInv, TypeOK
  <2>5. \A v \in Worker \ {w} : RunOK(v)'
    BY <1>1, <2>1, <2>4, RunKept, LeaseKept DEF RunMoves
  <2>6. RunsOK'
    BY <2>1, <2>5 DEF RunsOK, RunMoves
  <2> QED
    BY <1>1, <2>3, <2>6 DEF TypeInv
<1> QED
  BY <1>2, <1>3 DEF Next

(* Runs, plans, threads and branches only take values of their types, whoever is taken
   over in the middle of what. *)
THEOREM RepairTypeCorrect == Spec => []TypeOK
<1>1. TypeInv => TypeOK
  BY DEF TypeInv
<1> QED
  BY InitType, TypeStep, <1>1, PTL DEF Spec

(* A worker whose job was cancelled, skipped or taken over gets at most one more call
   through to the branch and the threads (LeaseGuard::ensure before each of them): after it
   the run stands before a check of the lease, and nobody gives a lease back to a run that
   lost it.  One that was about to report makes the two calls of finish at the most. *)
THEOREM LostLeaseAllowsFewCalls == Spec => []FewLateCalls
<1>1. TypeInv => FewLateCalls
  BY DEF TypeInv, RunsOK, RunOK, RunIsLateOnce, Reporting, TypeOK, Run, FewLateCalls
<1> QED
  BY InitType, TypeStep, <1>1, PTL DEF Spec

-----------------------------------------------------------------------------
(* What people are told. *)

(* Who writes what. *)
LEMMA EffectsMove ==
  ASSUME TypeInv, [Next]_vars
  PROVE  \/ UNCHANGED <<said, resolved, feedback, landed>>
         \/ \E w \in Worker : Push(w) \/ Reply(w) \/ Resolve(w) \/ Mark(w)
<1>1. CASE Others
  BY <1>1, OthersMoves
<1>2. ASSUME NEW w \in Worker, Step(w)
      PROVE  \/ UNCHANGED <<said, resolved, feedback, landed>>
             \/ Push(w) \/ Reply(w) \/ Resolve(w) \/ Mark(w)
  BY <1>2 DEF Step, Start, ReadPlan, Park, NoPatch, CheckHead, Apply, Verify, Ensure, Report,
              Finish, Settle, Fails, Die, github
<1> QED
  BY <1>1, <1>2 DEF Next, vars, github

Told == AppliedIsLanded /\ MarkedIsAnswered

LEMMA ToldStep == TypeInv /\ Told /\ [Next]_vars => Told'
<1> SUFFICES ASSUME TypeInv, Told, [Next]_vars PROVE Told'
  OBVIOUS
<1> USE DEF Told, AppliedIsLanded, MarkedIsAnswered
<1>1. CASE UNCHANGED <<said, resolved, feedback, landed>>
  BY <1>1
<1>2. ASSUME NEW w \in Worker, Push(w) PROVE Told'
  <2>1. UNCHANGED <<said, resolved, feedback>> /\ landed \subseteq landed'
    BY <1>2 DEF Push
  <2> QED
    BY <2>1
<1>3. ASSUME NEW w \in Worker, Reply(w) PROVE Told'
  <2>1. /\ UNCHANGED <<resolved, feedback, landed>>
        /\ said' = [said EXCEPT ![run[w].item] = @ \union {Verdict(run[w])}]
        /\ run[w].phase \in Publishing
    BY <1>3 DEF Reply, Publishing
  <2>2. /\ run[w].item \in Suggestion
        /\ Verdict(run[w]) = "applied" => run[w].item \in landed
    BY <2>1, PublishingItem
  <2>3. \A i \in Suggestion :
          said[i] \subseteq said'[i]
          /\ ("applied" \in said'[i] => "applied" \in said[i] \/ i \in landed)
    BY <2>1, <2>2 DEF TypeInv, TypeOK
  <2>4. resolved \subseteq Suggestion
    BY RepairRunAssumption DEF TypeInv, TypeOK
  <2> QED
    BY <2>1, <2>3, <2>4
<1>4. ASSUME NEW w \in Worker, Resolve(w) PROVE Told'
  <2>1. /\ UNCHANGED <<said, feedback, landed>>
        /\ resolved \subseteq resolved' /\ resolved' \subseteq resolved \union {run[w].item}
        /\ run[w].phase \in Publishing /\ run[w].phase \in Said
    BY <1>4 DEF Resolve, Publishing, Said
  <2>2. Verdict(run[w]) \in said[run[w].item]
    BY <2>1, PublishingItem
  <2> QED
    BY <2>1, <2>2
<1>5. ASSUME NEW w \in Worker, Mark(w) PROVE Told'
  <2>1. /\ UNCHANGED <<said, resolved, landed>>
        /\ feedback' = [feedback EXCEPT ![run[w].item] = Verdict(run[w])]
        /\ run[w].phase \in Publishing /\ run[w].phase \in Said /\ run[w].phase = "marking"
    BY <1>5 DEF Mark, github, Publishing, Said
  <2>2. /\ run[w].item \in Suggestion
        /\ Verdict(run[w]) = "applied" => run[w].item \in landed
        /\ Verdict(run[w]) \in said[run[w].item]
        /\ run[w].item \in Threaded => run[w].item \in resolved
    BY <2>1, PublishingItem
  <2>3. \A i \in Suggestion :
          \/ feedback'[i] = feedback[i]
          \/ i = run[w].item /\ feedback'[i] = Verdict(run[w])
    BY <2>1, <2>2 DEF TypeInv, TypeOK
  <2> QED
    BY <2>1, <2>2, <2>3
<1> QED
  BY <1>1, <1>2, <1>3, <1>4, <1>5, EffectsMove

LEMMA InitTold == Init => Told
BY DEF Init, Told, AppliedIsLanded, MarkedIsAnswered

(* PiTools says "applied" under a comment or in its store only after a commit with the
   suggestion was taken by GitHub (feedback_repair pushes, then answers, then marks), with
   any number of workers on the same plan. *)
THEOREM AppliedSuggestionsLanded == Spec => []AppliedIsLanded
BY InitType, TypeStep, InitTold, ToldStep, PTL DEF Spec, Told

(* What the store counts as dealt with has its outcome under the comment and its thread
   resolved (publish_feedback_outcome before the mark), though the mark asks for no
   lease; and no thread is resolved in silence (resolve_review_thread after the reply). *)
THEOREM MarkedSuggestionsWereAnswered == Spec => []MarkedIsAnswered
BY InitType, TypeStep, InitTold, ToldStep, PTL DEF Spec, Told

-----------------------------------------------------------------------------
(* What is pushed. *)

LEMMA CiPatchStep == TypeInv /\ CiPatchApproved /\ [Next]_vars => CiPatchApproved'
<1> SUFFICES ASSUME TypeInv, CiPatchApproved, [Next]_vars, CiPatch \in landed'
             PROVE  \E j \in Job : plan'[j].kind = "ci_repair" /\ plan'[j].approved
  BY DEF CiPatchApproved
<1>1. PlansGrow
  BY BoardStep
<1>2. ASSUME NEW j \in Job, plan[j].kind = "ci_repair", plan[j].approved
      PROVE  plan'[j].kind = "ci_repair" /\ plan'[j].approved
  <2>1. status[j] # "absent"
    BY <1>2 DEF TypeInv, PlansOK
  <2> QED
    BY <1>1, <1>2, <2>1 DEF PlansGrow
<1>3. CASE CiPatch \in landed
  BY <1>2, <1>3 DEF CiPatchApproved
<1>4. CASE CiPatch \notin landed
  <2>1. PICK w \in Worker : Push(w)
    BY <1>4, EffectsMove DEF Reply, Resolve, Mark
  <2>2. run[w].item = CiPatch /\ run[w].phase = "pushing"
    BY <1>4, <2>1 DEF Push
  <2>3. run[w].job \in Job /\ plan[run[w].job].kind = "ci_repair" /\ plan[run[w].job].approved
    BY <2>2 DEF Admitted, OnItem, TypeInv, RunsOK, RunOK, RunHasJob, RunIsAdmitted
  <2> QED
    BY <1>2, <2>3
<1> QED
  BY <1>3, <1>4

(* Nothing that Pi proposed for CI reaches the branch without the approval of a person
   (admit_ci_mutation), though the approval is read once and the run may be taken over,
   skipped or retried after that: an approval is never taken back, and a plan never
   changes what it stands for. *)
THEOREM CiPatchesWereApproved == Spec => []CiPatchApproved
<1>1. Init => CiPatchApproved
  BY DEF Init, CiPatchApproved
<1> QED
  BY <1>1, InitType, TypeStep, CiPatchStep, PTL DEF Spec

(* A prefix, element by element. *)
LEMMA PrefixElements ==
  ASSUME NEW S, NEW s \in Seq(S), NEW t \in Seq(S)
  PROVE  IsPrefix(s, t) <=> Len(s) <= Len(t) /\ \A n \in 1..Len(s) : s[n] = t[n]
<1>1. CASE Len(s) <= Len(t)
  <2>1. /\ SubSeq(t, 1, Len(s)) \in Seq(S) /\ Len(SubSeq(t, 1, Len(s))) = Len(s)
        /\ \A n \in 1..Len(s) : SubSeq(t, 1, Len(s))[n] = t[n]
    BY <1>1
  <2>2. SubSeq(t, 1, Len(s)) = s <=> \A n \in 1..Len(s) : SubSeq(t, 1, Len(s))[n] = s[n]
    BY <2>1, SeqEqual
  <2> QED
    BY <1>1, <2>1, <2>2 DEF IsPrefix
<1>2. CASE ~(Len(s) <= Len(t))
  BY <1>2 DEF IsPrefix
<1> QED
  BY <1>1, <1>2

(* What comes before an extension, and is not it, comes before what was extended. *)
LEMMA PrefixOfAppend ==
  ASSUME NEW S, NEW s \in Seq(S), NEW t \in Seq(S), NEW c \in S,
         IsPrefix(s, Append(t, c)), s # Append(t, c)
  PROVE  IsPrefix(s, t)
<1> DEFINE u == Append(t, c)
<1>1. /\ u \in Seq(S) /\ Len(u) = Len(t) + 1 /\ \A n \in 1..Len(t) : u[n] = t[n]
  BY AppendProperties
<1>6. IsPrefix(s, u) /\ s # u
  OBVIOUS
<1> HIDE DEF u
<1>2. Len(s) <= Len(u) /\ \A n \in 1..Len(s) : s[n] = u[n]
  BY <1>1, <1>6, PrefixElements
<1>3. Len(s) # Len(u)
  BY <1>1, <1>2, <1>6, SeqEqual
<1>4. Len(s) <= Len(t) /\ Len(s) \in Nat /\ Len(t) \in Nat
  BY <1>1, <1>2, <1>3
<1>5. \A n \in 1..Len(s) : s[n] = t[n]
  BY <1>1, <1>2, <1>4
<1> QED
  BY <1>4, <1>5, PrefixElements

(* Who moves the branch. *)
LEMMA BranchMoves ==
  ASSUME TypeInv, [Next]_vars
  PROVE  \/ UNCHANGED branch
         \/ UserDrops \/ \E c \in UserCommit : UserPushes(c)
         \/ \E w \in Worker : Push(w)
<1>1. ASSUME NEW w \in Worker, Step(w) PROVE UNCHANGED branch \/ Push(w)
  BY <1>1 DEF Step, Start, ReadPlan, Park, NoPatch, CheckHead, Apply, Verify, Ensure, Reply,
              Resolve, Mark, Report, Finish, Settle, Fails, Die, github
<1>2. ASSUME Others
      PROVE  UNCHANGED branch \/ UserDrops \/ \E c \in UserCommit : UserPushes(c)
  BY <1>2 DEF Others, ReconcileReads, ReconcileActs, WebhookMovesHead, Expire, Cancel, Skip,
              Approve, github
<1> QED
  BY <1>1, <1>2 DEF Next, vars, github

(* A push that goes through adds one commit to the head as the run read it, which holds
   every commit of the branch. *)
LEMMA PushExtends ==
  ASSUME TypeInv, NEW w \in Worker, Push(w), branch' # branch
  PROVE  /\ branch' = Append(run[w].head, [by |-> w, what |-> run[w].item])
         /\ IsPrefix(branch, run[w].head)
<1>1. run[w].phase = "pushing" /\ IsPrefix(branch, run[w].local) /\ branch' = run[w].local
  BY DEF Push
<1>2. run[w].local = Append(run[w].head, [by |-> w, what |-> run[w].item])
  BY <1>1 DEF Built, TypeInv, RunsOK, RunOK, RunIsBuilt
<1>3. [by |-> w, what |-> run[w].item] \in Commit
  BY <1>1, PushedItem DEF Commit
<1>4. branch \in Seq(Commit) /\ run[w].head \in Seq(Commit)
  <2>1. run[w] \in Run
    BY DEF TypeInv, TypeOK
  <2> QED
    BY <2>1 DEF Run, History, TypeInv, TypeOK
<1>5. IsPrefix(branch, run[w].head)
  BY <1>1, <1>2, <1>3, <1>4, PrefixOfAppend
<1> QED
  BY <1>1, <1>2, <1>5

(* A worker changes the branch only to the head it cloned and one commit of its own on
   top, and only when the branch holds nothing else than that head: git refuses a push
   that is not a fast-forward.  The branch need not be that head: where somebody dropped
   commits the push is a fast-forward too, and takes them back. *)
THEOREM RepairsExtendTheBranch == Spec => RepairExtendsBranch
<1>1. TypeInv /\ [Next]_vars =>
        [\A w \in Worker :
           branch' # branch /\ run'[w] # run[w] =>
             /\ branch' = Append(run[w].head, [by |-> w, what |-> run[w].item])
             /\ IsPrefix(branch, run[w].head)]_vars
  <2> SUFFICES ASSUME TypeInv, [Next]_vars, NEW w \in Worker,
                      branch' # branch, run'[w] # run[w]
               PROVE  /\ branch' = Append(run[w].head, [by |-> w, what |-> run[w].item])
                      /\ IsPrefix(branch, run[w].head)
    OBVIOUS
  <2>1. PICK v \in Worker : Push(v)
    BY BranchMoves DEF UserPushes, UserDrops
  <2>2. v = w
    <3>1. PICK n \in Run : run' = [run EXCEPT ![v] = n]
      BY <2>1, BoardStep, PushMoves DEF RunMoves
    <3> QED
      BY <3>1 DEF TypeInv, TypeOK
  <2> QED
    BY <2>1, <2>2, PushExtends
<1> QED
  BY <1>1, InitType, TypeStep, PTL DEF Spec, RepairExtendsBranch

-----------------------------------------------------------------------------
(* The jobs of repairs are moved as the board of jobs promises. *)

LEMMA ExecutorStep == TypeInv /\ ExecutorExecutes /\ [Next]_vars => ExecutorExecutes'
<1> SUFFICES ASSUME TypeInv, ExecutorExecutes, [Next]_vars PROVE ExecutorExecutes'
  OBVIOUS
<1>1. CASE UNCHANGED board
  BY <1>1 DEF ExecutorExecutes, board
<1>2. ASSUME NEW j \in Job, NEW to, NEW w, Goes(j, to, w), w # None => to = "executing"
      PROVE  ExecutorExecutes'
  BY <1>2 DEF Goes, ExecutorExecutes, TypeInv, TypeOK
<1>3. ASSUME NEW w \in Worker, Park(w) \/ Settle(w)
      PROVE  \E j \in Job : \E to \in Open \union Settled : Goes(j, to, None)
  <2>1. run[w].job \in Job
    BY <1>3 DEF Park, Settle, TypeInv, RunsOK, RunOK, RunHasJob
  <2> QED
    BY <1>3, <2>1, SettlesEnded DEF Park, Settle, Open
<1>4. ASSUME NEW w \in Worker, Step(w) PROVE ExecutorExecutes'
  <2>1. CASE \/ ReadPlan(w) \/ NoPatch(w) \/ CheckHead(w) \/ Apply(w) \/ Verify(w) \/ Ensure(w)
             \/ Push(w) \/ Reply(w) \/ Resolve(w) \/ Mark(w)
             \/ Report(w) \/ Finish(w) \/ Fails(w) \/ Die(w)
    BY <1>1, <2>1 DEF ReadPlan, NoPatch, CheckHead, Apply, Verify, Ensure, Push, Reply,
                      Resolve, Mark, Report, Finish, Fails, Die, Elsewhere
  <2>2. ASSUME NEW j \in Job, Start(w, j) PROVE ExecutorExecutes'
    BY <1>2, <2>2 DEF Start
  <2> QED
    BY <1>2, <1>3, <1>4, <2>1, <2>2 DEF Step
<1>5. CASE Others
  <2>1. \/ UNCHANGED board
        \/ \E j \in Job : \E to \in Open \union Settled : Goes(j, to, None)
    BY <1>5 DEF Others, ReconcileReads, ReconcileActs, WebhookMovesHead, UserPushes, UserDrops,
                Expire, Cancel, Skip, Approve, Enqueue, Open, Settled
  <2> QED
    BY <1>1, <1>2, <2>1
<1> QED
  BY <1>1, <1>4, <1>5 DEF Next, vars

(* One job moves, the others keep their places and their identities. *)
LEMMA GoesIsMove ==
  ASSUME TypeOK, NEW j \in Job, NEW to \in Open \union Settled, NEW w \in Worker \union {None},
         Goes(j, to, w),
         \A k \in Job \ {j} : plan'[k].kind = plan[k].kind,
         \/ /\ status[j] = "absent" /\ to = "queued" /\ w = None
            /\ plan'[j].kind \in Kinds
            /\ \A k \in Job : status[k] \in Open => plan[k].kind # plan'[j].kind
         \/ /\ plan'[j].kind = plan[j].kind
            /\ \/ status[j] \in {"queued", "orphaned"} /\ to = "executing" /\ w \in Worker
               \/ status[j] = "executing" /\ to = "orphaned" /\ w = None
               \/ status[j] = "executing" /\ to \in {"succeeded", "waiting"} /\ w = None
               \/ /\ status[j] \in {"executing", "queued", "orphaned"} /\ to = "failed"
                  /\ w = None
               \/ /\ status[j] \in {"executing", "orphaned", "waiting"} /\ to = "queued"
                  /\ w = None
               \/ status[j] \in Open /\ to = "cancelled" /\ w = None
  PROVE  Board!BoardNext
<1> USE DEF Board!Goes, Board!Open, Open
<1>1. /\ status'[j] = to /\ executor'[j] = w
      /\ \A k \in Job \ {j} : status'[k] = status[k] /\ executor'[k] = executor[k]
  BY DEF Goes, TypeOK
<1>2. \A k \in Job : kindOf[k] = plan[k].kind /\ kindOf'[k] = plan'[k].kind
  BY DEF kindOf
<1>3. \A k \in Job \ {j} : Board!Move(k) /\ ~Board!Submit(k)
  <2> SUFFICES ASSUME NEW k \in Job \ {j} PROVE Board!Move(k) /\ ~Board!Submit(k)
    OBVIOUS
  <2>1. Board!Keep(k) /\ kindOf'[k] = kindOf[k]
    BY <1>1, <1>2 DEF Board!Keep
  <2>2. ~Board!Submit(k)
    BY <1>1 DEF Board!Submit
  <2> QED
    BY <2>1, <2>2 DEF Board!Move
<1>4. Board!Move(j)
  <2>1. CASE /\ status[j] = "absent" /\ to = "queued" /\ w = None
             /\ plan'[j].kind \in Kinds
             /\ \A k \in Job : status[k] \in Open => plan[k].kind # plan'[j].kind
    BY <1>1, <1>2, <2>1 DEF Board!Move, Board!Submit
  <2>2. CASE plan'[j].kind = plan[j].kind /\ status[j] # "absent"
    BY <1>1, <1>2, <2>2 DEF Board!Move, Board!Start, Board!Orphan, Board!Report, Board!Fail,
                            Board!Requeue, Board!Cancel
  <2> QED
    BY <2>1, <2>2
<1> QED
  BY <1>3, <1>4 DEF Board!BoardNext

LEMMA BoardRefined ==
  ASSUME TypeInv, ExecutorExecutes, [Next]_vars
  PROVE  [Board!BoardNext]_(Board!boardVars)
<1> DEFINE Kept == \A k \in Job : plan'[k].kind = plan[k].kind
<1>1. TypeOK /\ (UNCHANGED <<board, plan>> => UNCHANGED Board!boardVars)
  BY DEF TypeInv, Board!boardVars, board, kindOf
<1>2. ASSUME NEW kind \in Kinds, NEW items, Enqueue(kind, items)
      PROVE  Board!BoardNext
  <2>1. PICK j \in Job :
          /\ status[j] = "absent" /\ Goes(j, "queued", None)
          /\ plan' = [plan EXCEPT ![j] = [kind |-> kind, items |-> items, skipped |-> {},
                                          approved |-> FALSE, attempt |-> 0]]
    BY <1>2 DEF Enqueue
  <2>2. plan'[j].kind = kind /\ \A k \in Job \ {j} : plan'[k].kind = plan[k].kind
    BY <1>1, <2>1 DEF TypeOK
  <2>3. \A k \in Job : status[k] \in Open => plan[k].kind # kind
    BY <1>2 DEF Enqueue
  <2>4. "queued" \in Open
    BY DEF Open
  <2> QED
    BY <1>1, <2>1, <2>2, <2>3, <2>4, GoesIsMove
<1>3. ASSUME NEW j \in Job, Expire(j) \/ Cancel(j) PROVE Board!BoardNext
  <2>1. Kept
    BY <1>3 DEF Expire, Cancel
  <2>2. CASE status[j] = "executing" /\ Goes(j, "orphaned", None)
    BY <1>1, <2>1, <2>2, GoesIsMove DEF Open
  <2>3. CASE status[j] \in {"queued", "orphaned"} /\ Goes(j, "failed", None)
    BY <1>1, <2>1, <2>3, GoesIsMove DEF Settled
  <2>4. CASE status[j] \in Open /\ Goes(j, "cancelled", None)
    BY <1>1, <2>1, <2>4, GoesIsMove DEF Settled
  <2> QED
    BY <1>3, <2>2, <2>3, <2>4 DEF Expire, Cancel
<1>4. ASSUME NEW j \in Job, Skip(j) \/ Approve(j) \/ \E w \in Worker : Start(w, j)
      PROVE  Kept
  <2>1. status[j] # "absent"
    BY <1>4 DEF Skip, Approve, Start
  <2>2. plan'[j].kind = plan[j].kind
    BY <2>1, BoardStep DEF PlansGrow
  <2>3. \A k \in Job \ {j} : plan'[k] = plan[k]
    <3>1. CASE Skip(j)
      BY <1>1, <3>1 DEF Skip, TypeOK
    <3>2. CASE Approve(j) \/ \E w \in Worker : Start(w, j)
      BY <1>1, <3>2 DEF Approve, Start, TypeOK
    <3> QED
      BY <1>4, <3>1, <3>2
  <2> QED
    BY <2>2, <2>3
<1>5. ASSUME NEW j \in Job, Skip(j) \/ Approve(j) PROVE Board!BoardNext
  <2>1. Kept
    BY <1>4, <1>5
  <2> QED
    BY <1>1, <1>5, <2>1, GoesIsMove DEF Skip, Approve, Open
<1>6. ASSUME NEW w \in Worker, NEW j \in Job, Start(w, j) PROVE Board!BoardNext
  <2>1. Kept
    BY <1>4, <1>6
  <2> QED
    BY <1>1, <1>6, <2>1, GoesIsMove DEF Start, Open
<1>7. ASSUME NEW w \in Worker, Park(w) \/ Settle(w) PROVE Board!BoardNext
  <2>1. run[w].job \in Job /\ executor[run[w].job] # None
    BY <1>7, RepairRunAssumption
       DEF Park, Settle, HoldsLease, TypeInv, RunsOK, RunOK, RunHasJob
  <2>2. status[run[w].job] = "executing"
    BY <2>1 DEF ExecutorExecutes
  <2>3. Kept
    BY <1>7 DEF Park, Settle
  <2>4. \E to \in {"waiting", "succeeded", "failed"} : Goes(run[w].job, to, None)
    <3>1. ASSUME Settle(w) PROVE run[w].ends \in {"succeeded", "failed"}
      <4>1. run[w] \in Run /\ run[w].ends # None
        BY <3>1 DEF Settle, TypeInv, TypeOK, RunsOK, RunOK, RunHasEnd, Reporting
      <4> QED
        BY <4>1 DEF Run
    <3> QED
      BY <1>7, <3>1 DEF Park, Settle
  <2> QED
    BY <1>1, <2>1, <2>2, <2>3, <2>4, GoesIsMove DEF Open, Settled
<1>8. ASSUME NEW w \in Worker, Step(w) PROVE [Board!BoardNext]_(Board!boardVars)
  <2>1. CASE \/ ReadPlan(w) \/ NoPatch(w) \/ CheckHead(w) \/ Apply(w) \/ Verify(w) \/ Ensure(w)
             \/ Push(w) \/ Reply(w) \/ Resolve(w) \/ Mark(w)
             \/ Report(w) \/ Finish(w) \/ Fails(w) \/ Die(w)
    <3>1. UNCHANGED <<board, plan>>
      BY <2>1 DEF ReadPlan, NoPatch, CheckHead, Apply, Verify, Ensure, Push, Reply,
                  Resolve, Mark, Report, Finish, Fails, Die, Elsewhere
    <3> QED
      BY <1>1, <3>1
  <2> QED
    BY <1>6, <1>7, <1>8, <2>1 DEF Step
<1>9. ASSUME Others PROVE [Board!BoardNext]_(Board!boardVars)
  <2>1. "feedback_repair" \in Kinds /\ "ci_repair" \in Kinds
    BY DEF Kinds
  <2>2. CASE \/ ReconcileReads \/ WebhookMovesHead \/ UserDrops
             \/ \E c \in UserCommit : UserPushes(c)
    BY <1>1, <2>2 DEF ReconcileReads, WebhookMovesHead, UserPushes, UserDrops
  <2>3. CASE ReconcileActs
    BY <1>1, <1>2, <2>1, <2>3 DEF ReconcileActs
  <2> QED
    BY <1>3, <1>5, <1>9, <2>2, <2>3 DEF Others
<1> QED
  BY <1>1, <1>8, <1>9 DEF Next, vars

(* The repairs see the queue as the board of jobs, and do to it only what the board
   allows: nothing moves a settled job, only the executor reports, two open jobs are never
   the same work. *)
THEOREM RepairsMoveLikeBoard == Spec => MovesLikeBoard
<1>1. Init => ExecutorExecutes /\ Board!BoardInit
  BY DEF Init, ExecutorExecutes, Board!BoardInit, kindOf, NoPlan
<1> QED
  BY <1>1, InitType, TypeStep, ExecutorStep, BoardRefined, PTL
     DEF Spec, MovesLikeBoard, Board!BoardSpec

=============================================================================
