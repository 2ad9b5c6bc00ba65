--------------------------- MODULE WorkPlanProofs ----------------------------
(***************************************************************************)
(* Theorems about WorkPlan, for every value of its constants.              *)
(***************************************************************************)
EXTENDS WorkPlan, SequenceTheorems, TLAPS

-----------------------------------------------------------------------------
(* The inductive invariant: what a run may rely on, by how far it is. *)

(* The handle of the run is a Check Run of its job. *)
Handled == {"commenting", "linking", "saving", "relinking", "updating", "working", "asking",
            "summarizing", "completing"}
RunHasCheck(w) ==
  run[w] # None /\ run[w].phase \in Handled =>
    run[w].check \in CheckId /\ checks[run[w].check].job = run[w].job

(* The job's row leads to a Check Run; the item is current as long as nobody skipped it,
   which takes the lease away. *)
Linked == {"saving", "updating", "working", "asking", "summarizing", "completing"}
RunIsLinked(w) ==
  run[w] # None /\ run[w].phase \in Linked =>
    link[run[w].job] # None /\ (HoldsLease(w) => current[run[w].job])

(* The comment exists, and from some phase on the store knows it. *)
Remembered == {"relinking", "updating", "working", "asking", "summarizing", "completing"}
RunIsSaved(w) ==
  run[w] # None =>
    /\ run[w].phase \in {"linking", "saving"} => comments[run[w].job] > 0
    /\ run[w].phase \in Remembered => saved[run[w].job]

(* A run that will report success has reported. *)
Reported(j) ==
  summaries[j] > 0 /\ \E c \in CheckId : checks[c].job = j /\ checks[c].completed
RunReports(w) ==
  run[w] # None =>
    /\ run[w].phase = "completing" => summaries[run[w].job] > 0
    /\ run[w].phase = "closing" /\ run[w].ok => Reported(run[w].job)

RunOK(w) == RunHasCheck(w) /\ RunIsLinked(w) /\ RunIsSaved(w) /\ RunReports(w)
RunsOK == \A w \in Worker : RunOK(w)

(* The rows of the store. *)
LinksLead == \A j \in Job : link[j] # None => checks[link[j]].job = j
SavedIsCommented == \A j \in Job : saved[j] => comments[j] > 0

(* Only a job that is executing has an executor. *)
ExecutorExecutes == \A j \in Job : executor[j] # None => status[j] = "executing"

(* A recorded control is about the job that the Check Run was made for. *)
ControlsLead ==
  /\ \A d \in DOMAIN clicks : clicks[d].check \in CheckId
  /\ \A j \in Job, d \in DOMAIN clicks : <<j, d>> \in controls => checks[clicks[d].check].job = j

(* A request that holds a control is the only one with it, and nobody acted on it. *)
Holding(h, d) == handler[h] # None /\ handler[h][2] = d
ControlsPend ==
  \A h \in Handler, d \in DOMAIN clicks : Holding(h, d) =>
    /\ handler[h] \in controls /\ clicks[d].valid /\ effects[d] = 0
    /\ \A g \in Handler : Holding(g, d) => g = h

(* What was done once was recorded. *)
EffectsCounted ==
  \A d \in 1..MaxClicks :
    effects[d] <= 1 /\ (effects[d] > 0 => \E j \in Job : <<j, d>> \in controls)

TypeInv == TypeOK /\ LinksLead /\ RunsOK

-----------------------------------------------------------------------------
(* Check Runs, rows and records. *)

GitHubType ==
  /\ checks \in Seq(CheckRun)
  /\ comments \in [Job -> Nat] /\ summaries \in [Job -> Nat]

StoreType ==
  /\ link \in [Job -> CheckId \union {None}]
  /\ current \in [Job -> BOOLEAN] /\ saved \in [Job -> BOOLEAN]

(* What exists on GitHub stays there, and what the store remembers of it too. *)
StoreGrows ==
  /\ \A c \in CheckId :
       /\ c \in CheckId' /\ checks'[c].job = checks[c].job
       /\ checks[c].completed => checks'[c].completed
  /\ \A j \in Job :
       /\ link[j] # None => link'[j] # None
       /\ saved[j] => saved'[j]
       /\ comments[j] > 0 => comments'[j] > 0
       /\ summaries[j] > 0 => summaries'[j] > 0

LEMMA ChecksAppend ==
  ASSUME TypeOK, NEW j \in Job, checks' = Append(checks, [job |-> j, completed |-> FALSE])
  PROVE  /\ checks' \in Seq(CheckRun)
         /\ Len(checks) + 1 \in CheckId' /\ checks'[Len(checks) + 1].job = j
         /\ \A c \in CheckId : c \in CheckId' /\ checks'[c] = checks[c]
<1>1. [job |-> j, completed |-> FALSE] \in CheckRun /\ checks \in Seq(CheckRun)
  BY DEF CheckRun, TypeOK
<1> QED
  BY <1>1 DEF CheckId

LEMMA ChecksComplete ==
  ASSUME TypeOK, NEW c \in CheckId, checks' = [checks EXCEPT ![c].completed = TRUE]
  PROVE  /\ checks' \in Seq(CheckRun) /\ CheckId' = CheckId
         /\ checks'[c].completed
         /\ \A b \in CheckId : /\ checks'[b].job = checks[b].job
                               /\ checks[b].completed => checks'[b].completed
<1>1. checks \in Seq(CheckRun) /\ c \in 1..Len(checks)
  BY DEF TypeOK, CheckId
<1>2. checks[c] \in CheckRun
  BY <1>1
<1> DEFINE n == [checks[c] EXCEPT !.completed = TRUE]
<1>3. n \in CheckRun /\ n.job = checks[c].job /\ n.completed
  BY <1>2 DEF CheckRun
<1>4. checks' = [checks EXCEPT ![c] = n]
  OBVIOUS
<1> HIDE DEF n
<1>5. checks' \in Seq(CheckRun) /\ Len(checks') = Len(checks)
  <2>1. Len(checks) \in Nat /\ checks \in [1..Len(checks) -> CheckRun]
    BY <1>1, LenProperties
  <2>2. checks' \in [1..Len(checks) -> CheckRun]
    BY <1>3, <1>4, <2>1
  <2>3. checks' \in Seq(CheckRun)
    BY <2>1, <2>2, SeqDef
  <2>4. DOMAIN checks' = 1..Len(checks) /\ DOMAIN checks' = 1..Len(checks')
        /\ Len(checks') \in Nat
    BY <2>2, <2>3, LenProperties
  <2> QED
    BY <2>1, <2>3, <2>4
<1>6. checks'[c] = n /\ \A b \in CheckId \ {c} : checks'[b] = checks[b]
  BY <1>1, <1>4 DEF CheckId
<1> QED
  BY <1>1, <1>3, <1>5, <1>6 DEF CheckId

(* The record of a run, and what a step makes of it. *)
LEMMA RunRecord ==
  ASSUME TypeOK, NEW w \in Worker, run[w] # None
  PROVE  /\ run[w] \in Run /\ run[w].job \in Job
         /\ run[w].check \in Nat \union {None} /\ run[w].ok \in BOOLEAN
         /\ run[w].phase \in Phases
BY DEF TypeOK, Run

Became(w, phase, check, ok) ==
  /\ run' \in [Worker -> Run \union {None}]
  /\ \A v \in Worker \ {w} : run'[v] = run[v]
  /\ run'[w] # None /\ run'[w].job = run[w].job
  /\ run'[w].phase = phase /\ run'[w].check = check /\ run'[w].ok = ok

LEMMA RunFields ==
  ASSUME TypeOK, NEW w \in Worker, run[w] # None, NEW phase \in Phases,
         NEW check \in Nat \union {None}, NEW ok \in BOOLEAN
  PROVE  /\ run' = [run EXCEPT ![w].phase = phase] =>
              Became(w, phase, run[w].check, run[w].ok)
         /\ run' = [run EXCEPT ![w].phase = phase, ![w].ok = ok] =>
              Became(w, phase, run[w].check, ok)
         /\ run' = [run EXCEPT ![w].phase = phase, ![w].check = check] =>
              Became(w, phase, check, run[w].ok)
<1>1. run[w] \in Run /\ run \in [Worker -> Run \union {None}]
  BY RunRecord DEF TypeOK
<1>2. ASSUME NEW n \in Run, run' = [run EXCEPT ![w] = n], n.job = run[w].job
      PROVE  Became(w, n.phase, n.check, n.ok)
  BY <1>1, <1>2, NoneIsNoRun DEF Became
<1>3. ASSUME run' = [run EXCEPT ![w].phase = phase]
      PROVE  Became(w, phase, run[w].check, run[w].ok)
  <2> DEFINE n == [run[w] EXCEPT !.phase = phase]
  <2>1. n \in Run /\ n.job = run[w].job /\ n.phase = phase /\ n.check = run[w].check
        /\ n.ok = run[w].ok
    BY <1>1 DEF Run
  <2>2. run' = [run EXCEPT ![w] = n]
    BY <1>1, <1>3
  <2> HIDE DEF n
  <2> QED
    BY <1>2, <2>1, <2>2
<1>4. ASSUME run' = [run EXCEPT ![w].phase = phase, ![w].ok = ok]
      PROVE  Became(w, phase, run[w].check, ok)
  <2> DEFINE n == [run[w] EXCEPT !.phase = phase, !.ok = ok]
  <2>1. n \in Run /\ n.job = run[w].job /\ n.phase = phase /\ n.check = run[w].check
        /\ n.ok = ok
    BY <1>1 DEF Run
  <2>2. run' = [run EXCEPT ![w] = n]
    BY <1>1, <1>4
  <2> HIDE DEF n
  <2> QED
    BY <1>2, <2>1, <2>2
<1>5. ASSUME run' = [run EXCEPT ![w].phase = phase, ![w].check = check]
      PROVE  Became(w, phase, check, run[w].ok)
  <2> DEFINE n == [run[w] EXCEPT !.phase = phase, !.check = check]
  <2>1. n \in Run /\ n.job = run[w].job /\ n.phase = phase /\ n.check = check
        /\ n.ok = run[w].ok
    BY <1>1 DEF Run
  <2>2. run' = [run EXCEPT ![w] = n]
    BY <1>1, <1>5
  <2> HIDE DEF n
  <2> QED
    BY <1>2, <2>1, <2>2
<1> QED
  BY <1>3, <1>4, <1>5

-----------------------------------------------------------------------------
(* Runs. *)

(* The others do not make a run rely on what no longer holds. *)
LEMMA RunKept ==
  ASSUME TypeInv, StoreGrows, NEW v \in Worker, run'[v] = run[v],
         run[v] # None /\ HoldsLease(v)' =>
           HoldsLease(v) /\ (current[run[v].job] => current'[run[v].job])
  PROVE  RunOK(v)'
<1> SUFFICES ASSUME run[v] # None PROVE RunOK(v)'
  BY DEF RunOK, RunHasCheck, RunIsLinked, RunIsSaved, RunReports
<1>1. RunOK(v) /\ run[v].job \in Job
  BY RunRecord DEF TypeInv, RunsOK
<1>2. RunHasCheck(v)'
  BY <1>1 DEF RunOK, RunHasCheck, StoreGrows
<1>3. RunIsLinked(v)'
  BY <1>1 DEF RunOK, RunIsLinked, StoreGrows
<1>4. RunIsSaved(v)'
  BY <1>1 DEF RunOK, RunIsSaved, StoreGrows
<1>5. Reported(run[v].job) => Reported(run[v].job)'
  <2>1. UNCHANGED run[v].job
    OBVIOUS
  <2> QED
    BY <1>1, <2>1 DEF Reported, StoreGrows
<1>6. RunReports(v)'
  BY <1>1, <1>5 DEF RunOK, RunReports, StoreGrows
<1> QED
  BY <1>2, <1>3, <1>4, <1>6 DEF RunOK

(* The run of w moves, its new record relies on what is true, and what it writes has its
   type and takes nothing back. *)
RunMoves(w) ==
  /\ run' \in [Worker -> Run \union {None}]
  /\ \A v \in Worker \ {w} : run'[v] = run[v]
  /\ RunOK(w)'
  /\ StoreGrows /\ \A j \in Job : current[j] => current'[j]
  /\ GitHubType' /\ StoreType' /\ LinksLead'

LEMMA QuietStore ==
  ASSUME TypeInv, UNCHANGED <<github, store>>
  PROVE  /\ StoreGrows /\ \A j \in Job : current[j] => current'[j]
         /\ GitHubType' /\ StoreType' /\ LinksLead'
<1>1. UNCHANGED <<checks, comments, summaries, link, current, saved>>
  BY DEF github, store
<1> QED
  BY <1>1 DEF TypeInv, TypeOK, StoreGrows, GitHubType, StoreType, LinksLead, CheckId

LEMMA RestsMoves ==
  ASSUME TypeInv, NEW w \in Worker, UNCHANGED <<github, store>>,
         run' = [run EXCEPT ![w] = None]
  PROVE  RunMoves(w)
<1>1. /\ run' \in [Worker -> Run \union {None}] /\ run'[w] = None
      /\ \A v \in Worker \ {w} : run'[v] = run[v]
  BY DEF TypeInv, TypeOK
<1>2. RunOK(w)'
  BY <1>1 DEF RunOK, RunHasCheck, RunIsLinked, RunIsSaved, RunReports
<1> QED
  BY <1>1, <1>2, QuietStore DEF RunMoves

(* A run that gave up relies on nothing. *)
LEMMA GaveUp ==
  ASSUME TypeInv, NEW w \in Worker, run[w] # None, GivesUp(w)
  PROVE  /\ RunOK(w)' /\ run' \in [Worker -> Run \union {None}]
         /\ \A v \in Worker \ {w} : run'[v] = run[v]
<1>1. Became(w, "closing", run[w].check, FALSE)
  BY RunRecord, RunFields DEF TypeInv, GivesUp, Phases
<1>2. RunOK(w)'
  BY <1>1 DEF Became, RunOK, RunHasCheck, RunIsLinked, RunIsSaved, RunReports,
              Handled, Linked, Remembered
<1> QED
  BY <1>1, <1>2 DEF Became

LEMMA BeginMoves ==
  ASSUME TypeInv, NEW w \in Worker, Begin(w)
  PROVE  RunMoves(w)
<1> DEFINE j == run[w].job
           phase == IF link[j] # None /\ saved[j] THEN "relinking" ELSE "creating"
           check == IF saved[j] THEN link[j] ELSE None
<1>1. run[w] # None /\ UNCHANGED <<github, store>> /\ j \in Job
  BY RunRecord DEF Begin, In, TypeInv
<1>2. run' = [run EXCEPT ![w].phase = phase, ![w].check = check]
  BY DEF Begin
<1>3. link[j] \in CheckId \union {None} /\ CheckId \subseteq Nat
  BY <1>1 DEF TypeInv, TypeOK, CheckId
<1>4. phase \in Phases /\ check \in Nat \union {None}
  BY <1>3 DEF Phases
<1>5. phase = "relinking" => check \in CheckId /\ checks[check].job = j /\ saved[j]
  BY <1>1, <1>3 DEF TypeInv, LinksLead
<1>6. phase \in {"relinking", "creating"}
  OBVIOUS
<1> HIDE DEF phase, check
<1>7. Became(w, phase, check, run[w].ok)
  BY <1>1, <1>2, <1>4, RunRecord, RunFields DEF TypeInv
<1>8. UNCHANGED <<checks, saved>>
  BY <1>1 DEF github, store
<1>9. RunHasCheck(w)' /\ RunIsSaved(w)'
  BY <1>5, <1>6, <1>7, <1>8
     DEF Became, RunHasCheck, RunIsSaved, Handled, Remembered, CheckId
<1>10. RunIsLinked(w)' /\ RunReports(w)'
  BY <1>6, <1>7 DEF Became, RunIsLinked, RunReports, Linked
<1> QED
  BY <1>1, <1>7, <1>9, <1>10, QuietStore DEF Became, RunMoves, RunOK

LEMMA CreateCheckRunMoves ==
  ASSUME TypeInv, NEW w \in Worker, CreateCheckRun(w)
  PROVE  RunMoves(w)
<1> DEFINE j == run[w].job
<1>1. run[w] # None /\ j \in Job /\ Len(checks) + 1 \in Nat
  BY RunRecord DEF CreateCheckRun, In, TypeInv, TypeOK
<1>2. /\ checks' \in Seq(CheckRun)
      /\ Len(checks) + 1 \in CheckId' /\ checks'[Len(checks) + 1].job = j
      /\ \A c \in CheckId : c \in CheckId' /\ checks'[c] = checks[c]
  BY <1>1, ChecksAppend DEF CreateCheckRun, TypeInv
<1>3. Became(w, "commenting", Len(checks) + 1, run[w].ok)
  BY <1>1, RunRecord, RunFields DEF CreateCheckRun, TypeInv, Phases
<1>4. UNCHANGED <<comments, summaries, link, current, saved>>
  BY DEF CreateCheckRun, store
<1>5. RunOK(w)'
  BY <1>2, <1>3 DEF Became, RunOK, RunHasCheck, RunIsLinked, RunIsSaved, RunReports,
                    Linked, Remembered
<1>6. StoreGrows /\ GitHubType' /\ StoreType' /\ LinksLead'
  BY <1>2, <1>4
     DEF StoreGrows, GitHubType, StoreType, LinksLead, TypeInv, TypeOK
<1> QED
  BY <1>3, <1>4, <1>5, <1>6 DEF Became, RunMoves

LEMMA CreateCommentMoves ==
  ASSUME TypeInv, NEW w \in Worker, CreateComment(w)
  PROVE  RunMoves(w)
<1> DEFINE j == run[w].job
<1>1. run[w] # None /\ j \in Job /\ run[w].phase = "commenting"
  BY RunRecord DEF CreateComment, In, TypeInv
<1>2. Became(w, "linking", run[w].check, run[w].ok)
  BY <1>1, RunRecord, RunFields DEF CreateComment, Enters, TypeInv, Phases
<1>3. UNCHANGED <<checks, summaries, link, current, saved>>
  BY DEF CreateComment, store
<1>4. /\ comments' \in [Job -> Nat] /\ comments'[j] > 0
      /\ \A k \in Job : comments[k] > 0 => comments'[k] > 0
  BY <1>1 DEF CreateComment, TypeInv, TypeOK
<1>5. run[w].check \in CheckId /\ checks[run[w].check].job = j
  BY <1>1 DEF TypeInv, RunsOK, RunOK, RunHasCheck, Handled
<1>6. RunOK(w)'
  BY <1>2, <1>3, <1>4, <1>5
     DEF Became, RunOK, RunHasCheck, RunIsLinked, RunIsSaved, RunReports, Linked, Remembered,
         CheckId
<1>7. StoreGrows /\ GitHubType' /\ StoreType' /\ LinksLead'
  BY <1>3, <1>4
     DEF StoreGrows, GitHubType, StoreType, LinksLead, TypeInv, TypeOK, CheckId
<1> QED
  BY <1>2, <1>3, <1>6, <1>7 DEF Became, RunMoves

LEMMA LinkMoves ==
  ASSUME TypeInv, NEW w \in Worker, Link(w)
  PROVE  RunMoves(w)
<1> DEFINE j == run[w].job
           phase == IF In(w, "linking") THEN "saving" ELSE "updating"
<1>1. run[w] # None /\ j \in Job /\ run[w].phase \in {"linking", "relinking"}
  BY RunRecord DEF Link, In, TypeInv
<1>2. /\ run[w].phase = "linking" => phase = "saving"
      /\ run[w].phase = "relinking" => phase = "updating"
      /\ phase \in Phases /\ run' = [run EXCEPT ![w].phase = phase]
  BY <1>1 DEF Link, In, Enters, Phases
<1> HIDE DEF phase
<1>3. Became(w, phase, run[w].check, run[w].ok)
  BY <1>1, <1>2, RunRecord, RunFields DEF TypeInv
<1>4. UNCHANGED <<checks, comments, summaries, saved>>
  BY DEF Link, github
<1>5. run[w].check \in CheckId /\ checks[run[w].check].job = j
  BY <1>1 DEF TypeInv, RunsOK, RunOK, RunHasCheck, Handled
<1>6. CheckId \subseteq Nat /\ run[w].check # None
  BY <1>5, WorkPlanAssumption DEF CheckId, TypeInv, TypeOK
<1>7. /\ link' = [link EXCEPT ![j] = run[w].check] /\ current' = [current EXCEPT ![j] = TRUE]
  BY DEF Link
<1>8. /\ link' \in [Job -> CheckId \union {None}] /\ link'[j] = run[w].check
      /\ \A k \in Job \ {j} : link'[k] = link[k]
      /\ current' \in [Job -> BOOLEAN] /\ current'[j] /\ \A k \in Job : current[k] => current'[k]
  BY <1>1, <1>5, <1>7 DEF TypeInv, TypeOK
<1>9. StoreGrows /\ GitHubType' /\ StoreType' /\ LinksLead'
  BY <1>4, <1>5, <1>6, <1>8
     DEF StoreGrows, GitHubType, StoreType, LinksLead, TypeInv, TypeOK, CheckId
<1>10. RunHasCheck(w)' /\ RunIsLinked(w)'
  BY <1>3, <1>4, <1>5, <1>6, <1>8 DEF Became, RunHasCheck, RunIsLinked, CheckId
<1>11. /\ run[w].phase = "linking" => comments[j] > 0
       /\ run[w].phase = "relinking" => saved[j]
  BY <1>1 DEF TypeInv, RunsOK, RunOK, RunIsSaved, Remembered
<1>12. RunIsSaved(w)' /\ RunReports(w)'
  BY <1>1, <1>2, <1>3, <1>4, <1>11 DEF Became, RunIsSaved, RunReports, Remembered
<1> QED
  BY <1>3, <1>8, <1>9, <1>10, <1>12 DEF Became, RunMoves, RunOK

LEMMA SaveCommentMoves ==
  ASSUME TypeInv, NEW w \in Worker, SaveComment(w)
  PROVE  RunMoves(w)
<1> DEFINE j == run[w].job
<1>1. run[w] # None /\ j \in Job /\ run[w].phase \in {"saving", "updating"}
  BY RunRecord DEF SaveComment, In, TypeInv
<1>2. Became(w, "working", run[w].check, run[w].ok)
  BY <1>1, RunRecord, RunFields DEF SaveComment, Enters, TypeInv, Phases
<1>3. UNCHANGED <<checks, comments, summaries, link, current, executor>>
  BY DEF SaveComment, github, board
<1>4. /\ saved' \in [Job -> BOOLEAN] /\ saved'[j]
      /\ \A k \in Job : saved[k] => saved'[k]
  BY <1>1 DEF SaveComment, TypeInv, TypeOK
<1>5. /\ run[w].check \in CheckId /\ checks[run[w].check].job = j
      /\ link[j] # None /\ (HoldsLease(w) => current[j])
  BY <1>1 DEF TypeInv, RunsOK, RunOK, RunHasCheck, RunIsLinked, Handled, Linked
<1>6. RunOK(w)'
  BY <1>2, <1>3, <1>4, <1>5
     DEF Became, RunOK, RunHasCheck, RunIsLinked, RunIsSaved, RunReports, HoldsLease, CheckId
<1>7. StoreGrows /\ GitHubType' /\ StoreType' /\ LinksLead'
  BY <1>3, <1>4
     DEF StoreGrows, GitHubType, StoreType, LinksLead, TypeInv, TypeOK, CheckId
<1> QED
  BY <1>2, <1>3, <1>6, <1>7 DEF Became, RunMoves

LEMMA WorkMoves ==
  ASSUME TypeInv, NEW w \in Worker, Work(w)
  PROVE  RunMoves(w)
<1> DEFINE j == run[w].job
<1>1. run[w] # None /\ j \in Job /\ run[w].phase = "working" /\ UNCHANGED <<github, store>>
  BY RunRecord DEF Work, In, TypeInv
<1>2. PICK phase \in {"asking", "summarizing"}, ok \in BOOLEAN :
        Became(w, phase, run[w].check, ok)
  <2>1. CASE Enters(w, "asking")
    BY <1>1, <2>1, RunRecord, RunFields DEF Enters, TypeInv, Phases
  <2>2. CASE \E ok \in BOOLEAN : run' = [run EXCEPT ![w].phase = "summarizing", ![w].ok = ok]
    <3>1. PICK ok \in BOOLEAN : run' = [run EXCEPT ![w].phase = "summarizing", ![w].ok = ok]
      BY <2>2
    <3>2. Became(w, "summarizing", run[w].check, ok)
      BY <1>1, <3>1, RunRecord, RunFields DEF TypeInv, Phases
    <3> QED
      BY <3>2
  <2> QED
    BY <2>1, <2>2 DEF Work
<1>3. UNCHANGED <<checks, comments, summaries, link, current, saved, executor>>
  BY DEF Work, github, store, board
<1>4. /\ run[w].check \in CheckId /\ checks[run[w].check].job = j
      /\ link[j] # None /\ (HoldsLease(w) => current[j]) /\ saved[j]
  BY <1>1 DEF TypeInv, RunsOK, RunOK, RunHasCheck, RunIsLinked, RunIsSaved, Handled, Linked,
              Remembered
<1>5. RunOK(w)'
  BY <1>2, <1>3, <1>4
     DEF Became, RunOK, RunHasCheck, RunIsLinked, RunIsSaved, RunReports, HoldsLease, CheckId
<1> QED
  BY <1>1, <1>2, <1>5, QuietStore DEF Became, RunMoves

LEMMA SummarizeMoves ==
  ASSUME TypeInv, NEW w \in Worker, Summarize(w)
  PROVE  RunMoves(w)
<1> DEFINE j == run[w].job
<1>1. run[w] # None /\ j \in Job /\ run[w].phase = "summarizing"
  BY RunRecord DEF Summarize, In, TypeInv
<1>2. Became(w, "completing", run[w].check, run[w].ok)
  BY <1>1, RunRecord, RunFields DEF Summarize, Enters, TypeInv, Phases
<1>3. UNCHANGED <<checks, comments, link, current, saved, executor>>
  BY DEF Summarize, store, board
<1>4. /\ summaries' \in [Job -> Nat] /\ summaries'[j] > 0
      /\ \A k \in Job : summaries[k] > 0 => summaries'[k] > 0
  BY <1>1 DEF Summarize, TypeInv, TypeOK
<1>5. /\ run[w].check \in CheckId /\ checks[run[w].check].job = j
      /\ link[j] # None /\ (HoldsLease(w) => current[j]) /\ saved[j]
  BY <1>1 DEF TypeInv, RunsOK, RunOK, RunHasCheck, RunIsLinked, RunIsSaved, Handled, Linked,
              Remembered
<1>6. RunOK(w)'
  BY <1>2, <1>3, <1>4, <1>5
     DEF Became, RunOK, RunHasCheck, RunIsLinked, RunIsSaved, RunReports, HoldsLease, CheckId
<1>7. StoreGrows /\ GitHubType' /\ StoreType' /\ LinksLead'
  BY <1>3, <1>4
     DEF StoreGrows, GitHubType, StoreType, LinksLead, TypeInv, TypeOK, CheckId
<1> QED
  BY <1>2, <1>3, <1>6, <1>7 DEF Became, RunMoves

LEMMA CompleteMoves ==
  ASSUME TypeInv, NEW w \in Worker, Complete(w)
  PROVE  RunMoves(w)
<1> DEFINE j == run[w].job
<1>1. run[w] # None /\ j \in Job /\ run[w].phase = "completing"
  BY RunRecord DEF Complete, In, TypeInv
<1>2. Became(w, "closing", run[w].check, run[w].ok)
  BY <1>1, RunRecord, RunFields DEF Complete, Enters, TypeInv, Phases
<1>3. UNCHANGED <<comments, summaries, link, current, saved>>
  BY DEF Complete, store
<1>4. /\ run[w].check \in CheckId /\ checks[run[w].check].job = j /\ summaries[j] > 0
  BY <1>1 DEF TypeInv, RunsOK, RunOK, RunHasCheck, RunReports, Handled
<1>5. /\ checks' \in Seq(CheckRun) /\ CheckId' = CheckId
      /\ checks'[run[w].check].completed
      /\ \A b \in CheckId : /\ checks'[b].job = checks[b].job
                            /\ checks[b].completed => checks'[b].completed
  BY <1>4, ChecksComplete DEF Complete, TypeInv
<1>6. RunOK(w)'
  <2>1. RunReports(w)'
    BY <1>2, <1>3, <1>4, <1>5 DEF Became, RunReports, Reported
  <2> QED
    BY <1>2, <2>1 DEF Became, RunOK, RunHasCheck, RunIsLinked, RunIsSaved, Handled, Linked,
                      Remembered
<1>7. StoreGrows /\ GitHubType' /\ StoreType' /\ LinksLead'
  <2>1. StoreGrows /\ GitHubType' /\ StoreType'
    BY <1>3, <1>5 DEF StoreGrows, GitHubType, StoreType, TypeInv, TypeOK
  <2>2. \A k \in Job : link[k] # None => link[k] \in CheckId
    BY DEF TypeInv, TypeOK
  <2>3. LinksLead'
    BY <1>3, <1>5, <2>2 DEF LinksLead, TypeInv
  <2> QED
    BY <2>1, <2>3
<1> QED
  BY <1>2, <1>3, <1>6, <1>7 DEF Became, RunMoves

LEMMA FailsMoves ==
  ASSUME TypeInv, NEW w \in Worker, Fails(w)
  PROVE  RunMoves(w)
<1> DEFINE j == run[w].job
<1>1. run[w] # None /\ j \in Job /\ GivesUp(w) /\ UNCHANGED <<link, current, saved>>
  BY RunRecord DEF Fails, TypeInv, store
<1>2. /\ RunOK(w)' /\ run' \in [Worker -> Run \union {None}]
      /\ \A v \in Worker \ {w} : run'[v] = run[v]
  BY <1>1, GaveUp
<1>3. \A k \in Job : link[k] # None => link[k] \in CheckId
  BY DEF TypeInv, TypeOK
<1>4. StoreGrows /\ GitHubType' /\ StoreType' /\ LinksLead'
  <2>1. CASE UNCHANGED github
    BY <1>1, <2>1, QuietStore DEF store
  <2>2. CASE /\ checks' = Append(checks, [job |-> j, completed |-> FALSE])
             /\ UNCHANGED <<comments, summaries>>
    <3>1. /\ checks' \in Seq(CheckRun)
          /\ \A c \in CheckId : c \in CheckId' /\ checks'[c] = checks[c]
      BY <1>1, <2>2, ChecksAppend DEF TypeInv
    <3> QED
      BY <1>1, <2>2, <3>1
         DEF StoreGrows, GitHubType, StoreType, LinksLead, TypeInv, TypeOK
  <2>3. CASE /\ comments' = [comments EXCEPT ![j] = @ + 1]
             /\ UNCHANGED <<checks, summaries>>
    <3>1. /\ comments' \in [Job -> Nat]
          /\ \A k \in Job : comments[k] > 0 => comments'[k] > 0
      BY <1>1, <2>3 DEF TypeInv, TypeOK
    <3> QED
      BY <1>1, <2>3, <3>1
         DEF StoreGrows, GitHubType, StoreType, LinksLead, TypeInv, TypeOK, CheckId
  <2>4. CASE /\ summaries' = [summaries EXCEPT ![j] = @ + 1]
             /\ UNCHANGED <<checks, comments>>
    <3>1. /\ summaries' \in [Job -> Nat]
          /\ \A k \in Job : summaries[k] > 0 => summaries'[k] > 0
      BY <1>1, <2>4 DEF TypeInv, TypeOK
    <3> QED
      BY <1>1, <2>4, <3>1
         DEF StoreGrows, GitHubType, StoreType, LinksLead, TypeInv, TypeOK, CheckId
  <2>5. CASE /\ In(w, "completing") /\ checks' = [checks EXCEPT ![run[w].check].completed = TRUE]
             /\ UNCHANGED <<comments, summaries>>
    <3>1. run[w].check \in CheckId
      BY <1>1, <2>5 DEF In, TypeInv, RunsOK, RunOK, RunHasCheck, Handled
    <3>2. /\ checks' \in Seq(CheckRun) /\ CheckId' = CheckId
          /\ \A b \in CheckId : /\ checks'[b].job = checks[b].job
                                /\ checks[b].completed => checks'[b].completed
      BY <2>5, <3>1, ChecksComplete DEF TypeInv
    <3>3. StoreGrows /\ GitHubType' /\ StoreType'
      BY <1>1, <2>5, <3>2 DEF StoreGrows, GitHubType, StoreType, TypeInv, TypeOK
    <3>4. LinksLead'
      BY <1>1, <1>3, <3>2 DEF LinksLead, TypeInv
    <3> QED
      BY <3>3, <3>4
  <2> QED
    BY <2>1, <2>2, <2>3, <2>4, <2>5 DEF Fails
<1> QED
  BY <1>1, <1>2, <1>4 DEF RunMoves

-----------------------------------------------------------------------------
(* The board and the other runs. *)

BoardType ==
  /\ status \in [Job -> {"absent"} \union Open \union Settled]
  /\ executor \in [Job -> Worker \union {None}]
  /\ attempt \in [Job -> 0..MaxAttempts]

HumanType ==
  /\ clicks \in Seq(Click) /\ Len(clicks) <= MaxClicks
  /\ controls \subseteq Job \X DOMAIN clicks
  /\ handler \in [Handler -> (Job \X DOMAIN clicks) \union {None}]
  /\ effects \in [1..MaxClicks -> Nat]

(* Nobody but x gets a lease. *)
LeasesOnlyTo(x) == \A j \in Job : executor'[j] \in {executor[j], None, x}

LEMMA BoardGoes ==
  ASSUME TypeInv, NEW j \in Job, NEW to \in {"absent"} \union Open \union Settled,
         NEW x \in Worker \union {None}, Goes(j, to, x)
  PROVE  /\ status' \in [Job -> {"absent"} \union Open \union Settled]
         /\ executor' \in [Job -> Worker \union {None}]
         /\ status'[j] = to /\ executor'[j] = x
         /\ \A k \in Job \ {j} : status'[k] = status[k] /\ executor'[k] = executor[k]
         /\ LeasesOnlyTo(x)
BY DEF TypeInv, TypeOK, Goes, LeasesOnlyTo

LEMMA BoardStays ==
  ASSUME TypeInv, UNCHANGED board
  PROVE  BoardType' /\ LeasesOnlyTo(None)
BY DEF TypeInv, TypeOK, board, BoardType, LeasesOnlyTo

(* A run moves, and takes no lease from another nor gives it one. *)
LEMMA RunsKept ==
  ASSUME TypeInv, NEW w \in Worker, RunMoves(w), LeasesOnlyTo(w)
  PROVE  RunsOK'
<1> SUFFICES ASSUME NEW v \in Worker \ {w} PROVE RunOK(v)'
  BY DEF RunsOK, RunMoves
<1>1. run'[v] = run[v] /\ v # None
  BY WorkPlanAssumption DEF RunMoves
<1>2. ASSUME run[v] # None, HoldsLease(v)'
      PROVE  HoldsLease(v) /\ (current[run[v].job] => current'[run[v].job])
  <2>1. run[v].job \in Job
    BY <1>2, RunRecord DEF TypeInv
  <2> QED
    BY <1>1, <1>2, <2>1 DEF RunMoves, LeasesOnlyTo, HoldsLease
<1> QED
  BY <1>1, <1>2, RunKept DEF RunMoves

(* No run moves, and an item that is skipped takes the lease with it. *)
LEMMA RunsRest ==
  ASSUME TypeInv, UNCHANGED <<run, github, link, saved>>, LeasesOnlyTo(None),
         \A j \in Job : current[j] => current'[j] \/ executor'[j] = None
  PROVE  RunsOK'
<1> SUFFICES ASSUME NEW v \in Worker PROVE RunOK(v)'
  BY DEF RunsOK
<1>1. run'[v] = run[v] /\ v # None
  BY WorkPlanAssumption
<1>2. ASSUME run[v] # None, HoldsLease(v)'
      PROVE  HoldsLease(v) /\ (current[run[v].job] => current'[run[v].job])
  <2>1. run[v].job \in Job
    BY <1>2, RunRecord DEF TypeInv
  <2> QED
    BY <1>1, <1>2, <2>1 DEF LeasesOnlyTo, HoldsLease
<1>3. StoreGrows
  BY DEF StoreGrows, github, CheckId
<1> QED
  BY <1>1, <1>2, <1>3, RunKept

LEMMA StepMoves ==
  ASSUME TypeInv, NEW w \in Worker, Step(w) \/ Fails(w) \/ Die(w)
  PROVE  RunMoves(w) /\ LeasesOnlyTo(w) /\ BoardType' /\ UNCHANGED human
<1>1. CASE \/ Begin(w) \/ CreateCheckRun(w) \/ CreateComment(w) \/ Link(w) \/ SaveComment(w)
           \/ Work(w) \/ Summarize(w) \/ Complete(w) \/ LoseLease(w) \/ Fails(w) \/ Die(w)
  <2>1. UNCHANGED <<board, human>>
    BY <1>1 DEF Begin, CreateCheckRun, CreateComment, Link, SaveComment, Work, Summarize,
                Complete, LoseLease, Fails, Die, Untold
  <2>2. RunMoves(w)
    <3>1. CASE LoseLease(w) \/ Die(w)
      BY <3>1, RestsMoves DEF LoseLease, Die, Untold
    <3> QED
      BY <1>1, <3>1, BeginMoves, CreateCheckRunMoves, CreateCommentMoves, LinkMoves,
         SaveCommentMoves, WorkMoves, SummarizeMoves, CompleteMoves, FailsMoves
  <2> QED
    BY <2>1, <2>2, BoardStays DEF LeasesOnlyTo
<1>2. CASE MarkWaiting(w) \/ Close(w)
  <2>1. RunMoves(w) /\ UNCHANGED human /\ UNCHANGED attempt /\ run[w].job \in Job
    BY <1>2, RestsMoves, RunRecord DEF MarkWaiting, Close, Untold, In, TypeInv
  <2>2. CASE UNCHANGED <<status, executor>>
    BY <2>1, <2>2, BoardStays DEF board, LeasesOnlyTo
  <2>3. CASE \E to \in Open \union Settled : Goes(run[w].job, to, None)
    BY <2>1, <2>3, BoardGoes DEF BoardType, TypeInv, TypeOK, LeasesOnlyTo
  <2> QED
    BY <1>2, <2>2, <2>3 DEF MarkWaiting, Close, Open, Settled
<1> QED
  BY <1>1, <1>2 DEF Step

LEMMA LeaseMoves ==
  ASSUME TypeInv, NEW w \in Worker, NEW j \in Job, LeaseNext(w, j)
  PROVE  RunMoves(w) /\ LeasesOnlyTo(w) /\ BoardType' /\ UNCHANGED human
<1>1. UNCHANGED <<github, store, human>>
  BY DEF LeaseNext, Untold
<1>2. attempt' \in [Job -> 0..MaxAttempts]
  BY WorkPlanAssumption DEF LeaseNext, TypeInv, TypeOK
<1>3. BoardType' /\ LeasesOnlyTo(w)
  BY <1>2, BoardGoes DEF LeaseNext, BoardType, Open
<1> DEFINE n == [phase |-> "leased", job |-> j, check |-> None, ok |-> FALSE]
<1>4. n \in Run /\ n.phase = "leased"
  BY DEF Run, Phases
<1>5. run' = [run EXCEPT ![w] = n]
  BY DEF LeaseNext
<1> HIDE DEF n
<1>6. /\ run' \in [Worker -> Run \union {None}] /\ run'[w].phase = "leased"
      /\ \A v \in Worker \ {w} : run'[v] = run[v]
  BY <1>4, <1>5 DEF TypeInv, TypeOK
<1>7. RunOK(w)'
  BY <1>6 DEF RunOK, RunHasCheck, RunIsLinked, RunIsSaved, RunReports, Handled, Linked,
              Remembered
<1> QED
  BY <1>1, <1>3, <1>6, <1>7, QuietStore DEF RunMoves

LEMMA QueueMoves ==
  ASSUME TypeInv, NEW j \in Job, Enqueue(j) \/ Expire(j) \/ Exhaust(j)
  PROVE  /\ BoardType' /\ LeasesOnlyTo(None) /\ UNCHANGED <<github, store, run, human>>
<1>1. UNCHANGED <<attempt, github, store, run, human>>
  BY DEF Enqueue, Expire, Exhaust, Untold
<1>2. PICK to \in Open \union Settled : Goes(j, to, None)
  BY DEF Enqueue, Expire, Exhaust, Open, Settled
<1> QED
  BY <1>1, <1>2, BoardGoes DEF BoardType, TypeInv, TypeOK

-----------------------------------------------------------------------------
(* The buttons. *)

LEMMA HandledControl ==
  ASSUME HumanType, NEW h \in Handler, handler[h] # None
  PROVE  /\ handler[h] \in Job \X DOMAIN clicks
         /\ handler[h][1] \in Job /\ handler[h][2] \in DOMAIN clicks
         /\ handler[h] = <<handler[h][1], handler[h][2]>>
         /\ handler[h][2] \in 1..MaxClicks
<1>1. handler[h] \in Job \X DOMAIN clicks
  BY DEF HumanType
<1>2. DOMAIN clicks = 1..Len(clicks) /\ Len(clicks) \in Nat /\ MaxClicks \in Nat
  BY WorkPlanAssumption DEF HumanType
<1>3. PICK j \in Job, d \in DOMAIN clicks : handler[h] = <<j, d>>
  BY <1>1
<1> QED
  BY <1>1, <1>2, <1>3 DEF HumanType

LEMMA PressType ==
  ASSUME TypeInv, Press
  PROVE  HumanType' /\ \A d \in DOMAIN clicks : d \in DOMAIN clicks' /\ clicks'[d] = clicks[d]
<1>1. PICK c \in CheckId, a \in Actions, valid \in BOOLEAN :
        clicks' = Append(clicks, [check |-> c, action |-> a, valid |-> valid])
  BY DEF Press
<1> DEFINE n == [check |-> c, action |-> a, valid |-> valid]
<1>2. n \in Click /\ clicks \in Seq(Click) /\ clicks' = Append(clicks, n)
  BY <1>1 DEF Click, TypeInv, TypeOK, CheckId
<1> HIDE DEF n
<1>3. /\ clicks' \in Seq(Click) /\ Len(clicks') = Len(clicks) + 1
      /\ \A d \in DOMAIN clicks : d \in DOMAIN clicks' /\ clicks'[d] = clicks[d]
  BY <1>2
<1>4. Len(clicks') <= MaxClicks
  BY <1>2, <1>3, WorkPlanAssumption DEF Press
<1>5. DOMAIN clicks \subseteq DOMAIN clicks'
  BY <1>3
<1>6. UNCHANGED <<controls, handler, effects>>
  BY DEF Press
<1>7. Job \X DOMAIN clicks \subseteq Job \X DOMAIN clicks'
  BY <1>5
<1>8. controls \subseteq Job \X DOMAIN clicks /\ effects \in [1..MaxClicks -> Nat]
      /\ handler \in [Handler -> (Job \X DOMAIN clicks) \union {None}]
  BY DEF TypeInv, TypeOK
<1> DEFINE D == Job \X DOMAIN clicks
           E == Job \X DOMAIN clicks'
<1>9. D \subseteq E /\ controls \subseteq D /\ handler \in [Handler -> D \union {None}]
  BY <1>7, <1>8
<1> HIDE DEF D, E
<1>10. controls \subseteq E /\ handler \in [Handler -> E \union {None}]
  BY <1>9
<1> QED
  BY <1>3, <1>4, <1>6, <1>8, <1>10 DEF HumanType, E

LEMMA ControlType ==
  ASSUME TypeInv, NEW h \in Handler, NEW d \in DOMAIN clicks, Control(h, d)
  PROVE  HumanType'
<1>1. PICK j \in Job :
        /\ controls' = controls \union {<<j, d>>}
        /\ handler' = [handler EXCEPT ![h] = IF clicks[d].valid THEN <<j, d>> ELSE None]
  BY DEF Control, ControlContext
<1>2. <<j, d>> \in Job \X DOMAIN clicks /\ UNCHANGED <<clicks, effects>>
  BY DEF Control
<1> DEFINE D == Job \X DOMAIN clicks
           x == <<j, d>>
           n == IF clicks[d].valid THEN x ELSE None
<1>3. /\ controls \subseteq D /\ handler \in [Handler -> D \union {None}]
      /\ x \in D /\ n \in D \union {None}
      /\ controls' = controls \union {x} /\ handler' = [handler EXCEPT ![h] = n]
  BY <1>1, <1>2 DEF TypeInv, TypeOK
<1> HIDE DEF D, x, n
<1>4. controls' \subseteq D /\ handler' \in [Handler -> D \union {None}]
  BY <1>3
<1> QED
  BY <1>2, <1>4 DEF HumanType, TypeInv, TypeOK, D

LEMMA HandlerRests ==
  ASSUME HumanType, NEW h \in Handler, handler' = [handler EXCEPT ![h] = None],
         UNCHANGED <<clicks, controls>>
  PROVE  handler' \in [Handler -> (Job \X DOMAIN clicks') \union {None}]
BY DEF HumanType

LEMMA TakeMoves ==
  ASSUME TypeInv, NEW h \in Handler, Take(h)
  PROVE  /\ BoardType' /\ LeasesOnlyTo(None) /\ HumanType'
         /\ UNCHANGED <<github, link, saved, run>> /\ current' \in [Job -> BOOLEAN]
         /\ \A j \in Job : current[j] => current'[j] \/ executor'[j] = None
<1> DEFINE j == handler[h][1]
           d == handler[h][2]
<1>1. HumanType
  BY DEF TypeInv, TypeOK, HumanType
<1>2. j \in Job /\ d \in DOMAIN clicks /\ d \in 1..MaxClicks
  BY <1>1, HandledControl DEF Take
<1>3. /\ effects' = [effects EXCEPT ![d] = @ + 1]
      /\ handler' = [handler EXCEPT ![h] = None]
      /\ UNCHANGED <<clicks, controls, github, link, saved, run>>
  BY DEF Take
<1>4. HumanType'
  <2>1. effects' \in [1..MaxClicks -> Nat]
    BY <1>1, <1>2, <1>3 DEF HumanType
  <2> QED
    BY <1>1, <1>3, <2>1, HandlerRests DEF HumanType
<1>5. CASE UNCHANGED <<board, current>>
  BY <1>3, <1>4, <1>5, BoardStays DEF TypeInv, TypeOK
<1>6. CASE Obey(j, clicks[d].action)
  <2>1. PICK to \in Open \union Settled : Goes(j, to, None)
    BY <1>6 DEF Obey, Open, Settled
  <2> HIDE DEF j
  <2>2. /\ status' \in [Job -> {"absent"} \union Open \union Settled]
        /\ executor' \in [Job -> Worker \union {None}]
        /\ executor'[j] = None /\ LeasesOnlyTo(None)
    BY <1>2, <2>1, BoardGoes
  <2>3. /\ attempt' \in [Job -> 0..MaxAttempts] /\ current' \in [Job -> BOOLEAN]
        /\ \A k \in Job \ {j} : current[k] => current'[k]
    <3>1. CASE UNCHANGED <<attempt, current>>
      BY <3>1 DEF TypeInv, TypeOK
    <3>2. CASE /\ current' = [current EXCEPT ![j] = FALSE]
               /\ attempt' = [attempt EXCEPT ![j] = IF @ > 0 THEN @ - 1 ELSE 0]
      <4>1. current' \in [Job -> BOOLEAN] /\ \A k \in Job \ {j} : current[k] => current'[k]
        BY <1>2, <3>2 DEF TypeInv, TypeOK
      <4>2. attempt' \in [Job -> 0..MaxAttempts]
        <5> DEFINE n == IF attempt[j] > 0 THEN attempt[j] - 1 ELSE 0
        <5>1. attempt \in [Job -> 0..MaxAttempts] /\ MaxAttempts \in Nat
          BY WorkPlanAssumption DEF TypeInv, TypeOK
        <5>2. attempt[j] \in 0..MaxAttempts
          BY <1>2, <5>1
        <5>3. n \in 0..MaxAttempts
          BY <5>1, <5>2
        <5>4. attempt' = [attempt EXCEPT ![j] = n]
          BY <3>2
        <5> HIDE DEF n
        <5> QED
          BY <5>1, <5>3, <5>4
      <4> QED
        BY <4>1, <4>2
    <3> QED
      BY <1>6, <3>1, <3>2 DEF Obey
  <2> QED
    BY <1>3, <1>4, <2>2, <2>3 DEF BoardType
<1> QED
  BY <1>5, <1>6 DEF Take

LEMMA PeopleMoves ==
  ASSUME TypeInv, People \/ \E h \in Handler : Break(h)
  PROVE  /\ BoardType' /\ LeasesOnlyTo(None) /\ HumanType'
         /\ UNCHANGED <<github, link, saved, run>> /\ current' \in [Job -> BOOLEAN]
         /\ \A j \in Job : current[j] => current'[j] \/ executor'[j] = None
<1>1. CASE Press \/ \E h \in Handler, d \in DOMAIN clicks : Control(h, d)
  <2>1. UNCHANGED <<board, github, store, run>>
    BY <1>1 DEF Press, Control
  <2>2. HumanType'
    BY <1>1, PressType, ControlType
  <2> QED
    BY <2>1, <2>2, BoardStays DEF store, TypeInv, TypeOK
<1>2. CASE \E h \in Handler : Break(h)
  <2>1. UNCHANGED <<board, github, store, run>>
    BY <1>2 DEF Break
  <2>2. HumanType'
    BY <1>2, HandlerRests DEF Break, TypeInv, TypeOK, HumanType
  <2> QED
    BY <2>1, <2>2, BoardStays DEF store, TypeInv, TypeOK
<1>3. CASE \E h \in Handler : Take(h)
  BY <1>3, TakeMoves
<1> QED
  BY <1>1, <1>2, <1>3 DEF People

-----------------------------------------------------------------------------
(* Types. *)

LEMMA InitType ==
  ASSUME Init
  PROVE  TypeInv
<1>1. /\ checks = <<>> /\ checks \in Seq(CheckRun) /\ CheckId = {}
  BY DEF Init, CheckId
<1>2. GitHubType /\ StoreType /\ BoardType
  BY <1>1, WorkPlanAssumption
     DEF Init, GitHubType, StoreType, BoardType, Open
<1>3. HumanType
  BY WorkPlanAssumption DEF Init, HumanType
<1>4. run \in [Worker -> Run \union {None}] /\ faults \in 0..MaxFaults
  BY WorkPlanAssumption DEF Init
<1>5. LinksLead
  BY DEF Init, LinksLead
<1>6. RunsOK
  BY DEF Init, RunsOK, RunOK, RunHasCheck, RunIsLinked, RunIsSaved, RunReports
<1> QED
  BY <1>2, <1>3, <1>4, <1>5, <1>6
     DEF TypeInv, TypeOK, GitHubType, StoreType, BoardType, HumanType

LEMMA FaultsType ==
  ASSUME TypeInv, Next
  PROVE  faults' \in 0..MaxFaults
BY WorkPlanAssumption DEF Next, Fault, TypeInv, TypeOK

LEMMA TypeStep ==
  ASSUME TypeInv, [Next]_vars
  PROVE  TypeInv'
<1>0. HumanType
  BY DEF TypeInv, TypeOK, HumanType
<1>1. CASE UNCHANGED vars
  <2>1. UNCHANGED <<github, store, run, board, human, faults>>
    BY <1>1 DEF vars
  <2>2. GitHubType' /\ StoreType' /\ LinksLead' /\ BoardType' /\ LeasesOnlyTo(None)
        /\ \A j \in Job : current[j] => current'[j]
    BY <2>1, QuietStore, BoardStays
  <2>3. RunsOK' /\ HumanType'
    BY <1>0, <2>1, <2>2, RunsRest DEF store, HumanType, human
  <2> QED
    BY <2>1, <2>2, <2>3
       DEF TypeInv, TypeOK, GitHubType, StoreType, BoardType, HumanType
<1>2. CASE Next
  <2>1. faults' \in 0..MaxFaults
    BY <1>2, FaultsType
  <2>2. CASE \E w \in Worker : \/ Step(w) \/ Fails(w) \/ Die(w)
                               \/ \E j \in Job : LeaseNext(w, j)
    <3>1. PICK w \in Worker :
            RunMoves(w) /\ LeasesOnlyTo(w) /\ BoardType' /\ UNCHANGED human
      BY <2>2, StepMoves, LeaseMoves
    <3>2. RunsOK' /\ HumanType'
      BY <1>0, <3>1, RunsKept DEF HumanType, human
    <3> QED
      BY <2>1, <3>1, <3>2
         DEF RunMoves, TypeInv, TypeOK, GitHubType, StoreType, BoardType, HumanType
  <2>3. CASE \E j \in Job : Enqueue(j) \/ Expire(j) \/ Exhaust(j)
    <3>1. /\ BoardType' /\ LeasesOnlyTo(None) /\ UNCHANGED <<github, store, run, human>>
      BY <2>3, QueueMoves
    <3>2. GitHubType' /\ StoreType' /\ LinksLead' /\ \A j \in Job : current[j] => current'[j]
      BY <3>1, QuietStore
    <3>3. RunsOK' /\ HumanType'
      BY <1>0, <3>1, <3>2, RunsRest DEF store, HumanType, human
    <3> QED
      BY <2>1, <3>1, <3>2, <3>3
         DEF TypeInv, TypeOK, GitHubType, StoreType, BoardType, HumanType
  <2>4. CASE People \/ \E h \in Handler : Break(h)
    <3>1. /\ BoardType' /\ LeasesOnlyTo(None) /\ HumanType'
          /\ UNCHANGED <<github, link, saved, run>> /\ current' \in [Job -> BOOLEAN]
          /\ \A j \in Job : current[j] => current'[j] \/ executor'[j] = None
      BY <2>4, PeopleMoves
    <3>2. RunsOK'
      BY <3>1, RunsRest
    <3>3. UNCHANGED <<checks, comments, summaries, link, saved>>
      BY <3>1 DEF github
    <3>4. GitHubType' /\ StoreType' /\ LinksLead'
      BY <3>1, <3>3 DEF GitHubType, StoreType, LinksLead, TypeInv, TypeOK, CheckId
    <3> QED
      BY <2>1, <3>1, <3>2, <3>4
         DEF TypeInv, TypeOK, GitHubType, StoreType, BoardType, HumanType
  <2> QED
    BY <1>2, <2>2, <2>3, <2>4 DEF Next, Queue, Fault
<1> QED
  BY <1>1, <1>2

(* The invariant of the runs and the rows. *)
LEMMA TypeInvariant == Spec => []TypeInv
<1>1. Init => TypeInv
  BY InitType
<1>2. TypeInv /\ [Next]_vars => TypeInv'
  BY TypeStep
<1> QED
  BY <1>1, <1>2, PTL DEF Spec

(* Check Runs, rows, runs, clicks and requests have their types at all times: a row
   names a Check Run that exists, the attempts of a job stay within their limit although a
   skip takes one back (skip_current_item, lease_next), and a request that holds a control
   holds one of a click that came. *)
THEOREM WorkPlanTypeCorrect == Spec => []TypeOK
BY TypeInvariant, PTL DEF TypeInv

-----------------------------------------------------------------------------
(* What moves a job, and what is true when it moves. *)

(* The run of w, which holds the lease, says where its job goes. *)
Says(w, j, to) ==
  /\ run[w] # None /\ run[w].job = j /\ HoldsLease(w)
  /\ \/ run[w].phase = "asking" /\ to = "waiting"
     \/ run[w].phase = "closing" /\ to = IF run[w].ok THEN "succeeded" ELSE "failed"

Moves(j, to, x) ==
  \/ status[j] = "absent" /\ to = "queued" /\ x = None
  \/ status[j] \in {"queued", "orphaned"} /\ to = "executing" /\ x \in Worker
  \/ status[j] = "executing" /\ to = "orphaned" /\ x = None
  \/ status[j] \in {"queued", "orphaned"} /\ to = "failed" /\ x = None
  \/ x = None /\ \E w \in Worker : Says(w, j, to)
  \/ status[j] \in {"executing", "orphaned", "waiting"} /\ to = "queued" /\ x = None
  \/ status[j] \in Open /\ to = "cancelled" /\ x = None

LEMMA BoardCases ==
  ASSUME TypeInv, [Next]_vars
  PROVE  \/ UNCHANGED <<status, executor>>
         \/ \E j \in Job, to \in Open \union Settled, x \in Worker \union {None} :
              Goes(j, to, x) /\ Moves(j, to, x)
<1> DEFINE Moved == \E j \in Job, to \in Open \union Settled, x \in Worker \union {None} :
                      Goes(j, to, x) /\ Moves(j, to, x)
<1>1. ASSUME NEW j \in Job,
             \/ Enqueue(j) \/ Expire(j) \/ Exhaust(j) \/ \E w \in Worker : LeaseNext(w, j)
      PROVE  Moved
  <2>1. CASE Enqueue(j)
    <3>1. Goes(j, "queued", None) /\ Moves(j, "queued", None)
      BY <2>1 DEF Enqueue, Moves
    <3> QED
      BY <3>1 DEF Open
  <2>2. CASE Expire(j)
    <3>1. Goes(j, "orphaned", None) /\ Moves(j, "orphaned", None)
      BY <2>2 DEF Expire, Moves
    <3> QED
      BY <3>1 DEF Open
  <2>3. CASE Exhaust(j)
    <3>1. Goes(j, "failed", None) /\ Moves(j, "failed", None)
      BY <2>3 DEF Exhaust, Moves
    <3> QED
      BY <3>1 DEF Settled
  <2>4. ASSUME NEW w \in Worker, LeaseNext(w, j) PROVE Moved
    <3>1. Goes(j, "executing", w) /\ Moves(j, "executing", w)
      BY <2>4 DEF LeaseNext, Moves
    <3> QED
      BY <3>1 DEF Open
  <2> QED
    BY <1>1, <2>1, <2>2, <2>3, <2>4
<1>2. ASSUME NEW w \in Worker, Step(w) \/ Fails(w) \/ Die(w)
      PROVE  UNCHANGED <<status, executor>> \/ Moved
  <2>1. CASE \/ Begin(w) \/ CreateCheckRun(w) \/ CreateComment(w) \/ Link(w) \/ SaveComment(w)
             \/ Work(w) \/ Summarize(w) \/ Complete(w) \/ LoseLease(w) \/ Fails(w) \/ Die(w)
    BY <2>1 DEF Begin, CreateCheckRun, CreateComment, Link, SaveComment, Work, Summarize,
                Complete, LoseLease, Fails, Die, board
  <2>2. CASE (MarkWaiting(w) \/ Close(w)) /\ HoldsLease(w)
    <3>1. run[w].job \in Job
      BY <2>2, RunRecord DEF MarkWaiting, Close, In, TypeInv
    <3>2. PICK to \in {"waiting", "succeeded", "failed"} :
            Goes(run[w].job, to, None) /\ Says(w, run[w].job, to)
      BY <2>2 DEF MarkWaiting, Close, In, Says
    <3>3. to \in Open \union Settled /\ Moves(run[w].job, to, None)
      BY <3>2 DEF Open, Settled, Moves
    <3> QED
      BY <3>1, <3>2, <3>3
  <2>3. CASE (MarkWaiting(w) \/ Close(w)) /\ ~HoldsLease(w)
    BY <2>3 DEF MarkWaiting, Close
  <2> QED
    BY <1>2, <2>1, <2>2, <2>3 DEF Step
<1>3. ASSUME NEW h \in Handler, Take(h) PROVE UNCHANGED <<status, executor>> \/ Moved
  <2>1. HumanType
    BY DEF TypeInv, TypeOK, HumanType
  <2>2. handler[h][1] \in Job
    BY <1>3, <2>1, HandledControl DEF Take
  <2>3. CASE Obey(handler[h][1], clicks[handler[h][2]].action)
    <3>1. PICK to \in {"queued", "cancelled"} :
            Goes(handler[h][1], to, None) /\ Moves(handler[h][1], to, None)
      BY <2>3 DEF Obey, Moves
    <3> QED
      BY <2>2, <3>1 DEF Open, Settled
  <2> QED
    BY <1>3, <2>3 DEF Take, board
<1>4. CASE UNCHANGED vars
  BY <1>4 DEF vars, board
<1>5. CASE Press \/ (\E h \in Handler : Break(h))
           \/ \E h \in Handler, d \in DOMAIN clicks : Control(h, d)
  BY <1>5 DEF Press, Break, Control, board
<1> QED
  BY <1>1, <1>2, <1>3, <1>4, <1>5 DEF Next, Queue, People, Fault

(* What the store knows of a job stays, and an item leaves only with the place of its
   job. *)
LEMMA StoreStep ==
  ASSUME TypeInv, [Next]_vars
  PROVE  StoreGrows /\ \A j \in Job : current[j] => current'[j] \/ status'[j] = "queued"
<1>1. CASE \E w \in Worker : \/ Step(w) \/ Fails(w) \/ Die(w)
                             \/ \E j \in Job : LeaseNext(w, j)
  BY <1>1, StepMoves, LeaseMoves DEF RunMoves
<1>2. CASE UNCHANGED <<github, store>>
  BY <1>2, QuietStore
<1>3. ASSUME NEW h \in Handler, Take(h)
      PROVE  StoreGrows /\ \A j \in Job : current[j] => current'[j] \/ status'[j] = "queued"
  <2>1. UNCHANGED <<github, link, saved>>
    BY <1>3 DEF Take
  <2>2. StoreGrows
    BY <2>1 DEF StoreGrows, github, CheckId
  <2>3. UNCHANGED current \/ \E j \in Job :
          current' = [current EXCEPT ![j] = FALSE] /\ Goes(j, "queued", None)
    <3>1. HumanType
      BY DEF TypeInv, TypeOK, HumanType
    <3>2. handler[h][1] \in Job
      BY <1>3, <3>1, HandledControl DEF Take
    <3> QED
      BY <1>3, <3>2 DEF Take, Obey
  <2>4. \A j \in Job : current[j] => current'[j] \/ status'[j] = "queued"
    BY <2>3 DEF Goes, TypeInv, TypeOK
  <2> QED
    BY <2>2, <2>4
<1> QED
  <2>1. ASSUME NEW j \in Job, Enqueue(j) \/ Expire(j) \/ Exhaust(j)
        PROVE  UNCHANGED <<github, store>>
    BY <2>1 DEF Enqueue, Expire, Exhaust, Untold
  <2>2. ASSUME Press \/ (\E h \in Handler : Break(h))
               \/ \E h \in Handler, d \in DOMAIN clicks : Control(h, d)
        PROVE  UNCHANGED <<github, store>>
    BY <2>2 DEF Press, Break, Control
  <2> QED
    BY <1>1, <1>2, <1>3, <2>1, <2>2 DEF Next, Queue, People, Fault, vars

LEMMA ExecutorStep ==
  ASSUME TypeInv, ExecutorExecutes, [Next]_vars
  PROVE  ExecutorExecutes'
<1>1. CASE UNCHANGED <<status, executor>>
  BY <1>1 DEF ExecutorExecutes
<1>2. ASSUME NEW j \in Job, NEW to \in Open \union Settled, NEW x \in Worker \union {None},
             Goes(j, to, x), Moves(j, to, x)
      PROVE  ExecutorExecutes'
  <2>1. x # None => to = "executing"
    BY <1>2 DEF Moves
  <2> QED
    BY <1>2, <2>1, BoardGoes DEF ExecutorExecutes
<1> QED
  BY <1>1, <1>2, BoardCases

LEMMA SavedStep ==
  ASSUME TypeInv, SavedIsCommented, [Next]_vars
  PROVE  SavedIsCommented'
<1> SUFFICES ASSUME NEW j \in Job, saved'[j], ~saved[j] PROVE comments'[j] > 0
  BY StoreStep DEF SavedIsCommented, StoreGrows
<1>1. PICK w \in Worker : SaveComment(w)
  <2>1. ~UNCHANGED saved
    OBVIOUS
  <2> QED
    BY <2>1 DEF Next, Queue, People, Fault, Step, vars, store, Untold, Enqueue, Expire, Exhaust,
       LeaseNext, Begin, CreateCheckRun, CreateComment, Link, Work, MarkWaiting, Summarize,
       Complete, Close, LoseLease, Fails, Die, Press, Control, Take, Break
<1>2. run[w] # None /\ run[w].phase \in {"saving", "updating"} /\ run[w].job = j
  BY <1>1 DEF SaveComment, In, TypeInv, TypeOK
<1>3. comments[j] > 0
  BY <1>2 DEF TypeInv, RunsOK, RunOK, RunIsSaved, Remembered, SavedIsCommented
<1> QED
  BY <1>3, StoreStep DEF StoreGrows

LEMMA WaitingStep ==
  ASSUME TypeInv, SavedIsCommented, WaitingCanBeAnswered, [Next]_vars
  PROVE  WaitingCanBeAnswered'
<1> SUFFICES ASSUME NEW j \in Job, status'[j] = "waiting"
             PROVE  /\ link'[j] # None /\ checks'[link'[j]].job = j
                    /\ saved'[j] /\ comments'[j] > 0 /\ current'[j]
  BY DEF WaitingCanBeAnswered
<1>1. link[j] # None /\ saved[j] /\ comments[j] > 0 /\ current[j]
  <2>1. CASE status[j] = "waiting"
    BY <2>1 DEF WaitingCanBeAnswered
  <2>2. CASE status[j] # "waiting"
    <3>1. PICK to \in Open \union Settled, x \in Worker \union {None} :
            Moves(j, to, x) /\ to = "waiting"
      BY <2>2, BoardCases, BoardGoes
    <3>2. PICK w \in Worker : Says(w, j, "waiting")
      BY <3>1 DEF Moves
    <3>3. run[w] # None /\ run[w].job = j /\ run[w].phase = "asking" /\ HoldsLease(w)
      BY <3>2 DEF Says
    <3>4. link[j] # None /\ saved[j] /\ current[j]
      BY <3>3 DEF TypeInv, RunsOK, RunOK, RunIsLinked, RunIsSaved, Linked, Remembered
    <3> QED
      BY <3>4 DEF SavedIsCommented
  <2> QED
    BY <2>1, <2>2
<1>2. link'[j] # None /\ saved'[j] /\ comments'[j] > 0 /\ current'[j]
  BY <1>1, StoreStep DEF StoreGrows
<1>3. checks'[link'[j]].job = j
  BY <1>2, TypeStep DEF TypeInv, LinksLead
<1> QED
  BY <1>2, <1>3

LEMMA SucceededStep ==
  ASSUME TypeInv, SucceededIsReported, [Next]_vars
  PROVE  SucceededIsReported'
<1> SUFFICES ASSUME NEW j \in Job, status'[j] = "succeeded" PROVE Reported(j)'
  BY DEF SucceededIsReported, Reported
<1>1. Reported(j)
  <2>1. CASE status[j] = "succeeded"
    BY <2>1 DEF SucceededIsReported, Reported
  <2>2. CASE status[j] # "succeeded"
    <3>1. PICK to \in Open \union Settled, x \in Worker \union {None} :
            Moves(j, to, x) /\ to = "succeeded"
      BY <2>2, BoardCases, BoardGoes
    <3>2. PICK w \in Worker : Says(w, j, "succeeded")
      BY <3>1 DEF Moves
    <3>3. run[w] # None /\ run[w].job = j /\ run[w].phase = "closing" /\ run[w].ok
      BY <3>2 DEF Says
    <3> QED
      BY <3>3 DEF TypeInv, RunsOK, RunOK, RunReports
  <2> QED
    BY <2>1, <2>2
<1>2. StoreGrows
  BY StoreStep
<1> QED
  BY <1>1, <1>2 DEF Reported, StoreGrows

(* A job that waits for people always has a Check Run that leads back to it, a comment and
   an item to skip: a run links and saves before it asks (start before
   mark_waiting_approval), and the one thing that takes the item away, a skip, ends the
   waiting. *)
THEOREM WaitingJobsCanBeAnswered == Spec => []WaitingCanBeAnswered
<1>1. Init => SavedIsCommented /\ WaitingCanBeAnswered
  BY DEF Init, SavedIsCommented, WaitingCanBeAnswered
<1>2. TypeInv /\ SavedIsCommented /\ [Next]_vars => SavedIsCommented'
  BY SavedStep
<1>3. TypeInv /\ SavedIsCommented /\ WaitingCanBeAnswered /\ [Next]_vars
        => WaitingCanBeAnswered'
  BY WaitingStep
<1> QED
  BY <1>1, <1>2, <1>3, TypeInvariant, PTL DEF Spec

(* A job succeeds only after its summary was posted and one of its Check Runs was
   completed, whatever earlier runs of the job left undone (finish before
   mark_succeeded). *)
THEOREM SuccessIsReported == Spec => []SucceededIsReported
<1>1. Init => SucceededIsReported
  BY DEF Init, SucceededIsReported
<1>2. TypeInv /\ SucceededIsReported /\ [Next]_vars => SucceededIsReported'
  BY SucceededStep
<1> QED
  BY <1>1, <1>2, TypeInvariant, PTL DEF Spec

-----------------------------------------------------------------------------
(* A button counts once, and for the job it was shown for. *)

ControlInv == ControlsLead /\ ControlsPend /\ EffectsCounted

LEMMA HumanCases ==
  ASSUME [Next]_vars
  PROVE  \/ UNCHANGED human \/ Press
         \/ \E h \in Handler : Take(h) \/ Break(h) \/ \E d \in DOMAIN clicks : Control(h, d)
<1>1. ASSUME NEW w \in Worker, Step(w) PROVE UNCHANGED human
  BY <1>1 DEF Step, Begin, CreateCheckRun, CreateComment, Link, SaveComment, Work, MarkWaiting,
              Summarize, Complete, Close, LoseLease, Untold
<1>2. ASSUME NEW w \in Worker, Fails(w) \/ Die(w) PROVE UNCHANGED human
  BY <1>2 DEF Fails, Die, Untold
<1>3. CASE Queue
  BY <1>3 DEF Queue, Enqueue, Expire, Exhaust, LeaseNext, Untold
<1> QED
  BY <1>1, <1>2, <1>3 DEF Next, People, Fault, vars

LEMMA ControlsLeadStep ==
  ASSUME TypeInv, ControlsLead, [Next]_vars
  PROVE  ControlsLead'
<1>1. StoreGrows /\ HumanType
  BY StoreStep DEF TypeInv, TypeOK, HumanType
<1>2. CASE UNCHANGED <<clicks, controls>>
  BY <1>1, <1>2 DEF ControlsLead, StoreGrows
<1>3. CASE Press
  <2>1. PICK c \in CheckId, a \in Actions, valid \in BOOLEAN :
          clicks' = Append(clicks, [check |-> c, action |-> a, valid |-> valid])
    BY <1>3 DEF Press
  <2> DEFINE n == [check |-> c, action |-> a, valid |-> valid]
  <2>2. n \in Click /\ n.check = c /\ clicks \in Seq(Click) /\ clicks' = Append(clicks, n)
    BY <2>1 DEF Click, TypeInv, TypeOK, CheckId
  <2> HIDE DEF n
  <2>3. \A d \in DOMAIN clicks' :
          \/ d \in DOMAIN clicks /\ clicks'[d] = clicks[d]
          \/ d \notin DOMAIN clicks /\ clicks'[d].check = c
    BY <2>2
  <2>4. UNCHANGED controls
    BY <1>3 DEF Press
  <2>5. \A j \in Job, d \in DOMAIN clicks' : <<j, d>> \in controls => d \in DOMAIN clicks
    BY <1>1 DEF HumanType
  <2> QED
    BY <1>1, <2>3, <2>4, <2>5 DEF ControlsLead, StoreGrows
<1>4. ASSUME NEW h \in Handler, NEW d \in DOMAIN clicks, Control(h, d)
      PROVE  ControlsLead'
  <2>1. PICK j \in Job : link[j] = clicks[d].check /\ controls' = controls \union {<<j, d>>}
    BY <1>4 DEF Control, ControlContext
  <2>2. UNCHANGED clicks
    BY <1>4 DEF Control
  <2>3. clicks[d].check \in CheckId /\ clicks[d].check # None
    BY <1>1, WorkPlanAssumption DEF ControlsLead, CheckId, TypeInv, TypeOK
  <2>4. checks[clicks[d].check].job = j
    BY <2>1, <2>3 DEF TypeInv, LinksLead
  <2>5. \A i \in Job, e \in DOMAIN clicks :
          <<i, e>> \in controls' => checks[clicks[e].check].job = i
    BY <2>1, <2>4 DEF ControlsLead
  <2> QED
    BY <1>1, <2>2, <2>5 DEF ControlsLead, StoreGrows
<1>5. ASSUME NEW h \in Handler, Take(h) \/ Break(h) PROVE UNCHANGED <<clicks, controls>>
  BY <1>5 DEF Take, Break
<1>6. UNCHANGED human => UNCHANGED <<clicks, controls>>
  BY DEF human
<1> QED
  BY <1>2, <1>3, <1>4, <1>5, <1>6, HumanCases

LEMMA ControlsPendStep ==
  ASSUME TypeInv, ControlInv, [Next]_vars
  PROVE  ControlsPend' /\ EffectsCounted'
<1>1. HumanType
  BY DEF TypeInv, TypeOK, HumanType
<1>2. DOMAIN clicks \subseteq 1..MaxClicks
  BY <1>1, WorkPlanAssumption DEF HumanType
<1>3. CASE UNCHANGED human
  BY <1>3 DEF human, ControlInv, ControlsPend, EffectsCounted, Holding
<1>4. CASE Press
  <2>1. /\ UNCHANGED <<controls, handler, effects>>
        /\ \A d \in DOMAIN clicks : d \in DOMAIN clicks' /\ clicks'[d] = clicks[d]
    BY <1>4, PressType DEF Press
  <2>2. \A h \in Handler : handler[h] # None => handler[h][2] \in DOMAIN clicks
    BY <1>1, HandledControl
  <2>3. ControlsPend'
    BY <2>1, <2>2 DEF ControlInv, ControlsPend, Holding
  <2> QED
    BY <2>1, <2>3 DEF ControlInv, EffectsCounted
<1>5. ASSUME NEW h \in Handler, NEW d \in DOMAIN clicks, Control(h, d)
      PROVE  ControlsPend' /\ EffectsCounted'
  <2>1. PICK j \in Job :
          /\ link[j] = clicks[d].check /\ <<j, d>> \notin controls
          /\ controls' = controls \union {<<j, d>>}
          /\ handler' = [handler EXCEPT ![h] = IF clicks[d].valid THEN <<j, d>> ELSE None]
    BY <1>5 DEF Control, ControlContext
  <2>2. UNCHANGED <<clicks, effects>> /\ handler[h] = None
    BY <1>5 DEF Control
  <2>3. \A i \in Job : <<i, d>> \notin controls
    <3>1. clicks[d].check \in CheckId /\ clicks[d].check # None
      BY WorkPlanAssumption DEF ControlInv, ControlsLead, CheckId, TypeInv, TypeOK
    <3>2. checks[clicks[d].check].job = j
      BY <2>1, <3>1 DEF TypeInv, LinksLead
    <3> QED
      BY <2>1, <3>2 DEF ControlInv, ControlsLead
  <2>4. effects[d] = 0
    <3>1. d \in 1..MaxClicks /\ effects[d] \in Nat
      BY <1>1, <1>2 DEF HumanType
    <3>2. ~(effects[d] > 0)
      BY <2>3, <3>1 DEF ControlInv, EffectsCounted
    <3> QED
      BY <3>1, <3>2
  <2>5. \A g \in Handler : ~Holding(g, d)
    <3> SUFFICES ASSUME NEW g \in Handler, Holding(g, d) PROVE FALSE
      OBVIOUS
    <3>1. handler[g] \in controls /\ handler[g] = <<handler[g][1], d>> /\ handler[g][1] \in Job
      BY <1>1, HandledControl DEF Holding, ControlInv, ControlsPend
    <3> QED
      BY <2>3, <3>1
  <2>6. /\ \A g \in Handler \ {h} : handler'[g] = handler[g]
        /\ handler'[h] # None => handler'[h] = <<j, d>> /\ clicks[d].valid
    BY <1>1, <2>1 DEF HumanType
  <2>7. ControlsPend'
    <3> SUFFICES ASSUME NEW g \in Handler, NEW e \in DOMAIN clicks, Holding(g, e)'
                 PROVE  /\ handler'[g] \in controls' /\ clicks[e].valid /\ effects[e] = 0
                        /\ \A f \in Handler : Holding(f, e)' => f = g
      BY <2>2 DEF ControlsPend, Holding
    <3>1. CASE g = h
      <4>1. e = d /\ handler'[g] = <<j, d>> /\ clicks[d].valid
        BY <2>6, <3>1 DEF Holding
      <4>2. \A f \in Handler : Holding(f, d)' => f = h
        BY <2>5, <2>6 DEF Holding
      <4> QED
        BY <2>1, <2>4, <3>1, <4>1, <4>2
    <3>2. CASE g # h
      <4>1. Holding(g, e) /\ e # d
        BY <2>5, <2>6, <3>2 DEF Holding
      <4>2. \A f \in Handler : Holding(f, e)' => Holding(f, e)
        BY <2>6, <4>1 DEF Holding
      <4> QED
        BY <2>1, <2>6, <3>2, <4>1, <4>2 DEF ControlInv, ControlsPend
    <3> QED
      BY <3>1, <3>2
  <2>8. EffectsCounted'
    BY <2>1, <2>2 DEF ControlInv, EffectsCounted
  <2> QED
    BY <2>7, <2>8
<1>6. ASSUME NEW h \in Handler, Take(h) \/ Break(h)
      PROVE  ControlsPend' /\ EffectsCounted'
  <2> DEFINE d == handler[h][2]
  <2>1. /\ handler[h] # None /\ handler' = [handler EXCEPT ![h] = None]
        /\ UNCHANGED <<clicks, controls>>
        /\ UNCHANGED effects \/ effects' = [effects EXCEPT ![d] = @ + 1]
    BY <1>6 DEF Take, Break
  <2>2. d \in DOMAIN clicks /\ d \in 1..MaxClicks /\ handler[h][1] \in Job
        /\ handler[h] = <<handler[h][1], d>>
    BY <1>1, <2>1, HandledControl
  <2>3. Holding(h, d)
    BY <2>1 DEF Holding
  <2> HIDE DEF d
  <2>4. /\ handler[h] \in controls /\ effects[d] = 0
        /\ \A g \in Handler : Holding(g, d) => g = h
    BY <2>2, <2>3 DEF ControlInv, ControlsPend
  <2>5. /\ \A e \in 1..MaxClicks \ {d} : effects'[e] = effects[e]
        /\ effects'[d] <= 1
    <3>1. effects \in [1..MaxClicks -> Nat]
      BY <1>1 DEF HumanType
    <3>2. CASE UNCHANGED effects
      BY <2>4, <3>2
    <3>3. CASE effects' = [effects EXCEPT ![d] = @ + 1]
      BY <2>2, <2>4, <3>1, <3>3
    <3> QED
      BY <2>1, <3>2, <3>3
  <2>6. \A g \in Handler : \A e :
          Holding(g, e)' => Holding(g, e) /\ g # h /\ handler'[g] = handler[g]
    BY <1>1, <2>1 DEF Holding, HumanType
  <2>7. ControlsPend'
    <3> SUFFICES ASSUME NEW g \in Handler, NEW e \in DOMAIN clicks, Holding(g, e)'
                 PROVE  /\ handler'[g] \in controls /\ clicks[e].valid /\ effects'[e] = 0
                        /\ \A f \in Handler : Holding(f, e)' => f = g
      BY <2>1 DEF ControlsPend, Holding
    <3>1. Holding(g, e) /\ g # h /\ e # d /\ handler'[g] = handler[g]
      BY <2>4, <2>6
    <3>2. effects'[e] = effects[e]
      BY <1>2, <2>5, <3>1
    <3> QED
      BY <2>6, <3>1, <3>2 DEF ControlInv, ControlsPend
  <2>8. EffectsCounted'
    <3> SUFFICES ASSUME NEW e \in 1..MaxClicks
                 PROVE  /\ effects'[e] <= 1
                        /\ effects'[e] > 0 => \E j \in Job : <<j, e>> \in controls
      BY <2>1 DEF EffectsCounted
    <3>1. CASE e = d
      BY <2>2, <2>4, <2>5, <3>1
    <3>2. CASE e # d
      BY <2>5, <3>2 DEF ControlInv, EffectsCounted
    <3> QED
      BY <3>1, <3>2
  <2> QED
    BY <2>7, <2>8
<1> QED
  BY <1>3, <1>4, <1>5, <1>6, HumanCases

LEMMA InitControl ==
  ASSUME Init
  PROVE  ControlInv
<1>1. clicks = <<>> /\ DOMAIN clicks = {}
  BY DEF Init
<1> QED
  BY <1>1 DEF Init, ControlInv, ControlsLead, ControlsPend, EffectsCounted

LEMMA ControlInvariant == Spec => []ControlInv
<1>1. TypeInv /\ ControlInv /\ [Next]_vars => ControlInv'
  BY ControlsLeadStep, ControlsPendStep DEF ControlInv
<1> QED
  BY <1>1, InitControl, TypeInvariant, PTL DEF Spec

(* A pressed button reaches the queue at most once, however often GitHub delivers it and
   however many requests work on the deliveries at a time: record_job_control lets one of
   them pass, and the Check Run leads all of them to the same job. *)
THEOREM ButtonsCountOnce == Spec => []ControlCountsOnce
<1>1. TypeInv /\ ControlInv => ControlCountsOnce
  BY DEF TypeInv, TypeOK, ControlInv, EffectsCounted, ControlCountsOnce
<1> QED
  BY <1>1, ControlInvariant, TypeInvariant, PTL

(* A button changes only the job whose plan its Check Run shows, and only when the one who
   pressed it may: between the answer of record_job_control and the write to the queue the
   rows may be linked anew, yet never to a Check Run of another job. *)
THEOREM ButtonsHitTheShownJob == Spec => ControlHitsShownJob
<1> DEFINE Hits == \A h \in Handler, j \in Job :
                     handler[h] # None /\ handler'[h] = None /\ status'[j] # status[j] =>
                       LET click == clicks[handler[h][2]] IN
                         click.valid /\ checks[click.check].job = j
<1>1. ASSUME TypeInv, ControlInv, [Next]_vars PROVE Hits
  <2> SUFFICES ASSUME NEW h \in Handler, NEW j \in Job, handler[h] # None, handler'[h] = None,
                      status'[j] # status[j]
               PROVE  /\ clicks[handler[h][2]].valid
                      /\ checks[clicks[handler[h][2]].check].job = j
    OBVIOUS
  <2>1. HumanType
    BY <1>1 DEF TypeInv, TypeOK, HumanType
  <2>2. Take(h)
    <3>1. PICK g \in Handler : Take(g) \/ Break(g) \/ \E d \in DOMAIN clicks : Control(g, d)
      BY <1>1, HumanCases DEF human, Press
    <3>2. Take(g)
      BY <3>1 DEF Break, Control, board
    <3>3. g = h
      BY <2>1, <3>2 DEF Take, HumanType
    <3> QED
      BY <3>2, <3>3
  <2> DEFINE k == handler[h][1]
             d == handler[h][2]
  <2>3. k \in Job /\ d \in DOMAIN clicks /\ handler[h] = <<k, d>>
    BY <2>1, HandledControl
  <2>4. k = j
    <3>1. ASSUME NEW to, Goes(k, to, None) PROVE k = j
      BY <1>1, <3>1 DEF Goes, TypeInv, TypeOK
    <3>2. \E to \in {"queued", "cancelled"} : Goes(k, to, None)
      BY <2>2 DEF Take, Obey, board
    <3> QED
      BY <3>1, <3>2
  <2>5. Holding(h, d)
    BY DEF Holding
  <2> HIDE DEF k, d
  <2>6. <<j, d>> \in controls /\ clicks[d].valid
    BY <1>1, <2>3, <2>4, <2>5 DEF ControlInv, ControlsPend
  <2> QED
    BY <1>1, <2>3, <2>6 DEF ControlInv, ControlsLead, d
<1> QED
  BY <1>1, ControlInvariant, TypeInvariant, PTL DEF Spec, ControlHitsShownJob

-----------------------------------------------------------------------------
(* The jobs are moved as the board of jobs promises. *)

LEMMA MovesAreMoves ==
  ASSUME TypeInv, ExecutorExecutes, NEW j \in Job, NEW to \in Open \union Settled,
         NEW x \in Worker \union {None}, Goes(j, to, x), Moves(j, to, x)
  PROVE  Board!BoardNext
<1> USE DEF Board!Goes, Board!Open, Open
<1>1. /\ status'[j] = to /\ executor'[j] = x
      /\ \A k \in Job \ {j} : status'[k] = status[k] /\ executor'[k] = executor[k]
  BY BoardGoes
<1>2. /\ \A k \in Job : identity[k] = IF status[k] = "absent" THEN None ELSE k
      /\ \A k \in Job : identity'[k] = IF status'[k] = "absent" THEN None ELSE k
  BY DEF identity
<1>3. to # "absent" /\ None \notin Job
  BY WorkPlanAssumption DEF Settled
<1>4. \A k \in Job \ {j} : Board!Move(k) /\ ~Board!Submit(k)
  <2> SUFFICES ASSUME NEW k \in Job \ {j} PROVE Board!Move(k) /\ ~Board!Submit(k)
    OBVIOUS
  <2>1. Board!Keep(k) /\ identity'[k] = identity[k]
    BY <1>1, <1>2 DEF Board!Keep
  <2>2. ~Board!Submit(k)
    BY <1>1 DEF Board!Submit
  <2> QED
    BY <2>1, <2>2 DEF Board!Move
<1>5. Board!Move(j)
  <2>1. CASE status[j] = "absent" /\ to = "queued" /\ x = None
    <3>1. identity'[j] = j /\ \A k \in Job : status[k] \in Board!Open => identity[k] # j
      BY <1>1, <1>2, <1>3, <2>1
    <3> QED
      BY <1>1, <2>1, <3>1 DEF Board!Move, Board!Submit
  <2>2. CASE \E w \in Worker : Says(w, j, to) /\ x = None
    <3>1. status[j] = "executing" /\ to \in {"waiting", "succeeded", "failed"}
      BY <2>2, WorkPlanAssumption DEF Says, HoldsLease, ExecutorExecutes
    <3>2. identity'[j] = identity[j]
      BY <1>1, <1>2, <1>3, <3>1
    <3> QED
      BY <1>1, <2>2, <3>1, <3>2 DEF Board!Move, Board!Report, Board!Fail
  <2>3. CASE \/ status[j] \in {"queued", "orphaned"} /\ to = "executing" /\ x \in Worker
             \/ status[j] = "executing" /\ to = "orphaned" /\ x = None
             \/ status[j] \in {"queued", "orphaned"} /\ to = "failed" /\ x = None
             \/ status[j] \in {"executing", "orphaned", "waiting"} /\ to = "queued" /\ x = None
             \/ status[j] \in Open /\ to = "cancelled" /\ x = None
    <3>1. identity'[j] = identity[j]
      BY <1>1, <1>2, <1>3, <2>3
    <3> QED
      BY <1>1, <2>3, <3>1
         DEF Board!Move, Board!Start, Board!Orphan, Board!Fail, Board!Requeue, Board!Cancel
  <2> QED
    BY <2>1, <2>2, <2>3 DEF Moves
<1> QED
  BY <1>4, <1>5 DEF Board!BoardNext

LEMMA BoardRefined ==
  ASSUME TypeInv, ExecutorExecutes, [Next]_vars
  PROVE  [Board!BoardNext]_(Board!boardVars)
<1>1. UNCHANGED <<status, executor>> => UNCHANGED Board!boardVars
  BY DEF Board!boardVars, identity
<1> QED
  BY <1>1, BoardCases, MovesAreMoves

(* Buttons, the reaper, runs and runs that lost their lease do to the jobs only what the
   board of jobs allows: nothing moves a settled job, only the executor reports success or
   asks, and an enqueued job is new work. *)
THEOREM WorkMovesLikeBoard == Spec => MovesLikeBoard
<1>1. Init => ExecutorExecutes /\ Board!BoardInit
  BY DEF Init, ExecutorExecutes, Board!BoardInit, identity
<1>2. TypeInv /\ ExecutorExecutes /\ [Next]_vars => ExecutorExecutes'
  BY ExecutorStep
<1> QED
  BY <1>1, <1>2, TypeInvariant, BoardRefined, PTL DEF Spec, MovesLikeBoard, Board!BoardSpec

=============================================================================
